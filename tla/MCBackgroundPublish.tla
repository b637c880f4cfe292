-------------------------- MODULE MCBackgroundPublish --------------------------
(* TLC instances of BackgroundPublish: two levels, two callers. *)
EXTENDS BackgroundPublish, TLC

CONSTANTS p1, p2, e1, e2, e3

MCPublishers == {p1, p2}
MCEvents     == {e1, e2, e3}
MCTwoEvents  == {e1, e3}
MCOnePublisher == {p1}
MCSilent     == {e3}
MCSymmetry   == Permutations({p1, p2}) \cup Permutations({e1, e2})
=============================================================================
