---------------------------- MODULE MCEdgeLocation ----------------------------
(* One zone: the zones share nothing but the passes.  Verification times of   *)
(* none and of two seconds.                                                  *)
EXTENDS EdgeLocation

MCVerifs == {0, 2}
=============================================================================
