---------------------------- MODULE MCCloudService ----------------------------
(* Three messages, two of them with end-to-end acknowledgement, and a clock  *)
(* that goes round.                                                        *)
EXTENDS CloudService

CONSTANTS m1, m2, m3

MCMessages == {m1, m2, m3}
MCTwo == {m1, m2}
MCOne == {m1}
MCAll == {"reboot", "stored", "early"}
=============================================================================
