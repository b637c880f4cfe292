---------------------------- MODULE MCEdgePower ----------------------------
(* The limits of the firmware: a temperature at the low limit, an ordinary   *)
(* one, one within the hysteresis of the reduced current, one that reduces    *)
(* the current and one at the high limit.  The charges lie below the cutoff,   *)
(* between it and the warning, and above it.                                  *)
EXTENDS EdgePower

MCTemps == {0, 20, 39, 45, 54}
MCCharges == {1, 5, 9}
=============================================================================
