----------------------------- MODULE MCEdgeSleep -----------------------------
(* EdgeSleep with delays of one to five seconds; which outside events a run *)
(* has is chosen in its configuration.                                      *)
EXTENDS EdgeSleep

MCEnabled == {"Enable"}
MCBoth == {"Disable", "Enable"}
MCAll == {"link", "battery", "reset", "trigger", "ota", "config"}
MCBooleans == BOOLEAN
=============================================================================
