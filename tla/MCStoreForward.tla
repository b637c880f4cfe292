---------------------------- MODULE MCStoreForward ----------------------------
(* Three messages and room for two, so that the quota costs one.            *)
EXTENDS StoreForward

CONSTANTS m1, m2, m3

MCMessages == {m1, m2, m3}
MCTwo == {m1, m2}
MCAll == {"config", "reboot"}
MCNothing == {}
=============================================================================
