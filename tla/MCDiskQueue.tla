----------------------------- MODULE MCDiskQueue -----------------------------
(* Files of one or two units, limits of nothing, two and three units, and a *)
(* few messages: lists that fit, overflow by one and by two files.          *)
EXTENDS DiskQueue

MCSizes == {1, 2}
MCLimits == {0, 2, 3}
MCAll == {"factory", "crash", "stop"}
=============================================================================
