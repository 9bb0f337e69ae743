----------------------------- MODULE MCGpibBoard -----------------------------
(* GpibBoard instantiated for TLC: two instruments, two descriptors, and    *)
(* three of the strings a client may send with ibcmd.                       *)
EXTENDS GpibBoard, TLC

CONSTANTS i1, i2

RawStrings == {<<MLA(i1)>>, <<UNT>>, <<MTA(i2), Universal("SPE")>>}
Untalk == {<<UNT>>}
=============================================================================
