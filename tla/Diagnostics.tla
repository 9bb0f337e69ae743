----------------------------- MODULE Diagnostics -----------------------------
(***************************************************************************)
(* The diagnostics that travel in the handle of a LineStatus request:      *)
(* tools/gpibctl.c puts a tag above the operands, handleLineStatus         *)
(* (driver/userclient/GPIBUserClient.cpp) takes it apart.  The same field  *)
(* carries the handle of a descriptor, or -1 for the board, in an ordinary *)
(* request for the bus lines.                                              *)
(*                                                                         *)
(* A handle is the int32 of GPIBHandleIn; taken as an unsigned word its    *)
(* bits are those of the handle modulo a power of two.                     *)
(***************************************************************************)
EXTENDS Integers

Nibble28 == 268435456      \* 0x10000000, the unit of the tag
Reinit   == 268435456      \* 0x10000000
UsbReset == 402653184      \* 0x18000000

BoardHandle == -1

(* What a caller may mean.                                                 *)
Lines(h)       == [op |-> "lines", handle |-> h]
Peek(reg)      == [op |-> "peek", reg |-> reg % 65536]
Poke(reg, val) == [op |-> "poke", reg |-> reg % 4096, val |-> val % 256]
SetChunk(n)    == [op |-> "chunk", n |-> n % 65536]
Recover        == [op |-> "reinit"]
Reenumerate    == [op |-> "usbreset"]

(* gpibctl: the handle that asks for it.                                   *)
HandleOf(m) ==
    IF m.op = "lines"      THEN m.handle
    ELSE IF m.op = "peek"  THEN 4 * Nibble28 + m.reg
    ELSE IF m.op = "poke"  THEN 2 * Nibble28 + m.reg * 256 + m.val
    ELSE IF m.op = "chunk" THEN 5 * Nibble28 + m.n
    ELSE IF m.op = "reinit" THEN Reinit
    ELSE UsbReset

(* h & 0xF0000000, in units of the tag.                                    *)
Tag(h) == (h \div Nibble28) % 16

(* Mutant of Meaning: the test of a single bit the code once had.          *)
MeaningByBit(h) ==
    IF (h \div (2 * Nibble28)) % 2 = 1
    THEN Poke(h \div 256, h)
    ELSE Lines(h)

(* handleLineStatus: what the driver does for a handle.                    *)
Meaning(h) ==
    IF h = Reinit        THEN Recover
    ELSE IF h = UsbReset THEN Reenumerate
    ELSE IF Tag(h) = 5   THEN SetChunk(h)
    ELSE IF Tag(h) = 2   THEN Poke(h \div 256, h)
    ELSE IF Tag(h) = 4   THEN Peek(h)
    ELSE Lines(h)

=============================================================================
