--------------------------- MODULE DescriptorTable ---------------------------
(***************************************************************************)
(* The descriptor table one adapter's GPIBBoard keeps (driver/core/        *)
(* GPIBBoard.cpp, `descriptors_`): kMaxDescriptors slots of which slot 0   *)
(* is never given out.  A slot is Free (its handle field is negative) or   *)
(* holds a descriptor; the handle a client is given is the slot's index.   *)
(* What a descriptor records is left to the modules that use the table.    *)
(***************************************************************************)
EXTENDS Naturals

CONSTANTS
    kMaxDescriptors,  \* the size of descriptors_, 64 in the driver
    Free              \* the content of a slot nobody holds

ASSUME TableAssumption == kMaxDescriptors \in Nat \ {0}

(* The slots allocateHandle() searches; 0 is skipped.                      *)
Slots == 1 .. kMaxDescriptors - 1

(* GPIBBoard::init marks every slot free.                                  *)
EmptyTable == [h \in Slots |-> Free]

(* descriptorFor(handle) is not null.                                      *)
IsOpen(t, h) == h \in Slots /\ t[h] # Free

(* Mutant of Allocates: the slot is not checked to be free.                *)
AllocatesUnchecked(t, h) ==
    /\ h \in Slots
    /\ \A k \in Slots : t[k] = Free => h <= k

(* allocateHandle() returns the lowest free slot.                          *)
Allocates(t, h) ==
    /\ h \in Slots
    /\ t[h] = Free
    /\ \A k \in Slots : t[k] = Free => h <= k

(* allocateHandle() returns -1; the caller reports ETAB.                   *)
IsFull(t) == \A h \in Slots : t[h] # Free

(* closeDescriptor(): an open slot becomes free, any other handle is EARG  *)
(* and changes nothing.                                                    *)
Release(t, h) == IF IsOpen(t, h) THEN [t EXCEPT ![h] = Free] ELSE t
=============================================================================
