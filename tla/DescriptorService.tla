-------------------------- MODULE DescriptorService --------------------------
(***************************************************************************)
(* What the broker promises its clients (gpibd/gpibd.c:12-16): a           *)
(* descriptor belongs to the client that opened it, stays open as long as  *)
(* that client holds on to it, and what a departed client still owned is   *)
(* given back for it and for nobody else -- "the guarantee a Linux process *)
(* gets from the kernel closing its file descriptors".  That what it owned *)
(* is given back in the end is a matter of Broker's fairness:              *)
(* LeaversAreReaped there.                                                 *)
(***************************************************************************)
CONSTANTS Clients, Descriptors, Nobody

VARIABLES
    present,  \* the clients that are connected
    owner,    \* the client each descriptor belongs to, or Nobody
    holds     \* the descriptors each client has been told it has, and uses

vars == <<present, owner, holds>>

Init ==
    /\ present = Clients
    /\ owner = [d \in Descriptors |-> Nobody]
    /\ holds = [c \in Clients |-> {}]

Open(c, d) ==
    /\ c \in present
    /\ owner[d] = Nobody
    /\ owner' = [owner EXCEPT ![d] = c]
    /\ UNCHANGED <<present, holds>>

(* The client learns of a descriptor of its own ...                        *)
Learn(c, d) ==
    /\ c \in present
    /\ owner[d] = c
    /\ holds' = [holds EXCEPT ![c] = @ \cup {d}]
    /\ UNCHANGED <<present, owner>>

(* ... and asks for it to be closed, which nothing else does.              *)
LetGo(c, d) ==
    /\ d \in holds[c]
    /\ holds' = [holds EXCEPT ![c] = @ \ {d}]
    /\ UNCHANGED <<present, owner>>

Close(c, d) ==
    /\ c \in present
    /\ owner[d] = c
    /\ d \notin holds[c]
    /\ owner' = [owner EXCEPT ![d] = Nobody]
    /\ UNCHANGED <<present, holds>>

Leave(c) ==
    /\ c \in present
    /\ present' = present \ {c}
    /\ holds' = [holds EXCEPT ![c] = {}]
    /\ UNCHANGED owner

(* Given back on behalf of a client that has left.                         *)
GiveBack(c, d) ==
    /\ c \notin present
    /\ owner[d] = c
    /\ owner' = [owner EXCEPT ![d] = Nobody]
    /\ UNCHANGED <<present, holds>>

Next ==
    \E c \in Clients : \/ Leave(c)
                       \/ \E d \in Descriptors : \/ Open(c, d) \/ Learn(c, d)
                                                 \/ LetGo(c, d) \/ Close(c, d)
                                                 \/ GiveBack(c, d)

Spec == Init /\ [][Next]_vars
=============================================================================
