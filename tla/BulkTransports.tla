----------------------------- MODULE BulkTransports -----------------------------
(***************************************************************************)
(* An adapter with either of the two bulk transports, from attach on: its  *)
(* board makes one call after another, and the adapter's firmware answers  *)
(* when it does.                                                           *)
(***************************************************************************)
EXTENDS NiTransport, AgilentTransport

TypeOK == adapter \in {"ni", "agilent"} /\ BulkTypeOK

Init == adapter \in {"ni", "agilent"} /\ BulkInit

TransportStep == OpenPipes \/ NiStep \/ AgilentStep

InFails == NiInFails \/ AgilentInFails

Next ==
    \/ \E op \in RegisterOps \cup DataOps, len \in Lengths \cup {0}, eoi, patient \in BOOLEAN :
         op # "attach" /\ Start(op, len, eoi, patient)
    \/ TransportStep
    \/ InFails
    \/ FirmwareStep

Spec == Init /\ [][Next]_bulkVars

(* The transport's own steps are computations and USB requests that end or *)
(* time out; nothing is assumed of the adapter or the instruments, nor     *)
(* that a transfer that has no answer to bring fails otherwise.            *)
FairSpec == Spec /\ WF_bulkVars(TransportStep)
-----------------------------------------------------------------------------
(* A command or a write for which the NI transport returns GPIBT_OK has    *)
(* crossed the bus, with the EOI it was to have, up to what its request    *)
(* has room for: sixteen command bytes, a packet of data.  Provided the    *)
(* call found nothing of an earlier one in the pipes.                      *)
OkIsWhole ==
    NI /\ call.clean /\ Over /\ call.rc = "ok" /\ call.op \in {"command", "write"} =>
      /\ crossed = Least(call.len, IF call.op = "command" THEN MaxCommand ELSE MaxPayload)
      /\ ended = call.eoi

(* The full data blocks of a reply hold more than the buffer has room for. *)
LastBlockSticksOut == BlocksFor(crossed) > 1 /\ BlocksFor(crossed) * Block > NiWant

(* A call that begins in sync never reports more bytes as written than     *)
(* crossed the bus, unless its XFER_STATUS went unanswered; a read that    *)
(* succeeds reports every byte it took from the talker, and END as it came *)
(* with the last; only, the NI transport counts a block too few when the   *)
(* last block sticks out of the buffer.                                    *)
CountsAreTrue ==
    call.clean /\ Over =>
      /\ call.op = "write" /\ call.took # "lost" => call.n <= crossed
      /\ call.op = "read" /\ call.took = "read" /\ call.rc = "ok" =>
           /\ call.n = IF NI /\ LastBlockSticksOut THEN crossed - Block ELSE crossed
           /\ call.end = ended

(* Whatever earlier calls left in the pipe: a read of the NI transport     *)
(* never returns what is not a read's answer for data, and no register     *)
(* call of the Agilent's succeeds on another kind of answer.               *)
IdsChecked ==
    Over /\ call.rc = "ok" =>
      /\ NI /\ call.op = "read" => call.took = "read"
      /\ AGILENT /\ call.op \in RegisterOps =>
           LET kinds == AgilentExchanges[call.op] IN call.took = kinds[Len(kinds)]

(* The pipes fall out of step only through a call that failed or went      *)
(* without an answer: any other one leaves them as empty as it found them; *)
(* only the Agilent's firmware may still be at a command or a write that   *)
(* has returned.                                                           *)
SyncKept ==
    call.clean /\ Over /\ call.rc = "ok" /\ call.took \notin {"none", "lost"} =>
      /\ responses = <<>>
      /\ requests # <<>> => AGILENT /\ call.op \in {"command", "write"}

(* A read of the Agilent transport that is over, in whatever way, is over  *)
(* on the adapter too, unless the abort was lost: it does not go on taking *)
(* bytes the next read is to have.                                         *)
AbortStopsAdapter ==
    AGILENT /\ call.clean /\ Over /\ call.op = "read" /\ call.aborted # "lost" =>
      requests = <<>>

(* Every call ends whatever the adapter does, unless it may wait for ever. *)
CallEnds == []<>(Over \/ call.patient)
=============================================================================
