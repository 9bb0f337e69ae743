------------------------------ MODULE NiTransport ------------------------------
(***************************************************************************)
(* The transport of the NI GPIB-USB-B/HS (driver/devices/ni_usb/           *)
(* NIUSBTransport.cpp): every operation is one request and one answer on   *)
(* the bulk pipes.  The codes of the firmware are passed on; nothing is    *)
(* aborted or drained after a failure.  readBusLines is not implemented    *)
(* (IGPIBTransport answers an error), readRegister has no caller, and the  *)
(* EOS mode never reaches the adapter: eos_flags has only eight bits.      *)
(***************************************************************************)
EXTENDS BulkAdapter

CONSTANTS
    MaxCommand,  \* command bytes in a request (16)
    Block        \* payload bytes of a data block of a read's answer (15 or 30)

ASSUME NiAssumption == MaxCommand \in 1 .. MaxPayload /\ Block \in Nat \ {0}

NI == adapter = "ni"

(* Register requests a call is made of: AUX_CR and AUX_PON; SIFC and CIFC; *)
(* SREN or CREN.                                                           *)
NiExchanges == [attach |-> 2, ifc |-> 2, ren |-> 1, lines |-> 0]

(* What fits in the request; the rest is cut off without an error.         *)
NiWant == Least(call.len, IF call.op = "command" THEN MaxCommand ELSE MaxPayload)

NiRequest ==
    IF call.op \in DataOps
    THEN [kind |-> call.op, own |-> TRUE, want |-> NiWant, eoi |-> call.eoi,
          moved |-> 0, end |-> FALSE]
    ELSE [kind |-> "wr", own |-> TRUE, want |-> 0, eoi |-> FALSE, moved |-> 0, end |-> FALSE]

NiOut == NI /\ call.op # "lines" /\ BulkOut(NiRequest, "in")

NiOutFails ==
    /\ NI /\ call.op # "lines"
    /\ BulkOutFails(NiRequest)
    /\ Return("io")
    /\ UNCHANGED <<adapter, attached, responses, lastMoved, crossed, ended, reply>>

NiLines ==
    /\ NI /\ call.phase = "out" /\ call.op = "lines"
    /\ Return("io")
    /\ UNCHANGED <<adapter, attached, device>>

(* The next register request of the call, or its end.                      *)
NiNext(took) ==
    LET last == call.done + 1 = NiExchanges[call.op] IN
      /\ call' = [call EXCEPT !.done = @ + 1, !.took = IF @ = "lost" THEN @ ELSE took,
                              !.phase = IF last THEN "over" ELSE "out"]
      /\ attached' = (attached \/ (last /\ call.op = "attach"))

(* Mutant of NiRegisterIn: the answer stays in the pipe.                   *)
NiRegisterInUndrained ==
    /\ NI /\ call.op \in RegisterOps
    /\ call.phase = "in" /\ responses # <<>>
    /\ NiNext(Answer.kind)
    /\ UNCHANGED <<adapter, requests, responses, lastMoved, crossed, ended, reply>>

(* writeRegister drains the answer, whatever it is...                      *)
NiRegisterIn ==
    /\ NI /\ call.op \in RegisterOps
    /\ call.phase = "in" /\ responses # <<>>
    /\ responses' = Tail(responses)
    /\ NiNext(Answer.kind)
    /\ UNCHANGED <<adapter, requests, lastMoved, crossed, ended, reply>>

(* ... and goes on without one, too.                                       *)
NiRegisterUnanswered(fails) ==
    /\ NI /\ call.op \in RegisterOps
    /\ NoAnswer(fails)
    /\ NiNext("lost")
    /\ UNCHANGED <<adapter, requests, lastMoved, crossed, ended, reply>>

(* A status block is where the answer of a command or a write has it; in   *)
(* the answer of a read that has data, data is there.                      *)
HasStatusFirst(answer) == answer.kind # "read" \/ answer.moved = 0

(* Mutant of NiStatusIn: the error code of the status is not looked at.    *)
NiStatusInUnread ==
    /\ NI /\ call.op \in {"command", "write"}
    /\ BulkIn
    /\ \E rc \in {"ok"}, left \in {Answer.left} :
         call' = [call EXCEPT !.phase = "over", !.rc = rc, !.took = Answer.kind,
                              !.n = IF call.op = "write" /\ left <= NiWant
                                    THEN NiWant - left ELSE 0]

(* sendCommandBytes and writeData take the next answer for theirs: its     *)
(* block is not asked for its kind.                                        *)
NiStatusIn ==
    /\ NI /\ call.op \in {"command", "write"}
    /\ BulkIn
    /\ \E rc   \in IF HasStatusFirst(Answer) THEN {Answer.err} ELSE Codes,
          left \in IF HasStatusFirst(Answer) THEN {Answer.left} ELSE 0 .. NiWant :
         call' = [call EXCEPT !.phase = "over", !.rc = rc, !.took = Answer.kind,
                              !.n = IF call.op = "write" /\ left <= NiWant
                                    THEN NiWant - left ELSE 0]

BlocksFor(bytes) == (bytes + Block - 1) \div Block

(* How readData counts: the bytes of the blocks that fit in the buffer,    *)
(* trimmed by what the trailing byte says of the last block.               *)
NiCount(moved, want) ==
    LET tail   == moved - (BlocksFor(moved) - 1) * Block
        stored == Least(BlocksFor(moved) * Block, want)
        whole  == stored \div Block
    IN IF moved = 0 THEN 0
       ELSE Least(IF whole > 0 THEN (whole - 1) * Block + tail ELSE tail, stored)

(* readData takes the next answer; it has to be that of a read.            *)
NiReadIn ==
    /\ NI /\ call.op = "read"
    /\ BulkIn
    /\ IF Answer.kind = "read"
       THEN call' = [call EXCEPT !.phase = "over", !.rc = Answer.err, !.took = "read",
                                 !.n = NiCount(Answer.moved, NiWant), !.end = Answer.end]
       ELSE call' = [call EXCEPT !.phase = "over", !.rc = "io", !.took = Answer.kind]

(* No answer: the call fails, and the request remains with the adapter.    *)
NiUnanswered(fails) ==
    /\ NI /\ call.op \in DataOps
    /\ NoAnswer(fails) /\ Return(IF fails THEN "io" ELSE "timeout")
    /\ UNCHANGED <<adapter, attached, requests, lastMoved, crossed, ended, reply>>

NiStep ==
    \/ NiOut \/ NiOutFails \/ NiLines
    \/ NiRegisterIn \/ NiRegisterUnanswered(FALSE)
    \/ NiStatusIn \/ NiReadIn \/ NiUnanswered(FALSE)

NiInFails == NiRegisterUnanswered(TRUE) \/ NiUnanswered(TRUE)
=============================================================================
