---------------------------- MODULE AgilentTransport ----------------------------
(***************************************************************************)
(* The transport of the Agilent 82357A/B (driver/devices/agilent_82357/    *)
(* Agilent82357Transport.cpp).  Registers are read and written over the    *)
(* bulk pipes and their answers checked; the outcome of a command or a     *)
(* write is asked for with a control request (XFER_STATUS) as soon as the  *)
(* bytes are handed over; a transfer that fails is aborted with another,   *)
(* whose own failure is ignored.  Neither END nor EOS other than EOI is    *)
(* asked for.                                                              *)
(***************************************************************************)
EXTENDS BulkAdapter

AGILENT == adapter = "agilent"

(* The register requests of a call: attach resets, programs the chip,      *)
(* reads HW_CONTROL and writes it back; IFC is set and cleared.            *)
AgilentExchanges == [attach |-> <<"wr", "wr", "rd", "wr">>, ifc |-> <<"wr", "wr">>,
                     ren |-> <<"wr">>, lines |-> <<"rd">>]

Exchange == AgilentExchanges[call.op][call.done + 1]

(* What fits in a packet; the rest is cut off without an error.            *)
AgilentWant == Least(call.len, MaxPayload)

AgilentRequest ==
    IF call.op \in DataOps
    THEN [kind |-> call.op, own |-> TRUE, want |-> AgilentWant, eoi |-> call.eoi,
          moved |-> 0, end |-> FALSE]
    ELSE [kind |-> Exchange, own |-> TRUE, want |-> 0, eoi |-> FALSE, moved |-> 0, end |-> FALSE]

(* A command or a write asks for its status next, the others read.         *)
AgilentOut ==
    /\ AGILENT
    /\ BulkOut(AgilentRequest, IF call.op \in {"command", "write"} THEN "status" ELSE "in")

(* An abort makes the adapter drop the transfer it is at; flushed, a read  *)
(* answers with what it has.                                               *)
AbortArrives(pending, flush) ==
    /\ requests' = IF pending = <<>> THEN pending ELSE Tail(pending)
    /\ responses' = IF pending # <<>> /\ flush /\ Head(pending).kind = "read"
                    THEN Append(responses, AnswerTo(Head(pending), "io"))
                    ELSE responses

(* Mutant of SendAbort: it is not sent.                                    *)
SendAbortNot(pending, flush, next) ==
    /\ requests' = pending /\ UNCHANGED responses
    /\ call' = [next EXCEPT !.aborted = "yes"]

(* sendAbort, whose failure nobody looks at.                               *)
SendAbort(pending, flush, next) ==
    \/ /\ AbortArrives(pending, flush)
       /\ call' = [next EXCEPT !.aborted = "yes"]
    \/ /\ "abort" \in Failures
       /\ requests' = pending /\ UNCHANGED responses
       /\ call' = [next EXCEPT !.aborted = "lost"]

(* bulkOut fails.  A register request just fails; the others abort, which  *)
(* may be for a request that has not arrived.                              *)
AgilentOutFails ==
    /\ AGILENT /\ call.phase = "out"
    /\ "out" \in Failures \/ (~RoomForRequest /\ ~call.patient)
    /\ \E pending \in {requests} \cup
            IF "out" \in Failures /\ RoomForRequest
            THEN {Append(requests, AgilentRequest)} ELSE {} :
         IF call.op \in DataOps
         THEN SendAbort(pending, FALSE, [call EXCEPT !.phase = "over", !.rc = "io"])
         ELSE requests' = pending /\ Return("io") /\ UNCHANGED responses
    /\ UNCHANGED <<adapter, attached, lastMoved, crossed, ended, reply>>

(* Mutant of AgilentRegisterIn: the first byte of the answer, which names  *)
(* the request it answers, is not compared.                                *)
AgilentRegisterInAny ==
    /\ AGILENT /\ call.op \in RegisterOps
    /\ call.phase = "in" /\ responses # <<>>
    /\ responses' = Tail(responses)
    /\ LET rc   == Answer.err
           last == call.done + 1 = Len(AgilentExchanges[call.op])
       IN
         /\ call' = [call EXCEPT !.took = Answer.kind, !.done = @ + 1, !.rc = rc,
                                 !.phase = IF rc = "ok" /\ ~last THEN "out" ELSE "over"]
         /\ attached' = (attached \/ (rc = "ok" /\ last /\ call.op = "attach"))
    /\ UNCHANGED <<adapter, requests, lastMoved, crossed, ended, reply>>

(* The answer has to be to the same kind of request, and report success.   *)
AgilentRegisterIn ==
    /\ AGILENT /\ call.op \in RegisterOps
    /\ call.phase = "in" /\ responses # <<>>
    /\ responses' = Tail(responses)
    /\ LET rc   == IF Answer.kind = Exchange THEN Answer.err ELSE "io"
           last == call.done + 1 = Len(AgilentExchanges[call.op])
       IN
         /\ call' = [call EXCEPT !.took = Answer.kind, !.done = @ + 1, !.rc = rc,
                                 !.phase = IF rc = "ok" /\ ~last THEN "out" ELSE "over"]
         /\ attached' = (attached \/ (rc = "ok" /\ last /\ call.op = "attach"))
    /\ UNCHANGED <<adapter, requests, lastMoved, crossed, ended, reply>>

AgilentRegisterUnanswered(fails) ==
    /\ AGILENT /\ call.op \in RegisterOps
    /\ NoAnswer(fails) /\ Return(IF fails THEN "io" ELSE "timeout")
    /\ UNCHANGED <<adapter, attached, requests, lastMoved, crossed, ended, reply>>

(* The bytes moved by the transfer the adapter is at, or by the last one.  *)
MovedSoFar ==
    IF requests # <<>> /\ Head(requests).kind \in DataOps THEN Head(requests).moved ELSE lastMoved

(* Mutant of AgilentStatus: the length is reported instead of the count.   *)
AgilentStatusLength ==
    /\ AGILENT /\ call.phase = "status"
    /\ call' = [call EXCEPT !.phase = "over", !.took = call.op,
                            !.n = IF call.op = "write" THEN AgilentWant ELSE 0]
    /\ UNCHANGED <<adapter, attached, device>>

(* XFER_STATUS: whether the transfer is over or has failed is not looked   *)
(* at, and a write reports what has been moved by now.                     *)
AgilentStatus ==
    /\ AGILENT /\ call.phase = "status"
    /\ call' = [call EXCEPT !.phase = "over", !.took = call.op,
                            !.n = IF call.op = "write" THEN MovedSoFar ELSE 0]
    /\ UNCHANGED <<adapter, attached, device>>

(* It is not answered: a command fails, a write reports all as written.    *)
AgilentStatusUnanswered ==
    /\ AGILENT /\ call.phase = "status"
    /\ "status" \in Failures
    /\ call' = [call EXCEPT !.phase = "over", !.took = "lost",
                            !.rc = IF call.op = "write" THEN "ok" ELSE "io",
                            !.n  = IF call.op = "write" THEN AgilentWant ELSE 0]
    /\ UNCHANGED <<adapter, attached, device>>

(* Payload and trailing flags as readData finds them in an answer; that of *)
(* a register request has one byte, or two, in front of its last one.      *)
PayloadOf(answer) ==
    Least(AgilentWant, CASE answer.kind = "read" -> answer.moved
                         [] answer.kind = "rd"   -> 2
                         [] OTHER                -> 1)

EndOf(answer) ==
    IF answer.kind = "read" /\ answer.moved <= AgilentWant THEN {answer.end}
    ELSE IF answer.kind = "wr" THEN {FALSE} ELSE BOOLEAN

(* Mutant of AgilentReadIn: the flags count as a byte of the payload.      *)
AgilentReadInFlags ==
    /\ AGILENT /\ call.op = "read"
    /\ BulkIn
    /\ \E end \in EndOf(Answer) :
         call' = [call EXCEPT !.phase = "over", !.took = Answer.kind,
                              !.n = PayloadOf(Answer) + 1, !.end = end]

(* readData takes what comes: it is not asked what it is.                  *)
AgilentReadIn ==
    /\ AGILENT /\ call.op = "read"
    /\ BulkIn
    /\ \E end \in EndOf(Answer) :
         call' = [call EXCEPT !.phase = "over", !.took = Answer.kind,
                              !.n = PayloadOf(Answer), !.end = end]

(* Nothing in time: the partial reply is flushed out and waited for again. *)
AgilentReadLate ==
    /\ AGILENT /\ call.op = "read" /\ call.phase = "in"
    /\ BulkInTimesOut
    /\ SendAbort(requests, TRUE, [call EXCEPT !.phase = "late"])
    /\ UNCHANGED <<adapter, attached, lastMoved, crossed, ended, reply>>

(* Nothing then either: the call returns GPIBT_OK and no bytes.            *)
AgilentReadEmpty(fails) ==
    /\ AGILENT /\ call.op = "read" /\ call.phase = "late"
    /\ NoAnswer(fails)
    /\ Return("ok")
    /\ UNCHANGED <<adapter, attached, requests, lastMoved, crossed, ended, reply>>

(* The transfer fails otherwise: aborted without a flush.                  *)
AgilentReadFails ==
    /\ AGILENT /\ call.op = "read" /\ call.phase = "in"
    /\ "in" \in Failures
    /\ SendAbort(requests, FALSE, [call EXCEPT !.phase = "over", !.rc = "io"])
    /\ UNCHANGED <<adapter, attached, lastMoved, crossed, ended, reply>>

AgilentStep ==
    \/ AgilentOut \/ AgilentOutFails
    \/ AgilentRegisterIn \/ AgilentRegisterUnanswered(FALSE)
    \/ AgilentStatus \/ AgilentStatusUnanswered
    \/ AgilentReadIn \/ AgilentReadLate \/ AgilentReadEmpty(FALSE)

AgilentInFails == AgilentRegisterUnanswered(TRUE) \/ AgilentReadEmpty(TRUE) \/ AgilentReadFails
=============================================================================
