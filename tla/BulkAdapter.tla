------------------------------ MODULE BulkAdapter ------------------------------
(***************************************************************************)
(* What the transports of the NI GPIB-USB and of the Agilent 82357 have in *)
(* common (driver/devices/ni_usb/NIUSBTransport.cpp, driver/devices/       *)
(* agilent_82357/Agilent82357Transport.cpp): a call of IGPIBTransport      *)
(* sends a request over the bulk-out pipe and, for most, takes what the    *)
(* bulk-in pipe has next for its answer.  Nothing numbers requests or      *)
(* answers, so an answer that comes after its call has given up is there   *)
(* for the next one.                                                       *)
(*                                                                         *)
(* The adapter's firmware is external: it executes requests in the order   *)
(* they came and queues the answers.  A call is one at a time (the board   *)
(* has one queue).  The payload is reduced to counts.                      *)
(***************************************************************************)
EXTENDS Naturals, Sequences

CONSTANTS
    Lengths,     \* bound: how many bytes a command, a write or a read is of
    MaxPayload,  \* bytes a packet has room for (kMaxPayload, kMaxRead)
    MaxPending,  \* bound: requests the adapter accepts before it executes one
    MaxStale,    \* bound: answers the adapter queues before it waits
    Failures     \* what may go wrong, see AllFailures

(* The pipes cannot be opened; a bulk-out or bulk-in transfer fails; a     *)
(* control request goes unanswered: the abort or the transfer status; the  *)
(* firmware answers with an error.                                         *)
AllFailures == {"open", "out", "in", "abort", "status", "error"}

ASSUME BulkAssumption ==
    /\ Lengths \subseteq Nat \ {0} /\ MaxPayload \in Nat \ {0}
    /\ MaxPending \in Nat \ {0} /\ MaxStale \in Nat \ {0}
    /\ Failures \subseteq AllFailures

VARIABLES
    adapter,    \* which transport this is
    attached,   \* attach has succeeded
    call,       \* the call in progress, or the last one, see Calls
    requests,   \* the requests the adapter has not finished
    responses,  \* what is queued on the bulk-in pipe
    lastMoved,  \* bytes of the last transfer the firmware has finished
    crossed,    \* how many bytes of this call have crossed the bus
    ended,      \* EOI has crossed with the last of them
    reply       \* how many bytes the addressed talker has left to say

bulkVars == <<adapter, attached, call, requests, responses, lastMoved, crossed, ended, reply>>
device   == <<requests, responses, lastMoved, crossed, ended, reply>>

(* The calls made of register requests, and the ones that move bytes.      *)
RegisterOps == {"attach", "ifc", "ren", "lines"}
DataOps     == {"command", "write", "read"}
Kinds       == DataOps \cup {"wr", "rd"}
Codes       == {"ok", "io", "timeout", "nolistener"}

(* `done` of the register requests of a call are through.  `rc`, `n` and   *)
(* `end` are what it has to return.  `took` is the kind of the answer it   *)
(* took, "lost" when it went on without one.  `clean` records that it      *)
(* found the pipes empty, `aborted` whether its abort reached the adapter. *)
Calls == [op : RegisterOps \cup DataOps, len : Lengths \cup {0}, eoi : BOOLEAN,
          patient : BOOLEAN, done : 0 .. 4,
          phase : {"open", "out", "in", "status", "late", "over"},
          rc : Codes, n : 0 .. MaxPayload, end : BOOLEAN,
          took : Kinds \cup {"none", "lost"}, clean : BOOLEAN,
          aborted : {"no", "yes", "lost"}]

(* `want` bytes are to be moved, `moved` are; `own`: the call in progress  *)
(* sent it.                                                                *)
Requests == [kind : Kinds, own : BOOLEAN, want : 0 .. MaxPayload, eoi : BOOLEAN,
             moved : 0 .. MaxPayload, end : BOOLEAN]

(* `left` of the bytes asked for were not moved; `err` is its code.        *)
Responses == [kind : Kinds, moved : 0 .. MaxPayload,
              left : 0 .. MaxPayload, end : BOOLEAN, err : Codes]

BulkTypeOK ==
    /\ attached \in BOOLEAN
    /\ call \in Calls
    /\ requests \in Seq(Requests) /\ Len(requests) <= MaxPending
    /\ responses \in Seq(Responses) /\ Len(responses) <= MaxStale + 1
    /\ lastMoved \in 0 .. MaxPayload
    /\ crossed \in 0 .. MaxPayload /\ ended \in BOOLEAN
    /\ reply \in 0 .. MaxPayload

Least(m, n) == IF m < n THEN m ELSE n

InSync == requests = <<>> /\ responses = <<>>

Over == call.phase = "over"
-----------------------------------------------------------------------------
(* init: the pipes are not open yet.                                       *)
BulkInit ==
    /\ attached = FALSE
    /\ call = [op |-> "attach", len |-> 0, eoi |-> FALSE, patient |-> FALSE, done |-> 0,
               phase |-> "open", rc |-> "ok", n |-> 0, end |-> FALSE, took |-> "none",
               clean |-> TRUE, aborted |-> "no"]
    /\ requests = <<>> /\ responses = <<>>
    /\ lastMoved = 0 /\ crossed = 0 /\ ended = FALSE /\ reply = 0

(* The board calls one of the transport's operations; the ones with        *)
(* nothing to do return at once.  `patient`: the timeout is TNONE.         *)
Start(op, len, eoi, patient) ==
    /\ Over /\ attached
    /\ op \in DataOps <=> len > 0
    /\ eoi => op = "write"
    /\ patient => op \in {"write", "read"}
    /\ call' = [op |-> op, len |-> len, eoi |-> eoi, patient |-> patient, done |-> 0,
                phase |-> "out", rc |-> "ok", n |-> 0, end |-> FALSE, took |-> "none",
                clean |-> InSync, aborted |-> "no"]
    /\ requests' = [i \in DOMAIN requests |-> [requests[i] EXCEPT !.own = FALSE]]
    /\ crossed' = 0 /\ ended' = FALSE
    /\ reply' \in IF op = "read" THEN {reply, MaxPayload} ELSE {reply}
    /\ UNCHANGED <<adapter, attached, responses, lastMoved>>

Return(rc) == call' = [call EXCEPT !.phase = "over", !.rc = rc]

(* openPipes, and for the Agilent the device: what was opened stays open.  *)
OpenPipes ==
    /\ call.phase = "open"
    /\ \/ call' = [call EXCEPT !.phase = "out"]
       \/ "open" \in Failures /\ Return("io")
    /\ UNCHANGED <<adapter, attached, device>>

Enqueue(request) == requests' = Append(requests, request)

RoomForRequest == Len(requests) < MaxPending

(* bulkOut with the request, which goes on to `phase`.                     *)
BulkOut(request, phase) ==
    /\ call.phase = "out"
    /\ RoomForRequest /\ Enqueue(request)
    /\ call' = [call EXCEPT !.phase = phase]
    /\ UNCHANGED <<adapter, attached, responses, lastMoved, crossed, ended, reply>>

(* bulkOut fails, or times out on an adapter that takes no more; the       *)
(* request may have arrived all the same.                                  *)
BulkOutFails(request) ==
    /\ call.phase = "out"
    /\ "out" \in Failures \/ (~RoomForRequest /\ ~call.patient)
    /\ UNCHANGED requests \/ ("out" \in Failures /\ RoomForRequest /\ Enqueue(request))

(* bulkIn takes what is at the head of the pipe.                           *)
BulkIn ==
    /\ call.phase \in {"in", "late"}
    /\ responses # <<>>
    /\ responses' = Tail(responses)
    /\ UNCHANGED <<adapter, attached, requests, lastMoved, crossed, ended, reply>>

Answer == Head(responses)

(* Mutant of BulkInTimesOut: the first wait of a call has no time limit.   *)
BulkInTimesOutLate == call.phase = "late" /\ responses = <<>>

(* Nothing comes in time; with TNONE there is no such time.                *)
BulkInTimesOut ==
    /\ call.phase = "late" \/ (call.phase = "in" /\ ~call.patient)
    /\ responses = <<>>

(* bulkIn fails otherwise, and what it was about to take may be lost.      *)
BulkInFails ==
    /\ call.phase \in {"in", "late"}
    /\ "in" \in Failures
    /\ responses' \in {responses} \cup {Tail(r) : r \in {responses} \ {<<>>}}

(* bulkIn returns without an answer.                                       *)
NoAnswer(fails) ==
    IF fails THEN BulkInFails ELSE BulkInTimesOut /\ UNCHANGED responses
-----------------------------------------------------------------------------
(* The firmware moves a byte of the transfer it is at.                     *)
FirmwareMoves ==
    /\ requests # <<>>
    /\ LET r    == Head(requests)
           last == IF r.kind = "read" THEN reply = 1 ELSE r.eoi /\ r.moved + 1 = r.want
       IN
         /\ r.moved < r.want /\ ~r.end
         /\ r.kind = "read" => reply > 0
         /\ reply' = IF r.kind = "read" THEN reply - 1 ELSE reply
         /\ requests' = [requests EXCEPT ![1].moved = @ + 1, ![1].end = last]
         /\ crossed' = IF r.own THEN crossed + 1 ELSE crossed
         /\ ended' = IF r.own THEN last ELSE ended
    /\ UNCHANGED <<adapter, attached, call, responses, lastMoved>>

AnswerTo(r, err) == [kind |-> r.kind, moved |-> r.moved, left |-> r.want - r.moved,
                     end |-> r.end, err |-> err]

(* The Agilent's firmware reports the end of a command or a write over the *)
(* interrupt pipe, which the transport does not read.                      *)
Unannounced(r) == adapter = "agilent" /\ r.kind \in {"command", "write"}

(* It is done with a request: all is moved or the talker has ended.  With  *)
(* an error it may stop short; the error codes are treated alike.          *)
FirmwareFinishes(err) ==
    /\ requests # <<>> /\ Len(responses) < MaxStale
    /\ LET r == Head(requests) IN
         /\ err = "ok" => r.moved = r.want \/ r.end
         /\ err # "ok" => "error" \in Failures
         /\ requests' = Tail(requests)
         /\ lastMoved' = IF Unannounced(r) THEN r.moved ELSE lastMoved
         /\ responses' = IF Unannounced(r) THEN responses ELSE Append(responses, AnswerTo(r, err))
    /\ UNCHANGED <<adapter, attached, call, crossed, ended, reply>>

FirmwareStep ==
    \/ FirmwareMoves
    \/ \E err \in {"ok", "nolistener"} : FirmwareFinishes(err)
=============================================================================
