----------------------------- MODULE KusbTransport -----------------------------
(***************************************************************************)
(* The firmware pipeline of the KUSB-488B transport (driver/devices/       *)
(* kusb_488b/KUSB488BTransport.cpp): a call arms the adapter's transfer    *)
(* engine, hands over or fetches the payload in bulk, and polls a status   *)
(* block until the engine has left BUSY; long data goes in chunks.         *)
(*                                                                         *)
(* The engine and its endpoints belong to the adapter and are modelled as  *)
(* the header describes them (KUSB488BTransport.h:80-90): an engine that   *)
(* is not cleared after a failure reports the old transfer's status to the *)
(* next one, and a pipe that failed stays stalled until it is cleared.     *)
(* A payload is its byte numbers.  The register pipeline is left out:      *)
(* kUseFirmwarePipeline switches it off.                                   *)
(***************************************************************************)
EXTENDS Naturals, Sequences

CONSTANTS
    MaxLen,    \* bound: bytes in one call
    MaxCmd,    \* KUSB_MAX_CMD_BYTES, command bytes in one transfer
    Chunks,    \* what maxDataChunk_ may be set to; 0 switches chunking off
    None,      \* the engine has no transfer
    Failures   \* what may go wrong over USB

(* The request that arms the engine, or its acknowledgement, is lost; a    *)
(* bulk transfer fails; status requests go unanswered for longer than      *)
(* kStatusGlitchBudgetNs; nobody accepts a byte, and the engine fails; the *)
(* request to abort, or one to clear a stall, is lost, and nobody looks.   *)
AllFailures == {"begin", "bulk", "status", "engine"} \cup {"abort", "clear"}

CleanUps == {"abort", "clear"}

ASSUME TransportAssumption ==
    /\ MaxLen \in Nat \ {0}
    /\ MaxCmd \in Nat \ {0}
    /\ Chunks \subseteq Nat
    /\ Failures \subseteq AllFailures

VARIABLES
    call,          \* the call in progress, or the last one, see Calls
    maxDataChunk,  \* maxDataChunk_
    engine,        \* the transfer the engine has, see Transfers
    stalled,       \* the stalled pipes
    bus,           \* the bytes that have crossed the bus since the call began, see Crosses
    reply          \* how many bytes the addressed talker has left to say

vars == <<call, maxDataChunk, engine, stalled, bus, reply>>

Pipes == {"command", "write", "read"}
Ops   == Pipes \cup {"reset"}

(* `done` of the `len` bytes are through; `rc`, `n` and `end` are what the *)
(* call has to return: its code (a timeout and an I/O error are one, as    *)
(* nothing here depends on which), *outBytesWritten or *outBytesRead, and  *)
(* *outEnd.  `patient`: its timeout is TNONE.  `clean` records that it     *)
(* found the engine and pipes clear, `lost` that a clean-up of its own did *)
(* not arrive.                                                             *)
Calls == [op : Ops, len : 0 .. MaxLen, eoi : BOOLEAN, patient : BOOLEAN, done : 0 .. MaxLen,
          phase : {"begin", "bulk", "poll", "over"},
          rc : {"ok", "nolistener", "error"},
          n : 0 .. 2 * MaxLen, end : BOOLEAN, clean : BOOLEAN, lost : BOOLEAN]

(* A transfer of the bytes after the first `from`, `want` of them; `moved` *)
(* have crossed the bus and, of a read, `given` have been fetched.  `eoi`: *)
(* a write is to end with EOI, a read has met it.                          *)
Transfers == [op : Pipes, from : 0 .. MaxLen, want : 1 .. MaxLen, eoi : BOOLEAN,
              moved : 0 .. MaxLen, given : 0 .. MaxLen,
              state : {"armed", "busy", "done", "failed"}]

ASSUME NoneAssumption == None \notin Transfers

TypeOK ==
    /\ call \in Calls
    /\ maxDataChunk \in Chunks
    /\ engine = None \/ engine \in Transfers
    /\ stalled \subseteq Pipes
    /\ bus \in Seq([n : Nat, eoi : BOOLEAN])
    /\ reply \in 0 .. MaxLen

Least(m, n) == IF m < n THEN m ELSE n

(* Mutant of Chunk: it is cut from the whole call, not from what is left.  *)
ChunkOfWhole ==
    CASE call.op = "command" -> Least(call.len, MaxCmd)
      [] call.op = "write" /\ maxDataChunk # 0 -> Least(call.len, maxDataChunk)
      [] OTHER -> call.len

(* The bytes the next transfer of the call asks for.                       *)
Chunk ==
    LET left == call.len - call.done IN
      CASE call.op = "command" -> Least(left, MaxCmd)
        [] call.op = "write" /\ maxDataChunk # 0 -> Least(left, maxDataChunk)
        [] OTHER -> left

(* Mutant of SendsEoi: EOI with the last byte of every chunk.              *)
SendsEoiEachChunk == call.eoi

SendsEoi == call.eoi /\ call.done + Chunk = call.len

Armed == [op |-> call.op, from |-> call.done, want |-> Chunk, eoi |-> SendsEoi,
          moved |-> 0, given |-> 0, state |-> IF call.op = "read" THEN "busy" ELSE "armed"]

Clear == engine = None /\ stalled = {}
-----------------------------------------------------------------------------
(* attach: whatever the previous session left, runBringUpSequence follows. *)
Init ==
    /\ call = [op |-> "reset", len |-> 0, eoi |-> FALSE, patient |-> FALSE, done |-> 0,
               phase |-> "begin", rc |-> "ok", n |-> 0, end |-> FALSE, clean |-> FALSE,
               lost |-> FALSE]
    /\ maxDataChunk \in Chunks
    /\ engine \in {None} \cup
         [op : Pipes, from : {0}, want : {1}, eoi : {FALSE}, moved : {0}, given : {0},
          state : {"busy", "failed"}]
    /\ stalled \in SUBSET Pipes
    /\ bus = <<>>
    /\ reply = 0

Return(rc) == call' = [call EXCEPT !.phase = "over", !.rc = rc]

(* The engine is told to give its transfer up, and may not hear it.        *)
AbortTransfer(lost) == engine' = IF "abort" \in lost THEN engine ELSE None

(* And the pipes are cleared one by one, each of which may fail.           *)
RecoverFirmwareEngine(lost) ==
    /\ AbortTransfer(lost)
    /\ stalled' \in IF "clear" \in lost THEN SUBSET stalled ELSE {{}}

(* The call is over after a recovery, of which the requests `lost` are.    *)
(* The caller learns nothing of these: no result of them is looked at.     *)
Recovered(rc, lost) ==
    /\ RecoverFirmwareEngine(lost)
    /\ call' = [call EXCEPT !.phase = "over", !.rc = rc, !.lost = lost # {}]

Losses == SUBSET (CleanUps \cap Failures)

(* sendCommandBytes, writeData, readData and softReset are called; the     *)
(* calls with nothing to do return at once.  Only writeData and readData   *)
(* are given a timeout.  An addressed talker may have a new reply for a    *)
(* read.                                                                   *)
Start(op, len, eoi, patient) ==
    /\ call.phase = "over"
    /\ op = "reset" <=> len = 0
    /\ eoi => op = "write"
    /\ patient => op \in {"write", "read"}
    /\ call' = [op |-> op, len |-> len, eoi |-> eoi, patient |-> patient, done |-> 0,
                phase |-> "begin", rc |-> "ok", n |-> 0, end |-> FALSE, clean |-> Clear,
                lost |-> FALSE]
    /\ bus' = <<>>
    /\ reply' \in IF op = "read" THEN {reply, MaxLen} ELSE {reply}
    /\ UNCHANGED <<maxDataChunk, engine, stalled>>

SetMaxDataChunk(bytes) ==
    /\ call.phase = "over"
    /\ maxDataChunk' = bytes
    /\ UNCHANGED <<call, engine, stalled, bus, reply>>

(* runBringUpSequence clears the engine before it programs the chip, which *)
(* may still fail.                                                         *)
RunBringUpSequence ==
    /\ call.phase = "begin" /\ call.op = "reset"
    /\ \E rc \in {"ok", "error"}, lost \in Losses : Recovered(rc, lost)
    /\ UNCHANGED <<maxDataChunk, bus, reply>>

(* beginTransfer.  An engine that still has a transfer keeps that one.     *)
BeginTransfer ==
    /\ call.phase = "begin" /\ call.op # "reset"
    /\ engine' = IF engine = None THEN Armed ELSE engine
    /\ call' = [call EXCEPT !.phase = "bulk"]
    /\ UNCHANGED <<maxDataChunk, stalled, bus, reply>>

(* It fails, whether or not the request arrived, and nothing is cleared.   *)
BeginFails ==
    /\ call.phase = "begin" /\ call.op # "reset"
    /\ "begin" \in Failures
    /\ engine' \in {engine, IF engine = None THEN Armed ELSE engine}
    /\ Return("error")
    /\ UNCHANGED <<maxDataChunk, stalled, bus, reply>>

(* A bulk transfer over a stalled pipe fails, a fetch may time out unless  *)
(* its timeout is TNONE, which USB takes for none at all, and any may fail;*)
(* every failure is followed by a recovery.                                *)
BulkFails ==
    /\ call.phase = "bulk"
    /\ \/ call.op \in stalled \/ "bulk" \in Failures
       \/ call.op = "read" /\ ~call.patient
    /\ \E lost \in Losses : Recovered("error", lost)
    /\ UNCHANGED <<maxDataChunk, bus, reply>>

BulkOut ==
    /\ call.phase = "bulk" /\ call.op \in {"command", "write"} \ stalled
    /\ engine' = IF engine.state = "armed" THEN [engine EXCEPT !.state = "busy"] ELSE engine
    /\ call' = [call EXCEPT !.phase = "poll"]
    /\ UNCHANGED <<maxDataChunk, stalled, bus, reply>>

Fetched == Least(engine.moved - engine.given, call.len - call.done)

(* Mutant of BulkIn: it returns at once when there is nothing to fetch.    *)
BulkInReturnsEmpty ==
    /\ call.phase = "bulk" /\ call.op = "read" /\ "read" \notin stalled
    /\ engine.op = "read"
    /\ engine' = [engine EXCEPT !.given = @ + Fetched]
    /\ call' = [call EXCEPT !.phase = "poll", !.done = @ + Fetched]
    /\ UNCHANGED <<maxDataChunk, stalled, bus, reply>>

(* bulkIn waits until the engine has something, and returns what it has.   *)
BulkIn ==
    /\ call.phase = "bulk" /\ call.op = "read" /\ "read" \notin stalled
    /\ engine.op = "read" /\ Fetched > 0
    /\ engine' = [engine EXCEPT !.given = @ + Fetched]
    /\ call' = [call EXCEPT !.phase = "poll", !.done = @ + Fetched]
    /\ UNCHANGED <<maxDataChunk, stalled, bus, reply>>
-----------------------------------------------------------------------------
Polling == call.phase = "poll"

(* The status has left BUSY; reading it makes the engine idle.             *)
Completed == Polling /\ engine.state \in {"done", "failed"}

(* Mutant of ChunkDone: the count the engine reports is not looked at.     *)
ChunkDoneUncounted ==
    call' = [call EXCEPT !.done = @ + Chunk,
                         !.n = IF call.op = "write" THEN call.done + Chunk ELSE 0,
                         !.phase = IF call.done + Chunk = call.len THEN "over" ELSE "begin"]

(* Mutant of ChunkDone: the whole chunk is reported as written.            *)
ChunkDoneRounded ==
    LET complete == engine.moved = Chunk IN
      call' = [call EXCEPT
                 !.n     = IF call.op = "write" THEN call.done + Chunk ELSE 0,
                 !.done  = IF complete THEN @ + Chunk ELSE @,
                 !.rc    = IF complete THEN "ok" ELSE "nolistener",
                 !.phase = IF complete /\ call.done + Chunk < call.len THEN "begin" ELSE "over"]

(* A transfer of a command or a write is done: on with the next chunk,     *)
(* unless this one was short or the last.                                  *)
ChunkDone ==
    LET complete == engine.moved = Chunk IN
      call' = [call EXCEPT
                 !.n     = IF call.op = "write" THEN call.done + engine.moved ELSE 0,
                 !.done  = IF complete THEN @ + Chunk ELSE @,
                 !.rc    = IF complete THEN "ok" ELSE "nolistener",
                 !.phase = IF complete /\ call.done + Chunk < call.len THEN "begin" ELSE "over"]

(* pollStatus of a command or a write finds it done.                       *)
PollDone ==
    /\ Completed /\ call.op # "read" /\ engine.state = "done"
    /\ engine' = None
    /\ ChunkDone
    /\ UNCHANGED <<maxDataChunk, stalled, bus, reply>>

(* It finds it failed: the code goes back to the caller of the transport.  *)
PollFailed ==
    /\ Completed /\ call.op # "read" /\ engine.state = "failed"
    /\ engine' = None
    /\ Return("error")
    /\ UNCHANGED <<maxDataChunk, stalled, bus, reply>>

(* It passes its deadline, whatever the engine has come to since.  Under   *)
(* TNONE that is the 71 minutes its microseconds come to, not never.       *)
PollTimesOut ==
    /\ Polling /\ call.op # "read"
    /\ \E lost \in SUBSET ({"abort"} \cap Failures) :
         /\ AbortTransfer(lost)
         /\ call' = [call EXCEPT !.phase = "over", !.rc = "error", !.lost = lost # {}]
    /\ UNCHANGED <<maxDataChunk, stalled, bus, reply>>

(* Its status requests go unanswered: it returns without an abort.         *)
PollGivesUp ==
    /\ Polling /\ call.op # "read"
    /\ "status" \in Failures
    /\ Return("error")
    /\ UNCHANGED <<maxDataChunk, engine, stalled, bus, reply>>

(* The end of readDataViaFirmware: the engine's count, but no more than    *)
(* was fetched, and its END.                                               *)
ReturnRead(lost) ==
    call' = [call EXCEPT !.phase = "over", !.n = Least(engine.moved, call.done),
                         !.end = engine.eoi, !.lost = lost # {}]

ReadDone ==
    /\ Completed /\ call.op = "read" /\ engine.state = "done"
    /\ engine' = None
    /\ ReturnRead({})
    /\ UNCHANGED <<maxDataChunk, stalled, bus, reply>>

ReadFailed ==
    /\ Completed /\ call.op = "read" /\ engine.state = "failed"
    /\ \E lost \in Losses : Recovered("error", lost)
    /\ UNCHANGED <<maxDataChunk, bus, reply>>

ReadBusy == Polling /\ call.op = "read" /\ engine.state = "busy"

(* Still BUSY with room left: go fetch the next piece.                     *)
ReadMore ==
    /\ ReadBusy /\ call.done < call.len
    /\ call' = [call EXCEPT !.phase = "bulk"]
    /\ UNCHANGED <<maxDataChunk, engine, stalled, bus, reply>>

(* Mutant of ReadStops: the engine is left running.                        *)
ReadStopsOnly ==
    /\ ReadBusy /\ call.done = call.len
    /\ ReturnRead({})
    /\ UNCHANGED <<maxDataChunk, engine, stalled, bus, reply>>

(* Still BUSY and the buffer full: stop it and return what there is.       *)
ReadStops ==
    /\ ReadBusy /\ call.done = call.len
    /\ \E lost \in Losses : RecoverFirmwareEngine(lost) /\ ReturnRead(lost)
    /\ UNCHANGED <<maxDataChunk, bus, reply>>

(* Six status blocks in a row are missing, or short as they are in BUSY.   *)
ReadGivesUp ==
    /\ Polling /\ call.op = "read"
    /\ "status" \in Failures \/ ReadBusy
    /\ \E lost \in Losses : Recovered("error", lost)
    /\ UNCHANGED <<maxDataChunk, bus, reply>>
-----------------------------------------------------------------------------
(* The record of the bus is kept for the calls that began with everything  *)
(* clear; of the others nothing is said.                                   *)
Crosses(byte) == bus' = IF call.clean THEN Append(bus, byte) ELSE bus

(* The engine moves a byte over the bus.                                   *)
Move ==
    /\ engine # None /\ engine.state = "busy" /\ engine.moved < engine.want
    /\ IF engine.op = "read"
       THEN /\ reply > 0 /\ ~engine.eoi
            /\ reply' = reply - 1
            /\ engine' = [engine EXCEPT !.moved = @ + 1, !.eoi = reply = 1]
            /\ Crosses([n |-> engine.from + engine.moved + 1, eoi |-> reply = 1])
       ELSE /\ UNCHANGED reply
            /\ engine' = [engine EXCEPT !.moved = @ + 1]
            /\ Crosses([n   |-> engine.from + engine.moved + 1,
                        eoi |-> engine.eoi /\ engine.moved + 1 = engine.want])
    /\ UNCHANGED <<call, maxDataChunk, stalled>>

(* It is done: with all it was asked for, or with less when nobody listens *)
(* any more or the talker has ended, a read only once all were fetched.    *)
EngineDone ==
    /\ engine # None /\ engine.state = "busy"
    /\ engine.op = "read" => /\ engine.moved = engine.want \/ engine.eoi
                             /\ engine.given = engine.moved
    /\ engine' = [engine EXCEPT !.state = "done"]
    /\ UNCHANGED <<call, maxDataChunk, stalled, bus, reply>>

(* It fails, and the pipe it used is halted.                               *)
EngineFails ==
    /\ engine # None /\ engine.state = "busy"
    /\ "engine" \in Failures
    /\ engine' = [engine EXCEPT !.state = "failed"]
    /\ stalled' = stalled \cup {engine.op}
    /\ UNCHANGED <<call, maxDataChunk, bus, reply>>

HostStep ==
    \/ RunBringUpSequence \/ BeginTransfer \/ BeginFails
    \/ BulkFails \/ BulkOut \/ BulkIn
    \/ PollDone \/ PollFailed \/ PollTimesOut \/ PollGivesUp
    \/ ReadDone \/ ReadFailed \/ ReadMore \/ ReadStops \/ ReadGivesUp

EngineStep == Move \/ EngineDone \/ EngineFails

Next ==
    \/ \E op \in Ops, len \in 0 .. MaxLen, eoi, patient \in BOOLEAN : Start(op, len, eoi, patient)
    \/ \E bytes \in Chunks : SetMaxDataChunk(bytes)
    \/ HostStep
    \/ EngineStep

Spec == Init /\ [][Next]_vars

(* A bulk transfer under TNONE: USB never gives it up.                     *)
Untimed == call.phase = "bulk" /\ call.patient

(* Other bulk transfers and all control transfers have USB timeouts, polls *)
(* a deadline, so the host goes on; nothing is assumed of the engine or    *)
(* the instruments.                                                        *)
FairSpec == Spec /\ WF_vars(HostStep /\ ~Untimed)
-----------------------------------------------------------------------------
(* The bytes of the call as they are to cross the bus.                     *)
Message == [i \in 1 .. call.len |-> [n |-> i, eoi |-> call.eoi /\ i = call.len]]

Over == call.phase = "over"
Sends == call.clean /\ call.op \in {"command", "write"}

(* However a call is chunked and wherever it fails, nothing crosses the    *)
(* bus out of order or twice, and EOI only with its very last byte.        *)
WireIsPrefix == Sends => Len(bus) <= call.len /\ bus = SubSeq(Message, 1, Len(bus))

(* A command or write that returns GPIBT_OK has sent all of its message.   *)
OkIsWhole == Sends /\ Over /\ call.rc = "ok" => Len(bus) = call.len

(* A write never reports bytes that did not cross the bus, and a read that *)
(* returns GPIBT_OK reports every byte it took from the talker, and END    *)
(* exactly if the last of them came with it: no part of a reply is lost.   *)
CountsAreTrue ==
    call.clean /\ Over =>
      /\ call.op = "write" => call.n <= Len(bus)
      /\ call.op = "read" /\ call.rc = "ok" =>
           call.n = Len(bus) /\ call.end = bus[Len(bus)].eoi

(* A call that succeeds leaves nothing behind, and neither does a bring-up *)
(* whatever the calls or the session before it had left, unless an abort   *)
(* or the clearing of a pipe was lost on the way.                          *)
LeavesClear ==
    Over /\ (call.op = "reset" \/ (call.clean /\ call.rc = "ok")) /\ ~call.lost => Clear

(* Every call returns, whatever the instruments or the adapter do, unless  *)
(* it waits under TNONE in a transfer that USB never gives up.             *)
CallEnds == ~Over ~> Over \/ Untimed
=============================================================================
