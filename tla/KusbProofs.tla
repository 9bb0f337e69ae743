------------------------------ MODULE KusbProofs ------------------------------
(***************************************************************************)
(* What the firmware pipeline of the KUSB-488B transport puts on the bus   *)
(* and reports, for messages, chunks and failures of any number and size.  *)
(***************************************************************************)
EXTENDS KusbTransport, SequenceTheorems, TLAPS

(* The engine fetches no more than it has, and moves no more than it is to.*)
EngineSound == engine # None => engine.given <= engine.moved /\ engine.moved <= engine.want

(* What the phase of a call says of it.                                    *)
CallSound ==
    /\ call.done <= call.len
    /\ call.op = "reset" => call.phase \in {"begin", "over"}
    /\ call.phase = "begin" /\ call.op # "reset" => call.done < call.len
    /\ call.phase \in {"bulk", "poll"} => engine # None
    /\ call.phase = "poll" /\ call.op = "read" => engine.op = "read"
    /\ call.phase # "over" => call.rc = "ok"
    /\ Over /\ call.op = "reset" /\ ~call.lost => Clear

(* The bytes on the bus are the first of the call's, EOI with the last.    *)
Sent == /\ Len(bus) <= call.len
        /\ \A i \in 1 .. Len(bus) : bus[i] = [n |-> i, eoi |-> call.eoi /\ i = call.len]

(* The engine's transfer is one of the call's own chunks, as far through   *)
(* as the bus has seen of it, and carries EOI if it is the last.           *)
OwnChunk ==
    /\ engine.op = call.op
    /\ engine.from + engine.want <= call.len
    /\ engine.eoi <=> call.eoi /\ engine.from + engine.want = call.len
    /\ Len(bus) = engine.from + engine.moved

(* A command or a write that began with everything clear.                  *)
SendSound ==
    /\ Sent
    /\ engine # None => OwnChunk
    /\ call.n <= Len(bus)
    /\ call.phase = "begin" => engine = None /\ stalled = {} /\ Len(bus) = call.done
    /\ call.phase \in {"bulk", "poll"} => engine.from = call.done /\ engine.want = Chunk
    /\ call.phase = "bulk" => engine.state = "armed" /\ engine.moved = 0 /\ stalled = {}
    /\ call.phase = "poll" => engine.state # "armed" /\ (engine.state = "failed" \/ stalled = {})
    /\ Over /\ call.rc = "ok" => Clear /\ Len(bus) = call.len

(* A read that did.                                                        *)
ReadSound ==
    /\ call.phase = "begin" => engine = None /\ stalled = {} /\ bus = <<>> /\ call.done = 0
    /\ call.phase \in {"bulk", "poll"} =>
         /\ engine.op = "read" /\ engine.want = call.len
         /\ engine.given = call.done /\ engine.moved = Len(bus)
         /\ Len(bus) > 0 => engine.eoi = bus[Len(bus)].eoi
         /\ engine.state # "armed"
         /\ engine.state = "done" => engine.given = engine.moved
         /\ engine.state = "failed" \/ stalled = {}
    /\ call.phase = "poll" => call.done > 0
    /\ Over /\ call.rc = "ok" =>
         /\ Len(bus) > 0 /\ call.n = Len(bus) /\ call.end = bus[Len(bus)].eoi
         /\ engine # None => engine.moved = engine.want
         /\ ~call.lost => Clear

IInv ==
    /\ TypeOK /\ EngineSound /\ CallSound
    /\ Sends => SendSound
    /\ call.clean /\ call.op = "read" => ReadSound

-----------------------------------------------------------------------------
(* A chunk has a byte at least, and no more than are left.                 *)
LEMMA ChunkFits ==
    ASSUME TypeOK, call.done < call.len
    PROVE  /\ Chunk \in 1 .. MaxLen /\ call.done + Chunk <= call.len
           /\ call.op = "read" => Chunk = call.len - call.done
<1>1. /\ call.len \in 0 .. MaxLen /\ call.done \in 0 .. MaxLen /\ MaxLen \in Nat /\ MaxCmd \in Nat \ {0}
      /\ maxDataChunk \in Nat
  BY TransportAssumption DEF TypeOK, Calls
<1>2. call.len - call.done \in 1 .. MaxLen
  BY <1>1
<1>3. CASE call.op = "command"
  BY <1>1, <1>2, <1>3 DEF Chunk, Least
<1>4. CASE call.op = "write" /\ maxDataChunk # 0
  BY <1>1, <1>2, <1>4 DEF Chunk, Least
<1>5. CASE call.op # "command" /\ ~(call.op = "write" /\ maxDataChunk # 0)
  <2>1. Chunk = call.len - call.done
    BY <1>5 DEF Chunk
  <2> QED BY <1>1, <1>2, <2>1, <1>5
<1> QED BY <1>3, <1>4, <1>5

(* What arming the engine gives it.                                        *)
LEMMA ArmedIsWell ==
    ASSUME TypeOK, call.done < call.len, call.op # "reset"
    PROVE  /\ Armed \in Transfers /\ Armed.given = 0 /\ Armed.moved = 0 /\ Armed.from = call.done
           /\ Armed.want = Chunk /\ Armed.op = call.op 
           /\ Armed.eoi <=> call.eoi /\ call.done + Chunk = call.len
           /\ Armed.state = (IF call.op = "read" THEN "busy" ELSE "armed")
           /\ Chunk \in 1 .. MaxLen /\ call.done + Chunk <= call.len
<1>1. Chunk \in 1 .. MaxLen /\ call.done + Chunk <= call.len
  BY ChunkFits
<1>2. /\ call.op \in Pipes /\ call.done \in 0 .. MaxLen /\ call.len \in 0 .. MaxLen /\ call.eoi \in BOOLEAN
      /\ 0 \in 0 .. MaxLen
  BY TransportAssumption DEF TypeOK, Calls, Ops
<1>3. SendsEoi \in BOOLEAN
  BY <1>2 DEF SendsEoi
<1>4. /\ Armed \in Transfers /\ Armed.given = 0 /\ Armed.moved = 0 /\ Armed.from = call.done
      /\ Armed.want = Chunk /\ Armed.op = call.op /\ Armed.eoi = SendsEoi
      /\ Armed.state = (IF call.op = "read" THEN "busy" ELSE "armed")
  BY <1>1, <1>2, <1>3 DEF Armed, Transfers
<1>5. Armed.eoi <=> call.eoi /\ call.done + Chunk = call.len
  BY <1>4 DEF SendsEoi
<1> QED BY <1>1, <1>4, <1>5

(* What is sent is the beginning of the message.                           *)
LEMMA SentIsPrefix ==
    ASSUME TypeOK, Sent
    PROVE  Len(bus) <= call.len /\ bus = SubSeq(Message, 1, Len(bus))
<1>1. /\ bus \in Seq([n : Nat, eoi : BOOLEAN]) /\ Len(bus) \in Nat /\ call.len \in Nat
      /\ Len(bus) <= call.len
  BY DEF TypeOK, Sent, Calls
<1>2. /\ Message \in [1 .. call.len -> [n : Nat, eoi : BOOLEAN]]
      /\ \A i \in 1 .. call.len : Message[i] = [n |-> i, eoi |-> call.eoi /\ i = call.len]
  BY <1>1 DEF Message, TypeOK, Calls
<1> DEFINE s == SubSeq(Message, 1, Len(bus))
<1>3. /\ s \in Seq([n : Nat, eoi : BOOLEAN]) /\ Len(s) = Len(bus)
      /\ \A i \in 1 .. Len(bus) : s[i] = Message[i]
  <2>1. ASSUME NEW i \in 1 .. Len(bus)
        PROVE  Message[i] \in [n : Nat, eoi : BOOLEAN]
    <3>1. i \in 1 .. call.len
      BY <1>1
    <3> QED BY <1>2, <3>1
  <2>2. /\ s \in Seq([n : Nat, eoi : BOOLEAN])
        /\ Len(s) = IF 1 <= Len(bus) THEN Len(bus) - 1 + 1 ELSE 0
        /\ \A i \in 1 .. Len(bus) - 1 + 1 : s[i] = Message[1 + i - 1]
    BY <1>1, <2>1, SubSeqProperties
  <2> HIDE DEF s
  <2> QED BY <1>1, <2>2
<1>4. \A i \in 1 .. Len(bus) : s[i] = bus[i]
  <2>1. \A i \in 1 .. Len(bus) : i \in 1 .. call.len
    BY <1>1
  <2> HIDE DEF s
  <2> QED BY <1>2, <1>3, <2>1 DEF Sent
<1> HIDE DEF s
<1>5. s = bus
  BY <1>1, <1>3, <1>4, SeqEqual
<1> QED BY <1>1, <1>5 DEF s

-----------------------------------------------------------------------------
(* A call that fails promises nothing of the engine but that, if it has a  *)
(* transfer, it is a chunk of the call.                                    *)
LEMMA Failed ==
    ASSUME IInv, call.phase # "over", call.op # "reset", NEW lost \in BOOLEAN,
           call' = [call EXCEPT !.phase = "over", !.rc = "error", !.lost = lost],
           engine' \in {None, engine} \/ (call.phase = "begin" /\ engine = None /\ engine' = Armed),
           stalled' \subseteq Pipes, UNCHANGED <<maxDataChunk, bus, reply>>
    PROVE  IInv'
<1>1. TypeOK /\ EngineSound /\ CallSound /\ call \in Calls
  BY DEF IInv, TypeOK
<1>2. /\ call' \in Calls /\ call'.phase = "over" /\ call'.rc = "error" /\ call'.op = call.op /\ call'.done = call.done
      /\ call'.len = call.len /\ call'.clean = call.clean /\ call'.eoi = call.eoi /\ call'.n = call.n
  BY <1>1 DEF Calls
<1>3. CASE engine' \in {None, engine}
  <2>1. TypeOK' /\ EngineSound'
    BY <1>1, <1>2, <1>3 DEF TypeOK, EngineSound
  <2>2. CallSound'
    BY <1>1, <1>2 DEF CallSound, Over
  <2>3. ASSUME Sends' PROVE SendSound'
    <3>1. SendSound
      BY <1>2, <2>3 DEF Sends, IInv
    <3>2. Sent' /\ (engine' # None => OwnChunk')
      BY <1>2, <1>3, <3>1 DEF SendSound, Sent, OwnChunk
    <3> QED BY <1>2, <3>1, <3>2 DEF SendSound, Over
  <2>4. ReadSound'
    BY <1>2 DEF ReadSound, Over
  <2> QED BY <2>1, <2>2, <2>3, <2>4 DEF IInv
<1>4. CASE call.phase = "begin" /\ engine = None /\ engine' = Armed
  <2>1. call.done < call.len
    BY <1>1, <1>4 DEF CallSound
  <2>2. /\ Armed \in Transfers /\ Armed.given = 0 /\ Armed.moved = 0 /\ Armed.from = call.done
        /\ Armed.want = Chunk /\ Armed.op = call.op /\ Chunk \in 1 .. MaxLen
        /\ call.done + Chunk <= call.len
        /\ Armed.eoi <=> call.eoi /\ call.done + Chunk = call.len
    BY <1>1, <2>1, ArmedIsWell
  <2>3. TypeOK' /\ EngineSound'
    BY <1>1, <1>2, <1>4, <2>2 DEF TypeOK, EngineSound
  <2>4. CallSound'
    BY <1>1, <1>2 DEF CallSound, Over
  <2>5. ASSUME Sends' PROVE SendSound'
    <3>1. SendSound
      BY <1>2, <2>5 DEF Sends, IInv
    <3>2. Sent' /\ OwnChunk'
      <4>1. Len(bus) = call.done /\ Len(bus) \in Nat
        BY <1>1, <1>4, <3>1 DEF SendSound, TypeOK
      <4>2. OwnChunk'
        BY <1>1, <1>2, <1>4, <2>2, <4>1 DEF OwnChunk
      <4> QED BY <1>2, <3>1, <4>2 DEF SendSound, Sent
    <3> QED BY <1>2, <3>1, <3>2 DEF SendSound, Over
  <2>6. ReadSound'
    BY <1>2 DEF ReadSound, Over
  <2> QED BY <2>3, <2>4, <2>5, <2>6 DEF IInv
<1> QED BY <1>3, <1>4

-----------------------------------------------------------------------------
(* The calls' beginnings.                                                  *)
LEMMA StartKeeps ==
    ASSUME IInv, NEW op \in Ops, NEW len \in 0 .. MaxLen, NEW eoi \in BOOLEAN, NEW patient \in BOOLEAN,
           Start(op, len, eoi, patient)
    PROVE  IInv'
<1> DEFINE d == [op |-> op, len |-> len, eoi |-> eoi, patient |-> patient, done |-> 0,
                 phase |-> "begin", rc |-> "ok", n |-> 0, end |-> FALSE, clean |-> Clear,
                 lost |-> FALSE]
<1>1. /\ TypeOK /\ EngineSound /\ call' = d /\ bus' = <<>> /\ (op = "reset" <=> len = 0)
      /\ reply' \in {reply, MaxLen} /\ UNCHANGED <<maxDataChunk, engine, stalled>>
  BY DEF IInv, Start
<1>2. MaxLen \in Nat /\ 0 \in 0 .. MaxLen /\ MaxLen \in 0 .. MaxLen /\ 0 \in 0 .. 2 * MaxLen /\ Clear \in BOOLEAN
  BY TransportAssumption DEF Clear
<1>3. d \in Calls
  BY <1>2 DEF Calls
<1>4. TypeOK' /\ EngineSound'
  <2>1. <<>> \in Seq([n : Nat, eoi : BOOLEAN])
    OBVIOUS
  <2> QED BY <1>1, <1>2, <1>3, <2>1 DEF TypeOK, EngineSound
<1>5. CallSound'
  BY <1>1, <1>2 DEF CallSound, Over
<1>6. call'.clean => engine' = None /\ stalled' = {}
  BY <1>1 DEF Clear
<1>7. ASSUME Sends' PROVE SendSound'
  BY <1>1, <1>6, <1>7 DEF Sends, SendSound, Sent, Over
<1>8. call'.clean => ReadSound'
  BY <1>1, <1>6 DEF ReadSound, Over
<1> QED BY <1>4, <1>5, <1>7, <1>8 DEF IInv

(* Nothing is in progress when maxDataChunk_ changes.                      *)
LEMMA SetMaxDataChunkKeeps ==
    ASSUME IInv, NEW bytes \in Chunks, SetMaxDataChunk(bytes)
    PROVE  IInv'
<1>1. call.phase = "over" /\ maxDataChunk' = bytes /\ UNCHANGED <<call, engine, stalled, bus, reply>>
  BY DEF SetMaxDataChunk
<1>2. TypeOK' /\ EngineSound' /\ CallSound'
  BY <1>1 DEF IInv, TypeOK, EngineSound, CallSound, Over, Clear
<1>3. ASSUME Sends' PROVE SendSound'
  BY <1>1, <1>3 DEF IInv, Sends, SendSound, Sent, OwnChunk, Over, Clear
<1>4. ASSUME ReadSound PROVE ReadSound'
  BY <1>1, <1>4 DEF ReadSound, Over, Clear
<1> QED BY <1>1, <1>2, <1>3, <1>4 DEF IInv

LEMMA BringUpKeeps ==
    ASSUME IInv, RunBringUpSequence
    PROVE  IInv'
<1>1. PICK rc \in {"ok", "error"}, lost \in Losses : Recovered(rc, lost)
  BY DEF RunBringUpSequence
<1>2. /\ TypeOK /\ EngineSound /\ CallSound /\ call.op = "reset" /\ engine' \in {engine, None}
      /\ stalled' \subseteq Pipes /\ (lost = {} => engine' = None /\ stalled' = {})
      /\ UNCHANGED <<maxDataChunk, bus, reply>>
      /\ call' = [call EXCEPT !.phase = "over", !.rc = rc, !.lost = lost # {}]
  BY <1>1 DEF IInv, TypeOK, RunBringUpSequence, Recovered, RecoverFirmwareEngine, AbortTransfer
<1>3. /\ call' \in Calls /\ call'.op = "reset" /\ call'.phase = "over" /\ call'.done = call.done /\ call'.len = call.len
      /\ ~call'.lost => lost = {}
  BY <1>2 DEF TypeOK, Calls
<1>4. TypeOK' /\ EngineSound' /\ CallSound'
  BY <1>2, <1>3 DEF TypeOK, EngineSound, CallSound, Over, Clear
<1>5. ~Sends' /\ call'.op # "read"
  BY <1>3 DEF Sends
<1> QED BY <1>4, <1>5 DEF IInv

(* The engine gets a chunk of the call, unless it still has a transfer.    *)
LEMMA BeginKeeps ==
    ASSUME IInv, BeginTransfer
    PROVE  IInv'
<1>1. /\ TypeOK /\ EngineSound /\ CallSound /\ call \in Calls
      /\ call.phase = "begin" /\ call.op # "reset" /\ call' = [call EXCEPT !.phase = "bulk"]
      /\ engine' = IF engine = None THEN Armed ELSE engine
      /\ UNCHANGED <<maxDataChunk, stalled, bus, reply>>
  BY DEF IInv, BeginTransfer, TypeOK
<1>2. /\ call' \in Calls /\ call'.phase = "bulk" /\ call'.op = call.op /\ call'.done = call.done /\ call'.rc = call.rc
      /\ call'.len = call.len /\ call'.clean = call.clean /\ call'.eoi = call.eoi /\ call'.n = call.n
  BY <1>1 DEF Calls
<1>3. /\ Armed \in Transfers /\ Armed.given = 0 /\ Armed.moved = 0 /\ Armed.from = call.done
      /\ Armed.want = Chunk /\ Armed.op = call.op
      /\ Armed.eoi <=> call.eoi /\ call.done + Chunk = call.len
      /\ Armed.state = (IF call.op = "read" THEN "busy" ELSE "armed")
      /\ Chunk \in 1 .. MaxLen /\ call.done + Chunk <= call.len
  <2>1. call.done < call.len
    BY <1>1 DEF CallSound
  <2> QED BY <1>1, <2>1, ArmedIsWell
<1>4. engine' # None
  BY <1>1, <1>3, NoneAssumption
<1>5. TypeOK' /\ EngineSound' /\ CallSound'
  BY <1>1, <1>2, <1>3, <1>4 DEF TypeOK, EngineSound, CallSound, Over
<1>6. Chunk' = Chunk
  BY <1>1, <1>2 DEF Chunk
<1>7. ASSUME Sends' PROVE SendSound'
  <2>1. SendSound /\ call.op # "read"
    BY <1>2, <1>7 DEF IInv, Sends
  <2>2. engine = None /\ stalled = {} /\ Len(bus) = call.done /\ Len(bus) \in Nat
    BY <1>1, <2>1 DEF SendSound, TypeOK
  <2>3. OwnChunk'
    BY <1>1, <1>2, <1>3, <2>2 DEF OwnChunk
  <2>4. Sent' /\ call'.n <= Len(bus')
    BY <1>1, <1>2, <2>1 DEF SendSound, Sent
  <2> QED BY <1>1, <1>2, <1>3, <1>6, <2>1, <2>2, <2>3, <2>4 DEF SendSound, Over
<1>8. ASSUME call'.clean, call'.op = "read" PROVE ReadSound'
  <2>1. engine = None /\ stalled = {} /\ bus = <<>> /\ call.done = 0 /\ call.op = "read"
    BY <1>1, <1>2, <1>8 DEF IInv, ReadSound
  <2>2. Chunk = call.len
    <3>1. call.len \in Nat /\ call.done < call.len
      BY <1>1 DEF Calls, CallSound
    <3> QED BY <1>1, <2>1, <3>1, ChunkFits
  <2>3. Len(bus) = 0
    BY <2>1
  <2> QED BY <1>1, <1>2, <1>3, <2>1, <2>2, <2>3 DEF ReadSound, Over
<1> QED BY <1>5, <1>7, <1>8 DEF IInv

LEMMA FailuresKeep ==
    ASSUME IInv, BeginFails \/ BulkFails \/ PollFailed \/ PollTimesOut \/ PollGivesUp
                 \/ ReadFailed \/ ReadGivesUp
    PROVE  IInv'
<1>1. call.phase # "over" /\ call.op # "reset" /\ UNCHANGED <<maxDataChunk, bus, reply>>
  BY DEF IInv, CallSound, BeginFails, BulkFails, PollFailed, PollTimesOut, PollGivesUp, ReadFailed,
         ReadGivesUp, Completed, Polling
<1>2. stalled \subseteq Pipes /\ call \in Calls
  BY DEF IInv, TypeOK
<1>3. CASE BulkFails \/ ReadFailed \/ ReadGivesUp
  <2>1. PICK lost \in Losses : Recovered("error", lost)
    BY <1>3 DEF BulkFails, ReadFailed, ReadGivesUp
  <2>2. /\ engine' \in {None, engine} /\ stalled' \subseteq Pipes /\ (lost # {}) \in BOOLEAN
        /\ call' = [call EXCEPT !.phase = "over", !.rc = "error", !.lost = lost # {}]
    BY <1>2, <2>1 DEF Recovered, RecoverFirmwareEngine, AbortTransfer
  <2> QED BY <1>1, <2>2, Failed
<1>4. CASE PollTimesOut
  <2>1. PICK lost \in SUBSET ({"abort"} \cap Failures) :
          AbortTransfer(lost) /\ call' = [call EXCEPT !.phase = "over", !.rc = "error", !.lost = lost # {}]
    BY <1>4 DEF PollTimesOut
  <2>2. engine' \in {None, engine} /\ stalled' \subseteq Pipes /\ (lost # {}) \in BOOLEAN
    BY <1>2, <1>4, <2>1 DEF PollTimesOut, AbortTransfer
  <2> QED BY <1>1, <2>1, <2>2, Failed
<1>5. CASE BeginFails \/ PollFailed \/ PollGivesUp
  <2>1. Return("error") /\ stalled' \subseteq Pipes
        /\ (engine' \in {None, engine} \/ (call.phase = "begin" /\ engine = None /\ engine' = Armed))
    BY <1>2, <1>5 DEF BeginFails, PollFailed, PollGivesUp
  <2>2. call' = [call EXCEPT !.phase = "over", !.rc = "error", !.lost = call.lost] /\ call.lost \in BOOLEAN
    BY <1>2, <2>1 DEF Return, Calls
  <2> QED BY <1>1, <2>1, <2>2, Failed
<1> QED BY <1>3, <1>4, <1>5

-----------------------------------------------------------------------------
(* The payload.                                                            *)
LEMMA BulkOutKeeps ==
    ASSUME IInv, BulkOut
    PROVE  IInv'
<1>1. /\ TypeOK /\ EngineSound /\ CallSound /\ call \in Calls /\ engine \in Transfers /\ engine # None
      /\ call.phase = "bulk" /\ call.op \in {"command", "write"} /\ call' = [call EXCEPT !.phase = "poll"]
      /\ engine' = IF engine.state = "armed" THEN [engine EXCEPT !.state = "busy"] ELSE engine
      /\ UNCHANGED <<maxDataChunk, stalled, bus, reply>>
  BY DEF IInv, BulkOut, TypeOK, CallSound
<1>2. /\ call' \in Calls /\ call'.phase = "poll" /\ call'.op = call.op /\ call'.done = call.done /\ call'.rc = call.rc
      /\ call'.len = call.len /\ call'.clean = call.clean /\ call'.eoi = call.eoi /\ call'.n = call.n
  BY <1>1 DEF Calls
<1>3. /\ engine' \in Transfers /\ engine'.op = engine.op /\ engine'.from = engine.from /\ engine'.want = engine.want
      /\ engine'.eoi = engine.eoi /\ engine'.moved = engine.moved /\ engine'.given = engine.given
      /\ engine'.state # "armed"
  BY <1>1 DEF Transfers
<1>4. TypeOK' /\ EngineSound' /\ CallSound'
  BY <1>1, <1>2, <1>3, NoneAssumption DEF TypeOK, EngineSound, CallSound, Over
<1>5. ASSUME Sends' PROVE SendSound'
  <2>1. SendSound
    BY <1>2, <1>5 DEF IInv, Sends
  <2>2. Sent' /\ OwnChunk' /\ Chunk' = Chunk
    BY <1>1, <1>2, <1>3, <2>1 DEF SendSound, Sent, OwnChunk, Chunk
  <2> QED BY <1>1, <1>2, <1>3, <2>1, <2>2 DEF SendSound, Over
<1> QED BY <1>1, <1>2, <1>4, <1>5 DEF IInv

LEMMA BulkInKeeps ==
    ASSUME IInv, BulkIn
    PROVE  IInv'
<1>1. /\ TypeOK /\ EngineSound /\ CallSound /\ call \in Calls /\ engine \in Transfers /\ engine # None
      /\ call.phase = "bulk" /\ call.op = "read" /\ engine.op = "read" /\ Fetched > 0
      /\ call' = [call EXCEPT !.phase = "poll", !.done = @ + Fetched]
      /\ engine' = [engine EXCEPT !.given = @ + Fetched]
      /\ UNCHANGED <<maxDataChunk, stalled, bus, reply>>
  BY DEF IInv, BulkIn, TypeOK, CallSound
<1>2. /\ call.done \in Nat /\ call.len \in 0 .. MaxLen /\ engine.moved \in 0 .. MaxLen /\ engine.given \in Nat
      /\ MaxLen \in Nat /\ call.done <= call.len /\ engine.given <= engine.moved
  BY <1>1, TransportAssumption DEF Calls, Transfers, CallSound, EngineSound
<1>3. Fetched \in Nat /\ call.done + Fetched <= call.len /\ engine.given + Fetched <= engine.moved
  BY <1>2 DEF Fetched, Least
<1>4. call.done + Fetched \in 0 .. MaxLen /\ engine.given + Fetched \in 0 .. MaxLen
  BY <1>2, <1>3
<1>5. /\ call' \in Calls /\ call'.phase = "poll" /\ call'.op = "read" /\ call'.done = call.done + Fetched
      /\ call'.len = call.len /\ call'.clean = call.clean /\ call'.rc = call.rc
  BY <1>1, <1>4 DEF Calls
<1>6. /\ engine' \in Transfers /\ engine'.op = "read" /\ engine'.want = engine.want
      /\ engine'.eoi = engine.eoi /\ engine'.moved = engine.moved /\ engine'.given = engine.given + Fetched
      /\ engine'.state = engine.state
  BY <1>1, <1>4 DEF Transfers
<1>7. TypeOK' /\ EngineSound' /\ CallSound'
  BY <1>1, <1>2, <1>3, <1>5, <1>6, NoneAssumption DEF TypeOK, EngineSound, CallSound, Over
<1>8. ASSUME call'.clean PROVE ReadSound'
  <2>1. ReadSound
    BY <1>1, <1>5, <1>8 DEF IInv
  <2>2. engine.state = "done" => FALSE
    BY <1>1, <1>2, <2>1 DEF ReadSound, Fetched, Least
  <2> QED BY <1>1, <1>2, <1>3, <1>5, <1>6, <2>1, <2>2 DEF ReadSound, Over
<1> QED BY <1>5, <1>7, <1>8 DEF IInv, Sends

-----------------------------------------------------------------------------
(* The status.                                                             *)
LEMMA PollDoneKeeps ==
    ASSUME IInv, PollDone
    PROVE  IInv'
<1> DEFINE complete == engine.moved = Chunk
           n == IF call.op = "write" THEN call.done + engine.moved ELSE 0
           done == IF complete THEN call.done + Chunk ELSE call.done
<1>1. /\ TypeOK /\ EngineSound /\ CallSound /\ call \in Calls /\ engine \in Transfers /\ engine # None
      /\ call.phase = "poll" /\ call.op # "read" /\ call.op # "reset" /\ engine.state = "done"
      /\ call' = [call EXCEPT
                 !.n     = n,
                 !.done  = done,
                 !.rc    = IF complete THEN "ok" ELSE "nolistener",
                 !.phase = IF complete /\ call.done + Chunk < call.len THEN "begin" ELSE "over"]
      /\ engine' = None /\ UNCHANGED <<maxDataChunk, stalled, bus, reply>>
  BY DEF IInv, PollDone, ChunkDone, Completed, Polling, TypeOK, CallSound
<1>2. /\ call.done \in 0 .. MaxLen /\ call.len \in 0 .. MaxLen /\ engine.moved \in 0 .. MaxLen
      /\ MaxLen \in Nat /\ call.done <= call.len
  BY <1>1, TransportAssumption DEF Calls, Transfers, CallSound
<1>3. Chunk \in Nat /\ call.done + Chunk <= call.len
  <2>1. /\ MaxCmd \in Nat \ {0} /\ maxDataChunk \in Nat
    BY <1>1, TransportAssumption DEF TypeOK
  <2>2. call.len - call.done \in Nat
    BY <1>2
  <2>3. CASE call.op = "command"
    BY <1>2, <2>1, <2>2, <2>3 DEF Chunk, Least
  <2>4. CASE call.op = "write" /\ maxDataChunk # 0
    BY <1>2, <2>1, <2>2, <2>4 DEF Chunk, Least
  <2>5. CASE call.op # "command" /\ ~(call.op = "write" /\ maxDataChunk # 0)
    <3>1. Chunk = call.len - call.done
      BY <2>5 DEF Chunk
    <3> QED BY <1>2, <2>2, <3>1
  <2> QED BY <2>3, <2>4, <2>5
<1>4. done \in 0 .. MaxLen /\ n \in 0 .. 2 * MaxLen /\ done <= call.len
  BY <1>2, <1>3
<1>5. /\ call' \in Calls /\ call'.op = call.op /\ call'.done = done /\ call'.n = n
      /\ call'.len = call.len /\ call'.clean = call.clean /\ call'.eoi = call.eoi
      /\ call'.phase = (IF complete /\ call.done + Chunk < call.len THEN "begin" ELSE "over")
      /\ call'.rc = (IF complete THEN "ok" ELSE "nolistener")
  <2> HIDE DEF n, done
  <2> QED BY <1>1, <1>4 DEF Calls
<1>6. TypeOK' /\ EngineSound' /\ CallSound'
  BY <1>1, <1>2, <1>3, <1>4, <1>5 DEF TypeOK, EngineSound, CallSound, Over
<1>7. ASSUME Sends' PROVE SendSound'
  <2>1. SendSound
    BY <1>5, <1>7 DEF IInv, Sends
  <2>2. /\ engine.from = call.done /\ engine.want = Chunk /\ stalled = {} /\ Len(bus) = call.done + engine.moved
    BY <1>1, <2>1 DEF SendSound, OwnChunk
  <2>3. Sent'
    BY <1>1, <1>5, <2>1 DEF SendSound, Sent
  <2>4. call'.n <= Len(bus')
    BY <1>1, <1>2, <1>5, <2>2
  <2>5. CASE call'.phase = "begin"
    BY <1>1, <1>2, <1>3, <1>5, <2>2, <2>3, <2>4, <2>5 DEF SendSound, Over
  <2>6. CASE call'.phase = "over"
    <3>1. call'.rc = "ok" => Len(bus') = call'.len
      BY <1>1, <1>2, <1>3, <1>5, <2>2, <2>6
    <3> QED BY <1>1, <2>2, <2>3, <2>4, <2>6, <3>1 DEF SendSound, Over, Clear
  <2> QED BY <1>5, <2>5, <2>6
<1> QED BY <1>1, <1>5, <1>6, <1>7 DEF IInv

(* A read returns what was fetched.                                        *)
LEMMA ReadReturns ==
    ASSUME IInv, call.phase = "poll", call.op = "read", NEW lost, ReturnRead(lost),
           engine' = None \/ (engine' = engine /\ lost # {} /\ call.done = call.len),
           stalled' \in SUBSET stalled, engine.state # "failed",
           call.clean => engine.given = engine.moved \/ call.done = call.len,
           UNCHANGED <<maxDataChunk, bus, reply>>
    PROVE  IInv'
<1> DEFINE n == Least(engine.moved, call.done)
<1>1. /\ TypeOK /\ EngineSound /\ CallSound /\ call \in Calls /\ engine \in Transfers /\ engine # None
      /\ call' = [call EXCEPT !.phase = "over", !.n = n, !.end = engine.eoi, !.lost = lost # {}]
  BY DEF IInv, ReturnRead, TypeOK, CallSound
<1>2. /\ call.done \in 0 .. MaxLen /\ engine.moved \in 0 .. MaxLen /\ MaxLen \in Nat
      /\ engine.eoi \in BOOLEAN /\ engine.given \in Nat /\ engine.want \in Nat
      /\ engine.given <= engine.moved /\ engine.moved <= engine.want
  BY <1>1, TransportAssumption DEF Calls, Transfers, EngineSound
<1>3. n \in 0 .. 2 * MaxLen
  BY <1>2 DEF Least
<1>4. /\ call' \in Calls /\ call'.phase = "over" /\ call'.op = "read" /\ call'.done = call.done
      /\ call'.n = n /\ call'.end = engine.eoi /\ call'.len = call.len /\ call'.clean = call.clean
      /\ ~call'.lost => lost = {}
  <2> HIDE DEF n
  <2> QED BY <1>1, <1>2, <1>3 DEF Calls
<1>5. TypeOK' /\ EngineSound' /\ CallSound'
  BY <1>1, <1>4 DEF TypeOK, EngineSound, CallSound, Over
<1>6. ASSUME call'.clean PROVE ReadSound'
  <2>1. ReadSound
    BY <1>4, <1>6 DEF IInv
  <2>2. /\ engine.want = call.len /\ engine.given = call.done /\ engine.moved = Len(bus) /\ stalled = {}
        /\ call.done > 0 /\ (Len(bus) > 0 => engine.eoi = bus[Len(bus)].eoi)
    BY <2>1 DEF ReadSound
  <2>3. engine.moved = call.done
    BY <1>2, <1>4, <1>6, <2>2
  <2>4. n = Len(bus) /\ Len(bus) > 0
    BY <1>2, <2>2, <2>3 DEF Least
  <2> HIDE DEF n
  <2>5. engine' # None => engine'.moved = engine'.want
    BY <2>2, <2>3
  <2> QED BY <1>4, <2>2, <2>4, <2>5 DEF ReadSound, Over, Clear
<1> QED BY <1>4, <1>5, <1>6 DEF IInv, Sends

LEMMA ReadKeeps ==
    ASSUME IInv, ReadDone \/ ReadMore \/ ReadStops
    PROVE  IInv'
<1>1. /\ TypeOK /\ CallSound /\ call \in Calls /\ engine \in Transfers
      /\ call.phase = "poll" /\ call.op = "read"
  BY DEF IInv, ReadDone, ReadMore, ReadStops, Completed, ReadBusy, Polling, TypeOK, CallSound
<1>2. CASE ReadDone
  <2>1. engine.state = "done" /\ engine' = None /\ ReturnRead({}) /\ UNCHANGED <<maxDataChunk, stalled, bus, reply>>
    BY <1>2 DEF ReadDone
  <2> QED BY <1>1, <2>1, ReadReturns DEF IInv, ReadSound
<1>3. CASE ReadStops
  <2>1. PICK lost \in Losses : RecoverFirmwareEngine(lost) /\ ReturnRead(lost)
    BY <1>3 DEF ReadStops
  <2>2. /\ engine' = None \/ (engine' = engine /\ lost # {} /\ call.done = call.len)
        /\ stalled' \in SUBSET stalled /\ engine.state # "failed" /\ call.done = call.len
        /\ UNCHANGED <<maxDataChunk, bus, reply>>
    BY <1>3, <2>1 DEF ReadStops, ReadBusy, RecoverFirmwareEngine, AbortTransfer
  <2> QED BY <1>1, <2>1, <2>2, ReadReturns
<1>4. CASE ReadMore
  <2>1. call' = [call EXCEPT !.phase = "bulk"] /\ UNCHANGED <<maxDataChunk, engine, stalled, bus, reply>>
    BY <1>4 DEF ReadMore
  <2>2. /\ call' \in Calls /\ call'.phase = "bulk" /\ call'.op = "read" /\ call'.done = call.done
        /\ call'.len = call.len /\ call'.clean = call.clean /\ call'.rc = call.rc
    BY <1>1, <2>1 DEF Calls
  <2>3. TypeOK' /\ EngineSound' /\ CallSound'
    BY <1>1, <2>1, <2>2 DEF IInv, TypeOK, EngineSound, CallSound, Over
  <2>4. ASSUME call'.clean PROVE ReadSound'
    BY <1>1, <2>1, <2>2, <2>4 DEF IInv, ReadSound, Over
  <2> QED BY <2>2, <2>3, <2>4 DEF IInv, Sends
<1> QED BY <1>2, <1>3, <1>4

-----------------------------------------------------------------------------
(* The engine.                                                             *)

(* One more byte on the bus.                                               *)
LEMMA Appended ==
    ASSUME TypeOK, NEW e \in [n : Nat, eoi : BOOLEAN]
    PROVE  /\ Append(bus, e) \in Seq([n : Nat, eoi : BOOLEAN]) /\ Len(Append(bus, e)) = Len(bus) + 1
           /\ Append(bus, e)[Len(bus) + 1] = e /\ \A i \in 1 .. Len(bus) : Append(bus, e)[i] = bus[i]
           /\ Len(bus) \in Nat
<1>1. bus \in Seq([n : Nat, eoi : BOOLEAN])
  BY DEF TypeOK
<1> QED BY <1>1, AppendProperties, LenProperties

LEMMA MoveKeeps ==
    ASSUME IInv, Move
    PROVE  IInv'
<1> DEFINE reading == engine.op = "read"
           e == [n |-> engine.from + engine.moved + 1,
                 eoi |-> IF reading THEN reply = 1 ELSE engine.eoi /\ engine.moved + 1 = engine.want]
<1>1. /\ TypeOK /\ EngineSound /\ CallSound /\ call \in Calls /\ engine \in Transfers /\ engine # None
      /\ engine.state = "busy" /\ engine.moved < engine.want /\ (reading => ~engine.eoi)
      /\ engine' = IF reading THEN [engine EXCEPT !.moved = @ + 1, !.eoi = reply = 1]
                   ELSE [engine EXCEPT !.moved = @ + 1]
      /\ reply' = IF reading THEN reply - 1 ELSE reply
      /\ reading => reply > 0
      /\ bus' = (IF call.clean THEN Append(bus, e) ELSE bus) /\ UNCHANGED <<call, maxDataChunk, stalled>>
  BY DEF IInv, Move, Crosses, TypeOK
<1>2. /\ engine.from \in Nat /\ engine.moved \in 0 .. MaxLen /\ engine.want \in 1 .. MaxLen /\ MaxLen \in Nat
      /\ engine.eoi \in BOOLEAN /\ reply \in 0 .. MaxLen /\ engine.given \in Nat /\ engine.given <= engine.moved
  BY <1>1, TransportAssumption DEF Transfers, EngineSound, TypeOK
<1>3. engine.moved + 1 \in 0 .. MaxLen /\ engine.moved + 1 <= engine.want /\ reply' \in 0 .. MaxLen
  BY <1>1, <1>2
<1>4. /\ engine' \in Transfers /\ engine'.op = engine.op /\ engine'.from = engine.from
      /\ engine'.want = engine.want /\ engine'.moved = engine.moved + 1 /\ engine'.given = engine.given
      /\ engine'.state = "busy"
      /\ reading => (engine'.eoi <=> reply = 1)
      /\ ~reading => engine'.eoi = engine.eoi
  BY <1>1, <1>3 DEF Transfers
<1>5. e \in [n : Nat, eoi : BOOLEAN] /\ e.n = engine.from + engine.moved + 1
      /\ (reading => (e.eoi <=> reply = 1))
      /\ (~reading => (e.eoi <=> engine.eoi /\ engine.moved + 1 = engine.want))
  <2>1. engine.from + engine.moved + 1 \in Nat
    BY <1>2
  <2>2. CASE reading
    <3>1. e = [n |-> engine.from + engine.moved + 1, eoi |-> reply = 1]
      BY <2>2
    <3> HIDE DEF e
    <3> QED BY <2>1, <2>2, <3>1
  <2>3. CASE ~reading
    <3>1. e = [n |-> engine.from + engine.moved + 1,
               eoi |-> engine.eoi /\ engine.moved + 1 = engine.want]
      BY <2>3
    <3> HIDE DEF e
    <3> QED BY <2>1, <2>3, <3>1
  <2> QED BY <2>2, <2>3
<1> HIDE DEF e
<1>6. /\ bus' \in Seq([n : Nat, eoi : BOOLEAN])
      /\ call.clean => /\ Len(bus') = Len(bus) + 1 /\ Len(bus) \in Nat
                       /\ bus'[Len(bus) + 1] = e /\ \A i \in 1 .. Len(bus) : bus'[i] = bus[i]
  BY <1>1, <1>5, Appended DEF TypeOK
<1>7. TypeOK' /\ EngineSound'
  BY <1>1, <1>2, <1>3, <1>4, <1>6 DEF TypeOK, EngineSound
<1>8. CallSound'
  BY <1>1, <1>4, NoneAssumption DEF CallSound, Over, Clear
<1>9. ASSUME Sends' PROVE SendSound'
  <2>1. SendSound /\ OwnChunk /\ ~reading /\ call.clean
    BY <1>1, <1>9 DEF IInv, Sends, SendSound, OwnChunk
  <2>2. /\ Len(bus) = engine.from + engine.moved /\ engine.from + engine.want <= call.len
        /\ engine.eoi <=> call.eoi /\ engine.from + engine.want = call.len
    BY <2>1 DEF OwnChunk
  <2>3. OwnChunk'
    BY <1>1, <1>2, <1>4, <1>6, <2>1, <2>2 DEF OwnChunk
  <2>4. Len(bus') <= call.len /\ call.len \in Nat
    <3>1. call.len \in Nat
      BY <1>1 DEF Calls
    <3>2. engine.from \in Nat /\ engine.moved \in Nat /\ engine.want \in Nat
      BY <1>2
    <3>3. engine.from + engine.moved + 1 <= call.len
      BY <1>3, <2>2, <3>1, <3>2
    <3>4. Len(bus') = engine.from + engine.moved + 1
      BY <1>6, <2>1, <2>2
    <3> QED BY <3>1, <3>3, <3>4
  <2>5. e = [n |-> Len(bus) + 1, eoi |-> call.eoi /\ Len(bus) + 1 = call.len]
    <3>1. e.eoi <=> call.eoi /\ Len(bus) + 1 = call.len
      BY <1>1, <1>2, <1>5, <2>1, <2>2, <2>4
    <3>2. e.n = Len(bus) + 1 /\ call.eoi \in BOOLEAN
      BY <1>1, <1>5, <2>2 DEF Calls
    <3>3. e.eoi = (call.eoi /\ Len(bus) + 1 = call.len)
      BY <1>5, <3>1
    <3> QED BY <1>5, <3>2, <3>3
  <2>6. Sent'
    <3>1. ASSUME NEW i \in 1 .. Len(bus')
          PROVE  bus'[i] = [n |-> i, eoi |-> call.eoi /\ i = call.len]
      <4>1. CASE i \in 1 .. Len(bus)
        BY <1>6, <2>1, <4>1 DEF SendSound, Sent
      <4>2. CASE i = Len(bus) + 1
        BY <1>6, <2>1, <2>5, <4>2
      <4> QED BY <1>6, <2>1, <3>1, <4>1, <4>2
    <3> QED BY <1>1, <2>4, <3>1 DEF Sent
  <2>7. Chunk' = Chunk
    BY <1>1 DEF Chunk
  <2>8. call.n \in Nat
    BY <1>1, TransportAssumption DEF Calls
  <2> QED BY <1>1, <1>2, <1>4, <1>6, <2>1, <2>3, <2>6, <2>7, <2>8 DEF SendSound, Over, Clear
<1>10. ASSUME call'.clean, call'.op = "read" PROVE ReadSound'
  <2>1. ReadSound /\ call.clean
    BY <1>1, <1>10 DEF IInv
  <2>2. call.phase # "begin"
    BY <1>1, <2>1 DEF ReadSound
  <2>3. Over => call.rc # "ok"
    BY <1>1, <1>2, <2>1 DEF ReadSound
  <2>4. CASE Over
    BY <1>1, <2>3, <2>4 DEF ReadSound, Over
  <2>5. CASE call.phase \in {"bulk", "poll"}
    <3>1. engine'.eoi = bus'[Len(bus')].eoi
      <4>1. reading
        BY <2>1, <2>5 DEF ReadSound
      <4>2. engine'.eoi <=> e.eoi
        BY <1>4, <1>5, <4>1
      <4>3. engine'.eoi \in BOOLEAN /\ e.eoi \in BOOLEAN
        BY <1>4, <1>5 DEF Transfers
      <4> QED BY <1>6, <2>1, <4>2, <4>3
    <3> QED BY <1>1, <1>4, <1>6, <2>1, <2>5, <3>1 DEF ReadSound, Over
  <2> QED BY <1>1, <2>2, <2>4, <2>5 DEF Over, Calls
<1> QED BY <1>7, <1>8, <1>9, <1>10 DEF IInv

(* It stops.                                                               *)
LEMMA EngineStops ==
    ASSUME IInv, engine # None, engine.state = "busy", NEW s \in {"done", "failed"},
           engine' = [engine EXCEPT !.state = s],
           s = "done" => stalled' = stalled /\ (engine.op = "read" => engine.given = engine.moved),
           stalled' \subseteq Pipes, UNCHANGED <<call, maxDataChunk, bus, reply>>
    PROVE  IInv'
<1>1. TypeOK /\ EngineSound /\ CallSound /\ call \in Calls /\ engine \in Transfers
  BY DEF IInv, TypeOK
<1>2. /\ engine' \in Transfers /\ engine'.op = engine.op /\ engine'.from = engine.from
      /\ engine'.want = engine.want /\ engine'.moved = engine.moved /\ engine'.given = engine.given
      /\ engine'.state = s /\ engine'.eoi = engine.eoi
  BY <1>1 DEF Transfers
<1>3. TypeOK' /\ EngineSound'
  BY <1>1, <1>2 DEF TypeOK, EngineSound
<1>4. CallSound'
  BY <1>1, <1>2, NoneAssumption DEF CallSound, Over, Clear
<1>5. ASSUME Sends' PROVE SendSound'
  <2>1. SendSound
    BY <1>5 DEF IInv, Sends
  <2>2. Sent' /\ OwnChunk' /\ Chunk' = Chunk
    BY <1>2, <2>1 DEF SendSound, Sent, OwnChunk, Chunk
  <2> QED BY <1>2, <2>1, <2>2 DEF SendSound, Over, Clear
<1>6. ASSUME call'.clean, call'.op = "read" PROVE ReadSound'
  BY <1>2, <1>6 DEF IInv, ReadSound, Over, Clear
<1> QED BY <1>3, <1>4, <1>5, <1>6 DEF IInv

-----------------------------------------------------------------------------
(* Every step keeps the invariant.                                         *)
LEMMA StepKeeps ==
    ASSUME IInv, [Next]_vars
    PROVE  IInv'
<1>1. CASE UNCHANGED vars
  <2>1. UNCHANGED <<call, maxDataChunk, engine, stalled, bus, reply>>
    BY <1>1 DEF vars
  <2>2. TypeOK' /\ EngineSound' /\ CallSound'
    BY <2>1 DEF IInv, TypeOK, EngineSound, CallSound, Over, Clear
  <2>3. ASSUME Sends' PROVE SendSound'
    BY <2>1, <2>3 DEF IInv, Sends, SendSound, Sent, OwnChunk, Chunk, Over, Clear
  <2>4. ASSUME ReadSound PROVE ReadSound'
    BY <2>1, <2>4 DEF ReadSound, Over, Clear
  <2> QED BY <2>1, <2>2, <2>3, <2>4 DEF IInv
<1>2. ASSUME NEW op \in Ops, NEW len \in 0 .. MaxLen, NEW eoi \in BOOLEAN, NEW patient \in BOOLEAN,
             Start(op, len, eoi, patient)
      PROVE  IInv'
  BY <1>2, StartKeeps
<1>3. ASSUME NEW bytes \in Chunks, SetMaxDataChunk(bytes)
      PROVE  IInv'
  BY <1>3, SetMaxDataChunkKeeps
<1>4. CASE HostStep
  BY <1>4, BringUpKeeps, BeginKeeps, FailuresKeep, BulkOutKeeps, BulkInKeeps, PollDoneKeeps, ReadKeeps
  DEF HostStep
<1>5. CASE Move
  BY <1>5, MoveKeeps
<1>6. CASE EngineDone
  BY <1>6, EngineStops DEF EngineDone, IInv, TypeOK
<1>7. CASE EngineFails
  <2>1. stalled' \subseteq Pipes
    BY <1>7 DEF EngineFails, IInv, TypeOK, Transfers
  <2> QED BY <1>7, <2>1, EngineStops DEF EngineFails
<1> QED BY <1>1, <1>2, <1>3, <1>4, <1>5, <1>6, <1>7 DEF Next, EngineStep

(* It holds before the adapter is brought up, whatever was left on it.     *)
LEMMA InitHolds == Init => IInv
<1> SUFFICES ASSUME Init PROVE IInv
  OBVIOUS
<1>1. MaxLen \in Nat \ {0} /\ 0 \in 0 .. MaxLen /\ 1 \in 1 .. MaxLen /\ 0 \in 0 .. 2 * MaxLen
  BY TransportAssumption
<1>2. call \in Calls /\ call.op = "reset" /\ call.phase = "begin" /\ call.rc = "ok" /\ call.done = 0 /\ call.len = 0
  BY <1>1 DEF Init, Calls, Ops
<1>3. engine = None \/ (engine \in Transfers /\ engine.given = 0 /\ engine.moved = 0 /\ engine.want = 1)
  BY <1>1 DEF Init, Transfers
<1>4. bus \in Seq([n : Nat, eoi : BOOLEAN])
  BY DEF Init
<1>5. TypeOK /\ EngineSound
  BY <1>1, <1>2, <1>3, <1>4 DEF Init, TypeOK, EngineSound
<1>6. CallSound /\ ~Sends
  BY <1>2 DEF CallSound, Sends, Over
<1> QED BY <1>2, <1>5, <1>6 DEF IInv

(* So it always holds.                                                     *)
LEMMA Invariance == Spec => []IInv
BY InitHolds, StepKeeps, PTL DEF Spec

-----------------------------------------------------------------------------
(* Every state of the transport and the adapter is well typed.             *)
THEOREM TransportTypeCorrect == Spec => []TypeOK
<1>1. IInv => TypeOK
  BY DEF IInv
<1> QED BY <1>1, Invariance, PTL

(* writeDataViaFirmware, sendCommandBytes: however a message is cut into   *)
(* chunks and wherever it fails, the bus sees a prefix of it, and EOI only *)
(* with its last byte.                                                     *)
THEOREM PrefixOnTheWire == Spec => []WireIsPrefix
<1>1. IInv => WireIsPrefix
  BY SentIsPrefix DEF IInv, WireIsPrefix, SendSound
<1> QED BY <1>1, Invariance, PTL

(* A message reported as sent is on the bus to its last byte.              *)
THEOREM SentIsWhole == Spec => []OkIsWhole
<1>1. IInv => OkIsWhole
  BY DEF IInv, OkIsWhole, SendSound
<1> QED BY <1>1, Invariance, PTL

(* The counts of a write and a read, and END, are what happened on the bus.*)
THEOREM CountsTold == Spec => []CountsAreTrue
<1>1. IInv => CountsAreTrue
  BY DEF IInv, CountsAreTrue, SendSound, ReadSound, Sends
<1> QED BY <1>1, Invariance, PTL

(* A call that succeeded, and a bring-up, leave the engine and the pipes   *)
(* clear for the next one, unless one of their own requests to abort or to *)
(* clear a pipe was lost; a read that returns with its abort lost has all  *)
(* the same told every byte the engine took.                               *)
THEOREM NothingLeftBehind == Spec => []LeavesClear
<1>1. ASSUME IInv PROVE LeavesClear
  <2>1. call.op \in {"command", "write", "read", "reset"}
    BY <1>1 DEF IInv, TypeOK, Calls, Ops, Pipes
  <2> QED BY <1>1, <2>1 DEF IInv, LeavesClear, CallSound, SendSound, ReadSound, Sends
<1> QED BY <1>1, Invariance, PTL
-----------------------------------------------------------------------------
(* How much a call has before it: a byte that is through outweighs what it *)
(* takes to begin, hand over or fetch, and poll for the next.              *)
Stage(op, phase) ==
    CASE phase = "begin" -> 3
      [] phase = "bulk"  -> IF op = "read" THEN 1 ELSE 2
      [] phase = "poll"  -> IF op = "read" THEN 2 ELSE 1
      [] phase = "over"  -> 0

Left(c) == 4 * (c.len - c.done) + Stage(c.op, c.phase)

(* What each stage weighs.                                                 *)
LEMMA Stages ==
    /\ \A op : Stage(op, "begin") = 3
    /\ Stage("read", "bulk") = 1 /\ Stage("read", "poll") = 2
    /\ \A op \in {"command", "write"} : Stage(op, "bulk") = 2 /\ Stage(op, "poll") = 1
    /\ \A op : Stage(op, "over") = 0
BY DEF Stage

(* What a call has before it is a number.                                  *)
LEMMA LeftIsNumber ==
    ASSUME NEW c \in Calls, c.done <= c.len
    PROVE  Left(c) \in Nat
<1>1. c.len \in Nat /\ c.done \in Nat
  BY DEF Calls
<1>2. Stage(c.op, c.phase) \in Nat
  BY DEF Stage, Calls
<1> QED BY <1>1, <1>2 DEF Left

(* Every step of the host that does not end the call brings it nearer its  *)
(* end; a chunk that is through, and a piece fetched, have a byte at least.*)
LEMMA HostRunsDown ==
    ASSUME IInv, HostStep, call'.phase # "over"
    PROVE  Left(call') < Left(call)
<1>1. /\ TypeOK /\ CallSound /\ call \in Calls /\ call.len \in Nat /\ call.done \in Nat
      /\ call.done <= call.len
  BY DEF IInv, TypeOK, CallSound, Calls
<1>2. ASSUME NEW rc, NEW lost, Return(rc) \/ Recovered(rc, lost) PROVE FALSE
  BY <1>1, <1>2 DEF Return, Recovered, Calls
<1>3. ASSUME NEW lost, ReturnRead(lost) PROVE FALSE
  BY <1>1, <1>3 DEF ReturnRead, Calls
<1>4. CASE BeginTransfer
  <2>1. /\ call.phase = "begin" /\ call'.phase = "bulk" /\ call'.op = call.op
        /\ call'.len = call.len /\ call'.done = call.done
        /\ call.op \in {"command", "write", "read"}
    BY <1>1, <1>4 DEF BeginTransfer, Calls, Ops, Pipes
  <2>2. Stage(call.op, "bulk") \in {1, 2} /\ Stage(call.op, "begin") = 3
    BY <2>1, Stages
  <2> QED BY <1>1, <2>1, <2>2 DEF Left
<1>5. CASE BulkOut
  <2>1. /\ call.phase = "bulk" /\ call'.phase = "poll" /\ call'.op = call.op
        /\ call'.len = call.len /\ call'.done = call.done /\ call.op \in {"command", "write"}
    BY <1>1, <1>5 DEF BulkOut, Calls
  <2>2. Stage(call.op, "bulk") = 2 /\ Stage(call.op, "poll") = 1
    BY <2>1, Stages
  <2> QED BY <1>1, <2>1, <2>2 DEF Left
<1>6. CASE BulkIn
  <2>1. engine \in Transfers /\ engine # None
    BY <1>1, <1>6 DEF BulkIn, TypeOK, CallSound
  <2>2. Fetched \in Nat /\ Fetched > 0 /\ Fetched <= call.len - call.done
    <3>1. engine.moved \in Nat /\ engine.given \in Nat /\ engine.given <= engine.moved
      BY <2>1 DEF IInv, EngineSound, Transfers
    <3> QED BY <1>1, <1>6, <3>1 DEF BulkIn, Fetched, Least
  <2>3. /\ call.phase = "bulk" /\ call'.phase = "poll" /\ call'.op = "read" /\ call.op = "read"
        /\ call'.len = call.len /\ call'.done = call.done + Fetched
    BY <1>1, <1>6 DEF BulkIn, Calls
  <2>4. Left(call') = 4 * (call.len - (call.done + Fetched)) + 2
        /\ Left(call) = 4 * (call.len - call.done) + 1
    BY <2>3, Stages DEF Left
  <2> QED BY <1>1, <2>2, <2>4
<1>7. CASE PollDone
  <2>1. call.phase = "poll" /\ call.op \in {"command", "write"} /\ ChunkDone
    BY <1>1, <1>7 DEF PollDone, Completed, Polling, Calls, Ops, Pipes, CallSound
  <2>2. /\ engine.moved = Chunk /\ call.done + Chunk < call.len /\ call'.phase = "begin"
        /\ call'.done = call.done + Chunk /\ call'.len = call.len /\ call'.op = call.op
    BY <1>1, <2>1 DEF ChunkDone, Calls
  <2>3. Chunk \in Nat /\ Chunk > 0
    <3>1. CASE call.done < call.len
      BY <1>1, <3>1, ChunkFits
    <3>2. CASE call.done = call.len
      <4>1. MaxCmd \in Nat /\ maxDataChunk \in Nat
        BY <1>1, TransportAssumption DEF TypeOK
      <4>2. Chunk = 0
        BY <1>1, <3>2, <4>1 DEF Chunk, Least
      <4> QED BY <1>1, <2>2, <3>2, <4>2
    <3> QED BY <1>1, <3>1, <3>2
  <2>4. Left(call') = 4 * (call.len - (call.done + Chunk)) + 3
        /\ Left(call) = 4 * (call.len - call.done) + 1
    BY <2>1, <2>2, Stages DEF Left
  <2> QED BY <1>1, <2>3, <2>4
<1>8. CASE ReadMore
  <2>1. /\ call.phase = "poll" /\ call'.phase = "bulk" /\ call'.op = "read" /\ call.op = "read"
        /\ call'.len = call.len /\ call'.done = call.done
    BY <1>1, <1>8 DEF ReadMore, ReadBusy, Polling, Calls
  <2> QED BY <1>1, <2>1, Stages DEF Left
<1>9. ~PollTimesOut
  BY <1>1 DEF PollTimesOut, Calls
<1> QED BY <1>2, <1>3, <1>4, <1>5, <1>6, <1>7, <1>8, <1>9
        DEF HostStep, RunBringUpSequence, BeginFails, BulkFails, PollFailed, PollGivesUp,
            ReadDone, ReadFailed, ReadStops, ReadGivesUp

(* writeDataViaFirmware, readDataViaFirmware, sendCommandBytes: a call in  *)
(* progress comes nearer its end with every step of the host, whatever the *)
(* chunking, the engine and the talker do, and nothing else sets it back:  *)
(* no loop of fetch and poll, and no chunk of nothing.  With the fairness  *)
(* of the host this is why CallEnds holds.                                 *)
THEOREM CallsRunDown ==
    Spec => [][~Over /\ ~Over' => IF HostStep THEN Left(call') \in Nat /\ Left(call') < Left(call)
                                              ELSE call' = call]_vars
<1>1. ASSUME IInv, IInv', Next, ~Over, ~Over'
      PROVE  IF HostStep THEN Left(call') \in Nat /\ Left(call') < Left(call) ELSE call' = call
  <2>1. CASE HostStep
    <3>1. call' \in Calls /\ call'.done <= call'.len
      BY <1>1 DEF IInv, TypeOK, CallSound
    <3> QED BY <1>1, <2>1, <3>1, HostRunsDown, LeftIsNumber DEF Over
  <2>2. CASE ~HostStep
    BY <1>1, <2>2 DEF Next, Start, SetMaxDataChunk, EngineStep, Move, EngineDone, EngineFails, Over
  <2> QED BY <2>1, <2>2
<1>2. IInv /\ IInv' /\ [Next]_vars =>
        [~Over /\ ~Over' => IF HostStep THEN Left(call') \in Nat /\ Left(call') < Left(call)
                                        ELSE call' = call]_vars
  BY <1>1
<1> QED BY <1>2, Invariance, PTL DEF Spec

(* A read's transfer runs from the moment it is armed.                     *)
ReadsRun == engine # None /\ engine.op = "read" => engine.state # "armed"

(* pollStatus of a read: it is never at a loss, with no transfer of a read *)
(* to ask after.  BUSY, done and failed are all it can meet, and for each  *)
(* of them one of ReadMore, ReadStops, ReadDone and ReadFailed is there.   *)
THEOREM ReadsAreAnswered ==
    Spec => [](Polling /\ call.op = "read" =>
                 /\ engine # None /\ engine.op = "read"
                 /\ engine.state \in {"busy", "done", "failed"})
<1>1. Init => ReadsRun
  BY DEF Init, ReadsRun
<1>2. ASSUME IInv, ReadsRun, [Next]_vars
      PROVE  ReadsRun'
  <2>1. engine = None \/ engine \in Transfers
    BY <1>2 DEF IInv, TypeOK
  <2>2. CASE engine' \in {engine, None}
    BY <1>2, <2>2 DEF ReadsRun
  <2>3. CASE engine' = Armed
    BY <2>3 DEF ReadsRun, Armed
  <2>4. CASE engine \in Transfers /\ engine'.op = engine.op /\ engine'.state \in {engine.state, "busy", "done", "failed"}
             /\ engine # None
    BY <1>2, <2>4 DEF ReadsRun
  <2>5. CASE BulkOut \/ BulkIn
    <3>1. engine \in Transfers /\ engine # None
      BY <1>2, <2>1, <2>5 DEF BulkOut, BulkIn, IInv, CallSound
    <3>2. engine'.op = engine.op /\ engine'.state \in {engine.state, "busy"}
      BY <2>5, <3>1 DEF BulkOut, BulkIn, Transfers
    <3> QED BY <2>4, <3>1, <3>2
  <2>6. CASE EngineStep
    BY <2>1, <2>4, <2>6 DEF EngineStep, Move, EngineDone, EngineFails, Transfers
  <2>7. CASE HostStep /\ ~BulkOut /\ ~BulkIn
    BY <2>2, <2>3, <2>7 DEF HostStep, RunBringUpSequence, BeginTransfer, BeginFails, BulkFails, PollDone,
       PollFailed, PollTimesOut, PollGivesUp, ReadDone, ReadFailed, ReadMore, ReadStops, ReadGivesUp,
       Recovered, RecoverFirmwareEngine, AbortTransfer
  <2> QED BY <1>2, <2>2, <2>5, <2>6, <2>7 DEF Next, Start, SetMaxDataChunk, vars
<1>3. ASSUME IInv, ReadsRun, Polling, call.op = "read"
      PROVE  engine # None /\ engine.op = "read" /\ engine.state \in {"busy", "done", "failed"}
  BY <1>3 DEF IInv, TypeOK, CallSound, ReadsRun, Polling, Transfers
<1> QED BY <1>1, <1>2, <1>3, Invariance, PTL DEF Spec
=============================================================================
