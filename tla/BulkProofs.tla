------------------------------ MODULE BulkProofs ------------------------------
(***************************************************************************)
(* What the two bulk transports report and leave in the pipes, for         *)
(* transfers, packets, data blocks and queues of any size and any USB      *)
(* failures.                                                               *)
(***************************************************************************)
EXTENDS BulkTransports, SequenceTheorems, TLAPS

(* The bytes of a call there is room for.                                  *)
Want == IF NI THEN NiWant ELSE AgilentWant

(* How many register requests a call is made of.                           *)
Exchanges(op) == IF NI THEN NiExchanges[op] ELSE Len(AgilentExchanges[op])

(* What the phase of a call says of it.                                    *)
CallSound ==
    /\ call.op \in DataOps => call.len \in Lengths /\ call.phase # "open"
    /\ call.op \in RegisterOps => call.phase \in {"open", "out", "in", "over"}
    /\ call.phase = "open" => call.op = "attach"
    /\ call.phase = "status" => AGILENT /\ call.op \in {"command", "write"}
    /\ call.phase = "late" => AGILENT /\ call.op = "read" /\ call.aborted # "no"
    /\ call.phase = "in" /\ AGILENT => call.op \notin {"command", "write"}
    /\ NI /\ call.op = "lines" => call.phase \in {"out", "over"}
    /\ ~Over /\ call.op \in RegisterOps /\ ~(NI /\ call.op = "lines") =>
         call.done < Exchanges(call.op)
    /\ ~Over => call.n = 0 /\ call.rc = "ok"
    /\ ~Over /\ call.op \in DataOps => call.took = "none"
    /\ call.took = "lost" => IF NI THEN call.op \in RegisterOps ELSE call.op \in {"command", "write"}
    /\ Over /\ NI /\ call.op \in {"command", "write"} /\ call.rc = "ok" => call.took # "none"

RegisterRequest(r) == r.kind \in {"wr", "rd"} /\ r.want = 0

(* A request of a call `op` that moves its `w` bytes, n of them so far, e  *)
(* if EOI has crossed.                                                     *)
DataRequest(r, op, eoi, w, n, e) ==
    /\ op \in DataOps
    /\ r.kind = op /\ r.want = w /\ r.eoi = eoi /\ r.moved = n /\ r.end = e
    /\ op # "read" => (e <=> eoi /\ n = w)

(* Of the requests s those of the call in progress are register requests   *)
(* or the one that moves its bytes.                                        *)
Sound(s, op, eoi, w, n, e) ==
    /\ \A i \in 1 .. Len(s) :
         /\ s[i].moved <= s[i].want
         /\ s[i].own => RegisterRequest(s[i]) \/ DataRequest(s[i], op, eoi, w, n, e)
    /\ \A i, j \in 1 .. Len(s) :
         s[i].own /\ ~RegisterRequest(s[i]) /\ s[j].own /\ ~RegisterRequest(s[j]) => i = j

(* None of them moves its bytes.                                           *)
Unmoved(s) == \A i \in 1 .. Len(s) : s[i].own => RegisterRequest(s[i])

RequestsSound ==
    /\ Sound(requests, call.op, call.eoi, Want, crossed, ended)
    /\ call.phase \in {"open", "out"} => Unmoved(requests)
    /\ call.phase \in {"open", "out"} \/ (~Over /\ call.op \in RegisterOps) =>
         crossed = 0 /\ ended = FALSE

(* All of them are of the call in progress.                                *)
AllOwn(s, op) == \A i \in 1 .. Len(s) : s[i].own /\ (op \in DataOps => s[i].kind = op)

(* The answer to the request that moved its bytes.                         *)
DataAnswer(a, op, eoi, w, n, e) ==
    /\ a.kind = op /\ a.moved = n /\ a.left = w - n /\ a.end = e
    /\ op # "read" /\ a.err = "ok" => n = w /\ e = eoi

(* A call that found the pipes empty and has had all its answers so far.   *)
InStep ==
    /\ AllOwn(requests, call.op)
    /\ call.phase \in {"open", "out"} => requests = <<>> /\ responses = <<>>
    /\ call.phase \in {"in", "late"} =>
         \/ Len(requests) = 1 /\ responses = <<>>
         \/ requests = <<>> /\ Len(responses) = 1
    /\ call.phase \in {"in", "late"} /\ responses # <<>> /\ call.op \in DataOps =>
         DataAnswer(responses[1], call.op, call.eoi, Want, crossed, ended)
    /\ call.phase = "late" /\ call.aborted = "yes" => requests = <<>>
    /\ call.phase = "status" =>
         responses = <<>> /\ Len(requests) <= 1 /\ (requests = <<>> => lastMoved = crossed)

Kept == call.clean /\ call.took # "lost" => InStep

Results == OkIsWhole /\ CountsAreTrue /\ IdsChecked /\ SyncKept /\ AbortStopsAdapter

IInv == TypeOK /\ CallSound /\ RequestsSound /\ Kept /\ Results
-----------------------------------------------------------------------------
(* What division gives.                                                    *)
LEMMA Division ==
    ASSUME NEW a \in Nat, NEW b \in Nat \ {0}
    PROVE  /\ a \div b \in Nat
           /\ b * (a \div b) <= a /\ a < b * (a \div b) + b
OBVIOUS

(* Products of numbers that differ.                                        *)
LEMMA Grows ==
    ASSUME NEW b \in Nat, NEW p \in Nat, NEW q \in Nat, p < q
    PROVE  b * p + b <= b * q
<1> DEFINE d == q - p - 1
<1>1. d \in Nat /\ q = p + 1 + d
  OBVIOUS
<1>2. b * d \in Nat
  BY <1>1
<1> HIDE DEF d
<1>3. b * q = b * p + b + b * d
  BY <1>1
<1> QED BY <1>2, <1>3

(* The quotient is the only number of its kind.                            *)
LEMMA DivisionIs ==
    ASSUME NEW a \in Nat, NEW b \in Nat \ {0}, NEW k \in Nat, b * k <= a, a < b * k + b
    PROVE  a \div b = k
<1> DEFINE q == a \div b
<1>1. q \in Nat /\ b * q <= a /\ a < b * q + b
  BY Division
<1> HIDE DEF q
<1>2. b * k \in Nat /\ b * q \in Nat
  BY <1>1
<1>3. ASSUME q < k PROVE FALSE
  <2>1. b * q + b <= b * k
    BY <1>1, <1>3, Grows
  <2> QED BY <1>1, <1>2, <2>1
<1>4. ASSUME k < q PROVE FALSE
  <2>1. b * k + b <= b * q
    BY <1>1, <1>4, Grows
  <2> QED BY <1>1, <1>2, <2>1
<1>5. q = k
  BY <1>1, <1>3, <1>4
<1> QED BY <1>5 DEF q

(* The blocks of a reply, the last of them with at least a byte.           *)
LEMMA Blocks ==
    ASSUME NEW m \in Nat \ {0}
    PROVE  /\ BlocksFor(m) \in Nat \ {0}
           /\ BlocksFor(m) * Block - Block < m /\ m <= BlocksFor(m) * Block
           /\ (BlocksFor(m) - 1) * Block = BlocksFor(m) * Block - Block
           /\ BlocksFor(m) * Block \in Nat
<1> DEFINE b == BlocksFor(m)
<1>1. Block \in Nat \ {0}
  BY NiAssumption
<1>2. m + Block - 1 \in Nat
  BY <1>1
<1>3. b \in Nat /\ Block * b <= m + Block - 1 /\ m + Block - 1 < Block * b + Block
  BY <1>1, <1>2, Division DEF BlocksFor
<1> HIDE DEF b
<1>4. b # 0
  BY <1>1, <1>3
<1>5. b * Block = Block * b /\ Block * b \in Nat /\ (b - 1) * Block = b * Block - Block
  BY <1>1, <1>3
<1>6. b \in Nat \ {0} /\ b * Block - Block < m /\ m <= b * Block /\ b * Block \in Nat
  BY <1>1, <1>3, <1>4, <1>5
<1> QED BY <1>5, <1>6 DEF b

(* What readData of the NI transport makes of a reply of m bytes for which *)
(* it has room: it counts one block too few if the last one sticks out.    *)
LEMMA Counted ==
    ASSUME NEW m \in Nat, NEW w \in Nat, m <= w
    PROVE  /\ NiCount(m, w) = IF BlocksFor(m) > 1 /\ BlocksFor(m) * Block > w THEN m - Block ELSE m
           /\ NiCount(m, w) \in 0 .. w
<1> DEFINE b      == BlocksFor(m)
           tail   == m - (b - 1) * Block
           stored == Least(b * Block, w)
           whole  == stored \div Block
           count  == Least(IF whole > 0 THEN (whole - 1) * Block + tail ELSE tail, stored)
<1>1. Block \in Nat \ {0}
  BY NiAssumption
<1>2. CASE m = 0
  <2>1. NiCount(m, w) = 0
    BY <1>2 DEF NiCount
  <2>2. Block - 1 \in Nat /\ Block * 0 <= Block - 1 /\ Block - 1 < Block * 0 + Block /\ 0 + Block - 1 = Block - 1
    BY <1>1
  <2>3. b = 0
    BY <1>1, <1>2, <2>2, DivisionIs DEF BlocksFor
  <2> QED BY <1>2, <2>1, <2>3
<1>3. CASE m # 0
  <2>1. /\ b \in Nat \ {0} /\ b * Block - Block < m /\ m <= b * Block
        /\ (b - 1) * Block = b * Block - Block /\ b * Block \in Nat
    BY <1>3, Blocks
  <2>2. NiCount(m, w) = count
    BY <1>3 DEF NiCount
  <2> HIDE DEF b
  <2>3. tail = m - (b * Block - Block) /\ tail \in 1 .. m /\ tail <= Block
    <3>1. (b - 1) * Block \in Nat
      BY <1>1, <2>1
    <3> QED BY <1>1, <2>1, <3>1
  <2> HIDE DEF tail
  <2>4. CASE b * Block <= w
    <3>1. stored = b * Block
      BY <2>4 , <2>1 DEF Least
    <3>2. whole = b
      <4>1. Block * b = b * Block
        BY <1>1, <2>1
      <4>2. Block * b <= b * Block /\ b * Block < Block * b + Block
        BY <1>1, <2>1, <4>1
      <4> HIDE DEF stored
      <4>3. (b * Block) \div Block = b
        BY <1>1, <2>1, <4>2, DivisionIs
      <4> QED BY <3>1, <4>3
    <3>3. count = Least((b - 1) * Block + tail, b * Block)
      BY <2>1, <3>1, <3>2
    <3>4. (b - 1) * Block + tail = m
      BY <1>1, <2>1, <2>3
    <3>5. Least(m, b * Block) = m
      BY <2>1 DEF Least
    <3>6. count = m
      BY <3>3, <3>4, <3>5
    <3> QED BY <2>2, <2>4, <3>6, <2>1 DEF b
  <2>5. CASE b * Block > w
    <3>1. stored = w
      BY <2>5, <2>1 DEF Least
    <3>2. whole = b - 1
      <4>1. Block * (b - 1) = b * Block - Block
        BY <1>1, <2>1
      <4>2. b - 1 \in Nat /\ Block * (b - 1) <= w /\ w < Block * (b - 1) + Block
        BY <1>1, <2>1, <2>5, <4>1
      <4> HIDE DEF stored
      <4>3. w \div Block = b - 1
        BY <1>1, <4>2, DivisionIs
      <4> QED BY <3>1, <4>3
    <3>3. CASE b = 1
      <4>1. count = Least(tail, w)
        BY <3>1, <3>2, <3>3
      <4>2. tail = m
        BY <1>1, <2>3, <3>3
      <4> QED BY <2>2, <3>3, <4>1, <4>2 DEF Least, b
    <3>4. CASE b > 1
      <4>1. (b - 2) * Block = b * Block - Block - Block
        BY <1>1, <2>1
      <4>2. count = Least((b - 1 - 1) * Block + tail, w)
        BY <3>1, <3>2, <3>4, <2>1
      <4>3. b - 1 - 1 = b - 2
        BY <2>1
      <4>4. (b - 1 - 1) * Block + tail = m - Block
        BY <1>1, <2>1, <2>3, <4>1, <4>3
      <4>5. count = m - Block
        BY <1>1, <4>2, <4>4 DEF Least
      <4>6. m - Block \in 0 .. w
        <5>1. Block <= (b - 1) * Block
          BY <1>1, <2>1, <3>4
        <5> QED BY <1>1, <2>1, <5>1
      <4> QED BY <2>2, <2>5, <3>4, <4>5, <4>6 DEF b
    <3> QED BY <3>3, <3>4, <2>1
  <2> QED BY <2>4, <2>5, <2>1
<1> QED BY <1>2, <1>3

-----------------------------------------------------------------------------
(* The register requests the operations are made of.                       *)
LEMMA ExchangesWell ==
    ASSUME NEW op \in RegisterOps
    PROVE  /\ Len(AgilentExchanges[op]) \in 1 .. 4
           /\ \A k \in 1 .. Len(AgilentExchanges[op]) : AgilentExchanges[op][k] \in {"wr", "rd"}
           /\ NiExchanges[op] \in 0 .. 2 /\ (op # "lines" => NiExchanges[op] > 0)
<1>1. NiExchanges[op] \in 0 .. 2 /\ (op # "lines" => NiExchanges[op] > 0)
  BY DEF NiExchanges, RegisterOps
<1>2. AgilentExchanges[op] \in {<<"wr", "wr", "rd", "wr">>, <<"wr", "wr">>, <<"wr">>, <<"rd">>}
  BY DEF AgilentExchanges, RegisterOps
<1>3. ASSUME NEW s \in {<<"wr", "wr", "rd", "wr">>, <<"wr", "wr">>, <<"wr">>, <<"rd">>}
      PROVE  Len(s) \in 1 .. 4 /\ \A k \in 1 .. Len(s) : s[k] \in {"wr", "rd"}
  OBVIOUS
<1> QED BY <1>1, <1>2, <1>3

(* Something of a call that moves bytes always fits.                       *)
LEMMA WantFits ==
    ASSUME TypeOK, call.op \in DataOps, call.len \in Lengths
    PROVE  /\ NiWant \in 1 .. MaxPayload /\ AgilentWant \in 1 .. MaxPayload
           /\ Want \in 1 .. MaxPayload
<1>1. call.len \in Nat \ {0} /\ MaxPayload \in Nat \ {0} /\ MaxCommand \in 1 .. MaxPayload
  BY BulkAssumption, NiAssumption
<1>2. ASSUME NEW k \in 1 .. MaxPayload PROVE Least(call.len, k) \in 1 .. MaxPayload
  BY <1>1 DEF Least
<1>3. NiWant \in 1 .. MaxPayload /\ AgilentWant \in 1 .. MaxPayload
  BY <1>1, <1>2 DEF NiWant, AgilentWant
<1> QED BY <1>3 DEF Want

(* A step of the call in progress.                                         *)
SameCall ==
    /\ adapter' = adapter /\ call'.op = call.op /\ call'.len = call.len
    /\ call'.eoi = call.eoi /\ call'.clean = call.clean

(* What a call wants does not change while it is in progress.              *)
LEMMA SameWant ==
    ASSUME SameCall
    PROVE  Want' = Want /\ (NI' <=> NI) /\ (AGILENT' <=> AGILENT)
<1>1. (NI' <=> NI) /\ (AGILENT' <=> AGILENT)
  BY DEF SameCall, NI, AGILENT
<1>2. NiWant' = NiWant /\ AgilentWant' = AgilentWant
  BY DEF SameCall, NiWant, AgilentWant, Least
<1> QED BY <1>1, <1>2 DEF Want

(* The requests are what they were, and nothing crosses the bus.           *)
LEMMA QuietRequests ==
    ASSUME IInv, SameCall, UNCHANGED <<requests, crossed, ended>>,
           call'.phase \in {"open", "out"} =>
             call.phase \in {"open", "out"} \/ (~Over /\ call.op \in RegisterOps),
           Over => Over'
    PROVE  RequestsSound'
<1>1. Sound(requests', call'.op, call'.eoi, Want', crossed', ended')
  BY SameWant DEF SameCall, IInv, RequestsSound
<1>2. ASSUME call.op \in RegisterOps PROVE Unmoved(requests)
  <2>1. call.op \notin DataOps
    BY <1>2 DEF RegisterOps, DataOps
  <2> QED BY <2>1 DEF IInv, RequestsSound, Sound, DataRequest, Unmoved
<1>3. call'.phase \in {"open", "out"} => Unmoved(requests')
  BY <1>2 DEF IInv, RequestsSound
<1>4. call'.phase \in {"open", "out"} \/ (~Over' /\ call'.op \in RegisterOps) =>
        crossed' = 0 /\ ended' = FALSE
  BY DEF SameCall, IInv, RequestsSound
<1> QED BY <1>1, <1>3, <1>4 DEF RequestsSound

(* Nothing is promised of a call that is not over...                       *)
LEMMA StillGoing ==
    ASSUME ~Over'
    PROVE  Results'
BY DEF Results, OkIsWhole, CountsAreTrue, IdsChecked, SyncKept, AbortStopsAdapter

(* ... and little of one that fails.                                       *)
LEMMA FailedCall ==
    ASSUME call'.rc # "ok", call'.n = 0, crossed' \in Nat,
           AGILENT' /\ call'.clean /\ call'.op = "read" /\ call'.aborted # "lost" => requests' = <<>>
    PROVE  Results'
BY DEF Results, OkIsWhole, CountsAreTrue, IdsChecked, SyncKept, AbortStopsAdapter
-----------------------------------------------------------------------------
(* The board begins a call.                                                *)
LEMMA StartKeeps ==
    ASSUME IInv, NEW op \in RegisterOps \cup DataOps, op # "attach", NEW len \in Lengths \cup {0},
           NEW eoi \in BOOLEAN, NEW patient \in BOOLEAN, Start(op, len, eoi, patient)
    PROVE  IInv'
<1>1. /\ call'.op = op /\ call'.len = len /\ call'.eoi = eoi /\ call'.done = 0
      /\ call'.phase = "out" /\ call'.rc = "ok" /\ call'.n = 0 /\ call'.took = "none"
      /\ call'.clean = InSync /\ call'.aborted = "no"
      /\ call' = [op |-> op, len |-> len, eoi |-> eoi, patient |-> patient, done |-> 0,
                  phase |-> "out", rc |-> "ok", n |-> 0, end |-> FALSE, took |-> "none",
                  clean |-> InSync, aborted |-> "no"]
  BY DEF Start
<1>2. call' \in Calls
  <2>1. InSync \in BOOLEAN /\ 0 \in 0 .. MaxPayload
    BY BulkAssumption DEF InSync
  <2> QED BY <1>1, <2>1 DEF Calls, Codes, Kinds
<1>3. op \in DataOps => len \in Lengths
  BY DEF Start
<1>4. /\ requests' \in Seq(Requests) /\ Len(requests') = Len(requests)
      /\ \A i \in 1 .. Len(requests') : /\ requests'[i].own = FALSE
                                        /\ requests'[i].moved = requests[i].moved
                                        /\ requests'[i].want = requests[i].want
  <2>1. requests \in Seq(Requests)
    BY DEF IInv, TypeOK, BulkTypeOK
  <2>2. requests' = [i \in 1 .. Len(requests) |-> [requests[i] EXCEPT !.own = FALSE]]
    BY <2>1 DEF Start
  <2>3. ASSUME NEW r \in Requests
        PROVE  /\ [r EXCEPT !.own = FALSE] \in Requests
               /\ [r EXCEPT !.own = FALSE].own = FALSE
               /\ [r EXCEPT !.own = FALSE].moved = r.moved
               /\ [r EXCEPT !.own = FALSE].want = r.want
    BY DEF Requests
  <2>4. \A i \in 1 .. Len(requests) : requests[i] \in Requests
    BY <2>1
  <2> QED BY <2>1, <2>2, <2>3, <2>4
<1>5. TypeOK'
  <2>1. reply' \in 0 .. MaxPayload /\ crossed' = 0 /\ ended' = FALSE /\ 0 \in 0 .. MaxPayload
    BY BulkAssumption DEF Start, IInv, TypeOK, BulkTypeOK
  <2>2. UNCHANGED <<adapter, attached, responses, lastMoved>>
    BY DEF Start
  <2> QED BY <1>2, <1>4, <2>1, <2>2 DEF IInv, TypeOK, BulkTypeOK
<1>6. CallSound'
  <2>1. op \in RegisterOps /\ ~(NI' /\ op = "lines") => 0 < Exchanges(op)'
    BY ExchangesWell DEF Exchanges, NiExchanges, AgilentExchanges
  <2> QED BY <1>1, <1>3, <2>1 DEF CallSound, Over
<1>7. RequestsSound'
  <2>1. \A i \in 1 .. Len(requests') : requests'[i].moved <= requests'[i].want
    BY <1>4 DEF IInv, RequestsSound, Sound
  <2>2. Sound(requests', call'.op, call'.eoi, Want', crossed', ended')
    BY <1>4, <2>1 DEF Sound
  <2>3. Unmoved(requests')
    BY <1>4 DEF Unmoved
  <2> QED BY <2>2, <2>3 DEF RequestsSound, Start
<1>8. Kept'
  <2>1. InSync => requests' = <<>> /\ responses' = <<>>
    BY <1>4 DEF InSync, Start
  <2>2. requests' = <<>> => AllOwn(requests', op)
    BY DEF AllOwn
  <2> QED BY <1>1, <2>1, <2>2 DEF Kept, InStep
<1>9. Results'
  BY <1>1, StillGoing DEF Over
<1> QED BY <1>5, <1>6, <1>7, <1>8, <1>9 DEF IInv

(* attach opens the pipes.                                                 *)
LEMMA OpenPipesKeeps ==
    ASSUME IInv, OpenPipes
    PROVE  IInv'
<1>1. call \in Calls /\ call.phase = "open" /\ call.op = "attach"
  BY DEF OpenPipes, IInv, TypeOK, BulkTypeOK, CallSound
<1>2. /\ call' \in Calls /\ SameCall /\ call'.done = call.done /\ call'.took = call.took
      /\ call'.n = call.n /\ call'.aborted = call.aborted
      /\ \/ call'.phase = "out" /\ call'.rc = call.rc
         \/ call'.phase = "over" /\ call'.rc = "io"
  BY <1>1 DEF OpenPipes, Return, Calls, Codes, SameCall
<1>3. TypeOK' /\ UNCHANGED <<requests, responses, crossed, ended>>
  BY <1>2 DEF OpenPipes, device, IInv, TypeOK, BulkTypeOK
<1>4. CallSound'
  <2>1. Exchanges(call.op)' = Exchanges(call.op)
    BY <1>2, SameWant DEF SameCall, Exchanges, NiExchanges, AgilentExchanges
  <2> QED BY <1>1, <1>2, <2>1, SameWant DEF IInv, CallSound, Over, SameCall, DataOps, RegisterOps
<1>5. RequestsSound'
  BY <1>1, <1>2, <1>3, QuietRequests DEF Over
<1>6. Kept'
  BY <1>1, <1>2, <1>3 DEF IInv, Kept, InStep, SameCall
<1>7. Results'
  <2>1. call.n = 0 /\ crossed \in Nat
    BY <1>1, BulkAssumption DEF IInv, CallSound, Over, TypeOK, BulkTypeOK
  <2>2. CASE call'.phase = "out"
    BY <2>2, StillGoing DEF Over
  <2>3. CASE call'.rc = "io"
    BY <1>1, <1>2, <1>3, <2>1, <2>3, FailedCall DEF SameCall
  <2> QED BY <1>2, <2>2, <2>3
<1> QED BY <1>3, <1>4, <1>5, <1>6, <1>7 DEF IInv

(* readBusLines of the NI transport.                                       *)
LEMMA NiLinesKeeps ==
    ASSUME IInv, NiLines
    PROVE  IInv'
<1>1. call \in Calls /\ call.phase = "out" /\ call.op = "lines" /\ NI
  BY DEF NiLines, IInv, TypeOK, BulkTypeOK
<1>2. /\ call' \in Calls /\ SameCall /\ call'.took = call.took /\ call'.n = call.n
      /\ call'.aborted = call.aborted /\ call'.phase = "over" /\ call'.rc = "io"
  BY <1>1 DEF NiLines, Return, Calls, Codes, SameCall
<1>3. TypeOK' /\ UNCHANGED <<requests, responses, crossed, ended>>
  BY <1>2 DEF NiLines, device, IInv, TypeOK, BulkTypeOK
<1>4. CallSound'
  BY <1>1, <1>2, SameWant DEF IInv, CallSound, Over, SameCall, DataOps, RegisterOps
<1>5. RequestsSound'
  BY <1>1, <1>2, <1>3, QuietRequests DEF Over
<1>6. Kept'
  BY <1>1, <1>2, <1>3 DEF IInv, Kept, InStep, SameCall
<1>7. Results'
  <2>1. call.n = 0 /\ crossed \in Nat
    BY <1>1, BulkAssumption DEF IInv, CallSound, Over, TypeOK, BulkTypeOK
  <2> QED BY <1>1, <1>2, <1>3, <2>1, FailedCall DEF SameCall
<1> QED BY <1>3, <1>4, <1>5, <1>6, <1>7 DEF IInv

(* A request of the call in progress is added.                             *)
LEMMA Added ==
    ASSUME IInv, SameCall, UNCHANGED <<crossed, ended>>, call.phase = "out",
           NEW r \in Requests, r.own, r.moved = 0, r.end = FALSE,
           call.op \notin DataOps => RegisterRequest(r),
           call.op \in DataOps => r.kind = call.op /\ r.want = Want /\ r.eoi = call.eoi,
           NEW s, s = Append(requests, r)
    PROVE  /\ s \in Seq(Requests) /\ Len(s) = Len(requests) + 1
           /\ Sound(s, call.op, call.eoi, Want, crossed, ended)
           /\ call.clean /\ call.took # "lost" => AllOwn(s, call.op) /\ s = <<r>>
<1>1. requests \in Seq(Requests) /\ crossed = 0 /\ ended = FALSE /\ Unmoved(requests)
  BY DEF IInv, TypeOK, BulkTypeOK, RequestsSound
<1>2. /\ s \in Seq(Requests) /\ Len(s) = Len(requests) + 1 /\ s[Len(s)] = r
      /\ \A i \in 1 .. Len(requests) : s[i] = requests[i]
  BY <1>1
<1>3. r.want \in Nat /\ 0 <= r.want
  BY BulkAssumption DEF Requests
<1>4. call.op \in DataOps => DataRequest(r, call.op, call.eoi, Want, crossed, ended)
  <2>1. call.op \in DataOps => Want # 0
    BY WantFits DEF IInv, CallSound
  <2> QED BY <1>1, <2>1 DEF DataRequest
<1>5. \A i \in 1 .. Len(s) : /\ s[i].moved <= s[i].want
                             /\ i # Len(s) /\ s[i].own => RegisterRequest(s[i])
                             /\ i = Len(s) => s[i] = r
  BY <1>1, <1>2, <1>3 DEF IInv, RequestsSound, Sound, Unmoved
<1>6. Sound(s, call.op, call.eoi, Want, crossed, ended)
  BY <1>4, <1>5 DEF Sound
<1>7. ASSUME call.clean, call.took # "lost"
      PROVE  AllOwn(s, call.op) /\ s = <<r>>
  <2>1. requests = <<>>
    BY <1>7 DEF IInv, Kept, InStep
  <2>2. s = <<r>>
    BY <2>1
  <2> QED BY <2>2 DEF AllOwn
<1> QED BY <1>2, <1>6, <1>7

(* What the requests of the two transports are.                            *)
LEMMA RequestsWell ==
    ASSUME IInv, call.phase = "out"
    PROVE  /\ NI /\ call.op # "lines" =>
                /\ NiRequest \in Requests /\ NiRequest.own /\ NiRequest.moved = 0 /\ NiRequest.end = FALSE
                /\ call.op \notin DataOps => RegisterRequest(NiRequest)
                /\ call.op \in DataOps =>
                     NiRequest.kind = call.op /\ NiRequest.want = Want /\ NiRequest.eoi = call.eoi
           /\ AGILENT =>
                /\ AgilentRequest \in Requests /\ AgilentRequest.own
                /\ AgilentRequest.moved = 0 /\ AgilentRequest.end = FALSE
                /\ call.op \notin DataOps => RegisterRequest(AgilentRequest)
                /\ call.op \in DataOps => /\ AgilentRequest.kind = call.op
                                          /\ AgilentRequest.want = Want
                                          /\ AgilentRequest.eoi = call.eoi
<1>1. call \in Calls /\ 0 \in 0 .. MaxPayload /\ call.eoi \in BOOLEAN
  BY BulkAssumption DEF IInv, TypeOK, BulkTypeOK, Calls
<1>2. CASE call.op \in DataOps
  <2>1. NiWant \in 0 .. MaxPayload /\ AgilentWant \in 0 .. MaxPayload
    BY <1>2, WantFits DEF IInv, CallSound
  <2>2. (NI => NiWant = Want) /\ (AGILENT => AgilentWant = Want)
    BY DEF Want, NI, AGILENT
  <2>3. /\ NiRequest = [kind |-> call.op, own |-> TRUE, want |-> NiWant, eoi |-> call.eoi,
                        moved |-> 0, end |-> FALSE]
        /\ AgilentRequest = [kind |-> call.op, own |-> TRUE, want |-> AgilentWant, eoi |-> call.eoi,
                             moved |-> 0, end |-> FALSE]
    BY <1>2 DEF NiRequest, AgilentRequest
  <2> QED BY <1>1, <1>2, <2>1, <2>2, <2>3 DEF Requests, Kinds
<1>3. CASE call.op \notin DataOps
  <2>1. call.op \in RegisterOps /\ call.done \in 0 .. 4
    BY <1>1, <1>3 DEF Calls
  <2>2. AGILENT => Exchange \in {"wr", "rd"}
    <3>1. AGILENT => call.done < Len(AgilentExchanges[call.op])
      BY <2>1 DEF IInv, CallSound, Over, Exchanges, NI, AGILENT
    <3>2. AGILENT => call.done + 1 \in 1 .. Len(AgilentExchanges[call.op])
      BY <2>1, <3>1, ExchangesWell
    <3> QED BY <2>1, <3>2, ExchangesWell DEF Exchange
  <2>3. /\ NiRequest = [kind |-> "wr", own |-> TRUE, want |-> 0, eoi |-> FALSE,
                        moved |-> 0, end |-> FALSE]
        /\ AgilentRequest = [kind |-> Exchange, own |-> TRUE, want |-> 0, eoi |-> FALSE,
                             moved |-> 0, end |-> FALSE]
    BY <1>3 DEF NiRequest, AgilentRequest
  <2> QED BY <1>1, <1>3, <2>2, <2>3 DEF Requests, Kinds, RegisterRequest
<1> QED BY <1>2, <1>3

(* A request goes out.                                                     *)
LEMMA OutKeeps ==
    ASSUME IInv, NiOut \/ AgilentOut
    PROVE  IInv'
<1> DEFINE r == IF NI THEN NiRequest ELSE AgilentRequest
<1>1. /\ call \in Calls /\ call.phase = "out" /\ (NI \/ AGILENT) /\ ~(NI /\ AGILENT)
      /\ ~(NI /\ call.op = "lines")
  BY DEF NiOut, AgilentOut, BulkOut, IInv, TypeOK, BulkTypeOK, NI, AGILENT
<1>2. /\ requests' = Append(requests, r) /\ Len(requests) < MaxPending
      /\ UNCHANGED <<adapter, attached, responses, lastMoved, crossed, ended, reply>>
  BY <1>1 DEF NiOut, AgilentOut, BulkOut, RoomForRequest, Enqueue
<1>3. /\ call' \in Calls /\ SameCall /\ call'.done = call.done /\ call'.took = call.took
      /\ call'.n = call.n /\ call'.rc = call.rc /\ call'.aborted = call.aborted
      /\ call'.phase = (IF AGILENT /\ call.op \in {"command", "write"} THEN "status" ELSE "in")
  BY <1>1, <1>2 DEF NiOut, AgilentOut, BulkOut, Calls, SameCall, NI, AGILENT
<1>4. /\ requests' \in Seq(Requests) /\ Len(requests') = Len(requests) + 1
      /\ Sound(requests', call.op, call.eoi, Want, crossed, ended)
      /\ call.clean /\ call.took # "lost" => AllOwn(requests', call.op) /\ requests' = <<r>>
  <2>1. /\ r \in Requests /\ r.own /\ r.moved = 0 /\ r.end = FALSE
        /\ call.op \notin DataOps => RegisterRequest(r)
        /\ call.op \in DataOps => r.kind = call.op /\ r.want = Want /\ r.eoi = call.eoi
    BY <1>1, RequestsWell
  <2> HIDE DEF r
  <2> QED BY <1>1, <1>2, <1>3, <2>1, Added
<1> HIDE DEF r
<1>5. TypeOK'
  <2>1. Len(requests') <= MaxPending
    BY <1>2, <1>4, BulkAssumption DEF IInv, TypeOK, BulkTypeOK
  <2> QED BY <1>2, <1>3, <1>4, <2>1 DEF IInv, TypeOK, BulkTypeOK
<1>6. CallSound'
  <2>1. Exchanges(call.op)' = Exchanges(call.op)
    BY <1>3, SameWant DEF SameCall, Exchanges, NiExchanges, AgilentExchanges
  <2> QED BY <1>1, <1>3, <2>1, SameWant DEF IInv, CallSound, Over, SameCall, DataOps, RegisterOps
<1>7. RequestsSound'
  <2>1. Sound(requests', call'.op, call'.eoi, Want', crossed', ended')
    BY <1>2, <1>3, <1>4, SameWant DEF SameCall
  <2> QED BY <1>1, <1>2, <1>3, <2>1 DEF IInv, RequestsSound, SameCall
<1>8. Kept'
  <2>1. call.clean /\ call.took # "lost" => responses = <<>>
    BY <1>1 DEF IInv, Kept, InStep
  <2>2. requests' = <<r>> => Len(requests') = 1 /\ requests' # <<>>
    OBVIOUS
  <2> QED BY <1>2, <1>3, <1>4, <2>1, <2>2 DEF Kept, InStep, SameCall
<1>9. Results'
  BY <1>3, StillGoing DEF Over
<1> QED BY <1>5, <1>6, <1>7, <1>8, <1>9 DEF IInv
-----------------------------------------------------------------------------
(* A call fails, and its requests and the answers may change.              *)
LEMMA FailureKeeps ==
    ASSUME IInv, SameCall, call' \in Calls, call'.phase = "over", call'.rc # "ok",
           call'.took = call.took, call'.n = 0,
           UNCHANGED <<attached, lastMoved, crossed, ended, reply>>,
           responses' \in Seq(Responses), Len(responses') <= MaxStale + 1,
           requests' \in Seq(Requests), Len(requests') <= MaxPending,
           Sound(requests', call.op, call.eoi, Want, crossed, ended),
           call.clean /\ call.took # "lost" => AllOwn(requests', call.op),
           AGILENT /\ call.clean /\ call.op = "read" /\ call'.aborted # "lost" => requests' = <<>>
    PROVE  IInv'
<1>1. TypeOK'
  BY DEF SameCall, IInv, TypeOK, BulkTypeOK
<1>2. CallSound'
  BY SameWant DEF IInv, CallSound, Over, SameCall, DataOps, RegisterOps
<1>3. RequestsSound'
  <2>1. Sound(requests', call'.op, call'.eoi, Want', crossed', ended')
    BY SameWant DEF SameCall
  <2> QED BY <2>1 DEF RequestsSound, Over
<1>4. Kept'
  BY DEF Kept, InStep, SameCall
<1>5. Results'
  <2>1. crossed' \in Nat
    BY BulkAssumption DEF IInv, TypeOK, BulkTypeOK
  <2> QED BY <2>1, SameWant, FailedCall DEF SameCall
<1> QED BY <1>1, <1>2, <1>3, <1>4, <1>5 DEF IInv

(* The adapter is through with a request.                                  *)
LEMMA Shorter ==
    ASSUME NEW s \in Seq(Requests), s # <<>>, NEW op, NEW eoi, NEW w, NEW n, NEW e,
           Sound(s, op, eoi, w, n, e)
    PROVE  /\ Tail(s) \in Seq(Requests) /\ Len(Tail(s)) = Len(s) - 1
           /\ \A i \in 1 .. Len(Tail(s)) : i + 1 \in 1 .. Len(s) /\ Tail(s)[i] = s[i + 1]
           /\ Sound(Tail(s), op, eoi, w, n, e)
           /\ \A o : AllOwn(s, o) => AllOwn(Tail(s), o)
           /\ Len(s) = 1 => Tail(s) = <<>>
<1>1. /\ Tail(s) \in Seq(Requests) /\ Len(Tail(s)) = Len(s) - 1 /\ Len(s) \in Nat
      /\ \A i \in 1 .. Len(Tail(s)) : i + 1 \in 1 .. Len(s) /\ Tail(s)[i] = s[i + 1]
  OBVIOUS
<1>2. Sound(Tail(s), op, eoi, w, n, e)
  <2>1. ASSUME NEW i \in 1 .. Len(Tail(s))
        PROVE  /\ Tail(s)[i].moved <= Tail(s)[i].want
               /\ Tail(s)[i].own =>
                    RegisterRequest(Tail(s)[i]) \/ DataRequest(Tail(s)[i], op, eoi, w, n, e)
    BY <1>1 DEF Sound
  <2>2. ASSUME NEW i \in 1 .. Len(Tail(s)), NEW j \in 1 .. Len(Tail(s)),
               Tail(s)[i].own, ~RegisterRequest(Tail(s)[i]),
               Tail(s)[j].own, ~RegisterRequest(Tail(s)[j])
        PROVE  i = j
    <3>1. i + 1 = j + 1
      BY <1>1, <2>2 DEF Sound
    <3> QED BY <3>1
  <2> QED BY <2>1, <2>2 DEF Sound
<1>3. \A o : AllOwn(s, o) => AllOwn(Tail(s), o)
  BY <1>1 DEF AllOwn
<1> QED BY <1>1, <1>2, <1>3

(* What the adapter has of the call's request is what it had.              *)
LEMMA SameRequests ==
    ASSUME IInv, UNCHANGED requests
    PROVE  /\ requests' \in Seq(Requests) /\ Len(requests') <= MaxPending
           /\ Sound(requests', call.op, call.eoi, Want, crossed, ended)
           /\ call.clean /\ call.took # "lost" => AllOwn(requests', call.op)
BY DEF IInv, TypeOK, BulkTypeOK, RequestsSound, Kept, InStep

(* A request of the NI transport fails to go out.                          *)
LEMMA NiOutFailsKeeps ==
    ASSUME IInv, NiOutFails
    PROVE  IInv'
<1>1. /\ call \in Calls /\ call.phase = "out" /\ NI /\ call.op # "lines" /\ ~AGILENT
      /\ call.n = 0 /\ Len(requests) \in Nat /\ MaxPending \in Nat
  BY BulkAssumption DEF NiOutFails, BulkOutFails, IInv, TypeOK, BulkTypeOK, NI, AGILENT, CallSound, Over
<1>2. /\ call' \in Calls /\ SameCall /\ call'.took = call.took /\ call'.n = 0
      /\ call'.phase = "over" /\ call'.rc = "io"
  BY <1>1 DEF NiOutFails, Return, Calls, Codes, SameCall
<1>3. UNCHANGED <<attached, responses, lastMoved, crossed, ended, reply>>
  BY DEF NiOutFails
<1>4. responses' \in Seq(Responses) /\ Len(responses') <= MaxStale + 1
  BY <1>3 DEF IInv, TypeOK, BulkTypeOK
<1>5. /\ requests' \in Seq(Requests) /\ Len(requests') <= MaxPending
      /\ Sound(requests', call.op, call.eoi, Want, crossed, ended)
      /\ call.clean /\ call.took # "lost" => AllOwn(requests', call.op)
  <2>1. CASE UNCHANGED requests
    BY <2>1, SameRequests
  <2>2. CASE RoomForRequest /\ requests' = Append(requests, NiRequest)
    <3>1. Len(requests) + 1 <= MaxPending
      BY <1>1, <2>2 DEF RoomForRequest
    <3>2. /\ NiRequest \in Requests /\ NiRequest.own /\ NiRequest.moved = 0 /\ NiRequest.end = FALSE
          /\ call.op \notin DataOps => RegisterRequest(NiRequest)
          /\ call.op \in DataOps =>
               NiRequest.kind = call.op /\ NiRequest.want = Want /\ NiRequest.eoi = call.eoi
      BY <1>1, RequestsWell
    <3> QED BY <1>1, <1>2, <1>3, <2>2, <3>1, <3>2, Added
  <2> QED BY <2>1, <2>2 DEF NiOutFails, BulkOutFails, Enqueue
<1> QED BY <1>1, <1>2, <1>3, <1>4, <1>5, FailureKeeps

(* One of the Agilent's does, and its call aborts.                         *)
LEMMA AgilentOutFailsKeeps ==
    ASSUME IInv, AgilentOutFails
    PROVE  IInv'
<1>1. /\ call \in Calls /\ call.phase = "out" /\ AGILENT /\ call.n = 0
      /\ Len(requests) \in Nat /\ MaxPending \in Nat
  BY BulkAssumption DEF AgilentOutFails, IInv, TypeOK, BulkTypeOK, CallSound, Over
<1>2. UNCHANGED <<adapter, attached, lastMoved, crossed, ended, reply>>
  BY DEF AgilentOutFails
<1>3. PICK pending \in {requests} \cup
            IF "out" \in Failures /\ RoomForRequest
            THEN {Append(requests, AgilentRequest)} ELSE {} :
         IF call.op \in DataOps
         THEN SendAbort(pending, FALSE, [call EXCEPT !.phase = "over", !.rc = "io"])
         ELSE requests' = pending /\ Return("io") /\ UNCHANGED responses
  BY DEF AgilentOutFails
<1>4. /\ call' \in Calls /\ SameCall /\ call'.took = call.took /\ call'.n = 0
      /\ call'.phase = "over" /\ call'.rc = "io"
  <2>1. /\ [call EXCEPT !.phase = "over", !.rc = "io"] \in Calls
        /\ \A a \in {"yes", "lost"} :
             [[call EXCEPT !.phase = "over", !.rc = "io"] EXCEPT !.aborted = a] \in Calls
    BY <1>1 DEF Calls, Codes
  <2>2. \/ call' = [call EXCEPT !.phase = "over", !.rc = "io"]
        \/ \E a \in {"yes", "lost"} :
             call' = [[call EXCEPT !.phase = "over", !.rc = "io"] EXCEPT !.aborted = a]
    BY <1>3 DEF SendAbort, Return
  <2>3. ASSUME NEW c \in Calls
        PROVE  LET d == [c EXCEPT !.phase = "over", !.rc = "io"]
               IN /\ d.op = c.op /\ d.len = c.len /\ d.eoi = c.eoi /\ d.clean = c.clean
                  /\ d.took = c.took /\ d.n = c.n /\ d.phase = "over" /\ d.rc = "io"
    BY DEF Calls
  <2>4. ASSUME NEW c \in Calls, NEW a
        PROVE  LET d == [c EXCEPT !.aborted = a]
               IN /\ d.op = c.op /\ d.len = c.len /\ d.eoi = c.eoi /\ d.clean = c.clean
                  /\ d.took = c.took /\ d.n = c.n /\ d.phase = c.phase /\ d.rc = c.rc
    BY DEF Calls
  <2>5. CASE call' = [call EXCEPT !.phase = "over", !.rc = "io"]
    BY <1>1, <1>2, <2>1, <2>3, <2>5 DEF SameCall
  <2>6. CASE \E a \in {"yes", "lost"} :
               call' = [[call EXCEPT !.phase = "over", !.rc = "io"] EXCEPT !.aborted = a]
    <3> DEFINE c == [call EXCEPT !.phase = "over", !.rc = "io"]
    <3>1. /\ c \in Calls /\ c.op = call.op /\ c.len = call.len /\ c.eoi = call.eoi
          /\ c.clean = call.clean /\ c.took = call.took /\ c.n = call.n
          /\ c.phase = "over" /\ c.rc = "io"
      BY <1>1, <2>1, <2>3
    <3>2. PICK a \in {"yes", "lost"} : call' = [c EXCEPT !.aborted = a]
      BY <2>6
    <3>3. call' \in Calls
      BY <2>1, <3>2
    <3> HIDE DEF c
    <3> QED BY <1>1, <1>2, <2>4, <3>1, <3>2, <3>3 DEF SameCall
  <2> QED BY <2>2, <2>5, <2>6
<1>5. UNCHANGED responses
  BY <1>3 DEF SendAbort, AbortArrives
<1>6. responses' \in Seq(Responses) /\ Len(responses') <= MaxStale + 1
  BY <1>5 DEF IInv, TypeOK, BulkTypeOK
<1>7. /\ pending \in Seq(Requests) /\ Len(pending) <= MaxPending
      /\ Sound(pending, call.op, call.eoi, Want, crossed, ended)
      /\ call.clean /\ call.took # "lost" => AllOwn(pending, call.op) /\ Len(pending) <= 1
  <2>1. CASE pending = requests
    BY <1>1, <2>1 DEF IInv, TypeOK, BulkTypeOK, RequestsSound, Kept, InStep
  <2>2. CASE RoomForRequest /\ pending = Append(requests, AgilentRequest)
    <3>1. Len(requests) + 1 <= MaxPending
      BY <1>1, <2>2 DEF RoomForRequest
    <3>2. /\ AgilentRequest \in Requests /\ AgilentRequest.own
          /\ AgilentRequest.moved = 0 /\ AgilentRequest.end = FALSE
          /\ call.op \notin DataOps => RegisterRequest(AgilentRequest)
          /\ call.op \in DataOps => /\ AgilentRequest.kind = call.op
                                    /\ AgilentRequest.want = Want
                                    /\ AgilentRequest.eoi = call.eoi
      BY <1>1, RequestsWell
    <3>3. /\ pending \in Seq(Requests) /\ Len(pending) = Len(requests) + 1
          /\ Sound(pending, call.op, call.eoi, Want, crossed, ended)
          /\ call.clean /\ call.took # "lost" =>
               AllOwn(pending, call.op) /\ pending = <<AgilentRequest>>
      BY <1>1, <1>2, <1>4, <2>2, <3>2, Added
    <3> QED BY <1>1, <3>1, <3>3
  <2> QED BY <2>1, <2>2
<1>8. /\ requests' \in {pending} \cup (IF pending = <<>> THEN {} ELSE {Tail(pending)})
      /\ call.op = "read" /\ call'.aborted # "lost" =>
           requests' = IF pending = <<>> THEN pending ELSE Tail(pending)
  BY <1>1, <1>3 DEF SendAbort, AbortArrives, DataOps, Calls
<1>9. /\ requests' \in Seq(Requests) /\ Len(requests') <= MaxPending
      /\ Sound(requests', call.op, call.eoi, Want, crossed, ended)
      /\ call.clean /\ call.took # "lost" => AllOwn(requests', call.op)
  <2>1. CASE requests' = pending
    BY <1>7, <2>1
  <2>2. CASE pending # <<>> /\ requests' = Tail(pending)
    <3>1. /\ Tail(pending) \in Seq(Requests) /\ Len(Tail(pending)) = Len(pending) - 1
          /\ Sound(Tail(pending), call.op, call.eoi, Want, crossed, ended)
          /\ AllOwn(pending, call.op) => AllOwn(Tail(pending), call.op)
      BY <1>7, <2>2, Shorter
    <3>2. Len(Tail(pending)) <= MaxPending
      <4>1. Len(pending) \in Nat /\ MaxPending \in Nat
        BY <1>1, <1>7
      <4>2. Len(pending) <= MaxPending /\ Len(Tail(pending)) = Len(pending) - 1
        BY <1>7, <3>1
      <4>3. \A m, n \in Nat : n <= m => n - 1 <= m
        OBVIOUS
      <4> QED BY <4>1, <4>2, <4>3
    <3> QED BY <1>7, <2>2, <3>1, <3>2
  <2> QED BY <1>8, <2>1, <2>2
<1>10. call.clean /\ call.op = "read" /\ call'.aborted # "lost" => requests' = <<>>
  <2>1. call.op = "read" => call.took # "lost"
    BY <1>1 DEF IInv, CallSound, AGILENT, NI
  <2>2. call.clean /\ call.op = "read" => Len(pending) <= 1
    BY <1>7, <2>1
  <2>3. pending # <<>> /\ Len(pending) <= 1 => Tail(pending) = <<>>
    BY <1>7
  <2> QED BY <1>8, <2>2, <2>3
<1> QED BY <1>1, <1>2, <1>4, <1>6, <1>9, <1>10, FailureKeeps
-----------------------------------------------------------------------------
(* Taking an answer off the pipe.                                          *)
LEMMA AnswerTaken ==
    ASSUME IInv, responses # <<>>
    PROVE  /\ Answer \in Responses /\ Answer = responses[1]
           /\ Tail(responses) \in Seq(Responses) /\ Len(Tail(responses)) <= MaxStale + 1
           /\ call.clean /\ call.took # "lost" /\ call.phase \in {"in", "late"} =>
                requests = <<>> /\ Tail(responses) = <<>>
<1>1. responses \in Seq(Responses) /\ Len(responses) <= MaxStale + 1 /\ MaxStale \in Nat
  BY BulkAssumption DEF IInv, TypeOK, BulkTypeOK
<1>2. Answer \in Responses /\ Answer = responses[1]
  BY <1>1 DEF Answer
<1>3. Tail(responses) \in Seq(Responses) /\ Len(Tail(responses)) = Len(responses) - 1 /\ Len(responses) \in Nat
  BY <1>1
<1>4. Len(Tail(responses)) <= MaxStale + 1
  <2>1. \A m, k \in Nat : k <= m => k - 1 <= m
    OBVIOUS
  <2>2. MaxStale + 1 \in Nat /\ Len(responses) <= MaxStale + 1
    BY <1>1
  <2> QED BY <1>3, <2>1, <2>2
<1>5. Len(responses) = 1 => Tail(responses) = <<>>
  <2>1. ASSUME NEW s \in Seq(Responses), Len(s) = 1 PROVE Tail(s) = <<>>
    <3>1. Tail(s) \in Seq(Responses) /\ Len(Tail(s)) = 0
      BY <2>1
    <3> QED BY <3>1, EmptySeq
  <2> QED BY <1>1, <2>1
<1> QED BY <1>2, <1>3, <1>4, <1>5 DEF IInv, Kept, InStep

(* writeRegister of the NI transport takes an answer.                      *)
LEMMA NiRegisterInKeeps ==
    ASSUME IInv, NiRegisterIn
    PROVE  IInv'
<1>1. /\ call \in Calls /\ call.phase = "in" /\ NI /\ ~AGILENT /\ call.op \in RegisterOps
      /\ call.op # "lines" /\ call.op \notin DataOps /\ responses # <<>>
  BY DEF NiRegisterIn, IInv, TypeOK, BulkTypeOK, NI, AGILENT, CallSound, RegisterOps, DataOps
<1>2. /\ Answer \in Responses
      /\ Tail(responses) \in Seq(Responses) /\ Len(Tail(responses)) <= MaxStale + 1
      /\ call.clean /\ call.took # "lost" => requests = <<>> /\ Tail(responses) = <<>>
  BY <1>1, AnswerTaken
<1>3. /\ responses' = Tail(responses)
      /\ UNCHANGED <<adapter, requests, lastMoved, crossed, ended, reply>>
      /\ attached' \in BOOLEAN
  BY DEF NiRegisterIn, NiNext, IInv, TypeOK, BulkTypeOK
<1>4. /\ call.done \in 0 .. 4 /\ call.done < NiExchanges[call.op] /\ NiExchanges[call.op] \in 0 .. 2
      /\ call.rc = "ok" /\ call.n = 0
  BY <1>1, ExchangesWell DEF Calls, IInv, CallSound, Exchanges, Over
<1>5. /\ call' \in Calls /\ SameCall /\ call'.done = call.done + 1
      /\ call'.took \in Kinds \cup {"lost"} /\ (call'.took = "lost" <=> call.took = "lost")
      /\ call'.n = 0 /\ call'.rc = "ok" /\ call'.aborted = call.aborted
      /\ call'.phase = IF call.done + 1 = NiExchanges[call.op] THEN "over" ELSE "out"
  <2>1. Answer.kind \in Kinds /\ Answer.kind # "lost" /\ call.done + 1 \in 0 .. 4
    BY <1>2, <1>4 DEF Responses, Kinds, DataOps
  <2>2. call' = [call EXCEPT !.done = call.done + 1,
                             !.took = IF call.took = "lost" THEN call.took ELSE Answer.kind,
                             !.phase = IF call.done + 1 = NiExchanges[call.op] THEN "over" ELSE "out"]
    BY DEF NiRegisterIn, NiNext
  <2> QED BY <1>1, <1>3, <1>4, <2>1, <2>2 DEF Calls, SameCall
<1>6. TypeOK'
  BY <1>2, <1>3, <1>5 DEF IInv, TypeOK, BulkTypeOK
<1>7. CallSound'
  <2>1. Exchanges(call.op)' = NiExchanges[call.op]
    BY <1>1, <1>5, SameWant DEF SameCall, Exchanges, NiExchanges, AgilentExchanges
  <2>2. ~Over' => call.done + 1 < NiExchanges[call.op]
    BY <1>4, <1>5 DEF Over
  <2> QED BY <1>1, <1>5, <2>1, <2>2, SameWant DEF CallSound, Over, SameCall, DataOps, RegisterOps
<1>8. RequestsSound'
  BY <1>1, <1>3, <1>5, QuietRequests DEF Over
<1>9. Kept'
  <2>1. call.clean /\ call.took # "lost" => requests' = <<>> /\ responses' = <<>>
    BY <1>2, <1>3
  <2>2. requests' = <<>> => AllOwn(requests', call'.op)
    BY DEF AllOwn
  <2> QED BY <1>5, <2>1, <2>2 DEF Kept, InStep, SameCall
<1>10. Results'
  <2>1. call.clean /\ call.took # "lost" => requests' = <<>> /\ responses' = <<>>
    BY <1>2, <1>3
  <2> QED BY <1>1, <1>5, <2>1, SameWant DEF Results, OkIsWhole, CountsAreTrue, IdsChecked, SyncKept,
             AbortStopsAdapter, SameCall, DataOps, RegisterOps
<1> QED BY <1>6, <1>7, <1>8, <1>9, <1>10 DEF IInv

(* writeRegs and readRegs of the Agilent transport take one.               *)
LEMMA AgilentRegisterInKeeps ==
    ASSUME IInv, AgilentRegisterIn
    PROVE  IInv'
<1> DEFINE rc == IF Answer.kind = Exchange THEN Answer.err ELSE "io"
           last == call.done + 1 = Len(AgilentExchanges[call.op])
<1>1. /\ call \in Calls /\ call.phase = "in" /\ ~NI /\ AGILENT /\ call.op \in RegisterOps
      /\ call.op \notin DataOps /\ responses # <<>>
  BY DEF AgilentRegisterIn, IInv, TypeOK, BulkTypeOK, NI, AGILENT, CallSound, RegisterOps, DataOps
<1>2. /\ Answer \in Responses
      /\ Tail(responses) \in Seq(Responses) /\ Len(Tail(responses)) <= MaxStale + 1
      /\ call.clean /\ call.took # "lost" => requests = <<>> /\ Tail(responses) = <<>>
  BY <1>1, AnswerTaken
<1>3. /\ responses' = Tail(responses)
      /\ UNCHANGED <<adapter, requests, lastMoved, crossed, ended, reply>>
      /\ attached' \in BOOLEAN
  BY DEF AgilentRegisterIn, IInv, TypeOK, BulkTypeOK
<1>4. /\ call.done \in 0 .. 4 /\ call.done < Len(AgilentExchanges[call.op])
      /\ Len(AgilentExchanges[call.op]) \in 1 .. 4 /\ call.n = 0 /\ call.took # "lost"
  BY <1>1, ExchangesWell DEF Calls, IInv, CallSound, Exchanges, Over, RegisterOps
<1>5. /\ call' \in Calls /\ SameCall /\ call'.done = call.done + 1
      /\ call'.took = Answer.kind /\ Answer.kind # "lost" /\ Answer.kind # "none"
      /\ call'.n = 0 /\ call'.rc = rc /\ call'.aborted = call.aborted
      /\ call'.phase = IF rc = "ok" /\ ~last THEN "out" ELSE "over"
  <2>1. /\ Answer.kind \in Kinds /\ Answer.kind # "lost" /\ Answer.kind # "none"
        /\ rc \in Codes
    BY <1>2 DEF Responses, Kinds, DataOps, Codes
  <2>3. call.done + 1 \in 0 .. 4
    <3>1. \A d \in 0 .. 4, l \in 1 .. 4 : d < l => d + 1 \in 0 .. 4
      OBVIOUS
    <3> QED BY <1>4, <3>1
  <2>2. call' = [call EXCEPT !.took = Answer.kind, !.done = call.done + 1, !.rc = rc,
                             !.phase = IF rc = "ok" /\ ~last THEN "out" ELSE "over"]
    BY DEF AgilentRegisterIn
  <2> HIDE DEF rc, last
  <2> QED BY <1>1, <1>3, <1>4, <2>1, <2>2, <2>3 DEF Calls, SameCall
<1>6. TypeOK'
  BY <1>2, <1>3, <1>5 DEF IInv, TypeOK, BulkTypeOK
<1>7. CallSound'
  <2>1. Exchanges(call.op)' = Len(AgilentExchanges[call.op])
    BY <1>1, <1>5, SameWant DEF SameCall, Exchanges, NiExchanges, AgilentExchanges
  <2>2. ~Over' => call.done + 1 < Len(AgilentExchanges[call.op]) /\ rc = "ok"
    BY <1>4, <1>5 DEF Over
  <2> HIDE DEF rc, last
  <2> QED BY <1>1, <1>5, <2>1, <2>2, SameWant DEF CallSound, Over, SameCall, DataOps, RegisterOps
<1>8. RequestsSound'
  BY <1>1, <1>3, <1>5, QuietRequests DEF Over
<1>9. Kept'
  <2>1. call.clean => requests' = <<>> /\ responses' = <<>>
    BY <1>2, <1>3, <1>4
  <2>2. requests' = <<>> => AllOwn(requests', call'.op)
    BY DEF AllOwn
  <2> QED BY <1>5, <2>1, <2>2 DEF Kept, InStep, SameCall
<1>10. Results'
  <2>1. call.clean => requests' = <<>> /\ responses' = <<>>
    BY <1>2, <1>3, <1>4
  <2>2. IdsChecked'
    <3>1. Over' /\ call'.rc = "ok" =>
            Answer.kind = AgilentExchanges[call.op][Len(AgilentExchanges[call.op])]
      BY <1>5 DEF Exchange, Over
    <3> QED BY <1>1, <1>5, <3>1, SameWant DEF IdsChecked, SameCall, AgilentExchanges
  <2> HIDE DEF rc, last
  <2> QED BY <1>1, <1>5, <2>1, <2>2, SameWant DEF Results, OkIsWhole, CountsAreTrue, SyncKept,
             AbortStopsAdapter, SameCall, DataOps, RegisterOps
<1> QED BY <1>6, <1>7, <1>8, <1>9, <1>10 DEF IInv

(* Nothing has been taken off the pipe, or one answer has been lost.       *)
LEMMA Unanswered ==
    ASSUME IInv, NEW fails \in BOOLEAN, NoAnswer(fails)
    PROVE  /\ call.phase \in {"in", "late"}
           /\ responses' \in Seq(Responses) /\ Len(responses') <= MaxStale + 1
           /\ ~fails => responses = <<>> /\ responses' = <<>>
<1>1. responses \in Seq(Responses) /\ Len(responses) <= MaxStale + 1
  BY DEF IInv, TypeOK, BulkTypeOK
<1>2. responses' = responses \/ (responses # <<>> /\ responses' = Tail(responses))
  BY DEF NoAnswer, BulkInFails, BulkInTimesOut
<1>3. call.phase \in {"in", "late"} /\ (~fails => responses = <<>> /\ responses' = <<>>)
  BY DEF NoAnswer, BulkInFails, BulkInTimesOut
<1>4. CASE responses # <<>> /\ responses' = Tail(responses)
  BY <1>3, <1>4, AnswerTaken
<1> QED BY <1>1, <1>2, <1>3, <1>4

(* A call that fails for want of an answer.                                *)
LEMMA UnansweredKeeps ==
    ASSUME IInv, NEW fails \in BOOLEAN,
           NiUnanswered(fails) \/ AgilentRegisterUnanswered(fails)
    PROVE  IInv'
<1>1. /\ call \in Calls /\ ((NI /\ call.op \in DataOps) \/ (AGILENT /\ call.op \in RegisterOps))
      /\ NoAnswer(fails)
      /\ UNCHANGED <<adapter, attached, requests, lastMoved, crossed, ended, reply>>
  BY DEF NiUnanswered, AgilentRegisterUnanswered, IInv, TypeOK, BulkTypeOK
<1>2. /\ call.phase \in {"in", "late"}
      /\ responses' \in Seq(Responses) /\ Len(responses') <= MaxStale + 1
  BY <1>1, Unanswered
<1>3. call.n = 0
  BY <1>2 DEF IInv, CallSound, Over
<1>4. /\ call' \in Calls /\ SameCall /\ call'.phase = "over" /\ call'.rc # "ok"
      /\ call'.took = call.took /\ call'.n = 0
  BY <1>1, <1>3 DEF NiUnanswered, AgilentRegisterUnanswered, Return, Calls, Codes, SameCall
<1>5. AGILENT => call.op # "read"
  BY <1>1 DEF NI, AGILENT, RegisterOps
<1> QED BY <1>1, <1>2, <1>4, <1>5, SameRequests, FailureKeeps

(* A register call of the NI transport goes on without one.                *)
LEMMA NiRegisterUnansweredKeeps ==
    ASSUME IInv, NEW fails \in BOOLEAN, NiRegisterUnanswered(fails)
    PROVE  IInv'
<1>1. /\ call \in Calls /\ NI /\ ~AGILENT /\ call.op \in RegisterOps /\ call.op \notin DataOps
      /\ NoAnswer(fails)
      /\ UNCHANGED <<adapter, requests, lastMoved, crossed, ended, reply>>
      /\ attached' \in BOOLEAN
  BY DEF NiRegisterUnanswered, NiNext, IInv, TypeOK, BulkTypeOK, NI, AGILENT, RegisterOps, DataOps
<1>2. /\ call.phase \in {"in", "late"}
      /\ responses' \in Seq(Responses) /\ Len(responses') <= MaxStale + 1
  BY <1>1, Unanswered
<1>3. /\ call.done \in 0 .. 4 /\ call.done < NiExchanges[call.op] /\ NiExchanges[call.op] \in 0 .. 2
      /\ call.rc = "ok" /\ call.n = 0 /\ call.phase = "in" /\ call.op # "lines"
  BY <1>1, <1>2, ExchangesWell DEF Calls, IInv, CallSound, Exchanges, Over
<1>4. /\ call' \in Calls /\ SameCall /\ call'.done = call.done + 1 /\ call'.took = "lost"
      /\ call'.n = 0 /\ call'.rc = "ok" /\ call'.aborted = call.aborted
      /\ call'.phase = IF call.done + 1 = NiExchanges[call.op] THEN "over" ELSE "out"
  <2>1. call.done + 1 \in 0 .. 4
    BY <1>3
  <2>2. call' = [call EXCEPT !.done = call.done + 1,
                             !.took = "lost",
                             !.phase = IF call.done + 1 = NiExchanges[call.op] THEN "over" ELSE "out"]
    BY <1>1 DEF NiRegisterUnanswered, NiNext, Calls
  <2> QED BY <1>1, <1>3, <2>1, <2>2 DEF Calls, SameCall
<1>5. TypeOK'
  BY <1>1, <1>2, <1>4 DEF IInv, TypeOK, BulkTypeOK
<1>6. CallSound'
  <2>1. Exchanges(call.op)' = NiExchanges[call.op]
    BY <1>1, <1>4, SameWant DEF SameCall, Exchanges, NiExchanges, AgilentExchanges
  <2>2. ~Over' => call.done + 1 < NiExchanges[call.op]
    BY <1>3, <1>4 DEF Over
  <2> QED BY <1>1, <1>3, <1>4, <2>1, <2>2, SameWant DEF CallSound, Over, SameCall, DataOps, RegisterOps
<1>7. RequestsSound'
  BY <1>1, <1>3, <1>4, QuietRequests DEF Over
<1>8. Kept'
  BY <1>4 DEF Kept
<1>9. Results'
  BY <1>1, <1>4, SameWant DEF Results, OkIsWhole, CountsAreTrue, IdsChecked, SyncKept,
     AbortStopsAdapter, SameCall, DataOps, RegisterOps
<1> QED BY <1>5, <1>6, <1>7, <1>8, <1>9 DEF IInv
-----------------------------------------------------------------------------
(* A call that moves bytes is over, its requests being what they were.     *)
LEMMA EndKeeps ==
    ASSUME IInv, SameCall, ~Over, call.op \in DataOps, call' \in Calls, call'.phase = "over",
           UNCHANGED <<attached, requests, lastMoved, crossed, ended, reply>>,
           responses' \in Seq(Responses), Len(responses') <= MaxStale + 1,
           call'.took = "lost" => AGILENT /\ call.op \in {"command", "write"},
           NI /\ call.op \in {"command", "write"} /\ call'.rc = "ok" => call'.took # "none",
           Results'
    PROVE  IInv'
<1>1. TypeOK'
  BY DEF SameCall, IInv, TypeOK, BulkTypeOK
<1>2. CallSound'
  BY SameWant DEF IInv, CallSound, Over, SameCall, DataOps, RegisterOps, NI, AGILENT
<1>3. RequestsSound'
  BY QuietRequests DEF Over
<1>4. Kept'
  <2>1. call.clean => AllOwn(requests, call.op)
    BY DEF IInv, CallSound, Kept, InStep
  <2> QED BY <2>1 DEF Kept, InStep, SameCall
<1> QED BY <1>1, <1>2, <1>3, <1>4 DEF IInv

(* The answer a call that moves bytes takes, if it found the pipes empty.  *)
LEMMA OwnAnswer ==
    ASSUME IInv, call.phase \in {"in", "late"}, call.op \in DataOps, responses # <<>>, call.clean
    PROVE  /\ DataAnswer(Answer, call.op, call.eoi, Want, crossed, ended)
           /\ requests = <<>> /\ Tail(responses) = <<>>
           /\ Want \in Nat /\ crossed \in 0 .. Want
<1>1. call.took = "none" /\ call.len \in Lengths
  BY DEF IInv, CallSound, Over
<1>2. /\ Answer \in Responses /\ Answer = responses[1]
      /\ requests = <<>> /\ Tail(responses) = <<>>
  BY <1>1, AnswerTaken
<1>3. DataAnswer(Answer, call.op, call.eoi, Want, crossed, ended)
  BY <1>1, <1>2 DEF IInv, Kept, InStep
<1>4. Want \in Nat
  BY <1>1, WantFits, BulkAssumption DEF IInv
<1>5. Answer.left \in Nat /\ Answer.left = Want - crossed /\ crossed \in Nat
  BY <1>2, <1>3, BulkAssumption DEF DataAnswer, Responses, IInv, TypeOK, BulkTypeOK
<1> QED BY <1>2, <1>3, <1>4, <1>5

(* sendCommandBytes and writeData of the NI transport take a status.       *)
LEMMA NiStatusInKeeps ==
    ASSUME IInv, NiStatusIn
    PROVE  IInv'
<1>1. /\ call \in Calls /\ call.phase \in {"in", "late"} /\ NI /\ ~AGILENT /\ ~Over
      /\ call.op \in {"command", "write"} /\ call.op \in DataOps /\ responses # <<>>
      /\ call.len \in Lengths
  BY DEF NiStatusIn, BulkIn, IInv, TypeOK, BulkTypeOK, NI, AGILENT, CallSound, Over, DataOps
<1>2. /\ Answer \in Responses
      /\ Tail(responses) \in Seq(Responses) /\ Len(Tail(responses)) <= MaxStale + 1
  BY <1>1, AnswerTaken
<1>3. /\ responses' = Tail(responses)
      /\ UNCHANGED <<adapter, attached, requests, lastMoved, crossed, ended, reply>>
  BY DEF NiStatusIn, BulkIn
<1>4. NiWant = Want /\ NiWant \in 1 .. MaxPayload /\ NiWant \in Nat /\ MaxPayload \in Nat
  BY <1>1, WantFits, BulkAssumption DEF Want, IInv
<1>5. PICK rc \in (IF HasStatusFirst(Answer) THEN {Answer.err} ELSE Codes),
           left \in (IF HasStatusFirst(Answer) THEN {Answer.left} ELSE 0 .. NiWant) :
        call' = [call EXCEPT !.phase = "over", !.rc = rc, !.took = Answer.kind,
                             !.n = IF call.op = "write" /\ left <= NiWant
                                   THEN NiWant - left ELSE 0]
  BY DEF NiStatusIn
<1> DEFINE n == IF call.op = "write" /\ left <= NiWant THEN NiWant - left ELSE 0
<1>6. /\ Answer.kind \in Kinds /\ Answer.kind # "lost" /\ Answer.kind # "none"
      /\ Answer.err \in Codes /\ Answer.left \in 0 .. MaxPayload
  BY <1>2 DEF Responses, Kinds, DataOps
<1>7. rc \in Codes /\ left \in Nat
  BY <1>4, <1>6
<1>8. n \in 0 .. MaxPayload
  BY <1>4, <1>7
<1>9. /\ call' \in Calls /\ SameCall /\ call'.phase = "over" /\ call'.rc = rc
      /\ call'.took = Answer.kind /\ call'.n = n
  <2> HIDE DEF n
  <2>1. call' = [call EXCEPT !.phase = "over", !.rc = rc, !.took = Answer.kind, !.n = n]
    BY <1>5 DEF n
  <2> QED BY <1>1, <1>3, <1>6, <1>7, <1>8, <2>1 DEF Calls, SameCall
<1>10. call.clean => /\ rc = "ok" => crossed = NiWant /\ ended = call.eoi
                     /\ n <= crossed
                     /\ requests = <<>> /\ Tail(responses) = <<>>
  <2>1. SUFFICES ASSUME call.clean
                 PROVE  /\ rc = "ok" => crossed = NiWant /\ ended = call.eoi
                        /\ n <= crossed
                        /\ requests = <<>> /\ Tail(responses) = <<>>
    OBVIOUS
  <2>2. /\ DataAnswer(Answer, call.op, call.eoi, Want, crossed, ended)
        /\ requests = <<>> /\ Tail(responses) = <<>>
        /\ Want \in Nat /\ crossed \in 0 .. Want
    BY <1>1, <2>1, OwnAnswer
  <2>3. rc = Answer.err /\ left = Answer.left
    BY <1>1, <1>5, <2>2 DEF HasStatusFirst, DataAnswer
  <2>4. rc = "ok" => crossed = NiWant /\ ended = call.eoi
    BY <1>1, <1>4, <2>2, <2>3 DEF DataAnswer
  <2>5. left = NiWant - crossed
    BY <1>4, <2>2, <2>3 DEF DataAnswer
  <2>6. n <= crossed
    BY <1>4, <2>2, <2>5
  <2> QED BY <2>2, <2>4, <2>6
<1> HIDE DEF n
<1>11. Results'
  <2>1. OkIsWhole'
    <3>1. NiWant = Least(call.len, IF call.op = "command" THEN MaxCommand ELSE MaxPayload)
      BY DEF NiWant
    <3> QED BY <1>3, <1>9, <1>10, <3>1, Zenon DEF OkIsWhole, SameCall
  <2>2. CountsAreTrue'
    BY <1>1, <1>3, <1>9, <1>10, Zenon DEF CountsAreTrue, SameCall
  <2>3. IdsChecked' /\ AbortStopsAdapter'
    BY <1>1, <1>3, <1>9, SameWant DEF IdsChecked, AbortStopsAdapter, SameCall
  <2>4. SyncKept'
    BY <1>3, <1>9, <1>10 DEF SyncKept, SameCall
  <2> QED BY <2>1, <2>2, <2>3, <2>4 DEF Results
<1> QED BY <1>1, <1>2, <1>3, <1>6, <1>9, <1>11, EndKeeps

(* readData of the NI transport never counts more than it has room for,    *)
(* whatever reply it takes.                                                *)
LEMMA CountFits ==
    ASSUME NEW m \in Nat, NEW w \in Nat
    PROVE  NiCount(m, w) \in 0 .. w
<1> DEFINE b      == BlocksFor(m)
           tail   == m - (b - 1) * Block
           stored == Least(b * Block, w)
           whole  == stored \div Block
           all    == IF whole > 0 THEN (whole - 1) * Block + tail ELSE tail
<1>1. Block \in Nat \ {0}
  BY NiAssumption
<1>2. CASE m = 0
  BY <1>2 DEF NiCount
<1>3. CASE m # 0
  <2>1. tail \in Nat /\ b * Block \in Nat
    <3>1. /\ b * Block - Block < m /\ b * Block \in Nat
          /\ (b - 1) * Block = b * Block - Block
      BY <1>3, Blocks
    <3> HIDE DEF b
    <3> QED BY <1>1, <3>1
  <2>2. NiCount(m, w) = Least(all, stored)
    BY <1>3 DEF NiCount
  <2> HIDE DEF b, tail
  <2>3. stored \in 0 .. w
    BY <2>1 DEF Least
  <2> HIDE DEF stored
  <2>4. whole \in Nat
    BY <1>1, <2>3
  <2> HIDE DEF whole
  <2>5. whole > 0 => (whole - 1) * Block \in Nat
    BY <1>1, <2>4
  <2>6. all \in Nat
    BY <2>1, <2>4, <2>5
  <2> HIDE DEF all
  <2> QED BY <2>2, <2>3, <2>6 DEF Least
<1> QED BY <1>2, <1>3

(* readData of the NI transport takes a reply.                             *)
LEMMA NiReadInKeeps ==
    ASSUME IInv, NiReadIn
    PROVE  IInv'
<1>1. /\ call \in Calls /\ call.phase \in {"in", "late"} /\ NI /\ ~AGILENT /\ ~Over
      /\ call.op = "read" /\ call.op \in DataOps /\ responses # <<>> /\ call.len \in Lengths
      /\ call.n = 0
  BY DEF NiReadIn, BulkIn, IInv, TypeOK, BulkTypeOK, NI, AGILENT, CallSound, Over, DataOps
<1>2. /\ Answer \in Responses
      /\ Tail(responses) \in Seq(Responses) /\ Len(Tail(responses)) <= MaxStale + 1
  BY <1>1, AnswerTaken
<1>3. /\ responses' = Tail(responses)
      /\ UNCHANGED <<adapter, attached, requests, lastMoved, crossed, ended, reply>>
  BY DEF NiReadIn, BulkIn
<1>4. NiWant = Want /\ NiWant \in 1 .. MaxPayload /\ NiWant \in Nat /\ MaxPayload \in Nat
  BY <1>1, WantFits, BulkAssumption DEF Want, IInv
<1>5. /\ Answer.kind \in Kinds /\ Answer.kind # "lost" /\ Answer.err \in Codes
      /\ Answer.moved \in Nat /\ Answer.end \in BOOLEAN
  BY <1>2, <1>4 DEF Responses, Kinds, DataOps
<1>6. NiCount(Answer.moved, NiWant) \in 0 .. MaxPayload
  <2>1. NiCount(Answer.moved, NiWant) \in 0 .. NiWant
    BY <1>4, <1>5, CountFits
  <2> QED BY <1>4, <2>1
<1>7. call.clean => /\ Answer.kind = "read" /\ Answer.moved = crossed /\ Answer.end = ended
                    /\ crossed \in Nat /\ crossed <= NiWant
                    /\ requests = <<>> /\ Tail(responses) = <<>>
  BY <1>1, <1>4, OwnAnswer DEF DataAnswer
<1>8. /\ call' \in Calls /\ SameCall /\ call'.phase = "over" /\ call'.took = Answer.kind
      /\ \/ /\ Answer.kind = "read" /\ call'.end = Answer.end
            /\ call'.n = NiCount(Answer.moved, NiWant)
         \/ call'.rc # "ok" /\ call'.n = 0
  <2>1. CASE Answer.kind = "read"
    <3>1. call' = [call EXCEPT !.phase = "over", !.rc = Answer.err, !.took = "read",
                               !.n = NiCount(Answer.moved, NiWant), !.end = Answer.end]
      BY <2>1 DEF NiReadIn
    <3> QED BY <1>1, <1>3, <1>5, <1>6, <2>1, <3>1 DEF Calls, SameCall
  <2>2. CASE Answer.kind # "read"
    <3>1. call' = [call EXCEPT !.phase = "over", !.rc = "io", !.took = Answer.kind]
      BY <2>2 DEF NiReadIn
    <3> QED BY <1>1, <1>3, <1>5, <2>2, <3>1 DEF Calls, Codes, SameCall
  <2> QED BY <2>1, <2>2
<1>9. Results'
  <2>1. CASE call'.rc # "ok" /\ call'.n = 0
    <3>1. crossed' \in Nat
      BY <1>3, BulkAssumption DEF IInv, TypeOK, BulkTypeOK
    <3> QED BY <1>1, <1>8, <2>1, <3>1, SameWant, FailedCall
  <2>2. CASE Answer.kind = "read" /\ call'.end = Answer.end /\ call'.n = NiCount(Answer.moved, NiWant)
    <3>1. OkIsWhole' /\ IdsChecked' /\ AbortStopsAdapter'
      BY <1>1, <1>8, <2>2, SameWant DEF OkIsWhole, IdsChecked, AbortStopsAdapter, SameCall
    <3>2. SyncKept'
      BY <1>3, <1>7, <1>8 DEF SyncKept, SameCall
    <3>3. CountsAreTrue'
      <4>1. LastBlockSticksOut' = (BlocksFor(crossed) > 1 /\ BlocksFor(crossed) * Block > NiWant)
        <5>1. NiWant' = NiWant
          BY <1>8 DEF SameCall, NiWant, Least
        <5> QED BY <1>3, <5>1 DEF LastBlockSticksOut, BlocksFor
      <4>2. call.clean => NiCount(crossed, NiWant) =
              IF BlocksFor(crossed) > 1 /\ BlocksFor(crossed) * Block > NiWant
              THEN crossed - Block ELSE crossed
        BY <1>4, <1>7, Counted
      <4>3. call.clean => /\ call'.n = IF NI' /\ LastBlockSticksOut' THEN crossed - Block ELSE crossed
                          /\ call'.end = ended
        BY <1>1, <1>7, <1>8, <2>2, <4>1, <4>2, SameWant
      <4> QED BY <1>1, <1>3, <1>8, <4>3 DEF CountsAreTrue, SameCall
    <3> QED BY <3>1, <3>2, <3>3 DEF Results
  <2> QED BY <1>8, <2>1, <2>2
<1> QED BY <1>1, <1>2, <1>3, <1>5, <1>8, <1>9, EndKeeps
-----------------------------------------------------------------------------
(* The Agilent answers how far a command or a write has got.               *)
LEMMA AgilentStatusKeeps ==
    ASSUME IInv, AgilentStatus
    PROVE  IInv'
<1>1. /\ call \in Calls /\ call.phase = "status" /\ AGILENT /\ ~NI /\ ~Over
      /\ call.op \in {"command", "write"} /\ call.op \in DataOps
      /\ call.rc = "ok" /\ call.took = "none"
  BY DEF AgilentStatus, IInv, TypeOK, BulkTypeOK, NI, AGILENT, CallSound, Over, DataOps
<1>2. UNCHANGED <<adapter, attached, requests, responses, lastMoved, crossed, ended, reply>>
  BY DEF AgilentStatus, device
<1>3. /\ requests \in Seq(Requests) /\ lastMoved \in 0 .. MaxPayload /\ MaxPayload \in Nat
      /\ responses \in Seq(Responses) /\ Len(responses) <= MaxStale + 1 /\ crossed \in Nat
  BY BulkAssumption DEF IInv, TypeOK, BulkTypeOK
<1>4. MovedSoFar \in 0 .. MaxPayload
  <2>1. requests # <<>> => Head(requests) \in Requests
    BY <1>3
  <2> QED BY <1>3, <2>1 DEF MovedSoFar, Requests
<1>5. call.clean => MovedSoFar = crossed /\ responses = <<>>
  <2>1. SUFFICES ASSUME call.clean PROVE MovedSoFar = crossed /\ responses = <<>>
    OBVIOUS
  <2>2. /\ AllOwn(requests, call.op) /\ responses = <<>>
        /\ requests = <<>> => lastMoved = crossed
    BY <1>1, <2>1 DEF IInv, Kept, InStep
  <2>3. CASE requests = <<>>
    BY <2>2, <2>3 DEF MovedSoFar
  <2>4. CASE requests # <<>>
    <3>1. 1 \in 1 .. Len(requests) /\ Head(requests) = requests[1]
      BY <1>3, <2>4
    <3>2. requests[1].own /\ requests[1].kind = call.op
      BY <1>1, <2>2, <3>1 DEF AllOwn
    <3>3. ~RegisterRequest(requests[1])
      BY <1>1, <3>2 DEF RegisterRequest, DataOps
    <3>4. DataRequest(requests[1], call.op, call.eoi, Want, crossed, ended)
      BY <3>1, <3>2, <3>3 DEF IInv, RequestsSound, Sound
    <3> QED BY <1>1, <2>2, <2>4, <3>1, <3>2, <3>4 DEF MovedSoFar, DataRequest
  <2> QED BY <2>3, <2>4
<1> DEFINE n == IF call.op = "write" THEN MovedSoFar ELSE 0
<1>6. n \in 0 .. MaxPayload /\ (call.clean => n <= crossed)
  BY <1>3, <1>4, <1>5
<1>7. /\ call' \in Calls /\ SameCall /\ call'.phase = "over" /\ call'.rc = "ok"
      /\ call'.took = call.op /\ call'.n = n
  <2> HIDE DEF n
  <2>1. call' = [call EXCEPT !.phase = "over", !.took = call.op, !.n = n]
    BY DEF AgilentStatus, n
  <2> QED BY <1>1, <1>2, <1>6, <2>1 DEF Calls, Kinds, SameCall
<1> HIDE DEF n
<1>8. Results'
  <2>1. OkIsWhole' /\ IdsChecked' /\ AbortStopsAdapter'
    BY <1>1, <1>7, SameWant DEF OkIsWhole, IdsChecked, AbortStopsAdapter, SameCall, RegisterOps
  <2>2. CountsAreTrue'
    BY <1>1, <1>2, <1>6, <1>7, Zenon DEF CountsAreTrue, SameCall
  <2>3. SyncKept'
    BY <1>1, <1>2, <1>5, <1>7, SameWant DEF SyncKept, SameCall
  <2> QED BY <2>1, <2>2, <2>3 DEF Results
<1>9. responses' \in Seq(Responses) /\ Len(responses') <= MaxStale + 1 /\ call'.took # "lost"
  BY <1>1, <1>2, <1>3, <1>7
<1> QED BY <1>1, <1>2, <1>7, <1>8, <1>9, EndKeeps

(* It does not answer.                                                     *)
LEMMA AgilentStatusUnansweredKeeps ==
    ASSUME IInv, AgilentStatusUnanswered
    PROVE  IInv'
<1>1. /\ call \in Calls /\ call.phase = "status" /\ AGILENT /\ ~NI /\ ~Over
      /\ call.op \in {"command", "write"} /\ call.op \in DataOps /\ call.len \in Lengths
  BY DEF AgilentStatusUnanswered, IInv, TypeOK, BulkTypeOK, NI, AGILENT, CallSound, Over, DataOps
<1>2. UNCHANGED <<adapter, attached, requests, responses, lastMoved, crossed, ended, reply>>
  BY DEF AgilentStatusUnanswered, device
<1>3. responses' \in Seq(Responses) /\ Len(responses') <= MaxStale + 1
  BY <1>2 DEF IInv, TypeOK, BulkTypeOK
<1> DEFINE n  == IF call.op = "write" THEN AgilentWant ELSE 0
           rc == IF call.op = "write" THEN "ok" ELSE "io"
<1>4. n \in 0 .. MaxPayload /\ rc \in Codes
  <2>1. AgilentWant \in 1 .. MaxPayload /\ MaxPayload \in Nat
    BY <1>1, WantFits, BulkAssumption DEF IInv
  <2> QED BY <2>1 DEF Codes
<1>5. /\ call' \in Calls /\ SameCall /\ call'.phase = "over" /\ call'.took = "lost"
  <2>1. call' = [call EXCEPT !.phase = "over", !.took = "lost", !.rc = rc, !.n = n]
    BY DEF AgilentStatusUnanswered
  <2> HIDE DEF n, rc
  <2> QED BY <1>1, <1>2, <1>4, <2>1 DEF Calls, SameCall
<1>6. Results'
  BY <1>1, <1>5, SameWant DEF Results, OkIsWhole, CountsAreTrue, IdsChecked, SyncKept,
     AbortStopsAdapter, SameCall, RegisterOps
<1> QED BY <1>1, <1>2, <1>3, <1>5, <1>6, EndKeeps

(* readData of the Agilent transport takes a reply.                        *)
LEMMA AgilentReadInKeeps ==
    ASSUME IInv, AgilentReadIn
    PROVE  IInv'
<1>1. /\ call \in Calls /\ call.phase \in {"in", "late"} /\ AGILENT /\ ~NI /\ ~Over
      /\ call.op = "read" /\ call.op \in DataOps /\ responses # <<>> /\ call.len \in Lengths
      /\ call.rc = "ok"
  BY DEF AgilentReadIn, BulkIn, IInv, TypeOK, BulkTypeOK, NI, AGILENT, CallSound, Over, DataOps
<1>2. /\ Answer \in Responses
      /\ Tail(responses) \in Seq(Responses) /\ Len(Tail(responses)) <= MaxStale + 1
  BY <1>1, AnswerTaken
<1>3. /\ responses' = Tail(responses)
      /\ UNCHANGED <<adapter, attached, requests, lastMoved, crossed, ended, reply>>
  BY DEF AgilentReadIn, BulkIn
<1>4. AgilentWant = Want /\ AgilentWant \in 1 .. MaxPayload /\ MaxPayload \in Nat
  BY <1>1, WantFits, BulkAssumption DEF Want, IInv
<1>5. /\ Answer.kind \in Kinds /\ Answer.kind # "lost"
      /\ Answer.moved \in Nat /\ Answer.end \in BOOLEAN
  BY <1>2, <1>4 DEF Responses, Kinds, DataOps
<1>6. PayloadOf(Answer) \in 0 .. MaxPayload
  BY <1>4, <1>5 DEF PayloadOf, Least, Kinds, DataOps
<1>7. PICK end \in EndOf(Answer) :
        call' = [call EXCEPT !.phase = "over", !.took = Answer.kind,
                             !.n = PayloadOf(Answer), !.end = end]
  BY DEF AgilentReadIn
<1>8. end \in BOOLEAN
  BY <1>5 DEF EndOf
<1>9. /\ call' \in Calls /\ SameCall /\ call'.phase = "over" /\ call'.took = Answer.kind
      /\ call'.n = PayloadOf(Answer) /\ call'.end = end /\ call'.rc = "ok"
      /\ call'.aborted = call.aborted
  BY <1>1, <1>3, <1>5, <1>6, <1>7, <1>8 DEF Calls, SameCall
<1>10. call.clean => /\ PayloadOf(Answer) = crossed /\ end = ended
                     /\ requests = <<>> /\ Tail(responses) = <<>>
  <2>1. SUFFICES ASSUME call.clean
                 PROVE  /\ PayloadOf(Answer) = crossed /\ end = ended
                        /\ requests = <<>> /\ Tail(responses) = <<>>
    OBVIOUS
  <2>2. /\ DataAnswer(Answer, call.op, call.eoi, Want, crossed, ended)
        /\ requests = <<>> /\ Tail(responses) = <<>>
        /\ Want \in Nat /\ crossed \in 0 .. Want
    BY <1>1, <2>1, OwnAnswer
  <2>3. Answer.kind = "read" /\ Answer.moved = crossed /\ Answer.end = ended
        /\ crossed \in Nat /\ crossed <= AgilentWant
    BY <1>1, <1>4, <2>2 DEF DataAnswer
  <2>4. PayloadOf(Answer) = crossed
    BY <1>4, <2>3 DEF PayloadOf, Least
  <2>5. end = ended
    BY <1>8, <2>3 DEF EndOf
  <2> QED BY <2>2, <2>4, <2>5
<1>11. Results'
  <2>1. OkIsWhole' /\ IdsChecked'
    BY <1>1, <1>9, SameWant DEF OkIsWhole, IdsChecked, SameCall, RegisterOps
  <2>2. SyncKept' /\ AbortStopsAdapter'
    BY <1>3, <1>9, <1>10 DEF SyncKept, AbortStopsAdapter, SameCall
  <2>3. CountsAreTrue'
    BY <1>1, <1>3, <1>9, <1>10, SameWant DEF CountsAreTrue, SameCall
  <2> QED BY <2>1, <2>2, <2>3 DEF Results
<1> QED BY <1>1, <1>2, <1>3, <1>5, <1>9, <1>11, EndKeeps

(* The flushed reply does not come either.                                 *)
LEMMA AgilentReadEmptyKeeps ==
    ASSUME IInv, NEW fails \in BOOLEAN, AgilentReadEmpty(fails)
    PROVE  IInv'
<1>1. /\ call \in Calls /\ call.phase = "late" /\ AGILENT /\ ~NI /\ ~Over
      /\ call.op = "read" /\ call.op \in DataOps /\ call.took = "none" /\ call.n = 0
      /\ NoAnswer(fails) /\ call.aborted # "no"
  BY DEF AgilentReadEmpty, IInv, TypeOK, BulkTypeOK, NI, AGILENT, CallSound, Over, DataOps
<1>2. UNCHANGED <<adapter, attached, requests, lastMoved, crossed, ended, reply>>
  BY DEF AgilentReadEmpty
<1>3. responses' \in Seq(Responses) /\ Len(responses') <= MaxStale + 1
  BY <1>1, Unanswered
<1>4. /\ call' \in Calls /\ SameCall /\ call'.phase = "over" /\ call'.rc = "ok"
      /\ call'.took = "none" /\ call'.n = 0 /\ call'.aborted = call.aborted
  BY <1>1, <1>2 DEF AgilentReadEmpty, Return, Calls, Codes, SameCall
<1>5. call.clean /\ call.aborted # "lost" => requests = <<>>
  BY <1>1 DEF IInv, Kept, InStep, Calls
<1>6. Results'
  BY <1>1, <1>2, <1>4, <1>5, SameWant DEF Results, OkIsWhole, CountsAreTrue, IdsChecked, SyncKept,
     AbortStopsAdapter, SameCall, RegisterOps
<1> QED BY <1>1, <1>2, <1>3, <1>4, <1>6, EndKeeps

(* What the adapter answers to a request.                                  *)
LEMMA AnswerToWell ==
    ASSUME NEW r \in Requests, r.moved <= r.want, NEW err \in Codes
    PROVE  AnswerTo(r, err) \in Responses
<1>1. MaxPayload \in Nat /\ r.moved \in 0 .. MaxPayload /\ r.want \in 0 .. MaxPayload
  BY BulkAssumption DEF Requests
<1>2. r.want - r.moved \in 0 .. MaxPayload
  BY <1>1
<1> QED BY <1>1, <1>2 DEF AnswerTo, Responses, Requests

(* readData of the Agilent transport fails and aborts.                     *)
LEMMA AgilentReadFailsKeeps ==
    ASSUME IInv, AgilentReadFails
    PROVE  IInv'
<1> DEFINE c == [call EXCEPT !.phase = "over", !.rc = "io"]
<1>1. /\ call \in Calls /\ call.phase = "in" /\ AGILENT /\ call.op = "read" /\ call.op \in DataOps
      /\ call.n = 0 /\ call.took = "none"
  BY DEF AgilentReadFails, IInv, TypeOK, BulkTypeOK, CallSound, Over, DataOps
<1>2. /\ SendAbort(requests, FALSE, c)
      /\ UNCHANGED <<adapter, attached, lastMoved, crossed, ended, reply>>
  BY DEF AgilentReadFails
<1>3. /\ c \in Calls /\ c.op = call.op /\ c.len = call.len /\ c.eoi = call.eoi
      /\ c.clean = call.clean /\ c.took = call.took /\ c.n = call.n
      /\ c.phase = "over" /\ c.rc = "io"
  BY <1>1 DEF Calls, Codes
<1> HIDE DEF c
<1>4. /\ call' \in Calls /\ SameCall /\ call'.took = call.took /\ call'.n = 0
      /\ call'.phase = "over" /\ call'.rc = "io"
  <2>1. PICK a \in {"yes", "lost"} : call' = [c EXCEPT !.aborted = a]
    BY <1>2 DEF SendAbort
  <2> QED BY <1>1, <1>2, <1>3, <2>1 DEF Calls, SameCall
<1>5. responses' \in Seq(Responses) /\ Len(responses') <= MaxStale + 1
  <2>1. UNCHANGED responses
    BY <1>2 DEF SendAbort, AbortArrives
  <2> QED BY <2>1 DEF IInv, TypeOK, BulkTypeOK
<1>6. /\ requests \in Seq(Requests) /\ Len(requests) <= MaxPending
      /\ Sound(requests, call.op, call.eoi, Want, crossed, ended)
      /\ call.clean => AllOwn(requests, call.op) /\ Len(requests) <= 1
      /\ Len(requests) \in Nat /\ MaxPending \in Nat
  <2>1. /\ requests \in Seq(Requests) /\ Len(requests) <= MaxPending
        /\ Sound(requests, call.op, call.eoi, Want, crossed, ended)
        /\ Len(requests) \in Nat /\ MaxPending \in Nat
    BY BulkAssumption DEF IInv, TypeOK, BulkTypeOK, RequestsSound
  <2>2. call.clean => /\ AllOwn(requests, call.op)
                      /\ Len(requests) = 1 \/ requests = <<>>
    BY <1>1 DEF IInv, Kept, InStep
  <2>3. requests = <<>> => Len(requests) = 0
    OBVIOUS
  <2>4. call.clean => Len(requests) <= 1
    <3>1. call.clean => Len(requests) = 1 \/ Len(requests) = 0
      BY <2>2, <2>3
    <3>2. ASSUME NEW k \in {0, 1} PROVE k <= 1
      OBVIOUS
    <3> QED BY <3>1, <3>2
  <2> QED BY <2>1, <2>2, <2>4
<1>7. /\ requests' \in {requests} \cup (IF requests = <<>> THEN {} ELSE {Tail(requests)})
      /\ call'.aborted # "lost" => requests' = IF requests = <<>> THEN requests ELSE Tail(requests)
  BY <1>2, <1>3 DEF SendAbort, AbortArrives, Calls
<1>8. /\ requests' \in Seq(Requests) /\ Len(requests') <= MaxPending
      /\ Sound(requests', call.op, call.eoi, Want, crossed, ended)
      /\ call.clean => AllOwn(requests', call.op)
  <2>1. CASE requests' = requests
    BY <1>6, <2>1
  <2>2. CASE requests # <<>> /\ requests' = Tail(requests)
    <3>1. /\ Tail(requests) \in Seq(Requests) /\ Len(Tail(requests)) = Len(requests) - 1
          /\ Sound(Tail(requests), call.op, call.eoi, Want, crossed, ended)
          /\ AllOwn(requests, call.op) => AllOwn(Tail(requests), call.op)
      BY <1>6, <2>2, Shorter
    <3>2. \A m, k \in Nat : k <= m => k - 1 <= m
      OBVIOUS
    <3> QED BY <1>6, <2>2, <3>1, <3>2
  <2> QED BY <1>7, <2>1, <2>2
<1>9. call.clean /\ call'.aborted # "lost" => requests' = <<>>
  <2>1. requests # <<>> /\ Len(requests) = 1 => Tail(requests) = <<>>
    BY <1>6, Shorter
  <2>2. requests # <<>> /\ Len(requests) <= 1 => Len(requests) = 1
    <3>1. requests \in Seq(Requests) /\ Len(requests) \in Nat
      BY <1>6
    <3>2. Len(requests) # 0 \/ requests = <<>>
      BY <3>1, EmptySeq
    <3>3. ASSUME NEW k \in Nat, k <= 1, k # 0 PROVE k = 1
      BY <3>3
    <3> QED BY <3>1, <3>2, <3>3
  <2> QED BY <1>6, <1>7, <2>1, <2>2
<1> QED BY <1>1, <1>2, <1>4, <1>5, <1>8, <1>9, FailureKeeps

(* The request whose bytes have crossed, in a call that found the pipes    *)
(* empty.                                                                  *)
LEMMA OwnRequest ==
    ASSUME IInv, requests # <<>>, call.clean, call.took # "lost", call.op \in DataOps
    PROVE  /\ Head(requests).own /\ Head(requests).kind = call.op
           /\ DataRequest(Head(requests), call.op, call.eoi, Want, crossed, ended)
<1>1. requests \in Seq(Requests)
  BY DEF IInv, TypeOK, BulkTypeOK
<1>2. 1 \in 1 .. Len(requests) /\ Head(requests) = requests[1]
  BY <1>1
<1>3. requests[1].own /\ requests[1].kind = call.op
  BY <1>2 DEF AllOwn, IInv, Kept, InStep
<1>4. ~RegisterRequest(requests[1])
  BY <1>3 DEF RegisterRequest, DataOps
<1>5. DataRequest(requests[1], call.op, call.eoi, Want, crossed, ended)
  BY <1>2, <1>3, <1>4 DEF IInv, RequestsSound, Sound
<1> QED BY <1>2, <1>3, <1>5

(* Its reply is late, and it has it flushed out.                           *)
LEMMA AgilentReadLateKeeps ==
    ASSUME IInv, AgilentReadLate
    PROVE  IInv'
<1> DEFINE c == [call EXCEPT !.phase = "late"]
<1>1. /\ call \in Calls /\ call.phase = "in" /\ AGILENT /\ ~NI /\ ~Over /\ call.op = "read"
      /\ call.op \in DataOps /\ call.n = 0 /\ call.took = "none" /\ call.rc = "ok"
      /\ call.len \in Lengths /\ responses = <<>>
  BY DEF AgilentReadLate, BulkInTimesOut, IInv, TypeOK, BulkTypeOK, CallSound, Over, DataOps, NI, AGILENT
<1>2. /\ SendAbort(requests, TRUE, c)
      /\ UNCHANGED <<adapter, attached, lastMoved, crossed, ended, reply>>
  BY DEF AgilentReadLate
<1>3. /\ c \in Calls /\ c.op = call.op /\ c.len = call.len /\ c.eoi = call.eoi
      /\ c.clean = call.clean /\ c.took = call.took /\ c.n = call.n
      /\ c.phase = "late" /\ c.rc = "ok"
  BY <1>1 DEF Calls
<1> HIDE DEF c
<1>4. /\ call' \in Calls /\ SameCall /\ call'.took = "none" /\ call'.n = 0
      /\ call'.phase = "late" /\ call'.rc = "ok" /\ call'.aborted \in {"yes", "lost"}
  <2>1. PICK a \in {"yes", "lost"} : call' = [c EXCEPT !.aborted = a]
    BY <1>2 DEF SendAbort
  <2> QED BY <1>1, <1>2, <1>3, <2>1 DEF Calls, SameCall
<1>5. /\ requests \in Seq(Requests) /\ Len(requests) <= MaxPending /\ Len(requests) \in Nat
      /\ MaxPending \in Nat /\ MaxStale \in Nat \ {0}
      /\ Sound(requests, call.op, call.eoi, Want, crossed, ended)
  BY BulkAssumption DEF IInv, TypeOK, BulkTypeOK, RequestsSound
<1>6. call.clean => /\ AllOwn(requests, call.op) /\ Len(requests) = 1
  <2>1. <<>> # responses \/ Len(responses) = 0
    OBVIOUS
  <2> QED BY <1>1, <2>1 DEF IInv, Kept, InStep
<1>7. \/ /\ requests' = IF requests = <<>> THEN requests ELSE Tail(requests)
         /\ responses' = IF requests # <<>> /\ Head(requests).kind = "read"
                         THEN Append(responses, AnswerTo(Head(requests), "io")) ELSE responses
      \/ call'.aborted = "lost" /\ requests' = requests /\ responses' = responses
  BY <1>2, <1>3 DEF SendAbort, AbortArrives, Calls
<1>8. requests # <<>> => /\ Head(requests) \in Requests
                         /\ Head(requests).moved <= Head(requests).want
                         /\ AnswerTo(Head(requests), "io") \in Responses
  <2>1. requests # <<>> => /\ Head(requests) \in Requests /\ Head(requests) = requests[1]
                           /\ 1 \in 1 .. Len(requests)
    BY <1>5
  <2>2. requests # <<>> => Head(requests).moved <= Head(requests).want
    BY <1>5, <2>1 DEF Sound
  <2>3. "io" \in Codes
    BY DEF Codes
  <2> QED BY <2>1, <2>2, <2>3, AnswerToWell
<1>9. /\ responses' \in Seq(Responses)
      /\ \/ responses' = <<>>
         \/ requests # <<>> /\ responses' = <<AnswerTo(Head(requests), "io")>>
  <2>1. <<>> \in Seq(Responses) /\ \A a \in Responses : <<a>> \in Seq(Responses) /\ Append(<<>>, a) = <<a>>
    OBVIOUS
  <2> QED BY <1>1, <1>7, <1>8, <2>1
<1>10. Len(responses') <= MaxStale + 1
  <2>1. Len(responses') \in {0, 1}
    BY <1>9
  <2>2. \A k \in {0, 1}, m \in Nat : k <= m + 1
    OBVIOUS
  <2> QED BY <1>5, <2>1, <2>2
<1>11. /\ requests' \in Seq(Requests) /\ Len(requests') <= MaxPending
       /\ Sound(requests', call.op, call.eoi, Want, crossed, ended)
       /\ call.clean => AllOwn(requests', call.op)
  <2>1. CASE requests' = requests
    BY <1>5, <1>6, <2>1
  <2>2. CASE requests # <<>> /\ requests' = Tail(requests)
    <3>1. /\ Tail(requests) \in Seq(Requests) /\ Len(Tail(requests)) = Len(requests) - 1
          /\ Sound(Tail(requests), call.op, call.eoi, Want, crossed, ended)
          /\ AllOwn(requests, call.op) => AllOwn(Tail(requests), call.op)
      BY <1>5, <2>2, Shorter
    <3>2. \A m, k \in Nat : k <= m => k - 1 <= m
      OBVIOUS
    <3> QED BY <1>5, <1>6, <2>2, <3>1, <3>2
  <2> QED BY <1>7, <2>1, <2>2
<1>12. TypeOK'
  BY <1>2, <1>4, <1>9, <1>10, <1>11 DEF IInv, TypeOK, BulkTypeOK
<1>13. CallSound'
  BY <1>1, <1>4, SameWant DEF CallSound, Over, SameCall, DataOps, RegisterOps
<1>14. RequestsSound'
  <2>1. Sound(requests', call'.op, call'.eoi, Want', crossed', ended')
    BY <1>2, <1>4, <1>11, SameWant DEF SameCall
  <2> QED BY <1>1, <1>4, <2>1 DEF RequestsSound, SameCall, DataOps, RegisterOps
<1>15. Kept'
  <2>1. SUFFICES ASSUME call.clean PROVE InStep'
    BY <1>4 DEF Kept, SameCall
  <2>2. requests # <<>>
    <3>1. requests = <<>> => Len(requests) = 0
      OBVIOUS
    <3> QED BY <1>6, <2>1, <3>1
  <2>3. /\ Head(requests).kind = "read"
        /\ DataRequest(Head(requests), call.op, call.eoi, Want, crossed, ended)
    BY <1>1, <2>1, <2>2, OwnRequest
  <2>4. CASE requests' = Tail(requests) /\ responses' = Append(responses, AnswerTo(Head(requests), "io"))
    <3>1. requests' = <<>>
      BY <1>5, <1>6, <2>1, <2>2, <2>4, Shorter
    <3>2. responses' = <<AnswerTo(Head(requests), "io")>>
      BY <1>1, <2>4
    <3>3. Len(responses') = 1 /\ responses'[1] = AnswerTo(Head(requests), "io") /\ responses' # <<>>
      BY <3>2
    <3>4. DataAnswer(AnswerTo(Head(requests), "io"), call.op, call.eoi, Want, crossed, ended)
      BY <1>1, <2>3 DEF DataAnswer, DataRequest, AnswerTo
    <3>5. DataAnswer(responses'[1], call'.op, call'.eoi, Want', crossed', ended')
      BY <1>2, <1>4, <3>3, <3>4, SameWant DEF SameCall
    <3> QED BY <1>4, <1>11, <2>1, <3>1, <3>3, <3>5 DEF InStep, SameCall
  <2>5. CASE call'.aborted = "lost" /\ requests' = requests /\ responses' = responses
    BY <1>1, <1>4, <1>6, <1>11, <2>1, <2>5 DEF InStep, SameCall
  <2> QED BY <1>7, <2>2, <2>3, <2>4, <2>5
<1>16. Results'
  BY <1>4, StillGoing DEF Over
<1> QED BY <1>12, <1>13, <1>14, <1>15, <1>16 DEF IInv
-----------------------------------------------------------------------------
(* The firmware moves a byte of the transfer it is at.                     *)
LEMMA FirmwareMovesKeeps ==
    ASSUME IInv, FirmwareMoves
    PROVE  IInv'
<1> DEFINE r    == requests[1]
           last == IF r.kind = "read" THEN reply = 1 ELSE r.eoi /\ r.moved + 1 = r.want
<1>1. /\ requests \in Seq(Requests) /\ requests # <<>> /\ Len(requests) <= MaxPending
      /\ Head(requests) = r /\ 1 \in 1 .. Len(requests) /\ r \in Requests
      /\ MaxPayload \in Nat /\ reply \in 0 .. MaxPayload
      /\ crossed \in 0 .. MaxPayload /\ ended \in BOOLEAN
  <2>1. requests \in Seq(Requests) /\ requests # <<>> /\ Len(requests) <= MaxPending
    BY DEF FirmwareMoves, IInv, TypeOK, BulkTypeOK
  <2>2. Head(requests) = r /\ 1 \in 1 .. Len(requests)
    BY <2>1
  <2>3. r \in Requests
    BY <2>1, <2>2
  <2> QED BY <2>1, <2>2, <2>3, BulkAssumption DEF IInv, TypeOK, BulkTypeOK
<1>2. /\ r.moved < r.want /\ (r.kind = "read" => reply > 0)
      /\ reply' = IF r.kind = "read" THEN reply - 1 ELSE reply
      /\ requests' = [requests EXCEPT ![1].moved = r.moved + 1, ![1].end = last]
      /\ crossed' = IF r.own THEN crossed + 1 ELSE crossed
      /\ ended' = IF r.own THEN last ELSE ended
      /\ UNCHANGED <<adapter, attached, call, responses, lastMoved>>
  BY <1>1 DEF FirmwareMoves
<1>3. r.moved \in 0 .. MaxPayload /\ r.want \in 0 .. MaxPayload /\ r.eoi \in BOOLEAN /\ last \in BOOLEAN
  BY <1>1 DEF Requests
<1> DEFINE q == [r EXCEPT !.moved = r.moved + 1, !.end = last]
<1>4. /\ q \in Requests /\ q.own = r.own /\ q.kind = r.kind /\ q.want = r.want /\ q.eoi = r.eoi
      /\ q.moved = r.moved + 1 /\ q.end = last
  <2>1. r.moved + 1 \in 0 .. MaxPayload
    BY <1>1, <1>2, <1>3
  <2> HIDE DEF last, r
  <2> QED BY <1>1, <1>3, <2>1 DEF Requests
<1>5. /\ requests' \in Seq(Requests) /\ Len(requests') = Len(requests) /\ requests'[1] = q
      /\ \A i \in 1 .. Len(requests) : i # 1 => requests'[i] = requests[i]
  <2>1. requests' = [requests EXCEPT ![1] = q]
    BY <1>1, <1>2
  <2> HIDE DEF q
  <2> QED BY <1>1, <1>4, <2>1
<1> HIDE DEF q, last
<1>6. r.own => /\ DataRequest(r, call.op, call.eoi, Want, crossed, ended)
               /\ ~RegisterRequest(r) /\ ~RegisterRequest(q)
               /\ call.op \in DataOps
  <2>1. ~RegisterRequest(r) /\ ~RegisterRequest(q)
    BY <1>2, <1>3, <1>4 DEF RegisterRequest
  <2> QED BY <1>1, <2>1 DEF IInv, RequestsSound, Sound, DataRequest
<1>7. call' = call /\ Want' = Want /\ SameCall
  <2>1. SameCall /\ call' = call
    BY <1>2 DEF SameCall
  <2> QED BY <2>1, SameWant
<1>8. r.own => crossed' = r.moved + 1
  BY <1>2, <1>6 DEF DataRequest
<1>9. TypeOK'
  <2>1. crossed' \in 0 .. MaxPayload /\ ended' \in BOOLEAN
    BY <1>1, <1>2, <1>3, <1>8
  <2>2. reply' \in 0 .. MaxPayload
    BY <1>1, <1>2
  <2> QED BY <1>1, <1>2, <1>5, <2>1, <2>2 DEF IInv, TypeOK, BulkTypeOK
<1>10. CallSound'
  <2>1. adapter' = adapter
    BY <1>2
  <2> QED BY <1>7, <2>1 DEF IInv, CallSound, Over, NI, AGILENT, Exchanges, NiExchanges, AgilentExchanges
<1>11. Sound(requests', call.op, call.eoi, Want, crossed', ended')
  <2>1. ASSUME NEW i \in 1 .. Len(requests')
        PROVE  /\ requests'[i].moved <= requests'[i].want
               /\ requests'[i].own => \/ RegisterRequest(requests'[i])
                                      \/ DataRequest(requests'[i], call.op, call.eoi, Want, crossed', ended')
    <3>1. CASE i = 1
      <4>1. q.moved <= q.want
        BY <1>2, <1>3, <1>4
      <4>2. r.own => DataRequest(q, call.op, call.eoi, Want, crossed', ended')
        <5>1. SUFFICES ASSUME r.own PROVE DataRequest(q, call.op, call.eoi, Want, crossed', ended')
          OBVIOUS
        <5>2. r.kind = call.op /\ r.want = Want /\ r.eoi = call.eoi /\ call.op \in DataOps
          BY <1>6, <5>1 DEF DataRequest
        <5>3. q.moved = crossed' /\ q.end = ended' /\ ended' = last
          BY <1>2, <1>4, <1>8, <5>1
        <5>4. r.kind # "read" => (last <=> r.eoi /\ r.moved + 1 = r.want)
          BY DEF last
        <5> QED BY <1>4, <5>2, <5>3, <5>4 DEF DataRequest
      <4> QED BY <1>4, <1>5, <3>1, <4>1, <4>2
    <3>2. CASE i # 1
      <4>1. i \in 1 .. Len(requests) /\ requests'[i] = requests[i]
        BY <1>5, <3>2
      <4>2. requests[i].own => RegisterRequest(requests[i]) \/ (DataRequest(requests[i], call.op, call.eoi, Want, crossed, ended) /\ ~r.own)
        BY <1>1, <1>6, <3>2, <4>1 DEF IInv, RequestsSound, Sound
      <4>3. ~r.own => crossed' = crossed /\ ended' = ended
        BY <1>2
      <4> QED BY <4>1, <4>2, <4>3 DEF IInv, RequestsSound, Sound
    <3> QED BY <3>1, <3>2
  <2>2. ASSUME NEW i \in 1 .. Len(requests'), NEW j \in 1 .. Len(requests'),
               requests'[i].own, ~RegisterRequest(requests'[i]),
               requests'[j].own, ~RegisterRequest(requests'[j])
        PROVE  i = j
    <3>1. ASSUME NEW k \in 1 .. Len(requests), requests'[k].own, ~RegisterRequest(requests'[k])
          PROVE  requests[k].own /\ ~RegisterRequest(requests[k])
      BY <1>4, <1>5, <1>6, <3>1
    <3>2. /\ i \in 1 .. Len(requests) /\ j \in 1 .. Len(requests)
          /\ requests[i].own /\ ~RegisterRequest(requests[i])
          /\ requests[j].own /\ ~RegisterRequest(requests[j])
      BY <1>5, <2>2, <3>1
    <3> QED BY <3>2 DEF IInv, RequestsSound, Sound
  <2> QED BY <2>1, <2>2 DEF Sound
<1>12. RequestsSound'
  <2>1. Sound(requests', call'.op, call'.eoi, Want', crossed', ended')
    BY <1>7, <1>11
  <2>2. call.phase \in {"open", "out"} => ~r.own /\ Unmoved(requests')
    <3>1. SUFFICES ASSUME call.phase \in {"open", "out"} PROVE ~r.own /\ Unmoved(requests')
      OBVIOUS
    <3>2. Unmoved(requests)
      BY <3>1 DEF IInv, RequestsSound
    <3>3. ~r.own
      BY <1>1, <1>6, <3>2 DEF Unmoved
    <3>4. ASSUME NEW i \in 1 .. Len(requests'), requests'[i].own PROVE RegisterRequest(requests'[i])
      BY <1>4, <1>5, <3>2, <3>3, <3>4 DEF Unmoved
    <3> QED BY <3>3, <3>4 DEF Unmoved
  <2>3. call.op \in RegisterOps => ~r.own
    BY <1>6 DEF RegisterOps, DataOps
  <2>4. ~r.own => crossed' = crossed /\ ended' = ended
    BY <1>2
  <2> QED BY <1>7, <2>1, <2>2, <2>3, <2>4 DEF IInv, RequestsSound, Over
<1>13. Kept'
  <2>1. SUFFICES ASSUME call.clean, call.took # "lost" PROVE InStep'
    BY <1>7 DEF Kept
  <2>2. InStep
    BY <2>1 DEF IInv, Kept
  <2>3. AllOwn(requests', call.op)
    <3>1. ASSUME NEW i \in 1 .. Len(requests') PROVE requests'[i].own /\ (call.op \in DataOps => requests'[i].kind = call.op)
      BY <1>1, <1>4, <1>5, <2>2 DEF InStep, AllOwn
    <3> QED BY <3>1 DEF AllOwn
  <2>4. requests' # <<>>
    <3>1. requests' = <<>> => Len(requests') = 0
      OBVIOUS
    <3> QED BY <1>1, <1>5, <3>1
  <2>5. call.phase \in {"in", "late"} => Len(requests) = 1 /\ responses = <<>>
    BY <1>1, <2>2 DEF InStep
  <2>6. call.phase \notin {"open", "out"}
    BY <1>1, <2>2 DEF InStep
  <2>7. ~(call.phase = "late" /\ call.aborted = "yes")
    BY <1>1, <2>2 DEF InStep
  <2>8. call.phase = "status" => responses = <<>> /\ Len(requests) <= 1
    BY <2>2 DEF InStep
  <2> QED BY <1>2, <1>5, <1>7, <2>3, <2>4, <2>5, <2>6, <2>7, <2>8 DEF InStep
<1>14. Results'
  <2>1. adapter' = adapter /\ responses' = responses /\ call' = call
    BY <1>2
  <2>2. requests' # <<>>
    <3>1. requests' = <<>> => Len(requests') = 0
      OBVIOUS
    <3> QED BY <1>1, <1>5, <3>1
  <2>3. crossed <= crossed' /\ crossed' \in Nat
    BY <1>1, <1>2
  <2>4. call.clean /\ Over /\ call.rc = "ok" /\ call.took \notin {"none", "lost"} =>
          responses = <<>> /\ AGILENT /\ call.op \in {"command", "write"}
    BY <1>1 DEF IInv, Results, SyncKept
  <2>5. OkIsWhole'
    <3>1. ~(NI /\ call.clean /\ Over /\ call.rc = "ok" /\ call.op \in {"command", "write"})
      BY <2>4 DEF IInv, CallSound, RegisterOps, NI, AGILENT
    <3> QED BY <2>1, <3>1 DEF OkIsWhole, NI, Over
  <2>6. CountsAreTrue'
    <3>1. call.clean /\ Over => ~(call.op = "read" /\ call.took = "read" /\ call.rc = "ok")
      BY <2>4
    <3>2. call.clean /\ Over /\ call.op = "write" /\ call.took # "lost" => call.n <= crossed /\ call.n \in Nat
      BY BulkAssumption DEF IInv, Results, CountsAreTrue, TypeOK, BulkTypeOK, Calls
    <3>3. call.clean /\ Over /\ call.op = "write" /\ call.took # "lost" => call.n <= crossed'
      BY <1>1, <2>3, <3>2
    <3> QED BY <2>1, <3>1, <3>3, Zenon DEF CountsAreTrue, Over
  <2>7. IdsChecked'
    BY <2>1 DEF IInv, Results, IdsChecked, Over, NI, AGILENT, AgilentExchanges
  <2>8. SyncKept'
    BY <2>1, <2>4 DEF SyncKept, Over, AGILENT
  <2>9. AbortStopsAdapter'
    BY <1>1, <2>1 DEF IInv, Results, AbortStopsAdapter, Over, AGILENT
  <2> QED BY <2>5, <2>6, <2>7, <2>8, <2>9 DEF Results
<1> QED BY <1>9, <1>10, <1>12, <1>13, <1>14 DEF IInv

(* The firmware finishes a request and, for most, answers.                 *)
LEMMA FirmwareFinishesKeeps ==
    ASSUME IInv, NEW err \in {"ok", "nolistener"}, FirmwareFinishes(err)
    PROVE  IInv'
<1> DEFINE r == requests[1]
<1>1. /\ requests \in Seq(Requests) /\ requests # <<>> /\ Len(requests) <= MaxPending
      /\ Head(requests) = r /\ 1 \in 1 .. Len(requests) /\ r \in Requests
      /\ Len(requests) \in Nat /\ MaxPending \in Nat
  <2>1. requests \in Seq(Requests) /\ requests # <<>> /\ Len(requests) <= MaxPending
    BY DEF FirmwareFinishes, IInv, TypeOK, BulkTypeOK
  <2>2. Head(requests) = r /\ 1 \in 1 .. Len(requests) /\ Len(requests) \in Nat
    BY <2>1
  <2>3. r \in Requests
    BY <2>1, <2>2
  <2> QED BY <2>1, <2>2, <2>3, BulkAssumption
<1>2. /\ (err = "ok" => r.moved = r.want \/ r.end)
      /\ requests' = Tail(requests)
      /\ lastMoved' = IF Unannounced(r) THEN r.moved ELSE lastMoved
      /\ responses' = IF Unannounced(r) THEN responses ELSE Append(responses, AnswerTo(r, err))
      /\ UNCHANGED <<adapter, attached, call, crossed, ended, reply>>
  BY <1>1 DEF FirmwareFinishes
<1>3. responses \in Seq(Responses) /\ Len(responses) \in Nat /\ Len(responses) < MaxStale /\ MaxStale \in Nat
  BY BulkAssumption DEF FirmwareFinishes, IInv, TypeOK, BulkTypeOK
<1>4. AnswerTo(r, err) \in Responses
  <2>1. err \in Codes
    BY DEF Codes
  <2>2. r.moved <= r.want
    BY <1>1 DEF IInv, RequestsSound, Sound
  <2> QED BY <1>1, <2>1, <2>2, AnswerToWell
<1> DEFINE a == AnswerTo(r, err)
<1>5. /\ a.kind = r.kind /\ a.moved = r.moved /\ a.left = r.want - r.moved
      /\ a.end = r.end /\ a.err = err
  BY DEF AnswerTo
<1>6. responses' \in Seq(Responses) /\ Len(responses') <= MaxStale + 1
  <2> HIDE DEF a, r
  <2>1. ASSUME NEW b \in Responses
        PROVE  Append(responses, b) \in Seq(Responses) /\ Len(Append(responses, b)) = Len(responses) + 1
    BY <1>3
  <2>2. \A k, m \in Nat : k < m => k <= m + 1 /\ k + 1 <= m + 1
    OBVIOUS
  <2> QED BY <1>2, <1>3, <1>4, <2>1, <2>2
<1>7. /\ requests' \in Seq(Requests) /\ Len(requests') = Len(requests) - 1
      /\ \A i \in 1 .. Len(requests') : i + 1 \in 1 .. Len(requests) /\ requests'[i] = requests[i + 1]
      /\ Sound(requests', call.op, call.eoi, Want, crossed, ended)
      /\ AllOwn(requests, call.op) => AllOwn(requests', call.op)
      /\ Len(requests) = 1 => requests' = <<>>
  <2>1. Sound(requests, call.op, call.eoi, Want, crossed, ended)
    BY DEF IInv, RequestsSound
  <2> QED BY <1>1, <1>2, <2>1, Shorter
<1>8. call' = call /\ Want' = Want /\ SameCall
  <2>1. SameCall /\ call' = call
    BY <1>2 DEF SameCall
  <2> QED BY <2>1, SameWant
<1>9. TypeOK'
  <2>1. lastMoved' \in 0 .. MaxPayload
    BY <1>1, <1>2 DEF Requests, IInv, TypeOK, BulkTypeOK
  <2>2. Len(requests') <= MaxPending
    <3>1. \A m, k \in Nat : k <= m => k - 1 <= m
      OBVIOUS
    <3> QED BY <1>1, <1>7, <3>1
  <2> QED BY <1>2, <1>6, <1>7, <2>1, <2>2 DEF IInv, TypeOK, BulkTypeOK
<1>10. CallSound'
  <2>1. adapter' = adapter
    BY <1>2
  <2> QED BY <1>8, <2>1 DEF IInv, CallSound, Over, NI, AGILENT, Exchanges, NiExchanges, AgilentExchanges
<1>11. RequestsSound'
  <2>1. Sound(requests', call'.op, call'.eoi, Want', crossed', ended')
    BY <1>2, <1>7, <1>8
  <2>2. Unmoved(requests) => Unmoved(requests')
    BY <1>7 DEF Unmoved
  <2> QED BY <1>2, <1>8, <2>1, <2>2 DEF IInv, RequestsSound, Over
<1>12. ASSUME call.clean, call.took # "lost"
       PROVE  /\ AllOwn(requests', call.op)
              /\ call.phase \notin {"open", "out"}
              /\ call.op \in DataOps => r.kind = call.op
              /\ call.op \notin DataOps => r.kind \in {"wr", "rd"}
              /\ Unannounced(r) <=> AGILENT /\ call.op \in {"command", "write"}
  <2>1. InStep
    BY <1>12 DEF IInv, Kept
  <2>2. r.own /\ (call.op \in DataOps => r.kind = call.op)
    BY <1>1, <2>1 DEF InStep, AllOwn
  <2>3. call.op \notin DataOps => r.kind \in {"wr", "rd"}
    BY <1>1, <2>2 DEF IInv, RequestsSound, Sound, RegisterRequest, DataRequest
  <2>4. Unannounced(r) <=> AGILENT /\ call.op \in {"command", "write"}
    BY <2>2, <2>3 DEF Unannounced, AGILENT, DataOps
  <2> QED BY <1>1, <1>7, <2>1, <2>2, <2>3, <2>4 DEF InStep
<1>13. Kept'
  <2>1. SUFFICES ASSUME call.clean, call.took # "lost" PROVE InStep'
    BY <1>8 DEF Kept
  <2>2. InStep
    BY <2>1 DEF IInv, Kept
  <2>3. CASE call.phase \in {"in", "late"}
    <3>1. Len(requests) = 1 /\ responses = <<>>
      BY <1>1, <2>2, <2>3 DEF InStep
    <3>2. ~Unannounced(r)
      BY <1>12, <2>1, <2>3 DEF IInv, CallSound, NI, AGILENT
    <3>3. responses' = <<a>> /\ requests' = <<>>
      BY <1>2, <1>7, <3>1, <3>2
    <3>4. Len(responses') = 1 /\ responses'[1] = a
      BY <3>3
    <3>5. call.op \in DataOps => DataAnswer(a, call.op, call.eoi, Want, crossed, ended)
      <4>1. SUFFICES ASSUME call.op \in DataOps PROVE DataAnswer(a, call.op, call.eoi, Want, crossed, ended)
        OBVIOUS
      <4>2. DataRequest(r, call.op, call.eoi, Want, crossed, ended)
        BY <1>1, <2>1, <4>1, OwnRequest
      <4>3. r.end \in BOOLEAN /\ r.eoi \in BOOLEAN
        BY <1>1 DEF Requests
      <4> HIDE DEF a, r
      <4> QED BY <1>2, <1>5, <4>1, <4>2, <4>3 DEF DataAnswer, DataRequest
    <3>6. call.op \in DataOps => DataAnswer(responses'[1], call'.op, call'.eoi, Want', crossed', ended')
      BY <1>2, <1>8, <3>4, <3>5
    <3> HIDE DEF a, r
    <3> QED BY <1>8, <1>12, <2>1, <2>3, <3>3, <3>4, <3>6 DEF InStep
  <2>4. CASE call.phase = "status"
    <3>1. responses = <<>> /\ Len(requests) <= 1 /\ AGILENT /\ call.op \in {"command", "write"}
      BY <2>2, <2>4 DEF InStep, IInv, CallSound
    <3>2. Unannounced(r) /\ call.op \in DataOps
      BY <1>12, <2>1, <3>1 DEF DataOps
    <3>3. DataRequest(r, call.op, call.eoi, Want, crossed, ended)
      BY <1>1, <2>1, <3>2, OwnRequest
    <3>4. responses' = <<>> /\ lastMoved' = crossed'
      BY <1>2, <3>1, <3>2, <3>3 DEF DataRequest
    <3>5. Len(requests') <= 1
      <4>1. \A m \in Nat : m <= 1 => m - 1 <= 1
        OBVIOUS
      <4> QED BY <1>1, <1>7, <3>1, <4>1
    <3> HIDE DEF r
    <3> QED BY <1>8, <1>12, <2>1, <2>4, <3>4, <3>5 DEF InStep
  <2>5. CASE Over
    BY <1>8, <1>12, <2>1, <2>5 DEF InStep, Over
  <2> QED BY <1>12, <2>1, <2>3, <2>4, <2>5 DEF IInv, TypeOK, BulkTypeOK, Calls, Over
<1>14. Results'
  <2>1. adapter' = adapter /\ call' = call /\ crossed' = crossed /\ ended' = ended
    BY <1>2
  <2>2. OkIsWhole'
    BY <2>1 DEF IInv, Results, OkIsWhole, NI, Over, Least
  <2>3. CountsAreTrue'
    <3>1. LastBlockSticksOut' <=> LastBlockSticksOut
      BY <2>1 DEF LastBlockSticksOut, BlocksFor, NiWant, Least
    <3> QED BY <2>1, <3>1 DEF IInv, Results, CountsAreTrue, NI, Over
  <2>4. IdsChecked'
    BY <2>1 DEF IInv, Results, IdsChecked, Over, NI, AGILENT, AgilentExchanges
  <2>5. SyncKept'
    <3>1. call.clean /\ Over /\ call.rc = "ok" /\ call.took \notin {"none", "lost"} =>
            responses = <<>> /\ AGILENT /\ call.op \in {"command", "write"}
      BY <1>1 DEF IInv, Results, SyncKept
    <3>2. call.clean /\ Over /\ call.rc = "ok" /\ call.took \notin {"none", "lost"} => responses' = <<>>
      BY <1>2, <1>12, <3>1
    <3> QED BY <2>1, <3>1, <3>2 DEF SyncKept, Over, AGILENT
  <2>6. AbortStopsAdapter'
    BY <1>1, <2>1 DEF IInv, Results, AbortStopsAdapter, Over, AGILENT
  <2> QED BY <2>2, <2>3, <2>4, <2>5, <2>6 DEF Results
<1> QED BY <1>9, <1>10, <1>11, <1>13, <1>14 DEF IInv
-----------------------------------------------------------------------------
(* A step of something else.                                               *)
LEMMA StutterKeeps ==
    ASSUME IInv, UNCHANGED bulkVars
    PROVE  IInv'
<1>1. SameCall /\ call' = call
  BY DEF bulkVars, SameCall
<1>2. Want' = Want /\ (NI' <=> NI) /\ (AGILENT' <=> AGILENT) /\ NiWant' = NiWant
  BY <1>1, SameWant DEF SameCall, NiWant, Least
<1>3. TypeOK' /\ CallSound'
  BY <1>2 DEF bulkVars, IInv, TypeOK, BulkTypeOK, CallSound, Over, Exchanges, NiExchanges, AgilentExchanges
<1>4. RequestsSound'
  BY <1>2 DEF bulkVars, IInv, RequestsSound, Over
<1>5. Kept'
  BY <1>2 DEF bulkVars, IInv, Kept, InStep
<1>6. OkIsWhole' /\ CountsAreTrue'
  <2>1. LastBlockSticksOut' <=> LastBlockSticksOut
    BY <1>2 DEF bulkVars, LastBlockSticksOut, BlocksFor
  <2> QED BY <1>2, <2>1 DEF bulkVars, IInv, Results, OkIsWhole, CountsAreTrue, Over, Least
<1>7. IdsChecked' /\ SyncKept' /\ AbortStopsAdapter'
  BY <1>2 DEF bulkVars, IInv, Results, IdsChecked, SyncKept, AbortStopsAdapter, Over, AgilentExchanges
<1> QED BY <1>3, <1>4, <1>5, <1>6, <1>7 DEF IInv, Results

(* The invariant holds before attach.                                      *)
LEMMA InitHolds ==
    ASSUME Init
    PROVE  IInv
<1>1. /\ adapter \in {"ni", "agilent"} /\ attached = FALSE /\ requests = <<>> /\ responses = <<>>
      /\ lastMoved = 0 /\ crossed = 0 /\ ended = FALSE /\ reply = 0
      /\ call = [op |-> "attach", len |-> 0, eoi |-> FALSE, patient |-> FALSE, done |-> 0,
                 phase |-> "open", rc |-> "ok", n |-> 0, end |-> FALSE, took |-> "none",
                 clean |-> TRUE, aborted |-> "no"]
  BY DEF Init, BulkInit
<1>2. 0 \in 0 .. MaxPayload /\ MaxPending \in Nat /\ MaxStale \in Nat
  BY BulkAssumption
<1>3. call \in Calls
  BY <1>1, <1>2 DEF Calls, RegisterOps, Codes
<1>4. /\ call.op = "attach" /\ call.phase = "open" /\ call.done = 0 /\ call.n = 0
      /\ call.rc = "ok" /\ call.took = "none" /\ call.eoi = FALSE
  BY <1>1
<1>5. TypeOK
  <2>1. requests \in Seq(Requests) /\ Len(requests) <= MaxPending
    BY <1>1, <1>2
  <2>2. responses \in Seq(Responses) /\ Len(responses) <= MaxStale + 1
    BY <1>1, <1>2
  <2> QED BY <1>1, <1>2, <1>3, <2>1, <2>2 DEF TypeOK, BulkTypeOK
<1>6. CallSound
  <2>1. 0 < Exchanges("attach")
    <3>1. "attach" \in RegisterOps /\ "attach" # "lines"
      BY DEF RegisterOps
    <3>2. NiExchanges["attach"] > 0 /\ NiExchanges["attach"] \in 0 .. 2
          /\ Len(AgilentExchanges["attach"]) \in 1 .. 4
      BY <3>1, ExchangesWell
    <3>3. ASSUME NEW k \in 1 .. 4 PROVE 0 < k
      OBVIOUS
    <3>4. 0 < NiExchanges["attach"]
      BY <3>2
    <3>5. 0 < Len(AgilentExchanges["attach"])
      BY <3>2, <3>3
    <3> QED BY <3>4, <3>5 DEF Exchanges
  <2> QED BY <1>4, <2>1 DEF CallSound, Over, DataOps, RegisterOps
<1>7. RequestsSound
  BY <1>1 DEF RequestsSound, Sound, Unmoved
<1>8. Kept
  BY <1>1, <1>4 DEF Kept, InStep, AllOwn
<1>9. Results
  BY <1>4 DEF Results, OkIsWhole, CountsAreTrue, IdsChecked, SyncKept, AbortStopsAdapter, Over
<1> QED BY <1>5, <1>6, <1>7, <1>8, <1>9 DEF IInv

(* Every step keeps what the results rest on.                              *)
LEMMA StepKeeps ==
    ASSUME IInv, [Next]_bulkVars
    PROVE  IInv'
<1>1. CASE \E op \in RegisterOps \cup DataOps, len \in Lengths \cup {0}, eoi, patient \in BOOLEAN :
             op # "attach" /\ Start(op, len, eoi, patient)
  BY <1>1, StartKeeps
<1>2. CASE OpenPipes
  BY <1>2, OpenPipesKeeps
<1>3. CASE NiStep
  BY <1>3, OutKeeps, NiOutFailsKeeps, NiLinesKeeps, NiRegisterInKeeps,
     NiRegisterUnansweredKeeps, NiStatusInKeeps, NiReadInKeeps, UnansweredKeeps DEF NiStep
<1>4. CASE AgilentStep
  BY <1>4, OutKeeps, AgilentOutFailsKeeps, AgilentRegisterInKeeps, UnansweredKeeps,
     AgilentStatusKeeps, AgilentStatusUnansweredKeeps, AgilentReadInKeeps,
     AgilentReadLateKeeps, AgilentReadEmptyKeeps DEF AgilentStep
<1>5. CASE InFails
  BY <1>5, NiRegisterUnansweredKeeps, UnansweredKeeps, AgilentReadEmptyKeeps,
     AgilentReadFailsKeeps DEF InFails, NiInFails, AgilentInFails
<1>6. CASE FirmwareStep
  BY <1>6, FirmwareMovesKeeps, FirmwareFinishesKeeps DEF FirmwareStep
<1>7. CASE UNCHANGED bulkVars
  BY <1>7, StutterKeeps
<1> QED BY <1>1, <1>2, <1>3, <1>4, <1>5, <1>6, <1>7 DEF Next, TransportStep

(* The invariant of the two transports.                                    *)
LEMMA Invariance == Spec => []IInv
<1>1. Init => IInv
  BY InitHolds
<1>2. IInv /\ [Next]_bulkVars => IInv'
  BY StepKeeps
<1> QED BY <1>1, <1>2, PTL DEF Spec

(* The calls, requests and answers of the two bulk transports are what     *)
(* they are declared to be, and the queues stay within their bounds: no    *)
(* call of NIUSBTransport or Agilent82357Transport reports more bytes than *)
(* a packet holds, whatever answer it has taken for its own.               *)
THEOREM BulkTypeCorrect == Spec => []TypeOK
BY Invariance, PTL DEF IInv

(* A command or a write of the NI transport that returns GPIBT_OK, having  *)
(* found the pipes empty, has crossed the bus with its EOI, up to what its *)
(* request has room for (NIUSBTransport::sendCommandBytes, writeData).     *)
THEOREM OkTransfersAreWhole == Spec => []OkIsWhole
BY Invariance, PTL DEF IInv, Results

(* The counts of the two transports, for replies, buffers and data blocks  *)
(* of any size: a write never reports more than crossed the bus, a read    *)
(* what the talker said and its END; the NI transport counts one block too *)
(* few exactly when the last block sticks out of the buffer                *)
(* (NIUSBTransport::readData).                                             *)
THEOREM ReportedCountsAreTrue == Spec => []CountsAreTrue
BY Invariance, PTL DEF IInv, Results

(* Whatever stale answers are in the pipe, a read of the NI transport and  *)
(* a register access of the Agilent's succeed only on an answer of their   *)
(* kind (NIUSBTransport::readData, Agilent82357Transport::writeRegs and    *)
(* readRegs).                                                              *)
THEOREM AnswerKindsChecked == Spec => []IdsChecked
BY Invariance, PTL DEF IInv, Results

(* A call of either transport that found the pipes empty and took its      *)
(* answer leaves them empty: only failures and missing answers put a later *)
(* call out of step.                                                       *)
THEOREM StepIsKept == Spec => []SyncKept
BY Invariance, PTL DEF IInv, Results

(* A read of Agilent82357Transport::readData that is over leaves the       *)
(* adapter no transfer, unless the abort itself was lost.                  *)
THEOREM AbortedReadsStop == Spec => []AbortStopsAdapter
BY Invariance, PTL DEF IInv, Results
-----------------------------------------------------------------------------
(* How many steps a call has at most left, if the firmware lets it.        *)
Turn(phase) ==
    CASE phase = "open" -> 4
      [] phase = "out"  -> 3
      [] phase = "in"   -> 2
      [] phase \in {"status", "late"} -> 1
      [] phase = "over" -> 0

ToGo(c) == 4 * (4 - c.done) + Turn(c.phase)

Phases == {"open", "out", "in", "status", "late", "over"}

(* The next phase, or the next register request of the call.               *)
Nearer ==
    \/ call'.done = call.done /\ Turn(call'.phase) < Turn(call.phase)
    \/ call'.done = call.done + 1 /\ call.phase = "in"

LEMMA TurnIsNumber ==
    /\ \A phase \in Phases : Turn(phase) \in 0 .. 4
    /\ Turn("open") = 4 /\ Turn("out") = 3 /\ Turn("in") = 2 /\ Turn("status") = 1
    /\ Turn("late") = 1 /\ Turn("over") = 0
BY DEF Turn, Phases

LEMMA NearerIsLess ==
    ASSUME call \in Calls, call' \in Calls, Nearer
    PROVE  ToGo(call') \in Nat /\ ToGo(call') < ToGo(call)
<1>1. /\ call.done \in 0 .. 4 /\ call'.done \in 0 .. 4
      /\ call.phase \in Phases /\ call'.phase \in Phases
  BY DEF Calls, Phases
<1>2. Turn(call.phase) \in 0 .. 4 /\ Turn(call'.phase) \in 0 .. 4
  BY <1>1, TurnIsNumber
<1>3. CASE call'.done = call.done /\ Turn(call'.phase) < Turn(call.phase)
  BY <1>1, <1>2, <1>3 DEF ToGo
<1>4. CASE call'.done = call.done + 1 /\ call.phase = "in"
  <2>1. Turn(call.phase) = 2
    BY <1>4, TurnIsNumber
  <2>2. \A d \in 0 .. 4, t \in 0 .. 4 : d + 1 <= 4 =>
          4 * (4 - (d + 1)) + t \in Nat /\ 4 * (4 - (d + 1)) + t < 4 * (4 - d) + 2
    OBVIOUS
  <2>3. ToGo(call') = 4 * (4 - (call.done + 1)) + Turn(call'.phase) /\ ToGo(call) = 4 * (4 - call.done) + 2
    BY <1>4, <2>1 DEF ToGo
  <2>4. call.done + 1 <= 4
    BY <1>1, <1>4
  <2> HIDE DEF ToGo
  <2> QED BY <1>1, <1>2, <2>2, <2>3, <2>4
<1> QED BY <1>3, <1>4 DEF Nearer

(* A step of the call that is over by it, or waits for its answer then.    *)
LEMMA PhaseIsNearer ==
    ASSUME call.phase \in Phases, call'.done = call.done,
           \/ call.phase # "over" /\ call'.phase = "over"
           \/ call.phase = "open" /\ call'.phase = "out"
           \/ call.phase = "out" /\ call'.phase \in {"in", "status"}
           \/ call.phase = "in" /\ call'.phase = "late"
    PROVE  Nearer
<1>1. Turn(call'.phase) < Turn(call.phase)
  BY TurnIsNumber DEF Phases
<1> QED BY <1>1 DEF Nearer

(* Every step of the transport, and every failure, brings the call in      *)
(* progress nearer its end.                                                *)
LEMMA StepNearer ==
    ASSUME IInv, TransportStep \/ InFails
    PROVE  Nearer
<1>1. call \in Calls /\ call.phase \in Phases
  BY DEF IInv, TypeOK, BulkTypeOK, Calls, Phases
<1>2. CASE OpenPipes
  <2>1. call.phase = "open" /\ call'.done = call.done /\ call'.phase \in {"out", "over"}
    BY <1>1, <1>2 DEF OpenPipes, Return, Calls
  <2> QED BY <1>1, <2>1, PhaseIsNearer
<1>3. CASE NiOut \/ AgilentOut
  <2>1. call.phase = "out" /\ call'.done = call.done /\ call'.phase \in {"in", "status"}
    BY <1>1, <1>3 DEF NiOut, AgilentOut, BulkOut, Calls
  <2> QED BY <1>1, <2>1, PhaseIsNearer
<1>4. CASE NiOutFails \/ NiLines
  <2>1. call.phase = "out" /\ call'.done = call.done /\ call'.phase = "over"
    BY <1>1, <1>4 DEF NiOutFails, NiLines, BulkOutFails, Return, Calls
  <2> QED BY <1>1, <2>1, PhaseIsNearer
<1>5. CASE AgilentOutFails
  <2>1. call.phase = "out" /\ call'.done = call.done /\ call'.phase = "over"
    BY <1>1, <1>5 DEF AgilentOutFails, SendAbort, Return, Calls
  <2> QED BY <1>1, <2>1, PhaseIsNearer
<1>6. CASE NiRegisterIn \/ (\E fails \in BOOLEAN : NiRegisterUnanswered(fails))
  <2>1. call.phase = "in"
    <3>1. call.phase \in {"in", "late"} /\ call.op \in RegisterOps
      BY <1>6, Unanswered DEF NiRegisterIn, NiRegisterUnanswered
    <3> QED BY <3>1 DEF IInv, CallSound
  <2>2. call'.done = call.done + 1
    BY <1>1, <1>6 DEF NiRegisterIn, NiRegisterUnanswered, NiNext, Calls
  <2> QED BY <2>1, <2>2 DEF Nearer
<1>7. CASE AgilentRegisterIn
  BY <1>1, <1>7 DEF AgilentRegisterIn, Calls, Nearer
<1>8. CASE NiStatusIn \/ NiReadIn \/ AgilentReadIn
  <2>1. call.phase \in {"in", "late"} /\ call'.done = call.done /\ call'.phase = "over"
    BY <1>1, <1>8 DEF NiStatusIn, NiReadIn, AgilentReadIn, BulkIn, Calls
  <2> QED BY <1>1, <2>1, PhaseIsNearer
<1>9. ASSUME NEW fails \in BOOLEAN,
             NiUnanswered(fails) \/ AgilentRegisterUnanswered(fails) \/ AgilentReadEmpty(fails)
      PROVE  Nearer
  <2>1. call.phase \in {"in", "late"} /\ call'.done = call.done /\ call'.phase = "over"
    BY <1>1, <1>9, Unanswered
       DEF NiUnanswered, AgilentRegisterUnanswered, AgilentReadEmpty, Return, Calls
  <2> QED BY <1>1, <2>1, PhaseIsNearer
<1>10. CASE AgilentStatus \/ AgilentStatusUnanswered
  <2>1. call.phase = "status" /\ call'.done = call.done /\ call'.phase = "over"
    BY <1>1, <1>10 DEF AgilentStatus, AgilentStatusUnanswered, Calls
  <2> QED BY <1>1, <2>1, PhaseIsNearer
<1>11. CASE AgilentReadLate \/ AgilentReadFails
  <2>1. call.phase = "in" /\ call'.done = call.done /\ call'.phase \in {"late", "over"}
    BY <1>1, <1>11 DEF AgilentReadLate, AgilentReadFails, SendAbort, Calls
  <2> QED BY <1>1, <2>1, PhaseIsNearer
<1> QED BY <1>2, <1>3, <1>4, <1>5, <1>6, <1>7, <1>8, <1>9, <1>10, <1>11
        DEF TransportStep, InFails, NiStep, NiInFails, AgilentStep, AgilentInFails

(* Every step of a call of either transport and every failure of a USB     *)
(* transfer brings the call strictly nearer its end, and nothing the       *)
(* firmware does sets it back: the transports retry nothing, and a read    *)
(* that is flushed is waited for once more only (Agilent82357Transport::   *)
(* readData).  With the fairness of TransportStep this is why CallEnds     *)
(* holds.                                                                  *)
THEOREM CallsRunDown ==
    Spec => [][~Over => \/ FirmwareStep /\ UNCHANGED call
                        \/ ToGo(call') \in Nat /\ ToGo(call') < ToGo(call)]_bulkVars
<1>1. ASSUME IInv, IInv', Next, ~Over
      PROVE  \/ FirmwareStep /\ UNCHANGED call
             \/ ToGo(call') \in Nat /\ ToGo(call') < ToGo(call)
  <2>1. CASE TransportStep \/ InFails
    <3>1. call \in Calls /\ call' \in Calls
      BY <1>1 DEF IInv, TypeOK, BulkTypeOK
    <3> QED BY <1>1, <2>1, <3>1, StepNearer, NearerIsLess
  <2>2. CASE FirmwareStep
    BY <2>2 DEF FirmwareStep, FirmwareMoves, FirmwareFinishes
  <2> QED BY <1>1, <2>1, <2>2 DEF Next, Start
<1>2. IInv /\ IInv' /\ [Next]_bulkVars =>
        [~Over => \/ FirmwareStep /\ UNCHANGED call
                  \/ ToGo(call') \in Nat /\ ToGo(call') < ToGo(call)]_bulkVars
  BY <1>1
<1> QED BY <1>2, Invariance, PTL DEF Spec
=============================================================================
