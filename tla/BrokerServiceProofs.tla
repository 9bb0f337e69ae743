------------------------ MODULE BrokerServiceProofs ------------------------
(***************************************************************************)
(* What the broker promises its clients, for any number of clients,        *)
(* adapters, boards and descriptors.  Where a theorem assumes that clients *)
(* do not leave with requests in flight (~KilledMidCall), the run          *)
(* broker_killed shows what happens when they do.  Calls may fail, and the *)
(* driver may turn the reaper down, in all of them.                        *)
(***************************************************************************)
EXTENDS BrokerProofs, FiniteSetTheorems

(* The block k of board b is a reaper's, for client c.                     *)
Reaps(c, b, k) == queue[b][k].op = "reap" /\ queue[b][k].client = c

(* A reaper waits for each block it queues: it has one at most, and the    *)
(* entry the block is for is still on its list.                            *)
ReapBlocks ==
    \A c \in Clients, b \in Boards : \A k \in DOMAIN queue[b] :
      Reaps(c, b, k) =>
        /\ peer[c] = "waiting"
        /\ queue[b][k].handle \in Slots
        /\ reap[c][<<b, queue[b][k].handle>>] > 0
        /\ \A b1 \in Boards : \A k1 \in DOMAIN queue[b1] :
             Reaps(c, b1, k1) => b1 = b /\ k1 = k

(* A client that has left has no request in flight.                        *)
LeavesQuietly == \A c \in Clients, b \in Boards : Asks(c, b) => peer[c] = "live"
-----------------------------------------------------------------------------
(* Where the block k of board b1 was before a block was taken off board b. *)
Before(b, b1, k) == IF b1 = b THEN k + 1 ELSE k

(* Taking the head off a queue: every block left was there before, the     *)
(* head is not among them, and no two have become one.                     *)
LEMMA PopFacts ==
  ASSUME TypeOK, NEW b \in Boards, queue[b] # <<>>, queue' = [queue EXCEPT ![b] = Tail(@)]
  PROVE  /\ 1 \in DOMAIN queue[b] /\ Head(queue[b]) = queue[b][1]
         /\ \A b1 \in Boards : \A k \in DOMAIN queue'[b1] :
              /\ Before(b, b1, k) \in DOMAIN queue[b1]
              /\ queue'[b1][k] = queue[b1][Before(b, b1, k)]
              /\ b1 = b => Before(b, b1, k) # 1
              /\ \A j \in DOMAIN queue'[b1] : Before(b, b1, j) = Before(b, b1, k) => j = k
  <1>1. queue[b] \in Seq(Block) /\ DOMAIN queue[b] = 1 .. Len(queue[b]) /\ Len(queue[b]) \in Nat \ {0}
    BY LenProperties, EmptySeq DEF TypeOK
  <1>2. /\ Tail(queue[b]) \in Seq(Block)
        /\ Len(Tail(queue[b])) = Len(queue[b]) - 1
        /\ \A i \in 1 .. Len(Tail(queue[b])) : Tail(queue[b])[i] = queue[b][i + 1]
    BY <1>1, HeadTailProperties
  <1>3. DOMAIN Tail(queue[b]) = 1 .. Len(queue[b]) - 1
    BY <1>2, LenProperties
  <1>4. queue'[b] = Tail(queue[b]) /\ \A b1 \in Boards \ {b} : queue'[b1] = queue[b1]
    BY DEF TypeOK
  <1>5. 1 \in DOMAIN queue[b] /\ Head(queue[b]) = queue[b][1]
    <2>1. 1 \in DOMAIN queue[b]
      BY <1>1
    <2>2. QED
      BY <2>1, <1>1
  <1>6. ASSUME NEW k \in DOMAIN queue'[b]
        PROVE  k + 1 \in DOMAIN queue[b] /\ queue'[b][k] = queue[b][k + 1] /\ k + 1 # 1
    <2>1. k \in 1 .. Len(queue[b]) - 1
      BY <1>3, <1>4, <1>6
    <2>2. k + 1 \in 1 .. Len(queue[b]) /\ k + 1 # 1
      BY <2>1, <1>1
    <2>3. QED
      BY <2>1, <2>2, <1>1, <1>2, <1>4
  <1>7. \A j, k \in DOMAIN queue'[b] : j + 1 = k + 1 => j = k
    BY <1>1, <1>3, <1>4
  <1>8. QED
    BY <1>4, <1>5, <1>6, <1>7 DEF Before

(* Adding a block to a queue.                                              *)
LEMMA PushFacts ==
  ASSUME TypeOK, NEW b \in Boards, NEW x \in Block, Enqueue(b, x)
  PROVE  \A b1 \in Boards : \A k \in DOMAIN queue'[b1] :
           \/ k \in DOMAIN queue[b1] /\ queue'[b1][k] = queue[b1][k]
           \/ b1 = b /\ k = Len(queue[b]) + 1 /\ queue'[b1][k] = x
  <1>1. queue[b] \in Seq(Block) /\ DOMAIN queue[b] = 1 .. Len(queue[b]) /\ Len(queue[b]) \in Nat
    BY LenProperties DEF TypeOK
  <1>2. /\ Append(queue[b], x) \in Seq(Block)
        /\ Len(Append(queue[b], x)) = Len(queue[b]) + 1
        /\ \A i \in 1 .. Len(queue[b]) : Append(queue[b], x)[i] = queue[b][i]
        /\ Append(queue[b], x)[Len(queue[b]) + 1] = x
    BY <1>1, AppendProperties
  <1>3. DOMAIN Append(queue[b], x) = 1 .. Len(queue[b]) + 1
    BY <1>2, LenProperties
  <1>4. queue'[b] = Append(queue[b], x) /\ \A b1 \in Boards \ {b} : queue'[b1] = queue[b1]
    BY DEF Enqueue, TypeOK
  <1>5. ASSUME NEW k \in DOMAIN queue'[b]
        PROVE  \/ k \in DOMAIN queue[b] /\ queue'[b][k] = queue[b][k]
               \/ k = Len(queue[b]) + 1 /\ queue'[b][k] = x
    <2>1. k \in 1 .. Len(queue[b]) \/ k = Len(queue[b]) + 1
      BY <1>1, <1>3, <1>4, <1>5
    <2>2. QED
      BY <2>1, <1>1, <1>2, <1>4
  <1>6. QED
    BY <1>4, <1>5

(* A block of a board's queue is a block.                                  *)
LEMMA BlockTyped ==
  ASSUME TypeOK, NEW b \in Boards, NEW k \in DOMAIN queue[b]
  PROVE  queue[b][k] \in Block
  <1>1. queue[b] \in Seq(Block)
    BY DEF TypeOK
  <1>2. queue[b] \in [1 .. Len(queue[b]) -> Block]
    BY <1>1, LenProperties
  <1>3. QED
    BY <1>2
-----------------------------------------------------------------------------
(* A step that takes no block off a queue, adds no reaper's block, and     *)
(* leaves the lists of the reapers that wait alone.                        *)
LEMMA ReapBlocksStay ==
  ASSUME ReapBlocks,
         \A c \in Clients, b \in Boards : \A k \in DOMAIN queue'[b] :
           Reaps(c, b, k)' =>
             /\ k \in DOMAIN queue[b] /\ queue'[b][k] = queue[b][k]
             /\ peer'[c] = peer[c] /\ reap'[c] = reap[c]
  PROVE  ReapBlocks'
  <1> SUFFICES ASSUME NEW c \in Clients, NEW b \in Boards, NEW k \in DOMAIN queue'[b],
                      Reaps(c, b, k)'
               PROVE  /\ peer'[c] = "waiting"
                      /\ queue'[b][k].handle \in Slots
                      /\ reap'[c][<<b, queue'[b][k].handle>>] > 0
                      /\ \A b1 \in Boards : \A k1 \in DOMAIN queue'[b1] :
                           Reaps(c, b1, k1)' => b1 = b /\ k1 = k
    BY DEF ReapBlocks
  <1>1. /\ Reaps(c, b, k) /\ k \in DOMAIN queue[b] /\ queue'[b][k] = queue[b][k]
        /\ peer'[c] = peer[c] /\ reap'[c] = reap[c]
    BY DEF Reaps
  <1>2. \A b1 \in Boards : \A k1 \in DOMAIN queue'[b1] :
          Reaps(c, b1, k1)' => Reaps(c, b1, k1) /\ k1 \in DOMAIN queue[b1]
    BY DEF Reaps
  <1>3. QED
    BY <1>1, <1>2 DEF ReapBlocks

(* A step that takes a block off board b's queue and leaves alone the      *)
(* reapers whose blocks are still queued.                                  *)
LEMMA ReapBlocksPop ==
  ASSUME TypeOK, ReapBlocks, NEW b \in Boards, queue[b] # <<>>,
         queue' = [queue EXCEPT ![b] = Tail(@)],
         \A c \in Clients : ~Reaps(c, b, 1) => peer'[c] = peer[c] /\ reap'[c] = reap[c]
  PROVE  ReapBlocks'
  <1>1. /\ 1 \in DOMAIN queue[b]
        /\ \A b1 \in Boards : \A k \in DOMAIN queue'[b1] :
             /\ Before(b, b1, k) \in DOMAIN queue[b1]
             /\ queue'[b1][k] = queue[b1][Before(b, b1, k)]
             /\ b1 = b => Before(b, b1, k) # 1
             /\ \A j \in DOMAIN queue'[b1] : Before(b, b1, j) = Before(b, b1, k) => j = k
    BY PopFacts
  <1> SUFFICES ASSUME NEW c \in Clients, NEW d \in Boards, NEW k \in DOMAIN queue'[d],
                      Reaps(c, d, k)'
               PROVE  /\ peer'[c] = "waiting"
                      /\ queue'[d][k].handle \in Slots
                      /\ reap'[c][<<d, queue'[d][k].handle>>] > 0
                      /\ \A b1 \in Boards : \A k1 \in DOMAIN queue'[b1] :
                           Reaps(c, b1, k1)' => b1 = d /\ k1 = k
    BY DEF ReapBlocks
  <1>2. \A b1 \in Boards : \A k1 \in DOMAIN queue'[b1] :
          Reaps(c, b1, k1)' => Reaps(c, b1, Before(b, b1, k1))
    BY <1>1 DEF Reaps
  <1>3. Reaps(c, d, Before(b, d, k)) /\ Before(b, d, k) \in DOMAIN queue[d]
    BY <1>1, <1>2
  <1>4. ~Reaps(c, b, 1)
    <2>1. 1 \in DOMAIN queue[b]
      BY <1>1
    <2> DEFINE j == Before(b, d, k)
    <2>2. Reaps(c, d, j) /\ j \in DOMAIN queue[d] /\ (d = b => j # 1)
      BY <1>1, <1>3
    <2> HIDE DEF j
    <2>3. Reaps(c, b, 1) => b = d /\ 1 = j
      BY <2>1, <2>2 DEF ReapBlocks
    <2>4. QED
      BY <2>2, <2>3
  <1>5. ASSUME NEW b1 \in Boards, NEW k1 \in DOMAIN queue'[b1], Reaps(c, b1, k1)'
        PROVE  b1 = d /\ k1 = k
    <2>1. Reaps(c, b1, Before(b, b1, k1)) /\ Before(b, b1, k1) \in DOMAIN queue[b1]
      BY <1>1, <1>2, <1>5
    <2>2. b1 = d /\ Before(b, b1, k1) = Before(b, d, k)
      BY <1>3, <2>1 DEF ReapBlocks
    <2>3. QED
      BY <1>1, <1>5, <2>2
  <1>6. QED
    BY <1>1, <1>3, <1>4, <1>5 DEF ReapBlocks

(* Whoever a client's request is of, it is not a reaper's; the one that is *)
(* executed next is the head of its queue.                                 *)
LEMMA ReapBlocksStep == TypeOK /\ TypeOK' /\ ReapBlocks /\ [Next]_vars => ReapBlocks'
  <1> SUFFICES ASSUME TypeOK, TypeOK', ReapBlocks, [Next]_vars
               PROVE  ReapBlocks'
    OBVIOUS
  <1>1. ASSUME NEW c \in Clients, NEW b \in Boards, NEW op \in AllOps,
               NEW h \in Slots \cup {0}, Submit(c, b, op, h)
        PROVE  ReapBlocks'
    <2> DEFINE x == [op |-> op, client |-> c, handle |-> h]
    <2>1. x \in Block /\ x.op # "reap"
      BY DEF Block, AllOps
    <2>2. Enqueue(b, x) /\ peer' = peer /\ reap' = reap
      BY <1>1 DEF Submit
    <2>3. \A b1 \in Boards : \A k \in DOMAIN queue'[b1] :
            \/ k \in DOMAIN queue[b1] /\ queue'[b1][k] = queue[b1][k]
            \/ queue'[b1][k] = x
      BY <2>1, <2>2, PushFacts
    <2>4. QED
      <3> HIDE DEF x
      <3>1. QED
        BY <2>1, <2>2, <2>3, ReapBlocksStay DEF Reaps
  <1>2. ASSUME NEW b \in Boards, Call(b) \/ CallFails(b) \/ Answer(b)
        PROVE  ReapBlocks'
    <2>1. /\ queue[b] # <<>> /\ queue' = [queue EXCEPT ![b] = Tail(@)]
          /\ peer' = peer /\ reap' = reap
      BY <1>2 DEF Call, CallFails, Answer, Took
    <2>2. QED
      BY <2>1, ReapBlocksPop
  <1>3. ASSUME NEW b \in Boards, Finish(b) \/ FinishWait(b)
        PROVE  ReapBlocks'
    <2>1. queue' = queue /\ peer' = peer /\ reap' = reap
      BY <1>3 DEF Finish, FinishWait, Reply
    <2>2. QED
      BY <2>1, ReapBlocksStay DEF Reaps
  <1>4. ASSUME NEW b \in Boards, ReapRuns(b)
        PROVE  ReapBlocks'
    <2> DEFINE blk == Head(queue[b])
    <2>1. /\ queue[b] # <<>> /\ queue' = [queue EXCEPT ![b] = Tail(@)] /\ blk.op = "reap"
          /\ peer' = [peer EXCEPT ![blk.client] = "reaping"]
          /\ reap' = [reap EXCEPT ![blk.client] = Drop(@, <<b, blk.handle>>)]
      BY <1>4 DEF ReapRuns
    <2>2. blk = queue[b][1]
      BY <2>1, PopFacts
    <2>3. \A c \in Clients : c # blk.client => peer'[c] = peer[c] /\ reap'[c] = reap[c]
      BY <2>1 DEF TypeOK
    <2>4. \A c \in Clients : ~Reaps(c, b, 1) => peer'[c] = peer[c] /\ reap'[c] = reap[c]
      BY <2>1, <2>2, <2>3 DEF Reaps
    <2>5. QED
      BY <2>1, <2>4, ReapBlocksPop
  <1>5. ASSUME NEW d \in Clients, Die(d) \/ ReapBegin(d) \/ ReapEnd(d)
        PROVE  ReapBlocks'
    <2>1. queue' = queue /\ peer[d] # "waiting"
      BY <1>5 DEF Die, ReapBegin, ReapEnd
    <2>2. \A c \in Clients \ {d} : peer'[c] = peer[c] /\ reap'[c] = reap[c]
      BY <1>5 DEF Die, ReapBegin, ReapEnd, TypeOK
    <2>3. \A c \in Clients, b \in Boards : \A k \in DOMAIN queue'[b] :
            Reaps(c, b, k)' => c # d /\ k \in DOMAIN queue[b]
      BY <2>1 DEF Reaps, ReapBlocks
    <2>4. QED
      BY <2>1, <2>2, <2>3, ReapBlocksStay
  <1>6. ASSUME NEW d \in Clients, ReapNext(d)
        PROVE  ReapBlocks'
    <2>1. PICK b0 \in Boards, h0 \in Slots :
            /\ reap[d][<<b0, h0>>] > 0
            /\ Enqueue(b0, [op |-> "reap", client |-> d, handle |-> h0])
      BY <1>6 DEF ReapNext
    <2> DEFINE x == [op |-> "reap", client |-> d, handle |-> h0]
               n == Len(queue[b0]) + 1
    <2>2. x \in Block /\ x.op = "reap" /\ x.client = d /\ x.handle = h0
      BY DEF Block
    <2>3. \A b1 \in Boards : \A k \in DOMAIN queue'[b1] :
            \/ k \in DOMAIN queue[b1] /\ queue'[b1][k] = queue[b1][k]
            \/ b1 = b0 /\ k = n /\ queue'[b1][k] = x
      BY <2>1, <2>2, PushFacts
    <2>4. /\ peer[d] = "reaping" /\ peer'[d] = "waiting" /\ reap' = reap
          /\ \A c \in Clients \ {d} : peer'[c] = peer[c]
      BY <1>6 DEF ReapNext, TypeOK
    <2>5. \A b1 \in Boards : \A k \in DOMAIN queue[b1] : ~Reaps(d, b1, k)
      BY <2>4 DEF ReapBlocks
    <2> HIDE DEF x, n
    <2>6. \A b1 \in Boards : \A k \in DOMAIN queue'[b1] :
            Reaps(d, b1, k)' => b1 = b0 /\ k = n /\ queue'[b1][k] = x
      BY <2>3, <2>5 DEF Reaps
    <2>7. \A c \in Clients \ {d} : \A b1 \in Boards : \A k \in DOMAIN queue'[b1] :
            Reaps(c, b1, k)' =>
              k \in DOMAIN queue[b1] /\ queue'[b1][k] = queue[b1][k] /\ Reaps(c, b1, k)
      BY <2>2, <2>3 DEF Reaps
    <2>8. ASSUME NEW c \in Clients, NEW b \in Boards, NEW k \in DOMAIN queue'[b],
                 Reaps(c, b, k)'
          PROVE  /\ peer'[c] = "waiting"
                 /\ queue'[b][k].handle \in Slots
                 /\ reap'[c][<<b, queue'[b][k].handle>>] > 0
                 /\ \A b1 \in Boards : \A k1 \in DOMAIN queue'[b1] :
                      Reaps(c, b1, k1)' => b1 = b /\ k1 = k
      <3>1. CASE c = d
        BY <3>1, <2>1, <2>2, <2>4, <2>6, <2>8
      <3>2. CASE c # d
        BY <3>2, <2>4, <2>7, <2>8 DEF ReapBlocks
      <3>3. QED
        BY <3>1, <3>2
    <2>9. QED
      BY <2>8 DEF ReapBlocks
  <1>7. CASE \/ \E k \in DOMAIN attached : Unplug(k)
             \/ \E a \in Adapters, k \in 1 .. Len(attached) + 1 : Plug(a, k)
             \/ UNCHANGED vars
    <2>1. queue' = queue /\ peer' = peer /\ reap' = reap
      BY <1>7 DEF Unplug, Plug, vars
    <2>2. QED
      BY <2>1, ReapBlocksStay DEF Reaps
  <1>8. CASE Restart
    <2>1. \A b \in Boards : queue'[b] = <<>>
      BY <1>8 DEF Restart
    <2>2. QED
      BY <2>1 DEF ReapBlocks
  <1>9. QED
    BY <1>1, <1>2, <1>3, <1>4, <1>5, <1>6, <1>7, <1>8 DEF Next, ReapClose, ReapRefused

(* So it is always, in any instance.                                       *)
LEMMA ReapBlocksInvariant == Spec => []ReapBlocks
  <1>1. Init => ReapBlocks
    BY DEF Init, ReapBlocks
  <1>2. QED
    BY <1>1, ReapBlocksStep, BrokerTypeCorrect, PTL DEF Spec

-----------------------------------------------------------------------------
(* A client that counts no outstanding request has none: the boards are    *)
(* finitely many and so are the blocks of their queues.                    *)
LEMMA NoneOutstanding ==
  ASSUME TypeOK, NEW c \in Clients, Outstanding(c) = 0
  PROVE  \A b \in Boards : ~Asks(c, b)
  <1> DEFINE all     == UNION {{b} \X DOMAIN queue[b] : b \in Boards}
             waiting == {q \in all : LET blk == queue[q[1]][q[2]]
                                     IN blk.client = c /\ blk.op # "reap"}
             inCall  == {b \in Boards : running[b] # Idle /\ running[b].client = c}
  <1>1. Cardinality(waiting) + Cardinality(inCall) = 0
    BY DEF Outstanding
  <1>2. IsFiniteSet(Boards)
    BY BrokerAssumption
  <1>3. IsFiniteSet(all)
    <2> DEFINE P(b) == {b} \X DOMAIN queue[b]
               S    == {P(b) : b \in Boards}
    <2>1. IsFiniteSet(S)
      <3> DEFINE f == [b \in Boards |-> P(b)]
      <3>1. f \in Surjection(Boards, S)
        BY DEF Surjection
      <3> HIDE DEF f, S
      <3>2. QED
        BY <1>2, <3>1, FS_Surjection
    <2>2. ASSUME NEW b \in Boards
          PROVE  IsFiniteSet(P(b))
      <3>1. queue[b] \in Seq(Block)
        BY DEF TypeOK
      <3>2. DOMAIN queue[b] = 1 .. Len(queue[b]) /\ Len(queue[b]) \in Nat
        BY <3>1, LenProperties
      <3>3. IsFiniteSet(1 .. Len(queue[b]))
        BY <3>2, FS_Interval
      <3>4. IsFiniteSet({b})
        BY FS_Singleton
      <3>5. QED
        BY <3>2, <3>3, <3>4, FS_Product
    <2>3. \A T \in S : IsFiniteSet(T)
      BY <2>2
    <2>4. IsFiniteSet(UNION S)
      <3> HIDE DEF S
      <3>1. QED
        BY <2>1, <2>3, FS_UNION
    <2>5. QED
      BY <2>4
  <1>4. IsFiniteSet(waiting) /\ IsFiniteSet(inCall)
    <2>1. waiting \in SUBSET all /\ inCall \in SUBSET Boards
      OBVIOUS
    <2> HIDE DEF waiting, inCall, all
    <2>2. QED
      BY <2>1, <1>2, <1>3, FS_Subset
  <1>5. waiting = {} /\ inCall = {}
    <2> HIDE DEF waiting, inCall, all
    <2>1. Cardinality(waiting) \in Nat /\ Cardinality(inCall) \in Nat
      BY <1>4, FS_CardinalityType
    <2>2. Cardinality(waiting) = 0 /\ Cardinality(inCall) = 0
      BY <1>1, <2>1
    <2>3. QED
      BY <1>4, <2>2, FS_EmptySet
  <1>6. ASSUME NEW b \in Boards, NEW k \in DOMAIN queue[b],
               queue[b][k].client = c, queue[b][k].op # "reap"
        PROVE  FALSE
    <2>1. <<b, k>> \in all
      OBVIOUS
    <2>2. <<b, k>> \in waiting
      BY <2>1, <1>6
    <2>3. QED
      BY <2>2, <1>5
  <1>7. \A b \in Boards : ~(running[b] # Idle /\ running[b].client = c)
    BY <1>5
  <1>8. QED
    BY <1>6, <1>7 DEF Asks

(* What a step may do to the requests: one that was not there is the one a *)
(* connected client has just sent.                                         *)
LEMMA AsksStep ==
  ASSUME TypeOK, TypeOK', [Next]_vars, NEW c \in Clients, NEW b \in Boards, Asks(c, b)'
  PROVE  Asks(c, b) \/ (peer[c] = "live" /\ peer' = peer)
  <1>1. ASSUME NEW d \in Clients, NEW b0 \in Boards, NEW op \in AllOps,
               NEW h \in Slots \cup {0}, Submit(d, b0, op, h)
        PROVE  Asks(c, b) \/ (peer[c] = "live" /\ peer' = peer)
    <2> DEFINE x == [op |-> op, client |-> d, handle |-> h]
    <2>1. x \in Block /\ x.client = d
      BY DEF Block
    <2>2. Enqueue(b0, x) /\ peer' = peer /\ running' = running /\ peer[d] = "live"
      BY <1>1 DEF Submit
    <2>3. \A k \in DOMAIN queue'[b] :
            \/ k \in DOMAIN queue[b] /\ queue'[b][k] = queue[b][k]
            \/ queue'[b][k] = x
      BY <2>1, <2>2, PushFacts
    <2> HIDE DEF x
    <2>4. QED
      BY <2>1, <2>2, <2>3 DEF Asks
  <1>2. ASSUME NEW b0 \in Boards, Call(b0) \/ CallFails(b0) \/ Answer(b0)
        PROVE  Asks(c, b)
    <2> DEFINE blk == Head(queue[b0])
    <2>1. PICK h, ok : Took(b0, blk, h, ok)
      BY <1>2 DEF Call, CallFails, Answer
    <2>2. queue[b0] # <<>> /\ blk.op # "reap"
      BY <1>2 DEF Call, CallFails, Answer
    <2>3. queue' = [queue EXCEPT ![b0] = Tail(@)]
      BY <2>1 DEF Took
    <2>4. /\ 1 \in DOMAIN queue[b0] /\ blk = queue[b0][1]
          /\ \A k \in DOMAIN queue'[b] :
               Before(b0, b, k) \in DOMAIN queue[b] /\ queue'[b][k] = queue[b][Before(b0, b, k)]
      BY <2>2, <2>3, PopFacts
    <2>5. running'[b] = running[b] \/ (b = b0 /\ running'[b].client = blk.client)
      BY <2>1 DEF Took, TypeOK
    <2> HIDE DEF blk
    <2>6. CASE \E k \in DOMAIN queue'[b] : queue'[b][k].client = c /\ queue'[b][k].op # "reap"
      BY <2>4, <2>6 DEF Asks
    <2>7. CASE running'[b] # Idle /\ running'[b].client = c
      BY <2>2, <2>4, <2>5, <2>7 DEF Asks
    <2>8. QED
      BY <2>6, <2>7 DEF Asks
  <1>3. ASSUME NEW b0 \in Boards, Finish(b0) \/ FinishWait(b0)
        PROVE  Asks(c, b)
    <2>1. queue' = queue /\ running' = [running EXCEPT ![b0] = Idle]
      BY <1>3 DEF Finish, FinishWait, Reply
    <2>2. running'[b] \in {running[b], Idle}
      BY <2>1 DEF TypeOK
    <2>3. QED
      BY <2>1, <2>2 DEF Asks
  <1>4. ASSUME NEW b0 \in Boards, ReapRuns(b0)
        PROVE  Asks(c, b)
    <2>1. queue[b0] # <<>> /\ queue' = [queue EXCEPT ![b0] = Tail(@)] /\ running' = running
      BY <1>4 DEF ReapRuns
    <2>2. \A k \in DOMAIN queue'[b] :
            Before(b0, b, k) \in DOMAIN queue[b] /\ queue'[b][k] = queue[b][Before(b0, b, k)]
      BY <2>1, PopFacts
    <2>3. QED
      BY <2>1, <2>2 DEF Asks
  <1>5. ASSUME NEW d \in Clients, ReapNext(d)
        PROVE  Asks(c, b)
    <2>1. PICK b0 \in Boards, h0 \in Slots :
            Enqueue(b0, [op |-> "reap", client |-> d, handle |-> h0])
      BY <1>5 DEF ReapNext
    <2> DEFINE x == [op |-> "reap", client |-> d, handle |-> h0]
    <2>2. x \in Block /\ x.op = "reap" /\ running' = running
      BY <1>5 DEF Block, ReapNext
    <2>3. \A k \in DOMAIN queue'[b] :
            \/ k \in DOMAIN queue[b] /\ queue'[b][k] = queue[b][k]
            \/ queue'[b][k] = x
      BY <2>1, <2>2, PushFacts
    <2> HIDE DEF x
    <2>4. QED
      BY <2>2, <2>3 DEF Asks
  <1>6. ASSUME \/ \E d \in Clients : Die(d) \/ ReapBegin(d) \/ ReapEnd(d)
               \/ \E k \in DOMAIN attached : Unplug(k)
               \/ \E a \in Adapters, k \in 1 .. Len(attached) + 1 : Plug(a, k)
               \/ Restart
               \/ UNCHANGED vars
        PROVE  Asks(c, b)
    <2>1. queue' = queue /\ running' = running
      BY <1>6 DEF Die, ReapBegin, ReapEnd, Unplug, Plug, Restart, vars
    <2>2. QED
      BY <2>1 DEF Asks
  <1>7. QED
    BY <1>1, <1>2, <1>3, <1>4, <1>5, <1>6 DEF Next, ReapClose, ReapRefused

-----------------------------------------------------------------------------
(* When nobody is killed with requests in flight, the client of a request  *)
(* is there to get the reply.                                              *)
LEMMA LeavesQuietlyStep ==
  ASSUME ~KilledMidCall
  PROVE  TypeOK /\ TypeOK' /\ ReapBlocks /\ LeavesQuietly /\ [Next]_vars => LeavesQuietly'
  <1> SUFFICES ASSUME TypeOK, TypeOK', ReapBlocks, LeavesQuietly, [Next]_vars,
                      NEW c \in Clients, NEW b \in Boards, Asks(c, b)'
               PROVE  peer'[c] = "live"
    BY DEF LeavesQuietly
  <1>1. peer[c] = "live" /\ (Asks(c, b) \/ peer' = peer)
    BY AsksStep DEF LeavesQuietly
  <1>2. ASSUME NEW d \in Clients, Die(d)
        PROVE  peer'[c] = "live"
    <2>1. Outstanding(d) = 0 /\ peer' = [peer EXCEPT ![d] = "gone"] /\ peer' # peer
      BY <1>2 DEF Die, TypeOK
    <2>2. ~Asks(d, b)
      BY <2>1, NoneOutstanding
    <2>3. d # c
      BY <1>1, <2>1, <2>2
    <2>4. QED
      BY <1>1, <2>1, <2>3 DEF TypeOK
  <1>3. ASSUME NEW d \in Clients, ReapBegin(d) \/ ReapNext(d) \/ ReapEnd(d)
        PROVE  peer'[c] = "live"
    <2>1. peer[d] # "live" /\ \A e \in Clients \ {d} : peer'[e] = peer[e]
      BY <1>3 DEF ReapBegin, ReapNext, ReapEnd, TypeOK
    <2>2. QED
      BY <1>1, <2>1
  <1>4. ASSUME NEW b0 \in Boards, ReapRuns(b0)
        PROVE  peer'[c] = "live"
    <2> DEFINE d == Head(queue[b0]).client
    <2>1. d \in Clients /\ peer[d] = "waiting"
      <3>1. queue[b0] # <<>> /\ queue' = [queue EXCEPT ![b0] = Tail(@)]
        BY <1>4 DEF ReapRuns
      <3>2. 1 \in DOMAIN queue[b0] /\ Head(queue[b0]) = queue[b0][1]
        BY <3>1, PopFacts
      <3>3. Head(queue[b0]).client \in Clients
        BY <3>1, QueueFacts DEF Block
      <3>4. Reaps(d, b0, 1)
        BY <1>4, <3>2 DEF ReapRuns, Reaps
      <3>5. QED
        BY <3>2, <3>3, <3>4 DEF ReapBlocks
    <2>2. peer' = [peer EXCEPT ![d] = "reaping"]
      BY <1>4 DEF ReapRuns
    <2>3. QED
      BY <1>1, <2>1, <2>2 DEF TypeOK
  <1>5. CASE \/ \E d \in Clients, b0 \in Boards, op \in AllOps, h \in Slots \cup {0} :
                  Submit(d, b0, op, h)
             \/ \E b0 \in Boards : \/ Call(b0) \/ CallFails(b0) \/ Answer(b0)
                                   \/ Finish(b0) \/ FinishWait(b0)
             \/ \E k \in DOMAIN attached : Unplug(k)
             \/ \E a \in Adapters, k \in 1 .. Len(attached) + 1 : Plug(a, k)
             \/ UNCHANGED vars
    <2>1. peer' = peer
      BY <1>5 DEF Submit, Call, CallFails, Answer, Took, Finish, FinishWait, Reply,
                  Unplug, Plug, vars
    <2>2. QED
      BY <1>1, <2>1
  <1>6. CASE Restart
    BY <1>1, <1>6 DEF Restart
  <1>7. QED
    BY <1>2, <1>3, <1>4, <1>5, <1>6 DEF Next, ReapClose, ReapRefused

(* Where clients do not die in mid call, one that has left has nothing in  *)
(* flight.                                                                 *)
LEMMA LeavesQuietlyInvariant ==
  ASSUME ~KilledMidCall
  PROVE  Spec => []LeavesQuietly
  <1>1. Init => LeavesQuietly
    BY DEF Init, LeavesQuietly
  <1>2. TypeOK /\ TypeOK' /\ ReapBlocks /\ LeavesQuietly /\ [Next]_vars => LeavesQuietly'
    BY LeavesQuietlyStep
  <1>3. QED
    BY <1>1, <1>2, ReapBlocksInvariant, BrokerTypeCorrect, PTL DEF Spec

(* No step enters anything into a list that was taken: what would do so is *)
(* a request of the client, which has none.                                *)
LEMMA NoStrandedStep ==
  TypeOK /\ TypeOK' /\ ReapBlocks /\ LeavesQuietly /\ NoStranded /\ [Next]_vars => NoStranded'
  <1> SUFFICES ASSUME TypeOK, TypeOK', ReapBlocks, LeavesQuietly, NoStranded, [Next]_vars,
                      NEW c \in Clients, peer'[c] \in {"reaping", "waiting", "freed"}
               PROVE  descs'[c] = Nothing
    BY DEF NoStranded, Nothing
  <1>1. ASSUME NEW b \in Boards, running[b] # Idle, Reply(b, running[b])
        PROVE  descs'[c] = Nothing
    <2> DEFINE d == running[b].client
    <2>1. d \in Clients /\ Asks(d, b)
      BY <1>1 DEF TypeOK, Result, Asks
    <2>2. peer' = peer /\ c # d
      BY <1>1, <2>1 DEF Reply, LeavesQuietly
    <2>3. descs'[c] = descs[c]
      BY <1>1, <2>1, <2>2 DEF Reply, TypeOK
    <2>4. QED
      BY <2>2, <2>3 DEF NoStranded
  <1>2. ASSUME NEW d \in Clients, ReapBegin(d)
        PROVE  descs'[c] = Nothing
    BY <1>2 DEF ReapBegin, TypeOK, NoStranded
  <1>3. ASSUME NEW b \in Boards, ReapRuns(b)
        PROVE  descs'[c] = Nothing
    <2> DEFINE d == Head(queue[b]).client
    <2>1. queue[b] # <<>> /\ queue' = [queue EXCEPT ![b] = Tail(@)]
      BY <1>3 DEF ReapRuns
    <2>2. 1 \in DOMAIN queue[b] /\ Head(queue[b]) = queue[b][1] /\ d \in Clients
      BY <2>1, PopFacts, QueueFacts DEF Block
    <2>3. Reaps(d, b, 1)
      BY <1>3, <2>2 DEF ReapRuns, Reaps
    <2>4. peer[d] = "waiting"
      BY <2>2, <2>3 DEF ReapBlocks
    <2>5. descs' = descs /\ peer' = [peer EXCEPT ![d] = "reaping"]
      BY <1>3 DEF ReapRuns
    <2>6. QED
      BY <2>2, <2>4, <2>5 DEF NoStranded, TypeOK
  <1>4. ASSUME NEW d \in Clients, Die(d) \/ ReapNext(d) \/ ReapEnd(d)
        PROVE  descs'[c] = Nothing
    BY <1>4 DEF Die, ReapNext, ReapEnd, TypeOK, NoStranded
  <1>5. CASE Restart
    BY <1>5 DEF Restart
  <1>6. CASE \/ \E d \in Clients, b \in Boards, op \in AllOps, h \in Slots \cup {0} :
                  Submit(d, b, op, h)
             \/ \E b \in Boards : Call(b) \/ CallFails(b) \/ Answer(b)
             \/ \E k \in DOMAIN attached : Unplug(k)
             \/ \E a \in Adapters, k \in 1 .. Len(attached) + 1 : Plug(a, k)
             \/ UNCHANGED vars
    <2>1. peer' = peer /\ descs' = descs
      BY <1>6 DEF Submit, Call, CallFails, Answer, Took, Unplug, Plug, vars
    <2>2. QED
      BY <2>1 DEF NoStranded
  <1>7. QED
    BY <1>1, <1>2, <1>3, <1>4, <1>5, <1>6 DEF Next, Finish, FinishWait, ReapClose, ReapRefused

(* When a departed client's list has been taken, nothing is entered into   *)
(* it any more -- if clients do not die with an open in flight.            *)
LEMMA NoStrandedInvariant ==
  ASSUME ~KilledMidCall
  PROVE  Spec => []NoStranded
  <1>1. Init => NoStranded
    BY DEF Init, NoStranded
  <1>2. QED
    BY <1>1, NoStrandedStep, LeavesQuietlyInvariant, ReapBlocksInvariant, BrokerTypeCorrect, PTL
    DEF Spec
-----------------------------------------------------------------------------
(* The handle h names, over board b's connection, a slot that c opened on  *)
(* that board.                                                             *)
Mine(c, b, h) ==
    /\ conn[b] \in Attached
    /\ table[conn[b]][h] # Free
    /\ table[conn[b]][h].client = c
    /\ table[conn[b]][h].board = b

(* The driver has closed h for c; it is still to be crossed off the list.  *)
Closing(c, b, h) ==
    /\ running[b] # Idle
    /\ running[b].client = c
    /\ running[b].op = "close"
    /\ running[b].ok
    /\ running[b].handle = h

CloseAt(c, b, h, k) ==
    /\ queue[b][k].op = "close"
    /\ queue[b][k].client = c
    /\ queue[b][k].handle = h

(* A close of h by c is queued, and how often it may be.                   *)
CloseWaits(c, b, h) == \E k \in DOMAIN queue[b] : CloseAt(c, b, h, k)

CloseOnce(c, b, h) ==
    \A j, k \in DOMAIN queue[b] : CloseAt(c, b, h, j) /\ CloseAt(c, b, h, k) => j = k

(* What it means that c's list, its reaper's list, its requests and its    *)
(* own idea of what it holds name (b, h): each of them is right about the  *)
(* slot, and nothing is named twice.                                       *)
Entry(c, b, h) ==
    /\ descs[c][<<b, h>>] \in {0, 1}
    /\ descs[c][<<b, h>>] = 1 => Mine(c, b, h) \/ Closing(c, b, h)
    /\ reap[c][<<b, h>>] \in {0, 1}
    /\ reap[c][<<b, h>>] = 1 => Mine(c, b, h)
    /\ BeingTracked(c, b, h) => Mine(c, b, h) /\ descs[c][<<b, h>>] = 0
    /\ CloseOnce(c, b, h)
    /\ CloseWaits(c, b, h) =>
         Mine(c, b, h) /\ descs[c][<<b, h>>] = 1 /\ <<b, h>> \notin held[c]
    /\ <<b, h>> \in held[c] =>
         peer[c] = "live" /\ Mine(c, b, h) /\ descs[c][<<b, h>>] = 1

(* What holds as long as no adapter leaves and the broker is not restarted.*)
Lasting ==
    /\ \A b \in Boards : conn[b] \in Attached \cup {None}
    /\ \A a \in Adapters, h \in Slots : table[a][h] # Free => table[a][h].fate # "exited"
    /\ \A b \in Boards : \A k \in DOMAIN queue[b] :
         queue[b][k].op = "close" => queue[b][k].handle \in Slots

Ledger == Lasting /\ \A c \in Clients, b \in Boards, h \in Slots : Entry(c, b, h)
-----------------------------------------------------------------------------
(* A step that changes neither what the entry says nor what it is about.   *)
LEMMA EntryFrame ==
  ASSUME NEW c, NEW b, NEW h, Entry(c, b, h),
         Mine(c, b, h) => Mine(c, b, h)',
         Closing(c, b, h) => Closing(c, b, h)',
         BeingTracked(c, b, h)' => BeingTracked(c, b, h),
         descs'[c][<<b, h>>] = descs[c][<<b, h>>],
         reap'[c][<<b, h>>] = reap[c][<<b, h>>],
         CloseWaits(c, b, h)' => CloseWaits(c, b, h),
         CloseOnce(c, b, h)',
         <<b, h>> \in held'[c] => <<b, h>> \in held[c] /\ peer'[c] = peer[c]
  PROVE  Entry(c, b, h)'
  BY DEF Entry

(* A slot stays c's as long as nobody touches it or the way to it.         *)
LEMMA MineKept ==
  ASSUME NEW c, NEW b, NEW h, Mine(c, b, h), Attached \subseteq Attached',
         conn'[b] = conn[b], table'[conn[b]][h] = table[conn[b]][h]
  PROVE  Mine(c, b, h)'
  BY DEF Mine

(* The slot that such a handle names is open, and a request reaches it.    *)
LEMMA MineIsOpen ==
  ASSUME TypeOK, Lasting, NEW c \in Clients, NEW b \in Boards, NEW h \in Slots, Mine(c, b, h)
  PROVE  /\ conn[b] \in Adapters /\ OpenedOn(conn[b], h, b)
         /\ Connection(b) = conn[b] /\ Reached(b) = conn[b]
  <1>1. conn[b] \in Adapters /\ conn[b] # None
    BY ResolvesToAttached, BrokerAssumption DEF Mine
  <1>2. table[conn[b]][h].fate # "exited"
    BY <1>1 DEF Mine, Lasting
  <1>3. QED
    BY <1>1, <1>2 DEF Mine, OpenedOn, Connection, Reached

(* Taking a block off a queue makes no close wait that did not, and a      *)
(* close that is taken off waits no more.                                  *)
LEMMA ClosePop ==
  ASSUME TypeOK, NEW b0 \in Boards, queue[b0] # <<>>,
         queue' = [queue EXCEPT ![b0] = Tail(@)],
         NEW c \in Clients, NEW b \in Boards, NEW h \in Slots, CloseOnce(c, b, h)
  PROVE  /\ CloseWaits(c, b, h)' => CloseWaits(c, b, h)
         /\ CloseOnce(c, b, h)'
         /\ b = b0 /\ CloseAt(c, b0, h, 1) => ~CloseWaits(c, b, h)'
  <1>1. /\ 1 \in DOMAIN queue[b0]
        /\ \A k \in DOMAIN queue'[b] :
             /\ Before(b0, b, k) \in DOMAIN queue[b]
             /\ queue'[b][k] = queue[b][Before(b0, b, k)]
             /\ b = b0 => Before(b0, b, k) # 1
             /\ \A j \in DOMAIN queue'[b] : Before(b0, b, j) = Before(b0, b, k) => j = k
    BY PopFacts
  <1>2. \A k \in DOMAIN queue'[b] :
          CloseAt(c, b, h, k)' => CloseAt(c, b, h, Before(b0, b, k))
    BY <1>1 DEF CloseAt
  <1>3. CloseWaits(c, b, h)' => CloseWaits(c, b, h)
    BY <1>1, <1>2 DEF CloseWaits
  <1>4. CloseOnce(c, b, h)'
    BY <1>1, <1>2 DEF CloseOnce
  <1>5. ASSUME b = b0, CloseAt(c, b0, h, 1), NEW k \in DOMAIN queue'[b], CloseAt(c, b, h, k)'
        PROVE  FALSE
    <2> DEFINE j == Before(b0, b, k)
    <2>1. CloseAt(c, b, h, j) /\ j \in DOMAIN queue[b] /\ j # 1 /\ 1 \in DOMAIN queue[b]
      BY <1>1, <1>2, <1>5
    <2> HIDE DEF j
    <2>2. QED
      BY <1>5, <2>1 DEF CloseOnce
  <1>6. QED
    BY <1>3, <1>4, <1>5 DEF CloseWaits

(* Adding one that is not a close of h by c makes none wait; adding one    *)
(* when none waits makes one wait.                                         *)
LEMMA ClosePush ==
  ASSUME TypeOK, NEW b0 \in Boards, NEW x \in Block, Enqueue(b0, x),
         NEW c \in Clients, NEW b \in Boards, NEW h \in Slots, CloseOnce(c, b, h)
  PROVE  /\ ~(b = b0 /\ x.op = "close" /\ x.client = c /\ x.handle = h) =>
              /\ CloseWaits(c, b, h)' => CloseWaits(c, b, h)
              /\ CloseOnce(c, b, h)'
         /\ ~CloseWaits(c, b, h) => CloseOnce(c, b, h)'
  <1> DEFINE n == Len(queue[b0]) + 1
  <1>1. \A k \in DOMAIN queue'[b] :
          \/ k \in DOMAIN queue[b] /\ queue'[b][k] = queue[b][k]
          \/ b = b0 /\ k = n /\ queue'[b][k] = x
    BY PushFacts
  <1> HIDE DEF n
  <1>2. \A k \in DOMAIN queue'[b] : CloseAt(c, b, h, k)' =>
          \/ k \in DOMAIN queue[b] /\ CloseAt(c, b, h, k)
          \/ b = b0 /\ k = n /\ x.op = "close" /\ x.client = c /\ x.handle = h
    BY <1>1 DEF CloseAt
  <1>3. ASSUME ~(b = b0 /\ x.op = "close" /\ x.client = c /\ x.handle = h)
        PROVE  (CloseWaits(c, b, h)' => CloseWaits(c, b, h)) /\ CloseOnce(c, b, h)'
    BY <1>2, <1>3 DEF CloseWaits, CloseOnce
  <1>4. ASSUME ~CloseWaits(c, b, h)
        PROVE  CloseOnce(c, b, h)'
    BY <1>2, <1>4 DEF CloseWaits, CloseOnce
  <1>5. QED
    BY <1>3, <1>4

(* When the queues are as they were.                                       *)
LEMMA CloseStay ==
  ASSUME queue' = queue, NEW c, NEW b, NEW h
  PROVE  /\ CloseWaits(c, b, h)' <=> CloseWaits(c, b, h)
         /\ CloseOnce(c, b, h)' <=> CloseOnce(c, b, h)
  BY DEF CloseWaits, CloseOnce, CloseAt
-----------------------------------------------------------------------------
(* A request: a close is only asked for what is held, and it is not held   *)
(* any more.                                                               *)
LEMMA SubmitKeepsLedger ==
  ASSUME TypeOK, Ledger, NEW d \in Clients, NEW b0 \in Boards, NEW op \in AllOps,
         NEW h0 \in Slots \cup {0}, Submit(d, b0, op, h0)
  PROVE  Ledger'
  <1> DEFINE x == [op |-> op, client |-> d, handle |-> h0]
  <1>1. x \in Block /\ x.op = op /\ x.client = d /\ x.handle = h0
    BY DEF Block
  <1>2. /\ Enqueue(b0, x)
        /\ UNCHANGED <<attached, table, conn, running, peer, descs, reap>>
        /\ op = "close" => <<b0, h0>> \in held[d] /\ <<b0, h0>> \notin held'[d]
        /\ \A c \in Clients : held'[c] \subseteq held[c]
    BY DEF Submit, TypeOK
  <1> HIDE DEF x
  <1>3. Lasting'
    <2>1. op = "close" => h0 \in Slots
      BY <1>2 DEF TypeOK
    <2>2. \A b \in Boards : \A k \in DOMAIN queue'[b] :
            \/ k \in DOMAIN queue[b] /\ queue'[b][k] = queue[b][k]
            \/ queue'[b][k] = x
      BY <1>1, <1>2, PushFacts
    <2>3. QED
      BY <1>1, <1>2, <2>1, <2>2 DEF Ledger, Lasting, Attached
  <1>4. ASSUME NEW c \in Clients, NEW b \in Boards, NEW h \in Slots
        PROVE  Entry(c, b, h)'
    <2>1. /\ Entry(c, b, h)
          /\ Mine(c, b, h)' <=> Mine(c, b, h)
          /\ Closing(c, b, h)' <=> Closing(c, b, h)
          /\ BeingTracked(c, b, h)' <=> BeingTracked(c, b, h)
      BY <1>2 DEF Ledger, Mine, Closing, BeingTracked, Attached
    <2>2. CASE op = "close" /\ c = d /\ b = b0 /\ h = h0
      <3>1. peer[c] = "live" /\ Mine(c, b, h) /\ descs[c][<<b, h>>] = 1 /\ ~CloseWaits(c, b, h)
        BY <1>2, <2>1, <2>2 DEF Entry
      <3>2. CloseOnce(c, b, h)'
        BY <1>1, <1>2, <2>1, <3>1, ClosePush DEF Entry
      <3>3. QED
        BY <1>2, <2>1, <2>2, <3>1, <3>2 DEF Entry
    <2>3. CASE ~(op = "close" /\ c = d /\ b = b0 /\ h = h0)
      <3>1. (CloseWaits(c, b, h)' => CloseWaits(c, b, h)) /\ CloseOnce(c, b, h)'
        BY <1>1, <1>2, <2>1, <2>3, ClosePush DEF Entry
      <3>2. QED
        BY <1>2, <2>1, <3>1, EntryFrame
    <2>4. QED
      BY <2>2, <2>3
  <1>5. QED
    BY <1>3, <1>4 DEF Ledger

(* Releasing a slot, or sparing it, changes no other.                      *)
LEMMA OneSlotTouched ==
  ASSUME TypeOK, NEW a \in Adapters, NEW h0 \in Slots, NEW d \in Clients, NEW b0 \in Boards,
         table'[a] \in {Release(table[a], h0), Spare(table[a], h0, d, b0)},
         \A a1 \in Adapters : a1 # a => table'[a1] = table[a1]
  PROVE  \A a1 \in Adapters, h1 \in Slots :
           ~(a1 = a /\ h1 = h0) => table'[a1][h1] = table[a1][h1]
  <1>1. table[a] \in [Slots -> Owner \cup {Free}]
    BY DEF TypeOK
  <1>2. ASSUME NEW h1 \in Slots, h1 # h0
        PROVE  table'[a][h1] = table[a][h1]
    <2>1. CASE table'[a] = Release(table[a], h0)
      BY <2>1, <1>1, <1>2 DEF Release
    <2>2. CASE table'[a] = Spare(table[a], h0, d, b0)
      BY <2>2, <1>1, <1>2 DEF Spare
    <2>3. QED
      BY <2>1, <2>2
  <1>3. QED
    BY <1>2

(* What happens to d's own slot h0 on board b0 takes a slot from nobody    *)
(* else.                                                                   *)
LEMMA OthersKept ==
  ASSUME TypeOK, Lasting, NEW d \in Clients, NEW b0 \in Boards, NEW h0 \in Slots,
         Mine(d, b0, h0),
         \A a1 \in Adapters, h1 \in Slots :
           ~(a1 = conn[b0] /\ h1 = h0) => table'[a1][h1] = table[a1][h1],
         Attached' = Attached, conn' = conn,
         NEW c \in Clients, NEW b \in Boards, NEW h \in Slots, Mine(c, b, h),
         ~(c = d /\ b = b0 /\ h = h0)
  PROVE  Mine(c, b, h)'
  <1>1. conn[b0] \in Adapters /\ conn[b] \in Adapters
    BY MineIsOpen
  <1>2. ~(conn[b] = conn[b0] /\ h = h0)
    BY DEF Mine
  <1>3. table'[conn[b]][h] = table[conn[b]][h]
    BY <1>1, <1>2
  <1>4. QED
    BY <1>3, MineKept
-----------------------------------------------------------------------------
(* What taking a request off the head of its queue leaves, whatever the    *)
(* driver or the broker answers.                                           *)
LEMMA TookFacts ==
  ASSUME TypeOK, TypeOK', LeavesQuietly, ReapListUnused,
         NEW b0 \in Boards, queue[b0] # <<>>, Head(queue[b0]).op # "reap",
         running[b0] = Idle,
         NEW h0 \in Slots \cup {0}, NEW ok \in BOOLEAN, Took(b0, Head(queue[b0]), h0, ok)
  PROVE  LET d == Head(queue[b0]).client IN
           /\ Head(queue[b0]) = queue[b0][1] /\ 1 \in DOMAIN queue[b0]
           /\ Head(queue[b0]) \in Block
           /\ d \in Clients /\ peer[d] = "live" /\ reap[d] = Nothing
           /\ queue' = [queue EXCEPT ![b0] = Tail(@)]
           /\ running'[b0] # Idle
           /\ running'[b0] = [op |-> Head(queue[b0]).op, client |-> d, handle |-> h0, ok |-> ok]
           /\ \A b \in Boards \ {b0} : running'[b] = running[b]
           /\ UNCHANGED <<attached, peer, descs, reap, held>> /\ Attached' = Attached
  <1> DEFINE blk == Head(queue[b0])
             d   == blk.client
             r   == [op |-> blk.op, client |-> d, handle |-> h0, ok |-> ok]
  <1>1. queue' = [queue EXCEPT ![b0] = Tail(@)] /\ running' = [running EXCEPT ![b0] = r]
        /\ UNCHANGED <<attached, peer, descs, reap, held>>
    BY DEF Took
  <1>2. blk = queue[b0][1] /\ 1 \in DOMAIN queue[b0] /\ blk \in Block
    BY <1>1, PopFacts, QueueFacts
  <1>3. d \in Clients /\ r \in Result
    BY <1>2 DEF Block, Result
  <1>4. Asks(d, b0)
    BY <1>2 DEF Asks
  <1>5. peer[d] = "live" /\ reap[d] = Nothing
    BY <1>3, <1>4 DEF LeavesQuietly, ReapListUnused
  <1>6. running'[b0] = r /\ \A b \in Boards \ {b0} : running'[b] = running[b]
    BY <1>1 DEF TypeOK
  <1>7. r # Idle
    BY <1>3, SentinelAssumption
  <1>8. QED
    BY <1>1, <1>2, <1>3, <1>5, <1>6, <1>7 DEF Attached

(* The entries a request leaves alone when it is taken off its queue.      *)
LEMMA TookFrame ==
  ASSUME TypeOK, TypeOK', LeavesQuietly, ReapListUnused, Ledger,
         NEW b0 \in Boards, queue[b0] # <<>>, Head(queue[b0]).op # "reap",
         running[b0] = Idle,
         NEW h0 \in Slots \cup {0}, NEW ok \in BOOLEAN, Took(b0, Head(queue[b0]), h0, ok),
         NEW c \in Clients, NEW b \in Boards, NEW h \in Slots,
         Mine(c, b, h) => Mine(c, b, h)',
         ~(/\ ok /\ Head(queue[b0]).op = "open" /\ h0 # 0
           /\ c = Head(queue[b0]).client /\ b = b0 /\ h = h0)
  PROVE  Entry(c, b, h)'
  <1> DEFINE d == Head(queue[b0]).client
  <1>1. /\ queue' = [queue EXCEPT ![b0] = Tail(@)]
        /\ running'[b0] # Idle
        /\ running'[b0] = [op |-> Head(queue[b0]).op, client |-> d, handle |-> h0, ok |-> ok]
        /\ \A b1 \in Boards \ {b0} : running'[b1] = running[b1]
        /\ UNCHANGED <<attached, peer, descs, reap, held>>
    BY TookFacts
  <1>2. Entry(c, b, h)
    BY DEF Ledger
  <1>3. (CloseWaits(c, b, h)' => CloseWaits(c, b, h)) /\ CloseOnce(c, b, h)'
    BY <1>1, <1>2, ClosePop DEF Entry
  <1>4. Closing(c, b, h) => Closing(c, b, h)'
    <2>1. CASE b = b0
      BY <2>1 DEF Closing
    <2>2. CASE b # b0
      BY <2>2, <1>1 DEF Closing
    <2>3. QED
      BY <2>1, <2>2
  <1>5. BeingTracked(c, b, h)' => BeingTracked(c, b, h)
    <2>1. CASE b = b0
      BY <2>1, <1>1, SlotFacts DEF BeingTracked
    <2>2. CASE b # b0
      BY <2>2, <1>1 DEF BeingTracked
    <2>3. QED
      BY <2>1, <2>2
  <1>6. QED
    BY <1>1, <1>2, <1>3, <1>4, <1>5, EntryFrame

(* Lasting speaks of connections, tables and queues only.                  *)
LEMMA LastingPop ==
  ASSUME TypeOK, Lasting, NEW b0 \in Boards, queue[b0] # <<>>,
         queue' = [queue EXCEPT ![b0] = Tail(@)],
         \A b \in Boards : conn'[b] \in Attached' \cup {None},
         \A a \in Adapters, h \in Slots : table'[a][h] # Free => table'[a][h].fate # "exited"
  PROVE  Lasting'
  <1>1. \A b \in Boards : \A k \in DOMAIN queue'[b] :
          /\ Before(b0, b, k) \in DOMAIN queue[b]
          /\ queue'[b][k] = queue[b][Before(b0, b, k)]
    BY PopFacts
  <1>2. \A b \in Boards : \A k \in DOMAIN queue'[b] :
          queue'[b][k].op = "close" => queue'[b][k].handle \in Slots
    BY <1>1 DEF Lasting
  <1>3. QED
    BY <1>2 DEF Lasting

(* The driver's answer: an open finds a slot nobody has, a close gives     *)
(* back the closer's own.                                                  *)
LEMMA CallKeepsLedger ==
  ASSUME TypeOK, TypeOK', LeavesQuietly, ReapListUnused, Ledger,
         NEW b0 \in Boards, Call(b0)
  PROVE  Ledger'
  <1> DEFINE blk == Head(queue[b0])
  <1>1. PICK a, d : a = Reached(b0) /\ d = blk.client
    OBVIOUS
  <1>2. PICK h0 \in Slots \cup {0} : DriverCall(a, blk, b0, h0) /\ Took(b0, blk, h0, TRUE)
    BY <1>1 DEF Call
  <1>3. /\ queue[b0] # <<>> /\ blk.op # "reap" /\ running[b0] = Idle
        /\ conn' = [conn EXCEPT ![b0] = a] /\ a # None
    BY <1>1 DEF Call
  <1>4. /\ blk = queue[b0][1] /\ 1 \in DOMAIN queue[b0] /\ blk \in Block
        /\ d \in Clients /\ peer[d] = "live" /\ reap[d] = Nothing
        /\ queue' = [queue EXCEPT ![b0] = Tail(@)]
        /\ running'[b0] # Idle
        /\ running'[b0] = [op |-> blk.op, client |-> d, handle |-> h0, ok |-> TRUE]
        /\ \A b \in Boards \ {b0} : running'[b] = running[b]
        /\ UNCHANGED <<attached, peer, descs, reap, held>> /\ Attached' = Attached
    BY <1>1, <1>2, <1>3, TookFacts
  <1>5. a \in Attached /\ a \in Adapters
    BY <1>1, <1>3, ResolvesToAttached
  <1>6. conn'[b0] = a /\ \A b \in Boards \ {b0} : conn'[b] = conn[b]
    BY <1>3 DEF TypeOK
  <1>7. \A b \in Boards : conn[b] \in Attached => conn'[b] = conn[b]
    <2>1. conn[b0] \in Attached => a = conn[b0]
      <3>1. None \notin Attached
        BY ResolvesToAttached, BrokerAssumption
      <3>2. QED
        BY <3>1, <1>1 DEF Connection, Reached
    <2>2. QED
      BY <2>1, <1>6
  <1>8. \A b \in Boards : conn'[b] \in Attached' \cup {None}
    BY <1>4, <1>5, <1>6 DEF Ledger, Lasting
  <1>9. CASE blk.op = "open" /\ h0 # 0
    <2>1. /\ h0 \in Slots /\ table[a][h0] = Free
          /\ table' = [table EXCEPT ![a][h0] = Opened(d, b0)]
      BY <1>1, <1>2, <1>9, SlotFacts DEF DriverCall, Allocates
    <2>2. /\ table'[a][h0] = Opened(d, b0)
          /\ \A a1 \in Adapters, h1 \in Slots :
               ~(a1 = a /\ h1 = h0) => table'[a1][h1] = table[a1][h1]
      BY <2>1, <1>5 DEF TypeOK
    <2>3. Lasting'
      <3>1. \A a1 \in Adapters, h1 \in Slots : table'[a1][h1] # Free => table'[a1][h1].fate # "exited"
        BY <2>2 DEF Ledger, Lasting, Opened
      <3>2. QED
        BY <3>1, <1>3, <1>4, <1>8, LastingPop DEF Ledger
    <2>4. \A c \in Clients, b \in Boards, h \in Slots : Mine(c, b, h) => Mine(c, b, h)'
      <3> SUFFICES ASSUME NEW c \in Clients, NEW b \in Boards, NEW h \in Slots, Mine(c, b, h)
                   PROVE  Mine(c, b, h)'
        OBVIOUS
      <3>1. conn[b] \in Adapters /\ conn[b] \in Attached
        BY MineIsOpen DEF Ledger, Mine
      <3>2. ~(conn[b] = a /\ h = h0)
        BY <2>1 DEF Mine
      <3>3. table'[conn[b]][h] = table[conn[b]][h] /\ conn'[b] = conn[b]
        BY <3>1, <3>2, <2>2, <1>7
      <3>4. QED
        BY <3>3, <1>4, MineKept
    <2>5. Entry(d, b0, h0)'
      <3>1. ~Mine(d, b0, h0)
        <4>1. Mine(d, b0, h0) => Reached(b0) = conn[b0]
          BY <1>4, <2>1, MineIsOpen DEF Ledger
        <4>2. QED
          BY <4>1, <2>1, <1>1 DEF Mine
      <3>2. ~Closing(d, b0, h0) /\ Entry(d, b0, h0)
        BY <1>3, <1>4, <2>1 DEF Closing, Ledger
      <3>3. /\ descs[d][<<b0, h0>>] = 0 /\ reap[d][<<b0, h0>>] = 0
            /\ ~CloseWaits(d, b0, h0) /\ CloseOnce(d, b0, h0) /\ <<b0, h0>> \notin held[d]
        BY <3>1, <3>2 DEF Entry
      <3>4. ~CloseWaits(d, b0, h0)' /\ CloseOnce(d, b0, h0)'
        BY <3>3, <1>3, <1>4, <2>1, ClosePop
      <3>5. Mine(d, b0, h0)'
        <4>1. Opened(d, b0) \in Owner
          BY <1>4 DEF Owner, Opened
        <4>2. table'[a][h0] # Free
          BY <4>1, <2>2, SentinelAssumption
        <4>3. QED
          BY <4>2, <2>2, <1>4, <1>5, <1>6 DEF Mine, Opened
      <3>6. QED
        BY <3>3, <3>4, <3>5, <1>4 DEF Entry
    <2>6. ASSUME NEW c \in Clients, NEW b \in Boards, NEW h \in Slots
          PROVE  Entry(c, b, h)'
      <3>1. CASE c = d /\ b = b0 /\ h = h0
        BY <2>5, <3>1
      <3>2. CASE ~(c = d /\ b = b0 /\ h = h0)
        BY <3>2, <2>4, <1>1, <1>2, <1>3, TookFrame
      <3>3. QED
        BY <3>1, <3>2
    <2>7. QED
      BY <2>3, <2>6 DEF Ledger
  <1>10. CASE blk.op = "close"
    <2>1. h0 = blk.handle /\ table' = [table EXCEPT ![a] = Release(@, h0)] /\ h0 \in Slots
      BY <1>2, <1>4, <1>10 DEF DriverCall, Ledger, Lasting
    <2>2. CloseAt(d, b0, h0, 1) /\ Entry(d, b0, h0) /\ CloseWaits(d, b0, h0)
      BY <2>1, <1>1, <1>4, <1>10 DEF CloseAt, CloseWaits, Ledger
    <2>3. /\ Mine(d, b0, h0) /\ descs[d][<<b0, h0>>] = 1 /\ <<b0, h0>> \notin held[d]
          /\ CloseOnce(d, b0, h0)
      BY <2>2 DEF Entry
    <2>4. a = conn[b0] /\ conn' = conn
      <3>1. a = conn[b0]
        BY <2>1, <2>3, <1>4, <1>1, MineIsOpen DEF Ledger
      <3>2. QED
        BY <3>1, <1>3 DEF TypeOK
    <2>5. Lasting'
      <3>1. table[a] \in [Slots -> Owner \cup {Free}]
        BY <1>5 DEF TypeOK
      <3>2. \A h1 \in Slots : Release(table[a], h0)[h1] \in {table[a][h1], Free}
        BY <3>1, <2>1, ReleaseFacts
      <3>3. \A a1 \in Adapters, h1 \in Slots : table'[a1][h1] \in {table[a1][h1], Free}
        BY <3>2, <2>1, <1>5 DEF TypeOK
      <3>4. \A a1 \in Adapters, h1 \in Slots : table'[a1][h1] # Free => table'[a1][h1].fate # "exited"
        BY <3>3 DEF Ledger, Lasting
      <3>5. QED
        BY <3>4, <1>3, <1>4, <1>8, LastingPop DEF Ledger
    <2>6. ASSUME NEW c \in Clients, NEW b \in Boards, NEW h \in Slots,
                 ~(c = d /\ b = b0 /\ h = h0)
          PROVE  Entry(c, b, h)'
      <3>1. \A a1 \in Adapters, h1 \in Slots :
              ~(a1 = conn[b0] /\ h1 = h0) => table'[a1][h1] = table[a1][h1]
        <4>1. /\ conn[b0] \in Adapters
              /\ table'[conn[b0]] = Release(table[conn[b0]], h0)
              /\ \A a1 \in Adapters : a1 # conn[b0] => table'[a1] = table[a1]
          BY <2>1, <2>4, <1>5 DEF TypeOK
        <4>2. QED
          BY <4>1, <2>1, <1>4, OneSlotTouched
      <3>2. Mine(c, b, h) => Mine(c, b, h)'
        BY <3>1, <2>1, <2>3, <2>4, <2>6, <1>4, OthersKept DEF Ledger
      <3>3. QED
        BY <3>2, <2>6, <1>1, <1>2, <1>3, TookFrame
    <2>7. Entry(d, b0, h0)'
      <3>1. ~CloseWaits(d, b0, h0)' /\ CloseOnce(d, b0, h0)'
        BY <2>1, <2>2, <2>3, <1>3, <1>4, ClosePop
      <3>2. Closing(d, b0, h0)' /\ ~BeingTracked(d, b0, h0)'
        BY <1>4, <1>10 DEF Closing, BeingTracked
      <3>3. reap[d][<<b0, h0>>] = 0
        BY <1>4, <2>1 DEF Nothing
      <3>4. QED
        BY <3>1, <3>2, <3>3, <2>3, <1>4 DEF Entry
    <2>8. QED
      BY <2>5, <2>6, <2>7 DEF Ledger
  <1>11. CASE ~(blk.op = "open" /\ h0 # 0) /\ blk.op # "close"
    <2>1. table' = table
      BY <1>2, <1>11 DEF DriverCall
    <2>2. Lasting'
      BY <2>1, <1>3, <1>4, <1>8, LastingPop DEF Ledger, Lasting
    <2>3. ASSUME NEW c \in Clients, NEW b \in Boards, NEW h \in Slots
          PROVE  Entry(c, b, h)'
      <3>1. Mine(c, b, h) => Mine(c, b, h)'
        BY <2>1, <1>4, <1>7, MineKept DEF Mine
      <3>2. QED
        BY <3>1, <1>2, <1>3, <1>11, TookFrame
    <2>4. QED
      BY <2>2, <2>3 DEF Ledger
  <1>12. QED
    BY <1>9, <1>10, <1>11

(* A request that fails, and one the broker answers itself.                *)
LEMMA AnswerKeepsLedger ==
  ASSUME TypeOK, TypeOK', LeavesQuietly, ReapListUnused, Ledger,
         NEW b0 \in Boards, CallFails(b0) \/ Answer(b0)
  PROVE  Ledger'
  <1> DEFINE blk == Head(queue[b0])
  <1>1. /\ queue[b0] # <<>> /\ blk.op # "reap" /\ running[b0] = Idle
        /\ table' = table
    BY DEF CallFails, Answer
  <1>2. PICK h0 \in Slots \cup {0}, ok \in BOOLEAN :
          Took(b0, blk, h0, ok) /\ ~(ok /\ blk.op = "open")
    <2>1. blk.handle \in Slots \cup {0}
      BY <1>1, QueueFacts DEF Block
    <2>2. CASE CallFails(b0)
      BY <2>1, <2>2 DEF CallFails
    <2>3. CASE Answer(b0)
      BY <2>3 DEF Answer
    <2>4. QED
      BY <2>2, <2>3
  <1>3. /\ queue' = [queue EXCEPT ![b0] = Tail(@)] /\ Attached' = Attached
    BY <1>1, <1>2, TookFacts
  <1>4. /\ \A b \in Boards \ {b0} : conn'[b] = conn[b]
        /\ conn[b0] \in Attached => conn'[b0] = conn[b0]
        /\ conn'[b0] \in Attached \cup {None}
    <2>1. None \notin Attached /\ Service(b0) \in Attached \cup {None}
      BY ResolvesToAttached, BrokerAssumption
    <2>2. \A b \in Boards \ {b0} : conn'[b] = conn[b]
      BY DEF CallFails, Answer, TypeOK
    <2>3. CASE CallFails(b0)
      <3>1. \/ conn[b0] \notin Attached /\ conn'[b0] = None
            \/ Reached(b0) # None /\ conn'[b0] = Reached(b0)
        BY <2>3 DEF CallFails, TypeOK
      <3>2. conn[b0] \in Attached => Reached(b0) = conn[b0]
        BY <2>1 DEF Reached, Connection
      <3>3. Reached(b0) \in Attached \cup {None}
        BY ResolvesToAttached
      <3>4. QED
        BY <2>2, <3>1, <3>2, <3>3
    <2>4. CASE Answer(b0)
      <3>1. conn'[b0] \in {conn[b0], Connection(b0)}
        BY <2>4 DEF Answer, TypeOK
      <3>2. conn[b0] \in Attached => Connection(b0) = conn[b0]
        BY <2>1 DEF Connection
      <3>3. conn[b0] \in Attached \cup {None} /\ Connection(b0) \in Attached \cup {None}
        BY <2>1 DEF Connection, Ledger, Lasting
      <3>4. QED
        BY <2>2, <3>1, <3>2, <3>3
    <2>5. QED
      BY <2>3, <2>4
  <1>5. Lasting'
    <2>1. \A b \in Boards : conn'[b] \in Attached' \cup {None}
      BY <1>3, <1>4 DEF Ledger, Lasting
    <2>2. QED
      BY <2>1, <1>1, <1>3, LastingPop DEF Ledger, Lasting
  <1>6. ASSUME NEW c \in Clients, NEW b \in Boards, NEW h \in Slots
        PROVE  Entry(c, b, h)'
    <2>1. Mine(c, b, h) => Mine(c, b, h)'
      BY <1>1, <1>3, <1>4, MineKept DEF Mine
    <2>2. QED
      BY <2>1, <1>1, <1>2, TookFrame
  <1>7. QED
    BY <1>5, <1>6 DEF Ledger

(* The reply: the entry an open adds, the entry a close crosses off.       *)
LEMMA ReplyKeepsLedger ==
  ASSUME TypeOK, TypeOK', LeavesQuietly, Books, Ledger,
         NEW b0 \in Boards, running[b0] # Idle, Reply(b0, running[b0])
  PROVE  Ledger'
  <1>1. PICK r : r = running[b0]
    OBVIOUS
  <1>2. PICK d, h0 : d = r.client /\ h0 = r.handle
    OBVIOUS
  <1>3. /\ r \in Result /\ d \in Clients /\ h0 \in Slots \cup {0} /\ r # Idle
        /\ running'[b0] = Idle /\ \A b \in Boards \ {b0} : running'[b] = running[b]
    BY <1>1, <1>2 DEF TypeOK, Result, Reply
  <1>4. /\ queue' = queue
        /\ UNCHANGED <<table, conn, peer, reap>> /\ Attached' = Attached
    BY DEF Reply, Attached
  <1>5. peer[d] = "live"
    BY <1>1, <1>2, <1>3 DEF LeavesQuietly, Asks
  <1>6. Lasting'
    BY <1>4 DEF Ledger, Lasting
  <1>7. ASSUME NEW c \in Clients, NEW b \in Boards, NEW h \in Slots
        PROVE  /\ Entry(c, b, h)
               /\ Mine(c, b, h)' <=> Mine(c, b, h)
               /\ CloseWaits(c, b, h)' <=> CloseWaits(c, b, h)
               /\ CloseOnce(c, b, h)'
               /\ BeingTracked(c, b, h)' => BeingTracked(c, b, h)
               /\ b = b0 => ~BeingTracked(c, b, h)' /\ ~Closing(c, b, h)'
               /\ b # b0 => (Closing(c, b, h)' <=> Closing(c, b, h))
    <2>1. Entry(c, b, h)
      BY DEF Ledger
    <2>2. Mine(c, b, h)' <=> Mine(c, b, h)
      BY <1>4 DEF Mine
    <2>3. (CloseWaits(c, b, h)' <=> CloseWaits(c, b, h)) /\ CloseOnce(c, b, h)'
      BY <1>4, <2>1, CloseStay DEF Entry
    <2>4. b = b0 => ~BeingTracked(c, b, h)' /\ ~Closing(c, b, h)'
      BY <1>3 DEF BeingTracked, Closing
    <2>5. b # b0 => /\ BeingTracked(c, b, h)' <=> BeingTracked(c, b, h)
                    /\ Closing(c, b, h)' <=> Closing(c, b, h)
      BY <1>3 DEF BeingTracked, Closing
    <2>6. QED
      BY <2>1, <2>2, <2>3, <2>4, <2>5
  <1>8. CASE r.ok /\ r.op = "open" /\ h0 # 0
    <2>1. /\ h0 \in Slots
          /\ descs' = [descs EXCEPT ![d] = Add(@, <<b0, h0>>)]
          /\ held' = [held EXCEPT ![d] = @ \cup {<<b0, h0>>}]
      BY <1>1, <1>2, <1>3, <1>5, <1>8 DEF Reply
    <2>2. BeingTracked(d, b0, h0)
      BY <1>1, <1>2, <1>3, <1>8 DEF BeingTracked
    <2>3. Entry(d, b0, h0)'
      <3>1. Mine(d, b0, h0) /\ descs[d][<<b0, h0>>] = 0 /\ ~CloseWaits(d, b0, h0)
        BY <1>3, <1>7, <2>1, <2>2 DEF Entry
      <3>2. descs[d] \in [Boards \X Slots -> Nat]
        BY <1>3 DEF TypeOK
      <3>3. descs'[d][<<b0, h0>>] = 1
        BY <1>3, <2>1, <3>1, <3>2 DEF Add, TypeOK
      <3>4. /\ ~BeingTracked(d, b0, h0)' /\ CloseOnce(d, b0, h0)'
            /\ ~CloseWaits(d, b0, h0)' /\ Mine(d, b0, h0)'
        BY <1>3, <1>7, <2>1, <3>1
      <3>5. reap'[d][<<b0, h0>>] \in {0, 1}
        BY <1>3, <1>4, <1>7, <2>1 DEF Entry
      <3>6. QED
        BY <3>3, <3>4, <3>5, <1>4, <1>5 DEF Entry
    <2>4. ASSUME NEW c \in Clients, NEW b \in Boards, NEW h \in Slots,
                 ~(c = d /\ b = b0 /\ h = h0)
          PROVE  Entry(c, b, h)'
      <3>1. descs'[c][<<b, h>>] = descs[c][<<b, h>>]
        <4>1. descs[c] \in [Boards \X Slots -> Nat]
          BY DEF TypeOK
        <4>2. QED
          BY <2>1, <2>4, <4>1, <1>3 DEF Add, TypeOK
      <3>2. <<b, h>> \in held'[c] => <<b, h>> \in held[c]
        BY <2>1, <2>4, <1>3 DEF TypeOK
      <3>3. b = b0 => ~Closing(c, b, h)
        BY <1>1, <1>8 DEF Closing
      <3>4. QED
        BY <3>1, <3>2, <3>3, <1>4, <1>7, EntryFrame
    <2>5. QED
      BY <2>3, <2>4, <1>6 DEF Ledger
  <1>9. CASE r.ok /\ r.op = "close"
    <2>1. /\ descs' = [descs EXCEPT ![d] = Drop(@, <<b0, h0>>)]
          /\ held' = held
      BY <1>1, <1>2, <1>3, <1>9 DEF Reply
    <2>2. ASSUME h0 \in Slots
          PROVE  Entry(d, b0, h0)'
      <3>1. ~Mine(d, b0, h0)
        <4>1. Mine(d, b0, h0) => conn[b0] \in Adapters /\ OpenedOn(conn[b0], h0, b0)
          BY <1>3, <2>2, MineIsOpen DEF Ledger
        <4>2. QED
          BY <4>1, <1>1, <1>2, <1>3, <1>9, <2>2 DEF Books, CloseTookEffect
      <3>2. descs[d][<<b0, h0>>] \in {0, 1} /\ reap[d][<<b0, h0>>] = 0
            /\ ~CloseWaits(d, b0, h0) /\ <<b0, h0>> \notin held[d]
        BY <1>3, <1>7, <2>2, <3>1 DEF Entry
      <3>3. descs'[d][<<b0, h0>>] = 0
        <4>1. descs[d] \in [Boards \X Slots -> Nat]
          BY <1>3 DEF TypeOK
        <4>2. QED
          BY <1>3, <2>1, <2>2, <3>2, <4>1 DEF Drop, TypeOK
      <3>4. /\ ~BeingTracked(d, b0, h0)' /\ CloseOnce(d, b0, h0)'
            /\ ~CloseWaits(d, b0, h0)'
        BY <1>3, <1>7, <2>2, <3>2
      <3>5. QED
        BY <3>2, <3>3, <3>4, <1>4, <2>1 DEF Entry
    <2>3. ASSUME NEW c \in Clients, NEW b \in Boards, NEW h \in Slots,
                 ~(c = d /\ b = b0 /\ h = h0)
          PROVE  Entry(c, b, h)'
      <3>1. descs'[c][<<b, h>>] = descs[c][<<b, h>>]
        <4>1. descs[c] \in [Boards \X Slots -> Nat]
          BY DEF TypeOK
        <4>2. QED
          BY <2>1, <2>3, <4>1, <1>3 DEF Drop, TypeOK
      <3>2. b = b0 => ~Closing(c, b, h)
        BY <1>1, <1>2, <2>3 DEF Closing
      <3>3. QED
        BY <3>1, <3>2, <2>1, <1>4, <1>7, EntryFrame
    <2>4. QED
      BY <2>2, <2>3, <1>6 DEF Ledger
  <1>10. CASE ~(r.ok /\ r.op = "open" /\ h0 # 0) /\ ~(r.ok /\ r.op = "close")
    <2>1. descs' = descs /\ held' = held
      BY <1>1, <1>2, <1>3, <1>10 DEF Reply
    <2>2. ASSUME NEW c \in Clients, NEW b \in Boards, NEW h \in Slots
          PROVE  Entry(c, b, h)'
      <3>1. b = b0 => ~Closing(c, b, h)
        BY <1>1, <1>10 DEF Closing
      <3>2. QED
        BY <3>1, <2>1, <1>4, <1>7, EntryFrame
    <2>3. QED
      BY <2>2, <1>6 DEF Ledger
  <1>11. QED
    BY <1>8, <1>9, <1>10

(* The reaper closes what its client left open, or is turned down, and     *)
(* touches nothing else.                                                   *)
LEMMA ReapCloseKeepsLedger ==
  ASSUME TypeOK, TypeOK', ReapBlocks, NoStranded, Ledger, NEW b0 \in Boards,
         ReapClose(b0) \/ ReapRefused(b0)
  PROVE  Ledger'
  <1>1. PICK blk, d, h0 : blk = Head(queue[b0]) /\ d = blk.client /\ h0 = blk.handle
    OBVIOUS
  <1>2. /\ queue[b0] # <<>> /\ queue' = [queue EXCEPT ![b0] = Tail(@)]
        /\ running[b0] = Idle /\ blk.op = "reap"
        /\ UNCHANGED <<running, descs, held>> /\ Attached' = Attached
        /\ peer' = [peer EXCEPT ![d] = "reaping"]
        /\ reap' = [reap EXCEPT ![d] = Drop(@, <<b0, h0>>)]
    BY <1>1 DEF ReapClose, ReapRefused, ReapRuns, Attached
  <1>3. blk = queue[b0][1] /\ 1 \in DOMAIN queue[b0] /\ d \in Clients
    BY <1>1, <1>2, PopFacts, QueueFacts DEF Block
  <1>4. peer[d] = "waiting" /\ h0 \in Slots /\ reap[d][<<b0, h0>>] > 0
    <2>1. Reaps(d, b0, 1)
      BY <1>1, <1>2, <1>3 DEF Reaps
    <2>2. QED
      BY <1>1, <1>3, <2>1 DEF ReapBlocks
  <1>5. Entry(d, b0, h0)
    BY <1>3, <1>4 DEF Ledger
  <1>6. reap[d][<<b0, h0>>] = 1 /\ Mine(d, b0, h0)
    <2>1. reap[d][<<b0, h0>>] = 1
      BY <1>4, <1>5 DEF Entry
    <2>2. QED
      BY <1>5, <2>1 DEF Entry
  <1>7. Connection(b0) = conn[b0] /\ conn[b0] \in Attached /\ conn[b0] \in Adapters
    BY <1>3, <1>4, <1>6, MineIsOpen DEF Ledger, Mine
  <1>8. /\ conn' = conn
        /\ \/ table' = [table EXCEPT ![conn[b0]] = Release(@, h0)]
           \/ table' = [table EXCEPT ![conn[b0]] = Spare(@, h0, d, b0)]
    <2>1. conn[b0] # None
      BY <1>7, BrokerAssumption
    <2>2. QED
      BY <2>1, <1>1, <1>7 DEF ReapClose, ReapRefused, TypeOK
  <1>9. /\ table'[conn[b0]] \in {Release(table[conn[b0]], h0), Spare(table[conn[b0]], h0, d, b0)}
         /\ \A a1 \in Adapters : a1 # conn[b0] => table'[a1] = table[a1]
    BY <1>7, <1>8 DEF TypeOK
  <1>10. \A a1 \in Adapters, h1 \in Slots :
           ~(a1 = conn[b0] /\ h1 = h0) => table'[a1][h1] = table[a1][h1]
    <2>1. CASE table'[conn[b0]] = Release(table[conn[b0]], h0)
      BY <2>1, <1>3, <1>4, <1>7, <1>9, OneSlotTouched
    <2>2. CASE table'[conn[b0]] = Spare(table[conn[b0]], h0, d, b0)
      BY <2>2, <1>3, <1>4, <1>7, <1>9, OneSlotTouched
    <2>3. QED
      BY <1>9, <2>1, <2>2
  <1>11. Lasting'
    <2>1. /\ table'[conn[b0]] \in {Release(table[conn[b0]], h0), Spare(table[conn[b0]], h0, d, b0)}
          /\ \A a1 \in Adapters, h1 \in Slots :
               ~(a1 = conn[b0] /\ h1 = h0) => table'[a1][h1] = table[a1][h1]
      BY <1>9, <1>10
    <2>2. table[conn[b0]] \in [Slots -> Owner \cup {Free}]
      BY <1>7 DEF TypeOK
    <2>3. table'[conn[b0]][h0] # Free => table'[conn[b0]][h0].fate # "exited"
      <3>1. CASE table'[conn[b0]] = Release(table[conn[b0]], h0)
        BY <3>1, <2>2, <1>4, ReleaseFacts
      <3>2. CASE table'[conn[b0]] = Spare(table[conn[b0]], h0, d, b0)
        <4>1. \/ table'[conn[b0]][h0] = table[conn[b0]][h0]
              \/ /\ table'[conn[b0]][h0] = [table[conn[b0]][h0] EXCEPT !.fate = "refused"]
                 /\ table[conn[b0]][h0] # Free
          BY <3>2, <2>2, <1>4, SpareFacts
        <4>2. table[conn[b0]][h0] # Free => table[conn[b0]][h0] \in Owner
          BY <2>2, <1>4
        <4>3. table[conn[b0]][h0] # Free => table[conn[b0]][h0].fate # "exited"
          BY <1>4, <1>7 DEF Ledger, Lasting
        <4>4. CASE table'[conn[b0]][h0] = table[conn[b0]][h0]
          BY <4>3, <4>4
        <4>5. CASE table'[conn[b0]][h0] = [table[conn[b0]][h0] EXCEPT !.fate = "refused"]
                   /\ table[conn[b0]][h0] # Free
          BY <4>2, <4>5 DEF Owner
        <4>6. QED
          BY <4>1, <4>4, <4>5
      <3>3. QED
        BY <2>1, <3>1, <3>2
    <2>4. \A a1 \in Adapters, h1 \in Slots : table'[a1][h1] # Free => table'[a1][h1].fate # "exited"
      BY <2>1, <2>3 DEF Ledger, Lasting
    <2>5. QED
      BY <2>4, <1>2, <1>8, LastingPop DEF Ledger, Lasting
  <1>12. ASSUME NEW c \in Clients, NEW b \in Boards, NEW h \in Slots
         PROVE  /\ Entry(c, b, h)
                /\ CloseWaits(c, b, h)' => CloseWaits(c, b, h)
                /\ CloseOnce(c, b, h)'
                /\ BeingTracked(c, b, h)' <=> BeingTracked(c, b, h)
                /\ Closing(c, b, h)' <=> Closing(c, b, h)
                /\ peer[c] = "live" => peer'[c] = peer[c]
    <2>1. Entry(c, b, h)
      BY DEF Ledger
    <2>2. (CloseWaits(c, b, h)' => CloseWaits(c, b, h)) /\ CloseOnce(c, b, h)'
      BY <2>1, <1>2, ClosePop DEF Entry
    <2>3. /\ BeingTracked(c, b, h)' <=> BeingTracked(c, b, h)
          /\ Closing(c, b, h)' <=> Closing(c, b, h)
      BY <1>2 DEF BeingTracked, Closing
    <2>4. peer[c] = "live" => peer'[c] = peer[c]
      BY <1>2, <1>4 DEF TypeOK
    <2>5. QED
      BY <2>1, <2>2, <2>3, <2>4
  <1>13. ASSUME NEW c \in Clients, NEW b \in Boards, NEW h \in Slots,
                ~(c = d /\ b = b0 /\ h = h0)
         PROVE  Entry(c, b, h)'
    <2>1. Mine(c, b, h) => Mine(c, b, h)'
      BY <1>2, <1>3, <1>4, <1>6, <1>8, <1>13, <1>10, OthersKept DEF Ledger
    <2>2. reap'[c][<<b, h>>] = reap[c][<<b, h>>]
      <3>1. reap[c] \in [Boards \X Slots -> Nat]
        BY DEF TypeOK
      <3>2. QED
        BY <3>1, <1>2, <1>3, <1>13 DEF Drop, TypeOK
    <2>3. <<b, h>> \in held'[c] => <<b, h>> \in held[c] /\ peer'[c] = peer[c]
      BY <1>2, <1>12 DEF Entry
    <2>4. QED
      BY <2>1, <2>2, <2>3, <1>2, <1>12, EntryFrame
  <1>14. Entry(d, b0, h0)'
    <2>1. descs[d][<<b0, h0>>] = 0
      BY <1>3, <1>4 DEF NoStranded, Nothing
    <2>2. reap'[d][<<b0, h0>>] = 0
      <3>1. reap[d] \in [Boards \X Slots -> Nat]
        BY <1>3 DEF TypeOK
      <3>2. QED
        BY <3>1, <1>2, <1>3, <1>4, <1>6 DEF Drop, TypeOK
    <2>3. ~CloseWaits(d, b0, h0)' /\ CloseOnce(d, b0, h0)' /\ ~BeingTracked(d, b0, h0)'
      <3>1. ~CloseWaits(d, b0, h0)
        BY <1>5, <2>1 DEF Entry
      <3>2. QED
        BY <3>1, <1>2, <1>3, <1>4, <1>12 DEF BeingTracked
    <2>4. <<b0, h0>> \notin held'[d]
      BY <1>2, <1>4, <1>5 DEF Entry
    <2>5. QED
      BY <2>1, <2>2, <2>3, <2>4, <1>2 DEF Entry
  <1>15. QED
    BY <1>11, <1>13, <1>14 DEF Ledger

(* What a client leaves behind goes to the reaper as it is.                *)
LEMMA ReapBeginKeepsLedger ==
  ASSUME TypeOK, TypeOK', LeavesQuietly, Ledger, NEW d \in Clients, ReapBegin(d)
  PROVE  Ledger'
  <1>1. /\ UNCHANGED <<table, conn, queue, running, held>> /\ Attached' = Attached
        /\ peer[d] = "gone"
        /\ \A c \in Clients \ {d} : peer'[c] = peer[c] /\ descs'[c] = descs[c] /\ reap'[c] = reap[c]
        /\ reap'[d] = descs[d] /\ descs'[d] = Nothing
    BY DEF ReapBegin, TypeOK, Attached
  <1>2. Lasting'
    BY <1>1 DEF Ledger, Lasting
  <1>3. ASSUME NEW c \in Clients, NEW b \in Boards, NEW h \in Slots
        PROVE  /\ Entry(c, b, h)
               /\ Mine(c, b, h)' <=> Mine(c, b, h)
               /\ CloseWaits(c, b, h)' <=> CloseWaits(c, b, h)
               /\ CloseOnce(c, b, h)'
               /\ BeingTracked(c, b, h)' <=> BeingTracked(c, b, h)
               /\ Closing(c, b, h)' <=> Closing(c, b, h)
    <2>1. Entry(c, b, h)
      BY DEF Ledger
    <2>2. (CloseWaits(c, b, h)' <=> CloseWaits(c, b, h)) /\ CloseOnce(c, b, h)'
      BY <1>1, <2>1, CloseStay DEF Entry
    <2>3. QED
      BY <1>1, <2>1, <2>2 DEF Mine, BeingTracked, Closing
  <1>4. ASSUME NEW c \in Clients, NEW b \in Boards, NEW h \in Slots
        PROVE  Entry(c, b, h)'
    <2>1. CASE c # d
      BY <1>1, <1>3, <2>1, EntryFrame
    <2>2. CASE c = d
      <3>1. ~Asks(d, b)
        BY <1>1 DEF LeavesQuietly
      <3>2. ~Closing(d, b, h) /\ ~BeingTracked(d, b, h)
        BY <3>1 DEF Asks, Closing, BeingTracked
      <3>3. ~CloseWaits(d, b, h)
        BY <3>1 DEF Asks, CloseWaits, CloseAt
      <3>4. <<b, h>> \notin held[d]
        BY <1>1, <1>3, <2>2 DEF Entry
      <3>5. /\ descs[d][<<b, h>>] \in {0, 1}
            /\ descs[d][<<b, h>>] = 1 => Mine(d, b, h)
        BY <1>3, <2>2, <3>2 DEF Entry
      <3>6. descs'[d][<<b, h>>] = 0
        BY <1>1 DEF Nothing
      <3>7. QED
        BY <1>1, <1>3, <2>2, <3>2, <3>3, <3>4, <3>5, <3>6 DEF Entry
    <2>3. QED
      BY <2>1, <2>2
  <1>5. QED
    BY <1>2, <1>4 DEF Ledger

(* Steps of the session, of the adapters and of nobody, that leave the     *)
(* lists and the slots alone.                                              *)
LEMMA OtherStepKeepsLedger ==
  ASSUME TypeOK, TypeOK', Ledger,
         UNCHANGED <<table, conn, running, descs, reap>>, Attached \subseteq Attached',
         queue' = queue \/ \E b0 \in Boards, x \in Block : Enqueue(b0, x) /\ x.op = "reap",
         \A c \in Clients : /\ held'[c] \subseteq held[c]
                            /\ peer[c] = "live" => peer'[c] = peer[c] \/ held'[c] = {}
  PROVE  Ledger'
  <1>1. \A b \in Boards : \A k \in DOMAIN queue'[b] :
          \/ k \in DOMAIN queue[b] /\ queue'[b][k] = queue[b][k]
          \/ queue'[b][k].op = "reap"
    BY PushFacts
  <1>2. Lasting'
    <2>1. \A b \in Boards : \A k \in DOMAIN queue'[b] :
            queue'[b][k].op = "close" => queue'[b][k].handle \in Slots
      BY <1>1 DEF Ledger, Lasting
    <2>2. QED
      BY <2>1 DEF Ledger, Lasting
  <1>3. ASSUME NEW c \in Clients, NEW b \in Boards, NEW h \in Slots
        PROVE  Entry(c, b, h)'
    <2>1. Entry(c, b, h)
      BY DEF Ledger
    <2>2. Mine(c, b, h) => Mine(c, b, h)'
      BY MineKept
    <2>3. /\ Closing(c, b, h)' <=> Closing(c, b, h)
          /\ BeingTracked(c, b, h)' <=> BeingTracked(c, b, h)
      BY DEF Closing, BeingTracked
    <2>4. (CloseWaits(c, b, h)' => CloseWaits(c, b, h)) /\ CloseOnce(c, b, h)'
      <3>1. CASE queue' = queue
        BY <2>1, <3>1, CloseStay DEF Entry
      <3>2. ASSUME NEW b0 \in Boards, NEW x \in Block, Enqueue(b0, x), x.op = "reap"
            PROVE  (CloseWaits(c, b, h)' => CloseWaits(c, b, h)) /\ CloseOnce(c, b, h)'
        BY <2>1, <3>2, ClosePush DEF Entry
      <3>3. QED
        BY <3>1, <3>2
    <2>5. <<b, h>> \in held'[c] => <<b, h>> \in held[c] /\ peer'[c] = peer[c]
      BY <2>1 DEF Entry
    <2>6. QED
      BY <2>1, <2>2, <2>3, <2>4, <2>5, EntryFrame
  <1>4. QED
    BY <1>2, <1>3 DEF Ledger
-----------------------------------------------------------------------------
(* Each step keeps every entry right; one lemma above per kind of step.    *)
LEMMA LedgerStep ==
  ASSUME Faults \subseteq {"plug"}
  PROVE  /\ TypeOK /\ TypeOK' /\ Books /\ ReapBlocks /\ LeavesQuietly /\ NoStranded /\ Ledger
         /\ [Next]_vars
         => Ledger'
  <1> SUFFICES ASSUME TypeOK, TypeOK', Books, ReapBlocks, LeavesQuietly, NoStranded, Ledger,
                      [Next]_vars
               PROVE  Ledger'
    OBVIOUS
  <1>1. ReapListUnused
    BY DEF Books
  <1>2. ASSUME NEW d \in Clients, Die(d) \/ ReapNext(d) \/ ReapEnd(d)
        PROVE  Ledger'
    <2>1. /\ UNCHANGED <<table, conn, running, descs, reap>> /\ Attached' = Attached
          /\ \A c \in Clients : /\ held'[c] \subseteq held[c]
                                /\ peer[c] = "live" => peer'[c] = peer[c] \/ held'[c] = {}
      BY <1>2 DEF Die, ReapNext, ReapEnd, TypeOK, Attached
    <2>2. queue' = queue \/ \E b0 \in Boards, x \in Block : Enqueue(b0, x) /\ x.op = "reap"
      <3>1. CASE ReapNext(d)
        <4>1. PICK b0 \in Boards, h0 \in Slots :
                Enqueue(b0, [op |-> "reap", client |-> d, handle |-> h0])
          BY <3>1 DEF ReapNext
        <4>2. [op |-> "reap", client |-> d, handle |-> h0] \in Block
          BY DEF Block
        <4>3. QED
          BY <4>1, <4>2
      <3>2. CASE Die(d) \/ ReapEnd(d)
        BY <3>2 DEF Die, ReapEnd
      <3>3. QED
        BY <1>2, <3>1, <3>2
    <2>3. QED
      BY <2>1, <2>2, OtherStepKeepsLedger
  <1>3. ASSUME NEW a \in Adapters, NEW k \in 1 .. Len(attached) + 1, Plug(a, k)
        PROVE  Ledger'
    <2>1. UNCHANGED <<table, conn, queue, running, peer, descs, reap, held>>
      BY <1>3 DEF Plug
    <2>2. Attached \subseteq Attached'
      BY <1>3, PlugAttached
    <2>3. QED
      BY <2>1, <2>2, OtherStepKeepsLedger
  <1>4. CASE UNCHANGED vars
    BY <1>4, OtherStepKeepsLedger DEF vars, Attached
  <1>5. ASSUME \/ \E k \in DOMAIN attached : Unplug(k)
               \/ Restart
        PROVE  FALSE
    BY <1>5 DEF Unplug, Restart, Fault
  <1>6. QED
    BY <1>1, <1>2, <1>3, <1>4, <1>5, SubmitKeepsLedger, CallKeepsLedger, AnswerKeepsLedger,
       ReplyKeepsLedger, ReapCloseKeepsLedger, ReapBeginKeepsLedger
    DEF Next, Finish, FinishWait

(* So the ledger is right as long as clients leave between requests and no *)
(* adapter is pulled.                                                      *)
LEMMA LedgerInvariant ==
  ASSUME ~KilledMidCall, Faults \subseteq {"plug"}
  PROVE  Spec => []Ledger
  <1>1. Init => Ledger
    <2> SUFFICES ASSUME Init
                 PROVE  Ledger
      OBVIOUS
    <2>1. Lasting
      BY DEF Init, Lasting, EmptyTable
    <2>2. ASSUME NEW c \in Clients, NEW b \in Boards, NEW h \in Slots
          PROVE  Entry(c, b, h)
      <3>1. ~Closing(c, b, h) /\ ~BeingTracked(c, b, h)
        BY DEF Init, Closing, BeingTracked
      <3>2. ~CloseWaits(c, b, h) /\ CloseOnce(c, b, h)
        BY DEF Init, CloseWaits, CloseOnce
      <3>3. QED
        BY <3>1, <3>2 DEF Init, Nothing, Entry
    <2>3. QED
      BY <2>1, <2>2 DEF Ledger
  <1>2. /\ TypeOK /\ TypeOK' /\ Books /\ ReapBlocks /\ LeavesQuietly /\ NoStranded /\ Ledger
        /\ [Next]_vars
        => Ledger'
    BY LedgerStep
  <1>3. QED
    BY <1>1, <1>2, BrokerTypeCorrect, BooksInvariant, ReapBlocksInvariant,
       LeavesQuietlyInvariant, NoStrandedInvariant, PTL
    DEF Spec

(* A client that is connected holds what it was told it holds: the handle  *)
(* it would name next leads to a slot it opened itself -- as long as       *)
(* clients leave between requests and no adapter is pulled; others may be  *)
(* plugged in and shift the registry order.                                *)
THEOREM HandlesAreOnesOwn ==
  ASSUME ~KilledMidCall, Faults \subseteq {"plug"}
  PROVE  Spec => []HeldIsOwned
  <1>1. TypeOK /\ Ledger => HeldIsOwned
    <2> SUFFICES ASSUME TypeOK, Ledger, NEW c \in Clients, NEW e \in held[c]
                 PROVE  /\ conn[e[1]] \in Attached
                        /\ IsOpen(table[conn[e[1]]], e[2])
                        /\ table[conn[e[1]]][e[2]].client = c
      BY DEF HeldIsOwned
    <2>1. PICK b \in Boards, h \in Slots : e = <<b, h>>
      BY DEF TypeOK
    <2>2. Mine(c, b, h)
      BY <2>1 DEF Ledger, Entry
    <2>3. QED
      BY <2>1, <2>2 DEF Mine, IsOpen
  <1>2. QED
    BY <1>1, LedgerInvariant, BrokerTypeCorrect, PTL
-----------------------------------------------------------------------------
(* With adapters that stay, a board's connection, once open, is to the     *)
(* adapter that has the board's index.                                     *)
Settled == attached = Plugged /\ \A b \in Boards : conn[b] \in {None, Service(b)}

(* Whatever board a request is for, it reaches the board's own adapter, or *)
(* there is none; two boards have different ones.                          *)
LEMMA SettledFacts ==
  ASSUME TypeOK, Settled, NEW b \in Boards
  PROVE  /\ Connection(b) = Service(b) /\ Reached(b) = Service(b)
         /\ Service(b) \in Adapters \cup {None}
         /\ \A b1 \in Boards : Service(b1) = Service(b) /\ Service(b) # None => b1 = b
  <1>1. Connection(b) = Service(b) /\ Reached(b) = Service(b)
    BY DEF Settled, Connection, Reached
  <1>2. Service(b) \in Adapters \cup {None}
    BY ResolvesToAttached
  <1>3. ASSUME NEW b1 \in Boards, Service(b1) = Service(b), Service(b) # None
        PROVE  b1 = b
    <2>1. DOMAIN attached = 1 .. Len(Plugged) /\ attached = Plugged
      BY BrokerAssumption, LenProperties DEF Settled
    <2>2. None \notin Attached
      BY ResolvesToAttached, BrokerAssumption
    <2>3. /\ b + 1 \in DOMAIN attached /\ Service(b) = attached[b + 1]
          /\ b1 + 1 \in DOMAIN attached /\ Service(b1) = attached[b1 + 1]
      BY <1>3, <2>2 DEF Service
    <2>4. b + 1 = b1 + 1
      BY <1>3, <2>1, <2>3, BrokerAssumption
    <2>5. b \in Nat /\ b1 \in Nat
      BY BrokerAssumption
    <2>6. QED
      BY <2>4, <2>5
  <1>4. QED
    BY <1>1, <1>2, <1>3

(* Only an adapter plugged or unplugged would move another.                *)
LEMMA SettledStep ==
  ASSUME Faults \subseteq {"restart"}
  PROVE  TypeOK /\ Settled /\ [Next]_vars => Settled'
  <1> SUFFICES ASSUME TypeOK, Settled, [Next]_vars
               PROVE  Settled'
    OBVIOUS
  <1>1. ~Fault("unplug") /\ ~Fault("plug")
    BY DEF Fault
  <1>2. attached' = attached
    BY <1>1 DEF Next, Submit, Call, CallFails, Answer, Took, Finish, FinishWait, Reply,
                ReapClose, ReapRefused, ReapRuns, Die, ReapBegin, ReapNext, ReapEnd, Unplug, Plug, Restart, vars
  <1>3. \A b \in Boards : Service(b)' = Service(b)
    BY <1>2 DEF Service
  <1>4. ASSUME NEW b0 \in Boards, \/ Call(b0) \/ CallFails(b0) \/ Answer(b0)
                                  \/ ReapClose(b0) \/ ReapRefused(b0)
        PROVE  \A b \in Boards : conn'[b] \in {None, Service(b)}
    <2>1. Connection(b0) = Service(b0) /\ Reached(b0) = Service(b0)
      BY SettledFacts
    <2>2. conn'[b0] \in {None, conn[b0], Service(b0)}
      BY <1>4, <2>1 DEF Call, CallFails, Answer, ReapClose, ReapRefused, TypeOK
    <2>3. \A b \in Boards \ {b0} : conn'[b] = conn[b]
      BY <1>4 DEF Call, CallFails, Answer, ReapClose, ReapRefused, TypeOK
    <2>4. QED
      BY <2>2, <2>3 DEF Settled
  <1>5. CASE \/ \E d \in Clients, b \in Boards, op \in AllOps, h \in Slots \cup {0} :
                  Submit(d, b, op, h)
             \/ \E b \in Boards : Finish(b) \/ FinishWait(b)
             \/ \E d \in Clients : Die(d) \/ ReapBegin(d) \/ ReapNext(d) \/ ReapEnd(d)
             \/ UNCHANGED vars
    <2>1. conn' = conn
      BY <1>5 DEF Submit, Finish, FinishWait, Reply, Die, ReapBegin, ReapNext, ReapEnd, vars
    <2>2. QED
      BY <1>2, <1>3, <2>1 DEF Settled
  <1>6. \A k \in DOMAIN attached : ~Unplug(k)
    BY <1>1 DEF Unplug
  <1>7. \A a \in Adapters, k \in 1 .. Len(attached) + 1 : ~Plug(a, k)
    BY <1>1 DEF Plug
  <1>8. CASE Restart
    BY <1>2, <1>3, <1>8 DEF Restart, Settled
  <1>9. QED
    BY <1>2, <1>3, <1>4, <1>5, <1>6, <1>7, <1>8 DEF Next, Settled

(* So without replugs the registry order is the one of the start.          *)
LEMMA SettledInvariant ==
  ASSUME Faults \subseteq {"restart"}
  PROVE  Spec => []Settled
  <1>1. Init => Settled
    BY DEF Init, Settled
  <1>2. TypeOK /\ Settled /\ [Next]_vars => Settled'
    BY SettledStep
  <1>3. QED
    BY <1>1, <1>2, BrokerTypeCorrect, PTL DEF Spec

(* gpibd.c:18-20: as long as no adapter is plugged in or unplugged, two    *)
(* board queues never drive one adapter, though the broker be restarted    *)
(* and clients be killed at any moment.  A replug is what breaks it.       *)
THEOREM QueuesShareNoAdapter ==
  ASSUME Faults \subseteq {"restart"}
  PROVE  Spec => []OneQueuePerAdapter
  <1>1. TypeOK /\ Settled => OneQueuePerAdapter
    <2> SUFFICES ASSUME TypeOK, Settled, NEW b1 \in Boards, NEW b2 \in Boards,
                        conn[b1] = conn[b2], conn[b1] # None
                 PROVE  b1 = b2
      BY DEF OneQueuePerAdapter
    <2>1. conn[b1] = Service(b1) /\ conn[b2] = Service(b2)
      BY DEF Settled
    <2>2. QED
      BY <2>1, SettledFacts
  <1>2. QED
    BY <1>1, SettledInvariant, BrokerTypeCorrect, PTL
-----------------------------------------------------------------------------
(* The abstract state: who is connected, and whose each descriptor is.     *)
Present == {c \in Clients : peer[c] = "live"}
Owners  == [e \in Boards \X Slots |-> OwnerOf(e)]

(* A slot that is c's on board b is c's for the clients to see.            *)
LEMMA MineIsOwned ==
  ASSUME TypeOK, Settled, NEW c \in Clients, NEW b \in Boards, NEW h \in Slots, Mine(c, b, h)
  PROVE  conn[b] = Service(b) /\ Service(b) # None /\ Owners[<<b, h>>] = c
  <1>1. None \notin Attached
    BY ResolvesToAttached, BrokerAssumption
  <1>2. conn[b] = Service(b) /\ Service(b) # None
    BY <1>1 DEF Settled, Mine
  <1>3. OwnerOf(<<b, h>>) = c
    BY <1>2 DEF OwnerOf, Mine
  <1>4. QED
    BY <1>2, <1>3 DEF Owners

(* One slot of one board's adapter changes hands: one descriptor does.     *)
LEMMA OneSlotOneDescriptor ==
  ASSUME TypeOK, TypeOK', Settled, attached' = attached,
         NEW b0 \in Boards, NEW h0 \in Slots, Service(b0) # None,
         \A a \in Adapters, h \in Slots :
           ~(a = Service(b0) /\ h = h0) => table'[a][h] = table[a][h],
         NEW o, o = OwnerOf(<<b0, h0>>)'
  PROVE  Owners' = [Owners EXCEPT ![<<b0, h0>>] = o]
  <1>1. \A b \in Boards : Service(b)' = Service(b)
    BY DEF Service
  <1>2. ASSUME NEW b \in Boards, NEW h \in Slots, ~(b = b0 /\ h = h0)
        PROVE  OwnerOf(<<b, h>>)' = OwnerOf(<<b, h>>)
    <2>1. CASE Service(b) = None
      BY <1>1, <2>1 DEF OwnerOf
    <2>2. CASE Service(b) # None
      <3>1. Service(b) \in Adapters /\ ~(Service(b) = Service(b0) /\ h = h0)
        BY <1>2, <2>2, SettledFacts
      <3>2. table'[Service(b)][h] = table[Service(b)][h]
        BY <3>1
      <3>3. QED
        BY <1>1, <3>2 DEF OwnerOf
    <2>3. QED
      BY <2>1, <2>2
  <1>3. \A e \in Boards \X Slots : Owners'[e] = IF e = <<b0, h0>> THEN o ELSE Owners[e]
    <2> SUFFICES ASSUME NEW b \in Boards, NEW h \in Slots
                 PROVE  OwnerOf(<<b, h>>)' = IF <<b, h>> = <<b0, h0>> THEN o ELSE OwnerOf(<<b, h>>)
      BY DEF Owners
    <2>1. QED
      BY <1>2
  <1>4. QED
    BY <1>3 DEF Owners

(* Where no slot and no adapter changes, no descriptor changes its owner.  *)
LEMMA SameOwners ==
  ASSUME attached' = attached, table' = table
  PROVE  Owners' = Owners
  <1>1. \A e \in Boards \X Slots : OwnerOf(e)' = OwnerOf(e)
    BY DEF OwnerOf, Service
  <1>2. QED
    BY <1>1 DEF Owners

(* Clients that are connected remain so, nobody else connects.             *)
LEMMA SamePresent ==
  ASSUME TypeOK, TypeOK', \A c \in Clients : peer'[c] = "live" <=> peer[c] = "live"
  PROVE  Present' = Present
  BY DEF Present

(* The abstract steps.                                                     *)
Opens(c, e) ==
    /\ c \in Present /\ Owners[e] = None
    /\ Owners' = [Owners EXCEPT ![e] = c] /\ Present' = Present /\ held' = held
Learns(c, e) ==
    /\ c \in Present /\ Owners[e] = c
    /\ held' = [held EXCEPT ![c] = @ \cup {e}] /\ Present' = Present /\ Owners' = Owners
LetsGo(c, e) ==
    /\ e \in held[c]
    /\ held' = [held EXCEPT ![c] = @ \ {e}] /\ Present' = Present /\ Owners' = Owners
Closes(c, e) ==
    /\ c \in Present /\ Owners[e] = c /\ e \notin held[c]
    /\ Owners' = [Owners EXCEPT ![e] = None] /\ Present' = Present /\ held' = held
GivesBack(c, e) ==
    /\ c \notin Present /\ Owners[e] = c
    /\ Owners' = [Owners EXCEPT ![e] = None] /\ Present' = Present /\ held' = held
Leaves(c) ==
    /\ c \in Present /\ Present' = Present \ {c}
    /\ held' = [held EXCEPT ![c] = {}] /\ Owners' = Owners
Stutters == Present' = Present /\ Owners' = Owners /\ held' = held

(* The driver's answer is when a descriptor changes hands, not the reply.  *)
LEMMA CallRefines ==
  ASSUME TypeOK, TypeOK', LeavesQuietly, ReapListUnused, Ledger, Settled,
         NEW b0 \in Boards, Call(b0)
  PROVE  \/ \E c \in Clients, e \in Boards \X Slots : Opens(c, e) \/ Closes(c, e)
         \/ Stutters
  <1>1. PICK a, blk, d : a = Reached(b0) /\ blk = Head(queue[b0]) /\ d = blk.client
    OBVIOUS
  <1>2. PICK h0 \in Slots \cup {0} : DriverCall(a, blk, b0, h0) /\ Took(b0, blk, h0, TRUE)
    BY <1>1 DEF Call
  <1>3. queue[b0] # <<>> /\ blk.op # "reap" /\ running[b0] = Idle /\ a # None
    BY <1>1 DEF Call
  <1>4. /\ blk = queue[b0][1] /\ 1 \in DOMAIN queue[b0] /\ blk \in Block
        /\ d \in Clients /\ peer[d] = "live" /\ UNCHANGED <<attached, peer>>
    BY <1>1, <1>2, <1>3, TookFacts
  <1>5. a = Service(b0) /\ a \in Adapters /\ Service(b0)' = a
    BY <1>1, <1>3, <1>4, SettledFacts DEF Service
  <1>6. Present' = Present /\ d \in Present /\ held' = held
    BY <1>2, <1>4 DEF Present, Took
  <1>7. CASE blk.op = "open" /\ h0 # 0
    <2>1. /\ h0 \in Slots /\ table[a][h0] = Free
          /\ table' = [table EXCEPT ![a][h0] = Opened(d, b0)]
      BY <1>1, <1>2, <1>7, SlotFacts DEF DriverCall, Allocates
    <2>2. /\ table'[a][h0] = Opened(d, b0)
          /\ \A a1 \in Adapters, h1 \in Slots :
               ~(a1 = a /\ h1 = h0) => table'[a1][h1] = table[a1][h1]
      BY <2>1, <1>5 DEF TypeOK
    <2>3. OwnerOf(<<b0, h0>>)' = d
      <3>1. Opened(d, b0) \in Owner
        BY <1>4 DEF Owner, Opened
      <3>2. table'[a][h0] \in Owner /\ table'[a][h0].client = d
        BY <3>1, <2>2 DEF Opened
      <3>3. QED
        BY <3>2, <1>3, <1>5, SentinelAssumption DEF OwnerOf
    <2>4. Owners' = [Owners EXCEPT ![<<b0, h0>>] = d]
      BY <2>1, <2>2, <2>3, <1>3, <1>4, <1>5, OneSlotOneDescriptor
    <2>5. Owners[<<b0, h0>>] = None
      BY <2>1, <1>5 DEF Owners, OwnerOf
    <2>6. QED
      BY <2>1, <2>4, <2>5, <1>4, <1>6 DEF Opens
  <1>8. CASE blk.op = "close"
    <2>1. h0 = blk.handle /\ table' = [table EXCEPT ![a] = Release(@, h0)] /\ h0 \in Slots
      BY <1>2, <1>4, <1>8 DEF DriverCall, Ledger, Lasting
    <2>2. CloseWaits(d, b0, h0) /\ Entry(d, b0, h0)
      BY <2>1, <1>1, <1>4, <1>8 DEF CloseAt, CloseWaits, Ledger
    <2>3. Mine(d, b0, h0)
      BY <2>2 DEF Entry
    <2>4. Owners[<<b0, h0>>] = d /\ <<b0, h0>> \notin held[d]
      BY <2>1, <2>2, <2>3, <1>4, MineIsOwned DEF Entry
    <2>5. table[a] \in [Slots -> Owner \cup {Free}] /\ table'[a] = Release(table[a], h0)
      BY <2>1, <1>5 DEF TypeOK
    <2>6. /\ table'[a][h0] = Free
          /\ \A h1 \in Slots : h1 # h0 => table'[a][h1] = table[a][h1]
      BY <2>1, <2>5 DEF Release, IsOpen
    <2>7. \A a1 \in Adapters, h1 \in Slots :
            ~(a1 = a /\ h1 = h0) => table'[a1][h1] = table[a1][h1]
      BY <2>1, <2>6, <1>5 DEF TypeOK
    <2>8. OwnerOf(<<b0, h0>>)' = None
      BY <2>6, <1>5 DEF OwnerOf
    <2>9. Owners' = [Owners EXCEPT ![<<b0, h0>>] = None]
      BY <2>1, <2>7, <2>8, <1>3, <1>4, <1>5, OneSlotOneDescriptor
    <2>10. QED
      BY <2>1, <2>4, <2>9, <1>4, <1>6 DEF Closes
  <1>9. CASE ~(blk.op = "open" /\ h0 # 0) /\ blk.op # "close"
    <2>1. table' = table
      BY <1>2, <1>9 DEF DriverCall
    <2>2. QED
      BY <2>1, <1>4, <1>6, SameOwners DEF Stutters
  <1>10. QED
    BY <1>7, <1>8, <1>9

(* The reaper gives back what its client left open.                        *)
LEMMA ReapCloseRefines ==
  ASSUME TypeOK, TypeOK', ReapBlocks, Ledger, Settled, NEW b0 \in Boards, ReapClose(b0)
  PROVE  \E c \in Clients, e \in Boards \X Slots : GivesBack(c, e)
  <1>1. PICK a, blk, d, h0 : /\ a = Service(b0) /\ blk = Head(queue[b0])
                             /\ d = blk.client /\ h0 = blk.handle
    OBVIOUS
  <1>2. /\ queue[b0] # <<>> /\ queue' = [queue EXCEPT ![b0] = Tail(@)]
        /\ blk.op = "reap" /\ attached' = attached
        /\ peer' = [peer EXCEPT ![d] = "reaping"] /\ held' = held
    BY <1>1 DEF ReapClose, ReapRuns
  <1>3. blk = queue[b0][1] /\ 1 \in DOMAIN queue[b0] /\ d \in Clients
    BY <1>1, <1>2, PopFacts, QueueFacts DEF Block
  <1>4. peer[d] = "waiting" /\ h0 \in Slots /\ reap[d][<<b0, h0>>] > 0
    <2>1. Reaps(d, b0, 1)
      BY <1>1, <1>2, <1>3 DEF Reaps
    <2>2. QED
      BY <1>1, <1>3, <2>1 DEF ReapBlocks
  <1>5. Mine(d, b0, h0)
    <2>1. Entry(d, b0, h0)
      BY <1>3, <1>4 DEF Ledger
    <2>2. reap[d][<<b0, h0>>] = 1
      BY <2>1, <1>4 DEF Entry
    <2>3. QED
      BY <2>1, <2>2 DEF Entry
  <1>6. conn[b0] = a /\ a # None /\ Owners[<<b0, h0>>] = d /\ a \in Attached /\ a \in Adapters
    BY <1>1, <1>3, <1>4, <1>5, MineIsOwned, SettledFacts DEF Mine
  <1>7. table' = [table EXCEPT ![a] = Release(@, h0)] /\ Service(b0)' = a
    BY <1>1, <1>2, <1>6 DEF ReapClose, Connection, Service
  <1>8. table[a] \in [Slots -> Owner \cup {Free}] /\ table'[a] = Release(table[a], h0)
    BY <1>6, <1>7 DEF TypeOK
  <1>9. table'[a][h0] = Free /\ \A h1 \in Slots : h1 # h0 => table'[a][h1] = table[a][h1]
    BY <1>4, <1>8 DEF Release, IsOpen
  <1>10. \A a1 \in Adapters, h1 \in Slots :
           ~(a1 = a /\ h1 = h0) => table'[a1][h1] = table[a1][h1]
    BY <1>6, <1>7, <1>9 DEF TypeOK
  <1>11. OwnerOf(<<b0, h0>>)' = None
    BY <1>7, <1>9 DEF OwnerOf
  <1>12. Owners' = [Owners EXCEPT ![<<b0, h0>>] = None]
    BY <1>1, <1>2, <1>4, <1>6, <1>10, <1>11, OneSlotOneDescriptor
  <1>13. Present' = Present /\ d \notin Present /\ held' = held
    BY <1>2, <1>3, <1>4 DEF Present, TypeOK
  <1>14. QED
    BY <1>3, <1>4, <1>6, <1>12, <1>13 DEF GivesBack

(* Turned down, it changes nothing that the clients could see.             *)
LEMMA ReapRefusedRefines ==
  ASSUME TypeOK, TypeOK', ReapBlocks, NEW b0 \in Boards, ReapRefused(b0)
  PROVE  Stutters
  <1>1. PICK a, blk, d, h0 : /\ a = Connection(b0) /\ blk = Head(queue[b0])
                             /\ d = blk.client /\ h0 = blk.handle
    OBVIOUS
  <1>2. /\ queue[b0] # <<>> /\ queue' = [queue EXCEPT ![b0] = Tail(@)]
        /\ blk.op = "reap" /\ attached' = attached
        /\ peer' = [peer EXCEPT ![d] = "reaping"]
    BY <1>1 DEF ReapRefused, ReapRuns
  <1>3. blk = queue[b0][1] /\ 1 \in DOMAIN queue[b0] /\ d \in Clients
    BY <1>1, <1>2, PopFacts, QueueFacts DEF Block
  <1>4. peer[d] = "waiting" /\ h0 \in Slots
    <2>1. Reaps(d, b0, 1)
      BY <1>1, <1>2, <1>3 DEF Reaps
    <2>2. QED
      BY <1>1, <1>3, <2>1 DEF ReapBlocks
  <1>5. \A a1 \in Adapters, h1 \in Slots :
          /\ table'[a1][h1] = Free <=> table[a1][h1] = Free
          /\ table[a1][h1] # Free => table'[a1][h1].client = table[a1][h1].client
    <2>1. CASE table' = table
      BY <2>1
    <2>2. CASE a \in Attached /\ table' = [table EXCEPT ![a] = Spare(@, h0, d, b0)]
      <3>1. a \in Adapters /\ table[a] \in [Slots -> Owner \cup {Free}]
        BY <2>2, ResolvesToAttached DEF TypeOK
      <3>2. table'[a] = Spare(table[a], h0, d, b0)
        BY <2>2, <3>1 DEF TypeOK
      <3>3. ASSUME NEW h1 \in Slots
            PROVE  /\ table'[a][h1] = Free <=> table[a][h1] = Free
                   /\ table[a][h1] # Free => table'[a][h1].client = table[a][h1].client
        <4>1. CASE table'[a][h1] = table[a][h1]
          BY <4>1
        <4>2. CASE /\ table[a][h1] # Free /\ table'[a][h1] \in Owner
                   /\ table'[a][h1] = [table[a][h1] EXCEPT !.fate = "refused"]
          <5>1. table[a][h1] \in Owner
            BY <3>1, <4>2
          <5>2. table'[a][h1].client = table[a][h1].client
            BY <4>2, <5>1 DEF Owner
          <5>3. QED
            BY <4>2, <5>2, SentinelAssumption
        <4>3. QED
          BY <3>1, <3>2, <4>1, <4>2, SpareFacts
      <3>4. \A a1 \in Adapters : a1 # a => table'[a1] = table[a1]
        BY <2>2, <3>1 DEF TypeOK
      <3>5. QED
        BY <3>3, <3>4
    <2>3. QED
      BY <1>1, <2>1, <2>2 DEF ReapRefused
  <1>6. ASSUME NEW b \in Boards, NEW h \in Slots
        PROVE  OwnerOf(<<b, h>>)' = OwnerOf(<<b, h>>)
    <2>1. Service(b)' = Service(b) /\ Service(b) \in Adapters \cup {None}
      BY <1>2, ResolvesToAttached DEF Service
    <2>2. CASE Service(b) = None
      BY <2>1, <2>2 DEF OwnerOf
    <2>3. CASE Service(b) # None
      <3>1. Service(b) \in Adapters
        BY <2>1, <2>3
      <3>2. /\ table'[Service(b)][h] = Free <=> table[Service(b)][h] = Free
            /\ table[Service(b)][h] # Free
                 => table'[Service(b)][h].client = table[Service(b)][h].client
        BY <3>1, <1>5
      <3>3. QED
        BY <2>1, <3>2 DEF OwnerOf
    <2>4. QED
      BY <2>2, <2>3
  <1>7. Owners' = Owners
    BY <1>6 DEF Owners
  <1>8. Present' = Present
    BY <1>2, <1>3, <1>4, SamePresent DEF TypeOK
  <1>9. QED
    BY <1>7, <1>8 DEF Stutters, ReapRefused, ReapRuns

(* A client asks to have closed what it holds, or keeps it all.            *)
LEMMA SubmitRefines ==
  ASSUME TypeOK, NEW d \in Clients, NEW b \in Boards, NEW op \in AllOps,
         NEW h \in Slots \cup {0}, Submit(d, b, op, h)
  PROVE  (\E e \in Boards \X Slots : LetsGo(d, e)) \/ Stutters
  <1>1. Owners' = Owners /\ Present' = Present
    BY SameOwners DEF Submit, Present
  <1>2. CASE op = "close"
    <2>1. <<b, h>> \in held[d] /\ held' = [held EXCEPT ![d] = @ \ {<<b, h>>}]
      BY <1>2 DEF Submit
    <2>2. <<b, h>> \in Boards \X Slots
      BY <2>1 DEF TypeOK
    <2>3. QED
      BY <1>1, <2>1, <2>2 DEF LetsGo
  <1>3. CASE op # "close"
    BY <1>1, <1>3 DEF Submit, Stutters
  <1>4. QED
    BY <1>2, <1>3

(* A client learns of the slot that was opened for it, which is its own.   *)
LEMMA ReplyRefines ==
  ASSUME TypeOK, LeavesQuietly, Ledger, Settled,
         NEW b \in Boards, running[b] # Idle, Reply(b, running[b])
  PROVE  (\E c \in Clients, e \in Boards \X Slots : Learns(c, e)) \/ Stutters
  <1>1. PICK r, c, h : r = running[b] /\ c = r.client /\ h = r.handle
    OBVIOUS
  <1>2. r \in Result /\ c \in Clients
    BY <1>1 DEF TypeOK, Result
  <1>3. Owners' = Owners /\ Present' = Present
    BY SameOwners DEF Reply, Present
  <1>4. CASE r.ok /\ r.op = "open" /\ h # 0 /\ peer[c] = "live"
    <2>1. h \in Slots
      BY <1>1, <1>2, <1>4 DEF Result
    <2>2. BeingTracked(c, b, h)
      BY <1>1, <1>4 DEF BeingTracked
    <2>3. Mine(c, b, h)
      BY <1>2, <2>1, <2>2 DEF Ledger, Entry
    <2>4. Owners[<<b, h>>] = c /\ c \in Present
      BY <1>2, <1>4, <2>1, <2>3, MineIsOwned DEF Present
    <2>5. held' = [held EXCEPT ![c] = @ \cup {<<b, h>>}]
      BY <1>1, <1>4 DEF Reply
    <2>6. QED
      BY <1>2, <1>3, <2>1, <2>4, <2>5 DEF Learns
  <1>5. CASE ~(r.ok /\ r.op = "open" /\ h # 0 /\ peer[c] = "live")
    BY <1>1, <1>3, <1>5 DEF Reply, Stutters
  <1>6. QED
    BY <1>4, <1>5

(* Every step of the broker is one of the service, or changes nothing that *)
(* the service knows of.                                                   *)
LEMMA StepRefines ==
  ASSUME Faults = {}, TypeOK, TypeOK', Books, ReapBlocks, LeavesQuietly, Ledger,
         Settled, Settled', [Next]_vars
  PROVE  \/ \E c \in Clients, e \in Boards \X Slots :
              Opens(c, e) \/ Learns(c, e) \/ LetsGo(c, e) \/ Closes(c, e) \/ GivesBack(c, e)
         \/ \E c \in Clients : Leaves(c)
         \/ Stutters
  <1>1. ReapListUnused
    BY DEF Books
  <1>2. ASSUME NEW d \in Clients, Die(d)
        PROVE  Leaves(d)
    <2>1. attached' = attached /\ table' = table /\ peer[d] = "live"
          /\ peer' = [peer EXCEPT ![d] = "gone"] /\ held' = [held EXCEPT ![d] = {}]
      BY <1>2 DEF Die
    <2>2. d \in Present /\ Present' = Present \ {d}
      BY <2>1 DEF Present, TypeOK
    <2>3. QED
      BY <2>1, <2>2, SameOwners DEF Leaves
  <1>3. CASE \/ \E b \in Boards : CallFails(b) \/ Answer(b)
             \/ UNCHANGED vars
    <2>1. UNCHANGED <<attached, table, peer, held>>
      BY <1>3 DEF CallFails, Answer, Took, vars
    <2>2. QED
      BY <2>1, SameOwners, SamePresent DEF Stutters
  <1>4. CASE \E d \in Clients : ReapBegin(d) \/ ReapNext(d) \/ ReapEnd(d)
    <2>1. UNCHANGED <<attached, table, held>>
      BY <1>4 DEF ReapBegin, ReapNext, ReapEnd
    <2>2. \A c \in Clients : peer'[c] = "live" <=> peer[c] = "live"
      BY <1>4 DEF ReapBegin, ReapNext, ReapEnd, TypeOK
    <2>3. QED
      BY <2>1, <2>2, SameOwners, SamePresent DEF Stutters
  <1>5. ASSUME \/ \E k \in DOMAIN attached : Unplug(k)
               \/ \E a \in Adapters, k \in 1 .. Len(attached) + 1 : Plug(a, k)
               \/ Restart
        PROVE  FALSE
    BY <1>5 DEF Unplug, Plug, Restart, Fault
  <1>6. CASE \E b \in Boards : Finish(b) \/ FinishWait(b)
    BY <1>6, ReplyRefines DEF Finish, FinishWait
  <1>7. CASE \E d \in Clients, b \in Boards, op \in AllOps, h \in Slots \cup {0} :
               Submit(d, b, op, h)
    BY <1>7, SubmitRefines
  <1>8. QED
    BY <1>1, <1>2, <1>3, <1>4, <1>5, <1>6, <1>7, CallRefines, ReapCloseRefines,
       ReapRefusedRefines DEF Next

(* gpibd.c:12-16: with adapters that stay and clients that leave between   *)
(* requests, whatever the broker does is what the descriptor service may   *)
(* do -- a descriptor belongs to who opened it, stays open as long as its  *)
(* owner holds on to it, and only the owner's own are given back when it   *)
(* has left.  That they are in the end is LeaversAreReaped.        *)
THEOREM BrokerIsDescriptorService ==
  ASSUME ~KilledMidCall, Faults = {}
  PROVE  Spec => ImplementsService
  <1>1. Init => Promise!Init
    <2> SUFFICES ASSUME Init
                 PROVE  Present = Clients /\ Owners = [e \in Boards \X Slots |-> None]
      BY DEF Init, Promise!Init, Present, Owners
    <2>1. Present = Clients
      BY DEF Init, Present
    <2>2. ASSUME NEW b \in Boards, NEW h \in Slots
          PROVE  OwnerOf(<<b, h>>) = None
      <3>1. Service(b) \in Adapters \cup {None}
        <4>1. Plugged \in [1 .. Len(Plugged) -> Adapters]
          BY BrokerAssumption, LenProperties
        <4>2. QED
          BY <4>1 DEF Init, Service
      <3>2. QED
        BY <3>1 DEF Init, OwnerOf, EmptyTable
    <2>3. QED
      BY <2>1, <2>2 DEF Owners
  <1>2. /\ TypeOK /\ TypeOK' /\ Books /\ ReapBlocks /\ LeavesQuietly /\ Ledger
        /\ Settled /\ Settled' /\ [Next]_vars
        => [Promise!Next]_(Promise!vars)
    <2> SUFFICES ASSUME TypeOK, TypeOK', Books, ReapBlocks, LeavesQuietly, Ledger,
                        Settled, Settled', [Next]_vars
                 PROVE  [Promise!Next]_(Promise!vars)
      OBVIOUS
    <2>1. CASE \E c \in Clients, e \in Boards \X Slots :
                 Opens(c, e) \/ Learns(c, e) \/ LetsGo(c, e) \/ Closes(c, e) \/ GivesBack(c, e)
      BY <2>1 DEF Opens, Learns, LetsGo, Closes, GivesBack, Present, Owners, Promise!Next,
                  Promise!Open, Promise!Learn, Promise!LetGo, Promise!Close, Promise!GiveBack
    <2>2. CASE \E c \in Clients : Leaves(c)
      BY <2>2 DEF Leaves, Present, Owners, Promise!Next, Promise!Leave
    <2>3. CASE Stutters
      BY <2>3 DEF Stutters, Present, Owners, Promise!vars
    <2>4. QED
      BY <2>1, <2>2, <2>3, StepRefines
  <1>3. Spec => []TypeOK /\ []Books /\ []ReapBlocks
    BY BrokerTypeCorrect, BooksInvariant, ReapBlocksInvariant, PTL
  <1>4. Spec => []Ledger
    <2>1. Faults \subseteq {"plug"}
      OBVIOUS
    <2>2. QED
      BY <2>1, LedgerInvariant
  <1>5. Spec => []Settled
    BY SettledInvariant
  <1>6. QED
    BY <1>1, <1>2, <1>3, <1>4, <1>5, LeavesQuietlyInvariant, PTL
    DEF Spec, ImplementsService, Promise!Spec
=============================================================================
