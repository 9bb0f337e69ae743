---------------------------- MODULE BrokerProofs ----------------------------
(***************************************************************************)
(* What the broker's books guarantee for any number of clients, adapters,  *)
(* boards and descriptors, and for any sequence of kills, unplugs, replugs *)
(* and restarts: the state is well typed, no descriptor in use is missing  *)
(* from the books, and every one listed can be reached over its board's    *)
(* connection.                                                             *)
(***************************************************************************)
EXTENDS Broker, SequenceTheorems, TLAPS

(* 0, "no handle", is no slot.                                             *)
LEMMA SlotFacts == Slots \subseteq Nat /\ 0 \notin Slots
  BY TableAssumption DEF Slots

(* Add and Drop keep a list of counts a list of counts.                    *)
LEMMA ListTyped ==
  ASSUME NEW l \in [Boards \X Slots -> Nat], NEW e
  PROVE  Add(l, e) \in [Boards \X Slots -> Nat] /\ Drop(l, e) \in [Boards \X Slots -> Nat]
  <1>1. CASE e \in Boards \X Slots
    <2>1. l[e] + 1 \in Nat /\ (IF l[e] = 0 THEN 0 ELSE l[e] - 1) \in Nat
      BY <1>1
    <2>2. QED
      BY <2>1 DEF Add, Drop
  <1>2. CASE e \notin Boards \X Slots
    BY <1>2 DEF Add, Drop
  <1>3. QED
    BY <1>1, <1>2

(* Releasing a handle leaves a table whose other slots are as they were.   *)
LEMMA ReleaseFacts ==
  ASSUME NEW t \in [Slots -> Owner \cup {Free}], NEW h \in Slots \cup {0}
  PROVE  /\ Release(t, h) \in [Slots -> Owner \cup {Free}]
         /\ h \in Slots => Release(t, h)[h] = Free
         /\ \A k \in Slots : Release(t, h)[k] \in {t[k], Free}
  BY SlotFacts DEF Release, IsOpen

(* Sparing one leaves every slot as it was, but for what became of its     *)
(* record.                                                                 *)
LEMMA SpareFacts ==
  ASSUME NEW t \in [Slots -> Owner \cup {Free}], NEW h, NEW c, NEW b
  PROVE  /\ Spare(t, h, c, b) \in [Slots -> Owner \cup {Free}]
         /\ \A k \in Slots :
              \/ /\ Spare(t, h, c, b)[k] = t[k]
                 /\ k = h /\ t[k] # Free => t[k] # Opened(c, b)
              \/ /\ k = h /\ t[k] # Free /\ t[k] = Opened(c, b)
                 /\ Spare(t, h, c, b)[k] = [t[k] EXCEPT !.fate = "refused"]
                 /\ Spare(t, h, c, b)[k] \in Owner
  <1>1. CASE IsOpen(t, h) /\ t[h] = Opened(c, b)
    <2>1. h \in Slots /\ t[h] # Free /\ t[h] \in Owner
      BY <1>1 DEF IsOpen
    <2>2. [t[h] EXCEPT !.fate = "refused"] \in Owner
      BY <2>1 DEF Owner
    <2>3. Spare(t, h, c, b) = [t EXCEPT ![h] = [t[h] EXCEPT !.fate = "refused"]]
      BY <1>1 DEF Spare
    <2>4. QED
      BY <1>1, <2>1, <2>2, <2>3
  <1>2. CASE ~(IsOpen(t, h) /\ t[h] = Opened(c, b))
    <2>1. Spare(t, h, c, b) = t
      BY <1>2 DEF Spare
    <2>2. \A k \in Slots : k = h /\ t[k] # Free => t[k] # Opened(c, b)
      BY <1>2 DEF IsOpen
    <2>3. QED
      BY <2>1, <2>2
  <1>3. QED
    BY <1>1, <1>2

(* Whatever board is asked for, what it resolves to is attached; what is   *)
(* reached is attached, too, or nothing is.                                *)
LEMMA ResolvesToAttached ==
  ASSUME TypeOK, NEW b \in Boards
  PROVE  /\ Attached \subseteq Adapters
         /\ Service(b) \in Attached \cup {None}
         /\ Connection(b) \in Adapters \cup {None}
         /\ Reached(b) \in Attached \cup {None}
  <1>1. Attached \subseteq Adapters
    BY DEF TypeOK, Attached
  <1>2. Service(b) \in Attached \cup {None}
    BY DEF Service, Attached
  <1>3. QED
    BY <1>1, <1>2 DEF TypeOK, Connection, Reached
-----------------------------------------------------------------------------
(* The head of a board's queue is a block and its tail a queue.            *)
LEMMA QueueFacts ==
  ASSUME TypeOK, NEW b \in Boards, queue[b] # <<>>
  PROVE  /\ Head(queue[b]) \in Block
         /\ [queue EXCEPT ![b] = Tail(@)] \in [Boards -> Seq(Block)]
  <1>1. queue[b] \in Seq(Block)
    BY DEF TypeOK
  <1>2. Head(queue[b]) \in Block /\ Tail(queue[b]) \in Seq(Block)
    BY <1>1, HeadTailProperties
  <1>3. QED
    BY <1>2 DEF TypeOK

(* Taking an adapter out of the registry order, or putting one in, leaves  *)
(* the others attached.                                                    *)
LEMMA UnplugAttached ==
  ASSUME TypeOK, NEW k \in DOMAIN attached, Unplug(k)
  PROVE  attached' \in Seq(Adapters) /\ Attached \ {attached[k]} \subseteq Attached'
  <1> DEFINE n == Len(attached) - 1
             A(j) == IF j < k THEN attached[j] ELSE attached[j + 1]
  <1>1. attached \in Seq(Adapters) /\ Len(attached) \in Nat /\ DOMAIN attached = 1 .. Len(attached)
    BY LenProperties DEF TypeOK
  <1>2. k \in 1 .. Len(attached) /\ n \in Nat
    BY <1>1
  <1>3. attached' = [j \in 1 .. n |-> A(j)]
    BY DEF Unplug
  <1>4. \A j \in 1 .. n : A(j) \in Adapters
    BY <1>1, <1>2, ElementOfSeq
  <1>5. attached' \in Seq(Adapters)
    <2> HIDE DEF n, A
    <2>1. [j \in 1 .. n |-> A(j)] \in [1 .. n -> Adapters]
      BY <1>4
    <2>2. QED
      BY <1>2, <1>3, <2>1, SeqDef
  <1>6. DOMAIN attached' = 1 .. n
    BY <1>3
  <1>7. ASSUME NEW j \in DOMAIN attached, attached[j] # attached[k]
        PROVE  attached[j] \in Attached'
    <2>1. CASE j < k
      <3>1. j \in 1 .. n /\ attached'[j] = attached[j]
        BY <2>1, <1>1, <1>2, <1>3
      <3>2. QED
        BY <3>1, <1>6 DEF Attached
    <2>2. CASE j > k
      <3>1. j - 1 \in 1 .. n /\ attached'[j - 1] = attached[j]
        BY <2>2, <1>1, <1>2, <1>3
      <3>2. QED
        BY <3>1, <1>6 DEF Attached
    <2>3. QED
      BY <2>1, <2>2, <1>1, <1>2, <1>7
  <1>8. QED
    BY <1>5, <1>7 DEF Attached

LEMMA PlugAttached ==
  ASSUME TypeOK, NEW a \in Adapters, NEW k \in 1 .. Len(attached) + 1, Plug(a, k)
  PROVE  attached' \in Seq(Adapters) /\ Attached \subseteq Attached'
  <1> DEFINE n == Len(attached) + 1
             A(j) == IF j < k THEN attached[j] ELSE IF j = k THEN a ELSE attached[j - 1]
  <1>1. attached \in Seq(Adapters) /\ Len(attached) \in Nat /\ DOMAIN attached = 1 .. Len(attached)
    BY LenProperties DEF TypeOK
  <1>2. k \in 1 .. n /\ n \in Nat
    BY <1>1
  <1>3. attached' = [j \in 1 .. n |-> A(j)]
    BY DEF Plug
  <1>4. \A j \in 1 .. n : A(j) \in Adapters
    BY <1>1, <1>2, ElementOfSeq
  <1>5. attached' \in Seq(Adapters)
    <2> HIDE DEF n, A
    <2>1. [j \in 1 .. n |-> A(j)] \in [1 .. n -> Adapters]
      BY <1>4
    <2>2. QED
      BY <1>2, <1>3, <2>1, SeqDef
  <1>6. DOMAIN attached' = 1 .. n
    BY <1>3
  <1>7. ASSUME NEW j \in DOMAIN attached
        PROVE  attached[j] \in Attached'
    <2>1. CASE j < k
      <3>1. j \in 1 .. n /\ attached'[j] = attached[j]
        BY <2>1, <1>1, <1>2, <1>3
      <3>2. QED
        BY <3>1, <1>6 DEF Attached
    <2>2. CASE j >= k
      <3>1. j + 1 \in 1 .. n /\ attached'[j + 1] = attached[j]
        BY <2>2, <1>1, <1>2, <1>3
      <3>2. QED
        BY <3>1, <1>6 DEF Attached
    <2>3. QED
      BY <2>1, <2>2, <1>1, <1>2
  <1>8. QED
    BY <1>5, <1>7 DEF Attached

(* What a client's block that is taken off a queue leaves in running.      *)
LEMMA TookTyped ==
  ASSUME TypeOK, NEW b \in Boards, queue[b] # <<>>, NEW h \in Slots \cup {0},
         NEW ok \in BOOLEAN, Took(b, Head(queue[b]), h, ok),
         Head(queue[b]).op # "reap"
  PROVE  /\ queue' \in [Boards -> Seq(Block)]
         /\ running' \in [Boards -> Result \cup {Idle}]
  <1>1. Head(queue[b]) \in Block
    BY QueueFacts
  <1>2. [op |-> Head(queue[b]).op, client |-> Head(queue[b]).client, handle |-> h, ok |-> ok]
          \in Result
    BY <1>1 DEF Block, Result
  <1>3. QED
    BY <1>2, QueueFacts DEF TypeOK, Took
-----------------------------------------------------------------------------
(* Type correctness, one step per action.                                  *)
LEMMA TypeStep == TypeOK /\ [Next]_vars => TypeOK'
  <1> SUFFICES ASSUME TypeOK, [Next]_vars
               PROVE  TypeOK'
    OBVIOUS
  <1>1. ASSUME NEW c \in Clients, NEW b \in Boards, NEW op \in AllOps,
               NEW h \in Slots \cup {0}, Submit(c, b, op, h)
        PROVE  TypeOK'
    <2>1. [op |-> op, client |-> c, handle |-> h] \in Block
      BY DEF Block
    <2>2. queue' \in [Boards -> Seq(Block)]
      BY <1>1, <2>1, AppendProperties DEF Submit, Enqueue, TypeOK
    <2>3. held' \in [Clients -> SUBSET (Boards \X Slots)]
      BY <1>1 DEF Submit, TypeOK
    <2>4. QED
      BY <1>1, <2>2, <2>3 DEF Submit, TypeOK
  <1>2. ASSUME NEW b \in Boards, Call(b)
        PROVE  TypeOK'
    <2> DEFINE blk == Head(queue[b])
               a   == Reached(b)
    <2>1. PICK h \in Slots \cup {0} : DriverCall(a, blk, b, h) /\ Took(b, blk, h, TRUE)
      BY <1>2 DEF Call
    <2>2. blk \in Block /\ queue[b] # <<>> /\ blk.op # "reap"
      BY <1>2, QueueFacts DEF Call
    <2>3. a \in Adapters
      BY <1>2, ResolvesToAttached DEF Call
    <2>4. table' \in [Adapters -> [Slots -> Owner \cup {Free}]]
      <3>1. CASE blk.op = "open" /\ h # 0
        <4>1. Opened(blk.client, b) \in Owner
          BY <2>2 DEF Block, Owner, Opened
        <4>2. table' = [table EXCEPT ![a][h] = Opened(blk.client, b)]
          BY <3>1, <2>1 DEF DriverCall
        <4>3. QED
          BY <3>1, <4>1, <4>2, <2>3 DEF TypeOK
      <3>2. CASE blk.op = "close"
        <4>1. table' = [table EXCEPT ![a] = Release(@, blk.handle)]
          BY <3>2, <2>1 DEF DriverCall
        <4>2. Release(table[a], blk.handle) \in [Slots -> Owner \cup {Free}]
          BY <2>2, <2>3, ReleaseFacts DEF Block, TypeOK
        <4>3. QED
          BY <4>1, <4>2, <2>3 DEF TypeOK
      <3>3. CASE ~(blk.op = "open" /\ h # 0) /\ blk.op # "close"
        BY <3>3, <2>1 DEF DriverCall, TypeOK
      <3>4. QED
        BY <3>1, <3>2, <3>3
    <2>5. conn' \in [Boards -> Adapters \cup {None}]
      BY <1>2, <2>3 DEF Call, TypeOK
    <2>6. QED
      BY <2>1, <2>2, <2>4, <2>5, TookTyped DEF Took, TypeOK
  <1>3. ASSUME NEW b \in Boards, CallFails(b)
        PROVE  TypeOK'
    <2>1. Head(queue[b]).handle \in Slots \cup {0}
      BY <1>3, QueueFacts DEF CallFails, Block
    <2>2. queue' \in [Boards -> Seq(Block)] /\ running' \in [Boards -> Result \cup {Idle}]
      BY <1>3, <2>1, TookTyped DEF CallFails
    <2>3. conn' \in [Boards -> Adapters \cup {None}]
      <3>1. Reached(b) \in Adapters \cup {None}
        BY ResolvesToAttached
      <3>2. QED
        BY <1>3, <3>1 DEF CallFails, TypeOK
    <2>4. QED
      BY <1>3, <2>2, <2>3 DEF CallFails, Took, TypeOK
  <1>4. ASSUME NEW b \in Boards, Answer(b)
        PROVE  TypeOK'
    <2>1. queue' \in [Boards -> Seq(Block)] /\ running' \in [Boards -> Result \cup {Idle}]
      BY <1>4, TookTyped DEF Answer
    <2>2. conn' \in [Boards -> Adapters \cup {None}]
      BY <1>4, ResolvesToAttached DEF Answer, TypeOK
    <2>3. QED
      BY <1>4, <2>1, <2>2 DEF Answer, Took, TypeOK
  <1>5. ASSUME NEW b \in Boards, running[b] # Idle, Reply(b, running[b])
        PROVE  TypeOK'
    <2> DEFINE r == running[b]
               c == r.client
               e == <<b, r.handle>>
    <2>1. r \in Result /\ c \in Clients
      BY <1>5 DEF TypeOK, Result
    <2>2. descs' \in [Clients -> [Boards \X Slots -> Nat]]
      <3>1. Add(descs[c], e) \in [Boards \X Slots -> Nat] /\ Drop(descs[c], e) \in [Boards \X Slots -> Nat]
        BY <2>1, ListTyped DEF TypeOK
      <3>2. QED
        BY <3>1, <2>1, <1>5 DEF Reply, TypeOK
    <2>3. held' \in [Clients -> SUBSET (Boards \X Slots)]
      BY <1>5, <2>1 DEF Reply, TypeOK, Result
    <2>4. running' \in [Boards -> Result \cup {Idle}]
      BY <1>5 DEF Reply, TypeOK
    <2>5. QED
      BY <1>5, <2>2, <2>3, <2>4 DEF Reply, TypeOK
  <1>6. ASSUME NEW b \in Boards, ReapClose(b) \/ ReapRefused(b)
        PROVE  TypeOK'
    <2> DEFINE blk == Head(queue[b])
               a   == Connection(b)
    <2>0. ReapRuns(b)
      BY <1>6 DEF ReapClose, ReapRefused
    <2>1. blk \in Block /\ queue' \in [Boards -> Seq(Block)]
      BY <2>0, QueueFacts DEF ReapRuns
    <2>2. blk.client \in Clients /\ blk.handle \in Slots \cup {0}
      BY <2>1 DEF Block
    <2>3. conn' \in [Boards -> Adapters \cup {None}]
      BY <1>6, ResolvesToAttached DEF ReapClose, ReapRefused, TypeOK
    <2>4. table' \in [Adapters -> [Slots -> Owner \cup {Free}]]
      <3>1. CASE a \in Attached
        <4>1. a \in Adapters /\ table[a] \in [Slots -> Owner \cup {Free}]
          BY <3>1, ResolvesToAttached DEF TypeOK
        <4>2. /\ Release(table[a], blk.handle) \in [Slots -> Owner \cup {Free}]
              /\ Spare(table[a], blk.handle, blk.client, b) \in [Slots -> Owner \cup {Free}]
          BY <4>1, <2>2, ReleaseFacts, SpareFacts
        <4>3. QED
          BY <1>6, <3>1, <4>1, <4>2 DEF ReapClose, ReapRefused, TypeOK
      <3>2. CASE a \notin Attached
        BY <1>6, <3>2 DEF ReapClose, ReapRefused, TypeOK
      <3>3. QED
        BY <3>1, <3>2
    <2>5. reap' \in [Clients -> [Boards \X Slots -> Nat]]
      <3>1. Drop(reap[blk.client], <<b, blk.handle>>) \in [Boards \X Slots -> Nat]
        BY <2>2, ListTyped DEF TypeOK
      <3>2. QED
        BY <2>0, <2>2, <3>1 DEF ReapRuns, TypeOK
    <2>6. peer' \in [Clients -> PeerStates]
      BY <2>0 DEF ReapRuns, TypeOK, PeerStates
    <2>7. QED
      BY <2>0, <2>1, <2>3, <2>4, <2>5, <2>6 DEF ReapRuns, TypeOK
  <1>7. ASSUME NEW c \in Clients, Die(c) \/ ReapBegin(c) \/ ReapEnd(c)
        PROVE  TypeOK'
    <2>1. peer' \in [Clients -> PeerStates]
      BY <1>7 DEF Die, ReapBegin, ReapEnd, PeerStates, TypeOK
    <2>2. Nothing \in [Boards \X Slots -> Nat]
      BY DEF Nothing
    <2>3. /\ descs' \in [Clients -> [Boards \X Slots -> Nat]]
          /\ reap' \in [Clients -> [Boards \X Slots -> Nat]]
      BY <1>7, <2>2 DEF Die, ReapBegin, ReapEnd, TypeOK
    <2>4. held' \in [Clients -> SUBSET (Boards \X Slots)]
      BY <1>7 DEF Die, ReapBegin, ReapEnd, TypeOK
    <2>5. QED
      BY <1>7, <2>1, <2>3, <2>4 DEF Die, ReapBegin, ReapEnd, TypeOK
  <1>8. ASSUME NEW c \in Clients, ReapNext(c)
        PROVE  TypeOK'
    <2>1. PICK b \in Boards, h \in Slots : Enqueue(b, [op |-> "reap", client |-> c, handle |-> h])
      BY <1>8 DEF ReapNext
    <2>2. [op |-> "reap", client |-> c, handle |-> h] \in Block
      BY DEF Block
    <2>3. queue' \in [Boards -> Seq(Block)]
      BY <2>1, <2>2, AppendProperties DEF Enqueue, TypeOK
    <2>4. QED
      BY <1>8, <2>3 DEF ReapNext, PeerStates, TypeOK
  <1>9. ASSUME NEW k \in DOMAIN attached, Unplug(k)
        PROVE  TypeOK'
    <2>1. attached' \in Seq(Adapters)
      BY <1>9, UnplugAttached
    <2>2. table' \in [Adapters -> [Slots -> Owner \cup {Free}]]
      BY <1>9 DEF Unplug, EmptyTable, TypeOK
    <2>3. faults' \in Nat
      BY <1>9 DEF Unplug, Fault, TypeOK
    <2>4. QED
      BY <1>9, <2>1, <2>2, <2>3 DEF Unplug, TypeOK
  <1>10. ASSUME NEW a \in Adapters, NEW k \in 1 .. Len(attached) + 1, Plug(a, k)
         PROVE  TypeOK'
    <2>1. attached' \in Seq(Adapters)
      BY <1>10, PlugAttached
    <2>2. faults' \in Nat
      BY <1>10 DEF Plug, Fault, TypeOK
    <2>3. QED
      BY <1>10, <2>1, <2>2 DEF Plug, TypeOK
  <1>11. ASSUME Restart
         PROVE  TypeOK'
    <2>1. table' \in [Adapters -> [Slots -> Owner \cup {Free}]]
      <3>1. \A o \in Owner : [o EXCEPT !.fate = "exited"] \in Owner
        BY DEF Owner
      <3>2. QED
        BY <1>11, <3>1 DEF Restart, TypeOK
    <2>2. /\ descs' \in [Clients -> [Boards \X Slots -> Nat]]
          /\ reap' \in [Clients -> [Boards \X Slots -> Nat]]
      BY <1>11 DEF Restart, Nothing
    <2>3. peer' \in [Clients -> PeerStates] /\ conn' \in [Boards -> Adapters \cup {None}]
      BY <1>11 DEF Restart, PeerStates
    <2>4. faults' \in Nat
      BY <1>11 DEF Restart, Fault, TypeOK
    <2>5. QED
      BY <1>11, <2>1, <2>2, <2>3, <2>4 DEF Restart, TypeOK
  <1>12. CASE UNCHANGED vars
    BY <1>12 DEF vars, TypeOK
  <1>13. QED
    BY <1>1, <1>2, <1>3, <1>4, <1>5, <1>6, <1>7, <1>8, <1>9, <1>10, <1>11, <1>12
    DEF Next, Finish, FinishWait

(* Every state of the broker is well typed.                                *)
THEOREM BrokerTypeCorrect == Spec => []TypeOK
  <1>1. Init => TypeOK
    BY BrokerAssumption DEF Init, TypeOK, EmptyTable, Nothing, PeerStates
  <1>2. QED
    BY <1>1, TypeStep, PTL DEF Spec
-----------------------------------------------------------------------------
(* The books cannot be shown to be kept from Accounted and RoutedHome      *)
(* alone: a close that is about to cross its handle off must find the slot *)
(* already free, and a list about to be taken must not overwrite another.  *)

(* The slot h of adapter a was opened on board b through this broker.      *)
OpenedOn(a, h, b) ==
    table[a][h] # Free /\ table[a][h].fate # "exited" /\ table[a][h].board = b

(* Such a slot can be reached, and is in its client's books unless the     *)
(* driver refused the reaper's close.                                      *)
InBooks(a, h, b) ==
    LET c == table[a][h].client IN
      /\ a \in Attached
      /\ conn[b] = a
      /\ \/ table[a][h].fate = "refused"
         \/ descs[c][<<b, h>>] > 0 \/ reap[c][<<b, h>>] > 0 \/ BeingTracked(c, b, h)

(* A handle whose close the driver has executed is not in use.             *)
CloseTookEffect ==
    \A b \in Boards :
      running[b] # Idle /\ running[b].op = "close" /\ running[b].ok
        => \A a \in Adapters, h \in Slots :
             OpenedOn(a, h, b) => h # running[b].handle

(* Nothing is on a reaper's list before the reaper has begun.              *)
ReapListUnused ==
    \A c \in Clients : peer[c] \in {"live", "gone"} => reap[c] = Nothing

Books ==
    /\ \A a \in Adapters, h \in Slots, b \in Boards : OpenedOn(a, h, b) => InBooks(a, h, b)
    /\ CloseTookEffect
    /\ ReapListUnused

(* The two invariants the broker's runs check follow.                      *)
LEMMA BooksSuffice == TypeOK /\ Books => Accounted /\ RoutedHome
  <1> SUFFICES ASSUME TypeOK, Books, NEW a \in Adapters, NEW h \in Slots,
                      table[a][h] # Free, table[a][h].fate # "exited"
               PROVE  LET o == table[a][h] IN
                        /\ a \in Attached /\ conn[o.board] = a
                        /\ o.fate = "kept" => \/ descs[o.client][<<o.board, h>>] > 0
                                             \/ reap[o.client][<<o.board, h>>] > 0
                                             \/ BeingTracked(o.client, o.board, h)
    BY DEF Accounted, RoutedHome
  <1>1. table[a][h].board \in Boards /\ OpenedOn(a, h, table[a][h].board)
    BY DEF TypeOK, Owner, OpenedOn
  <1>2. QED
    BY <1>1 DEF Books, InBooks

(* What resolving a board leads to when a slot was opened on it: home.     *)
LEMMA ConnectionLeadsHome ==
  ASSUME TypeOK, Books, NEW a \in Adapters, NEW h \in Slots, NEW b \in Boards, OpenedOn(a, h, b)
  PROVE  Connection(b) = a /\ Reached(b) = a /\ a \in Attached /\ table[a][h].client \in Clients
  <1>1. a \in Attached /\ conn[b] = a
    BY DEF Books, InBooks
  <1>2. table[a][h] \in Owner
    BY DEF OpenedOn, TypeOK
  <1>3. QED
    BY <1>1, <1>2, BrokerAssumption DEF Connection, Reached, Owner

(* A step that touches neither the table nor what the books are made of.   *)
LEMMA QuietStep ==
  ASSUME Books, UNCHANGED <<attached, table, conn, running, descs, reap>>,
         \A c \in Clients : peer'[c] \in {"live", "gone"} => peer[c] \in {"live", "gone"}
  PROVE  Books'
  <1>1. \A a, h, b : /\ OpenedOn(a, h, b)' <=> OpenedOn(a, h, b)
                     /\ InBooks(a, h, b)' <=> InBooks(a, h, b)
    BY DEF OpenedOn, InBooks, Attached, BeingTracked
  <1>2. CloseTookEffect'
    BY <1>1 DEF Books, CloseTookEffect
  <1>3. ReapListUnused'
    BY DEF Books, ReapListUnused, Nothing
  <1>4. QED
    BY <1>1, <1>2, <1>3 DEF Books

(* The driver's answer to a request that opens or closes a descriptor.     *)
LEMMA CallKeepsBooks ==
  ASSUME TypeOK, TypeOK', Books, NEW b \in Boards, Call(b)
  PROVE  Books'
  <1> DEFINE blk == Head(queue[b])
             a   == Reached(b)
  <1>1. PICK h \in Slots \cup {0} : DriverCall(a, blk, b, h) /\ Took(b, blk, h, TRUE)
    BY DEF Call
  <1>2. a \in Attached /\ a \in Adapters /\ Attached' = Attached
    BY <1>1, ResolvesToAttached DEF Call, Took, Attached
  <1>3. blk \in Block /\ blk.op # "reap" /\ running[b] = Idle
    BY QueueFacts DEF Call
  <1>4. /\ running'[b] = [op |-> blk.op, client |-> blk.client, handle |-> h, ok |-> TRUE]
        /\ running'[b] # Idle
        /\ \A b1 \in Boards \ {b} : running'[b1] = running[b1]
    <2>1. [op |-> blk.op, client |-> blk.client, handle |-> h, ok |-> TRUE] \in Result
      BY <1>3 DEF Block, Result
    <2>2. QED
      BY <1>1, <2>1, SentinelAssumption DEF Took, TypeOK
  <1>5. conn'[b] = a /\ \A b1 \in Boards \ {b} : conn'[b1] = conn[b1]
    BY DEF Call, TypeOK
  <1> DEFINE New(a1, h1, b1) == /\ blk.op = "open" /\ h # 0 /\ a1 = a /\ h1 = h /\ b1 = b
                                /\ table'[a1][h1].client = blk.client
  <1>6. ASSUME NEW a1 \in Adapters, NEW h1 \in Slots, NEW b1 \in Boards, OpenedOn(a1, h1, b1)'
        PROVE  \/ New(a1, h1, b1)
               \/ OpenedOn(a1, h1, b1) /\ table'[a1][h1] = table[a1][h1]
    <2>1. CASE blk.op = "open" /\ h # 0
      <3>1. table' = [table EXCEPT ![a][h] = Opened(blk.client, b)]
        BY <1>1, <2>1 DEF DriverCall
      <3>2. QED
        BY <1>2, <1>6, <2>1, <3>1 DEF OpenedOn, Opened, TypeOK
    <2>2. CASE blk.op = "close"
      <3>1. table' = [table EXCEPT ![a] = Release(@, blk.handle)]
        BY <1>1, <2>2 DEF DriverCall
      <3>2. table'[a1][h1] \in {table[a1][h1], Free}
        BY <1>2, <1>3, <3>1, ReleaseFacts DEF Block, TypeOK
      <3>3. QED
        BY <1>6, <3>2 DEF OpenedOn
    <2>3. CASE ~(blk.op = "open" /\ h # 0) /\ blk.op # "close"
      <3>1. table' = table
        BY <1>1, <2>3 DEF DriverCall
      <3>2. QED
        BY <1>6, <3>1 DEF OpenedOn
    <2>4. QED
      BY <2>1, <2>2, <2>3
  <1>7. ASSUME NEW a1 \in Adapters, NEW h1 \in Slots, NEW b1 \in Boards, OpenedOn(a1, h1, b1)'
        PROVE  InBooks(a1, h1, b1)'
    <2>1. CASE New(a1, h1, b1)
      BY <2>1, <1>2, <1>4, <1>5 DEF InBooks, BeingTracked
    <2>2. CASE OpenedOn(a1, h1, b1) /\ table'[a1][h1] = table[a1][h1]
      <3>1. InBooks(a1, h1, b1)
        BY <2>2 DEF Books
      <3>2. conn'[b1] = a1
        BY <2>2, <3>1, <1>5, ConnectionLeadsHome DEF InBooks
      <3>3. BeingTracked(table[a1][h1].client, b1, h1) => BeingTracked(table[a1][h1].client, b1, h1)'
        <4>1. CASE b1 = b
          BY <1>3, <4>1 DEF BeingTracked
        <4>2. CASE b1 # b
          <5>1. running'[b1] = running[b1]
            BY <1>4, <4>2
          <5>2. QED
            BY <2>2, <5>1 DEF BeingTracked
        <4>3. QED
          BY <4>1, <4>2
      <3>4. descs' = descs /\ reap' = reap
        BY <1>1 DEF Took
      <3>5. QED
        BY <2>2, <3>1, <3>2, <3>3, <3>4, <1>2 DEF InBooks, BeingTracked
    <2>3. QED
      BY <2>1, <2>2, <1>6, <1>7
  <1>8. CloseTookEffect'
    <2> SUFFICES ASSUME NEW b1 \in Boards, running'[b1] # Idle, running'[b1].op = "close",
                        running'[b1].ok, NEW a1 \in Adapters, NEW h1 \in Slots,
                        OpenedOn(a1, h1, b1)', h1 = running'[b1].handle
                 PROVE  FALSE
      BY DEF CloseTookEffect
    <2>1. CASE b1 = b
      <3>1. blk.op = "close" /\ h1 = h
        BY <1>4, <2>1
      <3>2. OpenedOn(a1, h1, b) /\ h = blk.handle
        BY <1>1, <1>6, <2>1, <3>1 DEF DriverCall
      <3>3. a1 = a
        BY <3>2, ConnectionLeadsHome
      <3>4. table'[a] = Release(table[a], h)
        BY <1>1, <1>2, <3>1, <3>2 DEF DriverCall, TypeOK
      <3>5. table'[a][h] = Free
        <4>1. table[a] \in [Slots -> Owner \cup {Free}]
          BY <1>2 DEF TypeOK
        <4>2. Release(table[a], h)[h] = Free
          BY <3>1, <4>1, ReleaseFacts
        <4>3. QED
          BY <3>4, <4>2
      <3>6. QED
        BY <3>1, <3>3, <3>5 DEF OpenedOn
    <2>2. CASE b1 # b
      BY <2>2, <1>4, <1>6 DEF Books, CloseTookEffect
    <2>3. QED
      BY <2>1, <2>2
  <1>9. ReapListUnused'
    BY <1>1 DEF Took, Books, ReapListUnused, Nothing
  <1>10. QED
    BY <1>7, <1>8, <1>9 DEF Books

(* A request that fails, and one the broker answers itself.                *)
LEMMA AnswerKeepsBooks ==
  ASSUME TypeOK, TypeOK', Books, NEW b \in Boards, CallFails(b) \/ Answer(b)
  PROVE  Books'
  <1>1. PICK h \in Slots \cup {0}, ok \in BOOLEAN :
          /\ Took(b, Head(queue[b]), h, ok)
          /\ Head(queue[b]).op # "close" \/ ~ok
    <2>1. Head(queue[b]).handle \in Slots \cup {0}
      BY QueueFacts DEF CallFails, Answer, Block
    <2>2. CASE CallFails(b)
      BY <2>1, <2>2 DEF CallFails
    <2>3. CASE Answer(b)
      BY <2>3 DEF Answer
    <2>4. QED
      BY <2>2, <2>3
  <1>2. table' = table /\ descs' = descs /\ reap' = reap /\ peer' = peer /\ Attached' = Attached
    BY <1>1 DEF CallFails, Answer, Took, Attached
  <1>3. /\ running[b] = Idle
        /\ running'[b].op = "close" => ~running'[b].ok
        /\ \A b1 \in Boards \ {b} : running'[b1] = running[b1] /\ conn'[b1] = conn[b1]
    BY <1>1 DEF CallFails, Answer, Took, TypeOK
  <1>4. conn'[b] \in {conn[b], Connection(b), Reached(b)} \/ conn[b] \notin Attached
    BY DEF CallFails, Answer, TypeOK
  <1>5. ASSUME NEW a1 \in Adapters, NEW h1 \in Slots, NEW b1 \in Boards, OpenedOn(a1, h1, b1)'
        PROVE  InBooks(a1, h1, b1)'
    <2>1. OpenedOn(a1, h1, b1) /\ InBooks(a1, h1, b1)
      BY <1>2, <1>5 DEF OpenedOn, Books
    <2>2. conn'[b1] = a1
      BY <2>1, <1>3, <1>4, ConnectionLeadsHome, BrokerAssumption DEF InBooks
    <2>3. BeingTracked(table[a1][h1].client, b1, h1) => b1 # b
      BY <1>3 DEF BeingTracked
    <2>4. b1 # b => running'[b1] = running[b1]
      BY <1>3
    <2>5. QED
      BY <2>1, <2>2, <2>3, <2>4, <1>2 DEF InBooks, BeingTracked
  <1>6. CloseTookEffect'
    BY <1>2, <1>3 DEF Books, CloseTookEffect, OpenedOn
  <1>7. ReapListUnused'
    BY <1>2 DEF Books, ReapListUnused, Nothing
  <1>8. QED
    BY <1>5, <1>6, <1>7 DEF Books

(* The entry an open adds, and the entry a close crosses off.              *)
LEMMA ReplyKeepsBooks ==
  ASSUME TypeOK, TypeOK', Books, NEW b \in Boards, running[b] # Idle, Reply(b, running[b])
  PROVE  Books'
  <1> DEFINE r == running[b]
             e == <<b, r.handle>>
  <1>1. r \in Result /\ r.client \in Clients
    BY DEF TypeOK, Result
  <1>2. table' = table /\ conn' = conn /\ reap' = reap /\ peer' = peer /\ Attached' = Attached
    BY DEF Reply, Attached
  <1>3. running'[b] = Idle /\ \A b1 \in Boards \ {b} : running'[b1] = running[b1]
    BY DEF Reply, TypeOK
  <1>4. ASSUME NEW a1 \in Adapters, NEW h1 \in Slots, NEW b1 \in Boards, OpenedOn(a1, h1, b1)'
        PROVE  InBooks(a1, h1, b1)'
    <2> DEFINE c  == table[a1][h1].client
               e1 == <<b1, h1>>
    <2>1. OpenedOn(a1, h1, b1) /\ InBooks(a1, h1, b1) /\ c \in Clients
      BY <1>2, <1>4, ConnectionLeadsHome DEF OpenedOn, Books
    <2>2. e1 \in Boards \X Slots /\ descs[c] \in [Boards \X Slots -> Nat]
      BY <2>1 DEF TypeOK
    <2>3. CASE BeingTracked(c, b1, h1) /\ b1 = b
      <3>1. descs' = [descs EXCEPT ![c] = Add(@, e1)]
        BY <2>3, SlotFacts DEF BeingTracked, Reply
      <3>2. descs'[c][e1] = descs[c][e1] + 1
        BY <3>1, <2>1, <2>2 DEF Add, TypeOK
      <3>3. QED
        BY <3>2, <2>1, <2>2, <1>2 DEF InBooks
    <2>4. CASE BeingTracked(c, b1, h1) /\ b1 # b
      BY <2>1, <2>4, <1>2, <1>3 DEF InBooks, BeingTracked
    <2>5. CASE descs[c][e1] > 0
      <3>1. CASE r.ok /\ r.op = "open" /\ r.handle # 0
        <4>1. descs' = [descs EXCEPT ![r.client] = Add(@, e)]
          BY <3>1 DEF Reply
        <4>2. descs'[c][e1] \in {descs[c][e1], descs[c][e1] + 1}
          BY <4>1, <1>1, <2>1, <2>2 DEF Add, TypeOK
        <4>3. descs'[c][e1] > 0
          BY <4>2, <2>2, <2>5
        <4>4. QED
          BY <4>3, <2>1, <1>2 DEF InBooks
      <3>2. CASE r.ok /\ r.op = "close"
        <4>1. e1 # e
          BY <3>2, <2>1 DEF Books, CloseTookEffect
        <4>2. descs' = [descs EXCEPT ![r.client] = Drop(@, e)]
          BY <3>2 DEF Reply
        <4>3. descs'[c][e1] = descs[c][e1]
          BY <4>1, <4>2, <1>1, <2>1, <2>2 DEF Drop, TypeOK
        <4>4. QED
          BY <4>3, <2>1, <2>5, <1>2 DEF InBooks
      <3>3. CASE ~(r.ok /\ r.op = "open" /\ r.handle # 0) /\ ~(r.ok /\ r.op = "close")
        <4>1. descs' = descs
          BY <3>3 DEF Reply
        <4>2. QED
          BY <4>1, <2>1, <2>5, <1>2 DEF InBooks
      <3>4. QED
        BY <3>1, <3>2, <3>3
    <2>6. CASE reap[c][e1] > 0 \/ table[a1][h1].fate = "refused"
      BY <2>1, <2>6, <1>2 DEF InBooks
    <2>7. QED
      BY <2>1, <2>3, <2>4, <2>5, <2>6 DEF InBooks
  <1>5. CloseTookEffect'
    BY <1>2, <1>3 DEF Books, CloseTookEffect, OpenedOn
  <1>6. ReapListUnused'
    BY <1>2 DEF Books, ReapListUnused, Nothing
  <1>7. QED
    BY <1>4, <1>5, <1>6 DEF Books

(* The reaper's close: the entry it drops was of a slot it has released,   *)
(* or was refused.                                                         *)
LEMMA ReapCloseKeepsBooks ==
  ASSUME TypeOK, TypeOK', Books, NEW b \in Boards, ReapClose(b) \/ ReapRefused(b)
  PROVE  Books'
  <1> DEFINE blk == Head(queue[b])
             a   == Connection(b)
             d   == blk.client
             e   == <<b, blk.handle>>
  <1>0. ReapRuns(b)
    BY DEF ReapClose, ReapRefused
  <1>1. d \in Clients /\ blk.handle \in Slots \cup {0}
    BY <1>0, QueueFacts DEF ReapRuns, Block
  <1>2. /\ running' = running /\ descs' = descs /\ Attached' = Attached
        /\ peer' = [peer EXCEPT ![d] = "reaping"]
        /\ reap' = [reap EXCEPT ![d] = Drop(@, e)]
    BY <1>0 DEF ReapRuns, Attached
  <1> DEFINE Spared(a1, h1) == /\ a1 = a /\ h1 = blk.handle
                               /\ table[a1][h1] = Opened(d, b) /\ table[a1][h1] # Free
                               /\ table'[a1][h1] = [table[a1][h1] EXCEPT !.fate = "refused"]
                               /\ table'[a1][h1] \in Owner
  <1>3. ASSUME NEW a1 \in Adapters, NEW h1 \in Slots, NEW b1 \in Boards,
               table'[a1][h1] # Free
        PROVE  \/ Spared(a1, h1)
               \/ /\ table'[a1][h1] = table[a1][h1]
                  /\ a1 = a /\ h1 = blk.handle /\ a \in Attached
                       => table[a1][h1] # Opened(d, b) \/ conn[b] = None
    <2>1. CASE table' = table /\ (a \notin Attached \/ conn[b] = None)
      BY <2>1
    <2>2. CASE a \in Attached /\ ~(table' = table /\ conn[b] = None)
      <3>1. a \in Adapters /\ table[a] \in [Slots -> Owner \cup {Free}]
        BY <2>2, ResolvesToAttached DEF TypeOK
      <3>2. table'[a] \in {Release(table[a], blk.handle), Spare(table[a], blk.handle, d, b)}
        BY <2>2, <3>1 DEF ReapClose, ReapRefused, TypeOK
      <3>3. a1 # a => table'[a1][h1] = table[a1][h1]
        BY <2>2, <3>1 DEF ReapClose, ReapRefused, TypeOK
      <3>4. a1 = a => \/ /\ table'[a1][h1] = table[a1][h1]
                         /\ h1 = blk.handle => table[a1][h1] # Opened(d, b)
                      \/ Spared(a1, h1)
        <4>1. CASE table'[a] = Release(table[a], blk.handle)
          BY <4>1, <3>1, <1>1, <1>3, ReleaseFacts
        <4>2. CASE table'[a] = Spare(table[a], blk.handle, d, b)
          BY <4>2, <3>1, <1>3, SpareFacts
        <4>3. QED
          BY <3>2, <4>1, <4>2
      <3> HIDE DEF Spared
      <3>5. CASE a1 # a
        BY <3>3, <3>5
      <3>6. CASE a1 = a
        <4>1. CASE Spared(a1, h1)
          BY <4>1
        <4>2. CASE ~Spared(a1, h1)
          BY <3>4, <3>6, <4>2
        <4>3. QED
          BY <4>1, <4>2
      <3>7. QED
        BY <3>5, <3>6
    <2>3. a \notin Attached => table' = table
      BY DEF ReapClose, ReapRefused
    <2> HIDE DEF Spared
    <2>4. (table' = table /\ (a \notin Attached \/ conn[b] = None))
            \/ (a \in Attached /\ ~(table' = table /\ conn[b] = None))
      BY <2>3
    <2>5. QED
      BY <2>1, <2>2, <2>4
  <1> HIDE DEF Spared
  <1>4. ASSUME NEW a1 \in Adapters, NEW h1 \in Slots, NEW b1 \in Boards, OpenedOn(a1, h1, b1)'
        PROVE  /\ OpenedOn(a1, h1, b1)
               /\ table'[a1][h1].client = table[a1][h1].client
               /\ \/ table'[a1][h1].fate = "refused"
                  \/ /\ table'[a1][h1] = table[a1][h1]
                     /\ ~(b1 = b /\ h1 = blk.handle /\ table[a1][h1].client = d)
    <2>1. CASE Spared(a1, h1)
      <3>1. table[a1][h1] \in Owner /\ table'[a1][h1] = [table[a1][h1] EXCEPT !.fate = "refused"]
        BY <2>1 DEF Spared, TypeOK
      <3>2. /\ table'[a1][h1].fate = "refused"
            /\ table'[a1][h1].client = table[a1][h1].client
            /\ table'[a1][h1].board = table[a1][h1].board
        BY <3>1 DEF Owner
      <3>3. table[a1][h1].fate = "kept" /\ table[a1][h1] # Free
        BY <2>1 DEF Spared, Opened
      <3>4. QED
        BY <1>4, <3>2, <3>3 DEF OpenedOn
    <2>2. CASE /\ table'[a1][h1] = table[a1][h1]
               /\ a1 = a /\ h1 = blk.handle /\ a \in Attached
                    => table[a1][h1] # Opened(d, b) \/ conn[b] = None
      <3>1. OpenedOn(a1, h1, b1)
        BY <1>4, <2>2 DEF OpenedOn
      <3>2. ASSUME b1 = b, h1 = blk.handle, table[a1][h1].client = d,
                   table[a1][h1].fate # "refused"
            PROVE  FALSE
        <4>1. a1 = a /\ a \in Attached
          BY <3>1, <3>2, ConnectionLeadsHome
        <4>2. conn[b] # None
          BY <3>1, <3>2, BrokerAssumption DEF Books, InBooks
        <4>3. table[a1][h1] # Opened(d, b)
          BY <2>2, <3>2, <4>1, <4>2
        <4>4. table[a1][h1] \in Owner /\ table[a1][h1].board = b /\ table[a1][h1].fate = "kept"
          BY <3>1, <3>2 DEF OpenedOn, TypeOK, Owner
        <4>5. QED
          BY <3>2, <4>3, <4>4 DEF Opened, Owner
      <3>3. QED
        BY <2>2, <3>1, <3>2
    <2>3. QED
      BY <1>3, <1>4, <2>1, <2>2 DEF OpenedOn
  <1>5. ASSUME NEW a1 \in Adapters, NEW h1 \in Slots, NEW b1 \in Boards, OpenedOn(a1, h1, b1)'
        PROVE  InBooks(a1, h1, b1)'
    <2> DEFINE c  == table[a1][h1].client
               e1 == <<b1, h1>>
    <2>1. /\ OpenedOn(a1, h1, b1) /\ InBooks(a1, h1, b1) /\ table'[a1][h1].client = c
          /\ c \in Clients /\ Connection(b1) = a1
      BY <1>4, <1>5, ConnectionLeadsHome DEF Books
    <2>2. conn'[b1] = a1 /\ a1 \in Attached
      BY <2>1, <1>0 DEF InBooks, ReapClose, ReapRefused, TypeOK
    <2>3. CASE table'[a1][h1].fate = "refused"
      BY <2>2, <2>3, <1>2 DEF InBooks
    <2>4. CASE table'[a1][h1].fate # "refused"
      <3>1. table'[a1][h1] = table[a1][h1] /\ ~(c = d /\ e1 = e)
        BY <1>4, <1>5, <2>4
      <3>2. reap'[c][e1] = reap[c][e1]
        <4>1. reap[c] \in [Boards \X Slots -> Nat]
          BY <2>1 DEF TypeOK
        <4>2. c = d => Drop(reap[c], e)[e1] = reap[c][e1]
          BY <3>1, <4>1 DEF Drop
        <4>3. QED
          BY <2>1, <4>2, <1>1, <1>2 DEF TypeOK
      <3>3. BeingTracked(c, b1, h1) => BeingTracked(c, b1, h1)'
        BY <1>2, <3>1 DEF BeingTracked
      <3>4. QED
        BY <2>1, <2>2, <2>4, <3>1, <3>2, <3>3, <1>2 DEF InBooks
    <2>5. QED
      BY <2>3, <2>4
  <1>6. CloseTookEffect'
    BY <1>2, <1>4 DEF Books, CloseTookEffect
  <1>7. ReapListUnused'
    <2> SUFFICES ASSUME NEW c \in Clients, peer'[c] \in {"live", "gone"}
                 PROVE  reap'[c] = Nothing
      BY DEF ReapListUnused, Nothing
    <2>1. c # d /\ peer[c] \in {"live", "gone"}
      BY <1>1, <1>2 DEF TypeOK
    <2>2. QED
      BY <2>1, <1>2 DEF Books, ReapListUnused, TypeOK
  <1>8. QED
    BY <1>5, <1>6, <1>7 DEF Books

(* session_reap takes the list whole.                                      *)
LEMMA ReapBeginKeepsBooks ==
  ASSUME TypeOK, TypeOK', Books, NEW d \in Clients, ReapBegin(d)
  PROVE  Books'
  <1>1. /\ table' = table /\ conn' = conn /\ running' = running /\ Attached' = Attached
        /\ peer' = [peer EXCEPT ![d] = "reaping"]
        /\ reap' = [reap EXCEPT ![d] = descs[d]]
        /\ descs' = [descs EXCEPT ![d] = Nothing]
        /\ reap[d] = Nothing
    BY DEF ReapBegin, Attached, Books, ReapListUnused
  <1>2. ASSUME NEW a1 \in Adapters, NEW h1 \in Slots, NEW b1 \in Boards, OpenedOn(a1, h1, b1)'
        PROVE  InBooks(a1, h1, b1)'
    <2> DEFINE c  == table[a1][h1].client
               e1 == <<b1, h1>>
    <2>1. OpenedOn(a1, h1, b1) /\ InBooks(a1, h1, b1) /\ c \in Clients
      BY <1>1, <1>2, ConnectionLeadsHome DEF OpenedOn, Books
    <2>2. descs[c][e1] > 0 \/ reap[c][e1] > 0 => descs'[c][e1] > 0 \/ reap'[c][e1] > 0
      <3>1. CASE c = d
        BY <3>1, <2>1, <1>1 DEF Nothing, TypeOK
      <3>2. CASE c # d
        BY <3>2, <1>1 DEF TypeOK
      <3>3. QED
        BY <3>1, <3>2
    <2>3. BeingTracked(c, b1, h1) => BeingTracked(c, b1, h1)'
      BY <1>1 DEF BeingTracked
    <2>4. QED
      BY <2>1, <2>2, <2>3, <1>1 DEF InBooks
  <1>3. CloseTookEffect'
    BY <1>1 DEF Books, CloseTookEffect, OpenedOn
  <1>4. ReapListUnused'
    BY <1>1 DEF Books, ReapListUnused, TypeOK, Nothing
  <1>5. QED
    BY <1>2, <1>3, <1>4 DEF Books

(* An adapter that goes takes its slots with it, one that comes has none   *)
(* in the books.                                                           *)
LEMMA PlugsKeepBooks ==
  ASSUME TypeOK, TypeOK', Books,
         \/ \E k \in DOMAIN attached : Unplug(k)
         \/ \E a \in Adapters, k \in 1 .. Len(attached) + 1 : Plug(a, k)
  PROVE  Books'
  <1>1. UNCHANGED <<conn, running, peer, descs, reap>>
    BY DEF Unplug, Plug
  <1>2. ASSUME NEW a1 \in Adapters, NEW h1 \in Slots, NEW b1 \in Boards, OpenedOn(a1, h1, b1)'
        PROVE  /\ OpenedOn(a1, h1, b1) /\ table'[a1][h1] = table[a1][h1]
               /\ a1 \in Attached => a1 \in Attached'
    <2>1. ASSUME NEW k \in DOMAIN attached, Unplug(k)
          PROVE  /\ OpenedOn(a1, h1, b1) /\ table'[a1][h1] = table[a1][h1]
                 /\ a1 \in Attached => a1 \in Attached'
      <3>1. table' = [table EXCEPT ![attached[k]] = EmptyTable]
        BY <2>1 DEF Unplug
      <3>2. a1 # attached[k]
        BY <1>2, <3>1 DEF OpenedOn, EmptyTable, TypeOK
      <3>3. table'[a1][h1] = table[a1][h1]
        BY <3>1, <3>2 DEF TypeOK
      <3>4. a1 \in Attached => a1 \in Attached'
        BY <2>1, <3>2, UnplugAttached
      <3>5. QED
        BY <1>2, <3>3, <3>4 DEF OpenedOn
    <2>2. ASSUME NEW a \in Adapters, NEW k \in 1 .. Len(attached) + 1, Plug(a, k)
          PROVE  /\ OpenedOn(a1, h1, b1) /\ table'[a1][h1] = table[a1][h1]
                 /\ a1 \in Attached => a1 \in Attached'
      <3>1. table' = table
        BY <2>2 DEF Plug
      <3>2. a1 \in Attached => a1 \in Attached'
        BY <2>2, PlugAttached
      <3>3. QED
        BY <1>2, <3>1, <3>2 DEF OpenedOn
    <2>3. QED
      BY <2>1, <2>2
  <1>3. ASSUME NEW a1 \in Adapters, NEW h1 \in Slots, NEW b1 \in Boards, OpenedOn(a1, h1, b1)'
        PROVE  InBooks(a1, h1, b1)'
    <2>1. InBooks(a1, h1, b1)
      BY <1>2, <1>3 DEF Books
    <2>2. QED
      BY <2>1, <1>1, <1>2, <1>3 DEF InBooks, BeingTracked
  <1>4. CloseTookEffect'
    BY <1>1, <1>2 DEF Books, CloseTookEffect
  <1>5. ReapListUnused'
    BY <1>1 DEF Books, ReapListUnused, Nothing
  <1>6. QED
    BY <1>3, <1>4, <1>5 DEF Books

(* A broker that has just started has nothing to answer for.               *)
LEMMA RestartKeepsBooks ==
  ASSUME TypeOK, Restart
  PROVE  Books'
  <1>1. \A a \in Adapters, h \in Slots, b \in Boards : ~OpenedOn(a, h, b)'
    <2> SUFFICES ASSUME NEW a \in Adapters, NEW h \in Slots, table[a][h] # Free
                 PROVE  table'[a][h].fate = "exited"
      BY DEF Restart, OpenedOn
    <2>1. table[a][h] \in Owner
      BY DEF TypeOK
    <2>2. table'[a][h] = [table[a][h] EXCEPT !.fate = "exited"]
      BY DEF Restart
    <2>3. QED
      BY <2>1, <2>2 DEF Owner
  <1>2. ReapListUnused'
    BY DEF Restart, ReapListUnused, Nothing
  <1>3. QED
    BY <1>1, <1>2 DEF Books, CloseTookEffect
-----------------------------------------------------------------------------
LEMMA BooksStep == TypeOK /\ TypeOK' /\ Books /\ [Next]_vars => Books'
  <1> SUFFICES ASSUME TypeOK, TypeOK', Books, [Next]_vars
               PROVE  Books'
    OBVIOUS
  <1>1. ASSUME NEW c \in Clients, NEW b \in Boards, NEW op \in AllOps,
               NEW h \in Slots \cup {0}, Submit(c, b, op, h)
        PROVE  Books'
    BY <1>1, QuietStep DEF Submit
  <1>2. ASSUME NEW b \in Boards, Call(b)
        PROVE  Books'
    BY <1>2, CallKeepsBooks
  <1>3. ASSUME NEW b \in Boards, CallFails(b) \/ Answer(b)
        PROVE  Books'
    BY <1>3, AnswerKeepsBooks
  <1>4. ASSUME NEW b \in Boards, Finish(b) \/ FinishWait(b)
        PROVE  Books'
    BY <1>4, ReplyKeepsBooks DEF Finish, FinishWait
  <1>5. ASSUME NEW b \in Boards, ReapClose(b) \/ ReapRefused(b)
        PROVE  Books'
    BY <1>5, ReapCloseKeepsBooks
  <1>6. ASSUME NEW c \in Clients, ReapBegin(c)
        PROVE  Books'
    BY <1>6, ReapBeginKeepsBooks
  <1>7. ASSUME NEW c \in Clients, Die(c) \/ ReapNext(c) \/ ReapEnd(c)
        PROVE  Books'
    <2>1. \A d \in Clients : peer'[d] \in {"live", "gone"} => peer[d] \in {"live", "gone"}
      BY <1>7 DEF Die, ReapNext, ReapEnd, TypeOK
    <2>2. UNCHANGED <<attached, table, conn, running, descs, reap>>
      BY <1>7 DEF Die, ReapNext, ReapEnd
    <2>3. QED
      BY <2>1, <2>2, QuietStep
  <1>8. CASE \/ \E k \in DOMAIN attached : Unplug(k)
             \/ \E a \in Adapters, k \in 1 .. Len(attached) + 1 : Plug(a, k)
    BY <1>8, PlugsKeepBooks
  <1>9. CASE Restart
    BY <1>9, RestartKeepsBooks
  <1>10. CASE UNCHANGED vars
    BY <1>10, QuietStep DEF vars
  <1>11. QED
    BY <1>1, <1>2, <1>3, <1>4, <1>5, <1>6, <1>7, <1>8, <1>9, <1>10 DEF Next

LEMMA BooksInvariant == Spec => []Books
  <1>1. Init => Books
    BY DEF Init, EmptyTable, Nothing, Books, OpenedOn, CloseTookEffect, ReapListUnused
  <1>2. QED
    BY <1>1, BooksStep, BrokerTypeCorrect, PTL DEF Spec

(* gpibd.c:12-16, as far as the broker's own books go: however clients are *)
(* killed, calls fail, adapters come and go and the broker itself is       *)
(* restarted, every slot a driver has in use, and this broker opened, is   *)
(* in its client's session, on a reaper's list, or about to be entered --  *)
(* but for the ones whose close by the reaper the driver refused, which    *)
(* the code crosses off all the same.                                      *)
THEOREM NoneForgotten == Spec => []Accounted
  BY BooksInvariant, BrokerTypeCorrect, BooksSuffice, PTL

(* Such a slot is where its books say: in the adapter its board's cached   *)
(* connection leads to.                                                    *)
THEOREM BooksLeadHome == Spec => []RoutedHome
  BY BooksInvariant, BrokerTypeCorrect, BooksSuffice, PTL
=============================================================================
