----------------------------- MODULE ClientProofs -----------------------------
(***************************************************************************)
(* What libgpib keeps of descriptors, for any number of threads and slots, *)
(* any other processes and any number of replugs.                          *)
(***************************************************************************)
EXTENDS ClientLib, FiniteSetTheorems, TLAPS

(* What the phase of a call says of it: a scoped call names the device it  *)
(* opened; only ibfind, ibdev and the calls on the board's ud look for the *)
(* board's descriptor; a call on a device goes to the handle of its ud.    *)
Local(c) ==
    /\ c.scoped => c.op \in {"dev", "use", "close"} /\ (c.op # "dev" => c.ud \in Slots)
    /\ c.phase \in {"lookup", "save", "online"} \/ c.inBoard => c.op \in {"dev", "find"} \/ c.ud = BoardUd
    /\ c.phase = "open" /\ ~c.inBoard => c.op = "dev"
    /\ c.phase = "call" => c.op \in {"use", "close"} /\ (c.ud \in Slots => c.handle = c.ud)
    /\ c.phase = "save" => c.inBoard /\ c.handle \in Slots
    /\ c.phase = "online" => c.inBoard
    /\ c.phase = "idle" \/ c.op = "none" => c = NotCalling
    /\ c.op = "find" => c.ud = BoardUd
    /\ c.op = "close" /\ ~BoardCloses => c.ud \in Slots

(* An adapter that is not there has no descriptors.                        *)
GoneIsEmpty == ~plugged => table = EmptyTable

(* The ud of a call on a device is one the thread has.                     *)
CallsOwn ==
    \A t \in Threads : thread[t].op \in {"use", "close"} /\ thread[t].ud \in Slots =>
      thread[t].ud \in Uds(t)

(* The device of a scoped call.                                            *)
Own(c) == IF c.scoped /\ c.op \in {"use", "close"} THEN {c.ud} ELSE {}

(* Is the adapter the one that was there when the process began?           *)
First == plugged /\ replugs = 0 /\ ~BoardCloses

(* A call that is past the board's opening finds it online.                *)
Knows(c, on) ==
    /\ c.op = "dev" /\ c.phase \in {"conn", "probe", "seen", "open"} /\ ~c.inBoard => on
    /\ c.phase = "open" /\ c.inBoard => on

Kept ==
    First =>
      /\ \A t \in Threads, h \in Slots : h \in Uds(t) => table[h] = Device(t) /\ online
      /\ boardHandle # NoHandle => table[boardHandle] = Board /\ online
      /\ \A t \in Threads :
           /\ Own(thread[t]) \cap held[t] = {}
           /\ Knows(thread[t], online)
           /\ thread[t].phase = "save" => table[thread[t].handle] = Board /\ online

(* The threads that may still open the board: the handle, once cached, is  *)
(* never dropped.                                                          *)
MayOpen == {t \in Threads : thread[t].phase # "save" /\ (boardHandle = NoHandle \/ thread[t].inBoard)}

BoardSlots == {h \in Slots : table[h] = Board}

Few == Cardinality(BoardSlots) + Cardinality(MayOpen) <= Cardinality(Threads)

Locals == \A t \in Threads : Local(thread[t])

IInv == TypeOK /\ Locals /\ GoneIsEmpty /\ CallsOwn /\ NoneLost /\ Kept /\ Few

-----------------------------------------------------------------------------
(* Who opened a slot is told apart from who else did, and from nobody.     *)
LEMMA ContentsDiffer ==
    /\ Free \in Content /\ Board \in Content /\ Other \in Content /\ Lost \in Content
    /\ Board # Other /\ Board # Free /\ Other # Free
    /\ Lost # Board /\ Lost # Other /\ Lost # Free
    /\ \A t \in Threads : /\ Device(t) \in Content /\ Device(t) # Board
                          /\ Device(t) # Other /\ Device(t) # Free /\ Device(t) # Lost
                          /\ \A u \in Threads : Device(t) = Device(u) => t = u
<1>1. /\ "board" \notin Threads /\ "other" \notin Threads /\ "nobody" \notin Threads
      /\ \A who \in Threads \cup {"board", "other", "nobody"} : Free # [by |-> who]
  BY ClientAssumption
<1>2. /\ Board.by = "board" /\ Other.by = "other" /\ Lost.by = "nobody"
      /\ \A t \in Threads : Device(t).by = t
  BY DEF Board, Other, Lost, Device
<1>3. /\ Board # Other /\ Lost # Board /\ Lost # Other
      /\ \A t \in Threads : Device(t) # Board /\ Device(t) # Other /\ Device(t) # Lost
  BY <1>1, <1>2
<1>4. \A t, u \in Threads : Device(t) = Device(u) => t = u
  BY <1>2
<1>5. Board # Free /\ Other # Free /\ Lost # Free /\ \A t \in Threads : Device(t) # Free
  BY <1>1 DEF Board, Other, Lost, Device
<1> QED BY <1>3, <1>4, <1>5 DEF Content

(* The sets that are counted are finite.                                   *)
LEMMA Counted ==
    /\ IsFiniteSet(Threads) /\ Cardinality(Threads) \in Nat
    /\ IsFiniteSet(BoardSlots) /\ Cardinality(BoardSlots) \in Nat
    /\ IsFiniteSet(MayOpen) /\ Cardinality(MayOpen) \in Nat
<1>1. IsFiniteSet(Threads) /\ IsFiniteSet(Slots)
  <2>1. 1 \in Int /\ kMaxDescriptors - 1 \in Int
    BY TableAssumption
  <2> QED BY <2>1, FS_Interval, ClientAssumption DEF Slots
<1>2. IsFiniteSet(BoardSlots) /\ IsFiniteSet(MayOpen)
  BY <1>1, FS_Subset DEF BoardSlots, MayOpen
<1> QED BY <1>1, <1>2, FS_CardinalityType

(* Fewer descriptors and fewer threads are no more than before.            *)
LEMMA FewerStay ==
    ASSUME TypeOK, TypeOK', Few, BoardSlots' \subseteq BoardSlots, MayOpen' \subseteq MayOpen
    PROVE  Few'
<1>1. /\ Cardinality(BoardSlots') <= Cardinality(BoardSlots)
      /\ Cardinality(MayOpen') <= Cardinality(MayOpen)
      /\ IsFiniteSet(BoardSlots') /\ IsFiniteSet(MayOpen')
  BY Counted, FS_Subset
<1>2. Cardinality(BoardSlots') \in Nat /\ Cardinality(MayOpen') \in Nat
  BY <1>1, FS_CardinalityType
<1> QED BY <1>1, <1>2, Counted DEF Few

-----------------------------------------------------------------------------
(* Thread t's call becomes d, and does not come from or get to "save".     *)
Moves(t, d) ==
    /\ thread' = [thread EXCEPT ![t] = d]
    /\ d \in Call /\ Local(d)
    /\ thread[t].phase # "save" /\ d.phase # "save"
    /\ d.inBoard => thread[t].inBoard \/ boardHandle = NoHandle
    /\ d.op \in {"use", "close"} /\ d.ud \in Slots => d.ud \in held[t] \cup Own(d)

(* Of the slots only free ones and those of the thread that it gives up    *)
(* are lost, and a device the call no longer has is not in the table.      *)
Spares(t, d) ==
    /\ table' \in [Slots -> Content]
    /\ \A k \in Slots :
         \/ table'[k] = table[k]
         \/ /\ plugged /\ table'[k] = Lost
            /\ table[k] = Free \/ (table[k] = Device(t) /\ (First => k \notin held[t] \cup Own(d)))
    /\ \/ Own(d) = Own(thread[t])
       \/ Own(d) = {} /\ \A k \in Own(thread[t]) : table'[k] # Device(t)

(* Such a step, with nothing else than the caches' reachability, online    *)
(* and slots that get lost changing, keeps all that is to be kept.         *)
LEMMA SlotStep ==
    ASSUME IInv, NEW t \in Threads, NEW d, Moves(t, d), Spares(t, d),
           UNCHANGED <<plugged, replugs, boardHandle, held>>,
           reachable' \in BOOLEAN, online' \in {online, TRUE},
           First => Knows(d, online')
    PROVE  IInv'
<1>1. thread \in [Threads -> Call] /\ thread'[t] = d /\ \A u \in Threads \ {t} : thread'[u] = thread[u]
  BY DEF IInv, TypeOK, Moves
<1>2. TypeOK'
  BY DEF IInv, TypeOK, Moves, Spares
<1>3. Locals' /\ GoneIsEmpty'
  <2>1. ~plugged => table' = table
    BY DEF IInv, TypeOK, Spares
  <2> QED BY <1>1, <2>1 DEF IInv, Locals, GoneIsEmpty, Moves
<1>4. \A u \in Threads : Uds(u) = held[u] \cup Own(thread[u]) /\ Uds(u)' = held[u] \cup Own(thread'[u])
  BY DEF Uds, Own
<1>5. \A u \in Threads \ {t} : Uds(u)' = Uds(u)
  BY <1>1, <1>4
<1>6. Uds(t)' \subseteq Uds(t)
  BY <1>1, <1>4 DEF Spares
<1>7. CallsOwn'
  BY <1>1, <1>4, <1>5 DEF IInv, CallsOwn, Moves
<1>8. NoneLost'
  <2> SUFFICES ASSUME NEW u \in Threads, NEW h \in Slots, table'[h] = Device(u)
               PROVE  h \in Uds(u)'
    BY DEF NoneLost, Device
  <2>1. table[h] = Device(u) /\ h \in Uds(u)
    BY ContentsDiffer DEF IInv, NoneLost, Spares
  <2>2. CASE u = t
    BY <1>1, <1>4, <2>1, <2>2 DEF Spares
  <2>3. CASE u # t
    BY <1>5, <2>1, <2>3
  <2> QED BY <2>2, <2>3
<1>9. Kept'
  <2> SUFFICES ASSUME First
               PROVE  /\ \A u \in Threads, h \in Slots : h \in Uds(u)' => table'[h] = Device(u) /\ online'
                      /\ boardHandle # NoHandle => table'[boardHandle] = Board /\ online'
                      /\ \A u \in Threads :
                           /\ Own(thread'[u]) \cap held[u] = {}
                           /\ Knows(thread'[u], online')
                           /\ thread'[u].phase = "save" => table'[thread'[u].handle] = Board /\ online'
    BY DEF Kept, First, Device, Board, Knows, Own
  <2>1. ASSUME NEW u \in Threads, NEW h \in Slots, h \in Uds(u)'
        PROVE  table'[h] = Device(u) /\ online'
    <3>1. table[h] = Device(u) /\ online
      BY <1>5, <1>6, <2>1 DEF IInv, Kept
    <3>2. table'[h] = table[h]
      <4>1. CASE u = t
        BY <1>1, <1>4, <2>1, <3>1, <4>1, ContentsDiffer DEF Spares
      <4>2. CASE u # t
        BY <3>1, <4>2, ContentsDiffer DEF Spares
      <4> QED BY <4>1, <4>2
    <3> QED BY <3>1, <3>2
  <2>2. \A h \in Slots : table[h] = Board => table'[h] = Board
    BY ContentsDiffer DEF Spares
  <2>4. boardHandle # NoHandle => table'[boardHandle] = Board /\ online'
    BY <2>2 DEF IInv, Kept, TypeOK
  <2>3. ASSUME NEW u \in Threads
        PROVE  /\ Own(thread'[u]) \cap held[u] = {}
               /\ Knows(thread'[u], online')
               /\ thread'[u].phase = "save" => table'[thread'[u].handle] = Board /\ online'
    <3>1. CASE u = t
      <4>1. Own(d) \cap held[t] = {}
        BY DEF Spares, IInv, Kept
      <4> QED BY <1>1, <3>1, <4>1 DEF Moves, First
    <3>2. CASE u # t
      <4>1. thread'[u] = thread[u]
        BY <1>1, <3>2
      <4>2. Own(thread[u]) \cap held[u] = {} /\ Knows(thread[u], online) /\ (thread[u].phase = "save" => table[thread[u].handle] = Board /\ thread[u].handle \in Slots /\ online)
        BY DEF IInv, Kept, Locals, Local
      <4>3. online => online'
        OBVIOUS
      <4> QED BY <2>2, <4>1, <4>2, <4>3 DEF Knows
    <3> QED BY <3>1, <3>2
  <2> QED BY <2>1, <2>3, <2>4
<1>10. Few'
  <2>1. BoardSlots' \subseteq BoardSlots
    BY ContentsDiffer DEF BoardSlots, Board, Spares
  <2>2. MayOpen' \subseteq MayOpen
    BY <1>1 DEF MayOpen, Moves
  <2> QED BY <1>2, <2>1, <2>2, FewerStay DEF IInv
<1> QED BY <1>2, <1>3, <1>7, <1>8, <1>9, <1>10 DEF IInv

(* The step of a call that leaves the table as it is.                      *)
LEMMA QuietStep ==
    ASSUME IInv, NEW t \in Threads, NEW d, Moves(t, d),
           UNCHANGED <<plugged, table, replugs, boardHandle, held>>,
           reachable' \in BOOLEAN, online' \in {online, TRUE},
           Own(d) = Own(thread[t]),
           First => Knows(d, online')
    PROVE  IInv'
<1>1. Spares(t, d)
  BY DEF Spares, IInv, TypeOK
<1> QED BY <1>1, SlotStep

-----------------------------------------------------------------------------
(* How a call goes on.                                                     *)

(* What Return makes of call c.                                            *)
Returned(c, d) ==
    IF c.scoped /\ c.op = "use"
    THEN d = [c EXCEPT !.op = "close", !.phase = "conn", !.inBoard = FALSE]
    ELSE d = NotCalling

(* A call returns, or goes on to close what it opened: it keeps its device *)
(* unless it is the close itself.                                          *)
LEMMA ReturnMoves ==
    ASSUME IInv, NEW t \in Threads, NEW ok \in BOOLEAN, Return(t, ok),
           thread[t].op = "dev" => ~ok, thread[t].phase # "save"
    PROVE  \E d : /\ Moves(t, d)
                  /\ Own(d) = Own(thread[t]) \/ (thread[t].op = "close" /\ Own(d) = {})
                  /\ \A on \in BOOLEAN : Knows(d, on)
<1> DEFINE c == thread[t]
<1>1. c \in Call /\ Local(c) /\ thread \in [Threads -> Call]
  BY DEF IInv, TypeOK, Locals
<1>2. NotCalling \in Call /\ Local(NotCalling) /\ Own(NotCalling) = {}
      /\ \A on \in BOOLEAN : Knows(NotCalling, on)
  BY DEF NotCalling, Call, Ops, Local, Own, Knows
<1>3. CASE c.scoped /\ c.op = "use"
  <2> DEFINE d == [c EXCEPT !.op = "close", !.phase = "conn", !.inBoard = FALSE]
  <2>1. /\ d \in Call /\ d.op = "close" /\ d.phase = "conn" /\ d.inBoard = FALSE
        /\ d.ud = c.ud /\ d.scoped = c.scoped
    BY <1>1 DEF Call, Ops
  <2>2. thread' = [thread EXCEPT ![t] = d]
    BY <1>3 DEF Return
  <2>3. c.ud \in Slots
    BY <1>1, <1>3 DEF Local
  <2> HIDE DEF d, c
  <2>4. Local(d) /\ Own(d) = Own(c) /\ Own(d) = {c.ud} /\ \A on \in BOOLEAN : Knows(d, on)
    BY <1>3, <2>1, <2>3 DEF Local, Own, Knows
  <2>5. Moves(t, d)
    BY <2>1, <2>2, <2>3, <2>4 DEF Moves, c
  <2> QED BY <2>4, <2>5 DEF c
<1>4. CASE ~(c.scoped /\ c.op = "use")
  <2>1. thread' = [thread EXCEPT ![t] = NotCalling]
    BY <1>1, <1>4 DEF Return
  <2>2. Moves(t, NotCalling)
    BY <1>2, <2>1 DEF Moves, NotCalling
  <2>3. Own(c) = {} \/ c.op = "close"
    BY <1>4 DEF Own
  <2> QED BY <1>2, <2>2, <2>3
<1> QED BY <1>3, <1>4

(* A call is told the handle h of the board: it has no device, and it goes *)
(* on to open one only if there is a handle.                               *)
BoardTold(t, h, d) ==
    /\ thread' = [thread EXCEPT ![t] = d]
    /\ d \in Call /\ Local(d) /\ d.phase # "save" /\ ~d.inBoard
    /\ d.op \in {"use", "close"} => d.ud \notin Slots
    /\ Own(d) = {} /\ Own(thread[t]) = {}
    /\ \A on \in BOOLEAN : (h # NoHandle => on) => Knows(d, on)

(* Whatever handle it is told, such a next state of the call exists.       *)
LEMMA BoardHandleTold ==
    ASSUME IInv, NEW t \in Threads, NEW h \in Slots \cup {NoHandle}, BoardHandleIs(t, h),
           thread[t].phase \in {"lookup", "save"} \/ thread[t].inBoard
    PROVE  \E d : BoardTold(t, h, d)
<1> DEFINE c == thread[t]
<1>1. c \in Call /\ Local(c) /\ thread \in [Threads -> Call]
  BY DEF IInv, TypeOK, Locals
<1>2. c.op \in {"dev", "find"} \/ c.ud = BoardUd
  BY <1>1 DEF Local
<1>3. BoardUd \notin Slots /\ NoHandle \notin Slots
  BY ClientAssumption
<1>4. Own(c) = {}
  BY <1>1, <1>2, <1>3 DEF Own, Local
<1>5. c.op \in {"dev", "find", "use", "close"}
  <2>1. c.op # "none"
    BY <1>1 DEF Local, NotCalling
  <2> QED BY <1>1, <2>1 DEF Call, Ops
<1>6. CASE thread' = [thread EXCEPT ![t] = NotCalling]
  <2>1. NotCalling \in Call /\ Local(NotCalling) /\ Own(NotCalling) = {}
        /\ \A on \in BOOLEAN : Knows(NotCalling, on)
    BY DEF NotCalling, Call, Ops, Local, Own, Knows
  <2>2. BoardTold(t, h, NotCalling)
    BY <1>4, <1>6, <2>1 DEF BoardTold, NotCalling
  <2> QED BY <2>2
<1>7. CASE c.op = "find"
  <2>1. thread' = [thread EXCEPT ![t] = NotCalling]
    BY <1>1, <1>7 DEF BoardHandleIs, Return
  <2> QED BY <1>6, <2>1
<1>8. CASE c.op = "dev" /\ h = NoHandle
  <2>1. thread' = [thread EXCEPT ![t] = NotCalling]
    <3>1. Return(t, FALSE)
      BY <1>8 DEF BoardHandleIs
    <3> QED BY <1>1, <1>8, <3>1 DEF Return
  <2> QED BY <1>6, <2>1
<1>9. CASE c.op = "dev" /\ h # NoHandle
  <2> DEFINE d == [c EXCEPT !.phase = "conn", !.inBoard = FALSE, !.handle = NoHandle]
  <2>1. /\ d \in Call /\ d.op = "dev" /\ d.phase = "conn" /\ d.inBoard = FALSE
        /\ d.ud = c.ud /\ d.scoped = c.scoped
    BY <1>1, <1>9 DEF Call
  <2>2. thread' = [thread EXCEPT ![t] = d]
    BY <1>1, <1>9 DEF BoardHandleIs
  <2> HIDE DEF d, c
  <2>3. Local(d) /\ Own(d) = {} /\ \A on \in BOOLEAN : on => Knows(d, on)
    BY <2>1 DEF Local, Own, Knows
  <2>4. BoardTold(t, h, d)
    BY <1>4, <1>9, <2>1, <2>2, <2>3 DEF BoardTold, c
  <2> QED BY <2>4
<1>10. CASE c.op \in {"use", "close"}
  <2> DEFINE d == [c EXCEPT !.phase = "call", !.inBoard = FALSE, !.handle = h]
  <2>1. /\ d \in Call /\ d.op = c.op /\ d.phase = "call" /\ d.inBoard = FALSE
        /\ d.ud = c.ud /\ d.scoped = c.scoped /\ d.handle = h
    BY <1>1 DEF Call
  <2>2. thread' = [thread EXCEPT ![t] = d]
    BY <1>1, <1>10 DEF BoardHandleIs
  <2>3. c.ud = BoardUd /\ ~c.scoped /\ (c.op = "close" => BoardCloses)
    BY <1>1, <1>2, <1>3, <1>10, ClientAssumption DEF Local, Call
  <2> HIDE DEF d, c
  <2>4. Local(d) /\ Own(d) = {} /\ \A on \in BOOLEAN : Knows(d, on)
    BY <1>3, <1>10, <2>1, <2>3 DEF Local, Own, Knows
  <2>5. BoardTold(t, h, d)
    BY <1>3, <1>4, <2>1, <2>2, <2>3, <2>4 DEF BoardTold, c
  <2> QED BY <2>5
<1> QED BY <1>5, <1>7, <1>8, <1>9, <1>10

(* A call fails on the way: it keeps its device, unless that is the one it *)
(* was to close.                                                           *)
LEMMA FailMoves ==
    ASSUME IInv, NEW t \in Threads, Fails(t), thread[t].phase # "save"
    PROVE  \E d : /\ Moves(t, d)
                  /\ \/ Own(d) = Own(thread[t])
                     \/ ~thread[t].inBoard /\ thread[t].op = "close" /\ Own(d) = {}
                  /\ \A on \in BOOLEAN : Knows(d, on)
<1>1. CASE thread[t].inBoard
  <2>1. PICK d : BoardTold(t, NoHandle, d)
    BY <1>1, BoardHandleTold DEF Fails
  <2>2. Moves(t, d) /\ Own(d) = Own(thread[t]) /\ \A on \in BOOLEAN : Knows(d, on)
    BY <2>1 DEF BoardTold, Moves
  <2> QED BY <2>2
<1>2. CASE ~thread[t].inBoard
  <2>1. Return(t, FALSE)
    BY <1>2 DEF Fails
  <2>2. PICK d : /\ Moves(t, d)
                 /\ Own(d) = Own(thread[t]) \/ (thread[t].op = "close" /\ Own(d) = {})
                 /\ \A on \in BOOLEAN : Knows(d, on)
    BY <2>1, ReturnMoves
  <2> QED BY <1>2, <2>2
<1> QED BY <1>1, <1>2

(* When the call has nothing to close it keeps what it has.                *)
LEMMA FailQuietly ==
    ASSUME IInv, NEW t \in Threads, Fails(t), thread[t].phase # "save",
           thread[t].inBoard \/ thread[t].op # "close"
    PROVE  \E d : Moves(t, d) /\ Own(d) = Own(thread[t]) /\ \A on \in BOOLEAN : Knows(d, on)
BY FailMoves

(* A call only goes to another phase, its handle perhaps filled in.        *)
LEMMA PhaseMoves ==
    ASSUME IInv, NEW t \in Threads, NEW d \in Call, thread' = [thread EXCEPT ![t] = d], Local(d),
           thread[t].phase # "save", d.phase # "save",
           thread[t].op # "none",
           d.op = thread[t].op, d.ud = thread[t].ud, d.scoped = thread[t].scoped,
           d.inBoard => thread[t].inBoard \/ boardHandle = NoHandle
    PROVE  Moves(t, d) /\ Own(d) = Own(thread[t])
<1>1. Own(d) = Own(thread[t])
  BY DEF Own
<1>2. Uds(t) = held[t] \cup Own(thread[t])
  BY DEF Uds, Own
<1> QED BY <1>1, <1>2 DEF IInv, CallsOwn, Moves

(* It has a connection to its board, which is online if the board has been *)
(* opened.                                                                 *)
LEMMA ConnectedMoves ==
    ASSUME IInv, NEW t \in Threads, Connected(t), thread[t].phase \in {"conn", "seen"}
    PROVE  \E d : Moves(t, d) /\ Own(d) = Own(thread[t]) /\ (First => Knows(d, online))
<1> DEFINE c == thread[t]
<1>1. c \in Call /\ Local(c) /\ thread \in [Threads -> Call]
  BY DEF IInv, TypeOK, Locals
<1>2. c.op # "none"
  BY <1>1 DEF Local, NotCalling
<1>3. CASE c.inBoard
  <2> DEFINE d == [c EXCEPT !.phase = "online"]
  <2>1. d \in Call /\ d.op = c.op /\ d.ud = c.ud /\ d.scoped = c.scoped /\ d.inBoard = c.inBoard /\ d.phase = "online"
    BY <1>1 DEF Call
  <2>2. thread' = [thread EXCEPT ![t] = d]
    BY <1>1, <1>3 DEF Connected, Goto
  <2> HIDE DEF d
  <2>3. Local(d)
    BY <1>1, <1>2, <1>3, <2>1 DEF Local
  <2>4. Moves(t, d) /\ Own(d) = Own(c)
    BY <1>2, <2>1, <2>2, <2>3, PhaseMoves
  <2>5. Knows(d, online)
    BY <2>1 DEF Knows
  <2> QED BY <2>4, <2>5
<1>4. CASE ~c.inBoard /\ c.op = "dev"
  <2> DEFINE d == [c EXCEPT !.phase = "open"]
  <2>1. d \in Call /\ d.op = c.op /\ d.ud = c.ud /\ d.scoped = c.scoped /\ d.inBoard = c.inBoard /\ d.phase = "open"
    BY <1>1 DEF Call
  <2>2. thread' = [thread EXCEPT ![t] = d]
    BY <1>1, <1>4 DEF Connected, Goto
  <2> HIDE DEF d
  <2>3. Local(d)
    BY <1>1, <1>4, <2>1 DEF Local
  <2>4. Moves(t, d) /\ Own(d) = Own(c)
    BY <1>2, <2>1, <2>2, <2>3, PhaseMoves
  <2>5. First => Knows(d, online)
    BY <1>4, <2>1 DEF IInv, Kept, Knows
  <2> QED BY <2>4, <2>5
<1>5. CASE ~c.inBoard /\ c.op # "dev" /\ c.ud = BoardUd
  <2> DEFINE d == [c EXCEPT !.phase = "lookup"]
  <2>1. d \in Call /\ d.op = c.op /\ d.ud = c.ud /\ d.scoped = c.scoped /\ d.inBoard = c.inBoard /\ d.phase = "lookup"
    BY <1>1 DEF Call
  <2>2. thread' = [thread EXCEPT ![t] = d]
    BY <1>1, <1>5 DEF Connected, Goto
  <2> HIDE DEF d
  <2>3. Local(d)
    BY <1>1, <1>2, <1>5, <2>1 DEF Local
  <2>4. Moves(t, d) /\ Own(d) = Own(c)
    BY <1>2, <2>1, <2>2, <2>3, PhaseMoves
  <2>5. Knows(d, online)
    BY <2>1 DEF Knows
  <2> QED BY <2>4, <2>5
<1>6. CASE ~c.inBoard /\ c.op # "dev" /\ c.ud # BoardUd
  <2> DEFINE d == [c EXCEPT !.phase = "call", !.handle = c.ud]
  <2>1. c.ud \in Slots /\ c.op \in {"use", "close"}
    BY <1>1, <1>2, <1>6 DEF Call, Ops, Local
  <2>2. /\ d \in Call /\ d.op = c.op /\ d.ud = c.ud /\ d.scoped = c.scoped /\ d.inBoard = c.inBoard
        /\ d.phase = "call" /\ d.handle = c.ud
    BY <1>1, <2>1 DEF Call
  <2>3. thread' = [thread EXCEPT ![t] = d]
    BY <1>1, <1>6 DEF Connected
  <2> HIDE DEF d
  <2>4. Local(d)
    BY <1>1, <1>6, <2>1, <2>2 DEF Local
  <2>5. Moves(t, d) /\ Own(d) = Own(c)
    BY <1>2, <2>2, <2>3, <2>4, PhaseMoves
  <2>6. Knows(d, online)
    BY <2>2 DEF Knows
  <2> QED BY <2>5, <2>6
<1> QED BY <1>3, <1>4, <1>5, <1>6

-----------------------------------------------------------------------------
(* The device that is not closed is the only one lost.                     *)
UnclosedHolds(t, h) ==
    /\ table' \in [Slots -> Content]
    /\ \A k \in Slots \ {h} : table'[k] = table[k]
    /\ h \in Slots => /\ table'[h] # Device(t)
                      /\ table'[h] = table[h] \/ (plugged /\ table[h] = Device(t) /\ table'[h] = Lost)

LEMMA UnclosedTable ==
    ASSUME IInv, NEW t \in Threads, NEW h, table' = Unclosed(t, h)
    PROVE  UnclosedHolds(t, h)
<1>1. table \in [Slots -> Content]
  BY DEF IInv, TypeOK
<1>2. \A k \in Slots : table'[k] = IF k = h /\ table[k] = Device(t) THEN Lost ELSE table[k]
  BY DEF Unclosed
<1>3. table' \in [Slots -> Content]
  <2>1. \A k \in Slots : (IF k = h /\ table[k] = Device(t) THEN Lost ELSE table[k]) \in Content
    BY <1>1, ContentsDiffer
  <2> QED BY <2>1 DEF Unclosed
<1>4. h \in Slots /\ table[h] = Device(t) => plugged
  BY ContentsDiffer DEF IInv, GoneIsEmpty, EmptyTable
<1> QED BY <1>2, <1>3, <1>4, ContentsDiffer DEF UnclosedHolds

-----------------------------------------------------------------------------
(* The steps that open and close nothing that anybody knows of.            *)

(* A thread makes a call on a ud it has, or opens a device.                *)
LEMMA StartKeeps ==
    ASSUME IInv, NEW t \in Threads, NEW op \in Ops, NEW ud \in Slots \cup {BoardUd},
           NEW scoped \in BOOLEAN, Start(t, op, ud, scoped)
    PROVE  IInv'
<1> DEFINE d == [op |-> op, ud |-> ud, phase |-> IF op \in {"dev", "find"} THEN "lookup" ELSE "conn",
                 inBoard |-> FALSE, handle |-> NoHandle, scoped |-> scoped]
<1>1. /\ d \in Call /\ d.op = op /\ d.ud = ud /\ d.scoped = scoped /\ d.inBoard = FALSE
      /\ d.phase = IF op \in {"dev", "find"} THEN "lookup" ELSE "conn"
  BY DEF Call
<1>2. /\ thread[t] = NotCalling /\ thread' = [thread EXCEPT ![t] = d]
      /\ op \in {"use", "close"} => ud \in held[t] \cup {BoardUd}
      /\ op \in {"dev", "find"} => ud = BoardUd
      /\ op = "close" /\ ud = BoardUd => BoardCloses
      /\ scoped => op = "dev"
      /\ UNCHANGED <<driver, reachable, boardHandle, held>>
  BY DEF Start
<1> HIDE DEF d
<1>3. Local(d) /\ Own(d) = {} /\ \A on \in BOOLEAN : Knows(d, on)
  BY <1>1, <1>2 DEF Local, Own, Knows, Ops
<1>4. Own(thread[t]) = {} /\ thread[t].phase = "idle"
  BY <1>2 DEF Own, NotCalling
<1>5. Moves(t, d)
  BY <1>1, <1>2, <1>3, <1>4, ClientAssumption DEF Moves
<1>6. reachable' \in BOOLEAN /\ online' = online /\ online \in BOOLEAN
  BY <1>2 DEF IInv, TypeOK, driver
<1> QED BY <1>2, <1>3, <1>4, <1>5, <1>6, QuietStep DEF driver

(* It looks for its board, is connected, told that the adapter is gone, or *)
(* brings the board online.                                                *)
LEMMA ReachKeeps ==
    ASSUME IInv, NEW t \in Threads,
           Lookup(t) \/ Conn(t) \/ Probe(t) \/ Seen(t) \/ Gone(t) \/ Online(t)
    PROVE  IInv'
<1> DEFINE c == thread[t]
<1>1. c \in Call /\ Local(c) /\ thread \in [Threads -> Call] /\ reachable \in BOOLEAN /\ online \in BOOLEAN
      /\ boardHandle \in Slots \cup {NoHandle}
  BY DEF IInv, TypeOK, Locals
<1>2. c.phase # "idle" => c.op # "none"
  BY <1>1 DEF Local, NotCalling
<1>3. CASE Lookup(t)
  <2>1. c.phase = "lookup" /\ UNCHANGED <<driver, reachable, boardHandle, held>>
    BY <1>3 DEF Lookup, At
  <2>2. CASE boardHandle # NoHandle
    <3>1. PICK d : BoardTold(t, boardHandle, d)
      BY <1>1, <1>3, <2>1, <2>2, BoardHandleTold DEF Lookup
    <3>2. Moves(t, d) /\ Own(d) = Own(c)
      BY <2>1, <3>1 DEF BoardTold, Moves
    <3>3. First => Knows(d, online)
      BY <1>1, <2>2, <3>1 DEF BoardTold, IInv, Kept
    <3> QED BY <1>1, <2>1, <3>2, <3>3, QuietStep DEF driver
  <2>3. CASE boardHandle = NoHandle
    <3> DEFINE d == [c EXCEPT !.phase = "conn", !.inBoard = TRUE]
    <3>1. d \in Call /\ d.op = c.op /\ d.ud = c.ud /\ d.scoped = c.scoped /\ d.inBoard = TRUE /\ d.phase = "conn"
      BY <1>1 DEF Call
    <3>2. thread' = [thread EXCEPT ![t] = d]
      BY <1>1, <1>3, <2>3 DEF Lookup
    <3> HIDE DEF d
    <3>3. Local(d) /\ Knows(d, online)
      BY <1>1, <1>2, <2>1, <3>1 DEF Local, Knows
    <3>4. Moves(t, d) /\ Own(d) = Own(c)
      BY <1>2, <2>1, <2>3, <3>1, <3>2, <3>3, PhaseMoves
    <3> QED BY <1>1, <2>1, <3>3, <3>4, QuietStep DEF driver
  <2> QED BY <2>2, <2>3
<1>4. ASSUME c.phase \in {"conn", "seen"}, Connected(t), UNCHANGED <<driver, boardHandle, held>>, reachable' \in BOOLEAN
      PROVE  IInv'
  <2>1. PICK d : Moves(t, d) /\ Own(d) = Own(c) /\ (First => Knows(d, online))
    BY <1>4, ConnectedMoves
  <2> QED BY <1>1, <1>4, <2>1, QuietStep DEF driver
<1>5. ASSUME NEW phase \in {"probe", "seen"}, c.phase \in {"conn", "probe"}, Goto(t, phase),
             UNCHANGED <<driver, reachable, boardHandle, held>>
      PROVE  IInv'
  <2> DEFINE d == [c EXCEPT !.phase = phase]
  <2>1. d \in Call /\ d.op = c.op /\ d.ud = c.ud /\ d.scoped = c.scoped /\ d.inBoard = c.inBoard /\ d.phase = phase
    BY <1>1 DEF Call
  <2>2. thread' = [thread EXCEPT ![t] = d]
    BY <1>1, <1>5 DEF Goto
  <2> HIDE DEF d
  <2>3. Local(d)
    BY <1>1, <1>2, <1>5, <2>1 DEF Local
  <2>4. Moves(t, d) /\ Own(d) = Own(c)
    BY <1>2, <1>5, <2>1, <2>2, <2>3, PhaseMoves
  <2>5. First => Knows(d, online)
    BY <1>5, <2>1 DEF IInv, Kept, Knows
  <2> QED BY <1>1, <1>5, <2>4, <2>5, QuietStep DEF driver
<1>6. ASSUME Fails(t), c.phase # "save", c.inBoard \/ c.op # "close",
             UNCHANGED <<driver, boardHandle, held>>, reachable' \in BOOLEAN
      PROVE  IInv'
  <2>1. PICK d : Moves(t, d) /\ Own(d) = Own(c) /\ \A on \in BOOLEAN : Knows(d, on)
    BY <1>6, FailQuietly
  <2> QED BY <1>1, <1>6, <2>1, QuietStep DEF driver
<1>7. CASE Conn(t)
  BY <1>1, <1>4, <1>5, <1>7 DEF Conn, At
<1>8. CASE Probe(t)
  <2>1. c.phase = "probe" /\ UNCHANGED <<plugged, online, replugs, reachable, boardHandle, held>>
    BY <1>8 DEF Probe, At
  <2>2. CASE Goto(t, "seen") /\ UNCHANGED table
    BY <1>5, <2>1, <2>2 DEF driver
  <2>3. CASE Fails(t) /\ table' = IF c.op = "close" /\ c.scoped THEN Unclosed(t, c.ud) ELSE table
    <3>1. PICK d : /\ Moves(t, d)
                   /\ \/ Own(d) = Own(c)
                      \/ ~c.inBoard /\ c.op = "close" /\ Own(d) = {}
                   /\ \A on \in BOOLEAN : Knows(d, on)
      BY <2>1, <2>3, FailMoves
    <3>2. CASE ~(c.op = "close" /\ c.scoped)
      <4>1. Own(d) = Own(c) /\ UNCHANGED table
        BY <2>3, <3>1, <3>2 DEF Own
      <4> QED BY <1>1, <2>1, <3>1, <4>1, QuietStep
    <3>3. CASE c.op = "close" /\ c.scoped
      <4>1. Own(d) = {} /\ Own(c) = {c.ud} /\ c.ud \in Slots
        <5>1. c.ud \in Slots /\ ~c.inBoard
          BY <1>1, <3>3, ClientAssumption DEF Local
        <5>2. Return(t, FALSE)
          BY <2>3, <5>1 DEF Fails
        <5>3. d = NotCalling
          BY <1>1, <3>1, <3>3, <5>2 DEF Return, Moves
        <5> QED BY <3>3, <5>1, <5>3 DEF Own, NotCalling
      <4>2. First => c.ud \notin held[t]
        BY <4>1 DEF IInv, Kept
      <4>3. table' = Unclosed(t, c.ud)
        BY <2>3, <3>3
      <4>4. UnclosedHolds(t, c.ud)
        BY <4>1, <4>3, UnclosedTable
      <4>5. Spares(t, d)
        BY <4>1, <4>2, <4>4 DEF Spares, UnclosedHolds
      <4> QED BY <1>1, <2>1, <3>1, <4>5, SlotStep
    <3> QED BY <3>2, <3>3
  <2> QED BY <1>8, <2>2, <2>3 DEF Probe
<1>9. CASE Seen(t)
  BY <1>4, <1>9 DEF Seen, At
<1>10. CASE Gone(t)
  <2>1. c.inBoard \/ c.op # "close"
    BY <1>1, <1>10 DEF Gone, At, Local
  <2> QED BY <1>1, <1>6, <1>10, <2>1 DEF Gone, At
<1>11. CASE Online(t)
  <2> DEFINE d == [c EXCEPT !.phase = "open"]
  <2>1. d \in Call /\ d.op = c.op /\ d.ud = c.ud /\ d.scoped = c.scoped /\ d.inBoard = c.inBoard /\ d.phase = "open"
    BY <1>1 DEF Call
  <2>2. /\ thread' = [thread EXCEPT ![t] = d] /\ c.phase = "online" /\ online' = TRUE
        /\ UNCHANGED <<plugged, table, replugs, reachable, boardHandle, held>>
    BY <1>1, <1>11 DEF Online, Goto, At
  <2> HIDE DEF d
  <2>3. Local(d) /\ Knows(d, online')
    BY <1>1, <1>2, <2>1, <2>2 DEF Local, Knows
  <2>4. Moves(t, d) /\ Own(d) = Own(c)
    BY <1>2, <2>1, <2>2, <2>3, PhaseMoves
  <2> QED BY <1>1, <2>2, <2>3, <2>4, QuietStep
<1> QED BY <1>3, <1>7, <1>8, <1>9, <1>10, <1>11

(* The reply is lost, and with it the descriptor that was opened.          *)
LEMMA UnansweredKeeps ==
    ASSUME IInv, NEW t \in Threads, Unanswered(t)
    PROVE  IInv'
<1> DEFINE c == thread[t]
<1>1. c \in Call /\ Local(c) /\ reachable \in BOOLEAN /\ online \in BOOLEAN /\ table \in [Slots -> Content]
  BY DEF IInv, TypeOK, Locals
<1>2. /\ c.phase \in {"online", "open"} /\ plugged /\ Fails(t)
      /\ UNCHANGED <<plugged, replugs, reachable, boardHandle, held>>
  BY DEF Unanswered, At
<1>3. c.inBoard \/ c.op # "close"
  BY <1>1, <1>2 DEF Local
<1>4. PICK d : Moves(t, d) /\ Own(d) = Own(c) /\ \A on \in BOOLEAN : Knows(d, on)
  BY <1>2, <1>3, FailQuietly
<1>5. CASE online' = TRUE /\ UNCHANGED table
  BY <1>1, <1>2, <1>4, <1>5, QuietStep
<1>6. ASSUME NEW h \in Slots, Allocates(table, h), table' = [table EXCEPT ![h] = Lost], UNCHANGED online
      PROVE  IInv'
  <2>1. /\ table[h] = Free /\ table'[h] = Lost /\ table' \in [Slots -> Content]
        /\ \A k \in Slots \ {h} : table'[k] = table[k]
    BY <1>1, <1>6, ContentsDiffer DEF Allocates
  <2>2. Spares(t, d)
    BY <1>2, <1>4, <2>1 DEF Spares
  <2> QED BY <1>1, <1>2, <1>4, <1>6, <2>2, SlotStep
<1> QED BY <1>5, <1>6 DEF Unanswered

(* It uses a descriptor.                                                   *)
LEMMA UseKeeps ==
    ASSUME IInv, NEW t \in Threads, Use(t)
    PROVE  IInv'
<1>1. /\ thread[t].phase = "call" /\ thread[t].op = "use"
      /\ Return(t, IsOpen(table, thread[t].handle) /\ online)
      /\ UNCHANGED <<driver, reachable, boardHandle, held>>
  BY DEF Use, At
<1>2. (IsOpen(table, thread[t].handle) /\ online) \in BOOLEAN /\ reachable \in BOOLEAN /\ online \in BOOLEAN
  BY DEF IInv, TypeOK
<1>3. PICK d : /\ Moves(t, d)
               /\ Own(d) = Own(thread[t]) \/ (thread[t].op = "close" /\ Own(d) = {})
               /\ \A on \in BOOLEAN : Knows(d, on)
  BY <1>1, <1>2, ReturnMoves
<1> QED BY <1>1, <1>2, <1>3, QuietStep DEF driver

-----------------------------------------------------------------------------
(* The steps that open and close descriptors.                              *)

(* The board is opened: one descriptor more, one thread less that may.     *)
LEMMA OpenBoardKeeps ==
    ASSUME IInv, NEW t \in Threads, OpenBoard(t)
    PROVE  IInv'
<1> DEFINE c == thread[t]
<1>1. c \in Call /\ Local(c) /\ thread \in [Threads -> Call] /\ reachable \in BOOLEAN /\ online \in BOOLEAN
      /\ table \in [Slots -> Content]
  BY DEF IInv, TypeOK, Locals
<1>2. /\ c.phase = "open" /\ c.inBoard /\ plugged
      /\ UNCHANGED <<plugged, online, replugs, reachable, boardHandle, held>>
  BY DEF OpenBoard, At
<1>3. ASSUME Fails(t), UNCHANGED table
      PROVE  IInv'
  <2>1. PICK d : Moves(t, d) /\ Own(d) = Own(c) /\ \A on \in BOOLEAN : Knows(d, on)
    BY <1>2, <1>3, FailQuietly
  <2> QED BY <1>1, <1>2, <1>3, <2>1, QuietStep
<1>4. ASSUME NEW h \in Slots, Allocates(table, h), table' = [table EXCEPT ![h] = Board],
             thread' = [thread EXCEPT ![t].phase = "save", ![t].handle = h]
      PROVE  IInv'
  <2> DEFINE d == [c EXCEPT !.phase = "save", !.handle = h]
  <2>1. /\ d \in Call /\ d.op = c.op /\ d.ud = c.ud /\ d.scoped = c.scoped /\ d.inBoard = c.inBoard
        /\ d.phase = "save" /\ d.handle = h
    BY <1>1 DEF Call
  <2>2. thread' = [thread EXCEPT ![t] = d]
    BY <1>1, <1>4
  <2> HIDE DEF d
  <2>3. thread'[t] = d /\ \A u \in Threads \ {t} : thread'[u] = thread[u]
    BY <1>1, <2>2
  <2>4. /\ table[h] = Free /\ table'[h] = Board
        /\ \A k \in Slots \ {h} : table'[k] = table[k]
    BY <1>1, <1>4 DEF Allocates
  <2>5. \A u \in Threads : Own(thread'[u]) = Own(thread[u])
    BY <2>1, <2>3 DEF Own
  <2>6. \A u \in Threads : Uds(u)' = Uds(u)
    BY <1>2, <2>5 DEF Uds, Own
  <2>7. c.op # "none"
    BY <1>1, <1>2 DEF Local, NotCalling
  <2>8. TypeOK'
    <3>1. thread' \in [Threads -> Call]
      BY <1>1, <2>1, <2>2
    <3>2. table' \in [Slots -> Content]
      <4>1. table \in [Slots -> Content] /\ Board \in Content
        BY ContentsDiffer DEF IInv, TypeOK
      <4> QED BY <1>4, <4>1
    <3> QED BY <1>2, <3>1, <3>2 DEF IInv, TypeOK
  <2>9. Local(d)
    BY <1>1, <1>2, <2>1, <2>7 DEF Local
  <2>10. Locals' /\ GoneIsEmpty'
    BY <1>2, <2>3, <2>9 DEF IInv, Locals, GoneIsEmpty
  <2>11. CallsOwn'
    BY <2>1, <2>3, <2>6 DEF IInv, CallsOwn
  <2>12. NoneLost'
    <3> SUFFICES ASSUME NEW u \in Threads, NEW k \in Slots, table'[k] = Device(u)
                 PROVE  k \in Uds(u)'
      BY DEF NoneLost, Device
    <3>1. k # h
      BY <2>4, ContentsDiffer
    <3> QED BY <2>4, <2>6, <3>1 DEF IInv, NoneLost
  <2>13. Kept'
    <3> SUFFICES ASSUME First
                 PROVE  /\ \A u \in Threads, k \in Slots : k \in Uds(u)' => table'[k] = Device(u) /\ online
                        /\ boardHandle # NoHandle => table'[boardHandle] = Board /\ online
                        /\ \A u \in Threads :
                             /\ Own(thread'[u]) \cap held[u] = {}
                             /\ Knows(thread'[u], online)
                             /\ thread'[u].phase = "save" => table'[thread'[u].handle] = Board /\ online
      BY <1>2 DEF Kept, First, Device, Board, Knows, Own
    <3>1. online
      BY <1>2 DEF IInv, Kept, Knows
    <3>2. ASSUME NEW u \in Threads, NEW k \in Slots, k \in Uds(u)'
          PROVE  table'[k] = Device(u)
      <4>1. table[k] = Device(u)
        BY <2>6, <3>2 DEF IInv, Kept
      <4> QED BY <2>4, <4>1, ContentsDiffer
    <3>3. boardHandle # NoHandle => table'[boardHandle] = Board
      BY <2>4, ContentsDiffer DEF IInv, Kept, TypeOK
    <3>4. ASSUME NEW u \in Threads
          PROVE  /\ Own(thread'[u]) \cap held[u] = {}
                 /\ Knows(thread'[u], online)
                 /\ thread'[u].phase = "save" => table'[thread'[u].handle] = Board
      <4>1. Own(thread'[u]) \cap held[u] = {}
        BY <2>5 DEF IInv, Kept
      <4>2. Knows(thread'[u], online)
        BY <3>1 DEF Knows
      <4>3. CASE u = t
        BY <2>1, <2>3, <2>4, <4>1, <4>2, <4>3
      <4>4. CASE u # t
        <5>1. thread[u].phase = "save" => table[thread[u].handle] = Board /\ thread[u].handle \in Slots
          BY DEF IInv, Kept, Locals, Local
        <5> QED BY <2>3, <2>4, <4>1, <4>2, <4>4, <5>1, ContentsDiffer
      <4> QED BY <4>3, <4>4
    <3> QED BY <3>1, <3>2, <3>3, <3>4
  <2>14. Few'
    <3>1. BoardSlots' = BoardSlots \cup {h} /\ h \notin BoardSlots
      BY <2>4, ContentsDiffer DEF BoardSlots, Board
    <3>2. MayOpen' = MayOpen \ {t} /\ t \in MayOpen
      BY <1>2, <2>1, <2>3 DEF MayOpen
    <3>3. Cardinality(BoardSlots') = Cardinality(BoardSlots) + 1
      BY <3>1, Counted, FS_AddElement
    <3>4. Cardinality(MayOpen') = Cardinality(MayOpen) - 1
      BY <3>2, Counted, FS_RemoveElement
    <3> QED BY <3>3, <3>4, Counted DEF IInv, Few
  <2> QED BY <2>8, <2>10, <2>11, <2>12, <2>13, <2>14 DEF IInv
<1> QED BY <1>3, <1>4 DEF OpenBoard

(* Its handle is cached: from now on only who is at it already may open    *)
(* the board.                                                              *)
LEMMA SaveKeeps ==
    ASSUME IInv, NEW t \in Threads, Save(t)
    PROVE  IInv'
<1> DEFINE h == thread[t].handle
<1>1. /\ thread[t].phase = "save" /\ thread[t].inBoard /\ h \in Slots /\ h # NoHandle
      /\ boardHandle' = h /\ BoardHandleIs(t, h) /\ UNCHANGED <<driver, reachable, held>>
      /\ thread \in [Threads -> Call]
  BY ClientAssumption DEF Save, At, IInv, TypeOK, Locals, Local
<1>2. PICK d : BoardTold(t, h, d)
  BY <1>1, BoardHandleTold
<1>3. thread'[t] = d /\ \A u \in Threads \ {t} : thread'[u] = thread[u]
  BY <1>1, <1>2 DEF BoardTold
<1>4. /\ d \in Call /\ Local(d) /\ d.phase # "save" /\ ~d.inBoard
      /\ d.op \in {"use", "close"} => d.ud \notin Slots
      /\ Own(d) = {} /\ Own(thread[t]) = {}
      /\ thread' = [thread EXCEPT ![t] = d]
  BY <1>2 DEF BoardTold
<1>5. \A u \in Threads : Own(thread'[u]) = Own(thread[u])
  BY <1>3, <1>4
<1>6. \A u \in Threads : Uds(u)' = Uds(u)
  BY <1>1, <1>5 DEF Uds, Own
<1>7. TypeOK'
  BY <1>1, <1>4 DEF IInv, TypeOK, driver
<1>8. Locals' /\ GoneIsEmpty'
  BY <1>1, <1>3, <1>4 DEF IInv, Locals, GoneIsEmpty, driver
<1>9. CallsOwn' /\ NoneLost'
  BY <1>1, <1>3, <1>4, <1>6 DEF IInv, CallsOwn, NoneLost, driver, Device
<1>10. Kept'
  <2> SUFFICES ASSUME First
               PROVE  /\ \A u \in Threads, k \in Slots : k \in Uds(u)' => table[k] = Device(u) /\ online
                      /\ table[h] = Board /\ online
                      /\ \A u \in Threads :
                           /\ Own(thread'[u]) \cap held[u] = {}
                           /\ Knows(thread'[u], online)
                           /\ thread'[u].phase = "save" => table[thread'[u].handle] = Board /\ online
    BY <1>1 DEF Kept, First, Device, Board, Knows, Own, driver
  <2>1. table[h] = Board /\ online
    BY <1>1 DEF IInv, Kept
  <2>2. \A u \in Threads, k \in Slots : k \in Uds(u)' => table[k] = Device(u)
    BY <1>6 DEF IInv, Kept
  <2>3. \A u \in Threads : Own(thread'[u]) \cap held[u] = {} /\ Knows(thread'[u], online)
    BY <1>5, <2>1 DEF IInv, Kept, Knows
  <2>4. \A u \in Threads : thread'[u].phase = "save" => table[thread'[u].handle] = Board
    BY <1>3, <1>4 DEF IInv, Kept
  <2> QED BY <2>1, <2>2, <2>3, <2>4
<1>11. Few'
  <2>1. MayOpen' \subseteq MayOpen
    BY <1>1, <1>3, <1>4 DEF MayOpen
  <2>2. BoardSlots' \subseteq BoardSlots
    BY <1>1 DEF BoardSlots, driver, Board
  <2> QED BY <1>7, <2>1, <2>2, FewerStay DEF IInv
<1> QED BY <1>7, <1>8, <1>9, <1>10, <1>11 DEF IInv

(* A device is opened, for good or for a scoped call.                      *)
LEMMA OpenDeviceKeeps ==
    ASSUME IInv, NEW t \in Threads, OpenDevice(t)
    PROVE  IInv'
<1> DEFINE c == thread[t]
<1>1. c \in Call /\ Local(c) /\ thread \in [Threads -> Call] /\ reachable \in BOOLEAN /\ online \in BOOLEAN
      /\ table \in [Slots -> Content] /\ held \in [Threads -> SUBSET Slots]
  BY DEF IInv, TypeOK, Locals
<1>2. /\ c.phase = "open" /\ ~c.inBoard /\ plugged /\ c.op = "dev"
      /\ UNCHANGED <<plugged, online, replugs, reachable, boardHandle>>
  BY <1>1 DEF OpenDevice, At, Local
<1>3. ASSUME Fails(t), UNCHANGED <<table, held>>
      PROVE  IInv'
  <2>1. PICK d : Moves(t, d) /\ Own(d) = Own(c) /\ \A on \in BOOLEAN : Knows(d, on)
    BY <1>2, <1>3, FailQuietly
  <2> QED BY <1>1, <1>2, <1>3, <2>1, QuietStep
<1>4. ASSUME NEW h \in Slots, Allocates(table, h), table' = [table EXCEPT ![h] = Device(t)],
             held' = [held EXCEPT ![t] = IF c.scoped THEN @ ELSE @ \cup {h}],
             thread' = [thread EXCEPT ![t] =
               IF c.scoped
               THEN [NotCalling EXCEPT !.op = "use", !.ud = h, !.phase = "conn", !.scoped = TRUE]
               ELSE NotCalling]
      PROVE  IInv'
  <2> DEFINE d == IF c.scoped
                  THEN [NotCalling EXCEPT !.op = "use", !.ud = h, !.phase = "conn", !.scoped = TRUE]
                  ELSE NotCalling
  <2>1. /\ d \in Call /\ d.inBoard = FALSE /\ d.phase \in {"conn", "idle"}
        /\ d.op # "dev" /\ (d.op \in {"use", "close"} => d.scoped /\ d.ud = h)
        /\ d.scoped = c.scoped /\ (d.scoped => d.op = "use" /\ d.ud = h)
        /\ Local(d)
    BY <1>1 DEF NotCalling, Call, Ops, Local
  <2>2. thread' = [thread EXCEPT ![t] = d]
    BY <1>4
  <2> HIDE DEF d
  <2>3. thread'[t] = d /\ \A u \in Threads \ {t} : thread'[u] = thread[u]
    BY <1>1, <2>2
  <2>4. /\ table[h] = Free /\ table'[h] = Device(t)
        /\ \A k \in Slots \ {h} : table'[k] = table[k]
    BY <1>1, <1>4 DEF Allocates
  <2>5. Own(c) = {} /\ Own(d) = IF c.scoped THEN {h} ELSE {}
    BY <1>2, <2>1 DEF Own
  <2>6. held'[t] = (IF c.scoped THEN held[t] ELSE held[t] \cup {h}) /\ \A u \in Threads \ {t} : held'[u] = held[u]
    BY <1>1, <1>4
  <2>7. \A u \in Threads : Uds(u) = held[u] \cup Own(thread[u]) /\ Uds(u)' = held'[u] \cup Own(thread'[u])
    BY DEF Uds, Own
  <2>8. Uds(t)' = Uds(t) \cup {h} /\ \A u \in Threads \ {t} : Uds(u)' = Uds(u)
    BY <2>3, <2>5, <2>6, <2>7
  <2>9. TypeOK'
    <3>1. thread' \in [Threads -> Call]
      BY <1>1, <2>1, <2>2
    <3>2. table' \in [Slots -> Content]
      <4>1. table \in [Slots -> Content] /\ Device(t) \in Content
        BY ContentsDiffer DEF IInv, TypeOK
      <4> QED BY <1>4, <4>1
    <3>3. held' \in [Threads -> SUBSET Slots]
      BY <1>4 DEF IInv, TypeOK
    <3> QED BY <1>2, <3>1, <3>2, <3>3 DEF IInv, TypeOK
  <2>10. Locals' /\ GoneIsEmpty'
    BY <1>2, <2>1, <2>3 DEF IInv, Locals, GoneIsEmpty
  <2>11. CallsOwn'
    BY <2>1, <2>3, <2>8 DEF IInv, CallsOwn
  <2>12. NoneLost'
    <3> SUFFICES ASSUME NEW u \in Threads, NEW k \in Slots, table'[k] = Device(u)
                 PROVE  k \in Uds(u)'
      BY DEF NoneLost, Device
    <3>1. CASE k = h
      BY <2>4, <2>8, <3>1, ContentsDiffer
    <3>2. CASE k # h
      BY <2>4, <2>8, <3>2 DEF IInv, NoneLost
    <3> QED BY <3>1, <3>2
  <2>13. Kept'
    <3> SUFFICES ASSUME First
                 PROVE  /\ \A u \in Threads, k \in Slots : k \in Uds(u)' => table'[k] = Device(u) /\ online
                        /\ boardHandle # NoHandle => table'[boardHandle] = Board /\ online
                        /\ \A u \in Threads :
                             /\ Own(thread'[u]) \cap held'[u] = {}
                             /\ Knows(thread'[u], online)
                             /\ thread'[u].phase = "save" => table'[thread'[u].handle] = Board /\ online
      BY <1>2 DEF Kept, First, Device, Board, Knows, Own
    <3>1. online
      BY <1>2 DEF IInv, Kept, Knows
    <3>2. \A u \in Threads, k \in Slots : k \in Uds(u) => table[k] = Device(u) /\ k # h
      BY <2>4, ContentsDiffer DEF IInv, Kept
    <3>3. \A u \in Threads, k \in Slots : k \in Uds(u)' => table'[k] = Device(u)
      BY <2>4, <2>8, <3>2
    <3>4. boardHandle # NoHandle => table'[boardHandle] = Board
      BY <2>4, ContentsDiffer DEF IInv, Kept, TypeOK
    <3>5. ASSUME NEW u \in Threads
          PROVE  /\ Own(thread'[u]) \cap held'[u] = {}
                 /\ Knows(thread'[u], online)
                 /\ thread'[u].phase = "save" => table'[thread'[u].handle] = Board
      <4>1. Knows(thread'[u], online)
        BY <3>1 DEF Knows
      <4>2. CASE u = t
        <5>1. h \notin held[t]
          BY <2>7, <3>2
        <5> QED BY <2>1, <2>3, <2>5, <2>6, <4>1, <4>2, <5>1
      <4>3. CASE u # t
        <5>1. thread[u].phase = "save" => table[thread[u].handle] = Board /\ thread[u].handle \in Slots
          BY DEF IInv, Kept, Locals, Local
        <5>2. Own(thread[u]) \cap held[u] = {}
          BY DEF IInv, Kept
        <5> QED BY <2>3, <2>4, <2>6, <4>1, <4>3, <5>1, <5>2, ContentsDiffer
      <4> QED BY <4>2, <4>3
    <3> QED BY <3>1, <3>3, <3>4, <3>5
  <2>14. Few'
    <3>1. BoardSlots' \subseteq BoardSlots
      BY <2>4, ContentsDiffer DEF BoardSlots, Board
    <3>2. MayOpen' \subseteq MayOpen
      BY <1>2, <2>1, <2>3 DEF MayOpen
    <3> QED BY <2>9, <3>1, <3>2, FewerStay DEF IInv
  <2> QED BY <2>9, <2>10, <2>11, <2>12, <2>13, <2>14 DEF IInv
<1> QED BY <1>3, <1>4 DEF OpenDevice

(* A descriptor is closed: the device's own, unless it is the board's ud.  *)
LEMMA CloseKeeps ==
    ASSUME IInv, NEW t \in Threads, Close(t)
    PROVE  IInv'
<1> DEFINE c == thread[t]
           h == c.handle
<1>1. c \in Call /\ Local(c) /\ thread \in [Threads -> Call] /\ reachable \in BOOLEAN /\ online \in BOOLEAN
      /\ table \in [Slots -> Content] /\ held \in [Threads -> SUBSET Slots]
  BY DEF IInv, TypeOK, Locals
<1>2. /\ c.phase = "call" /\ c.op = "close"
      /\ (plugged /\ table' = Release(table, h)) \/ table' = Unclosed(t, h)
      /\ reachable' \in BOOLEAN
      /\ held' = [held EXCEPT ![t] = IF c.scoped THEN @ ELSE @ \ {c.ud}]
      /\ Return(t, TRUE)
      /\ UNCHANGED <<plugged, online, replugs, boardHandle>>
  BY <1>1 DEF Close, At
<1>3. thread' = [thread EXCEPT ![t] = NotCalling]
  BY <1>1, <1>2 DEF Return
<1>4. thread'[t] = NotCalling /\ \A u \in Threads \ {t} : thread'[u] = thread[u]
  BY <1>1, <1>3
<1>5. NotCalling \in Call /\ Local(NotCalling) /\ Own(NotCalling) = {}
      /\ NotCalling.phase = "idle" /\ ~NotCalling.inBoard /\ NotCalling.op = "none"
      /\ \A on \in BOOLEAN : Knows(NotCalling, on)
  BY DEF NotCalling, Call, Ops, Local, Own, Knows
<1>6. /\ table' \in [Slots -> Content]
      /\ \A k \in Slots : table'[k] \in {table[k], Free, Lost}
      /\ \A k \in Slots \ {h} : table'[k] = table[k]
      /\ h \in Slots => table'[h] # Device(t)
      /\ ~plugged => table' = table
  <2>1. CASE plugged /\ table' = Release(table, h)
    BY <1>1, <2>1, ContentsDiffer DEF Release, IsOpen
  <2>2. CASE table' = Unclosed(t, h)
    <3>1. UnclosedHolds(t, h)
      BY <2>2, UnclosedTable
    <3>2. \A k \in Slots : table'[k] \in {table[k], Free, Lost} /\ (~plugged => table'[k] = table[k])
      BY <3>1 DEF UnclosedHolds
    <3> QED BY <1>1, <3>1, <3>2 DEF UnclosedHolds
  <2> QED BY <1>2, <2>1, <2>2
<1>7. held'[t] = (IF c.scoped THEN held[t] ELSE held[t] \ {c.ud}) /\ \A u \in Threads \ {t} : held'[u] = held[u]
  BY <1>1, <1>2
<1>8. \A u \in Threads : Uds(u) = held[u] \cup Own(thread[u]) /\ Uds(u)' = held'[u] \cup Own(thread'[u])
  BY DEF Uds, Own
<1>9. Own(c) = IF c.scoped THEN {c.ud} ELSE {}
  BY <1>2 DEF Own
<1>10. Uds(t) \ {c.ud} \subseteq Uds(t)' /\ Uds(t)' \subseteq Uds(t) /\ \A u \in Threads \ {t} : Uds(u)' = Uds(u)
  BY <1>4, <1>5, <1>7, <1>8, <1>9
<1>11. TypeOK'
  BY <1>1, <1>2, <1>3, <1>5, <1>6 DEF IInv, TypeOK
<1>12. Locals' /\ GoneIsEmpty'
  BY <1>2, <1>4, <1>5, <1>6 DEF IInv, Locals, GoneIsEmpty
<1>13. CallsOwn'
  BY <1>4, <1>5, <1>10 DEF IInv, CallsOwn
<1>14. NoneLost'
  <2> SUFFICES ASSUME NEW u \in Threads, NEW k \in Slots, table'[k] = Device(u)
               PROVE  k \in Uds(u)'
    BY DEF NoneLost, Device
  <2>1. table[k] = Device(u)
    BY <1>6, ContentsDiffer
  <2>2. k \in Uds(u)
    BY <2>1 DEF IInv, NoneLost
  <2>3. CASE u = t /\ k = c.ud
    <3>1. h = k
      BY <1>1, <1>2, <2>3 DEF Local
    <3> QED BY <1>6, <2>3, <3>1
  <2> QED BY <1>10, <2>2, <2>3
<1>15. Kept'
  <2> SUFFICES ASSUME First
               PROVE  /\ \A u \in Threads, k \in Slots : k \in Uds(u)' => table'[k] = Device(u) /\ online
                      /\ boardHandle # NoHandle => table'[boardHandle] = Board /\ online
                      /\ \A u \in Threads :
                           /\ Own(thread'[u]) \cap held'[u] = {}
                           /\ Knows(thread'[u], online)
                           /\ thread'[u].phase = "save" => table'[thread'[u].handle] = Board /\ online
    BY <1>2 DEF Kept, First, Device, Board, Knows, Own
  <2>1. c.ud \in Slots /\ h = c.ud /\ h \in Uds(t)
    BY <1>1, <1>2 DEF Local, First, IInv, CallsOwn
  <2>2. table[h] = Device(t)
    BY <2>1 DEF IInv, Kept
  <2>3. h \notin Uds(t)'
    <3>1. Own(c) \cap held[t] = {}
      BY DEF IInv, Kept
    <3> QED BY <1>4, <1>5, <1>7, <1>8, <1>9, <2>1, <3>1
  <2>4. ASSUME NEW u \in Threads, NEW k \in Slots, k \in Uds(u)'
        PROVE  table'[k] = Device(u) /\ online
    <3>1. k \in Uds(u)
      BY <1>10, <2>4
    <3>2. table[k] = Device(u) /\ online
      BY <3>1 DEF IInv, Kept
    <3>3. k # h
      BY <2>2, <2>3, <2>4, <3>2, ContentsDiffer
    <3> QED BY <1>6, <3>2, <3>3
  <2>5. boardHandle # NoHandle => table'[boardHandle] = Board /\ online
    BY <1>6, <2>2, ContentsDiffer DEF IInv, Kept, TypeOK
  <2>6. ASSUME NEW u \in Threads
        PROVE  /\ Own(thread'[u]) \cap held'[u] = {}
               /\ Knows(thread'[u], online)
               /\ thread'[u].phase = "save" => table'[thread'[u].handle] = Board /\ online
    <3>1. CASE u = t
      BY <1>1, <1>4, <1>5, <3>1
    <3>2. CASE u # t
      <4>1. thread[u].phase = "save" => table[thread[u].handle] = Board /\ thread[u].handle \in Slots /\ online
        BY DEF IInv, Kept, Locals, Local
      <4>2. Own(thread[u]) \cap held[u] = {} /\ Knows(thread[u], online)
        BY DEF IInv, Kept
      <4> QED BY <1>4, <1>6, <1>7, <2>2, <3>2, <4>1, <4>2, ContentsDiffer
    <3> QED BY <3>1, <3>2
  <2> QED BY <2>4, <2>5, <2>6
<1>16. Few'
  <2>1. BoardSlots' \subseteq BoardSlots
    BY <1>6, ContentsDiffer DEF BoardSlots, Board
  <2>2. MayOpen' \subseteq MayOpen
    BY <1>2, <1>4, <1>5 DEF MayOpen
  <2> QED BY <1>11, <2>1, <2>2, FewerStay DEF IInv
<1> QED BY <1>11, <1>12, <1>13, <1>14, <1>15, <1>16 DEF IInv

-----------------------------------------------------------------------------
(* The world around the process.                                           *)

(* Another process opens or closes a descriptor of its own.                *)
LEMMA OthersKeep ==
    ASSUME IInv, NEW h \in Slots, table' \in [Slots -> Content],
           table[h] \in {Free, Other}, table'[h] \in {Free, Other},
           \A k \in Slots \ {h} : table'[k] = table[k],
           plugged, online' \in {online, TRUE},
           UNCHANGED <<plugged, replugs, reachable, boardHandle, held, thread>>
    PROVE  IInv'
<1>1. \A u \in Threads : Uds(u)' = Uds(u)
  BY DEF Uds
<1>2. \A k \in Slots : k = h => /\ \A u \in Threads : table[k] # Device(u) /\ table'[k] # Device(u)
                               /\ table[k] # Board /\ table'[k] # Board
  <2>1. ASSUME NEW c \in {Free, Other}
        PROVE  (\A u \in Threads : c # Device(u)) /\ c # Board
    BY <2>1, ContentsDiffer
  <2>2. /\ (\A u \in Threads : table[h] # Device(u)) /\ table[h] # Board
        /\ (\A u \in Threads : table'[h] # Device(u)) /\ table'[h] # Board
    BY <2>1
  <2> QED BY <2>2
<1>3. TypeOK' /\ Locals' /\ GoneIsEmpty'
  BY DEF IInv, TypeOK, Locals, GoneIsEmpty
<1>4. CallsOwn'
  BY <1>1 DEF IInv, CallsOwn
<1>5. NoneLost'
  BY <1>1, <1>2 DEF IInv, NoneLost, Device
<1>6. Kept'
  <2> SUFFICES ASSUME First
               PROVE  /\ \A u \in Threads, k \in Slots : k \in Uds(u)' => table'[k] = Device(u) /\ online'
                      /\ boardHandle # NoHandle => table'[boardHandle] = Board /\ online'
                      /\ \A u \in Threads :
                           /\ Own(thread[u]) \cap held[u] = {}
                           /\ Knows(thread[u], online')
                           /\ thread[u].phase = "save" => table'[thread[u].handle] = Board /\ online'
    BY DEF Kept, First, Device, Board, Knows, Own
  <2>1. online => online'
    OBVIOUS
  <2>2. ASSUME NEW u \in Threads, NEW k \in Slots, k \in Uds(u)'
        PROVE  table'[k] = Device(u) /\ online'
    BY <1>1, <1>2, <2>1, <2>2 DEF IInv, Kept
  <2>3. boardHandle # NoHandle => table'[boardHandle] = Board /\ online'
    BY <1>2, <2>1 DEF IInv, Kept, TypeOK
  <2>4. ASSUME NEW u \in Threads
        PROVE  /\ Own(thread[u]) \cap held[u] = {}
               /\ Knows(thread[u], online')
               /\ thread[u].phase = "save" => table'[thread[u].handle] = Board /\ online'
    <3>1. thread[u].phase = "save" => table[thread[u].handle] = Board /\ thread[u].handle \in Slots /\ online
      BY DEF IInv, Kept, Locals, Local
    <3>2. Own(thread[u]) \cap held[u] = {} /\ Knows(thread[u], online)
      BY DEF IInv, Kept
    <3>3. Knows(thread[u], online')
      BY <2>1, <3>2 DEF Knows
    <3> QED BY <1>2, <2>1, <3>1, <3>2, <3>3
  <2> QED BY <2>2, <2>3, <2>4
<1>7. Few'
  <2>1. BoardSlots' \subseteq BoardSlots
    BY <1>2 DEF BoardSlots, Board
  <2>2. MayOpen' \subseteq MayOpen
    BY DEF MayOpen
  <2> QED BY <1>3, <2>1, <2>2, FewerStay DEF IInv
<1> QED BY <1>3, <1>4, <1>5, <1>6, <1>7 DEF IInv

(* The adapter goes with its descriptors, or comes without any.            *)
LEMMA PlugsKeep ==
    ASSUME IInv, Unplug \/ Plug
    PROVE  IInv'
<1>1. /\ table' \in {table, EmptyTable} /\ online' \in {online, FALSE}
      /\ plugged' \in BOOLEAN /\ replugs' \in 0 .. MaxReplugs
      /\ plugged' => replugs' # 0
      /\ ~plugged' => table' = EmptyTable
      /\ UNCHANGED <<reachable, boardHandle, held, thread>>
  <2>1. MaxReplugs \in Nat /\ replugs \in 0 .. MaxReplugs
    BY ClientAssumption DEF IInv, TypeOK
  <2>2. CASE Unplug
    BY <2>1, <2>2 DEF Unplug
  <2>3. CASE Plug
    <3>1. /\ replugs < MaxReplugs /\ replugs' = replugs + 1 /\ plugged' = TRUE
          /\ UNCHANGED <<table, online, reachable, boardHandle, held, thread>>
      BY <2>3 DEF Plug
    <3>2. replugs' \in 0 .. MaxReplugs /\ replugs' # 0
      BY <2>1, <3>1
    <3> QED BY <3>1, <3>2
  <2> QED BY <2>2, <2>3
<1>2. EmptyTable \in [Slots -> Content] /\ \A k \in Slots : table'[k] = table[k] \/ table'[k] = Free
  BY <1>1, ContentsDiffer DEF EmptyTable
<1>3. TypeOK'
  BY <1>1, <1>2 DEF IInv, TypeOK
<1>4. Locals' /\ GoneIsEmpty' /\ CallsOwn'
  BY <1>1 DEF IInv, Locals, GoneIsEmpty, EmptyTable, CallsOwn, Uds
<1>5. NoneLost'
  <2>1. \A u \in Threads : Uds(u)' = Uds(u)
    BY <1>1 DEF Uds
  <2> QED BY <1>2, <2>1, ContentsDiffer DEF IInv, NoneLost, Device
<1>6. Kept'
  BY <1>1 DEF Kept, First
<1>7. Few'
  <2>1. BoardSlots' \subseteq BoardSlots /\ MayOpen' \subseteq MayOpen
    BY <1>1, <1>2, ContentsDiffer DEF BoardSlots, Board, MayOpen
  <2> QED BY <1>3, <2>1, FewerStay DEF IInv
<1> QED BY <1>3, <1>4, <1>5, <1>6, <1>7 DEF IInv

-----------------------------------------------------------------------------
(* Every step keeps the invariant.                                         *)
LEMMA StepKeeps ==
    ASSUME IInv, [Next]_vars
    PROVE  IInv'
<1>1. CASE UNCHANGED vars
  <2>1. /\ UNCHANGED <<plugged, table, online, replugs, reachable, boardHandle, held, thread>>
        /\ \A u \in Threads : Uds(u)' = Uds(u)
    BY <1>1 DEF vars, Uds
  <2>2. TypeOK' /\ Locals' /\ GoneIsEmpty' /\ CallsOwn' /\ NoneLost'
    BY <2>1 DEF IInv, TypeOK, Locals, GoneIsEmpty, EmptyTable, CallsOwn, NoneLost, Device
  <2>3. Kept'
    BY <2>1 DEF IInv, Kept, First, Device, Board, Knows, Own
  <2>4. BoardSlots' = BoardSlots /\ MayOpen' = MayOpen
    BY <2>1 DEF BoardSlots, Board, MayOpen
  <2>5. Few'
    BY <2>4 DEF IInv, Few
  <2> QED BY <2>2, <2>3, <2>5 DEF IInv
<1>2. ASSUME NEW t \in Threads, NEW op \in Ops, NEW ud \in Slots \cup {BoardUd}, NEW scoped \in BOOLEAN,
             Start(t, op, ud, scoped)
      PROVE  IInv'
  BY <1>2, StartKeeps
<1>3. ASSUME NEW t \in Threads, Step(t)
      PROVE  IInv'
  BY <1>3, ReachKeeps, UnansweredKeeps, OpenBoardKeeps, SaveKeeps, OpenDeviceKeeps, UseKeeps, CloseKeeps DEF Step
<1>4. CASE OtherOpens
  <2>1. PICK h \in Slots : Allocates(table, h) /\ table' = [table EXCEPT ![h] = Other]
    BY <1>4 DEF OtherOpens
  <2>2. /\ table \in [Slots -> Content] /\ table[h] = Free /\ plugged /\ online' \in {online, TRUE}
        /\ UNCHANGED <<plugged, replugs, reachable, boardHandle, held, thread>>
    BY <1>4, <2>1 DEF OtherOpens, Allocates, IInv, TypeOK
  <2>3. table' \in [Slots -> Content] /\ table'[h] = Other /\ \A k \in Slots \ {h} : table'[k] = table[k]
    BY <2>1, <2>2, ContentsDiffer
  <2> QED BY <2>2, <2>3, OthersKeep
<1>5. ASSUME NEW h \in Slots, OtherCloses(h)
      PROVE  IInv'
  <2>1. /\ table \in [Slots -> Content] /\ table[h] = Other /\ table' = [table EXCEPT ![h] = Free]
        /\ UNCHANGED <<plugged, online, replugs, reachable, boardHandle, held, thread>>
    BY <1>5, ContentsDiffer DEF OtherCloses, Release, IsOpen, IInv, TypeOK
  <2>2. plugged
    BY <2>1, ContentsDiffer DEF IInv, TypeOK, GoneIsEmpty, EmptyTable
  <2>3. table' \in [Slots -> Content] /\ table'[h] = Free /\ \A k \in Slots \ {h} : table'[k] = table[k]
    BY <2>1, ContentsDiffer
  <2> QED BY <2>1, <2>2, <2>3, OthersKeep
<1>6. CASE Unplug \/ Plug
  BY <1>6, PlugsKeep
<1> QED BY <1>1, <1>2, <1>3, <1>4, <1>5, <1>6 DEF Next

(* It holds when the process has called nothing yet.                       *)
LEMMA InitHolds == Init => IInv
<1> SUFFICES ASSUME Init PROVE IInv
  OBVIOUS
<1>1. /\ plugged \in BOOLEAN /\ table = EmptyTable /\ online = FALSE /\ replugs = 0 /\ reachable = FALSE
      /\ boardHandle = NoHandle /\ held = [t \in Threads |-> {}] /\ thread = [t \in Threads |-> NotCalling]
  BY DEF Init
<1>2. EmptyTable \in [Slots -> Content] /\ \A h \in Slots : EmptyTable[h] = Free
  BY ContentsDiffer DEF EmptyTable
<1>3. /\ NotCalling \in Call /\ Local(NotCalling) /\ Own(NotCalling) = {} /\ NotCalling.phase = "idle"
      /\ NotCalling.op = "none" /\ NotCalling.scoped = FALSE /\ \A on \in BOOLEAN : Knows(NotCalling, on)
  BY DEF NotCalling, Call, Ops, Local, Own, Knows
<1>4. TypeOK
  <2>1. replugs \in 0 .. MaxReplugs
    BY <1>1, ClientAssumption
  <2>2. held \in [Threads -> SUBSET Slots] /\ thread \in [Threads -> Call]
    BY <1>1, <1>3
  <2> QED BY <1>1, <1>2, <2>1, <2>2 DEF TypeOK
<1>5. \A t \in Threads : Uds(t) = {}
  BY <1>1, <1>3 DEF Uds
<1>6. Locals /\ GoneIsEmpty /\ CallsOwn
  BY <1>1, <1>3 DEF Locals, GoneIsEmpty, CallsOwn
<1>7. NoneLost
  BY <1>1, <1>2, ContentsDiffer DEF NoneLost
<1>8. Kept
  BY <1>1, <1>3, <1>5 DEF Kept
<1>9. Few
  <2>1. BoardSlots = {}
    BY <1>1, <1>2, ContentsDiffer DEF BoardSlots
  <2>2. MayOpen = Threads
    BY <1>1, <1>3 DEF MayOpen
  <2> QED BY <2>1, <2>2, Counted, FS_EmptySet DEF Few
<1> QED BY <1>4, <1>6, <1>7, <1>8, <1>9 DEF IInv

(* So it always holds.                                                     *)
LEMMA Invariance == Spec => []IInv
BY InitHolds, StepKeeps, PTL DEF Spec

(* Every state of the process and of the driver below it is well typed.    *)
THEOREM ClientTypeCorrect == Spec => []TypeOK
<1>1. IInv => TypeOK
  BY DEF IInv
<1> QED BY <1>1, Invariance, PTL

(* ib_488_2.c, ibdev, ibonl: the only devices left open that no caller     *)
(* knows of are those whose reply got lost and those whose close came to   *)
(* nothing, however calls fail half way and adapters come and go.          *)
THEOREM NoDeviceLost == Spec => []NoneLost
<1>1. IInv => NoneLost
  BY DEF IInv
<1> QED BY <1>1, Invariance, PTL

(* gpib_lib_board_handle: however many threads race for it, and however    *)
(* often the adapter is replugged, the descriptors the board was opened to *)
(* with an answer are no more than there are threads.                      *)
THEOREM FewBoardsOpened == Spec => []FewBoardDescriptors
<1>1. IInv => FewBoardDescriptors
  BY Counted DEF IInv, Few, FewBoardDescriptors, BoardSlots
<1> QED BY <1>1, Invariance, PTL

(* ibdev, ibonl: if no thread closes the board itself, a ud reaches the    *)
(* descriptor its thread opened until the adapter is replugged.            *)
THEOREM UdsStayTrue ==
    ASSUME ~BoardCloses
    PROVE  Spec => []UdsReachOwn
<1>1. IInv => UdsReachOwn
  BY DEF IInv, Kept, First, UdsReachOwn
<1> QED BY <1>1, Invariance, PTL
-----------------------------------------------------------------------------
(* How many steps a call may have before it, at most: inside open_board,   *)
(* outside of it, ...                                                      *)
DueInside(phase) ==
    CASE phase = "conn"   -> 13
      [] phase = "probe"  -> 12
      [] phase = "seen"   -> 11
      [] phase = "online" -> 10
      [] phase = "open"   -> 9
      [] phase = "save"   -> 8

DueOutside(op, phase) ==
    CASE phase = "conn"   -> IF op = "dev" THEN 7 ELSE 18
      [] phase = "probe"  -> IF op = "dev" THEN 6 ELSE 17
      [] phase = "seen"   -> IF op = "dev" THEN 5 ELSE 16
      [] phase = "lookup" -> 14
      [] phase = "open"   -> 4
      [] phase = "call"   -> 1

Due(c) == IF c.inBoard THEN DueInside(c.phase) ELSE DueOutside(c.op, c.phase)

(* ... and with its device, of a scoped call.                              *)
Later(c) == IF ~c.scoped THEN 0 ELSE IF c.op = "dev" THEN 60 ELSE IF c.op = "use" THEN 30 ELSE 0

Ahead(c) == Due(c) + Later(c)

(* What is inside open_board and what is outside.                          *)
Inside(c) ==
    IF c.inBoard THEN c.phase \in {"conn", "probe", "seen", "online", "open", "save"}
    ELSE c.phase \in {"conn", "probe", "seen", "lookup", "open", "call", "idle"}

Insides == \A t \in Threads : Inside(thread[t])

(* What each phase weighs.                                                 *)
LEMMA Dues ==
    /\ DueInside("conn") = 13 /\ DueInside("probe") = 12 /\ DueInside("seen") = 11
    /\ DueInside("online") = 10 /\ DueInside("open") = 9 /\ DueInside("save") = 8
    /\ \A op : DueOutside(op, "lookup") = 14 /\ DueOutside(op, "open") = 4 /\ DueOutside(op, "call") = 1
    /\ \A op : DueOutside(op, "conn") = IF op = "dev" THEN 7 ELSE 18
    /\ \A op : DueOutside(op, "probe") = IF op = "dev" THEN 6 ELSE 17
    /\ \A op : DueOutside(op, "seen") = IF op = "dev" THEN 5 ELSE 16
BY DEF DueInside, DueOutside

(* What a call has before it is a number.                                  *)
LEMMA AheadIsNumber ==
    ASSUME NEW c \in Call, Inside(c), Local(c), c # NotCalling
    PROVE  Due(c) \in 1 .. 18 /\ Later(c) \in {0, 30, 60} /\ Ahead(c) \in Nat
<1>1. c.phase # "idle"
  BY DEF Local
<1>2. Due(c) \in 1 .. 18
  BY <1>1, Dues DEF Inside, Due
<1>3. Later(c) \in {0, 30, 60}
  BY DEF Later
<1> QED BY <1>2, <1>3 DEF Ahead

(* A call goes on to d, or it returns.                                     *)
Nears(t, d) ==
    /\ thread' = [thread EXCEPT ![t] = d]
    /\ Inside(d)
    /\ d # NotCalling => Ahead(d) < Ahead(thread[t])

(* It returns.                                                             *)
LEMMA NotCallingNears ==
    ASSUME NEW t \in Threads, thread' = [thread EXCEPT ![t] = NotCalling]
    PROVE  Nears(t, NotCalling)
BY DEF Nears, Inside, NotCalling

(* To another phase, nothing but the handle else changed.                  *)
Onward(t, d) ==
    /\ thread' = [thread EXCEPT ![t] = d]
    /\ Inside(d)
    /\ d.op = thread[t].op /\ d.scoped = thread[t].scoped
    /\ Due(d) \in Nat /\ Due(d) < Due(thread[t])

LEMMA PhaseNears ==
    ASSUME IInv, NEW t \in Threads, NEW d, Onward(t, d), Inside(thread[t]), thread[t] # NotCalling
    PROVE  Nears(t, d)
<1>1. thread[t] \in Call /\ Local(thread[t])
  BY DEF IInv, TypeOK, Locals
<1>2. /\ Due(thread[t]) \in Nat
      /\ Later(thread[t]) \in Nat
  BY <1>1, AheadIsNumber
<1>3. Later(d) = Later(thread[t])
  BY DEF Later, Onward
<1> QED BY <1>2, <1>3 DEF Nears, Ahead, Onward

(* A call returns; a scoped one goes on to its use or to its close.        *)
LEMMA ReturnNears ==
    ASSUME IInv, NEW t \in Threads, NEW ok \in BOOLEAN, Return(t, ok), Inside(thread[t]),
           thread[t] # NotCalling, thread[t].op = "dev" => ~ok
    PROVE  \E d : Nears(t, d)
<1> DEFINE c == thread[t]
<1>1. c \in Call /\ Local(c)
  BY DEF IInv, TypeOK, Locals
<1>2. CASE c.scoped /\ c.op = "use"
  <2> DEFINE d == [c EXCEPT !.op = "close", !.phase = "conn", !.inBoard = FALSE]
  <2>1. d.op = "close" /\ d.phase = "conn" /\ ~d.inBoard /\ d.scoped
    BY <1>1, <1>2 DEF Call
  <2>2. thread' = [thread EXCEPT ![t] = d]
    BY <1>2 DEF Return
  <2>3. Due(c) \in 1 .. 18 /\ Later(c) = 30
    BY <1>1, <1>2, AheadIsNumber DEF Later
  <2> HIDE DEF d, c
  <2>4. Ahead(d) = 18 /\ Inside(d)
    BY <2>1, Dues DEF Ahead, Inside, Due, Later
  <2>5. Ahead(d) < Ahead(c)
    BY <2>3, <2>4 DEF Ahead
  <2>6. Nears(t, d)
    BY <2>2, <2>4, <2>5 DEF Nears, c
  <2> QED BY <2>6
<1>3. CASE ~(c.scoped /\ c.op = "use")
  <2>1. thread' = [thread EXCEPT ![t] = NotCalling]
    BY <1>1, <1>3 DEF Return
  <2> QED BY <2>1, NotCallingNears
<1> QED BY <1>2, <1>3

(* A call is told the board's handle, or that there is none.               *)
LEMMA ToldNears ==
    ASSUME IInv, NEW t \in Threads, NEW h \in Slots \cup {NoHandle}, BoardHandleIs(t, h),
           Inside(thread[t]), thread[t] # NotCalling,
           thread[t].inBoard \/ thread[t].phase = "lookup"
    PROVE  \E d : Nears(t, d)
<1> DEFINE c == thread[t]
<1>1. c \in Call /\ Local(c) /\ c.op \in Ops
  BY DEF IInv, TypeOK, Locals, Local, Call
<1>2. Due(c) \in 8 .. 14
  BY <1>1, Dues DEF Inside, Due, Call
<1>3. CASE c.op = "find" \/ (c.op = "dev" /\ h = NoHandle)
  <2>1. \E ok \in BOOLEAN : Return(t, ok) /\ (c.op = "dev" => ~ok)
    BY <1>3 DEF BoardHandleIs
  <2> QED BY <2>1, ReturnNears
<1>4. CASE c.op = "dev" /\ h # NoHandle
  <2> DEFINE d == [c EXCEPT !.phase = "conn", !.inBoard = FALSE, !.handle = NoHandle]
  <2>1. d.op = "dev" /\ d.phase = "conn" /\ ~d.inBoard /\ d.scoped = c.scoped
    BY <1>1, <1>4 DEF Call
  <2>2. thread' = [thread EXCEPT ![t] = d]
    BY <1>4 DEF BoardHandleIs
  <2> HIDE DEF d, c
  <2>3. Inside(d) /\ Due(d) = 7
    BY <2>1, Dues DEF Inside, Due
  <2>4. Onward(t, d)
    BY <1>2, <1>4, <2>1, <2>2, <2>3 DEF Onward, c
  <2>5. Nears(t, d)
    BY <1>2, <2>4, PhaseNears DEF c
  <2> QED BY <2>5
<1>5. CASE c.op \in {"use", "close"}
  <2> DEFINE d == [c EXCEPT !.phase = "call", !.inBoard = FALSE, !.handle = h]
  <2>1. d.op = c.op /\ d.phase = "call" /\ ~d.inBoard /\ d.scoped = c.scoped
    BY <1>1 DEF Call
  <2>2. thread' = [thread EXCEPT ![t] = d]
    BY <1>5 DEF BoardHandleIs
  <2> HIDE DEF d, c
  <2>3. Inside(d) /\ Due(d) = 1
    BY <2>1, Dues DEF Inside, Due
  <2>4. Onward(t, d)
    BY <1>2, <1>5, <2>1, <2>2, <2>3 DEF Onward, c
  <2>5. Nears(t, d)
    BY <1>2, <2>4, PhaseNears DEF c
  <2> QED BY <2>5
<1> QED BY <1>1, <1>3, <1>4, <1>5 DEF Ops

(* A call fails on the way.                                                *)
LEMMA FailNears ==
    ASSUME IInv, NEW t \in Threads, Fails(t), Inside(thread[t]), thread[t] # NotCalling
    PROVE  \E d : Nears(t, d)
<1>1. CASE thread[t].inBoard
  BY <1>1, ToldNears DEF Fails
<1>2. CASE ~thread[t].inBoard
  BY <1>2, ReturnNears DEF Fails
<1> QED BY <1>1, <1>2

(* A call only goes to another phase.                                      *)
LEMMA GotoNears ==
    ASSUME IInv, NEW t \in Threads, NEW p, Goto(t, p), Inside(thread[t]), thread[t] # NotCalling,
           IF thread[t].inBoard
           THEN p \in {"seen", "probe", "online", "open"} /\ DueInside(p) < DueInside(thread[t].phase)
           ELSE /\ p \in {"seen", "probe", "lookup", "open"}
                /\ DueOutside(thread[t].op, p) < DueOutside(thread[t].op, thread[t].phase)
    PROVE  \E d : Nears(t, d)
<1> DEFINE c == thread[t]
           d == [c EXCEPT !.phase = p]
<1>1. c \in Call /\ thread \in [Threads -> Call]
  BY DEF IInv, TypeOK
<1>2. d.op = c.op /\ d.phase = p /\ d.inBoard = c.inBoard /\ d.scoped = c.scoped
  BY <1>1 DEF Call
<1>3. thread' = [thread EXCEPT ![t] = d]
  BY <1>1 DEF Goto
<1> HIDE DEF d
<1>4. Inside(d)
  BY <1>2 DEF Inside
<1>5. Due(d) < Due(c) /\ Due(d) \in Nat
  <2>1. CASE c.inBoard
    BY <1>2, <2>1, Dues DEF Due
  <2>2. CASE ~c.inBoard
    BY <1>2, <2>2, Dues DEF Due
  <2> QED BY <2>1, <2>2
<1>6. Onward(t, d)
  BY <1>2, <1>3, <1>4, <1>5 DEF Onward
<1>7. Nears(t, d)
  BY <1>2, <1>6, PhaseNears
<1> QED BY <1>7

(* A call has a connection.                                                *)
LEMMA ConnectedNears ==
    ASSUME IInv, NEW t \in Threads, Connected(t), Inside(thread[t]), thread[t] # NotCalling,
           thread[t].phase \in {"conn", "seen"}
    PROVE  \E d : Nears(t, d)
<1> DEFINE c == thread[t]
<1>1. c \in Call
  BY DEF IInv, TypeOK
<1>2. CASE c.inBoard
  <2>1. Goto(t, "online")
    BY <1>2 DEF Connected
  <2>2. DueInside("online") < DueInside(c.phase)
    BY Dues
  <2> QED BY <1>2, <2>1, <2>2, GotoNears
<1>3. CASE ~c.inBoard /\ c.op = "dev"
  <2>1. Goto(t, "open")
    BY <1>3 DEF Connected
  <2>2. DueOutside(c.op, "open") < DueOutside(c.op, c.phase)
    BY <1>3, Dues
  <2> QED BY <1>3, <2>1, <2>2, GotoNears
<1>4. CASE ~c.inBoard /\ c.op # "dev" /\ c.ud = BoardUd
  <2>1. Goto(t, "lookup")
    BY <1>4 DEF Connected
  <2>2. DueOutside(c.op, "lookup") < DueOutside(c.op, c.phase)
    BY <1>4, Dues
  <2> QED BY <1>4, <2>1, <2>2, GotoNears
<1>5. CASE ~c.inBoard /\ c.op # "dev" /\ c.ud # BoardUd
  <2> DEFINE d == [c EXCEPT !.phase = "call", !.handle = c.ud]
  <2>1. d.op = c.op /\ d.phase = "call" /\ ~d.inBoard /\ d.scoped = c.scoped
    BY <1>1, <1>5 DEF Call
  <2>2. thread' = [thread EXCEPT ![t] = d]
    BY <1>5 DEF Connected
  <2> HIDE DEF d
  <2>3. Due(d) = 1 /\ Due(c) \in {16, 18} /\ Inside(d)
    BY <1>5, <2>1, Dues DEF Due, Inside
  <2>4. Onward(t, d)
    BY <2>1, <2>2, <2>3 DEF Onward
  <2>5. Nears(t, d)
    BY <2>4, PhaseNears
  <2> QED BY <2>5
<1> QED BY <1>2, <1>3, <1>4, <1>5

(* Every step of a call brings it nearer its return.                       *)
LEMMA StepNears ==
    ASSUME IInv, NEW t \in Threads, Step(t), Inside(thread[t])
    PROVE  \E d : Nears(t, d)
<1> DEFINE c == thread[t]
<1>1. c \in Call /\ Local(c) /\ thread \in [Threads -> Call] /\ c.inBoard \in BOOLEAN
  BY DEF IInv, TypeOK, Locals, Call
<1>2. c # NotCalling
  <2>1. c.phase # "idle"
    BY DEF Step, Lookup, Conn, Probe, Seen, Gone, Unanswered, Online, OpenBoard, Save, OpenDevice, Use, Close, At
  <2> QED BY <2>1 DEF NotCalling
<1>3. CASE Lookup(t)
  <2>1. c.phase = "lookup" /\ ~c.inBoard
    BY <1>1, <1>3 DEF Lookup, At, Inside
  <2>2. CASE boardHandle # NoHandle
    <3>1. boardHandle \in Slots
      BY <2>2 DEF IInv, TypeOK
    <3> QED BY <1>2, <1>3, <2>1, <2>2, <3>1, ToldNears DEF Lookup
  <2>3. CASE boardHandle = NoHandle
    <3> DEFINE d == [c EXCEPT !.phase = "conn", !.inBoard = TRUE]
    <3>1. d.op = c.op /\ d.phase = "conn" /\ d.inBoard /\ d.scoped = c.scoped
      BY <1>1 DEF Call
    <3>2. thread' = [thread EXCEPT ![t] = d]
      BY <1>1, <1>3, <2>3 DEF Lookup
    <3> HIDE DEF d, c
    <3>3. Due(d) = 13 /\ Due(c) = 14 /\ Inside(d)
      BY <2>1, <3>1, Dues DEF Inside, Due
    <3>4. Onward(t, d)
      BY <1>2, <3>1, <3>2, <3>3 DEF Onward, c
    <3>5. Nears(t, d)
      BY <1>2, <3>4, PhaseNears DEF c
    <3> QED BY <3>5
  <2> QED BY <2>2, <2>3
<1>4. CASE Conn(t)
  <2>1. c.phase = "conn"
    BY <1>4 DEF Conn, At
  <2>2. CASE reachable
    BY <1>2, <1>4, <2>1, <2>2, ConnectedNears DEF Conn
  <2>3. CASE ~reachable
    <3>1. Goto(t, "probe")
      BY <1>4, <2>3 DEF Conn
    <3>2. /\ DueInside("probe") < DueInside(c.phase)
          /\ DueOutside(c.op, "probe") < DueOutside(c.op, c.phase)
      BY <2>1, Dues
    <3> QED BY <1>2, <3>1, <3>2, GotoNears
  <2> QED BY <2>2, <2>3
<1>5. CASE Probe(t)
  <2>1. c.phase = "probe"
    BY <1>5 DEF Probe, At
  <2>2. CASE Fails(t)
    BY <1>2, <2>2, FailNears
  <2>3. CASE Goto(t, "seen")
    <3>1. /\ DueInside("seen") < DueInside(c.phase)
          /\ DueOutside(c.op, "seen") < DueOutside(c.op, c.phase)
      BY <2>1, Dues
    <3> QED BY <1>2, <2>3, <3>1, GotoNears
  <2> QED BY <1>5, <2>2, <2>3 DEF Probe
<1>6. CASE Seen(t)
  BY <1>2, <1>6, ConnectedNears DEF Seen, At
<1>7. CASE Gone(t)
  BY <1>2, <1>7, FailNears DEF Gone
<1>8. CASE Online(t)
  <2>1. c.phase = "online" /\ c.inBoard /\ Goto(t, "open")
    BY <1>1, <1>8 DEF Online, At, Local
  <2>2. DueInside("open") < DueInside(c.phase)
    BY <2>1, Dues
  <2> QED BY <1>2, <2>1, <2>2, GotoNears
<1>9. CASE OpenBoard(t)
  <2>1. c.phase = "open" /\ c.inBoard
    BY <1>1, <1>9 DEF OpenBoard, At
  <2>2. CASE Fails(t)
    BY <1>2, <2>2, FailNears
  <2>3. ASSUME NEW h \in Slots, thread' = [thread EXCEPT ![t].phase = "save", ![t].handle = h]
        PROVE  \E d : Nears(t, d)
    <3> DEFINE d == [c EXCEPT !.phase = "save", !.handle = h]
    <3>1. d.op = c.op /\ d.phase = "save" /\ d.inBoard /\ d.scoped = c.scoped
      BY <1>1, <2>1 DEF Call
    <3>2. thread' = [thread EXCEPT ![t] = d]
      BY <1>1, <2>3
    <3> HIDE DEF d, c
    <3>3. Due(d) = 8 /\ Due(c) = 9 /\ Inside(d)
      BY <2>1, <3>1, Dues DEF Inside, Due
    <3>4. Onward(t, d)
      BY <1>2, <3>1, <3>2, <3>3 DEF Onward, c
    <3>5. Nears(t, d)
      BY <1>2, <3>4, PhaseNears DEF c
    <3> QED BY <3>5
  <2> QED BY <1>9, <2>2, <2>3 DEF OpenBoard
<1>10. CASE Save(t)
  <2>1. c.inBoard /\ c.handle \in Slots
    BY <1>1, <1>10 DEF Save, At, Local
  <2> QED BY <1>2, <1>10, <2>1, ToldNears DEF Save
<1>11. CASE OpenDevice(t)
  <2>1. c.phase = "open" /\ ~c.inBoard /\ c.op = "dev"
    BY <1>1, <1>11 DEF OpenDevice, At, Local
  <2>2. CASE Fails(t)
    BY <1>2, <2>2, FailNears
  <2>3. CASE thread' = [thread EXCEPT ![t] = NotCalling]
    BY <2>3, NotCallingNears
  <2>4. ASSUME NEW h \in Slots, c.scoped,
               thread' = [thread EXCEPT ![t] =
                 [NotCalling EXCEPT !.op = "use", !.ud = h, !.phase = "conn", !.scoped = TRUE]]
        PROVE  \E d : Nears(t, d)
    <3> DEFINE d == [NotCalling EXCEPT !.op = "use", !.ud = h, !.phase = "conn", !.scoped = TRUE]
    <3>1. d.op = "use" /\ d.phase = "conn" /\ ~d.inBoard /\ d.scoped
      BY DEF NotCalling
    <3>2. c.scoped
      BY <1>1, <2>4 DEF Call
    <3>3. thread' = [thread EXCEPT ![t] = d]
      BY <2>4
    <3> HIDE DEF d, c
    <3>4. Inside(d) /\ Ahead(d) = 48 /\ Ahead(c) = 64
      BY <2>1, <3>1, <3>2, Dues DEF Ahead, Inside, Due, Later
    <3>5. Nears(t, d)
      BY <3>3, <3>4 DEF Nears, c
    <3> QED BY <3>5
  <2> QED BY <1>11, <2>2, <2>3, <2>4 DEF OpenDevice
<1>12. CASE Use(t)
  BY <1>2, <1>12, ReturnNears DEF Use
<1>13. CASE Close(t)
  <2>1. c.op # "dev"
    BY <1>13 DEF Close
  <2> QED BY <1>2, <1>13, <2>1, ReturnNears DEF Close
<1>14. CASE Unanswered(t)
  BY <1>2, <1>14, FailNears DEF Unanswered
<1> QED BY <1>3, <1>4, <1>5, <1>6, <1>7, <1>8, <1>9, <1>10, <1>11, <1>12, <1>13, <1>14 DEF Step

(* A thread that begins a call is outside open_board.                      *)
LEMMA InsidesKeep ==
    ASSUME IInv, Insides, [Next]_vars
    PROVE  Insides'
<1>1. thread \in [Threads -> Call]
  BY DEF IInv, TypeOK
<1>2. CASE thread' = thread
  BY <1>2 DEF Insides
<1>3. ASSUME NEW t \in Threads, NEW d, thread' = [thread EXCEPT ![t] = d], Inside(d)
      PROVE  Insides'
  BY <1>1, <1>3 DEF Insides
<1>4. ASSUME NEW t \in Threads, NEW op \in Ops, NEW ud \in Slots \cup {BoardUd}, NEW scoped \in BOOLEAN,
             Start(t, op, ud, scoped)
      PROVE  Insides'
  <2> DEFINE d == [op |-> op, ud |-> ud, phase |-> IF op \in {"dev", "find"} THEN "lookup" ELSE "conn",
                   inBoard |-> FALSE, handle |-> NoHandle, scoped |-> scoped]
  <2>1. thread' = [thread EXCEPT ![t] = d] /\ Inside(d)
    BY <1>4 DEF Start, Inside
  <2> QED BY <1>3, <2>1
<1>5. ASSUME NEW t \in Threads, Step(t)
      PROVE  Insides'
  <2>1. PICK d : Nears(t, d)
    BY <1>5, StepNears DEF Insides
  <2> QED BY <1>3, <2>1 DEF Nears
<1> QED BY <1>2, <1>4, <1>5 DEF Next, OtherOpens, OtherCloses, Unplug, Plug, vars

(* Every ib* call comes nearer its return with each step it takes, however *)
(* many threads race for the board, whatever the other processes do, and   *)
(* however often the adapter goes and comes back in the middle of it: a    *)
(* cache that turns out stale costs the call its outcome, never another    *)
(* round.  With the fairness of the threads this is why CallReturns holds. *)
THEOREM CallsRunDown ==
    Spec => [][\A t \in Threads :
                 thread[t] # NotCalling /\ thread'[t] # NotCalling
                 => IF Step(t)
                    THEN Ahead(thread'[t]) \in Nat /\ Ahead(thread'[t]) < Ahead(thread[t])
                    ELSE thread'[t] = thread[t]]_vars
<1>1. Init => Insides
  BY DEF Init, Insides, Inside, NotCalling
<1>2. ASSUME IInv, Insides, IInv', Insides', Next, NEW t \in Threads,
             thread[t] # NotCalling, thread'[t] # NotCalling
      PROVE  IF Step(t) THEN Ahead(thread'[t]) \in Nat /\ Ahead(thread'[t]) < Ahead(thread[t])
                        ELSE thread'[t] = thread[t]
  <2>1. thread \in [Threads -> Call] /\ thread'[t] \in Call /\ Local(thread'[t]) /\ Inside(thread'[t])
    BY <1>2 DEF IInv, TypeOK, Locals, Insides
  <2>2. CASE Step(t)
    <3>1. PICK d : Nears(t, d)
      BY <1>2, <2>2, StepNears DEF Insides
    <3>2. thread'[t] = d
      BY <2>1, <3>1 DEF Nears
    <3> QED BY <1>2, <2>1, <2>2, <3>1, <3>2, AheadIsNumber DEF Nears
  <2>3. CASE ~Step(t)
    <3>1. ASSUME NEW u \in Threads, NEW op \in Ops, NEW ud \in Slots \cup {BoardUd}, NEW scoped \in BOOLEAN,
                 Start(u, op, ud, scoped)
          PROVE  thread'[t] = thread[t]
      BY <1>2, <2>1, <3>1 DEF Start
    <3>2. ASSUME NEW u \in Threads, Step(u)
          PROVE  thread'[t] = thread[t]
      <4>1. PICK d : Nears(u, d)
        BY <1>2, <3>2, StepNears DEF Insides
      <4> QED BY <2>1, <2>3, <3>2, <4>1 DEF Nears
    <3>3. ASSUME OtherOpens \/ (\E h \in Slots : OtherCloses(h)) \/ Unplug \/ Plug
          PROVE  thread'[t] = thread[t]
      BY <3>3 DEF OtherOpens, OtherCloses, Unplug, Plug
    <3> QED BY <1>2, <2>3, <3>1, <3>2, <3>3 DEF Next
  <2> QED BY <2>2, <2>3
<1>3. IInv /\ Insides /\ IInv' /\ Insides' /\ [Next]_vars =>
        [\A t \in Threads :
           thread[t] # NotCalling /\ thread'[t] # NotCalling
           => IF Step(t)
              THEN Ahead(thread'[t]) \in Nat /\ Ahead(thread'[t]) < Ahead(thread[t])
              ELSE thread'[t] = thread[t]]_vars
  BY <1>2
<1> QED BY <1>1, <1>3, InsidesKeep, Invariance, PTL DEF Spec
=============================================================================
