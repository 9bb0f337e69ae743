------------------------------- MODULE ClientLib -------------------------------
(***************************************************************************)
(* libgpib inside one process (libgpib/src): threads that call the ib*     *)
(* functions on one board, over two caches the process keeps of it: is it  *)
(* reachable, and which handle has the board's own descriptor, opened on   *)
(* first use.                                                              *)
(*                                                                         *)
(* Below it the broker and the driver are one table of descriptors, every  *)
(* broker_call an atomic operation on it (a board's queue is serial, see   *)
(* Broker); other processes open and close descriptors in it too, and the  *)
(* adapter may be unplugged and plugged in again, which starts a new       *)
(* driver instance.  A request may come to nothing, or be carried out and  *)
(* its reply be lost.  Boards are independent: one is enough.  The status    *)
(* globals, the bytes of a call and the configuration of a descriptor are  *)
(* left out; every call that names a descriptor and does not close it is   *)
(* "use".                                                                  *)
(***************************************************************************)
EXTENDS DescriptorTable, FiniteSets

CONSTANTS
    Threads,      \* the threads of the process
    NoHandle,     \* -1 in g_board_handles
    BoardUd,      \* the ud of the board: its index
    BoardCloses,  \* do the threads call ibonl(board, 0)?
    MaxHeld,      \* bound: device descriptors a thread has open at a time
    MaxReplugs,   \* bound: how often the adapter is plugged in again
    MaxStrangers  \* bound: slots in use that the process knows nothing of

ASSUME ClientAssumption ==
    /\ NoHandle \notin Slots /\ BoardUd \notin Slots
    /\ BoardCloses \in BOOLEAN
    /\ MaxHeld \in Nat /\ MaxReplugs \in Nat /\ MaxStrangers \in Nat
    /\ IsFiniteSet(Threads) /\ {"board", "other", "nobody"} \cap Threads = {}
    /\ \A who \in Threads \cup {"board", "other", "nobody"} : Free # [by |-> who]

VARIABLES
    plugged,      \* is the adapter attached?
    table,        \* the descriptor table of its driver
    online,       \* online_ of its GPIBBoard
    replugs,      \* how often it has been plugged in again
    reachable,    \* g_slots[board].reachable
    boardHandle,  \* g_board_handles[board]
    held,         \* the device uds each thread has and has not closed
    thread        \* what each thread is doing, see Call

vars == <<plugged, table, online, replugs, reachable, boardHandle, held, thread>>

driver == <<plugged, table, online, replugs>>

(* Who knows of a slot in use: the thread that opened it with ibdev, the   *)
(* process for the board, another process, or nobody any more: the reply   *)
(* to its open was lost, or the request to close it came to nothing.       *)
Device(t) == [by |-> t]
Board     == [by |-> "board"]
Other     == [by |-> "other"]
Lost      == [by |-> "nobody"]
Content   == {Device(t) : t \in Threads} \cup {Board, Other, Lost, Free}

Strangers(slots) == Cardinality({h \in Slots : slots[h] \in {Other, Lost}})

Ops == {"dev", "find", "use", "close"}

(* A call in progress: `inBoard` while it is inside open_board, `handle`   *)
(* the handle it has found, `scoped` if it is one of the ib_488_2.c calls  *)
(* that open a device, use it and close it.                                *)
Call == [op : Ops \cup {"none"}, ud : Slots \cup {BoardUd},
         phase : {"lookup", "conn", "probe", "seen", "online", "open", "save", "call", "idle"},
         inBoard : BOOLEAN, handle : Slots \cup {NoHandle}, scoped : BOOLEAN]

NotCalling == [op |-> "none", ud |-> BoardUd, phase |-> "idle", inBoard |-> FALSE,
               handle |-> NoHandle, scoped |-> FALSE]

TypeOK ==
    /\ plugged \in BOOLEAN /\ online \in BOOLEAN /\ reachable \in BOOLEAN
    /\ table \in [Slots -> Content]
    /\ replugs \in 0 .. MaxReplugs
    /\ boardHandle \in Slots \cup {NoHandle}
    /\ held \in [Threads -> SUBSET Slots]
    /\ thread \in [Threads -> Call]
-----------------------------------------------------------------------------
(* gpib_lib_init; GPIBBoard::init.                                         *)
Init ==
    /\ plugged \in BOOLEAN
    /\ table = EmptyTable
    /\ online = FALSE
    /\ replugs = 0
    /\ reachable = FALSE
    /\ boardHandle = NoHandle
    /\ held = [t \in Threads |-> {}]
    /\ thread = [t \in Threads |-> NotCalling]

(* Mutant of Start: ibdev does not ensure that the board is open.          *)
StartUnensured(t, op, ud, scoped) ==
    /\ thread[t] = NotCalling
    /\ op \in {"use", "close"} => ud \in held[t] \cup {BoardUd}
    /\ op \in {"dev", "find"} => ud = BoardUd
    /\ op = "close" /\ ud = BoardUd => BoardCloses
    /\ scoped => op = "dev"
    /\ op = "dev" => Cardinality(held[t]) < MaxHeld
    /\ thread' = [thread EXCEPT ![t] =
         [op |-> op, ud |-> ud, phase |-> IF op = "find" THEN "lookup" ELSE "conn",
          inBoard |-> FALSE, handle |-> NoHandle, scoped |-> scoped]]
    /\ UNCHANGED <<driver, reachable, boardHandle, held>>

(* The calls a thread may make: ibfind, ibdev, the calls on a ud it has.   *)
Start(t, op, ud, scoped) ==
    /\ thread[t] = NotCalling
    /\ op \in {"use", "close"} => ud \in held[t] \cup {BoardUd}
    /\ op \in {"dev", "find"} => ud = BoardUd
    /\ op = "close" /\ ud = BoardUd => BoardCloses
    /\ scoped => op = "dev"
    /\ op = "dev" => Cardinality(held[t]) < MaxHeld
    /\ thread' = [thread EXCEPT ![t] =
         [op |-> op, ud |-> ud, phase |-> IF op \in {"dev", "find"} THEN "lookup" ELSE "conn",
          inBoard |-> FALSE, handle |-> NoHandle, scoped |-> scoped]]
    /\ UNCHANGED <<driver, reachable, boardHandle, held>>

At(t, phase) == thread[t].phase = phase

Goto(t, phase) == thread' = [thread EXCEPT ![t].phase = phase]

(* Mutant of Return: a scoped call whose use fails returns at once.        *)
ReturnOnError(t, ok) ==
    LET c == thread[t] IN
      thread' = [thread EXCEPT ![t] =
        IF c.scoped /\ ok /\ c.op = "dev"
        THEN [NotCalling EXCEPT !.op = "use", !.ud = c.handle, !.phase = "conn", !.scoped = TRUE]
        ELSE IF c.scoped /\ ok /\ c.op = "use"
        THEN [c EXCEPT !.op = "close", !.phase = "conn", !.inBoard = FALSE]
        ELSE NotCalling]

(* The call returns; a scoped one that has its device goes on to use and   *)
(* close it, whatever the use came to.                                     *)
Return(t, ok) ==
    LET c == thread[t] IN
      thread' = [thread EXCEPT ![t] =
        IF c.scoped /\ c.op = "dev" /\ ok
        THEN [NotCalling EXCEPT !.op = "use", !.ud = c.handle, !.phase = "conn", !.scoped = TRUE]
        ELSE IF c.scoped /\ c.op = "use"
        THEN [c EXCEPT !.op = "close", !.phase = "conn", !.inBoard = FALSE]
        ELSE NotCalling]

(* gpib_lib_board_handle has returned h: ensure_board_open of ibdev and    *)
(* ibfind test it, gpib_lib_handle_of passes it on as it is.               *)
BoardHandleIs(t, h) ==
    IF thread[t].op = "find" \/ (thread[t].op = "dev" /\ h = NoHandle)
    THEN Return(t, h # NoHandle)
    ELSE thread' = [thread EXCEPT ![t] =
           IF @.op = "dev"
           THEN [@ EXCEPT !.phase = "conn", !.inBoard = FALSE, !.handle = NoHandle]
           ELSE [@ EXCEPT !.phase = "call", !.inBoard = FALSE, !.handle = h]]

(* open_board has failed, or a call that is not inside it.                 *)
Fails(t) == IF thread[t].inBoard THEN BoardHandleIs(t, NoHandle) ELSE Return(t, FALSE)

(* The table when t does not get to close its handle h.                    *)
Unclosed(t, h) == [k \in Slots |-> IF k = h /\ table[k] = Device(t) THEN Lost ELSE table[k]]

(* gpib_lib_board_handle: the cached handle, otherwise open_board.         *)
Lookup(t) ==
    /\ At(t, "lookup")
    /\ IF boardHandle # NoHandle
       THEN BoardHandleIs(t, boardHandle)
       ELSE thread' = [thread EXCEPT ![t].phase = "conn", ![t].inBoard = TRUE]
    /\ UNCHANGED <<driver, reachable, boardHandle, held>>

(* Mutant of Connected: the index of a board is taken for a handle.        *)
ConnectedUntagged(t) ==
    LET c == thread[t] IN
      IF c.inBoard THEN Goto(t, "online")
      ELSE IF c.op = "dev" THEN Goto(t, "open")
      ELSE thread' = [thread EXCEPT ![t].phase = "call", ![t].handle = c.ud]

(* gpib_lib_conn_for_board has returned a connection.                      *)
Connected(t) ==
    LET c == thread[t] IN
      IF c.inBoard THEN Goto(t, "online")
      ELSE IF c.op = "dev" THEN Goto(t, "open")
      ELSE IF c.ud = BoardUd THEN Goto(t, "lookup")
      ELSE thread' = [thread EXCEPT ![t].phase = "call", ![t].handle = c.ud]

(* gpib_lib_conn_for_board: the cache, otherwise a probe.                  *)
Conn(t) ==
    /\ At(t, "conn")
    /\ IF reachable THEN Connected(t) ELSE Goto(t, "probe")
    /\ UNCHANGED <<driver, reachable, boardHandle, held>>

(* A probe without an adapter or an answer fails; the scoped call that was *)
(* about to close its device returns all the same.                         *)
Probe(t) ==
    /\ At(t, "probe")
    /\ \/ plugged /\ Goto(t, "seen") /\ UNCHANGED table
       \/ /\ Fails(t)
          /\ table' = IF thread[t].op = "close" /\ thread[t].scoped
                      THEN Unclosed(t, thread[t].ud) ELSE table
    /\ UNCHANGED <<plugged, online, replugs, reachable, boardHandle, held>>

Seen(t) ==
    /\ At(t, "seen")
    /\ reachable' = TRUE
    /\ Connected(t)
    /\ UNCHANGED <<driver, boardHandle, held>>

(* Mutant of Gone: the call is tried again, the cache left as it is.       *)
GoneRetries(t) ==
    /\ \/ At(t, "online") \/ At(t, "open")
       \/ At(t, "call") /\ thread[t].op = "use"
    /\ Goto(t, "conn")
    /\ UNCHANGED <<driver, reachable, boardHandle, held>>

(* gpib_lib_call_struct: the broker says that the adapter is gone or does  *)
(* not open, which is remembered, or the request fails in another way: the *)
(* driver is not ready, the broker goes before it gets there.              *)
Gone(t) ==
    /\ \/ At(t, "online") \/ At(t, "open")
       \/ At(t, "call") /\ thread[t].op = "use"
    /\ reachable' \in {reachable, FALSE}
    /\ Fails(t)
    /\ UNCHANGED <<driver, boardHandle, held>>

(* broker_call: the driver has done what it was asked to, but the broker   *)
(* goes before it replies.  What has been opened is known to nobody.       *)
Unanswered(t) ==
    /\ plugged
    /\ \/ /\ At(t, "online")
          /\ online' = TRUE
          /\ UNCHANGED table
       \/ /\ At(t, "open")
          /\ \E h \in Slots : Allocates(table, h) /\ table' = [table EXCEPT ![h] = Lost]
          /\ UNCHANGED online
    /\ Fails(t)
    /\ UNCHANGED <<plugged, replugs, reachable, boardHandle, held>>

(* open_board: kGPIBSel_BoardOnline ...                                    *)
Online(t) ==
    /\ At(t, "online") /\ plugged
    /\ online' = TRUE
    /\ Goto(t, "open")
    /\ UNCHANGED <<plugged, table, replugs, reachable, boardHandle, held>>

(* ... and kGPIBSel_OpenDescriptor, which ETAB makes fail.                 *)
OpenBoard(t) ==
    /\ At(t, "open") /\ thread[t].inBoard /\ plugged
    /\ \/ /\ IsFull(table)
          /\ Fails(t)
          /\ UNCHANGED table
       \/ \E h \in Slots :
            /\ Allocates(table, h)
            /\ table' = [table EXCEPT ![h] = Board]
            /\ thread' = [thread EXCEPT ![t].phase = "save", ![t].handle = h]
    /\ UNCHANGED <<plugged, online, replugs, reachable, boardHandle, held>>

(* Mutant of Save: the handle is not remembered.                           *)
SaveNothing(t) ==
    /\ At(t, "save")
    /\ BoardHandleIs(t, thread[t].handle)
    /\ UNCHANGED <<driver, reachable, boardHandle, held>>

(* gpib_lib_set_board_handle: the last thread to open the board wins.      *)
Save(t) ==
    /\ At(t, "save")
    /\ boardHandle' = thread[t].handle
    /\ BoardHandleIs(t, thread[t].handle)
    /\ UNCHANGED <<driver, reachable, held>>

(* ibdev once the board is open.                                           *)
OpenDevice(t) ==
    /\ At(t, "open") /\ ~thread[t].inBoard /\ plugged
    /\ \/ /\ IsFull(table)
          /\ Fails(t)
          /\ UNCHANGED <<table, held>>
       \/ \E h \in Slots :
            /\ Allocates(table, h)
            /\ table' = [table EXCEPT ![h] = Device(t)]
            /\ held' = [held EXCEPT ![t] = IF thread[t].scoped THEN @ ELSE @ \cup {h}]
            /\ thread' = [thread EXCEPT ![t] =
                 IF thread[t].scoped
                 THEN [NotCalling EXCEPT !.op = "use", !.ud = h, !.phase = "conn", !.scoped = TRUE]
                 ELSE NotCalling]
    /\ UNCHANGED <<plugged, online, replugs, reachable, boardHandle>>

(* A call that names a descriptor: it fails with EARG if the handle is not *)
(* open, with ENEB if the board is not online.                             *)
Use(t) ==
    /\ At(t, "call") /\ thread[t].op = "use" /\ plugged
    /\ Return(t, IsOpen(table, thread[t].handle) /\ online)
    /\ UNCHANGED <<driver, reachable, boardHandle, held>>

(* ibonl(ud, 0): whatever comes of the request, nothing else is done about *)
(* the ud, and the caller does not use it again.                           *)
Close(t) ==
    /\ At(t, "call") /\ thread[t].op = "close"
    /\ \/ /\ plugged
          /\ table' = Release(table, thread[t].handle)
          /\ UNCHANGED reachable
       \/ /\ table' = Unclosed(t, thread[t].handle)
          /\ reachable' \in {reachable, FALSE}
    /\ held' = [held EXCEPT ![t] = IF thread[t].scoped THEN @ ELSE @ \ {thread[t].ud}]
    /\ Return(t, TRUE)
    /\ UNCHANGED <<plugged, online, replugs, boardHandle>>

Step(t) ==
    /\ \/ Lookup(t) \/ Conn(t) \/ Probe(t) \/ Seen(t) \/ Gone(t) \/ Unanswered(t)
       \/ Online(t) \/ OpenBoard(t) \/ Save(t) \/ OpenDevice(t) \/ Use(t) \/ Close(t)
    /\ Strangers(table') <= MaxStrangers
-----------------------------------------------------------------------------
(* Another process opens a descriptor, its board perhaps just before.      *)
OtherOpens ==
    /\ plugged
    /\ Strangers(table) < MaxStrangers
    /\ \E h \in Slots : Allocates(table, h) /\ table' = [table EXCEPT ![h] = Other]
    /\ online' \in {online, TRUE}
    /\ UNCHANGED <<plugged, replugs, reachable, boardHandle, held, thread>>

OtherCloses(h) ==
    /\ table[h] = Other
    /\ table' = Release(table, h)
    /\ UNCHANGED <<plugged, online, replugs, reachable, boardHandle, held, thread>>

Unplug ==
    /\ plugged
    /\ plugged' = FALSE
    /\ table' = EmptyTable
    /\ online' = FALSE
    /\ UNCHANGED <<replugs, reachable, boardHandle, held, thread>>

Plug ==
    /\ ~plugged
    /\ replugs < MaxReplugs
    /\ plugged' = TRUE
    /\ replugs' = replugs + 1
    /\ UNCHANGED <<table, online, reachable, boardHandle, held, thread>>

Next ==
    \/ \E t \in Threads :
         \/ \E op \in Ops, ud \in Slots \cup {BoardUd}, scoped \in BOOLEAN :
              Start(t, op, ud, scoped)
         \/ Step(t)
    \/ OtherOpens
    \/ \E h \in Slots : OtherCloses(h)
    \/ Unplug \/ Plug

Spec == Init /\ [][Next]_vars

(* A thread in a call runs on, and every request is answered or fails.     *)
FairSpec == Spec /\ \A t \in Threads : WF_vars(Step(t))
-----------------------------------------------------------------------------
(* The uds of device descriptors of a thread, the one of a scoped call too.*)
Uds(t) == held[t] \cup
          IF thread[t].scoped /\ thread[t].op \in {"use", "close"} THEN {thread[t].ud} ELSE {}

(* As long as the adapter has not been plugged in again: a ud reaches the  *)
(* descriptor its thread opened, on a board that is online, and the ud of  *)
(* the board the board's own descriptor, whoever else opens and closes     *)
(* what and however threads race to open the board.                        *)
UdsReachOwn ==
    plugged /\ replugs = 0 =>
      /\ \A t \in Threads, h \in Slots : h \in Uds(t) => table[h] = Device(t) /\ online
      /\ boardHandle # NoHandle => table[boardHandle] = Board

(* Threads that race to open the board leave at most one descriptor each,  *)
(* however long the process runs and the adapter comes and goes, the ones  *)
(* whose reply was lost aside.                                             *)
FewBoardDescriptors ==
    Cardinality({h \in Slots : table[h] = Board}) <= Cardinality(Threads)

(* No failure, not even half way through a scoped call, leaves a device    *)
(* descriptor open that no caller knows, unless the reply to its open was  *)
(* lost or nothing came of the request to close it (see Lost).             *)
NoneLost == \A t \in Threads, h \in Slots : table[h] = Device(t) => h \in Uds(t)

(* Every call returns: no thread is in one for ever.                       *)
CallReturns == \A t \in Threads : []<>(thread[t] = NotCalling)

(* A replug recovers without a restart (client.c:13-14): what the process  *)
(* opens is open on a board that is online.                                *)
ReplugRecovers == \A t \in Threads, h \in Slots : table[h] = Device(t) => online
=============================================================================
