------------------------------- MODULE Broker -------------------------------
(***************************************************************************)
(* gpibd, the broker agent: one session per connected client, one serial   *)
(* dispatch queue and one cached user-client connection per board, and the *)
(* reaper that closes what a departed client left open (gpibd/gpibd.c).    *)
(* Behind it stand the attached adapters, each a GPIBBoard with its        *)
(* descriptor table; in front of it the clients, which know descriptors by *)
(* (board, handle) only.                                                   *)
(*                                                                         *)
(* The descriptor's own fields, the bytes of a request and of a reply, the *)
(* memory of the process and its log are left out.  Every request that     *)
(* names a handle and does not open or close it (ibrd, ibwrt, ibrsp, ...)  *)
(* is the one operation "use".                                             *)
(***************************************************************************)
EXTENDS DescriptorTable, Sequences, FiniteSets

CONSTANTS
    Clients,       \* XPC peers; each connects once
    Adapters,      \* identities of plugged-in adapters (one dext instance each)
    None,          \* IO_OBJECT_NULL
    Idle,          \* a board queue that runs nothing
    Boards,        \* board indices, 0 .. GPIBD_MAX_BOARDS - 1
    Plugged,       \* the adapters attached at start, in registry order
    Ops,           \* the operations clients ask for
    MaxPending,    \* bound: requests one client has outstanding (its threads)
    MaxEntries,    \* bound: entries of the session list of a client that opens
    KilledMidCall, \* may a client die with requests outstanding?
    Refusals,      \* may IOServiceOpen, or the driver, turn a call down?
    Faults,        \* what may happen behind the broker's back, see AllFaults
    MaxFaults      \* bound: how often it may

AllOps == {"open", "close", "use", "probe", "list", "wait"}

(* An adapter is unplugged, one is plugged in, launchd kills the idle      *)
(* broker (gpibd.c:9-10).                                                  *)
AllFaults == {"unplug", "plug", "restart"}

ASSUME BrokerAssumption ==
    /\ Boards \subseteq Nat
    /\ IsFiniteSet(Boards)
    /\ Plugged \in Seq(Adapters)
    /\ \A j, k \in 1 .. Len(Plugged) : Plugged[j] = Plugged[k] => j = k
    /\ Ops \subseteq AllOps
    /\ KilledMidCall \in BOOLEAN
    /\ Refusals \in BOOLEAN
    /\ Faults \subseteq AllFaults
    /\ MaxFaults \in Nat
    /\ None \notin Adapters

VARIABLES
    attached,  \* the attached adapters, in registry order
    table,     \* each adapter's descriptor table
    conn,      \* g_conn: the adapter each board's cached connection is open to
    queue,     \* the blocks waiting in each board's dispatch queue
    running,   \* the request each board's queue is executing, after its driver call
    peer,      \* each session's life, see PeerStates
    descs,     \* how often each session lists each (board, handle)
    reap,      \* the list session_reap has taken from a session, still to be closed
    held,      \* the (board, handle) pairs each client was given and has not given back
    faults     \* how many faults have happened

vars == <<attached, table, conn, queue, running, peer, descs, reap, held, faults>>

(* "live": connected.  "gone": XPC has reported CONNECTION_INVALID and the *)
(* reap is scheduled on a global queue.  "reaping": session_reap has taken *)
(* the list.  "waiting": it is inside dispatch_sync for one descriptor.    *)
(* "freed": it has freed the session.                                      *)
PeerStates == {"live", "gone", "reaping", "waiting", "freed"}

(* What a slot records: who opened it, on which board, and what became of  *)
(* the broker's record of it: "kept", lost when the broker that relayed    *)
(* the open "exited", or crossed off although the driver "refused" the     *)
(* reaper's close.  The driver stores none of the three; they are what the *)
(* properties speak of.                                                    *)
Owner == [client : Clients, board : Boards, fate : {"kept", "exited", "refused"}]

Opened(c, b) == [client |-> c, board |-> b, fate |-> "kept"]

(* A block on a board's queue: a client's request, or one descriptor the   *)
(* reaper wants closed.  Handle 0 stands for "no handle".                  *)
Block == [op : AllOps \cup {"reap"}, client : Clients, handle : Slots \cup {0}]

(* A request after its driver call: `ok` is kr == KERN_SUCCESS, `handle`   *)
(* the handle opened (0: the table was full) or named by the request.      *)
Result == [op : AllOps, client : Clients, handle : Slots \cup {0}, ok : BOOLEAN]

(* The stand-ins for "nothing" are not mistaken for something.             *)
ASSUME SentinelAssumption == Free \notin Owner /\ Idle \notin Result

Attached == {attached[k] : k \in DOMAIN attached}

Nothing == [e \in Boards \X Slots |-> 0]

(* Mutant of Drop: it unlinks an entry the list does not have.             *)
DropUnlisted(l, e) == [l EXCEPT ![e] = @ - 1]

(* Mutant of Drop: the entry is found and left in the list.                *)
DropKeeps(l, e) == l

(* Add(l, e), Drop(l, e): session_add_desc and session_forget_desc on the  *)
(* list l; the second removes one match and leaves a list without one.     *)
Add(l, e)  == [l EXCEPT ![e] = @ + 1]
Drop(l, e) == [l EXCEPT ![e] = IF @ = 0 THEN 0 ELSE @ - 1]

ListLength(c) ==
    Cardinality(UNION {{e} \X (1 .. descs[c][e]) : e \in Boards \X Slots})

(* The requests of c that have not been answered.                          *)
Outstanding(c) ==
    LET waiting == {q \in UNION {{b} \X DOMAIN queue[b] : b \in Boards} :
                      LET blk == queue[q[1]][q[2]]
                      IN blk.client = c /\ blk.op # "reap"}
        inCall  == {b \in Boards : running[b] # Idle /\ running[b].client = c}
    IN Cardinality(waiting) + Cardinality(inCall)

(* copy_service_for_board: the index-th service in registry order.         *)
Service(b) == IF b + 1 \in DOMAIN attached THEN attached[b + 1] ELSE None

(* Mutant of Connection: a board is resolved anew for every request.       *)
ConnectionUncached(b) == Service(b)

(* connection_for_board: the cached connection, alive or not, otherwise a  *)
(* new one to whatever adapter has the index now.                          *)
Connection(b) == IF conn[b] # None THEN conn[b] ELSE Service(b)

(* The adapter a request on b reaches: a dead connection is dropped and    *)
(* resolved once more.                                                     *)
Reached(b) == IF Connection(b) \in Attached THEN Connection(b) ELSE Service(b)
-----------------------------------------------------------------------------
Init ==
    /\ attached = Plugged
    /\ table = [a \in Adapters |-> EmptyTable]
    /\ conn = [b \in Boards |-> None]
    /\ queue = [b \in Boards |-> <<>>]
    /\ running = [b \in Boards |-> Idle]
    /\ peer = [c \in Clients |-> "live"]
    /\ descs = [c \in Clients |-> Nothing]
    /\ reap = [c \in Clients |-> Nothing]
    /\ held = [c \in Clients |-> {}]
    /\ faults = 0

Enqueue(b, blk) == queue' = [queue EXCEPT ![b] = Append(@, blk)]

(* handle_peer_event, a dictionary: the request joins its board's queue.   *)
(* A client names a handle it holds, and stops using one it closes.        *)
(* GPIBD_OP_LIST_BOARDS carries board 0 (gpib_list_boards).                *)
Submit(c, b, op, h) ==
    /\ peer[c] = "live"
    /\ Outstanding(c) < MaxPending
    /\ op \in Ops
    /\ op \in {"close", "use", "wait"} => <<b, h>> \in held[c]
    /\ op \in {"open", "probe", "list"} => h = 0
    /\ op = "list" => b = 0
    /\ op = "open" => ListLength(c) < MaxEntries
    /\ Enqueue(b, [op |-> op, client |-> c, handle |-> h])
    /\ held' = IF op = "close" THEN [held EXCEPT ![c] = @ \ {<<b, h>>}] ELSE held
    /\ UNCHANGED <<attached, table, conn, running, peer, descs, reap, faults>>

(* handle_request up to the driver call.  The driver's own outcomes:       *)
(* "open" takes the lowest free slot or fails with ETAB, "close" frees an  *)
(* open slot or fails with EARG, each with kr == KERN_SUCCESS.             *)
DriverCall(a, blk, b, h) ==
    CASE blk.op = "open"  -> /\ \/ Allocates(table[a], h)
                                \/ IsFull(table[a]) /\ h = 0
                             /\ table' = IF h = 0 THEN table
                                         ELSE [table EXCEPT ![a][h] =
                                                 Opened(blk.client, b)]
      [] blk.op = "close" -> /\ h = blk.handle
                             /\ table' = [table EXCEPT ![a] = Release(@, h)]
      [] OTHER            -> h = blk.handle /\ UNCHANGED table

(* The reply of the request at the head of b's queue is still to be sent.  *)
Took(b, blk, h, ok) ==
    /\ queue' = [queue EXCEPT ![b] = Tail(@)]
    /\ running' = [running EXCEPT ![b] = [op |-> blk.op, client |-> blk.client,
                                          handle |-> h, ok |-> ok]]
    /\ UNCHANGED <<attached, peer, descs, reap, held, faults>>

(* A request the driver answers.                                           *)
Call(b) ==
    /\ running[b] = Idle
    /\ queue[b] # <<>>
    /\ LET blk == Head(queue[b]) IN
         /\ blk.op \notin {"reap", "probe", "list"}
         /\ Reached(b) # None
         /\ \E h \in Slots \cup {0} :
              /\ DriverCall(Reached(b), blk, b, h)
              /\ Took(b, blk, h, TRUE)
         /\ conn' = [conn EXCEPT ![b] = Reached(b)]

(* A request that fails.  It has no connection and gets none: there is no  *)
(* adapter at the index, or IOServiceOpen fails; a dead connection has     *)
(* been dropped before.  Or the driver answers with an error of its own    *)
(* (kIOReturnNotReady): nothing was done, the connection is kept.          *)
CallFails(b) ==
    /\ running[b] = Idle
    /\ queue[b] # <<>>
    /\ LET blk == Head(queue[b]) IN
         /\ blk.op \notin {"reap", "probe", "list"}
         /\ Took(b, blk, blk.handle, FALSE)
    /\ \/ /\ conn[b] \notin Attached
          /\ Service(b) = None \/ Refusals
          /\ conn' = [conn EXCEPT ![b] = None]
       \/ /\ Reached(b) # None
          /\ Refusals
          /\ conn' = [conn EXCEPT ![b] = Reached(b)]
    /\ UNCHANGED table

(* Mutant of Answer: a listing is never answered.                          *)
AnswerProbesOnly(b) ==
    /\ running[b] = Idle
    /\ queue[b] # <<>>
    /\ LET blk == Head(queue[b]) IN
         /\ blk.op = "probe"
         /\ Took(b, blk, 0, Connection(b) # None)
    /\ conn' = [conn EXCEPT ![b] = Connection(b)]
    /\ UNCHANGED table

(* A request the broker answers itself: a probe resolves the board, opens  *)
(* a connection if there is none, but does not try it; a listing does      *)
(* neither.                                                                *)
Answer(b) ==
    /\ running[b] = Idle
    /\ queue[b] # <<>>
    /\ LET blk == Head(queue[b]) IN
         \/ /\ blk.op = "probe"
            /\ Took(b, blk, 0, Connection(b) # None)
            /\ conn' = [conn EXCEPT ![b] = Connection(b)]
         \/ /\ blk.op = "probe"
            /\ conn[b] = None
            /\ Refusals
            /\ Took(b, blk, 0, FALSE)
            /\ UNCHANGED conn
         \/ /\ blk.op = "list"
            /\ Took(b, blk, 0, TRUE)
            /\ UNCHANGED conn
    /\ UNCHANGED table

(* Mutant of Reply: an open whose client has gone is not tracked.          *)
ReplyTracksLive(b, r) ==
    /\ running[b] = r
    /\ descs' = IF r.ok /\ r.op = "open" /\ r.handle # 0 /\ peer[r.client] = "live"
                THEN [descs EXCEPT ![r.client] = Add(@, <<b, r.handle>>)]
                ELSE descs
    /\ running' = [running EXCEPT ![b] = Idle]
    /\ UNCHANGED <<attached, table, conn, queue, peer, reap, held, faults>>

(* The rest of handle_request: track what the client owns, then reply.     *)
(* The session is the one the block captured, whether or not its client is *)
(* still there and its list still read by anybody.                         *)
Reply(b, r) ==
    /\ running[b] = r
    /\ LET c == r.client
           e == <<b, r.handle>>
       IN /\ descs' = CASE r.ok /\ r.op = "open" /\ r.handle # 0 ->
                              [descs EXCEPT ![c] = Add(@, e)]
                        [] r.ok /\ r.op = "close" ->
                              [descs EXCEPT ![c] = Drop(@, e)]
                        [] OTHER -> descs
          /\ held' = IF /\ r.ok /\ r.op = "open" /\ r.handle # 0
                        /\ peer[c] = "live"
                     THEN [held EXCEPT ![c] = @ \cup {e}]
                     ELSE held
    /\ running' = [running EXCEPT ![b] = Idle]
    /\ UNCHANGED <<attached, table, conn, queue, peer, reap, faults>>

Finish(b) == running[b] # Idle /\ running[b].op # "wait" /\ Reply(b, running[b])

(* ibwait for SRQ under TNONE returns when the instrument asserts SRQ, if  *)
(* it ever does.                                                           *)
FinishWait(b) == running[b] # Idle /\ running[b].op = "wait" /\ Reply(b, running[b])
-----------------------------------------------------------------------------
(* handle_peer_event, XPC_ERROR_CONNECTION_INVALID: the client exited or   *)
(* was killed.  Requests it had sent stay in their queues.                 *)
Die(c) ==
    /\ peer[c] = "live"
    /\ KilledMidCall \/ Outstanding(c) = 0
    /\ peer' = [peer EXCEPT ![c] = "gone"]
    /\ held' = [held EXCEPT ![c] = {}]
    /\ UNCHANGED <<attached, table, conn, queue, running, descs, reap, faults>>

(* session_reap takes the whole list under g_session_lock.                 *)
ReapBegin(c) ==
    /\ peer[c] = "gone"
    /\ peer' = [peer EXCEPT ![c] = "reaping"]
    /\ reap' = [reap EXCEPT ![c] = descs[c]]
    /\ descs' = [descs EXCEPT ![c] = Nothing]
    /\ UNCHANGED <<attached, table, conn, queue, running, held, faults>>

(* dispatch_sync of one descriptor to its board's queue.                   *)
ReapNext(c) ==
    /\ peer[c] = "reaping"
    /\ \E b \in Boards, h \in Slots :
         /\ reap[c][<<b, h>>] > 0
         /\ Enqueue(b, [op |-> "reap", client |-> c, handle |-> h])
    /\ peer' = [peer EXCEPT ![c] = "waiting"]
    /\ UNCHANGED <<attached, table, conn, running, descs, reap, held, faults>>

(* The reaper's block runs: whatever becomes of the close, its result is   *)
(* not looked at and the entry is done with.                               *)
ReapRuns(b) ==
    /\ running[b] = Idle
    /\ queue[b] # <<>>
    /\ LET blk == Head(queue[b]) IN
         /\ blk.op = "reap"
         /\ peer' = [peer EXCEPT ![blk.client] = "reaping"]
         /\ reap' = [reap EXCEPT ![blk.client] = Drop(@, <<b, blk.handle>>)]
    /\ queue' = [queue EXCEPT ![b] = Tail(@)]
    /\ UNCHANGED <<attached, running, descs, held, faults>>

(* It resolves the board and the driver closes the handle.  A dead         *)
(* connection is neither noticed nor dropped here.                         *)
ReapClose(b) ==
    /\ ReapRuns(b)
    /\ conn' = [conn EXCEPT ![b] = Connection(b)]
    /\ table' = IF Connection(b) \in Attached
                THEN [table EXCEPT ![Connection(b)] = Release(@, Head(queue[b]).handle)]
                ELSE table

(* The slot the reaper of c was turned down for stays open, off the books. *)
Spare(t, h, c, b) ==
    IF IsOpen(t, h) /\ t[h] = Opened(c, b) THEN [t EXCEPT ![h].fate = "refused"] ELSE t

(* There is no connection and IOServiceOpen fails, or the driver turns the *)
(* close down: its dispatch table wants an output structure of             *)
(* sizeof(GPIBStatusOut) (GPIBUserClient.cpp:43), and the reaper passes    *)
(* none.                                                                   *)
ReapRefused(b) ==
    /\ Refusals
    /\ ReapRuns(b)
    /\ \/ conn[b] = None /\ UNCHANGED <<conn, table>>
       \/ LET blk == Head(queue[b])
              a   == Connection(b)
          IN /\ a \in Attached
             /\ conn' = [conn EXCEPT ![b] = a]
             /\ table' = [table EXCEPT ![a] = Spare(@, blk.handle, blk.client, b)]

(* Mutant of ReapEnd: the loop stops one descriptor short.                 *)
ReapEndEarly(c) ==
    /\ peer[c] = "reaping"
    /\ Cardinality({e \in Boards \X Slots : reap[c][e] # 0}) <= 1
    /\ peer' = [peer EXCEPT ![c] = "freed"]
    /\ UNCHANGED <<attached, table, conn, queue, running, descs, reap, held, faults>>

(* The list is done; session_reap frees the session.                       *)
ReapEnd(c) ==
    /\ peer[c] = "reaping"
    /\ \A e \in Boards \X Slots : reap[c][e] = 0
    /\ peer' = [peer EXCEPT ![c] = "freed"]
    /\ UNCHANGED <<attached, table, conn, queue, running, descs, reap, held, faults>>
-----------------------------------------------------------------------------
Fault(f) == f \in Faults /\ faults < MaxFaults /\ faults' = faults + 1

(* An adapter goes away and takes its dext, its table and its place in the *)
(* registry with it; connections to it are dead from now on.               *)
Unplug(k) ==
    /\ Fault("unplug")
    /\ k \in DOMAIN attached
    /\ attached' = [j \in 1 .. Len(attached) - 1 |->
                      IF j < k THEN attached[j] ELSE attached[j + 1]]
    /\ table' = [table EXCEPT ![attached[k]] = EmptyTable]
    /\ UNCHANGED <<conn, queue, running, peer, descs, reap, held>>

(* An adapter appears, its table as GPIBBoard::init left it, somewhere in  *)
(* registry order.  Its identity is one no connection refers to.           *)
Plug(a, k) ==
    /\ Fault("plug")
    /\ a \notin Attached
    /\ \A b \in Boards : conn[b] # a
    /\ k \in 1 .. Len(attached) + 1
    /\ attached' = [j \in 1 .. Len(attached) + 1 |->
                      IF j < k THEN attached[j]
                      ELSE IF j = k THEN a ELSE attached[j - 1]]
    /\ UNCHANGED <<table, conn, queue, running, peer, descs, reap, held>>

(* launchd kills the idle broker; the next message starts another.  The    *)
(* sessions and the connections were its memory.  The driver keeps its     *)
(* descriptors, and a client that is still there keeps its handles.        *)
Restart ==
    /\ Fault("restart")
    /\ \A b \in Boards : queue[b] = <<>> /\ running[b] = Idle
    /\ conn' = [b \in Boards |-> None]
    /\ descs' = [c \in Clients |-> Nothing]
    /\ reap' = [c \in Clients |-> Nothing]
    /\ peer' = [c \in Clients |-> IF peer[c] = "live" THEN "live" ELSE "freed"]
    /\ table' = [a \in Adapters |-> [h \in Slots |->
                   IF table[a][h] = Free THEN Free
                   ELSE [table[a][h] EXCEPT !.fate = "exited"]]]
    /\ UNCHANGED <<attached, queue, running, held>>

Next ==
    \/ \E c \in Clients, b \in Boards, op \in AllOps, h \in Slots \cup {0} :
         Submit(c, b, op, h)
    \/ \E b \in Boards : \/ Call(b)
                         \/ CallFails(b)
                         \/ Answer(b)
                         \/ Finish(b)
                         \/ FinishWait(b)
                         \/ ReapClose(b)
                         \/ ReapRefused(b)
    \/ \E c \in Clients : \/ Die(c)
                          \/ ReapBegin(c)
                          \/ ReapNext(c)
                          \/ ReapEnd(c)
    \/ \E k \in DOMAIN attached : Unplug(k)
    \/ \E a \in Adapters, k \in 1 .. Len(attached) + 1 : Plug(a, k)
    \/ Restart

Spec == Init /\ [][Next]_vars

(* libdispatch runs every block it is given, and the driver answers every  *)
(* call except a wait without a timeout.  Clients, people with cables and  *)
(* launchd owe nothing.                                                    *)
Fairness ==
    /\ \A b \in Boards : WF_vars(\/ Call(b) \/ CallFails(b) \/ Answer(b)
                            \/ ReapClose(b) \/ ReapRefused(b))
    /\ \A b \in Boards : WF_vars(Finish(b))
    /\ \A c \in Clients : WF_vars(ReapBegin(c) \/ ReapNext(c) \/ ReapEnd(c))

FairSpec == Spec /\ Fairness
-----------------------------------------------------------------------------
TypeOK ==
    /\ attached \in Seq(Adapters)
    /\ table \in [Adapters -> [Slots -> Owner \cup {Free}]]
    /\ conn \in [Boards -> Adapters \cup {None}]
    /\ queue \in [Boards -> Seq(Block)]
    /\ running \in [Boards -> Result \cup {Idle}]
    /\ peer \in [Clients -> PeerStates]
    /\ descs \in [Clients -> [Boards \X Slots -> Nat]]
    /\ reap \in [Clients -> [Boards \X Slots -> Nat]]
    /\ held \in [Clients -> SUBSET (Boards \X Slots)]
    /\ faults \in Nat

(* c's request on b has opened handle h and session_add_desc is to come.   *)
BeingTracked(c, b, h) ==
    /\ running[b] # Idle
    /\ running[b].client = c
    /\ running[b].op = "open"
    /\ running[b].ok
    /\ running[b].handle = h

(* No descriptor is forgotten by the books, whatever happens: under kills, *)
(* replugs, index shifts and restarts, every slot in use in any driver is  *)
(* listed in its opener's session on the board it was opened on, or is     *)
(* about to be, or is on the list a reaper is working through -- unless    *)
(* the broker that relayed the open has exited, or the driver has refused  *)
(* the reaper's close, whose result is not looked at.                      *)
Accounted ==
    \A a \in Adapters, h \in Slots :
      LET o == table[a][h] IN
        o # Free /\ o.fate = "kept" =>
          \/ descs[o.client][<<o.board, h>>] > 0
          \/ reap[o.client][<<o.board, h>>] > 0
          \/ BeingTracked(o.client, o.board, h)

(* What the session list names can be reached: a slot in use, opened       *)
(* through the running broker, is in an attached adapter and the cached    *)
(* connection of the board it was opened on still leads to that adapter,   *)
(* however the registry order shifted since.                               *)
RoutedHome ==
    \A a \in Adapters, h \in Slots :
      LET o == table[a][h] IN
        o # Free /\ o.fate # "exited" => a \in Attached /\ conn[o.board] = a

(* gpibd.c:12-14, the guarantee of the file's header: when session_reap    *)
(* has taken a dead client's list, nothing is added to it any more that    *)
(* nobody would ever close.                                                *)
NoStranded ==
    \A c \in Clients :
      peer[c] \in {"reaping", "waiting", "freed"} => descs[c] = Nothing

(* What a connected client was told it holds it does hold: the handle it   *)
(* would name next leads, over the cached connection, to a slot the client *)
(* itself opened.                                                          *)
HeldIsOwned ==
    \A c \in Clients : \A e \in held[c] :
      /\ conn[e[1]] \in Attached
      /\ IsOpen(table[conn[e[1]]], e[2])
      /\ table[conn[e[1]]][e[2]].client = c

(* gpibd.c:18-20, "work on the same adapter queues": no two board queues   *)
(* drive one adapter.                                                      *)
OneQueuePerAdapter ==
    \A b1, b2 \in Boards : conn[b1] = conn[b2] /\ conn[b1] # None => b1 = b2

(* c has a request on b that is not answered yet.                          *)
Asks(c, b) ==
    \/ \E k \in DOMAIN queue[b] : queue[b][k].client = c /\ queue[b][k].op # "reap"
    \/ running[b] # Idle /\ running[b].client = c

(* Every request is answered, also when it queues behind another client's  *)
(* requests and behind a reaper (MaxPending = 1, so that c sends nothing   *)
(* else meanwhile).                                                        *)
RequestAnswered == \A c \in Clients, b \in Boards : Asks(c, b) ~> ~Asks(c, b)

(* gpibd.c:12-14, "its descriptors are closed on its behalf": a session    *)
(* whose client has left is reaped to its end, however the reaper's blocks *)
(* queue on several boards behind other clients' requests, and then no     *)
(* slot is in use that the client opened but those whose close the driver  *)
(* refused.                                                                *)
LeaversAreReaped ==
    \A c \in Clients :
      []<>(\/ peer[c] = "live"
          \/ /\ peer[c] = "freed"
             /\ \A a \in Attached, h \in Slots :
                  table[a][h] # Free /\ table[a][h].client = c =>
                    table[a][h].fate = "refused")

(* The descriptors of an attached adapter, as the clients see them.        *)
OwnerOf(d) ==
    LET a == Service(d[1])
    IN IF a = None \/ table[a][d[2]] = Free THEN None ELSE table[a][d[2]].client

(* gpibd.c:12-16: the broker implements the descriptor service.            *)
Promise == INSTANCE DescriptorService WITH
    Descriptors <- Boards \X Slots,
    Nobody <- None,
    present <- {c \in Clients : peer[c] = "live"},
    owner <- [d \in Boards \X Slots |-> OwnerOf(d)],
    holds <- held

ImplementsService == Promise!Spec
=============================================================================
