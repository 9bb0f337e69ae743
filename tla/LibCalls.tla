------------------------------- MODULE LibCalls -------------------------------
(***************************************************************************)
(* What a call of libgpib is made of and what it reports                   *)
(* (libgpib/src/ib_traditional.c, ib_488_2.c, error.c).  The 488.2 calls   *)
(* and the file transfers are strings of primitive calls; each of those is *)
(* at most one request to the driver and then sets the status: ibsta,      *)
(* iberr and ibcntl of the process, one after the other and without a      *)
(* lock, and the calling thread's own copy of the three.                   *)
(*                                                                         *)
(* How a board is reached and how descriptors are opened is ClientLib's    *)
(* subject; here a request ends in one of the ways it may end.  Of the     *)
(* bits of ibsta ERR is kept, and END where ibrdf looks at it.             *)
(***************************************************************************)
EXTENDS Integers, Sequences

CONSTANTS
    Threads,    \* the threads of the process
    MayCall,    \* bound: the calls each thread makes, [Threads -> SUBSET Calls]
    Lists,      \* bound: the lengths of the address lists
    MaxInline,  \* kGPIBMaxInlineWrite and kGPIBMaxInlineRead: 4080 bytes
    Buffer,     \* the buffer of ibwrtf and ibrdf: 4096 bytes
    Lengths,    \* bound: the lengths of files and of an instrument's messages
    MaxPolls    \* the polls of WaitSRQ: 300

ASSUME LibAssumption ==
    /\ MaxInline \in Nat \ {0} /\ Buffer \in Nat \ {0}
    /\ Lists \subseteq Nat /\ Lengths \subseteq Nat /\ MaxPolls \in Nat

(* Shapes of the traditional calls (ibsre stands for every call whose      *)
(* status is the driver's, ibclr for simple_handle_call, ibrda for the     *)
(* calls that are not supported) and of the 488.2 calls, of which those    *)
(* that are one traditional call are left out; AllSPoll is a FindRQS that  *)
(* finds nothing.                                                          *)
Traditional == {"ibclr", "ibsre", "ibeos", "ibwrt", "ibrd", "ibdev", "ibonl0",
                "ibonl1", "ibrda", "ibwrtf", "ibrdf"}

Calls == Traditional \cup
         {"SendLLO", "DevClearList", "SendList", "Receive", "WaitSRQ", "FindRQS",
          "FindLstn", "ResetSys", "SetRWLS"}

(* The primitive calls.                                                    *)
Prims == {"simple", "status", "write", "read", "open", "close", "lockout",
          "online", "nocap", "nofile", "lines", "poll", "load", "fetch"}

Codes == {"none", "driver", "EDVR", "ENEB", "EARG", "ECAP", "EFSO"}

Counts == 0 .. MaxInline

Status == [err : BOOLEAN, iberr : Codes, cnt : Counts]

VARIABLES
    globals,    \* ibsta, iberr and ibcntl
    mirror,     \* each thread's copy of them (g_tls_key)
    disturbed,  \* history: has another thread written a global since this
                \* one last began to?
    thread      \* what each thread is doing or did last, see Thread

vars == <<globals, mirror, disturbed, thread>>

(* `status` is what the last primitive call came to, `failed` if the call  *)
(* returns (or returned) with ERR; `size` and `left` are the length of the *)
(* file or message and what of it is still to come, `moved` what went into  *)
(* the file, or into the driver without an error, `missed` what of such a  *)
(* buffer the driver did not take; `ended` if END was seen, `hit` if a   *)
(* poll found what it was for, `mixed` if ibrdf took another thread's      *)
(* ibcntl for its own (`moved` is then no longer kept).                    *)
Thread == [call : Calls \cup {"none"}, todo : Seq(Prims), status : Status,
           phase : {"idle", "request", "ibsta", "iberr", "ibcntl", "store"},
           failed : BOOLEAN, size : Nat, left : Nat, moved : Nat,
           missed : Nat, ended : BOOLEAN, hit : BOOLEAN, mixed : BOOLEAN]

Done == [err |-> FALSE, iberr |-> "none", cnt |-> 0]

Idle == [call |-> "none", todo |-> <<>>, status |-> Done, phase |-> "idle",
         failed |-> FALSE, size |-> 0, left |-> 0, moved |-> 0,
         missed |-> 0, ended |-> FALSE, hit |-> FALSE, mixed |-> FALSE]

TypeOK ==
    /\ globals \in Status
    /\ mirror \in [Threads -> Status]
    /\ disturbed \in [Threads -> BOOLEAN]
    /\ thread \in [Threads -> Thread]
-----------------------------------------------------------------------------
(* ScopedUse: a device is opened, used and closed.  ForEach: the same for  *)
(* every address of a list of length k.                                    *)
ScopedUse(use) == <<"open", use, "close">>

ForEach(k, uses) == [i \in 1 .. k * Len(uses) |-> uses[1 + ((i - 1) % Len(uses))]]

(* What a call does but for file transfers, for a list of length k.        *)
Body(call, k) ==
    CASE call = "ibclr"  -> <<"simple">>
      [] call = "ibsre"  -> <<"status">>
      [] call = "ibeos"  -> <<"status", "status">>
      [] call = "ibwrt"  -> <<"write">>
      [] call = "ibrd"   -> <<"read">>
      [] call = "ibdev"  -> <<"open">>
      [] call = "ibonl0" -> <<"close">>
      [] call = "ibonl1" -> <<"online">>
      [] call = "ibrda"  -> <<"nocap">>
      [] call = "SendLLO"      -> <<"lockout">>
      [] call = "DevClearList" -> ForEach(k, ScopedUse("simple"))
      [] call = "SendList"     -> ForEach(k, ScopedUse("write"))
      [] call = "Receive"      -> ScopedUse("read")
      [] call = "FindRQS"      -> ForEach(k, ScopedUse("poll"))
      [] call = "WaitSRQ"      -> ForEach(MaxPolls, <<"lines">>)
      [] call = "FindLstn"     -> ForEach(k, <<"lines">>)
      [] call = "SetRWLS"      -> <<"status", "lockout">>
      [] call = "ResetSys"     -> <<"simple", "status", "write">> \o ForEach(k, ScopedUse("write"))

(* The file of a transfer cannot be opened, or has this length: ibwrtf     *)
(* does nothing, and sets no status, if it is empty.                       *)
Transfers(call, size) ==
    {<<"nofile">>,
     IF call = "ibrdf" THEN <<"fetch">> ELSE IF size = 0 THEN <<>> ELSE <<"load">>}

(* A way a primitive call may end: does it return with ERR (or -1), and    *)
(* the status it sets.                                                     *)
Ends(fails, status) == [fails |-> fails, status |-> status]

Error(code) == Ends(TRUE, [err |-> TRUE, iberr |-> code, cnt |-> 0])

(* The driver has answered with the count k: done, or with its error.      *)
Answered(k) == {Ends(FALSE, [Done EXCEPT !.cnt = k]),
                Ends(TRUE, [err |-> TRUE, iberr |-> "driver", cnt |-> k])}

(* simple_handle_call passes on ERR without the driver's iberr.            *)
AnsweredSimple ==
    {Ends(FALSE, Done), Ends(TRUE, [err |-> TRUE, iberr |-> "none", cnt |-> 0])}

(* gpib_lib_conn_for_board has failed, or gpib_lib_call_struct has: ibonl  *)
(* and SendLLO then report the reply they have not got, all zeros.         *)
NoAnswer(prim) ==
    {Error("ENEB"), IF prim \in {"close", "lockout"} THEN Ends(FALSE, Done) ELSE Error("EDVR")}

Smaller(a, b) == IF a < b THEN a ELSE b

(* ibwrt refuses what is longer than a message of the user client holds.   *)
(* What the driver reports no error for it need not have taken whole: the  *)
(* Agilent transport's writes succeed with any count.                      *)
Written(n) ==
    IF n > MaxInline THEN {Error("ENEB"), Error("EARG")}
    ELSE NoAnswer("write") \cup UNION {Answered(k) : k \in 0 .. n}

(* What a primitive call may come to, given what is left of the file or    *)
(* the message.                                                            *)
Outcomes(prim, left) ==
    CASE prim = "nocap"   -> {Error("ECAP")}
      [] prim = "nofile"  -> {Error("EFSO")}
      [] prim = "online"  -> {Error("ENEB"), Ends(FALSE, Done)}
      [] prim = "simple"  -> NoAnswer(prim) \cup AnsweredSimple
      [] prim = "write"   -> UNION {Written(n) : n \in {1, Buffer}}
      [] prim = "load"    -> Written(Smaller(left, Buffer))
      [] prim = "read"    -> NoAnswer(prim) \cup UNION {Answered(k) : k \in {0, 1}}
      [] prim = "fetch"   -> NoAnswer(prim) \cup
                             UNION {Answered(k) : k \in 0 .. Smaller(left, Smaller(Buffer, MaxInline))}
      [] OTHER            -> NoAnswer(prim) \cup Answered(0)
-----------------------------------------------------------------------------
Init ==
    /\ globals = Done
    /\ mirror = [t \in Threads |-> Done]
    /\ disturbed = [t \in Threads |-> FALSE]
    /\ thread = [t \in Threads |-> Idle]

At(t, phase) == thread[t].phase = phase

(* The call goes on with what is left to do, or returns.                   *)
Continue(c, todo) ==
    [c EXCEPT !.todo = todo, !.phase = IF todo = <<>> THEN "idle" ELSE "request"]

Starting(t, call, size, todo) ==
    Continue([Idle EXCEPT !.call = call, !.size = size, !.left = size,
                          !.status = thread[t].status], todo)

(* A thread makes a call ...                                               *)
Begin(t, call, k) ==
    /\ At(t, "idle")
    /\ call \in MayCall[t] \ {"ibwrtf", "ibrdf"}
    /\ thread' = [thread EXCEPT ![t] = Starting(t, call, 0, Body(call, k))]
    /\ UNCHANGED <<globals, mirror, disturbed>>

(* ... or transfers a file.                                                *)
BeginTransfer(t, call, size) ==
    /\ At(t, "idle")
    /\ call \in MayCall[t] \cap {"ibwrtf", "ibrdf"}
    /\ \E todo \in Transfers(call, size) :
         thread' = [thread EXCEPT ![t] = Starting(t, call, size, todo)]
    /\ UNCHANGED <<globals, mirror, disturbed>>

(* The request of a primitive call: the connection, the driver, the answer.*)
(* ibeos returns both its answers or'ed.  iblines has seen SRQ, ibrsp a    *)
(* status byte with the request bit, ibln the last listener there is room  *)
(* for, only if they have an answer at all.                                *)
Request(t) ==
    /\ At(t, "request")
    /\ LET c == thread[t] prim == Head(c.todo) IN
         \E e \in Outcomes(prim, c.left), hit \in BOOLEAN :
           /\ hit => prim \in {"lines", "poll"} /\ ~e.fails
           /\ thread' = [thread EXCEPT ![t] =
                [c EXCEPT !.status = e.status, !.phase = "ibsta",
                          !.failed = e.fails \/ (c.call = "ibeos" /\ @),
                          !.hit = hit \/ (prim = "close" /\ @)]]
    /\ UNCHANGED <<globals, mirror, disturbed>>

(* t has written a global.                                                 *)
Disturb(t, fresh) ==
    disturbed' = [u \in Threads |-> IF u = t THEN disturbed[t] /\ ~fresh ELSE TRUE]

Goto(t, phase) == thread' = [thread EXCEPT ![t].phase = phase]

(* gpib_lib_set_status: ibsta ...                                          *)
SetIbsta(t) ==
    /\ At(t, "ibsta")
    /\ globals' = [globals EXCEPT !.err = thread[t].status.err]
    /\ Disturb(t, TRUE)
    /\ Goto(t, "iberr")
    /\ UNCHANGED mirror

(* ... iberr ...                                                           *)
SetIberr(t) ==
    /\ At(t, "iberr")
    /\ globals' = [globals EXCEPT !.iberr = thread[t].status.iberr]
    /\ Disturb(t, FALSE)
    /\ Goto(t, "ibcntl")
    /\ UNCHANGED mirror

(* Mutant of Rest: ibwrtf goes on after an error.                          *)
RestUnbroken(c) ==
    LET prim == Head(c.todo) IN
      CASE prim = "open" /\ c.failed -> SubSeq(c.todo, 4, Len(c.todo))
        [] prim = "load" -> IF c.left = 0 THEN <<>> ELSE c.todo
        [] prim = "fetch" -> IF c.failed \/ c.ended THEN <<>> ELSE c.todo
        [] c.hit /\ prim = "lines" -> <<>>
        [] c.hit /\ prim = "close" /\ c.call = "FindRQS" -> <<>>
        [] OTHER -> Tail(c.todo)

(* What is left to do after a primitive call: a device that cannot be      *)
(* opened is passed over, a file transfer goes on until an error, the end  *)
(* of the file or END, a search until it has found something.              *)
Rest(c) ==
    LET prim == Head(c.todo) IN
      CASE prim = "open" /\ c.failed -> SubSeq(c.todo, 4, Len(c.todo))
        [] prim = "load" -> IF c.failed \/ c.left = 0 THEN <<>> ELSE c.todo
        [] prim = "fetch" -> IF c.failed \/ c.ended THEN <<>> ELSE c.todo
        [] c.hit /\ prim = "lines" -> <<>>
        [] c.hit /\ prim = "close" /\ c.call = "FindRQS" -> <<>>
        [] OTHER -> Tail(c.todo)

(* Mutant of Taken: every buffer counts as a full one.                     *)
TakenFull(c) ==
    LET prim == Head(c.todo) k == c.status.cnt IN
      CASE prim = "load" ->
             LET d == [c EXCEPT !.left = @ - Buffer,
                                !.moved  = IF c.failed THEN @ ELSE @ + k,
                                !.missed = IF c.failed THEN @ ELSE @ + (Buffer - k)]
             IN  Continue(d, Rest(d))
        [] prim = "fetch" /\ ~c.failed ->
             [c EXCEPT !.left = @ - k, !.ended = c.left > 0 /\ k = c.left, !.phase = "store"]
        [] OTHER -> Continue(c, Rest(c))

(* What the caller makes of the answer: ibwrtf has sent another buffer,    *)
(* whatever the count of it, ibrdf writes ibcntl bytes of its buffer out   *)
(* unless the read failed.                                                 *)
Taken(c) ==
    LET prim == Head(c.todo) k == c.status.cnt chunk == Smaller(c.left, Buffer) IN
      CASE prim = "load" ->
             LET d == [c EXCEPT !.left = @ - chunk,
                                !.moved  = IF c.failed THEN @ ELSE @ + k,
                                !.missed = IF c.failed THEN @ ELSE @ + (chunk - k)]
             IN  Continue(d, Rest(d))
        [] prim = "fetch" /\ ~c.failed ->
             [c EXCEPT !.left = @ - k, !.ended = c.left > 0 /\ k = c.left, !.phase = "store"]
        [] OTHER -> Continue(c, Rest(c))

(* Mutant of SetIbcntl: the thread's copy is taken from the globals.       *)
SetIbcntlCopied(t) ==
    /\ At(t, "ibcntl")
    /\ globals' = [globals EXCEPT !.cnt = thread[t].status.cnt]
    /\ mirror' = [mirror EXCEPT ![t] = globals']
    /\ Disturb(t, FALSE)
    /\ thread' = [thread EXCEPT ![t] = Taken(@)]

(* ... ibcntl and ibcnt, then the thread's own copy.                       *)
SetIbcntl(t) ==
    /\ At(t, "ibcntl")
    /\ globals' = [globals EXCEPT !.cnt = thread[t].status.cnt]
    /\ mirror' = [mirror EXCEPT ![t] = thread[t].status]
    /\ Disturb(t, FALSE)
    /\ thread' = [thread EXCEPT ![t] = Taken(@)]

(* ibrdf reads the process's ibcntl, whosever it is by now.                *)
Store(t) ==
    /\ At(t, "store")
    /\ LET mixed == thread[t].mixed \/ disturbed[t]
           c == [thread[t] EXCEPT !.moved = IF mixed THEN 0 ELSE @ + globals.cnt, !.mixed = mixed]
       IN  thread' = [thread EXCEPT ![t] = Continue(c, Rest(c))]
    /\ UNCHANGED <<globals, mirror, disturbed>>

Next ==
    \E t \in Threads :
      \/ \E call \in Calls, k \in Lists : Begin(t, call, k)
      \/ \E call \in Calls, size \in Lengths : BeginTransfer(t, call, size)
      \/ Request(t) \/ SetIbsta(t) \/ SetIberr(t) \/ SetIbcntl(t) \/ Store(t)

Spec == Init /\ [][Next]_vars
-----------------------------------------------------------------------------
(* Between its calls a thread's own status (ThreadIbsta and the rest) is   *)
(* the one its last call set, whatever other threads do meanwhile; a call  *)
(* that fails, the last of a string of them or in its first buffer, has    *)
(* left an error there, with a code; and the globals say the same unless   *)
(* another thread has written one of them since.  ibeos (two answers, one  *)
(* status) and the calls of simple_handle_call (no code) are excepted.     *)
OwnOutcome ==
    \A t \in Threads : At(t, "idle") =>
      /\ mirror[t] = thread[t].status
      /\ thread[t].failed /\ thread[t].call \in Traditional \ {"ibeos"} =>
           mirror[t].err /\ (thread[t].call # "ibclr" => mirror[t].iberr # "none")
      /\ ~disturbed[t] => globals = mirror[t]

(* A file transfer that returns without ERR has gone through the whole     *)
(* file, or the whole message up to END, however many buffers it took: no  *)
(* byte is left out but those that the driver said it had not taken of a   *)
(* buffer, without calling that an error, and that ibwrtf does not look    *)
(* at.  For ibrdf this is asserted unless another thread's ibcntl came     *)
(* between.                                                                *)
FileWhole ==
    \A t \in Threads : LET c == thread[t] IN
      At(t, "idle") /\ c.call \in {"ibwrtf", "ibrdf"} /\ ~c.failed /\ ~c.mixed =>
        c.moved + c.missed = c.size
=============================================================================
