---------------------------- MODULE LibCallsProofs ----------------------------
(***************************************************************************)
(* What LibCalls promises, for any number of threads, any lists, files and *)
(* message sizes.  OwnOutcome and FileWhole hold between calls only; the   *)
(* inductive invariant says what holds at each point of a call instead.    *)
(***************************************************************************)
EXTENDS LibCalls, TLAPS

Transfer == {"ibwrtf", "ibrdf"}

(* The primitive calls a call may be made of, as far as it matters.        *)
Allowed(call) == IF call \in Traditional \ {"ibclr"} THEN Prims \ {"simple"} ELSE Prims

Answering == {"ibsta", "iberr", "ibcntl"}

(* A call that is not over has something to do, a file transfer always the *)
(* same.                                                                   *)
Plan(c) ==
    /\ c.todo \in Seq(Allowed(c.call))
    /\ c.phase # "idle" => c.todo # <<>>
    /\ c.call = "ibwrtf" /\ c.phase # "idle" => c.todo \in {<<"nofile">>, <<"load">>}
    /\ c.call = "ibrdf" /\ c.phase # "idle" => c.todo \in {<<"nofile">>, <<"fetch">>}
    /\ c.phase = "store" => Head(c.todo) = "fetch"

(* A failure is in the status as soon as it is known.                      *)
Failure(c) ==
    /\ c.call \in Traditional \ {"ibeos"} /\ c.phase # "request" /\ c.failed =>
         c.status.err /\ (c.call # "ibclr" => c.status.iberr # "none")
    /\ c.call \in Transfer /\ c.phase \in Answering /\ c.todo = <<"nofile">> => c.failed

(* The count of an answer is within what was left, and within the buffer   *)
(* it is for.                                                              *)
Count(c) ==
    /\ c.phase \in Answering /\ c.todo # <<>> /\ Head(c.todo) = "fetch" => c.status.cnt <= c.left
    /\ c.phase \in Answering /\ c.todo # <<>> /\ Head(c.todo) = "load" =>
         c.status.cnt <= Smaller(c.left, Buffer)

(* Where the bytes of a file or of a message are.                          *)
Bytes(c) ==
    /\ c.call \in Transfer /\ c.phase \in {"request"} \cup Answering /\ ~c.mixed =>
         c.moved + c.missed + c.left = c.size
    /\ c.call = "ibrdf" /\ c.phase = "store" /\ ~c.mixed =>
         c.moved + c.missed + c.left + c.status.cnt = c.size
    /\ c.call = "ibrdf" /\ c.ended => c.left = 0
    /\ c.call \in Transfer /\ c.phase = "idle" /\ ~c.failed /\ ~c.mixed => c.moved + c.missed = c.size

(* How far the thread is with writing its status down, in the globals if   *)
(* no other thread has come between.                                       *)
Recorded(t) ==
    LET c == thread[t] IN
      /\ c.phase \notin Answering => mirror[t] = c.status
      /\ ~disturbed[t] =>
           /\ c.phase # "ibsta" => globals.err = c.status.err
           /\ c.phase \notin {"ibsta", "iberr"} => globals.iberr = c.status.iberr
           /\ c.phase \notin Answering => globals.cnt = c.status.cnt

Local(c) == Plan(c) /\ Failure(c) /\ Count(c) /\ Bytes(c)

IInv ==
    /\ TypeOK
    /\ \A t \in Threads : Local(thread[t]) /\ Recorded(t)

-----------------------------------------------------------------------------
(* What is left of a sequence is made of what it was made of.              *)
LEMMA Shorter ==
    ASSUME NEW S, NEW todo \in Seq(S), todo # <<>>
    PROVE  /\ Head(todo) \in S
           /\ Tail(todo) \in Seq(S)
           /\ SubSeq(todo, 4, Len(todo)) \in Seq(S)
  OBVIOUS

(* The steps for a list of addresses are steps for one of them, repeated.  *)
LEMMA ForEachTyped ==
    ASSUME NEW S, NEW k \in Nat, NEW uses \in Seq(S), Len(uses) \in {1, 3}
    PROVE  ForEach(k, uses) \in Seq(S)
<1>1. k * Len(uses) \in Nat
  OBVIOUS
<1>2. ASSUME NEW i \in 1 .. k * Len(uses) PROVE uses[1 + ((i - 1) % Len(uses))] \in S
  <2>1. (i - 1) % Len(uses) \in 0 .. Len(uses) - 1
    BY <1>1
  <2> QED BY <2>1
<1> QED BY <1>1, <1>2 DEF ForEach

(* A call that transfers no file is made of the calls it may be made of.   *)
LEMMA BodyAllowed ==
    ASSUME NEW call \in Calls \ Transfer, NEW k \in Nat
    PROVE  Body(call, k) \in Seq(Allowed(call))
<1>1. CASE call \in {"ibclr", "ibsre", "ibeos", "ibwrt", "ibrd", "ibdev", "ibonl0", "ibonl1", "ibrda",
                     "SendLLO", "Receive", "SetRWLS"}
  <2>1. CASE call = "ibclr"
    BY <2>1 DEF Body, Allowed, Prims
  <2>2. CASE call = "ibsre"
    BY <2>2 DEF Body, Allowed, Prims, Traditional
  <2>3. CASE call = "ibeos"
    BY <2>3 DEF Body, Allowed, Prims, Traditional
  <2>4. CASE call = "ibwrt"
    BY <2>4 DEF Body, Allowed, Prims, Traditional
  <2>5. CASE call = "ibrd"
    BY <2>5 DEF Body, Allowed, Prims, Traditional
  <2>6. CASE call = "ibdev"
    BY <2>6 DEF Body, Allowed, Prims, Traditional
  <2>7. CASE call = "ibonl0"
    BY <2>7 DEF Body, Allowed, Prims, Traditional
  <2>8. CASE call = "ibonl1"
    BY <2>8 DEF Body, Allowed, Prims, Traditional
  <2>9. CASE call = "ibrda"
    BY <2>9 DEF Body, Allowed, Prims, Traditional
  <2>10. CASE call = "SendLLO"
    BY <2>10 DEF Body, Allowed, Prims, Traditional
  <2>11. CASE call = "Receive"
    BY <2>11 DEF Body, Allowed, Prims, Traditional, ScopedUse
  <2>12. CASE call = "SetRWLS"
    BY <2>12 DEF Body, Allowed, Prims, Traditional
  <2> QED BY <1>1, <2>1, <2>2, <2>3, <2>4, <2>5, <2>6, <2>7, <2>8, <2>9, <2>10, <2>11, <2>12
<1>2. CASE call \in {"DevClearList", "SendList", "FindRQS"}
  <2> DEFINE use == IF call = "DevClearList" THEN "simple" ELSE IF call = "SendList" THEN "write" ELSE "poll"
  <2>1. Body(call, k) = ForEach(k, ScopedUse(use))
    BY <1>2 DEF Body
  <2>2. ScopedUse(use) \in Seq(Prims) /\ Len(ScopedUse(use)) = 3
    BY DEF ScopedUse, Prims
  <2>3. Allowed(call) = Prims
    BY <1>2 DEF Allowed, Traditional
  <2> HIDE DEF use
  <2> QED BY <2>1, <2>2, <2>3, ForEachTyped
<1>3. CASE call = "FindLstn"
  <2>1. Body(call, k) = ForEach(k, <<"lines">>) /\ Allowed(call) = Prims
    BY <1>3 DEF Body, Allowed, Traditional
  <2>2. <<"lines">> \in Seq(Prims) /\ Len(<<"lines">>) = 1
    BY DEF Prims
  <2> QED BY <2>1, <2>2, ForEachTyped
<1>4. CASE call = "WaitSRQ"
  <2>1. Body(call, k) = ForEach(MaxPolls, <<"lines">>) /\ Allowed(call) = Prims
    BY <1>4 DEF Body, Allowed, Traditional
  <2>2. <<"lines">> \in Seq(Prims) /\ Len(<<"lines">>) = 1
    BY DEF Prims
  <2> QED BY <2>1, <2>2, ForEachTyped, LibAssumption
<1>5. CASE call = "ResetSys"
  <2>1. Body(call, k) = <<"simple", "status", "write">> \o ForEach(k, ScopedUse("write")) /\ Allowed(call) = Prims
    BY <1>5 DEF Body, Allowed, Traditional
  <2>2. ScopedUse("write") \in Seq(Prims) /\ Len(ScopedUse("write")) = 3
    BY DEF ScopedUse, Prims
  <2>3. ForEach(k, ScopedUse("write")) \in Seq(Prims)
    BY <2>2, ForEachTyped
  <2>4. <<"simple", "status", "write">> \in Seq(Prims)
    BY DEF Prims
  <2> QED BY <2>1, <2>3, <2>4
<1> QED BY <1>1, <1>2, <1>3, <1>4, <1>5 DEF Calls, Traditional, Transfer

(* The smaller of two numbers is at most either.                           *)
LEMMA SmallerIsLess ==
    ASSUME NEW a \in Nat, NEW b \in Nat
    PROVE  Smaller(a, b) \in Nat /\ Smaller(a, b) <= a /\ Smaller(a, b) <= b
  BY DEF Smaller

(* What is true of each way a primitive call may end.                      *)
Sound(e, prim, left) ==
    /\ e.fails \in BOOLEAN
    /\ e.status \in Status
    /\ e.fails => e.status.err /\ (prim # "simple" => e.status.iberr # "none")
    /\ prim = "nofile" => e.fails
    /\ prim = "fetch" => e.status.cnt <= left
    /\ prim = "load" => e.status.cnt <= Smaller(left, Buffer)

(* An error the library finds for itself is sound.                         *)
LEMMA ErrorSound ==
    ASSUME NEW code \in Codes \ {"none"}, NEW prim \in Prims, NEW left \in Nat
    PROVE  Sound(Error(code), prim, left)
<1>1. Smaller(left, Buffer) \in Nat
  BY LibAssumption DEF Smaller
<1> QED BY <1>1, LibAssumption DEF Sound, Error, Ends, Status, Counts

(* What the driver's answer leaves in the status.                          *)
LEMMA AnsweredStatus ==
    ASSUME NEW k \in Counts, NEW e \in Answered(k)
    PROVE  /\ e.status \in Status /\ e.fails \in BOOLEAN
           /\ e.fails => e.status.err /\ e.status.iberr = "driver"
           /\ e.status.cnt = k
<1>1. CASE e = Ends(FALSE, [Done EXCEPT !.cnt = k])
  BY <1>1 DEF Ends, Done, Status, Codes
<1>2. CASE e = Ends(TRUE, [err |-> TRUE, iberr |-> "driver", cnt |-> k])
  BY <1>2 DEF Ends, Status, Codes
<1> QED BY <1>1, <1>2 DEF Answered

(* An answer of the driver is sound.                                       *)
LEMMA AnsweredSound ==
    ASSUME NEW prim \in Prims \ {"nofile", "load"}, NEW left \in Nat, NEW k \in Counts,
           prim = "fetch" => k <= left, NEW e \in Answered(k)
    PROVE  Sound(e, prim, left)
  BY AnsweredStatus DEF Sound

(* So is what is reported when there is none.                              *)
LEMMA NoAnswerSound ==
    ASSUME NEW prim \in Prims \ {"nofile"}, NEW left \in Nat, NEW e \in NoAnswer(prim)
    PROVE  Sound(e, prim, left)
<1>1. CASE e = Error("ENEB") \/ e = Error("EDVR")
  BY <1>1, ErrorSound DEF Codes
<1>2. CASE prim \in {"close", "lockout"} /\ e = Ends(FALSE, Done)
  BY <1>2, LibAssumption DEF Sound, Ends, Done, Status, Counts, Codes
<1> QED BY <1>1, <1>2 DEF NoAnswer

(* So is what a write comes to.                                            *)
LEMMA WrittenSound ==
    ASSUME NEW n \in Nat, NEW prim \in {"write", "load"}, NEW left \in Nat,
           prim = "load" => n = Smaller(left, Buffer), NEW e \in Written(n)
    PROVE  Sound(e, prim, left)
<1>1. CASE e \in {Error("ENEB"), Error("EARG")}
  BY <1>1, ErrorSound DEF Codes, Prims
<1>2. CASE n <= MaxInline /\ e \in NoAnswer("write")
  <2>1. e \in {Error("ENEB"), Error("EDVR")}
    BY <1>2 DEF NoAnswer
  <2> QED BY <2>1, ErrorSound DEF Codes, Prims
<1>3. CASE n <= MaxInline /\ e \in UNION {Answered(k) : k \in 0 .. n}
  <2>1. PICK k \in 0 .. n : e \in Answered(k)
    BY <1>3
  <2>2. k \in Counts
    BY <1>3, LibAssumption DEF Counts
  <2>3. /\ e.status \in Status /\ e.fails \in BOOLEAN
        /\ e.fails => e.status.err /\ e.status.iberr = "driver"
        /\ e.status.cnt <= n
    BY <2>1, <2>2, AnsweredStatus
  <2> QED BY <1>3, <2>3 DEF Sound
<1> QED BY <1>1, <1>2, <1>3, LibAssumption DEF Written

(* So is what simple_handle_call makes of an answer.                       *)
LEMMA SimpleSound ==
    ASSUME NEW left \in Nat, NEW e \in AnsweredSimple
    PROVE  Sound(e, "simple", left)
<1> DEFINE st == [err |-> TRUE, iberr |-> "none", cnt |-> 0]
<1>1. Done \in Status /\ st \in Status
  BY LibAssumption DEF Done, Status, Counts, Codes
<1>2. CASE e = Ends(FALSE, Done)
  <2>1. e.fails = FALSE /\ e.status = Done
    BY <1>2 DEF Ends
  <2> QED BY <1>1, <2>1 DEF Sound
<1>3. CASE e = Ends(TRUE, st)
  <2>1. e.fails = TRUE /\ e.status = st
    BY <1>3 DEF Ends
  <2>2. st.err
    OBVIOUS
  <2> HIDE DEF st
  <2> QED BY <1>1, <2>1, <2>2 DEF Sound
<1> QED BY <1>2, <1>3 DEF AnsweredSimple

(* However a primitive call ends, the end is sound.                        *)
LEMMA OutcomesSound ==
    ASSUME NEW prim \in Prims, NEW left \in Nat, NEW e \in Outcomes(prim, left)
    PROVE  Sound(e, prim, left)
<1> USE DEF Outcomes
<1>1. CASE prim \in {"nocap", "nofile"}
  <2>1. e \in {Error("ECAP"), Error("EFSO")}
    BY <1>1
  <2> QED BY <2>1, ErrorSound DEF Codes
<1>2. CASE prim = "online"
  <2>1. e = Error("ENEB") \/ e = Ends(FALSE, Done)
    BY <1>2
  <2>2. CASE e = Error("ENEB")
    BY <2>2, ErrorSound DEF Codes
  <2>3. CASE e = Ends(FALSE, Done)
    BY <1>2, <2>3, LibAssumption DEF Sound, Ends, Done, Status, Counts, Codes
  <2> QED BY <2>1, <2>2, <2>3
<1>3. CASE prim = "simple"
  <2>1. CASE e \in AnsweredSimple
    BY <1>3, <2>1, SimpleSound
  <2>2. CASE e \in NoAnswer(prim)
    BY <1>3, <2>2, NoAnswerSound
  <2> QED BY <1>3, <2>1, <2>2
<1>4. CASE prim = "write"
  <2>1. PICK n \in {1, Buffer} : e \in Written(n)
    BY <1>4
  <2> QED BY <1>4, <2>1, WrittenSound, LibAssumption
<1>5. CASE prim = "load"
  BY <1>5, WrittenSound, SmallerIsLess, LibAssumption
<1>6. CASE prim = "read"
  <2>1. CASE e \in NoAnswer(prim)
    BY <1>6, <2>1, NoAnswerSound
  <2>2. ASSUME NEW k \in {0, 1}, e \in Answered(k) PROVE Sound(e, prim, left)
    <3>1. k \in Counts
      BY LibAssumption DEF Counts
    <3> QED BY <1>6, <2>2, <3>1, AnsweredSound
  <2> QED BY <1>6, <2>1, <2>2
<1>7. CASE prim = "fetch"
  <2> DEFINE most == Smaller(left, Smaller(Buffer, MaxInline))
  <2>1. CASE e \in NoAnswer(prim)
    BY <1>7, <2>1, NoAnswerSound
  <2>2. ASSUME NEW k \in 0 .. most, e \in Answered(k) PROVE Sound(e, prim, left)
    <3>1. k \in Counts /\ k <= left
      BY LibAssumption DEF Counts, Smaller
    <3> QED BY <1>7, <2>2, <3>1, AnsweredSound
  <2>3. e \in NoAnswer(prim) \cup UNION {Answered(k) : k \in 0 .. most}
    BY <1>7
  <2> QED BY <2>1, <2>2, <2>3
<1>8. CASE prim \in {"status", "open", "close", "lockout", "lines", "poll"}
  <2>1. e \in NoAnswer(prim) \/ e \in Answered(0)
    BY <1>8
  <2>2. 0 \in Counts
    BY LibAssumption DEF Counts
  <2> QED BY <1>8, <2>1, <2>2, NoAnswerSound, AnsweredSound
<1> QED BY <1>1, <1>2, <1>3, <1>4, <1>5, <1>6, <1>7, <1>8 DEF Prims

(* The same for one that transfers a file.                                *)
LEMMA TransferAllowed ==
    ASSUME NEW call \in Transfer, NEW size \in Nat, NEW todo \in Transfers(call, size)
    PROVE  /\ todo \in Seq(Allowed(call))
           /\ todo \in {<<>>, <<"nofile">>, IF call = "ibwrtf" THEN <<"load">> ELSE <<"fetch">>}
           /\ todo = <<>> => size = 0
<1> DEFINE one == IF call = "ibwrtf" THEN <<"load">> ELSE <<"fetch">>
<1>1. todo \in {<<"nofile">>, one} \/ (todo = <<>> /\ size = 0)
  BY DEF Transfers, Transfer
<1>2. "nofile" \in Allowed(call) /\ "load" \in Allowed(call) /\ "fetch" \in Allowed(call)
  BY DEF Allowed, Prims
<1>3. <<"nofile">> \in Seq(Allowed(call)) /\ <<"load">> \in Seq(Allowed(call)) /\ <<"fetch">> \in Seq(Allowed(call))
  BY <1>2
<1>4. <<"nofile">> # <<>> /\ <<"load">> # <<>> /\ <<"fetch">> # <<>> /\ <<>> \in Seq(Allowed(call))
  OBVIOUS
<1> QED BY <1>1, <1>3, <1>4

-----------------------------------------------------------------------------
(* Going on changes what is to be done and where the call is.              *)
LEMMA ContinueFields ==
    ASSUME NEW c \in Thread, NEW todo \in Seq(Prims)
    PROVE  /\ Continue(c, todo) \in Thread
           /\ Continue(c, todo).call = c.call /\ Continue(c, todo).todo = todo
           /\ Continue(c, todo).status = c.status
           /\ Continue(c, todo).phase = IF todo = <<>> THEN "idle" ELSE "request"
           /\ Continue(c, todo).failed = c.failed
           /\ Continue(c, todo).size = c.size /\ Continue(c, todo).left = c.left
           /\ Continue(c, todo).moved = c.moved /\ Continue(c, todo).missed = c.missed
           /\ Continue(c, todo).ended = c.ended
           /\ Continue(c, todo).mixed = c.mixed
  BY DEF Continue, Thread

(* What is known of a call that has just been made.                        *)
Fresh(d, t, call, size, todo) ==
    /\ d \in Thread /\ d.call = call /\ d.todo = todo /\ d.status = thread[t].status
    /\ d.phase = IF todo = <<>> THEN "idle" ELSE "request"
    /\ d.failed = FALSE /\ d.ended = FALSE /\ d.mixed = FALSE
    /\ d.size = size /\ d.left = size /\ d.moved = 0 /\ d.missed = 0

(* A call begins with nothing failed, moved or ended.                      *)
LEMMA StartingFields ==
    ASSUME TypeOK, NEW t \in Threads, NEW call \in Calls, NEW size \in Nat, NEW todo \in Seq(Prims)
    PROVE  Fresh(Starting(t, call, size, todo), t, call, size, todo)
<1> DEFINE c == [Idle EXCEPT !.call = call, !.size = size, !.left = size, !.status = thread[t].status]
<1>1. Idle \in Thread /\ Idle.failed = FALSE /\ Idle.ended = FALSE /\ Idle.mixed = FALSE /\ Idle.moved = 0
      /\ Idle.missed = 0
  <2>1. Done \in Status
    BY LibAssumption DEF Done, Status, Counts, Codes
  <2> QED BY <2>1 DEF Idle, Thread
<1>2. thread[t].status \in Status
  BY DEF TypeOK, Thread
<1>3. c \in Thread
  BY <1>1, <1>2 DEF Thread
<1>4. Starting(t, call, size, todo) = Continue(c, todo)
  BY DEF Starting
<1>5. /\ c.call = call /\ c.status = thread[t].status /\ c.failed = FALSE /\ c.ended = FALSE
      /\ c.mixed = FALSE /\ c.size = size /\ c.left = size /\ c.moved = 0 /\ c.missed = 0
  BY <1>1 DEF Thread
<1> HIDE DEF c
<1> QED BY <1>3, <1>4, <1>5, ContinueFields DEF Fresh

(* What is left to do is made of what there was.                           *)
LEMMA RestAllowed ==
    ASSUME NEW S, NEW c, c.todo \in Seq(S), c.todo # <<>>
    PROVE  Rest(c) \in Seq(S)
<1>1. Tail(c.todo) \in Seq(S) /\ SubSeq(c.todo, 4, Len(c.todo)) \in Seq(S) /\ <<>> \in Seq(S)
  BY Shorter
<1> QED BY <1>1 DEF Rest

-----------------------------------------------------------------------------
(* What one thread does leaves what is known of the others as it is.       *)
LEMMA OthersKeep ==
    ASSUME IInv, NEW t \in Threads, NEW c \in Thread, NEW fresh \in BOOLEAN,
           thread' = [thread EXCEPT ![t] = c],
           \/ UNCHANGED <<globals, disturbed>>
           \/ Disturb(t, fresh),
           \A u \in Threads \ {t} : mirror'[u] = mirror[u],
           Local(c), Recorded(t)', TypeOK'
    PROVE  IInv'
<1>1. thread'[t] = c
  BY DEF IInv, TypeOK
<1>2. ASSUME NEW u \in Threads \ {t} PROVE Local(thread'[u]) /\ Recorded(u)'
  <2>1. thread'[u] = thread[u] /\ mirror'[u] = mirror[u]
    BY DEF IInv, TypeOK
  <2>2. CASE UNCHANGED <<globals, disturbed>>
    BY <2>1, <2>2 DEF IInv, Recorded
  <2>3. CASE Disturb(t, fresh)
    <3>1. disturbed'[u] = TRUE
      BY <2>3 DEF Disturb
    <3> QED BY <2>1, <3>1 DEF IInv, Recorded
  <2> QED BY <2>2, <2>3
<1>3. \A u \in Threads : Local(thread'[u]) /\ Recorded(u)'
  BY <1>1, <1>2
<1> QED BY <1>3 DEF IInv, Local, Plan, Failure, Count, Bytes

(* It holds when no call has been made.                                    *)
LEMMA InitKeeps == Init => IInv
<1> SUFFICES ASSUME Init PROVE IInv
  OBVIOUS
<1>1. Done \in Status
  BY LibAssumption DEF Done, Status, Counts, Codes
<1>2. Idle \in Thread
  BY <1>1 DEF Idle, Thread
<1>3. TypeOK
  BY <1>1, <1>2 DEF Init, TypeOK
<1>4. Local(Idle)
  BY DEF Local, Plan, Failure, Count, Bytes, Idle, Done, Allowed, Answering, Transfer
<1>5. \A t \in Threads : Local(thread[t]) /\ Recorded(t)
  BY <1>4 DEF Init, Recorded, Idle, Answering
<1> QED BY <1>3, <1>5 DEF IInv

(* A call that transfers no file is made.                                  *)
LEMMA BeginKeeps ==
    ASSUME IInv, NEW t \in Threads, NEW call \in Calls, NEW k \in Lists, Begin(t, call, k)
    PROVE  IInv'
<1> DEFINE todo == Body(call, k)
           c == Starting(t, call, 0, todo)
<1>1. call \in Calls \ Transfer
  BY DEF Begin, Transfer
<1>2. todo \in Seq(Allowed(call)) /\ todo \in Seq(Prims)
  <2>1. k \in Nat
    BY LibAssumption
  <2>2. todo \in Seq(Allowed(call))
    BY <1>1, <2>1, BodyAllowed
  <2>3. Allowed(call) \subseteq Prims
    BY DEF Allowed
  <2> QED BY <2>2, <2>3
<1> HIDE DEF todo
<1>3. Fresh(c, t, call, 0, todo)
  <2>1. TypeOK /\ 0 \in Nat
    BY DEF IInv
  <2> QED BY <1>2, <2>1, StartingFields
<1>4. thread' = [thread EXCEPT ![t] = c] /\ UNCHANGED <<globals, mirror, disturbed>> /\ At(t, "idle")
  BY DEF Begin, todo
<1> HIDE DEF c
<1>5. Local(c)
  BY <1>1, <1>2, <1>3 DEF Fresh, Local, Plan, Failure, Count, Bytes, Answering, Transfer
<1>6. Recorded(t)'
  BY <1>3, <1>4 DEF Fresh, Recorded, IInv, TypeOK, At, Answering
<1>7. TypeOK'
  BY <1>3, <1>4 DEF Fresh, IInv, TypeOK
<1>8. c \in Thread
  BY <1>3 DEF Fresh
<1> QED BY <1>4, <1>5, <1>6, <1>7, <1>8, OthersKeep

(* A file transfer is begun.                                               *)
LEMMA BeginTransferKeeps ==
    ASSUME IInv, NEW t \in Threads, NEW call \in Calls, NEW size \in Lengths,
           BeginTransfer(t, call, size)
    PROVE  IInv'
<1>1. call \in Transfer /\ size \in Nat
  BY LibAssumption DEF BeginTransfer, Transfer
<1>2. PICK todo \in Transfers(call, size) : thread' = [thread EXCEPT ![t] = Starting(t, call, size, todo)]
  BY DEF BeginTransfer
<1> DEFINE c == Starting(t, call, size, todo)
<1>3. /\ todo \in Seq(Allowed(call)) /\ todo \in Seq(Prims)
      /\ todo \in {<<>>, <<"nofile">>, IF call = "ibwrtf" THEN <<"load">> ELSE <<"fetch">>}
      /\ todo = <<>> => size = 0
  <2>1. Allowed(call) \subseteq Prims
    BY DEF Allowed
  <2> QED BY <1>1, <2>1, TransferAllowed
<1>4. Fresh(c, t, call, size, todo)
  <2>1. TypeOK
    BY DEF IInv
  <2> QED BY <1>1, <1>3, <2>1, StartingFields
<1>5. thread' = [thread EXCEPT ![t] = c] /\ UNCHANGED <<globals, mirror, disturbed>> /\ At(t, "idle")
  BY <1>2 DEF BeginTransfer
<1> HIDE DEF c
<1>6. Local(c)
  BY <1>1, <1>3, <1>4 DEF Fresh, Local, Plan, Failure, Count, Bytes, Answering, Transfer
<1>7. Recorded(t)'
  BY <1>4, <1>5 DEF Fresh, Recorded, IInv, TypeOK, At, Answering
<1>8. TypeOK'
  BY <1>4, <1>5 DEF Fresh, IInv, TypeOK
<1>9. c \in Thread
  BY <1>4 DEF Fresh
<1> QED BY <1>5, <1>6, <1>7, <1>8, <1>9, OthersKeep

(* The answer, whatever it is, is accounted for.                           *)
LEMMA RequestKeeps ==
    ASSUME IInv, NEW t \in Threads, Request(t)
    PROVE  IInv'
<1> DEFINE c == thread[t]
           prim == Head(c.todo)
<1>1. c \in Thread /\ Local(c) /\ c.phase = "request"
  BY DEF IInv, TypeOK, Request, At
<1>2. PICK e \in Outcomes(prim, c.left), hit \in BOOLEAN :
        thread' = [thread EXCEPT ![t] =
          [c EXCEPT !.status = e.status, !.phase = "ibsta",
                    !.failed = e.fails \/ (c.call = "ibeos" /\ @),
                    !.hit = hit \/ (prim = "close" /\ @)]]
  BY DEF Request
<1> DEFINE d == [c EXCEPT !.status = e.status, !.phase = "ibsta",
                          !.failed = e.fails \/ (c.call = "ibeos" /\ @),
                          !.hit = hit \/ (prim = "close" /\ @)]
<1>3. c.todo \in Seq(Allowed(c.call)) /\ c.todo # <<>> /\ prim \in Allowed(c.call) /\ prim \in Prims
  BY <1>1, Shorter DEF Local, Plan, Allowed
<1>4. Sound(e, prim, c.left)
  BY <1>1, <1>3, OutcomesSound DEF Thread
<1> HIDE DEF c
<1>5. d \in Thread
  BY <1>1, <1>4 DEF Thread, Sound
<1>6. /\ d.call = c.call /\ d.todo = c.todo /\ d.status = e.status /\ d.phase = "ibsta"
      /\ d.left = c.left /\ d.size = c.size /\ d.moved = c.moved /\ d.missed = c.missed
      /\ d.ended = c.ended /\ d.mixed = c.mixed
      /\ c.call # "ibeos" => d.failed = e.fails
  BY <1>1, <1>4 DEF Thread, Sound
<1>7. thread' = [thread EXCEPT ![t] = d] /\ UNCHANGED <<globals, mirror, disturbed>>
  BY <1>2 DEF Request, c
<1> HIDE DEF d
<1>8. Local(d)
  <2>1. Plan(d)
    BY <1>1, <1>6 DEF Local, Plan
  <2>2. Failure(d)
    <3>1. c.call \in Traditional \ {"ibclr"} => prim # "simple"
      BY <1>3 DEF Allowed
    <3>2. c.todo = <<"nofile">> => prim = "nofile"
      OBVIOUS
    <3> QED BY <1>4, <1>6, <3>1, <3>2 DEF Failure, Sound, Transfer, Traditional
  <2>3. Count(d)
    <3>1. c.todo = <<"load">> => prim = "load"
      OBVIOUS
    <3> QED BY <1>4, <1>6, <3>1 DEF Count, Sound
  <2>4. Bytes(d)
    BY <1>1, <1>6 DEF Local, Bytes, Answering, Transfer
  <2> QED BY <2>1, <2>2, <2>3, <2>4 DEF Local
<1>9. Recorded(t)'
  BY <1>5, <1>6, <1>7 DEF Recorded, Answering, IInv, TypeOK
<1>10. TypeOK'
  BY <1>5, <1>7 DEF IInv, TypeOK
<1> QED BY <1>5, <1>7, <1>8, <1>9, <1>10, OthersKeep

(* Writing a global clears nobody's history but one's own.                 *)
LEMMA DisturbTyped ==
    ASSUME TypeOK, NEW t \in Threads, NEW fresh \in BOOLEAN, Disturb(t, fresh)
    PROVE  disturbed' \in [Threads -> BOOLEAN] /\ disturbed'[t] = (disturbed[t] /\ ~fresh)
  BY DEF Disturb, TypeOK

(* The status is written down piece by piece.                              *)
LEMMA SetIbstaKeeps ==
    ASSUME IInv, NEW t \in Threads, SetIbsta(t)
    PROVE  IInv'
<1> DEFINE c == thread[t]
           d == [c EXCEPT !.phase = "iberr"]
<1>1. c \in Thread /\ Local(c) /\ c.phase = "ibsta" /\ globals \in Status /\ c.status \in Status
  BY DEF IInv, TypeOK, SetIbsta, At, Thread
<1>2. thread' = [thread EXCEPT ![t] = d] /\ UNCHANGED mirror /\ Disturb(t, TRUE)
      /\ globals' = [globals EXCEPT !.err = c.status.err]
  BY DEF SetIbsta, Goto
<1>3. disturbed' \in [Threads -> BOOLEAN]
  BY <1>2, DisturbTyped DEF IInv
<1> HIDE DEF c
<1>4. /\ d \in Thread /\ d.call = c.call /\ d.todo = c.todo /\ d.status = c.status /\ d.phase = "iberr"
      /\ d.left = c.left /\ d.size = c.size /\ d.moved = c.moved /\ d.missed = c.missed
      /\ d.ended = c.ended /\ d.mixed = c.mixed /\ d.failed = c.failed
  BY <1>1 DEF Thread
<1>5. globals' \in Status /\ globals'.err = c.status.err
  BY <1>1, <1>2 DEF Status
<1> HIDE DEF d
<1>6. Local(d)
  BY <1>1, <1>4 DEF Local, Plan, Failure, Count, Bytes, Answering
<1>7. Recorded(t)'
  BY <1>2, <1>4, <1>5 DEF Recorded, Answering, IInv, TypeOK
<1>8. TypeOK'
  BY <1>2, <1>3, <1>4, <1>5 DEF IInv, TypeOK
<1> QED BY <1>2, <1>4, <1>6, <1>7, <1>8, OthersKeep

(* iberr follows ibsta.                                                    *)
LEMMA SetIberrKeeps ==
    ASSUME IInv, NEW t \in Threads, SetIberr(t)
    PROVE  IInv'
<1> DEFINE c == thread[t]
           d == [c EXCEPT !.phase = "ibcntl"]
<1>1. c \in Thread /\ Local(c) /\ c.phase = "iberr" /\ globals \in Status /\ c.status \in Status
  BY DEF IInv, TypeOK, SetIberr, At, Thread
<1>2. thread' = [thread EXCEPT ![t] = d] /\ UNCHANGED mirror /\ Disturb(t, FALSE)
      /\ globals' = [globals EXCEPT !.iberr = c.status.iberr]
  BY DEF SetIberr, Goto
<1>3. disturbed' \in [Threads -> BOOLEAN] /\ (~disturbed'[t] => ~disturbed[t])
  BY <1>2, DisturbTyped DEF IInv
<1>4. ~disturbed[t] => globals.err = c.status.err
  BY <1>1 DEF IInv, Recorded
<1> HIDE DEF c
<1>5. /\ d \in Thread /\ d.call = c.call /\ d.todo = c.todo /\ d.status = c.status /\ d.phase = "ibcntl"
      /\ d.left = c.left /\ d.size = c.size /\ d.moved = c.moved /\ d.missed = c.missed
      /\ d.ended = c.ended /\ d.mixed = c.mixed /\ d.failed = c.failed
  BY <1>1 DEF Thread
<1>6. globals' \in Status /\ globals'.iberr = c.status.iberr /\ globals'.err = globals.err
  BY <1>1, <1>2 DEF Status
<1> HIDE DEF d
<1>7. Local(d)
  BY <1>1, <1>5 DEF Local, Plan, Failure, Count, Bytes, Answering
<1>8. Recorded(t)'
  <2>1. thread'[t] = d
    BY <1>2 DEF IInv, TypeOK
  <2> QED BY <1>3, <1>4, <1>5, <1>6, <2>1 DEF Recorded, Answering
<1>9. TypeOK'
  BY <1>2, <1>3, <1>5, <1>6 DEF IInv, TypeOK
<1> QED BY <1>2, <1>5, <1>7, <1>8, <1>9, OthersKeep

(* Going on with the call, or returning from it, forgets nothing.          *)
LEMMA ContinueKeeps ==
    ASSUME NEW c \in Thread, NEW todo \in Seq(Allowed(c.call)),
           c.call = "ibwrtf" => todo \in {<<>>, <<"nofile">>, <<"load">>},
           c.call = "ibrdf" => todo \in {<<>>, <<"nofile">>, <<"fetch">>},
           c.call \in Traditional \ {"ibeos"} /\ c.failed =>
             c.status.err /\ (c.call # "ibclr" => c.status.iberr # "none"),
           c.call \in Transfer /\ ~c.mixed /\ (todo # <<>> \/ ~c.failed) =>
             c.moved + c.missed + c.left = c.size,
           c.call \in Transfer /\ todo = <<>> /\ ~c.failed => c.left = 0,
           c.call = "ibrdf" /\ c.ended => c.left = 0
    PROVE  /\ Continue(c, todo) \in Thread /\ Local(Continue(c, todo))
           /\ Continue(c, todo).status = c.status
           /\ Continue(c, todo).phase \notin Answering
<1> DEFINE d == Continue(c, todo)
<1>1. todo \in Seq(Prims)
  BY DEF Allowed
<1>2. /\ d \in Thread /\ d.call = c.call /\ d.todo = todo /\ d.status = c.status
      /\ d.phase = (IF todo = <<>> THEN "idle" ELSE "request")
      /\ d.failed = c.failed /\ d.size = c.size /\ d.left = c.left
      /\ d.moved = c.moved /\ d.missed = c.missed /\ d.ended = c.ended /\ d.mixed = c.mixed
  BY <1>1, ContinueFields
<1> HIDE DEF d
<1>3. d.phase \in {"idle", "request"} /\ (d.phase = "idle" <=> todo = <<>>)
  BY <1>2
<1>4. Plan(d)
  BY <1>2, <1>3 DEF Plan
<1>5. Failure(d) /\ Count(d)
  BY <1>2, <1>3 DEF Failure, Count, Answering
<1>6. Bytes(d)
  <2>1. c.moved \in Nat /\ c.missed \in Nat /\ c.size \in Nat /\ c.left \in Nat
    BY DEF Thread
  <2> QED BY <1>2, <1>3, <2>1 DEF Bytes, Answering
<1> QED BY <1>2, <1>3, <1>4, <1>5, <1>6 DEF Local, Answering, d

(* What a file transfer that has had its answer does next.                 *)
LEMMA RestOfTransfer ==
    ASSUME NEW c, c.call \in Transfer, c.todo \in {<<"nofile">>, <<"load">>, <<"fetch">>}
    PROVE  /\ c.todo = <<"nofile">> => Rest(c) = <<>>
           /\ c.todo = <<"load">> => Rest(c) = IF c.failed \/ c.left = 0 THEN <<>> ELSE c.todo
           /\ c.todo = <<"fetch">> => Rest(c) = IF c.failed \/ c.ended THEN <<>> ELSE c.todo
<1>1. CASE c.todo = <<"nofile">>
  <2>1. Head(c.todo) = "nofile" /\ Tail(c.todo) = <<>> /\ c.todo # <<"load">> /\ c.todo # <<"fetch">>
    BY <1>1
  <2> QED BY <2>1 DEF Rest
<1>2. CASE c.todo = <<"load">>
  <2>1. Head(c.todo) = "load" /\ c.todo # <<"nofile">> /\ c.todo # <<"fetch">>
    BY <1>2
  <2> QED BY <2>1 DEF Rest
<1>3. CASE c.todo = <<"fetch">>
  <2>1. Head(c.todo) = "fetch" /\ c.todo # <<"nofile">> /\ c.todo # <<"load">>
    BY <1>3
  <2> QED BY <2>1 DEF Rest
<1> QED BY <1>1, <1>2, <1>3

(* The caller takes an answer without losing a byte.                       *)
LEMMA TakenKeeps ==
    ASSUME NEW c \in Thread, Local(c), c.phase = "ibcntl"
    PROVE  /\ Taken(c) \in Thread /\ Local(Taken(c))
           /\ Taken(c).status = c.status /\ Taken(c).phase \notin Answering
<1> DEFINE prim == Head(c.todo)
           k == c.status.cnt
<1>1. c.todo \in Seq(Allowed(c.call)) /\ c.todo # <<>>
  BY DEF Local, Plan
<1>2. k \in Nat /\ c.left \in Nat /\ c.moved \in Nat /\ c.missed \in Nat
      /\ c.size \in Nat /\ Buffer \in Nat
  BY LibAssumption DEF Thread, Status, Counts
<1>3. /\ c.call = "ibwrtf" => c.todo \in {<<"nofile">>, <<"load">>}
      /\ c.call = "ibrdf" => c.todo \in {<<"nofile">>, <<"fetch">>}
  BY DEF Local, Plan
<1>4. c.call \in Traditional \ {"ibeos"} /\ c.failed =>
        c.status.err /\ (c.call # "ibclr" => c.status.iberr # "none")
  BY DEF Local, Failure
<1>5. c.call \in Transfer /\ c.todo = <<"nofile">> => c.failed
  BY DEF Local, Failure, Answering
<1>6. c.call \in Transfer /\ ~c.mixed => c.moved + c.missed + c.left = c.size
  BY DEF Local, Bytes, Answering
<1>7. c.call = "ibrdf" /\ c.ended => c.left = 0
  BY DEF Local, Bytes
<1>8. CASE prim = "load"
  <2> DEFINE chunk == Smaller(c.left, Buffer)
             left == c.left - chunk
             moved == IF c.failed THEN c.moved ELSE c.moved + k
             missed == IF c.failed THEN c.missed ELSE c.missed + (chunk - k)
             d == [c EXCEPT !.left = left, !.moved = moved, !.missed = missed]
  <2>1. Taken(c) = Continue(d, Rest(d))
    BY <1>8 DEF Taken
  <2>10. chunk \in Nat /\ chunk <= c.left
    BY <1>2, SmallerIsLess
  <2>11. k <= chunk
    BY <1>1, <1>8 DEF Local, Count, Answering
  <2>2. /\ left \in Nat /\ moved \in Nat /\ missed \in Nat
        /\ ~c.failed => moved + missed + left = c.moved + c.missed + c.left
    <3> HIDE DEF chunk, k
    <3> QED BY <1>2, <2>10, <2>11
  <2> HIDE DEF chunk, left, moved, missed
  <2>3. /\ d \in Thread /\ d.call = c.call /\ d.todo = c.todo /\ d.status = c.status
        /\ d.failed = c.failed /\ d.mixed = c.mixed /\ d.size = c.size /\ d.ended = c.ended
        /\ d.left = left /\ d.moved = moved /\ d.missed = missed
    BY <2>2 DEF Thread
  <2> HIDE DEF d
  <2>4. Rest(d) \in Seq(Allowed(d.call))
    BY <1>1, <2>3, RestAllowed
  <2>5. d.call # "ibrdf"
    <3>1. c.todo # <<"nofile">> /\ c.todo # <<"fetch">>
      BY <1>8
    <3> QED BY <1>3, <2>3, <3>1
  <2>6. CASE d.call = "ibwrtf"
    <3>1. d.todo = <<"load">>
      BY <1>3, <1>8, <2>3, <2>6
    <3>2. Rest(d) = IF d.failed \/ d.left = 0 THEN <<>> ELSE d.todo
      <4>1. d.call \in Transfer /\ d.todo \in {<<"nofile">>, <<"load">>, <<"fetch">>}
        BY <2>6, <3>1 DEF Transfer
      <4> QED BY <3>1, <4>1, RestOfTransfer
    <3>4. ~d.mixed /\ ~d.failed => d.moved + d.missed + d.left = d.size
      <4>1. ~d.mixed => c.moved + c.missed + c.left = c.size
        BY <1>6, <2>3, <2>6 DEF Transfer
      <4> QED BY <2>2, <2>3, <4>1
    <3>5. Rest(d) \in {<<>>, <<"load">>} /\ (Rest(d) # <<>> => ~d.failed)
          /\ (Rest(d) = <<>> /\ ~d.failed => d.left = 0)
      BY <3>1, <3>2
    <3> QED BY <1>4, <2>1, <2>3, <2>4, <2>6, <3>4, <3>5, ContinueKeeps
  <2>7. CASE d.call \notin Transfer
    BY <1>4, <2>1, <2>3, <2>4, <2>7, ContinueKeeps DEF Transfer
  <2> QED BY <2>5, <2>6, <2>7 DEF Transfer
<1>9. CASE prim = "fetch" /\ ~c.failed
  <2> DEFINE all == c.left > 0 /\ k = c.left
             left == c.left - k
             d == [c EXCEPT !.left = left, !.ended = all, !.phase = "store"]
  <2>1. Taken(c) = d
    BY <1>9 DEF Taken
  <2>2. k <= c.left /\ left = c.left - k /\ left \in Nat
    BY <1>1, <1>2, <1>9 DEF Local, Count, Answering
  <2>3. all \in BOOLEAN
    OBVIOUS
  <2> HIDE DEF all, left
  <2>4. /\ d \in Thread /\ d.call = c.call /\ d.todo = c.todo /\ d.status = c.status
        /\ d.failed = c.failed /\ d.mixed = c.mixed /\ d.size = c.size /\ d.ended = all
        /\ d.left = left /\ d.moved = c.moved /\ d.missed = c.missed /\ d.phase = "store"
    BY <2>2, <2>3 DEF Thread
  <2> HIDE DEF d
  <2>5. Plan(d)
    BY <1>1, <1>3, <1>9, <2>4 DEF Plan
  <2>6. Failure(d) /\ Count(d)
    BY <1>9, <2>4 DEF Failure, Count, Answering
  <2>7. all => d.left = 0
    BY <1>2, <2>2, <2>4 DEF all
  <2>8. Bytes(d)
    BY <1>2, <1>6, <2>2, <2>4, <2>7 DEF Bytes, Answering, Transfer
  <2> QED BY <2>1, <2>4, <2>5, <2>6, <2>8 DEF Local, Answering
<1>10. CASE prim # "load" /\ ~(prim = "fetch" /\ ~c.failed)
  <2>1. Taken(c) = Continue(c, Rest(c))
    BY <1>10 DEF Taken
  <2>2. Rest(c) \in Seq(Allowed(c.call))
    BY <1>1, RestAllowed
  <2>3. CASE c.call \in Transfer
    <3>1. c.todo \in {<<"nofile">>, <<"fetch">>}
      BY <1>3, <1>10, <2>3 DEF Transfer
    <3>2. c.failed
      BY <1>5, <1>10, <2>3, <3>1
    <3>3. Rest(c) = <<>>
      BY <2>3, <3>1, <3>2, RestOfTransfer
    <3> QED BY <1>4, <1>7, <2>1, <2>2, <3>2, <3>3, ContinueKeeps
  <2>4. CASE c.call \notin Transfer
    BY <1>4, <2>1, <2>2, <2>4, ContinueKeeps DEF Transfer
  <2> QED BY <2>3, <2>4
<1> QED BY <1>8, <1>9, <1>10

(* ibcntl follows iberr, and the copy is made.                             *)
LEMMA SetIbcntlKeeps ==
    ASSUME IInv, NEW t \in Threads, SetIbcntl(t)
    PROVE  IInv'
<1> DEFINE c == thread[t]
           d == Taken(c)
<1>1. /\ c \in Thread /\ Local(c) /\ c.phase = "ibcntl" /\ globals \in Status
      /\ c.status \in Status /\ mirror \in [Threads -> Status] /\ thread \in [Threads -> Thread]
  BY DEF IInv, TypeOK, SetIbcntl, At, Thread
<1>2. /\ thread' = [thread EXCEPT ![t] = d] /\ Disturb(t, FALSE)
      /\ globals' = [globals EXCEPT !.cnt = c.status.cnt]
      /\ mirror' = [mirror EXCEPT ![t] = c.status]
  BY DEF SetIbcntl
<1>3. disturbed' \in [Threads -> BOOLEAN] /\ (~disturbed'[t] => ~disturbed[t])
  BY <1>2, DisturbTyped DEF IInv
<1>4. ~disturbed[t] => globals.err = c.status.err /\ globals.iberr = c.status.iberr
  BY <1>1 DEF IInv, Recorded
<1> HIDE DEF c
<1>5. d \in Thread /\ Local(d) /\ d.status = c.status /\ d.phase \notin Answering
  BY <1>1, TakenKeeps
<1> HIDE DEF d
<1>6. /\ globals' \in Status /\ globals'.cnt = c.status.cnt
      /\ globals'.err = globals.err /\ globals'.iberr = globals.iberr
  BY <1>1, <1>2 DEF Status
<1>7. mirror' \in [Threads -> Status] /\ mirror'[t] = c.status
      /\ \A u \in Threads \ {t} : mirror'[u] = mirror[u]
  BY <1>1, <1>2
<1>8. Recorded(t)'
  <2>1. thread'[t] = d
    BY <1>1, <1>2
  <2> QED BY <1>3, <1>4, <1>5, <1>6, <1>7, <2>1 DEF Recorded
<1>9. TypeOK'
  BY <1>1, <1>2, <1>3, <1>5, <1>6, <1>7 DEF TypeOK
<1> QED BY <1>2, <1>5, <1>7, <1>8, <1>9, OthersKeep

(* ibrdf writes out what it has read, or loses count.                      *)
LEMMA StoreKeeps ==
    ASSUME IInv, NEW t \in Threads, Store(t)
    PROVE  IInv'
<1> DEFINE c == thread[t]
           mixed == c.mixed \/ disturbed[t]
           moved == IF mixed THEN 0 ELSE c.moved + globals.cnt
           d == [c EXCEPT !.moved = moved, !.mixed = mixed]
           e == Continue(d, Rest(d))
<1>1. /\ c \in Thread /\ Local(c) /\ c.phase = "store" /\ globals \in Status
      /\ c.status \in Status /\ thread \in [Threads -> Thread]
  BY DEF IInv, TypeOK, Store, At, Thread
<1>2. thread' = [thread EXCEPT ![t] = e] /\ UNCHANGED <<globals, mirror, disturbed>>
  BY DEF Store
<1>3. /\ mirror[t] = c.status
      /\ ~disturbed[t] => /\ globals.err = c.status.err /\ globals.iberr = c.status.iberr
                          /\ globals.cnt = c.status.cnt
  BY <1>1 DEF IInv, Recorded, Answering
<1>4. /\ mixed \in BOOLEAN /\ (~mixed => ~c.mixed /\ ~disturbed[t])
      /\ moved \in Nat /\ (~mixed => moved = c.moved + c.status.cnt)
  <2>1. c.moved \in Nat /\ globals.cnt \in Nat /\ c.mixed \in BOOLEAN /\ disturbed[t] \in BOOLEAN
    BY <1>1, LibAssumption DEF Thread, Status, Counts, IInv, TypeOK
  <2> QED BY <1>3, <2>1
<1> HIDE DEF c, mixed, moved
<1>5. /\ d \in Thread /\ d.call = c.call /\ d.todo = c.todo /\ d.status = c.status
      /\ d.failed = c.failed /\ d.mixed = mixed /\ d.size = c.size /\ d.ended = c.ended
      /\ d.left = c.left /\ d.moved = moved /\ d.missed = c.missed
  BY <1>1, <1>4 DEF Thread
<1> HIDE DEF d
<1>6. c.todo \in Seq(Allowed(c.call)) /\ c.todo # <<>> /\ Head(c.todo) = "fetch"
  BY <1>1 DEF Local, Plan
<1>7. Rest(d) \in Seq(Allowed(d.call))
  BY <1>5, <1>6, RestAllowed
<1>8. d.call \in Traditional \ {"ibeos"} /\ d.failed =>
        d.status.err /\ (d.call # "ibclr" => d.status.iberr # "none")
  BY <1>1, <1>5 DEF Local, Failure
<1>9. d.call # "ibwrtf"
  <2>1. c.todo # <<"nofile">> /\ c.todo # <<"load">>
    BY <1>6
  <2> QED BY <1>1, <1>5, <2>1 DEF Local, Plan
<1>10. e \in Thread /\ Local(e) /\ e.status = d.status /\ e.phase \notin Answering
  <2>1. CASE d.call = "ibrdf"
    <3>1. d.todo = <<"fetch">>
      <4>1. c.todo # <<"nofile">>
        BY <1>6
      <4> QED BY <1>1, <1>5, <2>1, <4>1 DEF Local, Plan
    <3>2. Rest(d) = IF d.failed \/ d.ended THEN <<>> ELSE d.todo
      <4>1. d.call \in Transfer /\ d.todo \in {<<"nofile">>, <<"load">>, <<"fetch">>}
        BY <2>1, <3>1 DEF Transfer
      <4> QED BY <3>1, <4>1, RestOfTransfer
    <3>3. Rest(d) \in {<<>>, <<"fetch">>} /\ (Rest(d) = <<>> /\ ~d.failed => d.ended)
      BY <3>1, <3>2
    <3>4. ~d.mixed => d.moved + d.missed + d.left = d.size
      <4>1. ~c.mixed => c.moved + c.missed + c.left + c.status.cnt = c.size
        BY <1>1, <1>5, <2>1 DEF Local, Bytes
      <4>2. c.moved \in Nat /\ c.missed \in Nat /\ c.left \in Nat /\ c.status.cnt \in Nat
        BY <1>1, LibAssumption DEF Thread, Status, Counts
      <4> QED BY <1>4, <1>5, <4>1, <4>2
    <3>5. d.ended => d.left = 0
      BY <1>1, <1>5, <2>1 DEF Local, Bytes
    <3> QED BY <1>5, <1>7, <1>8, <2>1, <3>3, <3>4, <3>5, ContinueKeeps
  <2>2. CASE d.call \notin Transfer
    BY <1>5, <1>7, <1>8, <2>2, ContinueKeeps DEF Transfer
  <2> QED BY <1>9, <2>1, <2>2 DEF Transfer
<1> HIDE DEF e
<1>11. Recorded(t)'
  <2>1. thread'[t] = e
    BY <1>1, <1>2
  <2> QED BY <1>2, <1>3, <1>5, <1>10, <2>1 DEF Recorded
<1>12. TypeOK'
  BY <1>2, <1>10 DEF IInv, TypeOK
<1> QED BY <1>2, <1>10, <1>11, <1>12, OthersKeep

(* Every step keeps the invariant.                                         *)
LEMMA StepKeeps == IInv /\ [Next]_vars => IInv'
<1> SUFFICES ASSUME IInv, [Next]_vars PROVE IInv'
  OBVIOUS
<1>1. CASE UNCHANGED vars
  BY <1>1 DEF IInv, TypeOK, Recorded, vars
<1>2. ASSUME NEW t \in Threads, NEW call \in Calls, NEW k \in Lists, Begin(t, call, k) PROVE IInv'
  BY <1>2, BeginKeeps
<1>3. ASSUME NEW t \in Threads, NEW call \in Calls, NEW size \in Lengths, BeginTransfer(t, call, size)
      PROVE IInv'
  BY <1>3, BeginTransferKeeps
<1>4. ASSUME NEW t \in Threads, Request(t) PROVE IInv'
  BY <1>4, RequestKeeps
<1>5. ASSUME NEW t \in Threads, SetIbsta(t) PROVE IInv'
  BY <1>5, SetIbstaKeeps
<1>6. ASSUME NEW t \in Threads, SetIberr(t) PROVE IInv'
  BY <1>6, SetIberrKeeps
<1>7. ASSUME NEW t \in Threads, SetIbcntl(t) PROVE IInv'
  BY <1>7, SetIbcntlKeeps
<1>8. ASSUME NEW t \in Threads, Store(t) PROVE IInv'
  BY <1>8, StoreKeeps
<1> QED BY <1>1, <1>2, <1>3, <1>4, <1>5, <1>6, <1>7, <1>8 DEF Next

(* It holds in every reachable state.                                      *)
LEMMA Invariance == Spec => []IInv
  BY InitKeeps, StepKeeps, PTL DEF Spec

-----------------------------------------------------------------------------
(* Every reachable state of the library is well typed.                     *)
THEOREM LibTypeCorrect == Spec => []TypeOK
<1>1. IInv => TypeOK
  BY DEF IInv
<1> QED BY <1>1, Invariance, PTL

(* A thread's own status is what its last call came to, an error if that   *)
(* failed; and the globals agree unless another thread has written one of  *)
(* them since (error.c, gpib_lib_set_status).                              *)
THEOREM ThreadsKeepTheirOutcome == Spec => []OwnOutcome
<1>1. IInv => OwnOutcome
  <2> SUFFICES ASSUME IInv, NEW t \in Threads, At(t, "idle")
               PROVE  /\ mirror[t] = thread[t].status
                      /\ thread[t].failed /\ thread[t].call \in Traditional \ {"ibeos"} =>
                           mirror[t].err /\ (thread[t].call # "ibclr" => mirror[t].iberr # "none")
                      /\ ~disturbed[t] => globals = mirror[t]
    BY DEF OwnOutcome
  <2>1. Local(thread[t]) /\ Recorded(t) /\ thread[t].phase = "idle"
    BY DEF IInv, At
  <2>2. mirror[t] = thread[t].status
    BY <2>1 DEF Recorded, Answering
  <2>3. ~disturbed[t] => globals.err = mirror[t].err /\ globals.iberr = mirror[t].iberr
                         /\ globals.cnt = mirror[t].cnt
    BY <2>1, <2>2 DEF Recorded, Answering
  <2>4. globals \in Status /\ mirror[t] \in Status
    BY DEF IInv, TypeOK
  <2>5. ~disturbed[t] => globals = mirror[t]
    BY <2>3, <2>4 DEF Status
  <2>6. thread[t].failed /\ thread[t].call \in Traditional \ {"ibeos"} =>
          mirror[t].err /\ (thread[t].call # "ibclr" => mirror[t].iberr # "none")
    BY <2>1, <2>2 DEF Local, Failure
  <2> QED BY <2>2, <2>5, <2>6
<1> QED BY <1>1, Invariance, PTL

(* ibwrtf and ibrdf, returning without ERR, have gone through the whole    *)
(* file or message: all of it was moved, or reported by the driver as not  *)
(* taken; ibrdf unless it took another thread's count.                     *)
THEOREM TransfersAreWhole == Spec => []FileWhole
<1>1. IInv => FileWhole
  BY DEF IInv, FileWhole, Local, Bytes, At, Transfer
<1> QED BY <1>1, Invariance, PTL
=============================================================================
