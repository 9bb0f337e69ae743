---------------------------- MODULE GpibBoardProofs ----------------------------
(***************************************************************************)
(* What a GPIBBoard leaves on the bus, for any instruments, any command    *)
(* strings the clients send and any failures of the transport.             *)
(***************************************************************************)
EXTENDS GpibBoard, SequenceTheorems, TLAPS

Message == [cmd : Commands, at : Address]

(* The operations that recover the bus, and those that set REN on request. *)
Recovers == {"write", "read", "reinit"}
SetsRen  == {"ren", "unren", "online", "offline"}

Targeted == {"SDC", "GET", "GTL"}

(* Which operations make which transport call; a recovery raises REN only  *)
(* if it was asked for.                                                    *)
Placed(c) ==
    /\ c.pad \in Address
    /\ c.phase \in {"address", "sdc"} => c.op \in {"write", "read"}
    /\ c.phase = "reset" => c.op \in Recovers
    /\ c.phase = "ifc" => c.op \in Recovers \cup {"ifc", "online"}
    /\ c.phase = "control" => c.op \in Recovers \cup {"online"}
    /\ c.phase = "ren" => c.op \in SetsRen \/ (c.op \in Recovers /\ renRequested)
    /\ c.phase = "out" => c.op = "write"
    /\ c.phase = "in" => c.op = "read"
    /\ c.phase \in {"spe", "stb"} => c.op \in {"poll", "find"}
    /\ c.phase \in {"find", "release"} => c.op = "find"
    /\ c.phase = "teardown" => c.op \in {"poll", "find"}
    /\ c.phase = "command" => c.op \in OneShot
    /\ c.phase = "lines" => c.op \in {"find", "lines"}
    /\ c.phase = "srq" => c.op = "wait"

(* Between the reset of a recovery and its end.                            *)
Recovering(c) == c.op \in Recovers /\ c.phase \in {"ifc", "control", "ren"}

(* A recovery has reset the core: it is not latched any more, and has let  *)
(* go of REN.                                                              *)
AfterReset(c) ==
    /\ Recovering(c) \/ c.phase = "sdc" \/ (c.phase = "address" /\ c.retried) => ~bus.latched
    /\ Recovering(c) => ~bus.ren

(* REN is as it was asked for, or a recovery has yet to raise it again, or *)
(* a call to the adapter failed.                                           *)
RenHeld ==
    \/ renFault
    \/ bus.ren <=> renRequested
    \/ cur # Idle /\ Recovering(cur)

(* How far the command bytes of a write, a read, a serial poll and a       *)
(* command to one instrument are through, and what they have done so far.  *)
WriteWay(pad) ==
    \/ todo = ForWrite(pad)
    \/ todo = <<UNT, MTA(Self), MLA(pad)>> /\ bus.listen = {}
    \/ todo = <<MTA(Self), MLA(pad)>> /\ bus.listen = {}
    \/ todo = <<MLA(pad)>> /\ bus.listen = {} /\ bus.talk = Self
    \/ todo = <<>> /\ bus.listen = {pad} /\ bus.talk = Self

ReadWay(pad) ==
    \/ todo = ForRead(pad)
    \/ todo = <<UNT, MLA(Self), MTA(pad)>> /\ bus.listen = {}
    \/ todo = <<MLA(Self), MTA(pad)>> /\ bus.listen = {}
    \/ todo = <<MTA(pad)>> /\ bus.listen = {Self}
    \/ todo = <<>> /\ bus.listen = {Self} /\ bus.talk = pad

PollWay(pad) ==
    \/ todo = ForPoll(pad)
    \/ todo = <<MTA(pad), MLA(Self), Universal("SPE")>> /\ bus.listen = {}
    \/ todo = <<MLA(Self), Universal("SPE")>> /\ bus.listen = {} /\ bus.talk = pad
    \/ todo = <<Universal("SPE")>> /\ bus.listen = {Self} /\ bus.talk = pad
    \/ todo = <<>> /\ bus.listen = {Self} /\ bus.talk = pad /\ bus.poll

OrderWay(c, pad) ==
    \/ todo = Addressed(c, pad)
    \/ todo = <<MLA(pad), Universal(c)>> /\ bus.listen = {}
    \/ todo = <<Universal(c)>> /\ bus.listen = {pad}
    \/ todo = <<>>

(* None of the bytes still to be sent is for one instrument.               *)
Plain(s) == \A i \in 1 .. Len(s) : s[i].cmd \notin Targeted

Order(op) == IF op = "clear" THEN "SDC" ELSE IF op = "trigger" THEN "GET" ELSE "GTL"

Way(c) ==
    /\ c.phase = "address" /\ c.op = "write" => WriteWay(c.pad)
    /\ c.phase = "address" /\ c.op = "read" => ReadWay(c.pad)
    /\ c.phase = "spe" => PollWay(c.pad)
    /\ c.phase = "sdc" => OrderWay("SDC", c.pad)
    /\ c.phase = "command" /\ c.op \in {"clear", "trigger", "local"} => OrderWay(Order(c.op), c.pad)
    /\ c.phase \in {"find", "teardown"} \/ (c.phase = "command" /\ c.op = "lockout") => Plain(todo)

IInv ==
    /\ TypeOK
    /\ cur # Idle => Placed(cur) /\ AfterReset(cur) /\ Way(cur)
    /\ RenHeld
    /\ DataFlowsWhereAddressed

-----------------------------------------------------------------------------
(* Taking the head off a short string.                                     *)
LEMMA ShortTails ==
    ASSUME NEW a, NEW b, NEW c, NEW d
    PROVE  /\ Head(<<a, b, c, d>>) = a /\ Tail(<<a, b, c, d>>) = <<b, c, d>>
           /\ Head(<<a, b, c>>) = a /\ Tail(<<a, b, c>>) = <<b, c>>
           /\ Head(<<a, b>>) = a /\ Tail(<<a, b>>) = <<b>>
           /\ Head(<<a>>) = a /\ Tail(<<a>>) = <<>>
<1>1. Head(<<a, b, c, d>>) = a /\ Head(<<a, b, c>>) = a /\ Head(<<a, b>>) = a /\ Head(<<a>>) = a
  OBVIOUS
<1>2. Tail(<<a, b, c, d>>) = <<b, c, d>>
  OBVIOUS
<1>3. Tail(<<a, b, c>>) = <<b, c>>
  OBVIOUS
<1>4. Tail(<<a, b>>) = <<b>>
  OBVIOUS
<1>5. Tail(<<a>>) = <<>>
  OBVIOUS
<1> QED BY <1>1, <1>2, <1>3, <1>4, <1>5

(* The command strings are strings of messages, and which of them have a   *)
(* byte for one instrument.                                                *)
LEMMA Strings ==
    ASSUME NEW pad \in Address
    PROVE  /\ ForWrite(pad) \in Seq(Message) /\ ForRead(pad) \in Seq(Message)
           /\ ForPoll(pad) \in Seq(Message)
           /\ \A c \in Commands : Addressed(c, pad) \in Seq(Message) /\ <<Universal(c)>> \in Seq(Message)
           /\ <<UNL, UNT, MLA(pad)>> \in Seq(Message) /\ Plain(<<UNL, UNT, MLA(pad)>>)
           /\ Teardown \in Seq(Message) /\ Plain(Teardown) /\ Plain(<<Universal("LLO")>>)
           /\ <<>> \in Seq(Message) /\ Plain(<<>>)
<1>1. /\ \A c \in Commands : Universal(c) \in Message /\ Universal(c).cmd = c
      /\ MLA(pad) \in Message /\ MTA(pad) \in Message /\ MLA(Self) \in Message /\ MTA(Self) \in Message
      /\ MLA(pad).cmd = "MLA"
  BY DEF Message, Universal, MLA, MTA, Address, Commands
<1>2. {"UNL", "UNT", "SPE", "SPD", "LLO"} \subseteq Commands
  BY DEF Commands
<1>3. /\ UNL \in Message /\ UNL.cmd = "UNL" /\ UNT \in Message /\ UNT.cmd = "UNT"
      /\ Universal("SPE") \in Message
      /\ Universal("SPD") \in Message /\ Universal("SPD").cmd = "SPD"
      /\ Universal("LLO") \in Message /\ Universal("LLO").cmd = "LLO"
  BY <1>1, <1>2 DEF UNL, UNT
<1>4. ForWrite(pad) \in Seq(Message) /\ ForRead(pad) \in Seq(Message) /\ ForPoll(pad) \in Seq(Message)
  BY <1>1, <1>3 DEF ForWrite, ForRead, ForPoll
<1>5. \A c \in Commands : Addressed(c, pad) \in Seq(Message) /\ <<Universal(c)>> \in Seq(Message)
  BY <1>1, <1>3 DEF Addressed
<1>6. <<UNL, UNT, MLA(pad)>> \in Seq(Message) /\ Plain(<<UNL, UNT, MLA(pad)>>)
  BY <1>1, <1>3 DEF Plain, Targeted
<1>7. Teardown \in Seq(Message) /\ Plain(Teardown) /\ Plain(<<Universal("LLO")>>)
  BY <1>1, <1>3 DEF Teardown, Plain, Targeted
<1> QED BY <1>4, <1>5, <1>6, <1>7 DEF Plain

(* A byte goes through: the rest of the string is as far as it should be.  *)
LEMMA Byte ==
    ASSUME TypeOK, Handshake
    PROVE  /\ UNCHANGED <<table, online, renRequested, sta, cur, renFault>>
           /\ cur # Idle /\ bus' \in Bus /\ todo' \in Seq(Message)
           /\ bus'.ren = bus.ren /\ bus'.latched = bus.latched
           /\ todo' = Tail(todo) /\ todo # <<>> /\ Head(todo) \in Message
           /\ bus' = Effect(bus, Head(todo))
<1>1. todo \in Seq(Message) /\ todo # <<>> /\ todo' = Tail(todo) /\ bus' = Effect(bus, Head(todo))
  BY DEF Handshake, TypeOK, Message
<1>2. Head(todo) \in Message /\ Tail(todo) \in Seq(Message)
  BY <1>1, HeadTailProperties
<1>3. bus' \in Bus /\ bus'.ren = bus.ren /\ bus'.latched = bus.latched
  BY <1>1, <1>2 DEF Effect, Bus, Message, TypeOK
<1> QED BY <1>1, <1>2, <1>3 DEF Handshake, Sending

(* What the bytes do.                                                      *)
LEMMA Effects ==
    ASSUME NEW b \in Bus, NEW pad \in Address
    PROVE  /\ Effect(b, UNL).listen = {} /\ Effect(b, UNL).talk = b.talk
           /\ Effect(b, UNT).listen = b.listen
           /\ Effect(b, MTA(pad)).listen = b.listen /\ Effect(b, MTA(pad)).talk = pad
           /\ Effect(b, MLA(pad)).listen = b.listen \cup {pad} /\ Effect(b, MLA(pad)).talk = b.talk
           /\ Effect(b, Universal("SPE")).listen = b.listen
           /\ Effect(b, Universal("SPE")).talk = b.talk /\ Effect(b, Universal("SPE")).poll
BY DEF Effect, UNL, UNT, MTA, MLA, Universal, Bus

LEMMA Goes ==
    ASSUME TypeOK, Handshake, NEW pad \in Address, NEW c \in Targeted
    PROVE  /\ WriteWay(pad) => WriteWay(pad)'
           /\ ReadWay(pad) => ReadWay(pad)'
           /\ PollWay(pad) => PollWay(pad)'
           /\ OrderWay(c, pad) => OrderWay(c, pad)'
           /\ Plain(todo) => Plain(todo)'
<1>1. /\ todo' = Tail(todo) /\ todo # <<>> /\ bus' = Effect(bus, Head(todo)) /\ bus \in Bus
      /\ todo \in Seq(Message)
  BY Byte DEF TypeOK, Message
<1>2. Self \in Address
  BY DEF Address
<1>3. ASSUME WriteWay(pad)
      PROVE  WriteWay(pad)'
  <2>1. CASE todo = ForWrite(pad)
    BY <1>1, <1>2, <2>1, Effects, ShortTails DEF WriteWay, ForWrite
  <2>2. CASE todo = <<UNT, MTA(Self), MLA(pad)>> /\ bus.listen = {}
    BY <1>1, <1>2, <2>2, Effects, ShortTails DEF WriteWay
  <2>3. CASE todo = <<MTA(Self), MLA(pad)>> /\ bus.listen = {}
    BY <1>1, <1>2, <2>3, Effects, ShortTails DEF WriteWay
  <2>4. CASE todo = <<MLA(pad)>> /\ bus.listen = {} /\ bus.talk = Self
    BY <1>1, <1>2, <2>4, Effects, ShortTails DEF WriteWay
  <2> QED BY <1>1, <1>3, <2>1, <2>2, <2>3, <2>4 DEF WriteWay
<1>4. ASSUME ReadWay(pad)
      PROVE  ReadWay(pad)'
  <2>1. CASE todo = ForRead(pad)
    BY <1>1, <1>2, <2>1, Effects, ShortTails DEF ReadWay, ForRead
  <2>2. CASE todo = <<UNT, MLA(Self), MTA(pad)>> /\ bus.listen = {}
    BY <1>1, <1>2, <2>2, Effects, ShortTails DEF ReadWay
  <2>3. CASE todo = <<MLA(Self), MTA(pad)>> /\ bus.listen = {}
    BY <1>1, <1>2, <2>3, Effects, ShortTails DEF ReadWay
  <2>4. CASE todo = <<MTA(pad)>> /\ bus.listen = {Self}
    BY <1>1, <1>2, <2>4, Effects, ShortTails DEF ReadWay
  <2> QED BY <1>1, <1>4, <2>1, <2>2, <2>3, <2>4 DEF ReadWay
<1>5. ASSUME PollWay(pad)
      PROVE  PollWay(pad)'
  <2>1. CASE todo = ForPoll(pad)
    BY <1>1, <1>2, <2>1, Effects, ShortTails DEF PollWay, ForPoll
  <2>2. CASE todo = <<MTA(pad), MLA(Self), Universal("SPE")>> /\ bus.listen = {}
    BY <1>1, <1>2, <2>2, Effects, ShortTails DEF PollWay
  <2>3. CASE todo = <<MLA(Self), Universal("SPE")>> /\ bus.listen = {} /\ bus.talk = pad
    BY <1>1, <1>2, <2>3, Effects, ShortTails DEF PollWay
  <2>4. CASE todo = <<Universal("SPE")>> /\ bus.listen = {Self} /\ bus.talk = pad
    BY <1>1, <1>2, <2>4, Effects, ShortTails DEF PollWay
  <2> QED BY <1>1, <1>5, <2>1, <2>2, <2>3, <2>4 DEF PollWay
<1>6. ASSUME OrderWay(c, pad)
      PROVE  OrderWay(c, pad)'
  <2>1. CASE todo = Addressed(c, pad)
    BY <1>1, <1>2, <2>1, Effects, ShortTails DEF OrderWay, Addressed
  <2>2. CASE todo = <<MLA(pad), Universal(c)>> /\ bus.listen = {}
    BY <1>1, <1>2, <2>2, Effects, ShortTails DEF OrderWay
  <2>3. CASE todo = <<Universal(c)>> /\ bus.listen = {pad}
    BY <1>1, <1>2, <2>3, ShortTails DEF OrderWay
  <2> QED BY <1>1, <1>6, <2>1, <2>2, <2>3 DEF OrderWay
<1>7. ASSUME Plain(todo)
      PROVE  Plain(todo)'
  <2>1. Len(Tail(todo)) = Len(todo) - 1 /\ Len(todo) \in Nat
        /\ \A i \in 1 .. Len(Tail(todo)) : Tail(todo)[i] = todo[i + 1]
    BY <1>1, HeadTailProperties
  <2> QED BY <1>1, <1>7, <2>1 DEF Plain
<1> QED BY <1>3, <1>4, <1>5, <1>6, <1>7

-----------------------------------------------------------------------------
(* An operation ends with status s, and REN is as it is to be.             *)
LEMMA Ends ==
    ASSUME TypeOK, NEW s \in SUBSET Flags, Finish(s), bus' \in Bus, UNCHANGED table,
           {online', renRequested', renFault'} \subseteq BOOLEAN,
           renFault' \/ (bus'.ren <=> renRequested')
    PROVE  IInv'
<1>1. cur' = Idle /\ todo' = <<>> /\ sta' = s
  BY DEF Finish, Report
<1>2. TypeOK'
  <2>1. <<>> \in Seq(Message)
    OBVIOUS
  <2> QED BY <1>1, <2>1 DEF TypeOK, Message
<1>3. RenHeld' /\ DataFlowsWhereAddressed'
  BY <1>1 DEF RenHeld, DataFlowsWhereAddressed, At
<1> QED BY <1>1, <1>2, <1>3 DEF IInv

(* An operation goes on, to no data phase.                                 *)
LEMMA GoesOn ==
    ASSUME TypeOK, cur' \in Operation, todo' \in Seq(Message), bus' \in Bus,
           UNCHANGED <<table, online, renRequested, sta>>, renFault' \in BOOLEAN,
           Placed(cur)', AfterReset(cur)', Way(cur)', cur'.phase \notin {"out", "in", "stb"},
           RenHeld'
    PROVE  IInv'
<1>1. TypeOK'
  BY DEF TypeOK, Message
<1>2. DataFlowsWhereAddressed'
  BY DEF DataFlowsWhereAddressed, At
<1> QED BY <1>1, <1>2 DEF IInv

(* What holds of an operation in progress.                                 *)
LEMMA InProgress ==
    ASSUME IInv, cur # Idle
    PROVE  /\ cur \in Operation /\ cur.pad \in Address
           /\ Placed(cur) /\ AfterReset(cur) /\ Way(cur)
           /\ bus \in Bus /\ todo \in Seq(Message)
BY DEF IInv, TypeOK, Placed, Message

(* The calls that leave the bus alone.                                     *)
LEMMA IdleKeeps ==
    ASSUME IInv, cur = Idle, table' \in [Slots -> Descriptor \cup {Free}], sta' \subseteq Flags,
           UNCHANGED <<online, renRequested, cur, todo, bus, renFault>>
    PROVE  IInv'
BY DEF IInv, TypeOK, RenHeld, DataFlowsWhereAddressed, At

LEMMA CallsKeep ==
    ASSUME IInv,
           \/ \E a \in Address : Open(a)
           \/ \E h \in Slots : \/ Close(h)
                               \/ Ask(h)
                               \/ \E a \in Address : Configure(h, a)
           \/ \E op \in AllOps, h \in Slots \cup {0} : Refuse(op, h)
    PROVE  IInv'
<1>1. table \in [Slots -> Descriptor \cup {Free}] /\ {"CMPL"} \subseteq Flags /\ {"ERR"} \subseteq Flags /\ sta \subseteq Flags
  BY DEF IInv, TypeOK, Flags
<1>2. ASSUME NEW a \in Address, Open(a)
      PROVE  IInv'
  <2>1. table' \in [Slots -> Descriptor \cup {Free}]
    BY <1>1, <1>2 DEF Open, Descriptor
  <2> QED BY <1>1, <1>2, <2>1, IdleKeeps DEF Open
<1>3. ASSUME NEW h \in Slots, Close(h)
      PROVE  IInv'
  <2>1. table' \in [Slots -> Descriptor \cup {Free}] /\ sta' \subseteq Flags
    BY <1>1, <1>3 DEF Close, Release, Report
  <2> QED BY <1>3, <2>1, IdleKeeps DEF Close
<1>4. ASSUME NEW h \in Slots, Ask(h)
      PROVE  IInv'
  <2>1. sta' \subseteq Flags
    BY <1>1, <1>4 DEF Ask, Report
  <2> QED BY <1>1, <1>4, <2>1, IdleKeeps DEF Ask
<1>5. ASSUME NEW h \in Slots, NEW a \in Address, Configure(h, a)
      PROVE  IInv'
  <2>1. table' \in [Slots -> Descriptor \cup {Free}]
    <3>1. CASE table' = table
      BY <1>1, <3>1
    <3>2. CASE table' = [table EXCEPT ![h].pad = a] /\ IsOpen(table, h)
      <4>1. table[h] \in Descriptor
        BY <1>1, <3>2 DEF IsOpen
      <4>2. [table[h] EXCEPT !.pad = a] \in Descriptor
        BY <4>1 DEF Descriptor
      <4> QED BY <1>1, <3>2, <4>2
    <3> QED BY <1>5, <3>1, <3>2 DEF Configure
  <2>2. sta' \subseteq Flags
    BY <1>1, <1>5 DEF Configure, Report
  <2> QED BY <1>5, <2>1, <2>2, IdleKeeps DEF Configure
<1>6. ASSUME NEW op \in AllOps, NEW h \in Slots \cup {0}, Refuse(op, h)
      PROVE  IInv'
  BY <1>1, <1>6, IdleKeeps DEF Refuse, Report
<1> QED BY <1>2, <1>3, <1>4, <1>5, <1>6

(* An operation starts with its command string, or with another call.      *)
LEMMA StartKeeps ==
    ASSUME IInv, NEW op \in AllOps, NEW h \in Slots \cup {0}, NEW a \in Address, Start(op, h, a)
    PROVE  IInv'
<1> DEFINE pad == IF op \in DeviceOps THEN table[h].pad
                  ELSE IF op = "find" THEN a ELSE Self
           d(patient) == [op |-> op, h |-> h, pad |-> pad, phase |-> FirstPhase(op),
                          retried |-> FALSE, missed |-> FALSE, patient |-> patient,
                          cut |-> FALSE]
<1>1. PICK patient \in BOOLEAN :
      /\ cur = Idle /\ ~Refused(op, h) /\ todo' \in Opening(op, pad) /\ cur' = d(patient)
      /\ UNCHANGED <<table, online, renRequested, sta, bus, renFault>>
  BY DEF Start
<1>2. pad \in Address
  <2>1. CASE op \in DeviceOps
    <3>1. h \in Slots /\ table[h] # Free
      BY <1>1, <2>1 DEF Refused, IsOpen
    <3>2. table[h] \in Descriptor
      BY <3>1 DEF IInv, TypeOK
    <3> QED BY <2>1, <3>2 DEF Descriptor
  <2>2. CASE op \notin DeviceOps
    BY <2>2 DEF Address
  <2> QED BY <2>1, <2>2
<1>3. /\ FirstPhase(op) \in Phases
      /\ op \in {"write", "read"} <=> FirstPhase(op) = "address"
      /\ op = "poll" <=> FirstPhase(op) = "spe"
      /\ op = "find" <=> FirstPhase(op) = "find"
      /\ op = "wait" <=> FirstPhase(op) = "srq"
      /\ op = "lines" <=> FirstPhase(op) = "lines"
      /\ op = "reinit" <=> FirstPhase(op) = "reset"
      /\ op \in {"ifc", "online"} <=> FirstPhase(op) = "ifc"
      /\ op \in {"ren", "unren", "offline"} <=> FirstPhase(op) = "ren"
      /\ op \in OneShot <=> FirstPhase(op) = "command"
  BY DEF FirstPhase, AllOps, DeviceOps, OneShot, Phases, CommandPhases
<1>4. /\ FirstPhase(op) \notin {"out", "in", "stb", "control", "sdc", "teardown", "release"}
  BY DEF FirstPhase
<1>5. d(patient) \in Operation
  BY <1>2, <1>3 DEF Operation
<1>6. Opening(op, pad) \subseteq Seq(Message)
  BY <1>2, Strings, BoardAssumption DEF Opening, Addressing, Commands, Message
<1>7. todo' \in Seq(Message)
  BY <1>1, <1>6
<1>8. Placed(cur)' /\ AfterReset(cur)'
  BY <1>1, <1>2, <1>3, <1>4 DEF Placed, AfterReset, Recovering, Recovers, SetsRen
<1>9. Way(cur)'
  <2>1. CASE op = "write"
    BY <1>1, <1>3, <2>1 DEF Way, Opening, Addressing, WriteWay
  <2>2. CASE op = "read"
    BY <1>1, <1>3, <2>2 DEF Way, Opening, Addressing, ReadWay
  <2>3. CASE op = "poll"
    BY <1>1, <1>3, <2>3 DEF Way, Opening, PollWay, OneShot
  <2>4. CASE op \in {"clear", "trigger", "local"}
    BY <1>1, <1>3, <2>4 DEF Way, Opening, Order, OrderWay, OneShot
  <2>5. CASE op = "lockout"
    BY <1>1, <1>3, <2>5, Strings DEF Way, Opening, OneShot, Plain, Address
  <2>6. CASE op = "find"
    BY <1>1, <1>2, <1>3, <2>6, Strings DEF Way, Opening, Plain
  <2>7. CASE op \notin {"write", "read", "poll", "clear", "trigger", "local", "lockout", "find"}
    BY <1>1, <1>3, <1>4, <2>7 DEF Way
  <2> QED BY <2>1, <2>2, <2>3, <2>4, <2>5, <2>6, <2>7
<1>10. RenHeld'
  BY <1>1 DEF IInv, RenHeld
<1>11. TypeOK /\ bus' \in Bus /\ renFault' \in BOOLEAN
  BY <1>1 DEF IInv, TypeOK
<1> QED BY <1>1, <1>4, <1>5, <1>7, <1>8, <1>9, <1>10, <1>11, GoesOn

(* A byte of a command string goes through.                                *)
LEMMA HandshakeKeeps ==
    ASSUME IInv, Handshake
    PROVE  IInv'
<1>1. /\ UNCHANGED <<table, online, renRequested, sta, cur, renFault>>
      /\ cur # Idle /\ bus' \in Bus /\ todo' \in Seq(Message)
      /\ bus'.ren = bus.ren /\ bus'.latched = bus.latched /\ cur.phase \in CommandPhases
  BY Byte DEF IInv, Handshake, Sending
<1>2. cur \in Operation /\ cur.pad \in Address /\ Placed(cur) /\ AfterReset(cur) /\ Way(cur)
  BY <1>1, InProgress
<1>3. Way(cur)'
  <2>1. /\ WriteWay(cur.pad) => WriteWay(cur.pad)'
        /\ ReadWay(cur.pad) => ReadWay(cur.pad)'
        /\ PollWay(cur.pad) => PollWay(cur.pad)'
        /\ \A c \in Targeted : OrderWay(c, cur.pad) => OrderWay(c, cur.pad)'
        /\ Plain(todo) => Plain(todo)'
    BY <1>1, <1>2, Goes DEF IInv, Targeted
  <2>2. Order(cur.op) \in Targeted /\ "SDC" \in Targeted
    BY DEF Order, Targeted
  <2> QED BY <1>1, <1>2, <2>1, <2>2 DEF Way
<1>4. Placed(cur)' /\ AfterReset(cur)' /\ RenHeld'
  BY <1>1, <1>2 DEF IInv, Placed, AfterReset, RenHeld
<1>5. cur'.phase \notin {"out", "in", "stb"}
  BY <1>1 DEF CommandPhases
<1> QED BY <1>1, <1>2, <1>3, <1>4, <1>5, GoesOn DEF IInv, TypeOK

(* After the SDC of a recovery the instrument is addressed again.          *)
LEMMA Readdressed ==
    ASSUME IInv, cur # Idle, cur.phase = "sdc", Goto("address", Addressing(cur.op, cur.pad)),
           UNCHANGED <<table, online, renRequested, sta, bus, renFault>>
    PROVE  IInv'
<1>1. /\ cur \in Operation /\ cur.pad \in Address /\ Placed(cur) /\ AfterReset(cur)
      /\ TypeOK /\ bus' \in Bus /\ renFault' \in BOOLEAN
  BY InProgress DEF IInv, TypeOK
<1>2. cur' = [cur EXCEPT !.phase = "address"] /\ todo' = Addressing(cur.op, cur.pad)
  BY DEF Goto
<1>3. cur' \in Operation /\ cur'.phase = "address" /\ cur'.op = cur.op /\ cur'.pad = cur.pad
  BY <1>1, <1>2 DEF Operation, Phases, CommandPhases
<1>4. todo' \in Seq(Message)
  BY <1>1, <1>2, Strings DEF Addressing
<1>5. cur.op \in {"write", "read"}
  BY <1>1 DEF Placed
<1>6. Placed(cur)' /\ AfterReset(cur)'
  BY <1>1, <1>2, <1>3, <1>5 DEF Placed, AfterReset, Recovering
<1>7. Way(cur)'
  BY <1>2, <1>3, <1>5 DEF Way, Addressing, WriteWay, ReadWay
<1>8. RenHeld'
  BY DEF IInv, RenHeld, Recovering
<1> QED BY <1>1, <1>3, <1>4, <1>6, <1>7, <1>8, GoesOn

(* A command string is reported as sent.  At the data phases the bus is as *)
(* the string was to leave it, unless the string was cut short.            *)
LEMMA CommandsDoneKeeps ==
    ASSUME IInv, CommandsDone
    PROVE  IInv'
<1>1. /\ cur # Idle /\ cur.phase \in CommandPhases
      /\ UNCHANGED <<table, online, renRequested, bus, renFault>>
  BY DEF CommandsDone, Sending
<1>2. /\ cur \in Operation /\ cur.pad \in Address /\ Placed(cur) /\ AfterReset(cur) /\ Way(cur)
      /\ TypeOK /\ bus' \in Bus /\ bus \in Bus
  BY <1>1, InProgress DEF IInv
<1>3. /\ ForWrite(cur.pad) # <<>> /\ ForRead(cur.pad) # <<>> /\ ForPoll(cur.pad) # <<>>
  BY DEF ForWrite, ForRead, ForPoll
<1>4. ASSUME NEW p \in {"out", "in", "stb"}, MoveData(p), UNCHANGED sta,
             Placed([cur EXCEPT !.phase = p]),
             todo = <<>> /\ p = "out" => bus.talk = Self /\ bus.listen = {cur.pad},
             todo = <<>> /\ p = "in" => bus.talk = cur.pad /\ bus.listen = {Self},
             todo = <<>> /\ p = "stb" => bus.talk = cur.pad /\ bus.listen = {Self} /\ bus.poll
      PROVE  IInv'
  <2>1. /\ cur' = [cur EXCEPT !.phase = p, !.cut = todo # <<>>] /\ todo' = <<>>
        /\ <<>> \in Seq(Message)
    BY <1>4 DEF MoveData
  <2>2. /\ cur' \in Operation /\ cur'.phase = p /\ cur'.op = cur.op /\ cur'.pad = cur.pad
        /\ cur'.retried = cur.retried /\ (cur'.cut <=> todo # <<>>)
    BY <1>2, <1>4, <2>1 DEF Operation, Phases
  <2>3. TypeOK'
    BY <1>1, <1>2, <1>4, <2>1, <2>2 DEF TypeOK, Message
  <2>4. Placed(cur)'
    <3>1. [cur EXCEPT !.phase = p].op = cur.op /\ [cur EXCEPT !.phase = p].pad = cur.pad
          /\ [cur EXCEPT !.phase = p].phase = p
      BY <1>2 DEF Operation
    <3> QED BY <1>1, <1>2, <1>4, <2>2, <3>1 DEF Placed
  <2>5. AfterReset(cur)' /\ Way(cur)'
    BY <1>1, <1>4, <2>1, <2>2 DEF AfterReset, Way, Recovering
  <2>6. RenHeld'
    BY <1>1, <1>4 DEF IInv, RenHeld, Recovering, CommandPhases
  <2>7. DataFlowsWhereAddressed'
    BY <1>1, <1>4, <2>1, <2>2 DEF DataFlowsWhereAddressed, At
  <2> QED BY <2>3, <2>4, <2>5, <2>6, <2>7 DEF IInv
<1>5. CASE cur.phase = "address"
  <2>1. MoveData(IF cur.op = "write" THEN "out" ELSE "in") /\ UNCHANGED sta
    BY <1>5 DEF CommandsDone
  <2>2. CASE cur.op = "write"
    <3>1. todo = <<>> => bus.talk = Self /\ bus.listen = {cur.pad}
      BY <1>1, <1>2, <1>3, <1>5, <2>2 DEF Way, WriteWay
    <3>2. Placed([cur EXCEPT !.phase = "out"])
      BY <1>2, <2>2 DEF Placed, Operation
    <3> QED BY <1>4, <2>1, <2>2, <3>1, <3>2
  <2>3. CASE cur.op = "read"
    <3>1. todo = <<>> => bus.talk = cur.pad /\ bus.listen = {Self}
      BY <1>1, <1>2, <1>3, <1>5, <2>3 DEF Way, ReadWay
    <3>2. Placed([cur EXCEPT !.phase = "in"])
      BY <1>2, <2>3 DEF Placed, Operation
    <3> QED BY <1>4, <2>1, <2>3, <3>1, <3>2
  <2> QED BY <1>2, <1>5, <2>2, <2>3 DEF Placed
<1>6. CASE cur.phase = "spe"
  <2>1. MoveData("stb") /\ UNCHANGED sta
    BY <1>6 DEF CommandsDone
  <2>2. todo = <<>> => bus.talk = cur.pad /\ bus.listen = {Self} /\ bus.poll
    BY <1>1, <1>2, <1>3, <1>6 DEF Way, PollWay
  <2>3. Placed([cur EXCEPT !.phase = "stb"])
    BY <1>2, <1>6 DEF Placed, Operation
  <2> QED BY <1>4, <2>1, <2>2, <2>3
<1>7. CASE cur.phase = "find"
  <2>1. cur' = [cur EXCEPT !.phase = "release"] /\ todo' = <<>> /\ UNCHANGED sta
    BY <1>7 DEF CommandsDone, Goto
  <2>2. /\ cur' \in Operation /\ cur'.phase = "release" /\ cur'.op = cur.op /\ cur'.pad = cur.pad
        /\ <<>> \in Seq(Message)
    BY <1>2, <2>1 DEF Operation, Phases
  <2>3. Placed(cur)' /\ AfterReset(cur)' /\ Way(cur)'
    BY <1>2, <1>7, <2>1, <2>2 DEF Placed, AfterReset, Way, Recovering
  <2>4. RenHeld' /\ renFault' \in BOOLEAN
    BY <1>1, <1>2, <1>7 DEF IInv, RenHeld, Recovering, TypeOK
  <2> QED BY <1>1, <1>2, <2>1, <2>2, <2>3, <2>4, GoesOn
<1>8. CASE cur.phase = "sdc"
  BY <1>1, <1>2, <1>8, Readdressed DEF CommandsDone
<1>9. CASE cur.phase \in {"teardown", "command"}
  <2>1. PICK s \in SUBSET Flags : Finish(s)
    BY <1>1, <1>9 DEF CommandsDone, PollResult, Flags
  <2>2. renFault' \/ (bus'.ren <=> renRequested')
    BY <1>1, <1>9 DEF IInv, RenHeld, Recovering
  <2>3. {online', renRequested', renFault'} \subseteq BOOLEAN
    BY <1>1, <1>2 DEF TypeOK
  <2> QED BY <1>1, <1>2, <2>1, <2>2, <2>3, Ends
<1> QED BY <1>1, <1>5, <1>6, <1>7, <1>8, <1>9 DEF CommandPhases

(* It failed.                                                              *)
LEMMA CommandsFailKeeps ==
    ASSUME IInv, CommandsFail
    PROVE  IInv'
<1>1. /\ cur # Idle /\ cur.phase \in CommandPhases
      /\ UNCHANGED <<table, online, renRequested, bus, renFault>>
  BY DEF CommandsFail, Sending
<1>2. /\ cur \in Operation /\ cur.pad \in Address /\ Placed(cur) /\ AfterReset(cur) /\ Way(cur)
      /\ TypeOK /\ bus' \in Bus /\ bus \in Bus /\ renFault' \in BOOLEAN
      /\ {online', renRequested', renFault'} \subseteq BOOLEAN
  BY <1>1, InProgress DEF IInv, TypeOK
<1>3. renFault \/ (bus.ren <=> renRequested)
  BY <1>1 DEF IInv, RenHeld, Recovering, CommandPhases
<1>4. CASE cur.phase = "address" /\ ~cur.retried
  <2>1. cur' = [cur EXCEPT !.phase = "reset"] /\ todo' = <<>> /\ UNCHANGED sta
    BY <1>4 DEF CommandsFail, Goto
  <2>2. cur' \in Operation /\ cur'.phase = "reset" /\ <<>> \in Seq(Message)
    BY <1>2, <2>1 DEF Operation, Phases
  <2>3. Placed(cur)' /\ AfterReset(cur)' /\ Way(cur)'
    BY <1>2, <1>4, <2>1, <2>2 DEF Placed, AfterReset, Way, Recovering, Operation, Recovers
  <2>4. RenHeld'
    BY <1>1, <1>3 DEF RenHeld
  <2> QED BY <1>1, <1>2, <2>1, <2>2, <2>3, <2>4, GoesOn
<1>5. CASE cur.phase = "spe" /\ cur.op = "find"
  <2>1. cur' = [cur EXCEPT !.phase = "teardown"] /\ todo' = Teardown /\ UNCHANGED sta
    BY <1>5 DEF CommandsFail, Goto
  <2>2. cur' \in Operation /\ cur'.phase = "teardown"
    BY <1>2, <2>1 DEF Operation, Phases, CommandPhases
  <2>3. Teardown \in Seq(Message) /\ Plain(Teardown)
    BY <1>2, Strings
  <2>4. Placed(cur)' /\ AfterReset(cur)' /\ Way(cur)'
    BY <1>2, <1>5, <2>1, <2>2, <2>3 DEF Placed, AfterReset, Way, Recovering, Operation, Plain
  <2>5. RenHeld'
    BY <1>1, <1>3 DEF RenHeld
  <2> QED BY <1>1, <1>2, <2>1, <2>2, <2>3, <2>4, <2>5, GoesOn
<1>6. CASE cur.phase = "sdc"
  BY <1>1, <1>2, <1>6, Readdressed DEF CommandsFail
<1>7. CASE \E s \in SUBSET Flags : Finish(s)
  BY <1>1, <1>2, <1>3, <1>7, Ends
<1>8. \/ cur.phase = "address" /\ ~cur.retried
      \/ cur.phase = "sdc"
      \/ cur.phase = "spe" /\ cur.op = "find"
      \/ \E s \in SUBSET Flags : Finish(s)
  BY <1>1 DEF CommandsFail, PollResult, Flags
<1> QED BY <1>4, <1>5, <1>6, <1>7, <1>8

(* The data phases, and the status byte, after which the poll is torn down.*)
LEMMA DataKeeps ==
    ASSUME IInv, Transfer \/ StatusByte
    PROVE  IInv'
<1>1. cur # Idle /\ cur.phase \in {"out", "in", "stb"}
      /\ UNCHANGED <<table, online, renRequested, renFault>>
  BY DEF Transfer, StatusByte, At
<1>2. /\ cur \in Operation /\ cur.pad \in Address /\ Placed(cur) /\ TypeOK
      /\ {online', renRequested', renFault'} \subseteq BOOLEAN /\ renFault' \in BOOLEAN
  BY <1>1, InProgress DEF IInv, TypeOK
<1>3. bus' \in Bus /\ bus'.ren = bus.ren
  BY <1>2 DEF Transfer, StatusByte, Bus, TypeOK
<1>4. renFault' \/ (bus'.ren <=> renRequested')
  BY <1>1, <1>3 DEF IInv, RenHeld, Recovering
<1>5. CASE Transfer
  <2>1. PICK s \in SUBSET Flags : Finish(s)
    BY <1>5 DEF Transfer, Flags
  <2> QED BY <1>1, <1>2, <1>3, <1>4, <2>1, Ends
<1>6. CASE StatusByte
  <2>1. cur.phase = "stb" /\ todo' = Teardown /\ UNCHANGED sta
        /\ \E m \in BOOLEAN : cur' = [cur EXCEPT !.phase = "teardown", !.missed = m, !.cut = FALSE]
    BY <1>6 DEF StatusByte, At
  <2>2. cur' \in Operation /\ cur'.phase = "teardown" /\ cur'.op = cur.op /\ cur'.pad = cur.pad
    BY <1>2, <2>1 DEF Operation, Phases, CommandPhases
  <2>3. Teardown \in Seq(Message) /\ Plain(Teardown)
    BY <1>2, Strings
  <2>4. Placed(cur)' /\ AfterReset(cur)' /\ Way(cur)'
    BY <1>2, <2>1, <2>2, <2>3 DEF Placed, AfterReset, Way, Recovering, Plain
  <2>5. RenHeld'
    BY <1>1, <1>4 DEF RenHeld
  <2> QED BY <1>1, <1>2, <1>3, <2>1, <2>2, <2>3, <2>4, <2>5, GoesOn
<1> QED BY <1>5, <1>6

-----------------------------------------------------------------------------
(* The recovery of the bus.                                                *)

(* It goes on to phase p, the core being reset and REN as the reset left   *)
(* it; or setOnline does, REN being as it was.                             *)
LEMMA RecoveryGoesOn ==
    ASSUME IInv, cur # Idle, NEW p \in {"ifc", "control", "ren"}, Goto(p, <<>>),
           UNCHANGED <<table, online, renRequested, sta, renFault>>, bus' \in Bus,
           cur.op \in Recovers \cup {"online"},
           p = "ren" => cur.op = "online" \/ renRequested,
           cur.op \in Recovers => ~bus'.latched /\ ~bus'.ren,
           cur.op = "online" => renFault \/ (bus'.ren <=> renRequested)
    PROVE  IInv'
<1>1. cur \in Operation /\ Placed(cur) /\ TypeOK /\ renFault' \in BOOLEAN
  BY InProgress DEF IInv, TypeOK
<1>2. cur' = [cur EXCEPT !.phase = p] /\ todo' = <<>>
  BY DEF Goto
<1>3. /\ cur' \in Operation /\ cur'.phase = p /\ cur'.op = cur.op /\ cur'.pad = cur.pad
      /\ <<>> \in Seq(Message)
  BY <1>1, <1>2 DEF Operation, Phases
<1>4. Placed(cur)'
  BY <1>1, <1>3 DEF Placed, Recovers, SetsRen
<1>5. AfterReset(cur)' /\ Way(cur)'
  BY <1>1, <1>3 DEF AfterReset, Way, Recovering, Recovers
<1>6. cur' # Idle
  BY <1>3, IdleAssumption
<1>7. RenHeld'
  BY <1>3, <1>6 DEF RenHeld, Recovering
<1> QED BY <1>1, <1>2, <1>3, <1>4, <1>5, <1>7, GoesOn

(* It is over: REN is as it was asked for.                                 *)
LEMMA RecoveryEnds ==
    ASSUME IInv, cur # Idle, cur.phase \in {"control", "ren"}, cur.op \in Recovers, AfterRecovery,
           UNCHANGED <<table, online, renRequested>>, bus' \in Bus, bus'.latched = bus.latched,
           renFault' \in BOOLEAN, renFault' \/ (bus'.ren <=> renRequested)
    PROVE  IInv'
<1>1. /\ cur \in Operation /\ cur.pad \in Address /\ Placed(cur) /\ TypeOK /\ ~bus'.latched
      /\ {online', renRequested', renFault'} \subseteq BOOLEAN /\ sta \in SUBSET Flags
  BY InProgress DEF IInv, TypeOK, AfterReset, Recovering
<1>2. CASE cur.op = "reinit"
  <2>1. Finish(sta)
    BY <1>2 DEF AfterRecovery
  <2> QED BY <1>1, <2>1, Ends
<1>3. CASE cur.op \in {"write", "read"}
  <2>1. /\ cur' = [cur EXCEPT !.phase = "sdc", !.retried = TRUE] /\ todo' = Addressed("SDC", cur.pad)
        /\ UNCHANGED sta
    BY <1>3 DEF AfterRecovery
  <2>2. cur' \in Operation /\ cur'.phase = "sdc" /\ cur'.op = cur.op /\ cur'.pad = cur.pad
    BY <1>1, <2>1 DEF Operation, Phases, CommandPhases
  <2>3. todo' \in Seq(Message)
    BY <1>1, <2>1, Strings DEF Commands
  <2>4. Placed(cur)' /\ AfterReset(cur)' /\ Way(cur)'
    BY <1>1, <1>3, <2>1, <2>2 DEF Placed, AfterReset, Way, Recovering, OrderWay
  <2>5. RenHeld'
    BY DEF RenHeld
  <2> QED BY <1>1, <2>1, <2>2, <2>3, <2>4, <2>5, GoesOn
<1> QED BY <1>2, <1>3 DEF Recovers

LEMMA RecoveryKeeps ==
    ASSUME IInv, SoftReset \/ PulseIfc \/ TakeControl \/ SetRen
    PROVE  IInv'
<1>1. cur # Idle /\ cur.phase \in {"reset", "ifc", "control", "ren"} /\ UNCHANGED table
  BY DEF SoftReset, PulseIfc, TakeControl, SetRen, At
<1>2. /\ cur \in Operation /\ cur.pad \in Address /\ Placed(cur) /\ AfterReset(cur)
      /\ bus \in Bus /\ TypeOK /\ sta \in SUBSET Flags /\ {"ERR"} \subseteq Flags /\ {"CMPL"} \subseteq Flags
      /\ online \in BOOLEAN /\ renRequested \in BOOLEAN /\ renFault \in BOOLEAN
  BY <1>1, InProgress DEF IInv, TypeOK, Flags
<1>3. CASE SoftReset
  <2>1. /\ cur.phase = "reset" /\ UNCHANGED <<table, online, renRequested>>
        /\ \/ bus' = ResetCore(bus) /\ Goto("ifc", <<>>) /\ UNCHANGED <<sta, renFault>>
           \/ /\ bus' \in {bus, ResetCore(bus)} /\ renFault' = TRUE
              /\ Finish(IF cur.op = "reinit" THEN sta ELSE {"ERR"})
    BY <1>3 DEF SoftReset, At
  <2>2. ResetCore(bus) \in Bus /\ ~ResetCore(bus).latched /\ ~ResetCore(bus).ren
    BY <1>2 DEF ResetCore, Bus
  <2>3. cur.op \in Recovers
    BY <1>2, <2>1 DEF Placed
  <2>4. CASE bus' = ResetCore(bus) /\ Goto("ifc", <<>>) /\ UNCHANGED <<sta, renFault>>
    <3>1. cur.op # "online"
      BY <2>3 DEF Recovers
    <3> QED BY <1>1, <1>2, <2>1, <2>2, <2>3, <2>4, <3>1, RecoveryGoesOn
  <2>5. CASE /\ bus' \in {bus, ResetCore(bus)} /\ renFault' = TRUE
             /\ Finish(IF cur.op = "reinit" THEN sta ELSE {"ERR"})
    BY <1>2, <2>1, <2>2, <2>5, Ends
  <2> QED BY <2>1, <2>4, <2>5
<1>4. CASE PulseIfc
  <2>1. /\ cur.phase = "ifc" /\ UNCHANGED <<table, online, renRequested, renFault>>
        /\ bus' \in Bus /\ bus'.ren = bus.ren /\ bus'.latched = bus.latched
    BY <1>2, <1>4 DEF PulseIfc, At, Bus
  <2>2. CASE cur.op = "ifc"
    <3>1. Finish({"CMPL"})
      BY <1>4, <2>2 DEF PulseIfc
    <3>2. renFault' \/ (bus'.ren <=> renRequested')
      BY <2>1, <2>2 DEF IInv, RenHeld, Recovering, Recovers
    <3> QED BY <1>2, <2>1, <3>1, <3>2, Ends
  <2>3. CASE cur.op # "ifc"
    <3>1. Goto("control", <<>>) /\ UNCHANGED sta /\ cur.op \in Recovers \cup {"online"}
      BY <1>2, <1>4, <2>1, <2>3 DEF PulseIfc, Placed
    <3>2. cur.op \in Recovers => ~bus'.latched /\ ~bus'.ren
      BY <1>2, <2>1 DEF AfterReset, Recovering
    <3>3. cur.op = "online" => renFault \/ (bus'.ren <=> renRequested)
      BY <2>1 DEF IInv, RenHeld, Recovering, Recovers
    <3> QED BY <1>1, <2>1, <3>1, <3>2, <3>3, RecoveryGoesOn
  <2> QED BY <2>2, <2>3
<1>5. CASE TakeControl
  <2>1. /\ cur.phase = "control" /\ UNCHANGED <<table, online, renRequested, renFault>>
        /\ bus' \in Bus /\ bus'.ren = bus.ren /\ bus'.latched = bus.latched
        /\ cur.op \in Recovers \cup {"online"}
    BY <1>2, <1>5 DEF TakeControl, At, Bus, Placed
  <2>2. cur.op \in Recovers => ~bus'.latched /\ ~bus'.ren
    BY <1>2, <2>1 DEF AfterReset, Recovering
  <2>3. CASE cur.op = "online" \/ renRequested
    <3>1. Goto("ren", <<>>) /\ UNCHANGED sta
      BY <1>5, <2>3 DEF TakeControl
    <3>2. cur.op = "online" => renFault \/ (bus'.ren <=> renRequested)
      BY <2>1 DEF IInv, RenHeld, Recovering, Recovers
    <3> QED BY <1>1, <2>1, <2>2, <2>3, <3>1, <3>2, RecoveryGoesOn
  <2>4. CASE ~(cur.op = "online" \/ renRequested)
    <3>1. AfterRecovery /\ cur.op \in Recovers
      BY <1>5, <2>1, <2>4 DEF TakeControl
    <3>2. renFault' \in BOOLEAN /\ (bus'.ren <=> renRequested)
      BY <1>2, <2>1, <2>2, <2>4, <3>1
    <3> QED BY <1>1, <2>1, <3>1, <3>2, RecoveryEnds
  <2> QED BY <2>3, <2>4
<1>6. CASE SetRen
  <2> DEFINE want == cur.op \notin {"unren", "offline"}
             mine == cur.op \in {"ren", "unren", "online", "offline"}
  <2>1. /\ cur.phase = "ren" /\ UNCHANGED table
        /\ bus' \in {bus, [bus EXCEPT !.ren = want]} /\ (~renFault' => bus' = [bus EXCEPT !.ren = want])
        /\ renFault' \in BOOLEAN
        /\ renRequested' = (IF mine THEN want ELSE renRequested)
        /\ online' = (IF cur.op \in {"online", "offline"} THEN want ELSE online)
        /\ IF mine THEN Finish({"CMPL"}) ELSE AfterRecovery
    BY <1>6 DEF SetRen, At
  <2>2. bus' \in Bus /\ bus'.latched = bus.latched /\ (~renFault' => bus'.ren = want)
    BY <1>2, <2>1 DEF Bus
  <2>3. {online', renRequested', renFault'} \subseteq BOOLEAN
    BY <1>2, <2>1
  <2>4. CASE mine
    <3>1. renFault' \/ (bus'.ren <=> renRequested')
      BY <2>1, <2>2, <2>4
    <3> QED BY <1>2, <2>1, <2>2, <2>3, <2>4, <3>1, Ends
  <2>5. CASE ~mine
    <3>1. cur.op \in Recovers /\ renRequested
      BY <1>2, <2>1, <2>5 DEF Placed, SetsRen
    <3>2. want /\ UNCHANGED <<online, renRequested>> /\ AfterRecovery
      BY <2>1, <2>5, <3>1 DEF Recovers
    <3> QED BY <1>1, <2>1, <2>2, <3>1, <3>2, RecoveryEnds
  <2> QED BY <2>4, <2>5
<1> QED BY <1>3, <1>4, <1>5, <1>6

-----------------------------------------------------------------------------
(* The calls of a probe, of iblines and of ibwait.                         *)
LEMMA LookKeeps ==
    ASSUME IInv, ReleaseAtn \/ ReadLines \/ Wait
    PROVE  IInv'
<1>1. /\ cur # Idle /\ cur.phase \in {"release", "lines", "srq"}
      /\ UNCHANGED <<table, online, renRequested, bus, renFault>>
  BY DEF ReleaseAtn, ReadLines, Wait, At
<1>2. /\ cur \in Operation /\ cur.pad \in Address /\ Placed(cur) /\ TypeOK
      /\ bus' \in Bus /\ sta \in SUBSET Flags
      /\ {online', renRequested', renFault'} \subseteq BOOLEAN /\ renFault' \in BOOLEAN
  BY <1>1, InProgress DEF IInv, TypeOK
<1>3. renFault' \/ (bus'.ren <=> renRequested')
  BY <1>1 DEF IInv, RenHeld, Recovering
<1>4. CASE \E s \in SUBSET Flags : Finish(s)
  BY <1>1, <1>2, <1>3, <1>4, Ends
<1>5. CASE /\ cur.op = "find" /\ UNCHANGED sta
           /\ \/ Goto("lines", <<>>)
              \/ Goto("spe", ForPoll(cur.pad))
  <2>1. /\ cur' \in Operation /\ cur'.phase \in {"lines", "spe"} /\ cur'.op = "find"
        /\ cur'.pad = cur.pad /\ todo' \in Seq(Message)
        /\ cur'.phase = "spe" => todo' = ForPoll(cur.pad)
    BY <1>2, <1>5, Strings DEF Goto, Operation, Phases, CommandPhases
  <2>2. Placed(cur)' /\ AfterReset(cur)' /\ Way(cur)'
    BY <1>2, <2>1 DEF Placed, AfterReset, Way, Recovering, PollWay
  <2>3. RenHeld'
    BY <1>1, <1>3 DEF RenHeld
  <2> QED BY <1>1, <1>2, <1>5, <2>1, <2>2, <2>3, GoesOn
<1>6. cur.phase = "release" => cur.op = "find"
  BY <1>2 DEF Placed
<1> QED BY <1>2, <1>4, <1>5, <1>6 DEF ReleaseAtn, ReadLines, Wait, At, Flags

-----------------------------------------------------------------------------
(* Every step keeps the invariant.                                         *)
LEMMA StepKeeps ==
    ASSUME IInv, [Next]_vars
    PROVE  IInv'
<1>1. CASE UNCHANGED vars
  <2>1. UNCHANGED <<table, online, renRequested, sta, cur, todo, bus, renFault>>
    BY <1>1 DEF vars
  <2>2. TypeOK' /\ RenHeld' /\ DataFlowsWhereAddressed'
    BY <2>1 DEF IInv, TypeOK, RenHeld, DataFlowsWhereAddressed, At
  <2>3. cur # Idle => Placed(cur)' /\ AfterReset(cur)' /\ Way(cur)'
    BY <2>1 DEF IInv, Placed, AfterReset, Way, WriteWay, ReadWay, PollWay, OrderWay
  <2> QED BY <2>1, <2>2, <2>3 DEF IInv
<1>2. ASSUME NEW op \in AllOps, NEW h \in Slots \cup {0}, NEW a \in Address, Start(op, h, a)
      PROVE  IInv'
  BY <1>2, StartKeeps
<1>3. CASE Step
  BY <1>3, HandshakeKeeps, CommandsDoneKeeps, CommandsFailKeeps, DataKeeps, RecoveryKeeps, LookKeeps DEF Step
<1> QED BY <1>1, <1>2, <1>3, CallsKeep DEF Next

(* It holds of a board that was just made.                                 *)
LEMMA InitHolds == Init => IInv
<1> SUFFICES ASSUME Init PROVE IInv
  OBVIOUS
<1>1. TypeOK
  <2>1. table \in [Slots -> Descriptor \cup {Free}]
    BY DEF Init, EmptyTable
  <2>2. bus \in Bus /\ todo \in Seq(Message) /\ sta \subseteq Flags
    BY DEF Init, Bus
  <2> QED BY <2>1, <2>2 DEF Init, TypeOK, Message
<1>2. cur = Idle /\ RenHeld /\ DataFlowsWhereAddressed
  BY DEF Init, RenHeld, DataFlowsWhereAddressed, At
<1> QED BY <1>1, <1>2 DEF IInv

(* So it always holds.                                                     *)
LEMMA Invariance == Spec => []IInv
BY InitHolds, StepKeeps, PTL DEF Spec

-----------------------------------------------------------------------------
(* Every state of a board is well typed.                                   *)
THEOREM BoardTypeCorrect == Spec => []TypeOK
<1>1. IInv => TypeOK
  BY DEF IInv
<1> QED BY <1>1, Invariance, PTL

(* GPIBBoard::write, read, serialPoll: when data moves, the board and the  *)
(* device the descriptor names are the only ones addressed, whatever any   *)
(* earlier operation, failed, cut short or not, left on the bus; all bytes *)
(* of this operation's own addressing being through when the adapter says  *)
(* so, which the Agilent and NI adapters do not ensure.                    *)
THEOREM DataArrives == Spec => []DataFlowsWhereAddressed
<1>1. IInv => DataFlowsWhereAddressed
  BY DEF IInv
<1> QED BY <1>1, Invariance, PTL

(* GPIBBoard::clear, trigger, local and recoverBus: the byte that clears,  *)
(* triggers or sends to local finds the one instrument listening.          *)
THEOREM OthersUndisturbed == Spec => []OnlyTargetDisturbed
<1>1. ASSUME IInv, Sending, cur.op # "command", todo # <<>>, Head(todo).cmd \in Targeted
      PROVE  bus.listen = {cur.pad}
  <2>1. /\ cur # Idle /\ cur.phase \in CommandPhases /\ cur.pad \in Address
        /\ Placed(cur) /\ Way(cur) /\ todo \in Seq(Message)
    BY <1>1, InProgress DEF Sending
  <2>2. /\ UNL.cmd \notin Targeted /\ UNT.cmd \notin Targeted /\ Universal("SPE").cmd \notin Targeted
        /\ \A a \in Address : MLA(a).cmd \notin Targeted /\ MTA(a).cmd \notin Targeted
    BY DEF UNL, UNT, Universal, MLA, MTA, Targeted
  <2>3. Self \in Address
    BY DEF Address
  <2>4. ~Plain(todo)
    BY <1>1, <2>1 DEF Plain
  <2>5. ~WriteWay(cur.pad)
    BY <1>1, <2>1, <2>2, <2>3, ShortTails DEF WriteWay, ForWrite
  <2>6. ~ReadWay(cur.pad)
    BY <1>1, <2>1, <2>2, <2>3, ShortTails DEF ReadWay, ForRead
  <2>7. ~PollWay(cur.pad)
    BY <1>1, <2>1, <2>2, <2>3, ShortTails DEF PollWay, ForPoll
  <2>8. \A c \in Targeted : OrderWay(c, cur.pad) => bus.listen = {cur.pad}
    BY <1>1, <2>1, <2>2, <2>3, ShortTails DEF OrderWay, Addressed
  <2>9. Order(cur.op) \in Targeted /\ "SDC" \in Targeted
    BY DEF Order, Targeted
  <2> QED BY <1>1, <2>1, <2>4, <2>5, <2>6, <2>7, <2>8, <2>9 DEF Way, Placed, CommandPhases, OneShot
<1>2. IInv => OnlyTargetDisturbed
  BY <1>1 DEF OnlyTargetDisturbed, Targeted
<1> QED BY <1>2, Invariance, PTL

(* ibsre, ibonl and the recovery: while the board is idle REN is as it was *)
(* last asked for, unless the adapter failed to say so.                    *)
THEOREM RenIsKept == Spec => []RenKept
<1>1. IInv => RenKept
  BY DEF IInv, RenHeld, RenKept
<1> QED BY <1>1, Invariance, PTL

(* GPIBBoard::write and read: a transfer that fails has not failed because *)
(* the core is latched; its one recovery saw to that.                      *)
THEOREM LatchIsHidden == Spec => LatchHidden
<1>1. ASSUME IInv, [Next]_vars,
             cur # Idle, cur' = Idle, cur.op \in {"write", "read"}, "ERR" \in sta'
      PROVE  ~bus.latched \/ cur.phase \in {"out", "in", "reset"}
  <2>1. cur \in Operation /\ Placed(cur) /\ AfterReset(cur)
    BY <1>1, InProgress
  <2>2. cur.phase \in {"address", "sdc", "reset", "ifc", "control", "ren", "out", "in"}
    BY <1>1, <2>1 DEF Placed, Operation, Phases, CommandPhases, OneShot
  <2>3. ASSUME cur.phase = "address", ~cur.retried
        PROVE  FALSE
    <3>1. /\ [cur EXCEPT !.phase = "reset"] # Idle
          /\ \A p \in {"out", "in"} : [cur EXCEPT !.phase = p, !.cut = todo # <<>>] # Idle
      <4>1. /\ [cur EXCEPT !.phase = "reset"] \in Operation
            /\ \A p \in {"out", "in"} : [cur EXCEPT !.phase = p, !.cut = todo # <<>>] \in Operation
        BY <2>1 DEF Operation, Phases
      <4> QED BY <4>1, IdleAssumption
    <3>2. Handshake \/ CommandsDone \/ CommandsFail
      <4>1. Step
        BY <1>1 DEF Next, vars, Open, Close, Ask, Configure, Refuse, Start
      <4> QED BY <2>3, <4>1 DEF Step, Transfer, StatusByte, SoftReset, PulseIfc, TakeControl,
                                SetRen, ReleaseAtn, ReadLines, Wait, At
    <3>3. CASE Handshake
      BY <1>1, <3>3 DEF Handshake
    <3>4. CASE CommandsDone
      BY <1>1, <2>3, <3>1, <3>4 DEF CommandsDone, MoveData
    <3>5. CASE CommandsFail
      BY <1>1, <2>3, <3>1, <3>5 DEF CommandsFail, Goto
    <3> QED BY <3>2, <3>3, <3>4, <3>5
  <2> QED BY <1>1, <2>1, <2>2, <2>3 DEF AfterReset, Recovering, Recovers
<1>2. IInv /\ [Next]_vars =>
        [(cur # Idle /\ cur' = Idle /\ cur.op \in {"write", "read"} /\ "ERR" \in sta')
         => ~bus.latched \/ cur.phase \in {"out", "in", "reset"}]_vars
  BY <1>1
<1> QED BY <1>2, Invariance, PTL DEF Spec, LatchHidden
-----------------------------------------------------------------------------
(* How many transport calls and command bytes an operation has before it,  *)
(* at most: a phase weighs more than every phase it may lead to together   *)
(* with the command string it sends there.                                 *)
Weight(phase, retried) ==
    CASE phase \in {"out", "in", "srq", "command", "teardown"} -> 1
      [] phase = "address" -> IF retried THEN 2 ELSE 15
      [] phase = "stb"     -> 4
      [] phase = "spe"     -> 5
      [] phase = "sdc"     -> 7
      [] phase = "lines"   -> 10
      [] phase \in {"ren", "release"}  -> 11
      [] phase \in {"control", "find"} -> 12
      [] phase = "ifc"     -> 13
      [] phase = "reset"   -> 14

Effort(c, t) == Weight(c.phase, c.retried) + Len(t)

(* Whoever clears the instrument of a recovery has used the recovery up.   *)
Spent == cur # Idle /\ cur.phase = "sdc" => cur.retried

(* How long the command strings are that a phase is entered with.          *)
LEMMA Lengths ==
    /\ \A op, pad : Len(Addressing(op, pad)) = 4
    /\ \A pad : Len(ForPoll(pad)) = 4
    /\ \A c, pad : Len(Addressed(c, pad)) = 3
    /\ Len(Teardown) = 2
    /\ Len(<<>>) = 0
BY DEF Addressing, ForWrite, ForRead, ForPoll, Addressed, Teardown

(* The weight of each phase.                                               *)
LEMMA Weights ==
    ASSUME NEW r \in BOOLEAN
    PROVE  /\ Weight("out", r) = 1 /\ Weight("in", r) = 1 /\ Weight("teardown", r) = 1
           /\ Weight("address", r) = IF r THEN 2 ELSE 15
           /\ Weight("stb", r) = 4 /\ Weight("spe", r) = 5
           /\ Weight("sdc", r) = 7 /\ Weight("lines", r) = 10
           /\ Weight("ren", r) = 11 /\ Weight("release", r) = 11
           /\ Weight("control", r) = 12 /\ Weight("find", r) = 12
           /\ Weight("ifc", r) = 13 /\ Weight("reset", r) = 14
BY DEF Weight

(* What an operation has before it is a number.                            *)
LEMMA EffortIsNumber ==
    ASSUME NEW c \in Operation, NEW t \in Seq(Message)
    PROVE  Weight(c.phase, c.retried) \in 1 .. 15 /\ Len(t) \in Nat /\ Effort(c, t) \in Nat
<1>1. c.phase \in Phases
  BY DEF Operation
<1>2. Weight(c.phase, c.retried) \in 1 .. 15
  BY <1>1 DEF Phases, CommandPhases, Weight
<1>3. Len(t) \in Nat
  OBVIOUS
<1> QED BY <1>2, <1>3 DEF Effort

(* The operation goes on to another phase.                                 *)
LEMMA GotoEffort ==
    ASSUME IInv, cur # Idle, NEW p, NEW t, Goto(p, t)
    PROVE  Effort(cur', todo') = Weight(p, cur.retried) + Len(t)
<1>1. cur \in Operation
  BY InProgress
<1>2. cur'.phase = p /\ cur'.retried = cur.retried
  BY <1>1 DEF Goto, Operation
<1> QED BY <1>2 DEF Goto, Effort

(* The operation goes on to a data phase.                                  *)
LEMMA MoveEffort ==
    ASSUME IInv, cur # Idle, NEW p, MoveData(p)
    PROVE  Effort(cur', todo') = Weight(p, cur.retried) + Len(<<>>)
<1>1. cur \in Operation
  BY InProgress
<1>2. cur'.phase = p /\ cur'.retried = cur.retried
  BY <1>1 DEF MoveData, Operation
<1> QED BY <1>2 DEF MoveData, Effort

(* Every step of an operation that does not end it brings it nearer its    *)
(* end.                                                                    *)
LEMMA StepRunsDown ==
    ASSUME IInv, Spent, Step, cur # Idle, cur' # Idle
    PROVE  Effort(cur', todo') < Effort(cur, todo)
<1>1. /\ cur \in Operation /\ todo \in Seq(Message) /\ cur.retried \in BOOLEAN
      /\ Weight(cur.phase, cur.retried) \in 1 .. 15 /\ Len(todo) \in Nat
      /\ Effort(cur, todo) = Weight(cur.phase, cur.retried) + Len(todo)
  BY InProgress, EffortIsNumber DEF Effort, Operation
<1>2. /\ Len(Addressing(cur.op, cur.pad)) = 4 /\ Len(ForPoll(cur.pad)) = 4
      /\ Len(Addressed("SDC", cur.pad)) = 3 /\ Len(Teardown) = 2 /\ Len(<<>>) = 0
  BY Lengths
<1>3. CASE Handshake
  <2>1. todo' = Tail(todo) /\ todo # <<>> /\ cur' = cur
    BY <1>3 DEF Handshake
  <2>2. Len(todo') = Len(todo) - 1
    BY <1>1, <2>1, HeadTailProperties
  <2> QED BY <1>1, <2>1, <2>2 DEF Effort
<1>4. CASE CommandsDone
  <2>1. cur.phase \in CommandPhases /\ cur' # Idle
    BY <1>4 DEF CommandsDone, Sending
  <2>2. CASE cur.phase = "address"
    <3>1. PICK p \in {"out", "in"} : MoveData(p)
      BY <1>4, <2>2 DEF CommandsDone
    <3>2. Effort(cur', todo') = 1
      BY <1>1, <1>2, <3>1, MoveEffort, Weights
    <3>3. Weight(cur.phase, cur.retried) >= 2
      BY <1>1, <2>2, Weights
    <3> QED BY <1>1, <3>2, <3>3
  <2>3. CASE cur.phase = "sdc"
    <3>1. Goto("address", Addressing(cur.op, cur.pad)) /\ cur.retried
      BY <1>4, <2>3 DEF CommandsDone, Spent
    <3>2. Effort(cur', todo') = Weight("address", cur.retried) + Len(Addressing(cur.op, cur.pad))
      BY <3>1, GotoEffort
    <3>3. Weight("address", cur.retried) = 2 /\ Weight("sdc", cur.retried) = 7
      BY <1>1, <3>1, Weights
    <3> QED BY <1>1, <1>2, <2>3, <3>2, <3>3
  <2>4. CASE cur.phase = "spe"
    <3>1. MoveData("stb")
      BY <1>4, <2>4 DEF CommandsDone
    <3>2. Effort(cur', todo') = 4
      BY <1>1, <1>2, <3>1, MoveEffort, Weights
    <3>3. Weight(cur.phase, cur.retried) = 5
      BY <1>1, <2>4, Weights
    <3> QED BY <1>1, <3>2, <3>3
  <2>5. CASE cur.phase = "find"
    <3>1. Goto("release", <<>>)
      BY <1>4, <2>5 DEF CommandsDone
    <3>2. Effort(cur', todo') = 11
      BY <1>1, <1>2, <3>1, GotoEffort, Weights
    <3>3. Weight(cur.phase, cur.retried) = 12
      BY <1>1, <2>5, Weights
    <3> QED BY <1>1, <3>2, <3>3
  <2>6. CASE cur.phase \in {"teardown", "command"}
    BY <1>4, <2>1, <2>6 DEF CommandsDone, Finish
  <2> QED BY <2>1, <2>2, <2>3, <2>4, <2>5, <2>6 DEF CommandPhases
<1>5. CASE CommandsFail
  <2>1. cur.phase \in CommandPhases
    BY <1>5 DEF CommandsFail, Sending
  <2>2. CASE cur.phase = "address" /\ ~cur.retried
    <3>1. Goto("reset", <<>>)
      BY <1>5, <2>2 DEF CommandsFail
    <3> QED BY <1>1, <1>2, <2>2, <3>1, GotoEffort, Weights
  <2>3. CASE cur.phase = "sdc"
    <3>1. Goto("address", Addressing(cur.op, cur.pad)) /\ cur.retried
      BY <1>5, <2>3 DEF CommandsFail, Spent
    <3>2. Effort(cur', todo') = Weight("address", cur.retried) + Len(Addressing(cur.op, cur.pad))
      BY <3>1, GotoEffort
    <3>3. Weight("address", cur.retried) = 2 /\ Weight("sdc", cur.retried) = 7
      BY <1>1, <3>1, Weights
    <3> QED BY <1>1, <1>2, <2>3, <3>2, <3>3
  <2>4. CASE cur.phase = "spe" /\ cur.op = "find"
    <3>1. Goto("teardown", Teardown)
      BY <1>5, <2>4 DEF CommandsFail
    <3>2. Effort(cur', todo') = Weight("teardown", cur.retried) + Len(Teardown)
      BY <3>1, GotoEffort
    <3>3. Weight("teardown", cur.retried) = 1 /\ Weight("spe", cur.retried) = 5
      BY <1>1, Weights
    <3> QED BY <1>1, <1>2, <2>4, <3>2, <3>3
  <2>5. CASE cur.phase \in {"find", "teardown", "command"}
    BY <1>5, <2>5 DEF CommandsFail, Finish
  <2>6. CASE cur.phase = "address" /\ cur.retried
    BY <1>5, <2>6 DEF CommandsFail, Finish
  <2>7. CASE cur.phase = "spe" /\ cur.op # "find"
    BY <1>5, <2>7 DEF CommandsFail, Finish
  <2> QED BY <2>1, <2>2, <2>3, <2>4, <2>5, <2>6, <2>7 DEF CommandPhases
<1>6. CASE StatusByte
  <2>1. /\ cur.phase = "stb" /\ todo' = Teardown
        /\ \E m \in BOOLEAN : cur' = [cur EXCEPT !.phase = "teardown", !.missed = m, !.cut = FALSE]
    BY <1>6 DEF StatusByte, At
  <2>2. cur'.phase = "teardown" /\ cur'.retried \in BOOLEAN
    BY <1>1, <2>1 DEF Operation
  <2>3. Effort(cur', todo') = 3
    <3>1. Weight(cur'.phase, cur'.retried) = 1
      BY <2>2, Weights
    <3>2. Len(todo') = 2
      BY <1>2, <2>1
    <3> QED BY <3>1, <3>2 DEF Effort
  <2>4. Weight(cur.phase, cur.retried) = 4
    BY <1>1, <2>1, Weights
  <2> QED BY <1>1, <2>3, <2>4
<1>7. CASE SoftReset
  <2>1. cur.phase = "reset" /\ Goto("ifc", <<>>)
    BY <1>7 DEF SoftReset, At, Finish
  <2> QED BY <1>1, <1>2, <2>1, GotoEffort, Weights
<1>8. CASE PulseIfc
  <2>1. cur.phase = "ifc" /\ Goto("control", <<>>)
    BY <1>8 DEF PulseIfc, At, Finish
  <2> QED BY <1>1, <1>2, <2>1, GotoEffort, Weights
<1>9. ASSUME AfterRecovery, cur.phase \in {"control", "ren"}
      PROVE  Effort(cur', todo') < Effort(cur, todo)
  <2>1. cur' = [cur EXCEPT !.phase = "sdc", !.retried = TRUE] /\ todo' = Addressed("SDC", cur.pad)
    BY <1>9 DEF AfterRecovery, Finish
  <2>2. cur'.phase = "sdc" /\ cur'.retried \in BOOLEAN
    BY <1>1, <2>1 DEF Operation
  <2>3. Effort(cur', todo') = 10
    <3>1. Weight(cur'.phase, cur'.retried) = 7
      BY <2>2, Weights
    <3>2. Len(todo') = 3
      BY <1>2, <2>1
    <3> QED BY <3>1, <3>2 DEF Effort
  <2>4. Weight(cur.phase, cur.retried) \in {11, 12}
    BY <1>1, <1>9, Weights
  <2> QED BY <1>1, <2>3, <2>4
<1>10. CASE TakeControl
  <2>1. cur.phase = "control" /\ (Goto("ren", <<>>) \/ AfterRecovery)
    BY <1>10 DEF TakeControl, At
  <2>2. CASE Goto("ren", <<>>)
    BY <1>1, <1>2, <2>1, <2>2, GotoEffort, Weights
  <2> QED BY <1>9, <2>1, <2>2
<1>11. CASE SetRen
  <2>1. cur.phase = "ren" /\ AfterRecovery
    BY <1>11 DEF SetRen, At, Finish
  <2> QED BY <1>9, <2>1
<1>12. CASE ReleaseAtn
  <2>1. cur.phase = "release" /\ Goto("lines", <<>>)
    BY <1>12 DEF ReleaseAtn, At, Finish
  <2> QED BY <1>1, <1>2, <2>1, GotoEffort, Weights
<1>13. CASE ReadLines
  <2>1. cur.phase = "lines" /\ Goto("spe", ForPoll(cur.pad))
    BY <1>13 DEF ReadLines, At, Finish
  <2>2. Effort(cur', todo') = Weight("spe", cur.retried) + Len(ForPoll(cur.pad))
    BY <2>1, GotoEffort
  <2>3. Weight("spe", cur.retried) = 5 /\ Weight("lines", cur.retried) = 10
    BY <1>1, Weights
  <2> QED BY <1>1, <1>2, <2>1, <2>2, <2>3
<1>14. CASE Transfer \/ Wait
  BY <1>14 DEF Transfer, Wait, Finish
<1> QED BY <1>3, <1>4, <1>5, <1>6, <1>7, <1>8, <1>10, <1>11, <1>12, <1>13, <1>14 DEF Step

(* A recovery comes to the clear of its instrument only by being used up.  *)
LEMMA SpentKeeps ==
    ASSUME IInv, Spent, [Next]_vars
    PROVE  Spent'
<1> SUFFICES ASSUME cur' # Idle, cur'.phase = "sdc"
             PROVE  cur'.retried
  BY DEF Spent
<1>1. CASE cur' = cur
  BY <1>1 DEF Spent
<1>2. ASSUME NEW op \in AllOps, NEW h \in Slots \cup {0}, NEW a \in Address, Start(op, h, a)
      PROVE  FALSE
  BY <1>2 DEF Start, FirstPhase
<1>3. CASE Step /\ cur # Idle
  <2>1. cur \in Operation
    BY <1>3, InProgress
  <2>2. ASSUME AfterRecovery
        PROVE  cur'.retried
    BY <2>1, <2>2 DEF AfterRecovery, Finish, Operation
  <2>3. ASSUME NEW p, NEW t, p # "sdc", Goto(p, t)
        PROVE  FALSE
    BY <2>1, <2>3 DEF Goto, Operation
  <2>10. ASSUME NEW p, p # "sdc", MoveData(p)
        PROVE  FALSE
    BY <2>1, <2>10 DEF MoveData, Operation
  <2>4. CASE TakeControl \/ SetRen
    BY <2>2, <2>3, <2>4 DEF TakeControl, SetRen, Finish
  <2>5. CASE CommandsDone
    BY <2>3, <2>10, <2>5 DEF CommandsDone, Finish, Sending, CommandPhases
  <2>6. CASE CommandsFail
    BY <2>3, <2>6 DEF CommandsFail, Finish
  <2>7. CASE StatusByte
    BY <2>1, <2>7 DEF StatusByte, Operation
  <2>8. CASE SoftReset \/ PulseIfc \/ ReleaseAtn \/ ReadLines
    BY <2>3, <2>8 DEF SoftReset, PulseIfc, ReleaseAtn, ReadLines, Finish
  <2>9. CASE Handshake \/ Transfer \/ Wait
    BY <1>1, <2>9 DEF Handshake, Transfer, Wait, Finish
  <2> QED BY <1>3, <2>4, <2>5, <2>6, <2>7, <2>8, <2>9 DEF Step
<1>4. Step => cur # Idle
  BY DEF Step, Handshake, CommandsDone, CommandsFail, Sending, Transfer, StatusByte, SoftReset, PulseIfc,
         TakeControl, SetRen, ReleaseAtn, ReadLines, Wait, At
<1> QED BY <1>1, <1>2, <1>3, <1>4 DEF Next, vars, Open, Close, Ask, Configure, Refuse

(* Every operation of a GPIBBoard, the recovery of the bus and its one     *)
(* retry included, comes nearer its end with every transport call and      *)
(* every command byte, whatever fails: no loop of failure and recovery.    *)
(* With the fairness of Spec this is why OperationEnds holds.              *)
THEOREM OperationsRunDown ==
    Spec => [][cur # Idle /\ cur' # Idle
               => Effort(cur', todo') \in Nat /\ Effort(cur', todo') < Effort(cur, todo)]_vars
<1>1. Init => Spent
  BY DEF Init, Spent
<1>2. IInv /\ Spent /\ [Next]_vars => Spent'
  BY SpentKeeps
<1>3. ASSUME IInv, Spent, IInv', Next, cur # Idle, cur' # Idle
      PROVE  Effort(cur', todo') \in Nat /\ Effort(cur', todo') < Effort(cur, todo)
  <2>1. Step
    BY <1>3 DEF Next, Open, Close, Ask, Configure, Refuse, Start
  <2>2. cur' \in Operation /\ todo' \in Seq(Message)
    BY <1>3 DEF IInv, TypeOK, Message
  <2> QED BY <1>3, <2>1, <2>2, EffortIsNumber, StepRunsDown
<1>4. IInv /\ Spent /\ IInv' /\ [Next]_vars =>
        [cur # Idle /\ cur' # Idle
         => Effort(cur', todo') \in Nat /\ Effort(cur', todo') < Effort(cur, todo)]_vars
  BY <1>3
<1> QED BY <1>1, <1>2, <1>4, Invariance, PTL DEF Spec
=============================================================================
