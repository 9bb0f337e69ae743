------------------------------ MODULE GpibBoard ------------------------------
(***************************************************************************)
(* One adapter's GPIBBoard (driver/core/GPIBBoard.cpp): the operations its *)
(* user clients ask for, as the sequence of transport calls each of them   *)
(* makes, over a bus whose every call may fail half way.                   *)
(*                                                                         *)
(* The dext serves one request at a time, so an operation is never         *)
(* interleaved with another; what it leaves on the bus is what the next    *)
(* one, perhaps of another client, starts from.  Addresses stand for       *)
(* (pad, sad) pairs, data bytes are left out, and of a descriptor only the *)
(* address is kept.  recoveryInProgress_ is never set when recoverBus      *)
(* starts, there being one operation at a time, and is left out.           *)
(***************************************************************************)
EXTENDS DescriptorTable, Sequences

CONSTANTS
    Instruments,  \* the addresses of instruments
    Self,         \* boardPAD_
    NoTalker,     \* nobody is addressed to talk
    Idle,         \* no operation is in progress
    Raw           \* the command strings clients send with ibcmd

Address == Instruments \cup {Self}

Commands == {"UNL", "UNT", "MLA", "MTA", "SPE", "SPD", "SDC", "GET", "GTL", "LLO"}

ASSUME BoardAssumption ==
    /\ Self \notin Instruments
    /\ NoTalker \notin Address
    /\ Raw \subseteq Seq([cmd : Commands, at : Address])

VARIABLES
    table,         \* descriptors_
    online,        \* online_
    renRequested,  \* renRequested_
    sta,           \* ibsta_, the status every client of the board shares
    cur,           \* the operation in progress, see Operation
    todo,          \* command bytes its current sendCommandBytes has yet to send
    bus,           \* the adapter's core and the bus
    renFault       \* a transport call that decides REN failed and none worked since

vars == <<table, online, renRequested, sta, cur, todo, bus, renFault>>

Descriptor == [pad : Address]

DeviceOps  == {"write", "read", "poll", "clear", "trigger", "local", "wait"}
OneShot    == {"clear", "trigger", "local", "lockout", "command"}
AllOps     == DeviceOps \cup OneShot \cup
              {"ifc", "ren", "unren", "online", "offline", "find", "reinit", "lines"}

(* A phase is the transport call an operation is at.                       *)
CommandPhases == {"address", "sdc", "spe", "teardown", "command", "find"}
Phases == CommandPhases \cup
          {"reset", "ifc", "control", "ren", "out", "in", "stb", "release",
           "lines", "srq"}

(* `retried`: the bus was recovered once on behalf of this operation.      *)
(* `missed`: the status byte of its serial poll did not come.              *)
(* `patient`: the timeout in force is TNONE, none at all.                  *)
(* `cut`: the adapter reported the command string before this phase as     *)
(* sent although some of it was not (kept of the strings data follows).    *)
Operation == [op : AllOps, h : Slots \cup {0}, pad : Address, phase : Phases,
              retried : BOOLEAN, missed : BOOLEAN, patient : BOOLEAN, cut : BOOLEAN]

ASSUME IdleAssumption == Idle \notin Operation

(* Of ibsta_ the bits that say how an operation ended; what else it tells  *)
(* of the transfer or of the bus (END, TIMO, SRQI, CIC, ...) is left out.  *)
Flags == {"ERR", "CMPL"}

(* Who is addressed, serial-poll mode, REN, whether we are controller in   *)
(* charge, and whether the core is latched (an RFD holdoff: nothing at all *)
(* handshakes until the core is reset).                                    *)
Bus == [listen : SUBSET Address, talk : Address \cup {NoTalker}, poll : BOOLEAN,
        ren : BOOLEAN, cic : BOOLEAN, latched : BOOLEAN]

Universal(c) == [cmd |-> c, at |-> Self]
MLA(a) == [cmd |-> "MLA", at |-> a]
MTA(a) == [cmd |-> "MTA", at |-> a]
UNL == Universal("UNL")
UNT == Universal("UNT")

(* Mutant of ForWrite: earlier listeners are not unaddressed.              *)
ForWriteNoUNL(pad) == <<UNT, MTA(Self), MLA(pad)>>
ForWrite(pad) == <<UNL, UNT, MTA(Self), MLA(pad)>>
ForRead(pad)  == <<UNL, UNT, MLA(Self), MTA(pad)>>
ForPoll(pad)  == <<UNL, MTA(pad), MLA(Self), Universal("SPE")>>
Teardown      == <<Universal("SPD"), UNT>>

(* Mutant of Addressed: the same omission.                                 *)
AddressedNoUNL(c, pad) == <<MLA(pad), Universal(c)>>
Addressed(c, pad) == <<UNL, MLA(pad), Universal(c)>>

Addressing(op, pad) == IF op = "write" THEN ForWrite(pad) ELSE ForRead(pad)

(* What a command byte does to the devices on the bus.                     *)
Effect(b, m) ==
    [b EXCEPT !.listen = IF m.cmd = "UNL" THEN {}
                         ELSE IF m.cmd = "MLA" THEN @ \cup {m.at} ELSE @,
              !.talk   = IF m.cmd = "UNT" THEN NoTalker
                         ELSE IF m.cmd = "MTA" THEN m.at ELSE @,
              !.poll   = IF m.cmd \in {"SPE", "SPD"} THEN m.cmd = "SPE" ELSE @]
-----------------------------------------------------------------------------
Init ==
    /\ table = EmptyTable
    /\ online = FALSE
    /\ renRequested = FALSE
    /\ sta = {}
    /\ cur = Idle
    /\ todo = <<>>
    /\ bus = [listen |-> {}, talk |-> NoTalker, poll |-> FALSE, ren |-> FALSE,
              cic |-> FALSE, latched |-> FALSE]
    /\ renFault = FALSE

(* An operation ends with status s, kept for the board as a whole.         *)
Report(s) == sta' = s

Finish(s) == Report(s) /\ cur' = Idle /\ todo' = <<>>

Goto(phase, cmds) == cur' = [cur EXCEPT !.phase = phase] /\ todo' = cmds

(* openDescriptor, closeDescriptor, configure(IbcPAD) and ask.  The first  *)
(* leaves ibsta_ alone; a handle nobody has open is EARG.                  *)
Open(pad) ==
    /\ cur = Idle
    /\ \E h \in Slots : Allocates(table, h) /\ table' = [table EXCEPT ![h] = [pad |-> pad]]
    /\ UNCHANGED <<online, renRequested, sta, cur, todo, bus, renFault>>

Close(h) ==
    /\ cur = Idle
    /\ table' = Release(table, h)
    /\ Report(IF IsOpen(table, h) THEN {"CMPL"} ELSE {"ERR"})
    /\ UNCHANGED <<online, renRequested, cur, todo, bus, renFault>>

(* Mutant of Configure: IbcPAD stores the value unmasked.                  *)
ConfigureUnmasked(h, pad) ==
    /\ cur = Idle
    /\ \E v \in {pad, NoTalker} :
         table' = IF IsOpen(table, h) THEN [table EXCEPT ![h].pad = v] ELSE table
    /\ Report({"CMPL"})
    /\ UNCHANGED <<online, renRequested, cur, todo, bus, renFault>>

Configure(h, pad) ==
    /\ cur = Idle
    /\ table' = IF IsOpen(table, h) THEN [table EXCEPT ![h].pad = pad] ELSE table
    /\ Report(IF IsOpen(table, h) THEN {"CMPL"} ELSE {"ERR"})
    /\ UNCHANGED <<online, renRequested, cur, todo, bus, renFault>>

Ask(h) ==
    /\ cur = Idle
    /\ \E known \in BOOLEAN :
         Report(IF IsOpen(table, h) /\ known THEN {"CMPL"} ELSE {"ERR"})
    /\ UNCHANGED <<table, online, renRequested, cur, todo, bus, renFault>>

(* Entry checks: a handle that is not open (EARG), then, for the transfers *)
(* and the serial poll only, a board that is offline (ENEB).               *)
Refused(op, h) ==
    \/ op \in DeviceOps /\ ~IsOpen(table, h)
    \/ op \in {"write", "read", "poll"} /\ ~online

Refuse(op, h) ==
    /\ cur = Idle
    /\ Refused(op, h)
    /\ Report({"ERR"})
    /\ UNCHANGED <<table, online, renRequested, cur, todo, bus, renFault>>

FirstPhase(op) ==
    CASE op \in {"write", "read"}   -> "address"
      [] op = "poll"                -> "spe"
      [] op = "find"                -> "find"
      [] op = "wait"                -> "srq"
      [] op = "lines"               -> "lines"
      [] op = "reinit"              -> "reset"
      [] op \in {"ifc", "online"}   -> "ifc"
      [] op \in {"ren", "unren", "offline"} -> "ren"
      [] OTHER                      -> "command"

(* The command string an operation opens with.                             *)
Opening(op, pad) ==
    CASE op \in {"write", "read"} -> {Addressing(op, pad)}
      [] op = "poll"    -> {ForPoll(pad)}
      [] op = "find"    -> {<<UNL, UNT, MLA(pad)>>}
      [] op = "clear"   -> {Addressed("SDC", pad)}
      [] op = "trigger" -> {Addressed("GET", pad)}
      [] op = "local"   -> {Addressed("GTL", pad)}
      [] op = "lockout" -> {<<Universal("LLO")>>}
      [] op = "command" -> Raw
      [] OTHER          -> {<<>>}

(* The operations that wait for as long as their descriptor, or ibwait's   *)
(* caller, says.  The rest of them and every probe have short timeouts.    *)
Timed == {"write", "read", "poll", "wait"}

(* An operation starts: on a descriptor, on an address (find), or on the   *)
(* board as a whole.                                                       *)
Start(op, h, a) ==
    /\ cur = Idle
    /\ ~Refused(op, h)
    /\ op \notin DeviceOps => h = 0
    /\ LET pad == IF op \in DeviceOps THEN table[h].pad
                  ELSE IF op = "find" THEN a ELSE Self
       IN
         /\ todo' \in Opening(op, pad)
         /\ \E patient \in BOOLEAN :
              /\ patient => op \in Timed
              /\ cur' = [op |-> op, h |-> h, pad |-> pad, phase |-> FirstPhase(op),
                         retried |-> FALSE, missed |-> FALSE, patient |-> patient,
                         cut |-> FALSE]
    /\ UNCHANGED <<table, online, renRequested, sta, bus, renFault>>
-----------------------------------------------------------------------------
Sending == cur # Idle /\ cur.phase \in CommandPhases

(* sendCommandBytes gets one more byte through.                            *)
Handshake ==
    /\ Sending
    /\ todo # <<>>
    /\ bus.cic /\ ~bus.latched
    /\ bus' = Effect(bus, Head(todo))
    /\ todo' = Tail(todo)
    /\ UNCHANGED <<table, online, renRequested, sta, cur, renFault>>

(* The serial poll or the probe is over: the status byte came, or not.     *)
(* listenerPresent reports CMPL in any case.                               *)
PollResult ==
    IF cur.op = "poll" /\ cur.missed THEN {"ERR"} ELSE {"CMPL"}

(* The commands being sent, as far as the board knows, data may move.      *)
MoveData(phase) ==
    /\ cur' = [cur EXCEPT !.phase = phase, !.cut = todo # <<>>]
    /\ todo' = <<>>

(* sendCommandBytes returned 0.  That is no proof that all bytes are       *)
(* through: the Agilent one does not look at the count that comes back,    *)
(* the NI one sends 16 bytes at most and may take the answer of an earlier *)
(* request for its own.                                                    *)
CommandsDone ==
    /\ Sending
    /\ CASE cur.phase = "address" ->
              /\ MoveData(IF cur.op = "write" THEN "out" ELSE "in")
              /\ UNCHANGED sta
         [] cur.phase = "sdc" ->
              /\ Goto("address", Addressing(cur.op, cur.pad))
              /\ UNCHANGED sta
         [] cur.phase = "spe" -> MoveData("stb") /\ UNCHANGED sta
         [] cur.phase = "find" -> Goto("release", <<>>) /\ UNCHANGED sta
         [] cur.phase = "teardown" -> Finish(PollResult)
         [] cur.phase = "command" -> Finish({"CMPL"})
    /\ UNCHANGED <<table, online, renRequested, bus, renFault>>

(* Mutant of CommandsFail: a failed addressing is retried as it is.        *)
CommandsFailNoRecovery ==
    /\ Sending
    /\ IF cur.phase = "address" /\ ~cur.retried
       THEN /\ cur' = [cur EXCEPT !.retried = TRUE]
            /\ todo' = Addressing(cur.op, cur.pad)
            /\ UNCHANGED sta
       ELSE Finish({"ERR"})
    /\ UNCHANGED <<table, online, renRequested, bus, renFault>>

(* sendCommandBytes failed, some or all bytes being through.  A failed     *)
(* addressing is worth one recovery; the rest of a failed serial poll is   *)
(* skipped, of a failed probe it is not; the SDC of a recovery and the     *)
(* teardown of a poll are not checked.                                     *)
CommandsFail ==
    /\ Sending
    /\ CASE cur.phase = "address" /\ ~cur.retried ->
              Goto("reset", <<>>) /\ UNCHANGED sta
         [] cur.phase = "sdc" ->
              /\ Goto("address", Addressing(cur.op, cur.pad))
              /\ UNCHANGED sta
         [] cur.phase = "spe" /\ cur.op = "find" ->
              Goto("teardown", Teardown) /\ UNCHANGED sta
         [] cur.phase = "find" -> Finish({"CMPL"})
         [] cur.phase = "teardown" -> Finish(PollResult)
         [] OTHER -> Finish({"ERR"})
    /\ UNCHANGED <<table, online, renRequested, bus, renFault>>
-----------------------------------------------------------------------------
At(phase) == cur # Idle /\ cur.phase = phase

(* writeData and readData, done or failed; with TNONE, whenever the        *)
(* instrument lets them.  Either may leave the core latched.               *)
Transfer ==
    /\ At("out") \/ At("in")
    /\ \E l \in BOOLEAN : bus' = [bus EXCEPT !.latched = l]
    /\ Finish({"CMPL"}) \/ Finish({"ERR"})
    /\ UNCHANGED <<table, online, renRequested, renFault>>

(* The status byte of a serial poll; the teardown follows in any case.     *)
StatusByte ==
    /\ At("stb")
    /\ \E l \in BOOLEAN : bus' = [bus EXCEPT !.latched = l]
    /\ \E m \in BOOLEAN : cur' = [cur EXCEPT !.phase = "teardown", !.missed = m, !.cut = FALSE]
    /\ todo' = Teardown
    /\ UNCHANGED <<table, online, renRequested, sta, renFault>>

(* The core as a chip reset leaves it; the instruments do not notice.      *)
ResetCore(b) ==
    [b EXCEPT !.listen = @ \ {Self}, !.talk = IF @ = Self THEN NoTalker ELSE @,
              !.ren = FALSE, !.cic = FALSE, !.latched = FALSE]

(* recoverBus begins with softReset.  If that fails, perhaps after the     *)
(* chip was reset, nothing else is done and the operation fails.           *)
SoftReset ==
    /\ At("reset")
    /\ \/ /\ bus' = ResetCore(bus)
          /\ Goto("ifc", <<>>)
          /\ UNCHANGED <<sta, renFault>>
       \/ /\ bus' \in {bus, ResetCore(bus)}
          /\ renFault' = TRUE
          /\ Finish(IF cur.op = "reinit" THEN sta ELSE {"ERR"})
    /\ UNCHANGED <<table, online, renRequested>>

(* pulseInterfaceClear: ibsic, setOnline(true) and recoverBus, none of     *)
(* which stops at its failure.  ibsic reports success in any case.         *)
PulseIfc ==
    /\ At("ifc")
    /\ bus' \in {bus, [bus EXCEPT !.listen = {}, !.talk = NoTalker, !.poll = FALSE]}
    /\ IF cur.op = "ifc" THEN Finish({"CMPL"})
       ELSE Goto("control", <<>>) /\ UNCHANGED sta
    /\ UNCHANGED <<table, online, renRequested, renFault>>

(* Mutant of AfterRecovery: every failed addressing recovers again.        *)
AfterRecoveryAgain ==
    IF cur.op = "reinit" THEN Finish(sta)
    ELSE Goto("sdc", Addressed("SDC", cur.pad)) /\ UNCHANGED sta

(* The SDC to the instrument a recovery is for; an operator's reinit is    *)
(* for none and ends here.                                                 *)
AfterRecovery ==
    IF cur.op = "reinit" THEN Finish(sta)
    ELSE /\ cur' = [cur EXCEPT !.phase = "sdc", !.retried = TRUE]
         /\ todo' = Addressed("SDC", cur.pad)
         /\ UNCHANGED sta

(* Mutant of TakeControl: a recovery leaves REN as the reset left it.      *)
TakeControlNoRen ==
    /\ At("control")
    /\ bus' \in {bus, [bus EXCEPT !.cic = TRUE]}
    /\ IF cur.op = "online"
       THEN Goto("ren", <<>>) /\ UNCHANGED sta
       ELSE AfterRecovery
    /\ UNCHANGED <<table, online, renRequested, renFault>>

(* takeControl, of setOnline(true) and of recoverBus; the latter raises    *)
(* REN again only if it was asked for.                                     *)
TakeControl ==
    /\ At("control")
    /\ bus' \in {bus, [bus EXCEPT !.cic = TRUE]}
    /\ IF cur.op = "online" \/ renRequested
       THEN Goto("ren", <<>>) /\ UNCHANGED sta
       ELSE AfterRecovery
    /\ UNCHANGED <<table, online, renRequested, renFault>>

(* setRemoteEnable.  ibsre and setOnline record what was asked for,        *)
(* whether or not the call worked.                                         *)
SetRen ==
    /\ At("ren")
    /\ LET want == cur.op \notin {"unren", "offline"}
           mine == cur.op \in {"ren", "unren", "online", "offline"}
       IN /\ \E ok \in BOOLEAN :
               /\ bus' = IF ok THEN [bus EXCEPT !.ren = want] ELSE bus
               /\ renFault' = ~ok
          /\ renRequested' = IF mine THEN want ELSE renRequested
          /\ online' = IF cur.op \in {"online", "offline"} THEN want ELSE online
          /\ IF mine THEN Finish({"CMPL"}) ELSE AfterRecovery
    /\ UNCHANGED table

(* releaseAtn of listenerPresent.                                          *)
ReleaseAtn ==
    /\ At("release")
    /\ \/ Goto("lines", <<>>) /\ UNCHANGED sta
       \/ Finish({"CMPL"})
    /\ UNCHANGED <<table, online, renRequested, bus, renFault>>

(* readBusLines.  For iblines the answer or ECAP; for listenerPresent it   *)
(* decides, or it says nothing and the address is polled.                  *)
ReadLines ==
    /\ At("lines")
    /\ \/ Finish({"CMPL"})
       \/ cur.op = "lines" /\ Finish({"ERR"})
       \/ /\ cur.op = "find"
          /\ Goto("spe", ForPoll(cur.pad))
          /\ UNCHANGED sta
    /\ UNCHANGED <<table, online, renRequested, bus, renFault>>

(* waitForStatus: without SRQ in the mask the status as it is; with it,    *)
(* SRQ seen on the bus, or the deadline.                                   *)
Wait ==
    /\ At("srq")
    /\ Finish(sta) \/ Finish(sta \cup {"CMPL"})
    /\ UNCHANGED <<table, online, renRequested, bus, renFault>>

Step ==
    \/ Handshake \/ CommandsDone \/ CommandsFail
    \/ Transfer \/ StatusByte
    \/ SoftReset \/ PulseIfc \/ TakeControl \/ SetRen
    \/ ReleaseAtn \/ ReadLines \/ Wait

Next ==
    \/ \E a \in Address : Open(a)
    \/ \E h \in Slots : \/ Close(h)
                        \/ Ask(h)
                        \/ \E a \in Address : Configure(h, a)
    \/ \E op \in AllOps, h \in Slots \cup {0} :
         Refuse(op, h) \/ \E a \in Address : Start(op, h, a)
    \/ Step

(* Under TNONE a transfer waits for an instrument, and ibwait for an SRQ,  *)
(* that may never come.                                                    *)
Untimed == cur # Idle /\ cur.patient /\ cur.phase \in {"out", "in", "stb", "srq"}

(* Every other transport call has a deadline, and returns.                 *)
Spec == Init /\ [][Next]_vars /\ WF_vars(Step /\ ~Untimed)
-----------------------------------------------------------------------------
TypeOK ==
    /\ table \in [Slots -> Descriptor \cup {Free}]
    /\ {online, renRequested, renFault} \subseteq BOOLEAN
    /\ sta \subseteq Flags
    /\ cur \in Operation \cup {Idle}
    /\ todo \in Seq([cmd : Commands, at : Address])
    /\ bus \in Bus

(* Data moves only between the board and the device the descriptor names:  *)
(* when a transfer is under way, exactly those two are addressed, whatever *)
(* the failed attempts, cut strings, probes and raw commands before it     *)
(* left on the bus.  The one exception is a transfer whose own addressing  *)
(* the adapter reported as sent and had cut short.                         *)
DataFlowsWhereAddressed ==
    cur # Idle /\ ~cur.cut =>
        /\ At("out") => bus.talk = Self /\ bus.listen = {cur.pad}
        /\ At("in")  => bus.talk = cur.pad /\ bus.listen = {Self}
        /\ At("stb") => bus.talk = cur.pad /\ bus.listen = {Self} /\ bus.poll

(* GPIBBoard.cpp:721-722, "so recovering one instrument does not disturb   *)
(* others on the bus": a clear, trigger or go-to-local the board sends     *)
(* finds the one instrument it is meant for listening, and no other.       *)
OnlyTargetDisturbed ==
    Sending /\ cur.op # "command" /\ todo # <<>> /\ Head(todo).cmd \in {"SDC", "GET", "GTL"}
      => bus.listen = {cur.pad}

(* GPIBBoard.cpp:295-298 of the retry, "so a latched holdoff doesn't turn  *)
(* into 'unplug the adapter'": a transfer never reports failure because the *)
(* core is latched; either the recovery unlatched it, or the soft reset    *)
(* itself failed, or it is the data phase that failed.                     *)
LatchHidden ==
    [][ (cur # Idle /\ cur' = Idle /\ cur.op \in {"write", "read"} /\ "ERR" \in sta')
        => ~bus.latched \/ cur.phase \in {"out", "in", "reset"} ]_vars

(* Whenever the board is idle, REN is as it was last asked for, resets in  *)
(* between included, unless the call to the adapter failed.                *)
RenKept == cur = Idle /\ ~renFault => (bus.ren <=> renRequested)

(* Every operation comes to its end, the recovery not being repeated, or   *)
(* to a transfer or a wait that was asked to go on for ever.               *)
OperationEnds == cur # Idle ~> cur = Idle \/ Untimed

(* GPIBBoard.cpp:469, "This MUST happen on the failure path too": a serial *)
(* poll never ends with SPE in force and no attempt to send SPD.           *)
PollTornDown ==
    [][ (cur # Idle /\ cur' = Idle /\ cur.op = "poll" /\ bus.poll)
        => cur.phase = "teardown" ]_vars
=============================================================================
