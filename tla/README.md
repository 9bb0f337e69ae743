# darwin-gpib: specifications

TLA+ models of darwin-gpib (a GPIB stack for macOS: a client library, a broker
agent and DriverKit drivers), the TLC configurations that check them and the
TLAPS proofs about them. Paths are relative to the repository.

## 1. The system

```
 application + libgpib  --XPC-->  gpibd  --IOConnectCallStructMethod-->  dext
   (many processes)             (one broker)                 GPIBUserClient -> GPIBBoard
                                                             -> IGPIBTransport -> USB adapter -> bus
```

| component | state | operations | hard parts | what makes it correct |
|---|---|---|---|---|
| **gpibd** (`gpibd/gpibd.c`) | per client a session: the list of (board, handle) it owns; per board a serial queue and a cached user-client connection | request: resolve board, call driver, drop a dead connection and retry once, track opens and closes, reply; probe; list; reap a departed client's list | blocks of several queues, a reaper on a global queue, clients killed in mid call, adapters that come and go and renumber the rest, the broker killed when idle | a departed client's descriptors are closed, nobody else's are; every open descriptor is listed; every request is answered; one queue per adapter |
| **GPIBBoard** (`driver/core/GPIBBoard.cpp`) | 64 descriptor slots, `online_`, `renRequested_`, `ibsta_`, `boardPAD_` | open, close, configure, ask, the bus operations (ibwrt, ibrd, ibrsp, ibclr, ibtrg, ibloc, ibcmd, ibsic, ibsre, ibln, iblines, ibwait), recovery | every transport call may fail half way; the bus keeps what failed operations left on it; the core latches up (RFD holdoff) and is reset | data and clears reach the addressed instrument only; a latched core is recovered from; REN is kept; a serial poll is torn down |
| **GPIBUserClient** (`driver/userclient/`) | pointer to the board, borrowed | 18 selectors to GPIBBoard calls, size checks, inline-size clamps, the diagnostics carried in LineStatus handles | lifetime of the board against Stop and against services that come and go | each selector does its operation on the handle it names; the pointer never outlives the board |
| **libgpib client** (`libgpib/src/client.c`, `error.c`) | one XPC connection, per-board reachability and board handle, process-wide ibsta/iberr/ibcntl and a copy per thread | broker calls, lazy open of the board handle, board list, setting the status | threads of one process, replugged adapters, restarted broker | one board handle per board; a stale handle is not used; a thread sees its own status |
| **libgpib calls** (`ib_traditional.c`, `ib_488_2.c`) | none (a ud packs board and handle) | ibdev, ibonl, ibwrt, ibrd, file transfers, the 488.2 multi-device routines | sequences of broker calls, one of which fails | descriptors opened on the way are closed; a file is moved whole; a failure is reported |
| **KUSB-488B transport** (`KUSB488BTransport.cpp`) | max chunk, holdoff flag, controller state, the firmware engine behind it | commands, reads, writes, reset, lines | completion is polled for; a transfer given up on stays armed in the firmware; chunking | no byte or completion of one transfer is taken for another's; counts and END are true |
| **NI, Agilent transports** (`NIUSBTransport.cpp`, `Agilent82357Transport.cpp`) | the pipes; the adapter's queue of requests and answers behind them | attach, commands, reads, writes, IFC, REN, lines, abort | requests and answers carry no number; an exchange given up on leaves its answer in the pipe; partial transfers | an answer is taken for its own request's; counts and END are true; an abort stops the adapter |
| **firmware loader** (`KUSB488BLoader.cpp`, `kusb_488b_loader.cpp`) | the session on the device | three images in chunks, CPU reset, re-enumeration | any request may fail, having arrived or not | an adapter that shows itself as working has whole images; the CPU is not left in reset |
| **dext services** (`kusb_488b.cpp`, `ni_usb.cpp`, `agilent_82357.cpp`) | provider, transport, board | Start, Stop, free, NewUserClient | failure of one step, unplugging at any point, DriverKit's order of calls | what was opened is closed again; everything is freed |
| **tools** (`tools/gpibctl.c`) | - | peek, poke, chunk, reset encoded into LineStatus | one field, six meanings | a request is taken for what it is |
| **app, build, packaging** | installation state | activate extension, install agent, enumerate | outside the bus path | - |

The hazards, each at its line, are in `PROJECT.json`.

## 2. Modules

| module | models | extends |
|---|---|---|
| `DescriptorTable` | the slots of one `GPIBBoard`: lowest free slot first, slot 0 never given out, release | |
| `Broker` | gpibd, the adapters behind it and the clients in front of it | `DescriptorTable` |
| `DescriptorService` | what gpibd.c:12-16 promises about who may give which descriptor back and until when it stays open, as an abstract specification; `Broker` is shown to implement it | |
| `GpibBoard` | GPIBBoard's operations over a bus whose every call may fail | `DescriptorTable` |
| `KusbTransport` | the firmware pipeline of KUSB488BTransport over the adapter's transfer engine | |
| `BulkAdapter` | what the NI and the Agilent transport have in common, and the adapter behind the bulk pipes | |
| `NiTransport`, `AgilentTransport` | the two transports, call by call | `BulkAdapter` |
| `BulkTransports` | an adapter with either of the two, from attach on | both |
| `FirmwareLoader` | the adapter on its USB port, the download of a KUSB-488B's firmware | |
| `Diagnostics` | what gpibctl encodes into a LineStatus handle and handleLineStatus decodes | |
| `DextService` | services and user clients over the port and the loader | `FirmwareLoader`, `Diagnostics` |
| `ClientLib` | the threads of one libgpib process over the table the broker gives access to | `DescriptorTable` |
| `LibCalls` | what each library call is made of and what status it leaves | |
| `MC...` | instances for TLC | |
| `...Proofs` | theorems, see section 4 | |

### Broker

| variable | in the code |
|---|---|
| `attached` | the IOService registry order that `copy_service_for_board` walks |
| `table` | `descriptors_` of each adapter's GPIBBoard |
| `conn` | `g_conn[]` |
| `queue`, `running` | `g_board_queue[]`: the blocks waiting; the request executing, between its driver call and its reply |
| `descs` | `gpibd_session.descs`, as counts, one client's list per session |
| `reap`, `peer` | the `list` local of `session_reap` and where it is |
| `held` | the (board, handle) pairs a client has been told and will use |

A request is two steps, the driver call (`Call`, `CallFails`, `Answer`) and what
follows it (`Finish`), because that is the window in which a client can die, a
reaper take its list or an adapter go. `Reached` folds the dead-connection
retry (353-365) into the call. `CallFails` is a request without an adapter or
without a user client (IOServiceOpen fails) and one the driver answers with an
error of its own. The reaper is `ReapBegin` (it takes the list under the lock),
`ReapNext` (`dispatch_sync`), its block and `ReapEnd` (`free`). The block
(`ReapRuns`) crosses the entry off whatever happens; the driver carries out the
close (`ReapClose`) or refuses it (`ReapRefused`), which it may well do always:
the reaper passes no output structure (gpibd.c:118-120) and the dispatch table
asks for one (GPIBUserClient.cpp:43). What DriverKit makes of that is decided
outside this repository, so both are possible; `Refusals` = FALSE leaves out what
the driver and IOServiceOpen may refuse, for the runs about something else. `Submit` has the client name
handles it holds, as libgpib does; bytes, sizes and every request that neither
opens nor closes are one operation, "use". Each slot remembers who opened it
over which board, and its `fate`: the broker that recorded it has exited, or its
close was refused the reaper. The driver stores none of this: it is history for
the properties.

### GpibBoard

`cur` is the operation in progress and the transport call it is at, `todo` the
command bytes `sendCommandBytes` still has to send, `bus` what the bus and the
adapter's core have come to: who is addressed, serial-poll mode, REN,
controller in charge, and whether the core is latched. `Handshake` sends one
byte; at any point `CommandsFail` may end the call, also after the last byte,
so a failed operation leaves any prefix of its string in force. `CommandsDone`
is sendCommandBytes returning 0, which proves nothing: the Agilent transport
does not look at the status it asks for (Agilent82357Transport.cpp:371-380), the
NI one drops what is beyond 16 bytes. `cut` records that the string before a
transfer was passed off as sent. `patient` is TNONE (GPIBBoard.cpp:24): the
transfer or wait has no deadline. One operation at a time: the dext serves its
calls one after the other. `Effect` and
`ResetCore` are the bus and the chip, which are not in this repository; they
follow how the code relies on them (and IEEE-488 for what a command byte does).

### KusbTransport

`call` is the call in progress: what it was asked, the bytes it is through
with (`done`) and what it will return. `engine` and `stalled` are the
adapter's: the transfer it has, and the pipes it has halted. They behave as
KUSB488BTransport.h:80-90 describes: an engine keeps a transfer until its
status has been read or an abort arrives, reports it to whoever asks, and a
failure halts its pipe. That an engine which still has a transfer ignores a new
one is how that description is read; `clean` marks the calls that begin with
nothing left over, and what is promised of bytes and counts is promised of
those. The abort and the requests that clear the pipes may be lost, and nobody
looks (583, 654-660, 673-678): `RecoverFirmwareEngine(lost)` clears what does
arrive, `call.lost` remembers that one did not. `patient` is TNONE, for which
USB has no timeout (`msFromUsec`, 89-94). `bus` records the bytes that crossed since the call began, by number.
`Init` is `attach`: anything may be left of the session before, and the
bring-up follows. The polling loops are one action per outcome; the deadline
may pass at any poll.

### BulkAdapter, NiTransport, AgilentTransport, BulkTransports

A call of either transport hands a request to the bulk-out pipe (`BulkOut`) and
takes what the bulk-in pipe has next (`BulkIn`). The adapter executes its
`requests` in order (`FirmwareMoves`, `FirmwareFinishes`) and queues its
`responses`; both belong to the firmware, which is outside this repository, and
its queues are bounded by `MaxPending` and `MaxStale`. Nothing ties an answer
to a request but what the code compares: the NI transport looks at the block's
kind for a read only (`NiReadIn`) and takes anything for the status of a command
or a write (`NiStatusIn`), drains the answer to a register write unread and goes
on without one (`NiRegisterIn`, `NiRegisterUnanswered`); the Agilent compares the first byte
of a register answer (`AgilentRegisterIn`), takes any data for a read's
(`AgilentReadIn`), and asks for the outcome of a command or a write with a
control request as soon as the bytes are handed over, whether or not they have
crossed the bus (`AgilentStatus`). Its abort (`SendAbort`) may be lost, and
nobody looks. `NiCount` is how readData of the NI transport puts a count
together from data blocks and the trailing byte. `clean` is again whether a
call found the pipes empty; `took` records what kind of answer it took.

### FirmwareLoader, Diagnostics, DextService

`Program` is the string of vendor requests a download sends, cut by `Chunk` as
the code cuts the images; `Obey` is what a request does to the adapter's
memories (`image`), which is external; a failed request (`SendFails`) may have
arrived or not. `usb` is what the port shows, `Arrives` and `DeviceLeaves` what
plugging does. A service (`svc`) goes through `Match`, `OpenInterface`,
`OpenDevice`, `Attach`, `Publish`, each with the failure the code handles
there, `Stop` and `Free`; a user client through `NewUserClient`, `StartClient`,
`StopClient`, `FreeClient`. `iface` and `device` are the two USB sessions and who has them.
What DriverKit contributes: it frees a service whose Start failed without
calling Stop (kusb_488b.cpp says so), and no service before its user clients
have passed their Stop on. `Dispatch` is ExternalMethod and GPIBUserClient_Dispatch: `Sized` the comparison of
input and output sizes with the dispatch table (GPIBUserClient.cpp:40-59),
`Handle` what a handler makes of its input; for LineStatus
that is `Meaning` of the handle. Which board operation a selector stands for is
`GpibBoard`'s subject.

### ClientLib and LibCalls

`ClientLib`: one process, one board. `reachable` and `boardHandle` are
`g_slots[b].reachable` and `g_board_handles[b]`; a call is split at every broker
round trip and at every access to the two, which are taken under the lock one at
a time. `table`, `online` and `plugged` are the driver as the broker shows it:
`Broker` has the same table with the queues and connections in between. A request
may come to nothing (`Gone`, `Close`) or be carried out and its reply be lost
with the broker (`Unanswered`, client.c:77-81); slots nobody knows of after that
are marked `Lost`; these and the ones other processes have open are `MaxStrangers` at
most. A scoped call is one of ib_488_2.c's that open a device, use it and close it
(DevClear, Send, Receive, ReadStatusByte, ...).

`LibCalls`: what the calls of the library report. `Body` gives each call's string
of primitive calls, `Outcomes` how each may end, and `Rest` what follows it (a
device that cannot be opened is passed over, a file transfer stops at an error,
a search when it has found something). Every primitive writes `ibsta`, `iberr` and
`ibcntl` one after the other without a lock (`SetIbsta`, `SetIberr`,
`SetIbcntl`) and then the thread's own copy (`mirror`). `Store` is ibrdf writing
out as many bytes as the process-wide `ibcntl` says by then. A write that reports
no error may have taken any part of its buffer (`Written`), as the Agilent's do
(Agilent82357Transport.cpp:433-447); `moved` counts what was taken, `missed`
what was not.

## 3. Runs

| run | question | bounds | result |
|---|---|---|---|
| `broker_faults` | are the books complete and do they lead to the descriptors, whatever happens? | 2 clients, 2 boards, 2 adapters, one usable slot each, session lists of 2, 2 faults of any kind, requests and closes refused at will, clients die with requests outstanding | holds, 0.9 million states |
| `broker_clean` | does the broker implement the descriptor service, answer, and reap who has left? | 2 clients, 2 boards, 2 slots each, lists of 3; requests and closes refused at will; clients leave between requests, no faults | holds, 0.18 million states |
| `broker_killed` | gpibd.c:12-14 for a client killed in mid call | one board | **violated**: an open that is in the driver when its client dies is listed in a session nobody reads again |
| `broker_shift` | gpibd.c:18-20, same adapter, same queue | 2 boards, 2 faults | **violated**: after an unplug two boards can be connected to one adapter |
| `board_ops` | do data, clears, REN and recovery stay right whatever fails? | 2 instruments, one descriptor, three raw command strings, every transport call failing at will, cut command strings passed off as sent, with and without a deadline | holds, 1.0 million states |
| `board_poll` | GPIBBoard.cpp:469 | the same, one raw string | **violated**: a poll whose command string fails after SPE is not torn down |
| `kusb_transfers` | what crosses the bus and what is reported of it, whatever fails? | 3 bytes per call, command transfers of 2, chunks of 2 or none; requests, bulk transfers, polls, the engine and the clean-ups fail at will, with and without TNONE | holds, 0.8 million states |
| `bulk_transfers` | which outcomes of the NI and the Agilent transport are true, and when do pipes fall out of step? | transfers of 1 and 4 bytes, packets of 3, command packets and data blocks of 2; one request and one stale answer in the adapter; every transfer and control request fails at will | holds, 0.7 million states |
| `lifecycle` | who holds which session, which pointer outlives what, what firmware runs, whatever step fails? | the three kinds of adapter, 2 plugs, 2 services, 1 user client; images of 4, 2 and 3 bytes in chunks of 2 | holds, 0.28 million states |
| `client_threads` | do racing threads, other processes, lost replies and a replug leave uds and descriptors right, and does every call return? | 2 threads, one device each at a time, 3 slots, one of them at a time another process's or lost, one replug | holds, 1.4 million states |
| `client_replug` | client.c:13-14, a replug recovers without a restart | 1 thread, 2 slots, one replug | **violated**: the process keeps its board handle and opens devices on an adapter it never brings online |
| `lib_calls` | does a thread see its own outcome, and do files arrive whole? | a thread that makes every call and one that writes in between; files of 0, 1 and 3 bytes, buffers of 2, inline limit 1, lists of 2, two polls of WaitSRQ; writes take any part of their buffer | holds, 4.2 million states |

Two clients are enough for one to take what another has, two boards for an
index to shift, one slot per table for a handle to be reused at once (two in
the run where clients may not die in mid call), and two faults for a replug, a
restart beside a shift, or two adapters going. `MaxPending` = 1 gives each client one
request at a time; several threads of one client differ from several clients
only in sharing a session, which `broker_faults` reaches through the reaper.
Three bytes make two chunks, the second of them short, and let a read be
fetched in pieces and cut off by its buffer. In `bulk_transfers` four bytes are more
than a packet takes, a command of four more than a command packet, three bytes
two blocks of which the second sticks out of the buffer, and one answer left over
is enough for every later call to be one off. In `lifecycle` each image has a
whole and a last chunk, two services let one still go down while the next
starts, and a second plug brings an adapter that met a half-done download.
Two threads are enough to race for the board's handle, three slots for both to
open it and still have a device; in `lib_calls` the second thread makes the
calls that write every one of the globals. The inline limit below the buffer
size is as in the code (4080 and 4096).
`client_threads` has no thread close the board itself (`BoardCloses`): with it
`UdsReachOwn` fails, the hazard at ib_traditional.c:93.

Deadlock is checked in every run but those of the broker (when every client has
left there is nothing to do), `bulk_transfers` (an attach that failed is the
end, and a wait without a timeout may be) and `lifecycle` (the port is empty and
no plug is left).

Each property of a passing run is shown to have teeth by a mutant: a definition
with one plausible mistake in it, under which TLC finds the property violated
(the operators marked "Mutant of ..." and the list in `PROJECT.json`).

What some properties deliberately do not claim, because the code does not keep
it: `OwnOutcome` exempts ibeos (two answers, one status) and the codes of
simple_handle_call; `FileWhole` exempts a transfer into which another thread's
`ibcntl` has come and allows for what the driver said it did not
take; `DataFlowsWhereAddressed` exempts a transfer whose own addressing the
adapter had cut short and reported as sent;
`LeavesClear` exempts a call whose clean-up was lost; `NoneLost` exempts the
descriptors whose open lost its reply or whose close came to nothing;
`Accounted` exempts those whose close the reaper was refused and those of a
broker that has exited, and `LeaversAreReaped` the refused ones; `SessionsOwned` speaks of the KUSB-488B for the interface,
because the services of the NI and the Agilent return from a failed Start with
it open; `CountsAreTrue` of the bulk transports exempts a last data block that
sticks out of the buffer, which the NI transport counts a block too few, and the
Agilent's write whose XFER_STATUS went unanswered, which reports everything as
written. Section 5 lists these.

### Fairness

`Broker`: libdispatch runs the blocks it is given (weak fairness of each board's
next block, of the end of each request, and of each reaper). A wait without a
timeout owes no answer (`FinishWait` is not fair) and neither clients nor faults
owe anything. `GpibBoard`: a transport call returns because it has a deadline, which
is weak fairness of `Step`. A transfer, the status byte of a poll and ibwait have
none under TNONE (GPIBBoard.cpp:24): these (`Untimed`) owe nothing, and
`OperationEnds` says that an operation ends unless it stays in one.
`KusbTransport`: USB transfers time out and polls have deadlines, so the host
goes on (`HostStep`), except in a bulk transfer under TNONE, which USB is told not
to time out (KUSB488BTransport.cpp:89-94): `Untimed` again. The engine and the
instruments owe nothing. `BulkTransports`: the transport's own
steps and its timeouts (`TransportStep`), but no failure of a transfer that
could come to the rescue (`InFails`) and nothing of the adapter; a call with
TNONE may wait for ever. `DextService`: DriverKit takes each step of a start or a
termination that is due and stops the clients of a service that goes, and the
loader's control requests end, at the latest by their timeout; clients, ports
and requests owe nothing. `ClientLib`: a thread runs on and each request is
answered, refused or loses its reply; that the broker answers all but untimed waits is
what `RequestAnswered` shows of `Broker`. `LibCalls` has no liveness of its own:
its requests are `ClientLib`'s.

## 4. Proofs

All theorems hold for every value of the constants that the named assumptions
allow; TLC evaluates each assumption in a run. None of the invariants below is inductive as
it stands, and what each proof adds says why the code keeps it.

**`BrokerProofs`** (`BrokerTypeCorrect`: TypeOK, `NoneForgotten`: Accounted,
`BooksLeadHome`: RoutedHome; for every number of clients, adapters, boards and
slots), from `TableAssumption`, `BrokerAssumption` and `SentinelAssumption`
(the stand-ins for "nothing" are no adapter, no descriptor and no request). The
inductive invariant `Books` says of each slot at once that it is in the books
and that its board's connection leads to it, because a reaper's close drops an
entry on the strength of the connection it resolves; and it adds two facts: when
the driver has executed a close and the broker has not yet crossed the handle
off, no slot opened on that board has this handle any more (`CloseTookEffect`),
and no reaper's list is in use before the reaper begins (`ReapListUnused`). One
lemma per action that touches the books; `QuietStep` covers the rest. A slot whose
close a reaper was refused, or whose broker has exited, is in no books, and
`NoneForgotten` says that these are the only ones: whether or not the driver
accepts a reaper's close, no other way of losing a descriptor exists.

**`BrokerServiceProofs`** (`HandlesAreOnesOwn`:
HeldIsOwned, `QueuesShareNoAdapter`: OneQueuePerAdapter, `BrokerIsDescriptorService`:
`Spec => ImplementsService`), from the same assumptions and from what
each theorem names of the environment. All but QueuesShareNoAdapter need clients that do
not die with a request in flight (`~KilledMidCall`): gpibd.c's promise is broken
otherwise, and `broker_killed` shows how. QueuesShareNoAdapter allows kills and restarts
but no replug, and `broker_shift` shows that replugs do break it.
HandlesAreOnesOwn needs that no adapter is
pulled and the broker not restarted (`Faults` at most `{"plug"}`), since a
handle outlives neither; the refinement needs adapters that stay, since its
descriptors are (board, slot) pairs and a board's adapter is the one at its index.
The driver may refuse whatever it likes, reapers' closes included, so the service that
is implemented is one of safety: what is given back is given back by its owner or
after the owner left. That it is given back in the end is `LeaversAreReaped`. Four
invariants carry them all. `ReapBlocks`: a reaper has one block queued at most, and
the entry it is for is still on its list (this one holds in every instance).
`LeavesQuietly`: a departed client has nothing in flight. `Ledger` is the
broker's bookkeeping, pair by pair: a handle is in the client's list once at
most, is on it as long as the slot is the client's or its close is between driver
and reply, is closed once at most, and is not held any more once a close of it is
queued. `Settled`: a connection leads to the adapter with the board's index. The
refinement maps a slot to the client that opened it (`OwnerOf`); a driver open is the
abstract Open, a driver close Close or, after the owner left, GiveBack; a refused
one is a stutter (`ReapRefusedRefines`). What a client `holds` goes up with the reply to
its open (Learn) and down when it asks for the close (LetGo), and Close needs that it
has: without this a close that somebody else caused would pass for the owner's.
Ledger is what makes the last two differ in the right way: a close in the driver
is the owner's or its reaper's, never a stranger's.

**`GpibBoardProofs`** (`BoardTypeCorrect`, `DataArrives`:
DataFlowsWhereAddressed, `OthersUndisturbed`: OnlyTargetDisturbed, `RenIsKept`:
RenKept, `LatchIsHidden`: the action property LatchHidden; for every set of
instruments and of raw strings), from `BoardAssumption` and `IdleAssumption`.
What is addressed when data flows was decided bytes earlier, so the invariant
follows the command string: `Way` says, for each string, how much of it is still
to be sent and what the part that is out has done to the bus, starting from
anything, since a failed operation may have left anything addressed. `Placed`
says which operations are ever at which transport call, `AfterReset` that a
recovery has unlatched the core and let go of REN, `RenHeld` that REN is right
or a recovery still has to raise it or a call to the adapter failed. `DataArrives`
does not trust the transport's OK: a string that was cut short and passed off as sent
is remembered (`cut`) until the transfer behind it is over, and what the theorem
says is that nothing else sends data to the wrong instrument, in particular no left-over
of an earlier operation.

**`KusbProofs`** (`TransportTypeCorrect`, `PrefixOnTheWire`: WireIsPrefix,
`SentIsWhole`: OkIsWhole, `CountsTold`: CountsAreTrue, `NothingLeftBehind`:
LeavesClear; for every message length, command limit and set of chunk sizes),
from `TransportAssumption` and `NoneAssumption`. `SendSound` and `ReadSound` tie
three records of the same transfer together: the call's (`done`, `n`), the
engine's (`from`, `moved`, `given`) and the bus; they only hold of calls that
began clear, while `EngineSound` and `CallSound` hold of all. `LeavesClear` is the
same for a call that ends: everything is clear or a clean-up of it was lost.

**`ClientProofs`** (`ClientTypeCorrect`, `NoDeviceLost`: NoneLost,
`FewBoardsOpened`: FewBoardDescriptors; `UdsStayTrue`: UdsReachOwn, as long as
no thread closes the board itself; for every number of threads and slots), from
`TableAssumption` and `ClientAssumption`. `Locals` says what each phase of a call
implies, `CallsOwn` that a call's ud is its thread's, `GoneIsEmpty` that an
absent adapter has no descriptors. `Kept` adds to UdsReachOwn the board's own
handle, in the cache and in a call about to cache it, and that a scoped call's
device is not among the ones its thread holds. Slots nobody knows of (`Lost`: the
reply to an open was lost, or nothing came of a close) are outside NoneLost, and
inside everything else: they are never reused or taken for a ud. The count behind
FewBoardDescriptors is not inductive: `Few` counts, besides the open board
descriptors, the threads that may still open one, which the cached handle brings
down to those already inside open_board.

**`LibCallsProofs`** (`LibTypeCorrect`, `ThreadsKeepTheirOutcome`: OwnOutcome,
`TransfersAreWhole`: FileWhole, with what the driver did not take and did not say
accounted for; for every number of threads, file length, buffer
size and list), from `LibAssumption`. Both properties hold between calls only.
`Plan` says what a call in progress still has to do, `Failure` that a failure is
in the status as soon as it is known, `Count` how an answer's count relates to
what was left, `Bytes` where the bytes of a file are at each point, `Recorded`
how far the thread is with writing its status into the globals, provided nobody came between.

**`DextServiceProofs`** (`DextTypes`: TypeOK, `SessionsHaveOwners`:
SessionsOwned, `BoardsOutliveClients`: NoDangling, `WorkingAdapterIsWhole`:
FirmwareWhole, `DiagnosticsAsAsked`: AsAsked; for any number of services and
user clients, images and chunks of any length and any requests), from
`LoaderAssumption`, `ServiceAssumption` and `AskedAssumption`. `Retained` is the
reason the borrowed pointer is safe: a client gives it up before it lets its
service go, and a retained service has its board. `InterfaceHeld` lists the
states in which a service has the interface open; `Current` says that a service
nobody has told of a departure belongs to the adapter on the port. `Firm` is the
invariant of the download. `Before(n)` is what the first n - 1 requests make of a fresh
adapter, and `Underway` says that the adapter a download is in progress for is exactly
that; `ProgramOf` finds each request in `Program`, `ReachOf` is the arithmetic of
the chunks, `ObeyNext` leads from one request to the next. After a failure only `InOrder`
remains: no byte of the 8051's code is there before the other two images are
complete, so an adapter that comes up, for which the code suffices, has all three.
`Untouched` says that only the loader of the adapter on the port writes to it, and
`ServesReady` that no service works with one that has no firmware, without
which resetDevice could bring a half-loaded adapter back as a working one.

Its last part (`OrdinaryReadsLines`, `PeekArrives`, `PokeArrives`,
`ChunkArrives`): the encoding of gpibctl and the decoding of handleLineStatus fit
together for every operand, and no ordinary handle is taken for a diagnostic.

**`BulkProofs`** (`BulkTypeCorrect`: TypeOK, `OkTransfersAreWhole`: OkIsWhole,
`ReportedCountsAreTrue`: CountsAreTrue, `AnswerKindsChecked`: IdsChecked,
`StepIsKept`: SyncKept, `AbortedReadsStop`: AbortStopsAdapter; for packets, data
blocks, command limits and queues of any size and any set of failures), from
`BulkAssumption` and `NiAssumption`. None of the properties is inductive, since
they speak of calls that are over. `RequestsSound` follows the one request of a
call that moves its bytes: what it has moved is what has crossed, and EOI with it.
`Kept` says that a call which found the pipes empty and has had every answer is in
step (`InStep`): before its request goes out nothing is there, and while it waits
exactly one thing is, its request or the answer to it, which tells what crossed.
`CallSound` ties the phase of a call to its operation and results. The count of
`readData` rests on `Counted`, arithmetic on blocks of any size.

**Progress** (`OperationsRunDown` in `GpibBoardProofs`, `CallsRunDown` in `KusbProofs`,
`BulkProofs` and `ClientProofs`). Behind each of `OperationEnds`, the two `CallEnds` and
`CallReturns` is a natural number, a sum over what the operation has left, of which the
theorem says that every step of the operation makes it strictly smaller and (for the three
kinds of call) that no other step changes it. It is what a loop of retries would break:
`Effort` weighs the phases of a board operation so that the recovery and its one retry
(`Spent`: a retried operation does not recover again) still go down; `Left` counts the
bytes a KUSB call has not moved, so it shows that no chunk is empty; `ToGo` counts register
requests; `Ahead` weighs a thread's way through open_board, which a replug in the middle
may fail but not lengthen. `ReadsAreAnswered` adds that the KUSB host never polls for a
read that is not there. What these theorems leave to TLC is that fairness makes
the steps happen, which is about ENABLED.

Model-checked only is all liveness: `RequestAnswered`, `LeaversAreReaped`, `GoneIsFreed`, and of `OperationEnds`, `CallEnds` and `CallReturns`
the step from progress to the end.

Out of the prover's reach: liveness under fairness, and induction over data
(what `ForEach` or `Program` build is used through what its definition says of
each element). No module declares a RECURSIVE operator.

## 5. What is not modelled, and what no run shows

Not modelled: the bytes of requests and replies and their packing into XPC
dictionaries, memory exhaustion, logging; the IORegistry beyond the order of
services; the line control and raw register access of the KUSB transport and its
register pipeline (1072-1396, switched off by `kUseFirmwarePipeline`); the bring-up
constants of the chips; the parameters of library calls (timeouts, EOS,
secondary addresses); the app, the build, the packaging; the tools, which are bench scripts, except
for gpibctl's diagnostics.

Observed in the code, outside what a run is about:

- **One status per board.** Every operation of every descriptor of a board
  overwrites `ibsta_`, and ibwait without SRQ in its mask answers from it
  (GPIBBoard.cpp:801-807): with two descriptors in use it is the other one's.
- **The reaper's close.** session_reap passes no output structure and drops the
  result (gpibd.c:117-120); the dispatch table asks for a GPIBStatusOut
  (GPIBUserClient.cpp:43). If DriverKit holds it to that, no descriptor of a
  departed client is ever closed.
- **A restarted broker** starts with empty sessions while the driver's slots stay
  as they were: what its predecessor relayed is never closed when the client leaves.
- **A reply lost after the driver's work.** broker_call returns an error if the
  connection breaks at any point (client.c:77-81). ibdev then returns -1 with the
  descriptor open, and the caller has no ud to close.
- **Transports that report what they did not do.** The Agilent's sendCommandBytes asks
  for the status and returns OK whatever it says, its writeData
  returns OK with a short count (Agilent82357Transport.cpp:433-447), which
  GPIBBoard.cpp:310-326 makes CMPL, and ibwrtf goes on with the next buffer. The
  NI's command request holds 16 bytes, the rest is dropped and OK returned, and SendSetup can make a
  string of 31.
- **Lost clean-ups.** The KUSB transport ignores whether its abort and its pipe
  requests arrived (KUSB488BTransport.cpp:583, 654-660, 673-678): a call whose
  clean-up was lost may leave a transfer armed.
- **A failed status poll is not recovered from.** recoverFirmwareEngine is to be
  called "before any fresh firmware transfer" (KUSB488BTransport.h:80-90); a
  failure that pollStatus reports returns without it (KUSB488BTransport.cpp:981,
  1036). The next call then begins over what is left; `clean` in `KusbTransport`
  marks the calls that do not.
- **Statuses of the library.** simple_handle_call passes ERR on with iberr 0,
  although its comment says "status write already sets iberr"
  (ib_traditional.c:41-42). ibonl and SendLLO ignore whether their request
  failed and report the zeros they started from. The 488.2 calls that open and
  close a device leave the status of ibonl, not of the use. ibeos sets two
  statuses and returns both or'ed. ibfind("") and a bad board index return -1 and
  leave the status as it was, although the comment says EDVR (79).
- **File transfers.** ibwrtf reads 4096 bytes at a time and ibwrt takes 4080: a
  file of more than 4080 bytes fails with EARG. An empty file returns CMPL and
  leaves the globals alone. ibrdf reads the process-wide `ibcntl`, and goes on for
  ever with an adapter that answers successful reads of no bytes, as the
  Agilent transport does after a timeout (`AgilentReadEmpty`).
- **Lists.** SendSetup truncates a list to its buffer of 32 bytes without an
  error (ib_488_2.c:131-143).
- **EOS flags.** REOS, XEOS and BIN are 0x400 and above and kept in eight bits
  (GPIBBoard.cpp:185): they are lost, and no transport ever sees them.
- **NI and Agilent services** return from a failed Start with the interface open,
  which nobody can open again (the KUSB-488B's closes it on every path).
- **Line polarity.** readBusLines of the Agilent transport sets a line's bit when it is
  *not* asserted (Agilent82357Transport.cpp:523-535), and GPIBBoard::wait takes
  the bit of SRQ for asserted (GPIBBoard.cpp:817).
- **TNONE.** A KUSB bulk transfer then has no USB timeout (KUSB488BTransport.cpp:89-94).
  ibwait for SRQ without a timeout polls for ever (GPIBBoard.cpp:812), and
  everything queued for the board, reaps and board listings included, waits with it.
- **The board's ud.** ibonl(board, 0) closes the board's descriptor and the
  process keeps the handle (ib_traditional.c:93): with `BoardCloses` = TRUE
  `UdsReachOwn` fails.
- **A stale handle after a replug.** gpibd.c:361 retries a request on a fresh
  connection, whose driver may have given the same handle to somebody else.

## 6. Plan

Done: the broker and its service, the board, the three transports, the loader,
the services and their user clients, the client library and its calls, and the
proofs of section 4.

Left, in order:

1. `ClientLib` over `Broker` instead of over one table: a stale handle meets
   another client's descriptor.
2. The board over a transport that keeps the promises of `KusbTransport` or
   `BulkTransports`, instead of one that may do anything.
3. `Codecs`: ud packing, timeout codes, EOS flags.
4. The register pipeline of the KUSB transport, should it be switched on again.
