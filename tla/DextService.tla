---------------------------- MODULE DextService ----------------------------
(***************************************************************************)
(* The life of the driver's services and of their user clients             *)
(* (driver/devices/*/kusb_488b.cpp, ni_usb.cpp, agilent_82357.cpp and      *)
(* driver/userclient/GPIBUserClient.cpp) on a port where adapters come and *)
(* go, with the firmware loader that a KUSB-488B needs first.              *)
(*                                                                         *)
(* DriverKit decides when a service is started, stopped and freed: it      *)
(* frees a service whose Start failed without stopping it, and no service  *)
(* before its user clients have passed their Stop on.  Service identities  *)
(* stand for the objects, so that one may still be going down while the    *)
(* next one starts.                                                        *)
(***************************************************************************)
EXTENDS FirmwareLoader, Diagnostics

CONSTANTS
    Services,     \* identities of service objects
    UserClients,  \* identities of user client objects
    Leaked,       \* holds a session nobody will ever close
    Asked,        \* what callers may ask of LineStatus
    Inline,       \* kGPIBMaxInlineRead
    Sizes,        \* lengths clients may name in a request
    Failures      \* which steps of a Start may fail, of "open", "attach", "board"

ASSUME ServiceAssumption ==
    /\ Nobody \notin Services \cup {Loader, Leaked}
    /\ Loader \notin Services /\ Leaked \notin Services /\ Loader # Leaked
    /\ Sizes \subseteq Nat /\ Inline \in Nat

(* What gpibctl has a command for, and the handles of a 64-slot table.     *)
ASSUME AskedAssumption ==
    \A m \in Asked :
      \/ m \in {Recover, Reenumerate}
      \/ m.op = "lines" /\ m = Lines(m.handle) /\ m.handle \in BoardHandle .. 63
      \/ m.op = "peek" /\ m = Peek(m.reg) /\ m.reg \in Nat
      \/ m.op = "poke" /\ m = Poke(m.reg, m.val) /\ m.reg \in Nat /\ m.val \in Nat
      \/ m.op = "chunk" /\ m = SetChunk(m.n) /\ m.n \in Nat

VARIABLES
    svc,     \* the services
    iface,   \* who has the USB interface open
    uc,      \* the user clients
    reply    \* what the last dispatch did

vars == <<usb, plugs, image, device, ld, svc, iface, uc, reply>>

(* `gone`: DriverKit is terminating it, its provider having left.          *)
NoService == [phase |-> "none", kind |-> "kusb", gone |-> FALSE,
              transport |-> "none", board |-> FALSE, online |-> FALSE]

Service == [phase : {"none", "starting", "opened", "claimed", "attached",
                     "running", "failed", "stopped"},
            kind : {"kusb", "ni", "agilent"}, gone : BOOLEAN,
            transport : {"none", "created", "attached", "detached"},
            board : BOOLEAN, online : BOOLEAN]

(* `of`: the service it retains; `board`: its borrowed board pointer, by   *)
(* the service whose board it is.                                          *)
NoClient == [phase |-> "none", of |-> Nobody, board |-> Nobody]

NoReply == [kr |-> "none"]

Starting == {"starting", "opened", "claimed", "attached"}

Init ==
    /\ LoaderInit
    /\ svc = [s \in Services |-> NoService]
    /\ iface = Nobody
    /\ uc = [u \in UserClients |-> NoClient]
    /\ reply = NoReply

-----------------------------------------------------------------------------
(* Start.                                                                  *)

(* DriverKit creates a service for an interface that none is using.        *)
Match(s) ==
    /\ usb.id # "none" /\ svc[s] = NoService
    /\ \A t \in Services : svc[t].gone \/ svc[t].phase \in {"none", "failed"}
    /\ svc' = [svc EXCEPT ![s].phase = "starting", ![s].kind = usb.kind]
    /\ UNCHANGED <<usb, plugs, image, device, ld, iface, uc>>

Fail(s) == svc' = [svc EXCEPT ![s].phase = "failed"]

(* A device that still shows the identity of an adapter without firmware   *)
(* is refused before anything is opened.                                   *)
Refuse(s) ==
    /\ svc[s].phase = "starting" /\ usb.id = "loader" /\ ~svc[s].gone
    /\ Fail(s)
    /\ UNCHANGED <<usb, plugs, image, device, ld, iface, uc>>

OpenInterface(s) ==
    /\ svc[s].phase = "starting"
    /\ usb.id # "loader" \/ svc[s].gone
    /\ \/ /\ ~svc[s].gone /\ iface = Nobody
          /\ iface' = s
          /\ svc' = [svc EXCEPT ![s].phase = "opened", ![s].transport = "created"]
       \/ /\ svc[s].gone \/ iface # Nobody \/ "open" \in Failures
          /\ Fail(s) /\ UNCHANGED iface
    /\ UNCHANGED <<usb, plugs, image, device, ld, uc>>

(* The first half of attach: the transports that send control requests     *)
(* open the device, too.                                                   *)
OpenDevice(s) ==
    /\ svc[s].phase = "opened" /\ ~svc[s].gone
    /\ svc[s].kind # "ni" => device = Nobody
    /\ svc' = [svc EXCEPT ![s].phase = "claimed"]
    /\ device' = IF svc[s].kind = "ni" THEN device ELSE s
    /\ UNCHANGED <<usb, plugs, image, ld, iface, uc>>

(* The second half: pipes, buffers and the bring-up of the chip.           *)
Attach(s) ==
    /\ svc[s].phase = "claimed" /\ ~svc[s].gone
    /\ svc' = [svc EXCEPT ![s].phase = "attached", ![s].transport = "attached"]
    /\ UNCHANGED <<usb, plugs, image, device, ld, iface, uc>>

Close(s) == iface' = IF iface = s THEN Nobody ELSE iface

(* Mutant of StartFails: the interface stays open, as DriverKit does not   *)
(* call Stop.                                                              *)
StartFailsOpen(s) ==
    /\ svc' = [svc EXCEPT ![s].phase = "failed"]
    /\ UNCHANGED iface

(* The KUSB-488B's service detaches and closes on every failure after its  *)
(* Open, the other two return as they are.                                 *)
StartFails(s) ==
    IF svc[s].kind = "kusb"
    THEN /\ svc' = [svc EXCEPT ![s].phase = "failed", ![s].transport = "detached"]
         /\ Close(s)
    ELSE Fail(s) /\ UNCHANGED iface

AttachFails(s) ==
    /\ \/ /\ svc[s].phase \in {"opened", "claimed"}
          /\ "attach" \in Failures \/ svc[s].gone
       \/ svc[s].phase = "opened" /\ svc[s].kind # "ni" /\ device # Nobody
    /\ StartFails(s)
    /\ UNCHANGED <<usb, plugs, image, device, ld, uc>>

(* The board is created, brought online whatever the bus says to it, and   *)
(* the service published.                                                  *)
Publish(s) ==
    /\ svc[s].phase = "attached"
    /\ svc' = [svc EXCEPT ![s].phase = "running", ![s].board = TRUE, ![s].online = TRUE]
    /\ UNCHANGED <<usb, plugs, image, device, ld, iface, uc>>

BoardFails(s) ==
    /\ svc[s].phase = "attached" /\ "board" \in Failures
    /\ StartFails(s)
    /\ UNCHANGED <<usb, plugs, image, device, ld, uc>>

-----------------------------------------------------------------------------
(* Stop and free.                                                          *)

Stop(s) ==
    /\ svc[s].phase = "running" /\ svc[s].gone
    /\ svc' = [svc EXCEPT ![s].phase = "stopped", ![s].online = FALSE,
                          ![s].transport = IF svc[s].kind = "kusb" THEN "detached" ELSE @]
    /\ Close(s)
    /\ UNCHANGED <<usb, plugs, image, device, ld, uc>>

(* free deletes board and transport.  The transport closes the device; the *)
(* interface is released, which does not end a session on it.              *)
Free(s) ==
    /\ svc[s].phase \in {"failed", "stopped"}
    /\ \A u \in UserClients : uc[u].of # s
    /\ svc' = [svc EXCEPT ![s] = NoService]
    /\ device' = IF device = s THEN Nobody ELSE device
    /\ iface' = IF iface = s THEN Leaked ELSE iface
    /\ UNCHANGED <<usb, plugs, image, ld, uc>>

-----------------------------------------------------------------------------
(* User clients.                                                           *)

(* NewUserClient of a published service; any type but 0 is refused.        *)
NewUserClient(u, s, type) ==
    /\ svc[s].phase = "running" /\ uc[u] = NoClient
    /\ type = 0
    /\ uc' = [uc EXCEPT ![u] = [phase |-> "created", of |-> s, board |-> Nobody]]
    /\ UNCHANGED <<usb, plugs, image, device, ld, svc, iface>>

(* GPIBUserClient::Start borrows the board of its provider.                *)
StartClient(u) ==
    /\ uc[u].phase = "created"
    /\ uc' = [uc EXCEPT ![u] =
                 IF svc[uc[u].of].board
                 THEN [phase |-> "running", of |-> @.of, board |-> @.of]
                 ELSE [@ EXCEPT !.phase = "failed"]]
    /\ UNCHANGED <<usb, plugs, image, device, ld, svc, iface>>

(* Mutant of Stopped: only the provider is let go.                         *)
StoppedHolding(c) == [c EXCEPT !.phase = "stopped", !.of = Nobody]

(* Mutant of Stopped: it does not pass the call on.                        *)
StoppedRetaining(c) == [c EXCEPT !.phase = "stopped", !.board = Nobody]

(* Stop drops the board pointer before it lets the provider go.            *)
Stopped(c) == [c EXCEPT !.phase = "stopped", !.of = Nobody, !.board = Nobody]

(* A client is stopped because its caller closed it or because the service *)
(* goes; requests may still be on their way to it.                         *)
StopClient(u) ==
    /\ uc[u].phase \in {"created", "running", "failed"}
    /\ uc' = [uc EXCEPT ![u] = Stopped(@)]
    /\ UNCHANGED <<usb, plugs, image, device, ld, svc, iface>>

(* It is freed once its Stop was passed on.                                *)
FreeClient(u) ==
    /\ uc[u].phase = "stopped" /\ uc[u].of = Nobody
    /\ uc' = [uc EXCEPT ![u] = NoClient]
    /\ UNCHANGED <<usb, plugs, image, device, ld, svc, iface>>

(* What a handler does with its input: the fixed structure must be there   *)
(* whole, a transfer out must bring the bytes it names, and a transfer in  *)
(* is cut to what a reply can carry.                                       *)
Handle(req) ==
    CASE req.sel = "Fixed" -> [kr |-> IF req.whole THEN "ok" ELSE "BadArgument"]
      [] req.sel = "LineStatus" -> [kr |-> "ok", asked |-> req.means,
                                    did |-> Meaning(HandleOf(req.means))]
      [] req.sel = "Write" -> IF req.given < req.length THEN [kr |-> "BadArgument"]
                              ELSE [kr |-> "ok", bytes |-> req.length]
      [] req.sel = "Read"  -> [kr |-> "ok", bytes |-> Min({req.length, Inline})]

(* `room`: the caller wants an output structure of the selector's size.    *)
Requests ==
    [sel : {"Fixed"}, whole : BOOLEAN, room : BOOLEAN]
    \cup [sel : {"LineStatus"}, means : Asked, room : BOOLEAN]
    \cup [sel : {"Write", "Read"}, given : Sizes, length : Sizes, room : BOOLEAN]

(* sExternalMethodChecks: before its handler sees a request, the sizes of  *)
(* its structures are compared with the table's; only what Write brings    *)
(* and what Read returns may have any size.                                *)
Sized(req) == (req.sel = "Fixed" => req.whole) /\ (req.sel # "Read" => req.room)

(* ExternalMethod and GPIBUserClient_Dispatch; a request to bring the      *)
(* board on- or offline or to re-enumerate has an action of its own.       *)
Dispatch(u, req) ==
    /\ uc[u].phase \in {"running", "failed", "stopped"}
    /\ reply' = IF ~Sized(req) THEN [kr |-> "BadArgument"]
                ELSE IF uc[u].board = Nobody THEN [kr |-> "NotReady"]
                ELSE Handle(req)
    /\ UNCHANGED <<usb, plugs, image, device, ld, svc, iface, uc>>

SetOnline(u, on) ==
    /\ uc[u].board # Nobody
    /\ svc' = [svc EXCEPT ![uc[u].board].online = on]
    /\ UNCHANGED <<usb, plugs, image, device, ld, iface, uc>>

-----------------------------------------------------------------------------
(* The port: whatever was started for the device that leaves is terminated,*)
(* and the sessions on it end.                                             *)

Leave ==
    /\ DeviceLeaves
    /\ svc' = [s \in Services |->
                 IF svc[s] = NoService THEN svc[s] ELSE [svc[s] EXCEPT !.gone = TRUE]]
    /\ device' = Nobody
    /\ iface' = Nobody
    /\ UNCHANGED uc

(* An NI adapter has its firmware, a KUSB-488B never, an Agilent may.      *)
Plug(p) ==
    /\ usb.id = "none" /\ plugs < MaxPlugs
    /\ p.kind = "kusb" => p.id = "loader"
    /\ p.kind = "ni" => p.id = "ready"
    /\ p.legacy => p.kind = "kusb"
    /\ plugs' = plugs + 1
    /\ Arrives(p)
    /\ UNCHANGED <<device, ld, svc, iface, uc>>

Unplug ==
    /\ usb.id # "none"
    /\ Arrives([usb EXCEPT !.id = "none"])
    /\ Leave
    /\ UNCHANGED plugs

(* The 8051 runs its firmware: the device drops off the bus and comes back *)
(* with the identity of a working adapter.                                 *)
ComesUp ==
    /\ usb.id = "loader" /\ image.cpu = "run" /\ image.ram = 0..(MainLength - 1)
    /\ Arrives([usb EXCEPT !.id = "ready"])
    /\ Leave
    /\ UNCHANGED plugs

(* resetDevice, asked for through a user client: the KUSB-488B leaves and  *)
(* comes back, with its firmware or without.                               *)
ResetDevice(u, id) ==
    /\ uc[u].board # Nobody /\ device = uc[u].board /\ usb.kind = "kusb"
    /\ plugs < MaxPlugs
    /\ plugs' = plugs + 1
    /\ Arrives([usb EXCEPT !.id = id])
    /\ Leave

-----------------------------------------------------------------------------
ServiceStep(s) ==
    \/ Refuse(s) \/ OpenInterface(s) \/ OpenDevice(s) \/ Attach(s) \/ AttachFails(s)
    \/ Publish(s) \/ BoardFails(s) \/ Stop(s) \/ Free(s)

ClientStep(u) == StartClient(u) \/ FreeClient(u)

Next ==
    \/ LoaderNext /\ UNCHANGED <<svc, iface, uc>> /\ reply' = NoReply
    \/ \E s \in Services : (Match(s) \/ ServiceStep(s)) /\ reply' = NoReply
    \/ \E u \in UserClients, s \in Services, type \in {0, 1} :
          NewUserClient(u, s, type) /\ reply' = NoReply
    \/ \E u \in UserClients :
          \/ ClientStep(u) /\ reply' = NoReply
          \/ StopClient(u) /\ reply' = NoReply
          \/ \E on \in BOOLEAN : SetOnline(u, on) /\ reply' = NoReply
          \/ \E req \in Requests : Dispatch(u, req)
          \/ \E id \in {"loader", "ready"} : ResetDevice(u, id) /\ reply' = NoReply
    \/ \E p \in Port : p.id # "none" /\ Plug(p) /\ reply' = NoReply
    \/ (Unplug \/ ComesUp) /\ reply' = NoReply

Spec == Init /\ [][Next]_vars

(* DriverKit takes every step of a start and of a termination that is due, *)
(* it stops the clients of a service that goes, and a control request that *)
(* the loader sends ends, at the latest by its timeout.                    *)
FairSpec ==
    /\ Spec
    /\ \A s \in Services : WF_vars(ServiceStep(s) /\ reply' = NoReply)
    /\ \A u \in UserClients :
          /\ WF_vars(ClientStep(u) /\ reply' = NoReply)
          /\ WF_vars(/\ uc[u].of # Nobody /\ svc[uc[u].of].gone
                     /\ StopClient(u) /\ reply' = NoReply)
    /\ WF_vars(LoaderNext /\ UNCHANGED <<svc, iface, uc>> /\ reply' = NoReply)

-----------------------------------------------------------------------------
Holders == Services \cup {Nobody, Loader, Leaked}

Bytes(n) == 0..(n - 1)

(* Every variable keeps to its kind of value.                              *)
TypeOK ==
    /\ usb \in Port /\ plugs \in 0..MaxPlugs
    /\ image.fpga \in 0..FpgaLength /\ image.configured \in BOOLEAN
    /\ image.ext \subseteq Bytes(ExtLength) /\ image.ram \subseteq Bytes(MainLength)
    /\ image.cpu \in {"boot", "held", "run"}
    /\ ld.phase \in {"none", "loading", "cleaning", "ended"}
    /\ ld.next \in DOMAIN Program
    /\ {ld.lost, ld.reset, ld.gone} \subseteq BOOLEAN
    /\ svc \in [Services -> Service]
    /\ {iface, device} \subseteq Holders
    /\ \A u \in UserClients :
          /\ uc[u].phase \in {"none", "created", "running", "failed", "stopped"}
          /\ {uc[u].of, uc[u].board} \subseteq Services \cup {Nobody}

(* kusb_488b::Start, "Every failure from here on MUST close the interface  *)
(* before returning": a KUSB-488B is never claimed by a service that is    *)
(* neither starting nor running, and the device is never left open by a    *)
(* service that was freed or by a loader that is done.  (The services of   *)
(* the other two adapters do return from a failed Start with the interface *)
(* open; for them only the second half holds.)                             *)
SessionsOwned ==
    /\ usb.kind = "kusb" /\ iface # Nobody =>
          iface \in Services /\ svc[iface].phase \in Starting \cup {"running"}
    /\ device \in Services => svc[device].phase # "none"
    /\ device = Loader => ld.phase \in {"loading", "cleaning"}

(* GPIBUserClient::Stop: the board pointer of a user client, borrowed      *)
(* without a retain, never outlives the board, in whatever order service   *)
(* and client are stopped, and with requests still coming in.              *)
NoDangling ==
    \A u \in UserClients : uc[u].board # Nobody => svc[uc[u].board].board

(* KUSB488BLoader: an adapter that presents itself as working has all      *)
(* three images, the bitstream properly ended, whatever failed on the way  *)
(* in earlier attempts; and a download that ended has not left the CPU in  *)
(* reset, unless a request to the reset itself failed.                     *)
FirmwareWhole ==
    /\ usb.kind = "kusb" /\ usb.id = "ready" => Whole(image)
    /\ ld.phase = "ended" /\ usb.id = "loader" /\ image.cpu = "held" => ld.reset

(* handleLineStatus does what the caller of LineStatus asked for: above    *)
(* all, it reads the lines, and nothing else, for the board's handle and   *)
(* for a descriptor's.                                                     *)
AsAsked ==
    reply.kr = "ok" /\ "asked" \in DOMAIN reply => reply.did = reply.asked

(* A service whose adapter has left is taken down to the end, at whatever  *)
(* point of its start the adapter left and with whatever clients.          *)
GoneIsFreed == \A s \in Services : svc[s].gone ~> svc[s].phase = "none"

=============================================================================
