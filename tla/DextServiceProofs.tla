-------------------------- MODULE DextServiceProofs --------------------------
(***************************************************************************)
(* Who holds what in DextService, for any number of services and user      *)
(* clients, any images and any requests; and that every diagnostic gpibctl *)
(* can ask for is the one the driver performs, and no handle of a          *)
(* descriptor, nor the board's own, is taken for one.                      *)
(***************************************************************************)
EXTENDS DextService, SequenceTheorems, TLAPS

Opened == {"opened", "claimed", "attached", "running"}

LoaderStates == [phase : {"none", "loading", "cleaning", "ended"}, next : Nat,
                 lost : BOOLEAN, reset : BOOLEAN, gone : BOOLEAN]

Client == [phase : {"none", "created", "running", "failed", "stopped"},
           of : Services \cup {Nobody}, board : Services \cup {Nobody}]

Typed ==
    /\ usb \in Port
    /\ ld \in LoaderStates
    /\ svc \in [Services -> Service]
    /\ uc \in [UserClients -> Client]
    /\ iface \in Services \cup {Nobody, Leaked}

(* A service that nobody has told of a departure is the one of the adapter *)
(* on the port.                                                            *)
Current ==
    \A s \in Services : svc[s].phase # "none" /\ ~svc[s].gone =>
      svc[s].kind = usb.kind /\ usb.id # "none"

(* The interface is open for a service that has opened it and not yet      *)
(* closed it; only of the NI's and the Agilent's has that failed, and only *)
(* theirs lose the session.                                                *)
InterfaceHeld ==
    /\ iface \in Services =>
         /\ ~svc[iface].gone
         /\ svc[iface].phase \in Opened \/ (svc[iface].phase = "failed" /\ svc[iface].kind # "kusb")
    /\ iface = Leaked => usb.kind # "kusb" /\ usb.id # "none"

DeviceHeld ==
    /\ device \in Services => svc[device].phase # "none"
    /\ device = Loader => ld.phase \in {"loading", "cleaning"}

(* A published service has its board.  A user client retains its service   *)
(* until it has given up the board pointer, and a service has its board as *)
(* long as it is retained.                                                 *)
Retained ==
    /\ \A s \in Services : svc[s].phase = "running" => svc[s].board
    /\ \A u \in UserClients :
         /\ uc[u].board \in {Nobody, uc[u].of}
         /\ uc[u].of # Nobody =>
              svc[uc[u].of].phase \in {"running", "stopped"} /\ svc[uc[u].of].board

Held == Typed /\ Current /\ InterfaceHeld /\ DeviceHeld /\ Retained

-----------------------------------------------------------------------------
(* Service s goes to another phase and stays what it is otherwise, as far  *)
(* as it matters; the other services do not change.                        *)
Moves(s, phase, board) ==
    /\ svc' \in [Services -> Service]
    /\ svc'[s].phase = phase /\ svc'[s].board = board
    /\ svc'[s].gone = svc[s].gone /\ svc'[s].kind = svc[s].kind
    /\ \A z \in Services \ {s} : svc'[z] = svc[z]

(* It stays current, and nobody who retains it is let down.                *)
LEMMA MoveKeeps ==
    ASSUME Held, NEW s \in Services, NEW phase, NEW board \in BOOLEAN, Moves(s, phase, board),
           UNCHANGED <<usb, uc>>, ld' \in LoaderStates,
           iface' \in Services \cup {Nobody, Leaked},
           svc[s].phase # "none", phase = "running" => board,
           svc[s].phase \in {"running", "stopped"} /\ svc[s].board => phase \in {"running", "stopped"} /\ board
    PROVE  Typed' /\ Current' /\ Retained'
<1>1. Typed'
  BY DEF Held, Typed, Moves
<1>2. Current'
  BY DEF Held, Current, Moves
<1>3. \A z \in Services : svc'[z].phase = "running" => svc'[z].board
  BY DEF Held, Retained, Moves
<1>4. Retained'
  <2> SUFFICES ASSUME NEW u \in UserClients
               PROVE  /\ uc[u].board \in {Nobody, uc[u].of}
                      /\ uc[u].of # Nobody =>
                           svc'[uc[u].of].phase \in {"running", "stopped"} /\ svc'[uc[u].of].board
    BY <1>3 DEF Retained
  <2>1. /\ uc[u].board \in {Nobody, uc[u].of}
        /\ uc[u].of # Nobody =>
             svc[uc[u].of].phase \in {"running", "stopped"} /\ svc[uc[u].of].board
        /\ uc[u].of \in Services \cup {Nobody}
    BY DEF Held, Retained, Typed, Client
  <2>2. CASE uc[u].of = s
    BY <2>1, <2>2 DEF Moves
  <2>3. CASE uc[u].of # s
    BY <2>1, <2>3 DEF Moves
  <2> QED BY <2>2, <2>3
<1> QED BY <1>1, <1>2, <1>4

(* The interface stays as it is, with a service that did not hold it or    *)
(* goes on holding it.                                                     *)
LEMMA InterfaceStays ==
    ASSUME Held, NEW s \in Services, NEW phase, NEW board, Moves(s, phase, board),
           UNCHANGED <<usb, iface>>,
           iface = s => phase \in Opened \/ (phase = "failed" /\ svc[s].kind # "kusb")
    PROVE  InterfaceHeld'
<1>1. ASSUME iface \in Services
      PROVE  /\ ~svc'[iface].gone
             /\ svc'[iface].phase \in Opened \/ (svc'[iface].phase = "failed" /\ svc'[iface].kind # "kusb")
  <2>1. CASE iface = s
    BY <1>1, <2>1 DEF Held, InterfaceHeld, Moves
  <2>2. CASE iface # s
    BY <1>1, <2>2 DEF Held, InterfaceHeld, Moves
  <2> QED BY <2>1, <2>2
<1> QED BY <1>1 DEF Held, InterfaceHeld

(* A service that closes the interface no longer holds it.                 *)
LEMMA InterfaceClosed ==
    ASSUME Held, NEW s \in Services, NEW phase, NEW board, Moves(s, phase, board), Close(s), UNCHANGED usb
    PROVE  InterfaceHeld' /\ iface' \in Services \cup {Nobody, Leaked}
<1>1. CASE iface = s
  BY <1>1, ServiceAssumption DEF Close, InterfaceHeld
<1>2. CASE iface # s
  BY <1>2, InterfaceStays DEF Close, Held, Typed
<1> QED BY <1>1, <1>2

(* The device stays with whom it is; a service that has it open does not   *)
(* cease to exist.                                                         *)
LEMMA DeviceStays ==
    ASSUME Held, NEW s \in Services, NEW phase, NEW board, Moves(s, phase, board),
           UNCHANGED <<device, ld>>, phase # "none"
    PROVE  DeviceHeld'
<1>1. device \in Services => svc'[device].phase # "none"
  <2>1. CASE device = s
    BY <2>1 DEF Moves
  <2>2. CASE device # s
    BY <2>2 DEF Held, DeviceHeld, Moves
  <2> QED BY <2>1, <2>2
<1> QED BY <1>1 DEF Held, DeviceHeld

-----------------------------------------------------------------------------
(* A service starts, ...                                                   *)
LEMMA StartKeeps ==
    ASSUME Held, NEW s \in Services,
           Match(s) \/ Refuse(s) \/ OpenInterface(s) \/ OpenDevice(s) \/ Attach(s) \/ Publish(s)
    PROVE  Held'
<1>1. svc \in [Services -> Service] /\ svc[s] \in Service /\ svc[s].board \in BOOLEAN
      /\ usb \in Port /\ ld \in LoaderStates /\ iface \in Services \cup {Nobody, Leaked}
  BY DEF Held, Typed, Service
<1>2. CASE Match(s)
  <2>1. svc[s] = NoService /\ svc[s].phase = "none" /\ svc[s].gone = FALSE /\ usb.id # "none"
        /\ UNCHANGED <<usb, device, ld, iface, uc>>
    BY <1>2 DEF Match, NoService
  <2>2. usb.kind \in {"kusb", "ni", "agilent"}
    BY <1>1, LoaderAssumption DEF Port
  <2>3. /\ svc' \in [Services -> Service] /\ svc'[s].phase = "starting" /\ svc'[s].kind = usb.kind
        /\ \A z \in Services \ {s} : svc'[z] = svc[z]
    BY <1>1, <1>2, <2>2 DEF Match, Service
  <2>4. Typed' /\ Current'
    BY <2>1, <2>3 DEF Held, Typed, Current
  <2>5. iface # s
    BY <2>1 DEF Held, InterfaceHeld, Opened
  <2>6. InterfaceHeld' /\ DeviceHeld'
    BY <2>1, <2>3, <2>5 DEF Held, InterfaceHeld, DeviceHeld
  <2>7. \A u \in UserClients : uc[u].of # s
    BY <2>1, ServiceAssumption DEF Held, Retained
  <2>8. Retained'
    BY <2>1, <2>3, <2>7 DEF Held, Retained, Typed, Client
  <2> QED BY <2>4, <2>6, <2>8 DEF Held
<1>3. CASE Refuse(s)
  <2>1. Moves(s, "failed", svc[s].board) /\ svc[s].phase = "starting"
        /\ UNCHANGED <<usb, device, ld, iface, uc>>
    BY <1>1, <1>3 DEF Refuse, Fail, Moves, Service
  <2>2. iface # s
    BY <2>1 DEF Held, InterfaceHeld, Opened
  <2>3. Typed' /\ Current' /\ Retained'
    BY <1>1, <2>1, MoveKeeps
  <2>4. InterfaceHeld' /\ DeviceHeld'
    BY <2>1, <2>2, InterfaceStays, DeviceStays
  <2> QED BY <2>3, <2>4 DEF Held
<1>4. CASE OpenInterface(s)
  <2>1. svc[s].phase = "starting" /\ UNCHANGED <<usb, device, ld, uc>>
    BY <1>4 DEF OpenInterface
  <2>2. CASE ~svc[s].gone /\ iface' = s
             /\ svc' = [svc EXCEPT ![s].phase = "opened", ![s].transport = "created"]
    <3>1. Moves(s, "opened", svc[s].board)
      BY <1>1, <2>2 DEF Moves, Service
    <3>2. Typed' /\ Current' /\ Retained'
      BY <1>1, <2>1, <2>2, <3>1, MoveKeeps
    <3>3. InterfaceHeld'
      BY <2>2, <3>1, ServiceAssumption DEF InterfaceHeld, Moves, Opened
    <3>4. DeviceHeld'
      BY <2>1, <3>1, DeviceStays
    <3> QED BY <3>2, <3>3, <3>4 DEF Held
  <2>3. CASE Fail(s) /\ UNCHANGED iface
    <3>1. Moves(s, "failed", svc[s].board)
      BY <1>1, <2>3 DEF Fail, Moves, Service
    <3>2. iface # s
      BY <2>1 DEF Held, InterfaceHeld, Opened
    <3>3. Typed' /\ Current' /\ Retained'
      BY <1>1, <2>1, <2>3, <3>1, MoveKeeps
    <3>4. InterfaceHeld' /\ DeviceHeld'
      BY <2>1, <2>3, <3>1, <3>2, InterfaceStays, DeviceStays
    <3> QED BY <3>3, <3>4 DEF Held
  <2> QED BY <1>4, <2>2, <2>3 DEF OpenInterface
<1>5. CASE OpenDevice(s)
  <2>1. Moves(s, "claimed", svc[s].board) /\ svc[s].phase = "opened" /\ UNCHANGED <<usb, ld, iface, uc>>
        /\ device' \in {device, s}
    BY <1>1, <1>5 DEF OpenDevice, Moves, Service
  <2>2. Typed' /\ Current' /\ Retained'
    BY <1>1, <2>1, MoveKeeps
  <2>3. InterfaceHeld'
    BY <2>1, InterfaceStays DEF Opened
  <2>4. DeviceHeld'
    <3>1. CASE device' = device
      BY <2>1, <3>1, DeviceStays
    <3>2. CASE device' = s
      BY <2>1, <3>2, ServiceAssumption DEF DeviceHeld, Moves
    <3> QED BY <2>1, <3>1, <3>2
  <2> QED BY <2>2, <2>3, <2>4 DEF Held
<1>6. CASE Attach(s)
  <2>1. Moves(s, "attached", svc[s].board) /\ svc[s].phase = "claimed" /\ UNCHANGED <<usb, device, ld, iface, uc>>
    BY <1>1, <1>6 DEF Attach, Moves, Service
  <2>2. Typed' /\ Current' /\ Retained'
    BY <1>1, <2>1, MoveKeeps
  <2>3. InterfaceHeld' /\ DeviceHeld'
    BY <2>1, InterfaceStays, DeviceStays DEF Opened
  <2> QED BY <2>2, <2>3 DEF Held
<1>7. CASE Publish(s)
  <2>1. Moves(s, "running", TRUE) /\ svc[s].phase = "attached" /\ UNCHANGED <<usb, device, ld, iface, uc>>
    BY <1>1, <1>7 DEF Publish, Moves, Service
  <2>2. Typed' /\ Current' /\ Retained'
    BY <1>1, <2>1, MoveKeeps
  <2>3. InterfaceHeld' /\ DeviceHeld'
    BY <2>1, InterfaceStays, DeviceStays DEF Opened
  <2> QED BY <2>2, <2>3 DEF Held
<1> QED BY <1>2, <1>3, <1>4, <1>5, <1>6, <1>7

(* ... or fails to, ...                                                    *)
LEMMA FailedStartKeeps ==
    ASSUME Held, NEW s \in Services, AttachFails(s) \/ BoardFails(s)
    PROVE  Held'
<1>1. svc \in [Services -> Service] /\ svc[s] \in Service /\ svc[s].board \in BOOLEAN
      /\ usb \in Port /\ ld \in LoaderStates /\ iface \in Services \cup {Nobody, Leaked}
  BY DEF Held, Typed, Service
<1>2. StartFails(s) /\ svc[s].phase \in {"opened", "claimed", "attached"} /\ UNCHANGED <<usb, device, ld, uc>>
  BY DEF AttachFails, BoardFails
<1>3. CASE svc[s].kind = "kusb"
  <2>1. Moves(s, "failed", svc[s].board) /\ Close(s)
    BY <1>1, <1>2, <1>3 DEF StartFails, Moves, Service
  <2>2. InterfaceHeld' /\ iface' \in Services \cup {Nobody, Leaked}
    BY <1>2, <2>1, InterfaceClosed
  <2>3. Typed' /\ Current' /\ Retained'
    BY <1>1, <1>2, <2>1, <2>2, MoveKeeps
  <2>4. DeviceHeld'
    BY <1>2, <2>1, DeviceStays
  <2> QED BY <2>2, <2>3, <2>4 DEF Held
<1>4. CASE svc[s].kind # "kusb"
  <2>1. Moves(s, "failed", svc[s].board) /\ UNCHANGED iface
    BY <1>1, <1>2, <1>4 DEF StartFails, Fail, Moves, Service
  <2>2. Typed' /\ Current' /\ Retained'
    BY <1>1, <1>2, <2>1, MoveKeeps
  <2>3. InterfaceHeld' /\ DeviceHeld'
    BY <1>2, <1>4, <2>1, InterfaceStays, DeviceStays
  <2> QED BY <2>2, <2>3 DEF Held
<1> QED BY <1>3, <1>4

(* ... is stopped ...                                                      *)
LEMMA StopKeeps ==
    ASSUME Held, NEW s \in Services, Stop(s)
    PROVE  Held'
<1>1. svc \in [Services -> Service] /\ svc[s] \in Service /\ svc[s].board \in BOOLEAN
      /\ usb \in Port /\ ld \in LoaderStates
  BY DEF Held, Typed, Service
<1>2. Moves(s, "stopped", svc[s].board) /\ Close(s) /\ svc[s].phase = "running"
      /\ UNCHANGED <<usb, device, ld, uc>>
  BY <1>1 DEF Stop, Moves, Service
<1>3. InterfaceHeld' /\ iface' \in Services \cup {Nobody, Leaked}
  BY <1>2, InterfaceClosed
<1>4. Typed' /\ Current' /\ Retained'
  BY <1>1, <1>2, <1>3, MoveKeeps
<1>5. DeviceHeld'
  BY <1>2, DeviceStays
<1> QED BY <1>3, <1>4, <1>5 DEF Held

(* ... and freed, which ends no session on the interface.                  *)
LEMMA FreeKeeps ==
    ASSUME Held, NEW s \in Services, Free(s)
    PROVE  Held'
<1>1. /\ svc \in [Services -> Service] /\ svc[s].phase \in {"failed", "stopped"}
      /\ \A u \in UserClients : uc[u].of # s
      /\ svc' = [svc EXCEPT ![s] = NoService]
      /\ device' = (IF device = s THEN Nobody ELSE device)
      /\ iface' = (IF iface = s THEN Leaked ELSE iface)
      /\ UNCHANGED <<usb, ld, uc>>
  BY DEF Held, Typed, Free
<1>2. NoService \in Service /\ NoService.phase = "none"
  BY DEF NoService, Service
<1>3. svc' \in [Services -> Service] /\ svc'[s] = NoService /\ \A z \in Services \ {s} : svc'[z] = svc[z]
  BY <1>1, <1>2
<1>4. iface = s => usb.kind # "kusb" /\ usb.id # "none"
  BY <1>1 DEF Held, InterfaceHeld, Current, Opened
<1>5. Typed' /\ Current'
  BY <1>1, <1>2, <1>3 DEF Held, Typed, Current
<1>6. InterfaceHeld'
  <2>1. CASE iface = s
    BY <1>1, <1>4, <2>1, ServiceAssumption DEF InterfaceHeld
  <2>2. CASE iface # s
    BY <1>1, <1>3, <2>2 DEF Held, InterfaceHeld
  <2> QED BY <2>1, <2>2
<1>7. DeviceHeld'
  <2>1. CASE device = s
    BY <1>1, <2>1, ServiceAssumption DEF DeviceHeld
  <2>2. CASE device # s
    BY <1>1, <1>3, <2>2 DEF Held, DeviceHeld
  <2> QED BY <2>1, <2>2
<1>8. Retained'
  BY <1>1, <1>2, <1>3 DEF Held, Retained, Typed, Client
<1> QED BY <1>5, <1>6, <1>7, <1>8 DEF Held

-----------------------------------------------------------------------------
(* A user client u changes to c and nothing else does.                     *)
LEMMA ClientChanges ==
    ASSUME Held, NEW u \in UserClients, NEW c \in Client, uc' = [uc EXCEPT ![u] = c],
           UNCHANGED <<usb, device, ld, svc, iface>>,
           c.board \in {Nobody, c.of},
           c.of # Nobody => svc[c.of].phase \in {"running", "stopped"} /\ svc[c.of].board
    PROVE  Held'
<1>1. uc' \in [UserClients -> Client] /\ uc'[u] = c /\ \A v \in UserClients \ {u} : uc'[v] = uc[v]
  BY DEF Held, Typed
<1>2. Typed' /\ Current' /\ InterfaceHeld' /\ DeviceHeld'
  BY <1>1 DEF Held, Typed, Current, InterfaceHeld, DeviceHeld
<1>3. Retained'
  BY <1>1 DEF Held, Retained
<1> QED BY <1>2, <1>3 DEF Held

(* Clients come, start, are stopped and freed.                             *)
LEMMA ClientKeeps ==
    ASSUME Held, NEW u \in UserClients,
           \/ \E s \in Services, type \in {0, 1} : NewUserClient(u, s, type)
           \/ StartClient(u) \/ StopClient(u) \/ FreeClient(u)
    PROVE  Held'
<1>1. uc[u] \in Client /\ svc \in [Services -> Service]
  BY DEF Held, Typed
<1>2. ASSUME NEW s \in Services, NEW type, NewUserClient(u, s, type) PROVE Held'
  <2> DEFINE c == [phase |-> "created", of |-> s, board |-> Nobody]
  <2>1. c \in Client /\ c.of = s /\ c.board = Nobody
    BY DEF Client
  <2>2. svc[s].phase = "running" /\ uc' = [uc EXCEPT ![u] = c] /\ UNCHANGED <<usb, device, ld, svc, iface>>
    BY <1>2 DEF NewUserClient
  <2>3. svc[s].board
    BY <2>2 DEF Held, Retained
  <2> HIDE DEF c
  <2> QED BY <2>1, <2>2, <2>3, ClientChanges
<1>3. CASE StartClient(u)
  <2>1. uc[u].of \in Services \cup {Nobody} /\ UNCHANGED <<usb, device, ld, svc, iface>>
    BY <1>1, <1>3 DEF StartClient, Client
  <2>2. uc[u].of # Nobody => svc[uc[u].of].phase \in {"running", "stopped"} /\ svc[uc[u].of].board
    BY DEF Held, Retained
  <2>3. CASE svc[uc[u].of].board
    <3> DEFINE c == [phase |-> "running", of |-> uc[u].of, board |-> uc[u].of]
    <3>1. c \in Client /\ c.of = uc[u].of /\ c.board = uc[u].of
      BY <2>1 DEF Client
    <3>2. uc' = [uc EXCEPT ![u] = c]
      BY <1>3, <2>3 DEF StartClient
    <3> HIDE DEF c
    <3> QED BY <2>1, <2>2, <3>1, <3>2, ClientChanges
  <2>4. CASE ~svc[uc[u].of].board
    <3> DEFINE c == [uc[u] EXCEPT !.phase = "failed"]
    <3>1. c \in Client /\ c.of = uc[u].of /\ c.board = uc[u].board
      BY <1>1 DEF Client
    <3>2. uc' = [uc EXCEPT ![u] = c]
      BY <1>3, <2>4 DEF StartClient
    <3>3. uc[u].board \in {Nobody, uc[u].of}
      BY DEF Held, Retained
    <3> HIDE DEF c
    <3> QED BY <2>1, <2>2, <3>1, <3>2, <3>3, ClientChanges
  <2> QED BY <2>3, <2>4
<1>4. CASE StopClient(u)
  <2> DEFINE c == Stopped(uc[u])
  <2>1. c \in Client /\ c.of = Nobody /\ c.board = Nobody
    BY <1>1 DEF Client, Stopped
  <2>2. uc' = [uc EXCEPT ![u] = c] /\ UNCHANGED <<usb, device, ld, svc, iface>>
    BY <1>4 DEF StopClient
  <2> HIDE DEF c
  <2> QED BY <2>1, <2>2, ClientChanges
<1>5. CASE FreeClient(u)
  <2>1. NoClient \in Client /\ NoClient.of = Nobody /\ NoClient.board = Nobody
    BY DEF Client, NoClient
  <2>2. uc' = [uc EXCEPT ![u] = NoClient] /\ UNCHANGED <<usb, device, ld, svc, iface>>
    BY <1>5 DEF FreeClient
  <2> QED BY <2>1, <2>2, ClientChanges
<1> QED BY <1>2, <1>3, <1>4, <1>5

(* A request that takes the board off line, or brings it back, leaves its  *)
(* service as it is.                                                       *)
LEMMA OnlineKeeps ==
    ASSUME Held, NEW u \in UserClients, NEW on \in BOOLEAN, SetOnline(u, on)
    PROVE  Held'
<1>1. /\ svc \in [Services -> Service] /\ usb \in Port /\ ld \in LoaderStates
      /\ iface \in Services \cup {Nobody, Leaked} /\ uc[u] \in Client
  BY DEF Held, Typed
<1>2. PICK s \in Services : s = uc[u].board
  BY <1>1 DEF SetOnline, Client
<1>3. svc[s].phase \in {"running", "stopped"} /\ svc[s].board
  BY <1>2, ServiceAssumption DEF Held, Retained
<1>4. svc' = [svc EXCEPT ![s].online = on] /\ UNCHANGED <<usb, device, ld, iface, uc>>
  BY <1>2 DEF SetOnline
<1>5. svc[s] \in Service /\ svc[s].board \in BOOLEAN
  BY <1>1 DEF Service
<1>6. Moves(s, svc[s].phase, svc[s].board)
  BY <1>1, <1>4, <1>5 DEF Moves, Service
<1>7. Typed' /\ Current' /\ Retained'
  BY <1>1, <1>3, <1>4, <1>5, <1>6, MoveKeeps
<1>8. InterfaceHeld' /\ DeviceHeld'
  <2>1. iface = s => svc[s].phase \in Opened \/ (svc[s].phase = "failed" /\ svc[s].kind # "kusb")
    BY DEF Held, InterfaceHeld
  <2> QED BY <1>3, <1>4, <1>6, <2>1, InterfaceStays, DeviceStays
<1> QED BY <1>7, <1>8 DEF Held

-----------------------------------------------------------------------------
(* The loader holds the device while it loads, and no longer.              *)
LEMMA LoaderKeeps ==
    ASSUME Held, LoaderNext, UNCHANGED <<svc, iface, uc>>
    PROVE  Held'
<1>1. ld \in LoaderStates /\ usb' = usb
  BY DEF Held, Typed, LoaderNext, LoaderStart, Send, SendFails, Release, LoaderFree
<1>2. ASSUME NEW l \in LoaderStates, EndLoad(l)
      PROVE  ld' \in LoaderStates /\ DeviceHeld'
  BY <1>2, ServiceAssumption DEF Held, DeviceHeld, EndLoad, LoaderStates
<1>3. ASSUME LoaderStart
      PROVE  ld' \in LoaderStates /\ DeviceHeld'
  BY <1>1, <1>3, ServiceAssumption DEF Held, DeviceHeld, LoaderStart, LoaderStates
<1>4. ASSUME Send
      PROVE  ld' \in LoaderStates /\ DeviceHeld'
  <2>1. \/ ld' = [ld EXCEPT !.next = @ + 1] /\ UNCHANGED device /\ ld.phase = "loading"
        \/ EndLoad(ld)
    BY <1>4 DEF Send
  <2> QED BY <1>1, <1>2, <2>1 DEF Held, DeviceHeld, LoaderStates
<1>5. ASSUME NEW arrived \in BOOLEAN, SendFails(arrived)
      PROVE  ld' \in LoaderStates /\ DeviceHeld'
  <2>1. Failed(Program[ld.next]) \in LoaderStates
    BY <1>1 DEF Failed, LoaderStates
  <2>2. CASE EndLoad(Failed(Program[ld.next]))
    BY <1>2, <2>1, <2>2
  <2>3. CASE ld' = [Failed(Program[ld.next]) EXCEPT !.phase = "cleaning"] /\ UNCHANGED device
    BY <2>1, <2>3 DEF Held, DeviceHeld, LoaderStates
  <2> QED BY <1>5, <2>2, <2>3 DEF SendFails, AfterFailure
<1>6. ASSUME NEW arrived \in BOOLEAN, Release(arrived)
      PROVE  ld' \in LoaderStates /\ DeviceHeld'
  <2>1. [ld EXCEPT !.reset = TRUE] \in LoaderStates
    BY <1>1 DEF LoaderStates
  <2> QED BY <1>1, <1>2, <1>6, <2>1 DEF Release
<1>7. ASSUME LoaderFree
      PROVE  ld' \in LoaderStates /\ DeviceHeld'
  BY <1>1, <1>7 DEF Held, DeviceHeld, LoaderFree, LoaderStates, NoLoader
<1>8. ld' \in LoaderStates /\ DeviceHeld'
  BY <1>3, <1>4, <1>5, <1>6, <1>7 DEF LoaderNext
<1> QED BY <1>1, <1>8 DEF Held, Typed, Current, InterfaceHeld, Retained

(* A device that leaves takes every session along, and every service made  *)
(* for it is told.                                                         *)
LEMMA LeaveKeeps ==
    ASSUME Held, Leave, usb' \in Port
    PROVE  Held'
<1>1. /\ svc \in [Services -> Service] /\ ld \in LoaderStates /\ uc \in [UserClients -> Client]
      /\ device' = Nobody /\ iface' = Nobody /\ uc' = uc
  BY DEF Held, Typed, Leave
<1>2. /\ svc' \in [Services -> Service]
      /\ \A s \in Services :
           /\ svc'[s].phase = svc[s].phase /\ svc'[s].board = svc[s].board
           /\ svc'[s].phase = "none" \/ svc'[s].gone
  <2>1. svc' = [s \in Services |->
                  IF svc[s] = NoService THEN svc[s] ELSE [svc[s] EXCEPT !.gone = TRUE]]
    BY DEF Leave
  <2>2. ASSUME NEW s \in Services
        PROVE  /\ svc'[s] \in Service
               /\ svc'[s].phase = svc[s].phase /\ svc'[s].board = svc[s].board
               /\ svc'[s].phase = "none" \/ svc'[s].gone
    <3>1. svc[s] \in Service
      BY <1>1
    <3>2. CASE svc[s] = NoService
      <4>1. svc'[s] = svc[s]
        BY <2>1, <3>2
      <4>2. svc[s].phase = "none"
        BY <3>2 DEF NoService
      <4> QED BY <3>1, <4>1, <4>2
    <3>3. CASE svc[s] # NoService
      BY <2>1, <3>1, <3>3 DEF Service
    <3> QED BY <3>2, <3>3
  <2> QED BY <2>1, <2>2
<1>3. ld' \in LoaderStates
  BY <1>1 DEF Leave, DeviceLeaves, LoaderStates
<1>4. Typed' /\ Current' /\ InterfaceHeld' /\ DeviceHeld'
  BY <1>1, <1>2, <1>3, ServiceAssumption DEF Typed, Current, InterfaceHeld, DeviceHeld
<1>5. Retained'
  <2>1. \A s \in Services : svc'[s].phase = "running" => svc'[s].board
    BY <1>2 DEF Held, Retained
  <2>2. ASSUME NEW u \in UserClients
        PROVE  /\ uc[u].board \in {Nobody, uc[u].of}
               /\ uc[u].of # Nobody =>
                    svc'[uc[u].of].phase \in {"running", "stopped"} /\ svc'[uc[u].of].board
    <3>1. uc[u].of \in Services \cup {Nobody}
      BY <1>1 DEF Client
    <3> QED BY <1>2, <3>1 DEF Held, Retained
  <2> QED BY <1>1, <2>1, <2>2 DEF Retained
<1> QED BY <1>4, <1>5 DEF Held

(* An adapter is plugged into a port that no service is left on.           *)
LEMMA PlugKeeps ==
    ASSUME Held, NEW p \in Port, Plug(p)
    PROVE  Held'
<1>1. usb.id = "none" /\ usb' = p /\ UNCHANGED <<device, ld, svc, iface, uc>>
  BY DEF Plug, Arrives
<1>2. \A s \in Services : svc[s].phase = "none" \/ svc[s].gone
  BY <1>1 DEF Held, Current
<1>3. iface \notin Services /\ iface # Leaked
  BY <1>1, <1>2 DEF Held, InterfaceHeld, Opened
<1> QED BY <1>1, <1>2, <1>3 DEF Held, Typed, Current, InterfaceHeld, DeviceHeld, Retained

-----------------------------------------------------------------------------
(* Every step keeps it.                                                    *)
LEMMA StepKeeps ==
    ASSUME Held, [Next]_vars
    PROVE  Held'
<1>1. usb \in Port
  BY DEF Held, Typed
<1>2. CASE UNCHANGED vars
  BY <1>2 DEF vars, Held, Typed, Current, InterfaceHeld, DeviceHeld, Retained
<1>3. CASE LoaderNext /\ UNCHANGED <<svc, iface, uc>>
  BY <1>3, LoaderKeeps
<1>4. ASSUME NEW s \in Services, Match(s) \/ ServiceStep(s)
      PROVE  Held'
  BY <1>4, StartKeeps, FailedStartKeeps, StopKeeps, FreeKeeps DEF ServiceStep
<1>5. ASSUME NEW u \in UserClients, NEW s \in Services, NEW type \in {0, 1}, NewUserClient(u, s, type)
      PROVE  Held'
  BY <1>5, ClientKeeps
<1>6. ASSUME NEW u \in UserClients, ClientStep(u) \/ StopClient(u)
      PROVE  Held'
  BY <1>6, ClientKeeps DEF ClientStep
<1>7. ASSUME NEW u \in UserClients, NEW on \in BOOLEAN, SetOnline(u, on)
      PROVE  Held'
  BY <1>7, OnlineKeeps
<1>8. ASSUME NEW u \in UserClients, NEW req \in Requests, Dispatch(u, req)
      PROVE  Held'
  BY <1>8 DEF Dispatch, Held, Typed, Current, InterfaceHeld, DeviceHeld, Retained
<1>9. ASSUME NEW u \in UserClients, NEW id \in {"loader", "ready"}, ResetDevice(u, id)
      PROVE  Held'
  <2>1. Leave /\ usb' \in Port
    BY <1>1, <1>9 DEF ResetDevice, Arrives, Port
  <2> QED BY <2>1, LeaveKeeps
<1>10. ASSUME NEW p \in Port, Plug(p)
       PROVE  Held'
  BY <1>10, PlugKeeps
<1>11. CASE Unplug \/ ComesUp
  <2>1. Leave /\ usb' \in Port
    BY <1>1, <1>11 DEF Unplug, ComesUp, Arrives, Port
  <2> QED BY <2>1, LeaveKeeps
<1> QED BY <1>2, <1>3, <1>4, <1>5, <1>6, <1>7, <1>8, <1>9, <1>10, <1>11 DEF Next

(* It holds of an empty port.                                              *)
LEMMA InitHolds == Init => Held
<1> SUFFICES ASSUME Init PROVE Held
  OBVIOUS
<1>1. /\ usb \in Port /\ device = Nobody /\ iface = Nobody /\ ld = NoLoader
      /\ svc = [s \in Services |-> NoService] /\ uc = [u \in UserClients |-> NoClient]
  BY DEF Init, LoaderInit, Port
<1>2. NoService \in Service /\ NoService.phase = "none" /\ NoClient \in Client
      /\ NoClient.of = Nobody /\ NoClient.board = Nobody /\ NoLoader \in LoaderStates
  BY DEF NoService, Service, NoClient, Client, NoLoader, LoaderStates
<1> QED BY <1>1, <1>2, ServiceAssumption
        DEF Held, Typed, Current, InterfaceHeld, DeviceHeld, Retained

(* So it always holds.                                                     *)
LEMMA HeldAlways == Spec => []Held
BY InitHolds, StepKeeps, PTL DEF Spec

(* GPIBUserClient::Stop: no user client is left with a pointer to a board  *)
(* that its service has deleted.                                           *)
THEOREM BoardsOutliveClients == Spec => []NoDangling
<1>1. Held => NoDangling
  <2> SUFFICES ASSUME Held, NEW u \in UserClients, uc[u].board # Nobody
               PROVE  svc[uc[u].board].board
    BY DEF NoDangling
  <2>1. uc[u].board = uc[u].of
    BY DEF Held, Retained
  <2> QED BY <2>1 DEF Held, Retained
<1> QED BY <1>1, HeldAlways, PTL

(* kusb_488b::Start, the loader's Start and the transport's destructor: no *)
(* session is left with a service that no longer answers for it.           *)
THEOREM SessionsHaveOwners == Spec => []SessionsOwned
<1>1. Held => SessionsOwned
  <2> SUFFICES ASSUME Held PROVE SessionsOwned
    OBVIOUS
  <2>1. ASSUME usb.kind = "kusb", iface # Nobody
        PROVE  iface \in Services /\ svc[iface].phase \in Starting \cup {"running"}
    <3>1. iface \in Services
      BY <2>1 DEF Held, Typed, InterfaceHeld
    <3>2. ~svc[iface].gone
          /\ (svc[iface].phase \in Opened \/ (svc[iface].phase = "failed" /\ svc[iface].kind # "kusb"))
      BY <3>1 DEF Held, InterfaceHeld
    <3>3. svc[iface].kind = usb.kind
      BY <3>1, <3>2 DEF Held, Current, Opened
    <3> QED BY <2>1, <3>1, <3>2, <3>3 DEF Opened, Starting
  <2> QED BY <2>1 DEF SessionsOwned, Held, DeviceHeld
<1> QED BY <1>1, HeldAlways, PTL

-----------------------------------------------------------------------------
(* The requests of a download, one after the other.                        *)

Parts(len) == (len + Chunk - 1) \div Chunk

(* How far the first i of an image's requests reach.                       *)
Reach(i, len) == IF i < Parts(len) THEN i * Chunk ELSE len

Orders == [to : {"begin", "fpga", "ext", "cpu", "ram"}, at : Int, n : Int, flag : BOOLEAN]

F == Parts(FpgaLength)
E == Parts(ExtLength)
M == Parts(MainLength)
Total == F + E + M + 3

(* The first requests of an image are whole chunks, the last one is what   *)
(* is left.                                                                *)
LEMMA PartsOf ==
    ASSUME NEW len \in Nat \ {0}
    PROVE  /\ Parts(len) \in Nat \ {0}
           /\ \A i \in Nat : i < Parts(len) =>
                /\ i * Chunk \in Nat /\ (i + 1) * Chunk = i * Chunk + Chunk
                /\ i * Chunk < len
                /\ i + 1 < Parts(len) <=> len - i * Chunk > Chunk
<1> DEFINE p == Parts(len)
<1>1. Chunk \in Nat \ {0}
  BY LoaderAssumption
<1>2. PICK a \in Nat : a = len + Chunk - 1
  BY <1>1
<1>3. p = a \div Chunk
  BY <1>2 DEF Parts
<1>4. p \in Nat /\ Chunk * p <= a /\ a < Chunk * p + Chunk
  BY <1>1, <1>3
<1> HIDE DEF p
<1>5. p # 0
  BY <1>1, <1>2, <1>4
<1>6. ASSUME NEW i \in Nat, i < p
      PROVE  /\ i * Chunk \in Nat /\ (i + 1) * Chunk = i * Chunk + Chunk
             /\ i * Chunk < len
             /\ i + 1 < p <=> len - i * Chunk > Chunk
  <2>1. PICK d \in Nat : p = i + 1 + d
    <3>1. p - i - 1 \in Nat /\ p = i + 1 + (p - i - 1)
      BY <1>4, <1>6
    <3> QED BY <3>1
  <2>2. PICK x \in Nat : x = i * Chunk
    BY <1>1
  <2>3. PICK y \in Nat : y = d * Chunk
    BY <1>1
  <2>4. (i + 1) * Chunk = x + Chunk
    BY <1>1, <2>2
  <2>5. Chunk * p = x + Chunk + y
    BY <1>1, <2>1, <2>2, <2>3
  <2>6. d > 0 => y >= Chunk
    <3>1. CASE d > 0
      <4>1. PICK e \in Nat : d = e + 1
        <5>1. d - 1 \in Nat /\ d = (d - 1) + 1
          BY <3>1
        <5> QED BY <5>1
      <4>2. e * Chunk \in Nat /\ y = e * Chunk + Chunk
        BY <1>1, <2>3, <4>1
      <4> QED BY <1>1, <4>2
    <3> QED BY <3>1
  <2>7. d = 0 => y = 0
    BY <1>1, <2>3
  <2>8. x < len
    BY <1>1, <1>2, <1>4, <2>5
  <2>9. CASE d > 0
    <3>1. len - x > Chunk
      BY <1>1, <1>2, <1>4, <2>5, <2>6, <2>9
    <3> QED BY <2>1, <2>2, <2>4, <2>8, <2>9, <3>1
  <2>10. CASE d = 0
    <3>1. ~(len - x > Chunk)
      BY <1>1, <1>2, <1>4, <2>5, <2>7, <2>10
    <3> QED BY <2>1, <2>2, <2>4, <2>8, <2>10, <3>1
  <2> QED BY <2>9, <2>10
<1> QED BY <1>4, <1>5, <1>6 DEF p

(* Where the request after the first i of an image starts and ends.        *)
LEMMA ReachOf ==
    ASSUME NEW len \in Nat \ {0}, NEW i \in Nat
    PROVE  /\ Reach(0, len) = 0
           /\ i >= Parts(len) => Reach(i, len) = len
           /\ i < Parts(len) =>
                /\ Reach(i, len) = i * Chunk /\ Reach(i, len) \in Nat /\ Reach(i, len) < len
                /\ Reach(i + 1, len) \in Nat /\ Reach(i, len) < Reach(i + 1, len)
                /\ Reach(i + 1, len) <= len
                /\ Reach(i + 1, len) = len <=> i + 1 = Parts(len)
                /\ IsLast(i * Chunk, len) <=> i + 1 = Parts(len)
                /\ Min({Chunk, len - i * Chunk}) = Reach(i + 1, len) - Reach(i, len)
<1>1. Chunk \in Nat \ {0} /\ Parts(len) \in Nat \ {0}
  BY PartsOf, LoaderAssumption
<1>2. Reach(0, len) = 0
  BY <1>1 DEF Reach
<1>3. i >= Parts(len) => Reach(i, len) = len
  BY <1>1 DEF Reach
<1>4. ASSUME i < Parts(len)
      PROVE  /\ Reach(i, len) = i * Chunk /\ Reach(i, len) \in Nat /\ Reach(i, len) < len
             /\ Reach(i + 1, len) \in Nat /\ Reach(i, len) < Reach(i + 1, len)
             /\ Reach(i + 1, len) <= len
             /\ Reach(i + 1, len) = len <=> i + 1 = Parts(len)
             /\ IsLast(i * Chunk, len) <=> i + 1 = Parts(len)
             /\ Min({Chunk, len - i * Chunk}) = Reach(i + 1, len) - Reach(i, len)
  <2>1. PICK x \in Nat : x = i * Chunk
    BY <1>1
  <2>2. /\ (i + 1) * Chunk = x + Chunk /\ x < len
        /\ i + 1 < Parts(len) <=> len - x > Chunk
    BY <1>4, <2>1, PartsOf
  <2>3. Reach(i, len) = x
    BY <1>4, <2>1 DEF Reach
  <2>4. CASE i + 1 < Parts(len)
    <3>1. Reach(i + 1, len) = x + Chunk
      BY <2>2, <2>4 DEF Reach
    <3>2. Min({Chunk, len - x}) = Chunk
      BY <1>1, <2>2, <2>4 DEF Min
    <3> QED BY <1>1, <1>4, <2>1, <2>2, <2>3, <2>4, <3>1, <3>2 DEF IsLast
  <2>5. CASE ~(i + 1 < Parts(len))
    <3>1. Reach(i + 1, len) = len /\ i + 1 = Parts(len)
      BY <1>1, <1>4, <2>5 DEF Reach
    <3>2. Min({Chunk, len - x}) = len - x
      BY <1>1, <2>2, <2>5 DEF Min
    <3> QED BY <1>1, <1>4, <2>1, <2>2, <2>3, <2>5, <3>1, <3>2 DEF IsLast
  <2> QED BY <2>4, <2>5
<1> QED BY <1>2, <1>3, <1>4

(* The request after the first i of an image.                              *)
Part(to, i, len) == Request(to, Reach(i, len), Reach(i + 1, len) - Reach(i, len), i + 1 = Parts(len))

(* The requests of one image.                                              *)
LEMMA ChunksOf ==
    ASSUME NEW to \in {"fpga", "ext", "ram"}, NEW len \in Nat \ {0}
    PROVE  /\ Chunks(to, len) \in Seq(Orders)
           /\ Len(Chunks(to, len)) = Parts(len)
           /\ \A i \in Nat : i < Parts(len) => Chunks(to, len)[i + 1] = Part(to, i, len)
<1> DEFINE c == Chunks(to, len)
<1>1. Parts(len) \in Nat \ {0}
  BY PartsOf
<1>2. ASSUME NEW j \in 1..Parts(len)
      PROVE  /\ c[j] = Part(to, j - 1, len)
             /\ c[j] \in Orders
  <2>1. PICK i \in Nat : i = j - 1 /\ i + 1 = j /\ i < Parts(len)
    BY <1>1, <1>2
  <2>2. /\ i * Chunk = Reach(i, len)
        /\ IsLast(i * Chunk, len) <=> i + 1 = Parts(len)
        /\ Min({Chunk, len - i * Chunk}) = Reach(i + 1, len) - Reach(i, len)
        /\ Reach(i, len) \in Nat /\ Reach(i + 1, len) \in Nat
    BY <2>1, ReachOf
  <2>3. c[j] = Request(to, i * Chunk, Min({Chunk, len - i * Chunk}), IsLast(i * Chunk, len))
    BY <2>1 DEF Chunks, Parts
  <2>4. IsLast(i * Chunk, len) = (i + 1 = Parts(len))
    BY <2>2 DEF IsLast
  <2>5. c[j] = Part(to, i, len)
    BY <2>2, <2>3, <2>4 DEF Part
  <2>6. Part(to, i, len) \in Orders
    <3>1. Reach(i + 1, len) - Reach(i, len) \in Int
      BY <2>2
    <3>2. (i + 1 = Parts(len)) \in BOOLEAN
      OBVIOUS
    <3> QED BY <2>2, <3>1, <3>2 DEF Part, Request, Orders
  <2> QED BY <2>1, <2>5, <2>6
<1>3. c = [j \in 1..Parts(len) |-> c[j]]
  BY DEF Chunks, Parts
<1> HIDE DEF c
<1>4. c \in Seq(Orders) /\ Len(c) = Parts(len)
  BY <1>1, <1>2, <1>3, IsASeq
<1>5. ASSUME NEW i \in Nat, i < Parts(len) PROVE c[i + 1] = Part(to, i, len)
  <2>1. i + 1 \in 1..Parts(len) /\ (i + 1) - 1 = i
    BY <1>1, <1>5
  <2> QED BY <1>2, <2>1
<1> QED BY <1>4, <1>5 DEF c

(* Two sequences of requests, one behind the other.                        *)
LEMMA Joined ==
    ASSUME NEW s \in Seq(Orders), NEW t \in Seq(Orders), NEW j, NEW k, NEW n,
           Len(s) = k, Len(t) = j, n = k + j
    PROVE  /\ s \o t \in Seq(Orders) /\ Len(s \o t) = n
           /\ \A i \in 1..n : (s \o t)[i] = IF i <= k THEN s[i] ELSE t[i - k]
BY ConcatProperties

(* The requests of a download.                                             *)
LEMMA ProgramOf ==
    /\ F \in Nat \ {0} /\ E \in Nat \ {0} /\ M \in Nat \ {0}
    /\ Len(Program) = Total /\ DOMAIN Program = 1..Total
    /\ Program[1] = Request("begin", 0, 0, FALSE)
    /\ \A i \in Nat : i < F => Program[2 + i] = Part("fpga", i, FpgaLength)
    /\ \A i \in Nat : i < E => Program[F + 2 + i] = Part("ext", i, ExtLength)
    /\ Program[F + E + 2] = Hold(TRUE)
    /\ \A i \in Nat : i < M => Program[F + E + 3 + i] = Part("ram", i, MainLength)
    /\ Program[Total] = Hold(FALSE)
<1> DEFINE first == Request("begin", 0, 0, FALSE)
           f == Chunks("fpga", FpgaLength)
           e == Chunks("ext", ExtLength)
           m == Chunks("ram", MainLength)
           b == <<first>>
           h == <<Hold(TRUE)>>
           r == <<Hold(FALSE)>>
<1>1. /\ FpgaLength \in Nat \ {0} /\ ExtLength \in Nat \ {0} /\ MainLength \in Nat \ {0}
  BY LoaderAssumption
<1>2. F \in Nat \ {0} /\ E \in Nat \ {0} /\ M \in Nat \ {0}
  BY <1>1, PartsOf DEF F, E, M
<1>3. /\ f \in Seq(Orders) /\ Len(f) = F
      /\ \A i \in Nat : i < F => f[i + 1] = Part("fpga", i, FpgaLength)
  BY <1>1, ChunksOf DEF F
<1>4. /\ e \in Seq(Orders) /\ Len(e) = E
      /\ \A i \in Nat : i < E => e[i + 1] = Part("ext", i, ExtLength)
  BY <1>1, ChunksOf DEF E
<1>5. /\ m \in Seq(Orders) /\ Len(m) = M
      /\ \A i \in Nat : i < M => m[i + 1] = Part("ram", i, MainLength)
  BY <1>1, ChunksOf DEF M
<1>6. first \in Orders /\ Hold(TRUE) \in Orders /\ Hold(FALSE) \in Orders
  BY DEF Request, Hold, Orders
<1>7. Program = b \o f \o e \o h \o m \o r
  BY DEF Program
<1> HIDE DEF f, e, m
<1>8. /\ b \in Seq(Orders) /\ h \in Seq(Orders) /\ r \in Seq(Orders)
      /\ Len(b) = 1 /\ Len(h) = 1 /\ Len(r) = 1
      /\ b[1] = first /\ h[1] = Hold(TRUE) /\ r[1] = Hold(FALSE)
  <2>1. ASSUME NEW q \in Orders PROVE <<q>> \in Seq(Orders) /\ Len(<<q>>) = 1 /\ <<q>>[1] = q
    BY <2>1
  <2> QED BY <1>6, <2>1
<1> HIDE DEF first, b, h, r
<1>22. PICK one \in Nat : one = 1
  OBVIOUS
<1>23. b \in Seq(Orders) /\ Len(b) = one
  BY <1>8, <1>22
<1>24. h \in Seq(Orders) /\ Len(h) = one
  BY <1>8, <1>22
<1>25. r \in Seq(Orders) /\ Len(r) = one
  BY <1>8, <1>22
<1> DEFINE p1 == b \o f
           p2 == p1 \o e
           p3 == p2 \o h
           p4 == p3 \o m
           p5 == p4 \o r
<1>9. Program = p5
  BY <1>7
<1>10. /\ p1 \in Seq(Orders) /\ Len(p1) = 1 + F
       /\ \A i \in 1..(1 + F) : p1[i] = IF i <= 1 THEN b[i] ELSE f[i - 1]
  <2>1. 1 + F = one + F
    BY <1>22
  <2>2. /\ p1 \in Seq(Orders) /\ Len(p1) = 1 + F
        /\ \A i \in 1..(1 + F) : p1[i] = IF i <= one THEN b[i] ELSE f[i - one]
    BY <1>3, <1>23, <2>1, Joined
  <2> HIDE DEF p1
  <2> QED BY <1>22, <2>2
<1> HIDE DEF p1
<1>11. /\ p2 \in Seq(Orders) /\ Len(p2) = 1 + F + E
       /\ \A i \in 1..(1 + F + E) : p2[i] = IF i <= 1 + F THEN p1[i] ELSE e[i - (1 + F)]
  <2>1. PICK n \in Nat : n = 1 + F + E
    BY <1>2
  <2>2. PICK k \in Nat : k = 1 + F
    BY <1>2
  <2>3. /\ p2 \in Seq(Orders) /\ Len(p2) = n
        /\ \A i \in 1..n : p2[i] = IF i <= k THEN p1[i] ELSE e[i - k]
    BY <1>4, <1>10, <2>1, <2>2, Joined
  <2> HIDE DEF p2
  <2> QED BY <2>1, <2>2, <2>3
<1> HIDE DEF p2
<1>12. /\ p3 \in Seq(Orders) /\ Len(p3) = F + E + 2
       /\ \A i \in 1..(F + E + 2) : p3[i] = IF i <= 1 + F + E THEN p2[i] ELSE h[i - (1 + F + E)]
  <2>1. F + E + 2 = (1 + F + E) + one
    BY <1>2, <1>22
  <2> QED BY <1>11, <1>24, <2>1, Joined
<1> HIDE DEF p3
<1>13. /\ p4 \in Seq(Orders) /\ Len(p4) = F + E + M + 2
       /\ \A i \in 1..(F + E + M + 2) : p4[i] = IF i <= F + E + 2 THEN p3[i] ELSE m[i - (F + E + 2)]
  <2>1. F + E + M + 2 = (F + E + 2) + M
    BY <1>2
  <2> QED BY <1>5, <1>12, <2>1, Joined
<1> HIDE DEF p4
<1>14. /\ p5 \in Seq(Orders) /\ Len(p5) = Total
       /\ \A i \in 1..Total : p5[i] = IF i <= F + E + M + 2 THEN p4[i] ELSE r[i - (F + E + M + 2)]
  <2>1. Total = (F + E + M + 2) + one
    BY <1>2, <1>22 DEF Total
  <2> QED BY <1>13, <1>25, <2>1, Joined
<1> HIDE DEF p5
<1>15. Len(Program) = Total /\ DOMAIN Program = 1..Total
  <2>1. p5 \in Seq(Orders)
    BY <1>14
  <2>2. DOMAIN p5 = 1..Len(p5)
    BY <2>1, LenProperties
  <2> QED BY <1>9, <1>14, <2>2
<1>16. p5[1] = first
  BY <1>2, <1>8, <1>10, <1>11, <1>12, <1>13, <1>14 DEF Total
<1>17. ASSUME NEW i \in Nat, i < F PROVE p5[2 + i] = f[i + 1]
  <2>1. PICK j \in Nat : j = 2 + i /\ j \in 1..(1 + F) /\ ~(j <= 1) /\ j - 1 = i + 1
    BY <1>2, <1>17
  <2>2. j \in 1..Total /\ j <= F + E + M + 2 /\ j <= F + E + 2 /\ j <= 1 + F + E /\ j <= 1 + F
        /\ j \in 1..(F + E + M + 2) /\ j \in 1..(F + E + 2) /\ j \in 1..(1 + F + E)
    BY <1>2, <2>1 DEF Total
  <2> QED BY <1>10, <1>11, <1>12, <1>13, <1>14, <2>1, <2>2
<1>18. ASSUME NEW i \in Nat, i < E PROVE p5[F + 2 + i] = e[i + 1]
  <2>1. PICK j \in Nat : j = F + 2 + i /\ j \in 1..(1 + F + E) /\ ~(j <= 1 + F) /\ j - (1 + F) = i + 1
    BY <1>2, <1>18
  <2>2. j \in 1..Total /\ j <= F + E + M + 2 /\ j <= F + E + 2 /\ j <= 1 + F + E
        /\ j \in 1..(F + E + M + 2) /\ j \in 1..(F + E + 2)
    BY <1>2, <2>1 DEF Total
  <2> QED BY <1>11, <1>12, <1>13, <1>14, <2>1, <2>2
<1>19. p5[F + E + 2] = Hold(TRUE)
  <2>1. PICK j \in Nat : j = F + E + 2 /\ ~(j <= 1 + F + E) /\ j - (1 + F + E) = 1
    BY <1>2
  <2>2. j \in 1..Total /\ j <= F + E + M + 2 /\ j <= F + E + 2
        /\ j \in 1..(F + E + M + 2) /\ j \in 1..(F + E + 2)
    BY <1>2, <2>1 DEF Total
  <2> QED BY <1>8, <1>12, <1>13, <1>14, <2>1, <2>2
<1>20. ASSUME NEW i \in Nat, i < M PROVE p5[F + E + 3 + i] = m[i + 1]
  <2>1. PICK j \in Nat : j = F + E + 3 + i /\ ~(j <= F + E + 2) /\ j - (F + E + 2) = i + 1
    BY <1>2
  <2>2. j \in 1..Total /\ j <= F + E + M + 2 /\ j \in 1..(F + E + M + 2)
    BY <1>2, <1>20, <2>1 DEF Total
  <2> QED BY <1>13, <1>14, <2>1, <2>2
<1>21. p5[Total] = Hold(FALSE)
  <2>1. Total \in 1..Total /\ ~(Total <= F + E + M + 2) /\ Total - (F + E + M + 2) = 1
    BY <1>2 DEF Total
  <2> QED BY <1>8, <1>14, <2>1
<1> QED BY <1>2, <1>3, <1>4, <1>5, <1>9, <1>15, <1>16, <1>17, <1>18, <1>19, <1>20, <1>21 DEF first

-----------------------------------------------------------------------------
(* What the requests make of an adapter that nothing was written to.       *)

Images == [fpga : 0..FpgaLength, configured : BOOLEAN, ext : SUBSET Bytes(ExtLength),
           ram : SUBSET Bytes(MainLength), cpu : {"boot", "held", "run"}]

(* After so many requests of each image.                                   *)
Written(f, e, m, cpu) ==
    [fpga |-> Reach(f, FpgaLength), configured |-> f = F, ext |-> Bytes(Reach(e, ExtLength)),
     ram |-> Bytes(Reach(m, MainLength)), cpu |-> cpu]

(* Before request n of a download.                                         *)
Before(n) ==
    IF n = 1 THEN NoImage
    ELSE IF n <= F + 1 THEN Written(n - 2, 0, 0, "boot")
    ELSE IF n <= F + E + 2 THEN Written(F, n - F - 2, 0, "boot")
    ELSE Written(F, E, n - F - E - 3, "held")

(* Nothing of the 8051's code is written before the other two images are   *)
(* there.                                                                  *)
InOrder(img) == img.ram # {} => img.configured /\ img.ext = Bytes(ExtLength)

(* What lies below b is what lies below a and what lies between.           *)
LEMMA BytesJoin ==
    ASSUME NEW a \in Nat, NEW b \in Nat, a <= b
    PROVE  Bytes(a) \cup a..(a + (b - a) - 1) = Bytes(b)
BY DEF Bytes

(* No request reaches past the end of its image.                           *)
LEMMA ReachWithin ==
    ASSUME NEW len \in Nat \ {0}, NEW i \in Nat
    PROVE  Reach(i, len) \in 0..len /\ Bytes(Reach(i, len)) \subseteq Bytes(len)
<1>1. Parts(len) \in Nat
  BY PartsOf
<1>2. Reach(i, len) \in 0..len
  <2>1. CASE i < Parts(len)
    <3>1. Reach(i, len) \in Nat /\ Reach(i, len) < len
      BY <2>1, ReachOf
    <3> QED BY <3>1
  <2>2. CASE i >= Parts(len)
    <3>1. Reach(i, len) = len
      BY <2>2, ReachOf
    <3> QED BY <3>1
  <2> QED BY <1>1, <2>1, <2>2
<1>3. PICK r \in 0..len : r = Reach(i, len)
  BY <1>2
<1>4. Bytes(r) \subseteq Bytes(len)
  BY DEF Bytes
<1> QED BY <1>2, <1>3, <1>4

(* However far a download has come, the adapter's memories are in order.   *)
LEMMA WrittenInOrder ==
    ASSUME NEW f \in Nat, NEW e \in Nat, NEW m \in Nat, NEW cpu \in {"boot", "held", "run"}
    PROVE  /\ Written(f, e, m, cpu) \in Images
           /\ m = 0 \/ (f = F /\ e = E) => InOrder(Written(f, e, m, cpu))
<1>1. FpgaLength \in Nat \ {0} /\ ExtLength \in Nat \ {0} /\ MainLength \in Nat \ {0}
  BY LoaderAssumption
<1>2. Written(f, e, m, cpu) \in Images
  BY <1>1, ReachWithin DEF Written, Images
<1>3. m = 0 => Written(f, e, m, cpu).ram = {}
  <2>1. Reach(0, MainLength) = 0
    BY <1>1, ReachOf
  <2>2. Bytes(0) = {}
    BY DEF Bytes
  <2> QED BY <2>1, <2>2 DEF Written
<1>4. e = E => Written(f, e, m, cpu).ext = Bytes(ExtLength)
  <2>1. E \in Nat /\ E >= E
    BY ProgramOf
  <2>2. Reach(E, ExtLength) = ExtLength
    BY <1>1, <2>1, ReachOf DEF E
  <2> QED BY <2>2 DEF Written
<1> QED BY <1>2, <1>3, <1>4 DEF InOrder, Written

(* So it is before each request of a download.                             *)
LEMMA BeforeInOrder ==
    ASSUME NEW n \in 1..Total
    PROVE  Before(n) \in Images /\ InOrder(Before(n))
<1>1. F \in Nat /\ E \in Nat /\ M \in Nat
  BY ProgramOf
<1>2. CASE n = 1
  <2>1. FpgaLength \in Nat
    BY LoaderAssumption
  <2> QED BY <1>2, <2>1 DEF Before, NoImage, Images, InOrder
<1>3. CASE n # 1 /\ n <= F + 1
  <2>1. n - 2 \in Nat
    BY <1>3
  <2>2. Before(n) = Written(n - 2, 0, 0, "boot")
    BY <1>3 DEF Before
  <2> QED BY <2>1, <2>2, WrittenInOrder
<1>4. CASE n # 1 /\ ~(n <= F + 1) /\ n <= F + E + 2
  <2>1. n - F - 2 \in Nat
    BY <1>1, <1>4
  <2>2. Before(n) = Written(F, n - F - 2, 0, "boot")
    BY <1>4 DEF Before
  <2> QED BY <1>1, <2>1, <2>2, WrittenInOrder
<1>5. CASE ~(n <= F + E + 2)
  <2>1. n - F - E - 3 \in Nat /\ n # 1 /\ ~(n <= F + 1)
    BY <1>1, <1>5
  <2>2. Before(n) = Written(F, E, n - F - E - 3, "held")
    BY <1>5, <2>1 DEF Before
  <2> QED BY <1>1, <2>1, <2>2, WrittenInOrder
<1> QED BY <1>2, <1>3, <1>4, <1>5

(* One more request of an image.                                           *)
LEMMA ObeyPart ==
    /\ \A i \in Nat : i < F =>
         Obey(Written(i, 0, 0, "boot"), Part("fpga", i, FpgaLength)) = Written(i + 1, 0, 0, "boot")
    /\ \A i \in Nat : i < E =>
         Obey(Written(F, i, 0, "boot"), Part("ext", i, ExtLength)) = Written(F, i + 1, 0, "boot")
    /\ \A i \in Nat : i < M =>
         Obey(Written(F, E, i, "held"), Part("ram", i, MainLength)) = Written(F, E, i + 1, "held")
<1>1. /\ FpgaLength \in Nat \ {0} /\ ExtLength \in Nat \ {0} /\ MainLength \in Nat \ {0}
      /\ F \in Nat /\ E \in Nat /\ M \in Nat
  BY LoaderAssumption, ProgramOf
<1>2. ASSUME NEW i \in Nat, i < F
      PROVE  Obey(Written(i, 0, 0, "boot"), Part("fpga", i, FpgaLength)) = Written(i + 1, 0, 0, "boot")
  <2>1. PICK a \in Nat, b \in Nat :
          /\ a = Reach(i, FpgaLength) /\ b = Reach(i + 1, FpgaLength)
          /\ b = FpgaLength <=> i + 1 = F
    BY <1>1, <1>2, ReachOf DEF F
  <2>2. Part("fpga", i, FpgaLength) = Request("fpga", a, b - a, i + 1 = F)
    BY <2>1 DEF Part, F
  <2>3. a + (b - a) = b
    OBVIOUS
  <2>4. PICK x, y : x = Bytes(Reach(0, ExtLength)) /\ y = Bytes(Reach(0, MainLength))
    OBVIOUS
  <2>5. Written(i, 0, 0, "boot") = [fpga |-> a, configured |-> i = F, ext |-> x, ram |-> y, cpu |-> "boot"]
        /\ Written(i + 1, 0, 0, "boot") = [fpga |-> b, configured |-> i + 1 = F, ext |-> x, ram |-> y, cpu |-> "boot"]
    BY <2>1, <2>4 DEF Written
  <2>6. (i + 1 = F /\ b = FpgaLength) = (i + 1 = F)
    BY <2>1
  <2>7. Obey([fpga |-> a, configured |-> i = F, ext |-> x, ram |-> y, cpu |-> "boot"],
             Request("fpga", a, b - a, i + 1 = F))
          = [fpga |-> a + (b - a), configured |-> i + 1 = F /\ a + (b - a) = FpgaLength,
             ext |-> x, ram |-> y, cpu |-> "boot"]
    BY DEF Obey, Request
  <2> QED BY <2>2, <2>3, <2>5, <2>6, <2>7
<1>3. ASSUME NEW i \in Nat, i < E
      PROVE  Obey(Written(F, i, 0, "boot"), Part("ext", i, ExtLength)) = Written(F, i + 1, 0, "boot")
  <2>1. PICK a \in Nat, b \in Nat : a = Reach(i, ExtLength) /\ b = Reach(i + 1, ExtLength) /\ a <= b
    <3>1. /\ Reach(i, ExtLength) \in Nat /\ Reach(i + 1, ExtLength) \in Nat
          /\ Reach(i, ExtLength) < Reach(i + 1, ExtLength)
      BY <1>1, <1>3, ReachOf DEF E
    <3> QED BY <3>1
  <2>2. PICK l : Part("ext", i, ExtLength) = Request("ext", a, b - a, l)
    BY <2>1 DEF Part
  <2>3. PICK x, y, c : x = Reach(F, FpgaLength) /\ y = Bytes(Reach(0, MainLength)) /\ c = (F = F)
    OBVIOUS
  <2>4. Written(F, i, 0, "boot") = [fpga |-> x, configured |-> c, ext |-> Bytes(a), ram |-> y, cpu |-> "boot"]
        /\ Written(F, i + 1, 0, "boot") = [fpga |-> x, configured |-> c, ext |-> Bytes(b), ram |-> y, cpu |-> "boot"]
    BY <2>1, <2>3 DEF Written
  <2>5. Obey([fpga |-> x, configured |-> c, ext |-> Bytes(a), ram |-> y, cpu |-> "boot"],
             Request("ext", a, b - a, l))
          = [fpga |-> x, configured |-> c, ext |-> Bytes(a) \cup a..(a + (b - a) - 1), ram |-> y, cpu |-> "boot"]
    BY DEF Obey, Request
  <2> QED BY <2>1, <2>2, <2>4, <2>5, BytesJoin
<1>4. ASSUME NEW i \in Nat, i < M
      PROVE  Obey(Written(F, E, i, "held"), Part("ram", i, MainLength)) = Written(F, E, i + 1, "held")
  <2>1. PICK a \in Nat, b \in Nat : a = Reach(i, MainLength) /\ b = Reach(i + 1, MainLength) /\ a <= b
    <3>1. /\ Reach(i, MainLength) \in Nat /\ Reach(i + 1, MainLength) \in Nat
          /\ Reach(i, MainLength) < Reach(i + 1, MainLength)
      BY <1>1, <1>4, ReachOf DEF M
    <3> QED BY <3>1
  <2>2. PICK l : Part("ram", i, MainLength) = Request("ram", a, b - a, l)
    BY <2>1 DEF Part
  <2>3. PICK x, y, c : x = Reach(F, FpgaLength) /\ y = Bytes(Reach(E, ExtLength)) /\ c = (F = F)
    OBVIOUS
  <2>4. Written(F, E, i, "held") = [fpga |-> x, configured |-> c, ext |-> y, ram |-> Bytes(a), cpu |-> "held"]
        /\ Written(F, E, i + 1, "held") = [fpga |-> x, configured |-> c, ext |-> y, ram |-> Bytes(b), cpu |-> "held"]
    BY <2>1, <2>3 DEF Written
  <2>5. Obey([fpga |-> x, configured |-> c, ext |-> y, ram |-> Bytes(a), cpu |-> "held"],
             Request("ram", a, b - a, l))
          = [fpga |-> x, configured |-> c, ext |-> y, ram |-> Bytes(a) \cup a..(a + (b - a) - 1), cpu |-> "held"]
    BY DEF Obey, Request
  <2> QED BY <2>1, <2>2, <2>4, <2>5, BytesJoin
<1> QED BY <1>2, <1>3, <1>4

(* A request for the reset changes no memory.                              *)
LEMMA ObeyHold ==
    ASSUME NEW img \in Images, InOrder(img), NEW h \in BOOLEAN
    PROVE  /\ Obey(img, Hold(h)) \in Images /\ InOrder(Obey(img, Hold(h)))
           /\ Obey(img, Hold(h)).cpu = "held" <=> h
<1>1. PICK c \in {"boot", "held", "run"} :
        /\ c = (IF h THEN "held" ELSE IF img.ram = {} THEN "boot" ELSE "run")
        /\ c = "held" <=> h
  OBVIOUS
<1>2. Obey(img, Hold(h)) = [img EXCEPT !.cpu = c]
  BY <1>1 DEF Obey, Hold, Request
<1>3. /\ [img EXCEPT !.cpu = c] \in Images
      /\ [img EXCEPT !.cpu = c].cpu = c /\ [img EXCEPT !.cpu = c].ram = img.ram
      /\ [img EXCEPT !.cpu = c].ext = img.ext /\ [img EXCEPT !.cpu = c].configured = img.configured
  BY DEF Images
<1> QED BY <1>1, <1>2, <1>3 DEF InOrder

(* Every request but the last leads from what the ones before it made of   *)
(* the adapter to what the next one finds.  Up to the code of the 8051 the *)
(* CPU runs as it did at power-up.                                         *)
LEMMA ObeyNext ==
    ASSUME NEW n \in 1..Total
    PROVE  /\ n # Total => Obey(Before(n), Program[n]) = Before(n + 1)
           /\ Program[n].to \notin {"cpu", "ram"} =>
                n # Total /\ Before(n).cpu = "boot" /\ Before(n + 1).cpu = "boot"
<1>1. F \in Nat \ {0} /\ E \in Nat \ {0} /\ M \in Nat \ {0}
  BY ProgramOf
<1>2. FpgaLength \in Nat \ {0} /\ ExtLength \in Nat \ {0} /\ MainLength \in Nat \ {0}
  BY LoaderAssumption
<1>3. Reach(0, FpgaLength) = 0 /\ Reach(0, ExtLength) = 0 /\ Reach(0, MainLength) = 0
  BY <1>2, ReachOf
<1>4. Reach(F, FpgaLength) = FpgaLength /\ Reach(E, ExtLength) = ExtLength
  <2>1. F >= F /\ E >= E
    BY <1>1
  <2>2. Reach(F, FpgaLength) = FpgaLength
    BY <1>1, <1>2, <2>1, ReachOf DEF F
  <2>3. Reach(E, ExtLength) = ExtLength
    BY <1>1, <1>2, <2>1, ReachOf DEF E
  <2> QED BY <2>2, <2>3
<1>5. Bytes(0) = {}
  BY DEF Bytes
<1>6. CASE n = 1
  <2>1. Program[n] = Request("begin", 0, 0, FALSE)
    BY <1>6, ProgramOf
  <2>2. Before(n) = NoImage
    BY <1>6 DEF Before
  <2>3. Before(n + 1) = Written(0, 0, 0, "boot")
    <3>1. n + 1 = 2 /\ 2 <= F + 1 /\ 2 # 1 /\ 2 - 2 = 0
      BY <1>1, <1>6
    <3> QED BY <3>1 DEF Before
  <2>4. (0 = F) = FALSE
    BY <1>1
  <2>5. Written(0, 0, 0, "boot") = [fpga |-> 0, configured |-> FALSE, ext |-> {}, ram |-> {}, cpu |-> "boot"]
    BY <1>3, <1>5, <2>4 DEF Written
  <2>6. Obey(NoImage, Request("begin", 0, 0, FALSE))
          = [fpga |-> 0, configured |-> FALSE, ext |-> {}, ram |-> {}, cpu |-> "boot"]
    BY DEF Obey, Request, NoImage
  <2>7. NoImage.cpu = "boot" /\ n # Total
    BY <1>1, <1>6 DEF NoImage, Total
  <2>8. Before(n + 1).cpu = "boot"
    BY <2>3, <2>5
  <2> QED BY <2>1, <2>2, <2>3, <2>5, <2>6, <2>7, <2>8
<1>7. CASE n # 1 /\ n <= F + 1
  <2>1. PICK i \in Nat : i < F /\ n = 2 + i /\ n - 2 = i /\ (n + 1) - 2 = i + 1
    <3>1. n - 2 \in Nat /\ n - 2 < F /\ n = 2 + (n - 2) /\ (n + 1) - 2 = (n - 2) + 1
      BY <1>1, <1>7
    <3> QED BY <3>1
  <2>2. Program[n] = Part("fpga", i, FpgaLength)
    BY <2>1, ProgramOf
  <2>3. Before(n) = Written(i, 0, 0, "boot")
    BY <1>7, <2>1 DEF Before
  <2>4. Before(n + 1) = Written(i + 1, 0, 0, "boot")
    <3>1. CASE n + 1 <= F + 1
      <4>1. n + 1 # 1
        BY <1>1
      <4> QED BY <2>1, <3>1, <4>1 DEF Before
    <3>2. CASE ~(n + 1 <= F + 1)
      <4>1. n + 1 # 1 /\ n + 1 <= F + E + 2 /\ (n + 1) - F - 2 = 0 /\ i + 1 = F
        BY <1>1, <1>7, <2>1, <3>2
      <4> QED BY <3>2, <4>1 DEF Before
    <3> QED BY <3>1, <3>2
  <2>5. Written(i, 0, 0, "boot").cpu = "boot" /\ Written(i + 1, 0, 0, "boot").cpu = "boot" /\ n # Total
    BY <1>1, <1>7 DEF Written, Total
  <2> QED BY <2>1, <2>2, <2>3, <2>4, <2>5, ObeyPart
<1>8. CASE ~(n <= F + 1) /\ n < F + E + 2
  <2>1. PICK i \in Nat : i < E /\ n = F + 2 + i /\ n - F - 2 = i /\ (n + 1) - F - 2 = i + 1
    <3>1. n - F - 2 \in Nat /\ n - F - 2 < E /\ n = F + 2 + (n - F - 2)
          /\ (n + 1) - F - 2 = (n - F - 2) + 1
      BY <1>1, <1>8
    <3> QED BY <3>1
  <2>2. Program[n] = Part("ext", i, ExtLength)
    BY <2>1, ProgramOf
  <2>3. n # 1 /\ n <= F + E + 2 /\ n + 1 # 1 /\ ~(n + 1 <= F + 1) /\ n + 1 <= F + E + 2 /\ n # Total
    BY <1>1, <1>8 DEF Total
  <2>4. Before(n) = Written(F, i, 0, "boot") /\ Before(n + 1) = Written(F, i + 1, 0, "boot")
    BY <1>8, <2>1, <2>3 DEF Before
  <2>5. Written(F, i, 0, "boot").cpu = "boot" /\ Written(F, i + 1, 0, "boot").cpu = "boot"
    BY DEF Written
  <2> QED BY <2>1, <2>2, <2>3, <2>4, <2>5, ObeyPart
<1>9. CASE n = F + E + 2
  <2>1. Program[n] = Hold(TRUE) /\ Program[n].to = "cpu"
    BY <1>9, ProgramOf DEF Hold, Request
  <2>2. n # 1 /\ ~(n <= F + 1) /\ n <= F + E + 2 /\ n - F - 2 = E
        /\ n + 1 # 1 /\ ~(n + 1 <= F + 1) /\ ~(n + 1 <= F + E + 2) /\ (n + 1) - F - E - 3 = 0
    BY <1>1, <1>9
  <2>3. Before(n) = Written(F, E, 0, "boot") /\ Before(n + 1) = Written(F, E, 0, "held")
    BY <2>2 DEF Before
  <2>4. Obey(Written(F, E, 0, "boot"), Hold(TRUE)) = Written(F, E, 0, "held")
    BY DEF Obey, Hold, Request, Written
  <2> QED BY <2>1, <2>3, <2>4
<1>10. CASE ~(n <= F + E + 2) /\ n # Total
  <2>1. PICK i \in Nat : i < M /\ n = F + E + 3 + i /\ n - F - E - 3 = i /\ (n + 1) - F - E - 3 = i + 1
    <3>1. n - F - E - 3 \in Nat /\ n - F - E - 3 < M /\ n = F + E + 3 + (n - F - E - 3)
          /\ (n + 1) - F - E - 3 = (n - F - E - 3) + 1
      BY <1>1, <1>10 DEF Total
    <3> QED BY <3>1
  <2>2. Program[n] = Part("ram", i, MainLength)
    BY <2>1, ProgramOf
  <2>3. n # 1 /\ ~(n <= F + 1) /\ n + 1 # 1 /\ ~(n + 1 <= F + 1) /\ ~(n + 1 <= F + E + 2)
    BY <1>1, <1>10
  <2>4. Before(n) = Written(F, E, i, "held") /\ Before(n + 1) = Written(F, E, i + 1, "held")
    BY <1>10, <2>1, <2>3 DEF Before
  <2>5. Program[n].to = "ram"
    BY <2>2 DEF Part, Request
  <2> QED BY <2>1, <2>2, <2>4, <2>5, ObeyPart
<1>11. CASE n = Total
  <2>1. Program[n].to = "cpu"
    BY <1>11, ProgramOf DEF Hold, Request
  <2> QED BY <1>11, <2>1
<1> QED BY <1>1, <1>6, <1>7, <1>8, <1>9, <1>10, <1>11

(* At every request the memories are in order, if it arrives; and the last *)
(* one lets the CPU go.                                                    *)
LEMMA ObeyInOrder ==
    ASSUME NEW n \in 1..Total
    PROVE  /\ Obey(Before(n), Program[n]) \in Images /\ InOrder(Obey(Before(n), Program[n]))
           /\ n = Total => Obey(Before(n), Program[n]).cpu # "held"
<1>1. Total \in Nat /\ Total # 0
  BY ProgramOf DEF Total
<1>2. CASE n = Total
  <2>1. Program[n] = Hold(FALSE)
    BY <1>2, ProgramOf
  <2> QED BY <2>1, BeforeInOrder, ObeyHold
<1>3. CASE n # Total
  <2>1. n + 1 \in 1..Total
    BY <1>1, <1>3
  <2> QED BY <1>3, <2>1, ObeyNext, BeforeInOrder
<1> QED BY <1>2, <1>3
-----------------------------------------------------------------------------
(* The invariant of a download.                                            *)

DownloadTyped ==
    /\ ld.next \in 1..Total /\ plugs \in 0..MaxPlugs
    /\ image \in Images /\ device \in Services \cup {Nobody, Loader}
    /\ ld.phase = "none" => ld = NoLoader

(* The loader writes to the adapter it was started for, which has no       *)
(* firmware yet, and it has come as far as its requests say.               *)
Underway ==
    ~ld.gone =>
      /\ ld.phase \in {"loading", "cleaning"} => usb.id = "loader" /\ usb.kind = "kusb"
      /\ ld.phase = "loading" => image = Before(ld.next)

(* Only a loader that was started for the adapter has written to it.       *)
Untouched == ld.phase = "none" \/ ld.gone => usb.id = "ready" \/ image = NoImage

(* A service works with an adapter that has its firmware.                  *)
ServesReady ==
    /\ \A s \in Services : svc[s].phase \in Opened /\ ~svc[s].gone => usb.id # "loader"
    /\ device \in Services => usb.id = "ready"

Firm ==
    /\ DownloadTyped /\ InOrder(image) /\ Underway /\ Untouched /\ ServesReady
    /\ FirmwareWhole

(* Steps that change neither the port nor the loader.                      *)
LEMMA FirmStays ==
    ASSUME Firm, UNCHANGED <<usb, plugs, image, ld>>,
           device' \in Services \cup {Nobody, Loader}, ServesReady'
    PROVE  Firm'
BY DEF Firm, DownloadTyped, Underway, Untouched, FirmwareWhole

(* Only a service that has opened the interface opens the device, and the  *)
(* interface is not opened while the adapter has no firmware.              *)
LEMMA ServiceKeepsFirm ==
    ASSUME Held, Firm, NEW s \in Services, Match(s) \/ ServiceStep(s)
    PROVE  Firm'
<1>1. svc \in [Services -> Service] /\ usb \in Port
  BY DEF Held, Typed
<1>2. UNCHANGED <<usb, plugs, image, ld>>
  BY DEF Match, ServiceStep, Refuse, OpenInterface, OpenDevice, Attach, AttachFails, Publish, BoardFails,
         Stop, Free
<1>3. /\ \A z \in Services \ {s} : svc'[z] = svc[z]
      /\ svc'[s].phase \in Opened /\ ~svc'[s].gone =>
           (svc[s].phase \in Opened /\ ~svc[s].gone) \/ usb.id # "loader"
  <2>1. CASE Match(s)
    BY <1>1, <2>1 DEF Match, Opened, Service
  <2>2. CASE Refuse(s)
    BY <1>1, <2>2 DEF Refuse, Fail, Opened, Service
  <2>3. CASE OpenInterface(s)
    <3>1. usb.id # "loader" \/ svc'[s].gone
      BY <1>1, <2>3 DEF OpenInterface, Fail, Service
    <3>2. \A z \in Services \ {s} : svc'[z] = svc[z]
      BY <1>1, <2>3 DEF OpenInterface, Fail
    <3> QED BY <3>1, <3>2
  <2>4. CASE OpenDevice(s) \/ Attach(s) \/ Publish(s)
    BY <1>1, <2>4 DEF OpenDevice, Attach, Publish, Opened, Service
  <2>5. CASE AttachFails(s) \/ BoardFails(s)
    <3>1. StartFails(s)
      BY <2>5 DEF AttachFails, BoardFails
    <3> QED BY <1>1, <3>1 DEF StartFails, Fail, Opened, Service
  <2>6. CASE Stop(s)
    BY <1>1, <2>6 DEF Stop, Opened, Service
  <2>7. CASE Free(s)
    BY <1>1, <2>7 DEF Free, NoService, Opened
  <2> QED BY <2>1, <2>2, <2>3, <2>4, <2>5, <2>6, <2>7 DEF ServiceStep
<1>4. device' \in {device, Nobody} \/ (device' = s /\ svc[s].phase = "opened" /\ ~svc[s].gone)
  BY DEF Match, ServiceStep, Refuse, OpenInterface, OpenDevice, Attach, AttachFails, Publish, BoardFails,
         Stop, Free
<1>5. \A z \in Services : svc'[z].phase \in Opened /\ ~svc'[z].gone => usb.id # "loader"
  BY <1>3 DEF Firm, ServesReady
<1>6. device' \in Services => usb.id = "ready"
  <2>1. CASE device' = device
    BY <2>1 DEF Firm, ServesReady
  <2>2. CASE device' = Nobody
    BY <2>2, ServiceAssumption
  <2>3. CASE device' = s /\ svc[s].phase = "opened" /\ ~svc[s].gone
    <3>1. usb.id # "loader" /\ usb.id # "none"
      BY <2>3 DEF Firm, ServesReady, Held, Current, Opened
    <3> QED BY <1>1, <3>1 DEF Port
  <2> QED BY <1>4, <2>1, <2>2, <2>3
<1>7. ServesReady'
  BY <1>2, <1>5, <1>6 DEF ServesReady
<1> QED BY <1>2, <1>4, <1>7, FirmStays DEF Firm, DownloadTyped

(* What clients do touches neither the port nor the phase of a service.    *)
LEMMA ClientKeepsFirm ==
    ASSUME Held, Firm, UNCHANGED <<usb, plugs, image, device, ld>>,
           svc' = svc \/ \E s \in Services, on \in BOOLEAN : svc' = [svc EXCEPT ![s].online = on]
    PROVE  Firm'
<1>1. svc \in [Services -> Service]
  BY DEF Held, Typed
<1>2. \A z \in Services : svc'[z].phase = svc[z].phase /\ svc'[z].gone = svc[z].gone
  <2>1. CASE svc' = svc
    BY <2>1
  <2>2. ASSUME NEW s \in Services, NEW on \in BOOLEAN, svc' = [svc EXCEPT ![s].online = on]
        PROVE  \A z \in Services : svc'[z].phase = svc[z].phase /\ svc'[z].gone = svc[z].gone
    BY <1>1, <2>2 DEF Service
  <2> QED BY <2>1, <2>2
<1>3. ServesReady'
  BY <1>2 DEF Firm, ServesReady
<1> QED BY <1>3, FirmStays DEF Firm, DownloadTyped

-----------------------------------------------------------------------------
(* An adapter that leaves or comes has nothing written to it, or it has    *)
(* everything and shows so.                                                *)
LEMMA ArrivalKeepsFirm ==
    ASSUME Held, Firm, NEW p \in Port, Arrives(p), plugs' \in 0..MaxPlugs,
           p.kind = "kusb" /\ p.id = "ready" => Whole(image),
           \/ Leave
           \/ usb.id = "none" /\ UNCHANGED <<device, ld, svc>>
    PROVE  Firm'
<1>1. usb' = p /\ image' = (IF p.kind = "kusb" /\ p.id = "ready" THEN image ELSE NoImage)
  BY DEF Arrives
<1>2. NoImage \in Images /\ InOrder(NoImage) /\ NoImage.cpu = "boot"
  <2>1. 1 \in 1..Total /\ Before(1) = NoImage
    BY ProgramOf DEF Before, Total
  <2> QED BY <2>1, BeforeInOrder DEF NoImage
<1>3. image' \in Images /\ InOrder(image')
  BY <1>1, <1>2 DEF Firm, DownloadTyped
<1>4. ld \in LoaderStates /\ svc \in [Services -> Service]
  BY DEF Held, Typed
<1>5. /\ ld'.next \in 1..Total
      /\ ld'.phase = "none" => ld' = NoLoader
      /\ ld'.phase \in {"loading", "cleaning"} => ld'.gone
  <2>1. ld.next \in 1..Total /\ (ld.phase = "none" => ld = NoLoader)
    BY DEF Firm, DownloadTyped
  <2>2. CASE Leave
    <3>1. ld' = IF ld.phase = "none" THEN ld ELSE [ld EXCEPT !.gone = TRUE]
      BY <2>2 DEF Leave, DeviceLeaves
    <3>2. CASE ld.phase = "none"
      BY <2>1, <3>1, <3>2
    <3>3. CASE ld.phase # "none"
      BY <1>4, <2>1, <3>1, <3>3 DEF LoaderStates
    <3> QED BY <3>2, <3>3
  <2>3. CASE usb.id = "none" /\ ld' = ld
    <3>1. ld.phase \in {"loading", "cleaning"} => ld.gone
      BY <1>4, <2>3 DEF Firm, Underway, LoaderStates
    <3> QED BY <2>1, <2>3, <3>1
  <2> QED BY <2>2, <2>3
<1>6. device' \in {Nobody, Loader}
  <2>1. CASE Leave
    BY <2>1 DEF Leave
  <2>2. CASE usb.id = "none" /\ device' = device
    BY <2>2 DEF Firm, DownloadTyped, ServesReady
  <2> QED BY <2>1, <2>2
<1>7. \A s \in Services : svc'[s].phase = "none" \/ svc'[s].gone
  <2>1. CASE Leave
    <3>1. svc' = [s \in Services |->
                    IF svc[s] = NoService THEN svc[s] ELSE [svc[s] EXCEPT !.gone = TRUE]]
      BY <2>1 DEF Leave
    <3>2. ASSUME NEW s \in Services PROVE svc'[s].phase = "none" \/ svc'[s].gone
      <4>1. CASE svc[s] = NoService
        BY <3>1, <4>1 DEF NoService
      <4>2. CASE svc[s] # NoService
        BY <1>4, <3>1, <4>2 DEF Service
      <4> QED BY <4>1, <4>2
    <3> QED BY <3>2
  <2>2. CASE usb.id = "none" /\ svc' = svc
    BY <2>2 DEF Held, Current
  <2> QED BY <2>1, <2>2
<1>8. DownloadTyped' /\ InOrder(image)'
  BY <1>3, <1>5, <1>6 DEF DownloadTyped
<1>9. Underway'
  BY <1>5 DEF Underway
<1>10. Untouched'
  BY <1>1 DEF Untouched
<1>11. ServesReady'
  BY <1>6, <1>7, ServiceAssumption DEF ServesReady, Opened
<1>12. FirmwareWhole'
  BY <1>1, <1>2 DEF FirmwareWhole, Whole
<1> QED BY <1>8, <1>9, <1>10, <1>11, <1>12 DEF Firm

(* An adapter is plugged in or out, comes up with its firmware, or is      *)
(* reset by a service that works with it.                                  *)
LEMMA PortKeepsFirm ==
    ASSUME Held, Firm,
           \/ Unplug \/ ComesUp
           \/ \E p \in Port : Plug(p)
           \/ \E u \in UserClients, id \in {"loader", "ready"} : ResetDevice(u, id)
    PROVE  Firm'
<1>1. /\ usb \in Port /\ uc \in [UserClients -> Client] /\ plugs \in 0..MaxPlugs
      /\ MaxPlugs \in Nat
  BY LoaderAssumption DEF Held, Typed, Firm, DownloadTyped
<1>2. ASSUME NEW id \in {"none", "loader", "ready"}
      PROVE  /\ [usb EXCEPT !.id = id] \in Port
             /\ [usb EXCEPT !.id = id].id = id /\ [usb EXCEPT !.id = id].kind = usb.kind
  BY <1>1 DEF Port
<1>3. CASE Unplug
  <2> DEFINE p == [usb EXCEPT !.id = "none"]
  <2>1. p \in Port /\ p.id = "none"
    BY <1>2
  <2>2. Arrives(p) /\ Leave /\ plugs' = plugs
    BY <1>3 DEF Unplug
  <2> HIDE DEF p
  <2> QED BY <1>1, <2>1, <2>2, ArrivalKeepsFirm
<1>4. CASE ComesUp
  <2> DEFINE p == [usb EXCEPT !.id = "ready"]
  <2>1. p \in Port
    BY <1>2
  <2>2. Arrives(p) /\ Leave /\ plugs' = plugs /\ image.ram = 0..(MainLength - 1)
    BY <1>4 DEF ComesUp
  <2>3. Whole(image)
    <3>1. 0 \in 0..(MainLength - 1)
      BY LoaderAssumption
    <3>2. image.ram # {}
      BY <2>2, <3>1
    <3> QED BY <2>2, <3>2 DEF Firm, InOrder, Whole, Bytes
  <2> HIDE DEF p
  <2> QED BY <1>1, <2>1, <2>2, <2>3, ArrivalKeepsFirm
<1>5. ASSUME NEW p \in Port, Plug(p) PROVE Firm'
  <2>1. /\ Arrives(p) /\ usb.id = "none" /\ UNCHANGED <<device, ld, svc>>
        /\ p.kind = "kusb" => p.id = "loader"
    BY <1>5 DEF Plug
  <2>2. plugs' \in 0..MaxPlugs
    BY <1>1, <1>5 DEF Plug
  <2> QED BY <2>1, <2>2, ArrivalKeepsFirm
<1>6. ASSUME NEW u \in UserClients, NEW id \in {"loader", "ready"}, ResetDevice(u, id) PROVE Firm'
  <2> DEFINE p == [usb EXCEPT !.id = id]
  <2>1. p \in Port
    BY <1>2
  <2>2. Arrives(p) /\ Leave /\ usb.kind = "kusb" /\ device = uc[u].board /\ uc[u].board # Nobody
    BY <1>6 DEF ResetDevice
  <2>3. plugs' \in 0..MaxPlugs
    BY <1>1, <1>6 DEF ResetDevice
  <2>4. device \in Services
    BY <1>1, <2>2 DEF Client
  <2>5. Whole(image)
    BY <2>2, <2>4 DEF Firm, ServesReady, FirmwareWhole
  <2> HIDE DEF p
  <2> QED BY <2>1, <2>2, <2>3, <2>5, ArrivalKeepsFirm
<1> QED BY <1>3, <1>4, <1>5, <1>6

-----------------------------------------------------------------------------
(* The loader writes from the first request to the last that arrives, and  *)
(* lets the CPU go unless the request for that was lost.                   *)
LEMMA LoaderKeepsFirm ==
    ASSUME Held, Firm, LoaderNext, UNCHANGED <<svc, iface, uc>>
    PROVE  Firm'
<1>1. /\ ld \in LoaderStates /\ usb \in Port /\ UNCHANGED <<usb, plugs>>
      /\ ld.next \in 1..Total /\ plugs \in 0..MaxPlugs
      /\ image \in Images /\ InOrder(image)
      /\ device \in Services \cup {Nobody, Loader}
  BY DEF Held, Typed, Firm, DownloadTyped, LoaderNext, LoaderStart, Send, SendFails, Release, LoaderFree
<1>2. Total \in Nat /\ Total # 0 /\ Len(Program) = Total
  BY ProgramOf DEF Total
<1>3. device' \in {device, Nobody, Loader}
  BY DEF LoaderNext, LoaderStart, Send, SendFails, Release, LoaderFree, EndLoad, AfterFailure
<1>4. ServesReady'
  <2>1. device' \in Services => usb.id = "ready"
    BY <1>3, ServiceAssumption DEF Firm, ServesReady
  <2> QED BY <1>1, <2>1 DEF Firm, ServesReady
<1>5. ld.gone => usb.id = "ready" \/ image = NoImage
  BY DEF Firm, Untouched
<1>6. NoImage.cpu = "boot" /\ Before(1) = NoImage
  BY DEF NoImage, Before
<1> DEFINE Sound == /\ ld'.next \in 1..Total
                    /\ ld'.phase = "none" => ld' = NoLoader
                    /\ image' \in Images /\ InOrder(image')
                    /\ Underway' /\ Untouched'
                    /\ usb.kind = "kusb" /\ usb.id = "ready" => image' = image
                    /\ ld'.phase = "ended" /\ usb.id = "loader" /\ image'.cpu = "held" => ld'.reset
<1>7. ASSUME Sound PROVE Firm'
  <2>1. DownloadTyped'
    BY <1>1, <1>3, <1>7 DEF DownloadTyped
  <2>2. FirmwareWhole'
    BY <1>1, <1>7 DEF Firm, FirmwareWhole, Whole
  <2> QED BY <1>4, <1>7, <2>1, <2>2 DEF Firm
<1>8. CASE LoaderStart
  <2>1. ld = NoLoader /\ image' = image /\ usb.kind = "kusb"
    BY <1>8 DEF LoaderStart, Firm, DownloadTyped
  <2>2. usb.id = "ready" \/ image = NoImage
    BY <1>8 DEF LoaderStart, Firm, Untouched
  <2>3. \/ ld' = [ld EXCEPT !.phase = "ended"]
        \/ ld' = [ld EXCEPT !.phase = "loading"] /\ usb.id = "loader"
    BY <1>8 DEF LoaderStart
  <2>4. /\ ld'.next = 1 /\ ld'.gone = FALSE
        /\ ld'.phase = "ended" \/ (ld'.phase = "loading" /\ usb.id = "loader")
    BY <2>1, <2>3 DEF NoLoader
  <2>5. Underway'
    BY <1>1, <1>6, <2>1, <2>2, <2>4 DEF Underway
  <2>6. Untouched'
    BY <2>4 DEF Untouched
  <2>7. image'.cpu = "held" => usb.id # "loader"
    BY <1>6, <2>1, <2>2
  <2>8. Sound
    BY <1>1, <1>2, <2>1, <2>4, <2>5, <2>6, <2>7
  <2> QED BY <1>7, <2>8
<1>9. ASSUME ld.phase = "loading", ~ld.gone
      PROVE  /\ usb.id = "loader" /\ image = Before(ld.next)
             /\ Obey(image, Program[ld.next]) \in Images /\ InOrder(Obey(image, Program[ld.next]))
             /\ ld.next = Total => Obey(image, Program[ld.next]).cpu # "held"
             /\ ld.next # Total => Obey(image, Program[ld.next]) = Before(ld.next + 1)
             /\ Program[ld.next].to \notin {"cpu", "ram"} =>
                  image.cpu = "boot" /\ Obey(image, Program[ld.next]).cpu = "boot"
  <2>1. usb.id = "loader" /\ image = Before(ld.next)
    BY <1>9 DEF Firm, Underway
  <2>2. PICK n \in 1..Total : n = ld.next
    BY <1>1
  <2> QED BY <2>1, <2>2, ObeyInOrder, ObeyNext
<1>10. CASE Send
  <2>1. ld.phase = "loading" /\ ld.gone = FALSE /\ image' = Obey(image, Program[ld.next])
    BY <1>1, <1>10 DEF Send, LoaderStates
  <2>2. CASE ld.next = Total
    <3>1. ld' = [ld EXCEPT !.phase = "ended"]
      BY <1>2, <1>10, <2>2 DEF Send, EndLoad
    <3>2. ld'.phase = "ended" /\ ld'.gone = FALSE /\ ld'.next = ld.next
      BY <1>1, <2>1, <3>1 DEF LoaderStates
    <3>3. Underway' /\ Untouched'
      BY <3>2 DEF Underway, Untouched
    <3>4. Sound
      BY <1>1, <1>9, <2>1, <2>2, <3>2, <3>3
    <3> QED BY <1>7, <3>4
  <2>3. CASE ld.next # Total
    <3>1. ld' = [ld EXCEPT !.next = @ + 1]
      BY <1>2, <1>10, <2>3 DEF Send
    <3>2. ld'.phase = "loading" /\ ld'.gone = FALSE /\ ld'.next = ld.next + 1
      BY <1>1, <2>1, <3>1 DEF LoaderStates
    <3>3. usb.kind = "kusb" /\ usb.id = "loader" /\ image' = Before(ld'.next)
      BY <1>9, <2>1, <2>3, <3>2 DEF Firm, Underway
    <3>4. Underway' /\ Untouched'
      BY <1>1, <3>2, <3>3 DEF Underway, Untouched
    <3>5. ld'.next \in 1..Total
      BY <1>1, <1>2, <2>3, <3>2
    <3>6. Sound
      BY <1>9, <2>1, <3>2, <3>3, <3>4, <3>5
    <3> QED BY <1>7, <3>6
  <2> QED BY <2>2, <2>3
<1>11. ASSUME NEW arrived \in BOOLEAN, SendFails(arrived) PROVE Firm'
  <2>1. /\ ld.phase = "loading" /\ (arrived => ~ld.gone)
        /\ image' = IF arrived THEN Obey(image, Program[ld.next]) ELSE image
    BY <1>11 DEF SendFails
  <2>2. PICK to : to = Program[ld.next].to
    OBVIOUS
  <2>3. /\ ld'.next = ld.next /\ ld'.gone = ld.gone
        /\ \/ ld'.phase = "cleaning"
           \/ ld'.phase = "ended" /\ to # "ram" /\ (to = "cpu" => ld'.reset)
    <3>1. PICK l \in LoaderStates :
            /\ l = Failed(Program[ld.next]) /\ l.next = ld.next /\ l.gone = ld.gone
            /\ to = "cpu" => l.reset
      <4>1. PICK r \in BOOLEAN : r = (ld.reset \/ to = "cpu")
        OBVIOUS
      <4>2. Failed(Program[ld.next]) = [ld EXCEPT !.lost = TRUE, !.reset = r]
        BY <1>1, <2>2, <4>1 DEF Failed, LoaderStates
      <4>3. [ld EXCEPT !.lost = TRUE, !.reset = r] \in LoaderStates
        BY <1>1 DEF LoaderStates
      <4>4. /\ [ld EXCEPT !.lost = TRUE, !.reset = r].next = ld.next
            /\ [ld EXCEPT !.lost = TRUE, !.reset = r].gone = ld.gone
            /\ [ld EXCEPT !.lost = TRUE, !.reset = r].reset = r
        BY <1>1 DEF LoaderStates
      <4> QED BY <4>1, <4>2, <4>3, <4>4
    <3>2. CASE to = "ram"
      <4>1. ld' = [l EXCEPT !.phase = "cleaning"]
        BY <1>11, <2>2, <3>1, <3>2 DEF SendFails, AfterFailure
      <4> QED BY <3>1, <4>1 DEF LoaderStates
    <3>3. CASE to # "ram"
      <4>1. ld' = [l EXCEPT !.phase = "ended"]
        BY <1>11, <2>2, <3>1, <3>3 DEF SendFails, AfterFailure, EndLoad
      <4> QED BY <3>1, <3>3, <4>1 DEF LoaderStates
    <3> QED BY <3>2, <3>3
  <2>4. image' \in Images /\ InOrder(image') /\ (usb.id = "ready" => image' = image)
        /\ (ld.gone => image' = image)
    BY <1>1, <1>9, <2>1
  <2>5. usb.id = "loader" /\ to \notin {"cpu", "ram"} => image'.cpu = "boot"
    BY <1>5, <1>6, <1>9, <2>1, <2>2
  <2>6. Underway'
    BY <1>1, <1>9, <2>1, <2>3 DEF Underway, Firm
  <2>7. Untouched'
    BY <1>1, <1>5, <2>3, <2>4 DEF Untouched
  <2>8. Sound
    BY <1>1, <2>3, <2>4, <2>5, <2>6, <2>7
  <2> QED BY <1>7, <2>8
<1>12. ASSUME NEW arrived \in BOOLEAN, Release(arrived) PROVE Firm'
  <2>1. /\ ld.phase = "cleaning" /\ (arrived => ~ld.gone)
        /\ image' = IF arrived THEN Obey(image, Hold(FALSE)) ELSE image
    BY <1>12 DEF Release
  <2>2. /\ ld'.phase = "ended" /\ ld'.next = ld.next /\ ld'.gone = ld.gone
        /\ ~arrived => ld'.reset
    <3>1. CASE arrived
      <4>1. ld' = [ld EXCEPT !.phase = "ended"]
        BY <1>12, <3>1 DEF Release, EndLoad
      <4> QED BY <1>1, <3>1, <4>1 DEF LoaderStates
    <3>2. CASE ~arrived
      <4>1. ld' = [[ld EXCEPT !.reset = TRUE] EXCEPT !.phase = "ended"]
        BY <1>12, <3>2 DEF Release, EndLoad
      <4> QED BY <1>1, <4>1 DEF LoaderStates
    <3> QED BY <3>1, <3>2
  <2>3. arrived => usb.id = "loader"
    BY <2>1 DEF Firm, Underway
  <2>4. /\ image' \in Images /\ InOrder(image') /\ (arrived => image'.cpu # "held")
        /\ ~arrived => image' = image
    BY <1>1, <2>1, ObeyHold
  <2>5. Underway'
    BY <2>2 DEF Underway
  <2>6. Untouched'
    BY <1>1, <1>5, <2>1, <2>2, <2>4 DEF Untouched
  <2>7. Sound
    BY <1>1, <2>2, <2>3, <2>4, <2>5, <2>6
  <2> QED BY <1>7, <2>7
<1>13. CASE LoaderFree
  <2>1. ld.gone /\ ld' = NoLoader /\ image' = image
    BY <1>13 DEF LoaderFree
  <2>2. ld'.next = 1 /\ ld'.phase = "none"
    BY <2>1 DEF NoLoader
  <2>3. Underway' /\ Untouched'
    BY <1>1, <1>5, <2>1, <2>2 DEF Underway, Untouched
  <2>4. Sound
    BY <1>1, <1>2, <2>1, <2>2, <2>3
  <2> QED BY <1>7, <2>4
<1> HIDE DEF Sound
<1> QED BY <1>8, <1>10, <1>11, <1>12, <1>13 DEF LoaderNext

-----------------------------------------------------------------------------
(* Every step keeps the invariant, ...                                     *)
LEMMA StepKeepsFirm ==
    ASSUME Held, Firm, [Next]_vars
    PROVE  Firm'
<1>1. CASE UNCHANGED vars
  <2>1. ServesReady' /\ device' \in Services \cup {Nobody, Loader}
    BY <1>1 DEF vars, Firm, DownloadTyped, ServesReady
  <2> QED BY <1>1, <2>1, FirmStays DEF vars
<1>2. CASE LoaderNext /\ UNCHANGED <<svc, iface, uc>>
  BY <1>2, LoaderKeepsFirm
<1>3. ASSUME NEW s \in Services, Match(s) \/ ServiceStep(s) PROVE Firm'
  BY <1>3, ServiceKeepsFirm
<1>4. ASSUME NEW u \in UserClients,
             \/ \E s \in Services, type \in {0, 1} : NewUserClient(u, s, type)
             \/ ClientStep(u) \/ StopClient(u)
             \/ \E req \in Requests : Dispatch(u, req)
      PROVE  Firm'
  <2>1. UNCHANGED <<usb, plugs, image, device, ld, svc>>
    BY <1>4 DEF NewUserClient, ClientStep, StartClient, StopClient, FreeClient, Dispatch
  <2> QED BY <2>1, ClientKeepsFirm
<1>5. ASSUME NEW u \in UserClients, NEW on \in BOOLEAN, SetOnline(u, on) PROVE Firm'
  <2>1. /\ UNCHANGED <<usb, plugs, image, device, ld>> /\ uc[u].board \in Services
        /\ svc' = [svc EXCEPT ![uc[u].board].online = on]
    BY <1>5 DEF SetOnline, Held, Typed, Client
  <2> QED BY <2>1, ClientKeepsFirm
<1>6. CASE \/ Unplug \/ ComesUp
           \/ \E p \in Port : Plug(p)
           \/ \E u \in UserClients, id \in {"loader", "ready"} : ResetDevice(u, id)
  BY <1>6, PortKeepsFirm
<1> QED BY <1>1, <1>2, <1>3, <1>4, <1>5, <1>6 DEF Next

(* ... which holds of an empty port ...                                    *)
LEMMA InitIsFirm == Init => Firm
<1> SUFFICES ASSUME Init PROVE Firm
  OBVIOUS
<1>1. /\ usb.id = "none" /\ plugs = 0 /\ image = NoImage /\ device = Nobody /\ ld = NoLoader
      /\ svc = [s \in Services |-> NoService]
  BY DEF Init, LoaderInit
<1>2. 1 \in 1..Total /\ Before(1) = NoImage
  BY ProgramOf DEF Before, Total
<1>3. NoImage \in Images /\ InOrder(NoImage)
  BY <1>2, BeforeInOrder
<1>4. 0 \in 0..MaxPlugs
  BY LoaderAssumption
<1>5. DownloadTyped
  BY <1>1, <1>2, <1>3, <1>4 DEF DownloadTyped, NoLoader
<1>6. Underway /\ Untouched /\ FirmwareWhole
  BY <1>1 DEF Underway, Untouched, FirmwareWhole, NoLoader
<1>7. ServesReady
  BY <1>1, ServiceAssumption DEF ServesReady, NoService, Opened
<1> QED BY <1>1, <1>3, <1>5, <1>6, <1>7 DEF Firm

(* ... and so always.                                                      *)
LEMMA FirmAlways == Spec => []Firm
BY InitHolds, StepKeeps, InitIsFirm, StepKeepsFirm, PTL DEF Spec

(* Every variable keeps to its kind of value; among them the position of   *)
(* the download, which never runs past its last request, and the adapter's *)
(* memories, which are never written past the lengths of the images.       *)
THEOREM DextTypes == Spec => []TypeOK
<1>1. Held /\ Firm => TypeOK
  <2> SUFFICES ASSUME Held, Firm PROVE TypeOK
    OBVIOUS
  <2>1. image.fpga \in 0..FpgaLength /\ image.configured \in BOOLEAN
        /\ image.ext \subseteq Bytes(ExtLength) /\ image.ram \subseteq Bytes(MainLength)
        /\ image.cpu \in {"boot", "held", "run"}
    BY DEF Firm, DownloadTyped, Images
  <2>2. ld.next \in DOMAIN Program
    BY ProgramOf DEF Firm, DownloadTyped
  <2>3. ld.phase \in {"none", "loading", "cleaning", "ended"} /\ {ld.lost, ld.reset, ld.gone} \subseteq BOOLEAN
    BY DEF Held, Typed, LoaderStates
  <2>4. \A u \in UserClients :
          /\ uc[u].phase \in {"none", "created", "running", "failed", "stopped"}
          /\ {uc[u].of, uc[u].board} \subseteq Services \cup {Nobody}
    BY DEF Held, Typed, Client
  <2>5. usb \in Port /\ plugs \in 0..MaxPlugs /\ svc \in [Services -> Service]
        /\ {iface, device} \subseteq Holders
    BY DEF Held, Typed, Firm, DownloadTyped, Holders
  <2> QED BY <2>1, <2>2, <2>3, <2>4, <2>5 DEF TypeOK
<1> QED BY <1>1, HeldAlways, FirmAlways, PTL

(* KUSB488BLoader: whatever request of whatever attempt fails, and whenever *)
(* the adapter is pulled, one that shows itself as working has its three   *)
(* images whole; and only a lost request for the reset leaves the CPU in   *)
(* it.                                                                     *)
THEOREM WorkingAdapterIsWhole == Spec => []FirmwareWhole
<1>1. Firm => FirmwareWhole
  BY DEF Firm
<1> QED BY <1>1, FirmAlways, PTL


-----------------------------------------------------------------------------
(* The tag of a word is what was put above its 28 bits.                    *)
LEMMA TagOf ==
    ASSUME NEW q \in Nat, q < 16, NEW r \in Nat, r < Nibble28
    PROVE  Tag(q * Nibble28 + r) = q
<1>1. (q * Nibble28 + r) \div Nibble28 = q
  BY SMT DEF Nibble28
<1>2. q % 16 = q
  BY SMT
<1> QED
  BY SMT, <1>1, <1>2 DEF Tag

(* A small negative handle has all the bits of the tag set.                *)
LEMMA TagOfNegative ==
    ASSUME NEW h \in Int, h < 0, h >= -Nibble28
    PROVE  Tag(h) = 15
<1>1. h \div Nibble28 = -1
  BY SMT DEF Nibble28
<1>2. ASSUME NEW k \in Int, k < 0, k >= -16
      PROVE  k % 16 = k + 16
  BY SMT, <1>2
<1>3. PICK k \in Int : k = h \div Nibble28 /\ k = -1
  BY SMT, <1>1
<1>4. k % 16 = 15
  BY SMT, <1>2, <1>3
<1> QED
  BY SMT, <1>3, <1>4 DEF Tag

(* A word with a tag of 2 to 7 is none of the two handles that are matched *)
(* whole.                                                                  *)
LEMMA TaggedIsNeither ==
    ASSUME NEW q \in Nat, q > 1, NEW r \in Nat
    PROVE  q * Nibble28 + r # Reinit /\ q * Nibble28 + r # UsbReset
BY SMT DEF Nibble28, Reinit, UsbReset

(* A register read reads the register that was named (its low 16 bits).    *)
THEOREM PeekArrives ==
    \A reg \in Nat : Meaning(HandleOf(Peek(reg))) = Peek(reg)
<1> TAKE reg \in Nat
<1>1. PICK r \in Nat : r = reg % 65536 /\ r < 65536
  BY SMT
<1>2. PICK h \in Nat : h = 4 * Nibble28 + r
  BY SMT DEF Nibble28
<1>3. HandleOf(Peek(reg)) = h
  BY SMT, <1>1, <1>2 DEF HandleOf, Peek
<1>4. Tag(h) = 4
  <2>1. r < Nibble28
    BY SMT, <1>1 DEF Nibble28
  <2> QED
    BY SMT, <1>2, <2>1, TagOf
<1>5. h # Reinit /\ h # UsbReset
  BY SMT, <1>2, TaggedIsNeither
<1>6. h % 65536 = r
  BY SMT, <1>1, <1>2 DEF Nibble28
<1>7. Meaning(h) = Peek(h)
  BY SMT, <1>4, <1>5 DEF Meaning
<1> QED
  BY SMT, <1>1, <1>3, <1>6, <1>7 DEF Peek

(* A register write writes the value to the register that were named       *)
(* (twelve bits of register, eight of value).                              *)
THEOREM PokeArrives ==
    \A reg, val \in Nat :
        Meaning(HandleOf(Poke(reg, val))) = Poke(reg, val)
<1> TAKE reg, val \in Nat
<1>1. PICK r \in Nat : r = reg % 4096 /\ r < 4096
  BY SMT
<1>2. PICK v \in Nat : v = val % 256 /\ v < 256
  BY SMT
<1>3. PICK low \in Nat : low = r * 256 + v /\ low < 1048576
  BY SMT, <1>1, <1>2
<1>4. PICK h \in Nat : h = 2 * Nibble28 + low
  BY SMT DEF Nibble28
<1>5. HandleOf(Poke(reg, val)) = h
  <2>1. Poke(reg, val) = [op |-> "poke", reg |-> r, val |-> v]
    BY SMT, <1>1, <1>2 DEF Poke
  <2>2. HandleOf([op |-> "poke", reg |-> r, val |-> v])
            = 2 * Nibble28 + r * 256 + v
    BY SMT DEF HandleOf
  <2>3. 2 * Nibble28 + r * 256 + v = h
    BY SMT, <1>3, <1>4 DEF Nibble28
  <2> QED
    BY SMT, <2>1, <2>2, <2>3
<1>6. Tag(h) = 2
  <2>1. low < Nibble28
    BY SMT, <1>3 DEF Nibble28
  <2> QED
    BY SMT, <1>4, <2>1, TagOf
<1>7. h # Reinit /\ h # UsbReset
  BY SMT, <1>4, TaggedIsNeither
<1>8. h % 256 = v
  BY SMT, <1>2, <1>3, <1>4 DEF Nibble28
<1>9. (h \div 256) % 4096 = r
  <2>1. h = (2 * 1048576 + r) * 256 + v
    BY SMT, <1>3, <1>4 DEF Nibble28
  <2>2. h \div 256 = 2 * 1048576 + r
    BY SMT, <1>2, <2>1
  <2>3. (2 * 1048576 + r) % 4096 = r
    BY SMT, <1>1
  <2> QED
    BY SMT, <2>2, <2>3
<1>10. Meaning(h) = Poke(h \div 256, h)
  BY SMT, <1>6, <1>7 DEF Meaning
<1> QED
  BY SMT, <1>1, <1>2, <1>5, <1>8, <1>9, <1>10 DEF Poke

(* The chunk size that is set is the one that was given (its low 16 bits). *)
THEOREM ChunkArrives ==
    \A n \in Nat : Meaning(HandleOf(SetChunk(n))) = SetChunk(n)
<1> TAKE n \in Nat
<1>1. PICK c \in Nat : c = n % 65536 /\ c < 65536
  BY SMT
<1>2. PICK h \in Nat : h = 5 * Nibble28 + c
  BY SMT DEF Nibble28
<1>3. HandleOf(SetChunk(n)) = h
  BY SMT, <1>1, <1>2 DEF HandleOf, SetChunk
<1>4. Tag(h) = 5
  <2>1. c < Nibble28
    BY SMT, <1>1 DEF Nibble28
  <2> QED
    BY SMT, <1>2, <2>1, TagOf
<1>5. h # Reinit /\ h # UsbReset
  BY SMT, <1>2, TaggedIsNeither
<1>6. h % 65536 = c
  BY SMT, <1>1, <1>2 DEF Nibble28
<1>7. Meaning(h) = SetChunk(h)
  BY SMT, <1>4, <1>5 DEF Meaning
<1> QED
  BY SMT, <1>1, <1>3, <1>6, <1>7 DEF SetChunk

(* The comment in handleLineStatus: the board's own handle, -1, has every  *)
(* bit set and still reads the lines; so does the handle of a descriptor.  *)
THEOREM OrdinaryReadsLines ==
    \A h \in Int : (-Nibble28 <= h /\ h < Nibble28) => Meaning(h) = Lines(h)
<1> SUFFICES ASSUME NEW h \in Int, -Nibble28 <= h, h < Nibble28
             PROVE  Meaning(h) = Lines(h)
  OBVIOUS
<1>1. Tag(h) = 0 \/ Tag(h) = 15
  <2>1. CASE h >= 0
    <3>1. h \in Nat /\ h = 0 * Nibble28 + h
      BY SMT, <2>1 DEF Nibble28
    <3>2. Tag(0 * Nibble28 + h) = 0
      BY SMT, <3>1, TagOf
    <3> QED
      BY SMT, <3>1, <3>2
  <2>2. CASE h < 0
    BY SMT, <2>2, TagOfNegative DEF Nibble28
  <2> QED
    BY SMT, <2>1, <2>2
<1>2. h # Reinit /\ h # UsbReset
  BY SMT DEF Nibble28, Reinit, UsbReset
<1>3. Tag(h) # 2 /\ Tag(h) # 4 /\ Tag(h) # 5
  BY SMT, <1>1
<1> QED
  BY SMT, <1>2, <1>3 DEF Meaning

(* What gpibctl can ask for, handleLineStatus does.                        *)
LEMMA AskedIsDone ==
    ASSUME NEW m \in Asked
    PROVE  Meaning(HandleOf(m)) = m
<1>1. CASE m \in {Recover, Reenumerate}
  BY <1>1 DEF Meaning, HandleOf, Recover, Reenumerate, Reinit, UsbReset
<1>2. CASE m.op = "lines" /\ m = Lines(m.handle) /\ m.handle \in BoardHandle .. 63
  <2>1. HandleOf(m) = m.handle
    BY <1>2 DEF HandleOf
  <2>2. m.handle \in Int /\ -Nibble28 <= m.handle /\ m.handle < Nibble28
    BY <1>2 DEF BoardHandle, Nibble28
  <2> QED BY <1>2, <2>1, <2>2, OrdinaryReadsLines
<1>3. CASE m.op = "peek" /\ m = Peek(m.reg) /\ m.reg \in Nat
  BY <1>3, PeekArrives
<1>4. CASE m.op = "poke" /\ m = Poke(m.reg, m.val) /\ m.reg \in Nat /\ m.val \in Nat
  BY <1>4, PokeArrives
<1>5. CASE m.op = "chunk" /\ m = SetChunk(m.n) /\ m.n \in Nat
  BY <1>5, ChunkArrives
<1> QED BY <1>1, <1>2, <1>3, <1>4, <1>5, AskedAssumption

(* handleLineStatus never performs another diagnostic than the one that    *)
(* was asked for.                                                          *)
THEOREM DiagnosticsAsAsked == Spec => []AsAsked
<1>1. Init => AsAsked
  BY DEF Init, NoReply, AsAsked
<1>2. ASSUME AsAsked, [Next]_vars
      PROVE  AsAsked'
  <2>1. CASE UNCHANGED vars
    BY <1>2, <2>1 DEF vars, AsAsked
  <2>2. CASE reply' = NoReply
    BY <2>2 DEF NoReply, AsAsked
  <2>3. ASSUME NEW u \in UserClients, NEW req \in Requests, Dispatch(u, req)
        PROVE  AsAsked'
    <3>1. CASE req.sel = "LineStatus"
      <4>1. req.means \in Asked
        BY <3>1 DEF Requests
      <4>2. Handle(req) = [kr |-> "ok", asked |-> req.means, did |-> req.means]
        BY <3>1, <4>1, AskedIsDone DEF Handle
      <4>3. reply' \in {[kr |-> "BadArgument"], [kr |-> "NotReady"], Handle(req)}
        BY <2>3 DEF Dispatch
      <4> QED BY <4>2, <4>3 DEF AsAsked
    <3>2. CASE req.sel # "LineStatus"
      <4>1. reply' \in {[kr |-> "BadArgument"], [kr |-> "NotReady"], Handle(req)}
        BY <2>3 DEF Dispatch
      <4>2. reply'.kr = "ok" => "asked" \notin DOMAIN reply'
        BY <3>2, <4>1 DEF Handle, Requests
      <4> QED BY <4>2 DEF AsAsked
    <3> QED BY <3>1, <3>2
  <2> QED BY <1>2, <2>1, <2>2, <2>3 DEF Next
<1> QED BY <1>1, <1>2, PTL DEF Spec
=============================================================================
