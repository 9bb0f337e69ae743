--------------------------- MODULE FirmwareLoader ---------------------------
(***************************************************************************)
(* An adapter on its USB port and the service that gives a KUSB-488B its   *)
(* firmware (driver/devices/kusb_488b/kusb_488b_loader.cpp and             *)
(* KUSB488BLoader.cpp): an FPGA bitstream, a blob for the external RAM and *)
(* the code of its 8051, each in vendor requests of at most a chunk, any   *)
(* of which may fail, with or without having reached the adapter.          *)
(*                                                                         *)
(* Of the images only their lengths are kept, and of the adapter's         *)
(* memories which bytes have been written.                                 *)
(***************************************************************************)
EXTENDS Integers, Sequences, FiniteSetsExt

CONSTANTS
    Kinds,        \* the adapters one may plug in, of "kusb", "ni", "agilent"
    Chunk,        \* KUSB_FW_CHUNK
    FpgaLength,   \* kKusbFpgaBitstream.length
    ExtLength,    \* kKusbExtRamBlob.length
    MainLength,   \* kKusbMainFirmware.length
    Nobody,       \* no service holds a session
    Loader,       \* the loader service as the holder of one
    MaxPlugs      \* bounds how often an adapter is plugged in

ASSUME LoaderAssumption ==
    /\ Kinds \subseteq {"kusb", "ni", "agilent"}
    /\ {Chunk, FpgaLength, ExtLength, MainLength} \subseteq Nat \ {0}
    /\ MaxPlugs \in Nat

VARIABLES
    usb,      \* what is on the port
    plugs,    \* how often something was plugged in
    image,    \* the memories of a KUSB-488B
    device,   \* who has the USB device open
    ld        \* the loader service

loaderVars == <<usb, plugs, image, device, ld>>

(* `id`: the identity the device shows: that of an adapter without its     *)
(* firmware ("loader"), or that of a working one.  `legacy`: bcdDevice is  *)
(* below KUSB_LEGACY_BCD_DEVICE.                                           *)
Port == [kind : Kinds, id : {"none", "loader", "ready"}, legacy : BOOLEAN]

NoImage == [fpga |-> 0, configured |-> FALSE, ext |-> {}, ram |-> {}, cpu |-> "boot"]

(* `lost`: a request of this download failed; `reset`: one of them was for *)
(* the CPU's reset.  `gone`: the device it was started for is gone.        *)
NoLoader == [phase |-> "none", next |-> 1, lost |-> FALSE, reset |-> FALSE, gone |-> FALSE]

-----------------------------------------------------------------------------
(* The requests of a download.                                             *)

Request(to, at, n, flag) == [to |-> to, at |-> at, n |-> n, flag |-> flag]

Hold(h) == Request("cpu", 0, 1, h)

IsLast(at, len) == len - at <= Chunk

(* Mutant of Chunks: every request has the length of a whole chunk.        *)
ChunksUncut(to, len) ==
    [i \in 1..((len + Chunk - 1) \div Chunk) |->
        Request(to, (i - 1) * Chunk, Chunk, IsLast((i - 1) * Chunk, len))]

Chunks(to, len) ==
    [i \in 1..((len + Chunk - 1) \div Chunk) |->
        LET at == (i - 1) * Chunk
        IN  Request(to, at, Min({Chunk, len - at}), IsLast(at, len))]

Program ==
    <<Request("begin", 0, 0, FALSE)>>
    \o Chunks("fpga", FpgaLength)
    \o Chunks("ext", ExtLength)
    \o <<Hold(TRUE)>> \o Chunks("ram", MainLength) \o <<Hold(FALSE)>>

(* What a request does to the adapter.                                     *)
Obey(img, r) ==
    LET bytes == r.at..(r.at + r.n - 1)
    IN  CASE r.to = "begin" -> [img EXCEPT !.fpga = 0, !.configured = FALSE]
          [] r.to = "fpga"  -> [img EXCEPT !.fpga = @ + r.n,
                                    !.configured = r.flag /\ img.fpga + r.n = FpgaLength]
          [] r.to = "ext"   -> [img EXCEPT !.ext = @ \cup bytes]
          [] r.to = "ram"   -> [img EXCEPT !.ram = @ \cup bytes]
          [] r.to = "cpu"   -> [img EXCEPT !.cpu = IF r.flag THEN "held"
                                                   ELSE IF img.ram = {} THEN "boot" ELSE "run"]

Whole(img) ==
    /\ img.configured
    /\ img.ext = 0..(ExtLength - 1)
    /\ img.ram = 0..(MainLength - 1)

-----------------------------------------------------------------------------
LoaderInit ==
    /\ usb \in [kind : Kinds, id : {"none"}, legacy : {FALSE}]
    /\ plugs = 0
    /\ image = NoImage
    /\ device = Nobody
    /\ ld = NoLoader

(* Start refuses a device without the loader's identity, and one that is   *)
(* open; a unit that needs the EEPROM stage is closed again untouched.     *)
LoaderStart ==
    /\ usb.id # "none" /\ usb.kind = "kusb" /\ ld.phase = "none"
    /\ IF usb.id # "loader" \/ device # Nobody
       THEN ld' = [ld EXCEPT !.phase = "ended"] /\ UNCHANGED device
       ELSE IF usb.legacy
       THEN ld' = [ld EXCEPT !.phase = "ended"] /\ UNCHANGED device
       ELSE ld' = [ld EXCEPT !.phase = "loading"] /\ device' = Loader
    /\ UNCHANGED <<usb, plugs, image>>

(* The session is closed however the download ended.                       *)
EndLoad(l) ==
    /\ ld' = [l EXCEPT !.phase = "ended"]
    /\ device' = IF device = Loader THEN Nobody ELSE device

Send ==
    /\ ld.phase = "loading" /\ ~ld.gone
    /\ image' = Obey(image, Program[ld.next])
    /\ IF ld.next = Len(Program)
       THEN EndLoad(ld)
       ELSE ld' = [ld EXCEPT !.next = @ + 1] /\ UNCHANGED device
    /\ UNCHANGED <<usb, plugs>>

Failed(r) == [ld EXCEPT !.lost = TRUE, !.reset = @ \/ r.to = "cpu"]

(* Mutant of AfterFailure: the CPU is left in reset.                       *)
AfterFailureHeld(r) == EndLoad(Failed(r))

(* Only a failure among the chunks of the code releases the CPU again.     *)
AfterFailure(r) ==
    IF r.to = "ram"
    THEN ld' = [Failed(r) EXCEPT !.phase = "cleaning"] /\ UNCHANGED device
    ELSE EndLoad(Failed(r))

(* A request that fails may have done its work; one to a device that is    *)
(* gone cannot have.                                                       *)
SendFails(arrived) ==
    /\ ld.phase = "loading" /\ (arrived => ~ld.gone)
    /\ image' = IF arrived THEN Obey(image, Program[ld.next]) ELSE image
    /\ AfterFailure(Program[ld.next])
    /\ UNCHANGED <<usb, plugs>>

(* setCPUReset(false) after a failure; its outcome is not looked at.       *)
Release(arrived) ==
    /\ ld.phase = "cleaning" /\ (arrived => ~ld.gone)
    /\ image' = IF arrived THEN Obey(image, Hold(FALSE)) ELSE image
    /\ EndLoad(IF arrived THEN ld ELSE [ld EXCEPT !.reset = TRUE])
    /\ UNCHANGED <<usb, plugs>>

(* Stop and free; the device is gone or is another one by now.             *)
LoaderFree ==
    /\ ld.phase = "ended" /\ ld.gone
    /\ ld' = NoLoader
    /\ UNCHANGED <<usb, plugs, image, device>>

LoaderNext ==
    \/ LoaderStart
    \/ Send
    \/ \E arrived \in BOOLEAN : SendFails(arrived) \/ Release(arrived)
    \/ LoaderFree

-----------------------------------------------------------------------------
(* The port.  A device that leaves it takes the sessions on it along.      *)

DeviceLeaves == ld' = IF ld.phase = "none" THEN ld ELSE [ld EXCEPT !.gone = TRUE]

Arrives(p) ==
    /\ usb' = p
    /\ image' = IF p.kind = "kusb" /\ p.id = "ready" THEN image ELSE NoImage

=============================================================================
