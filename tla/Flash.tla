-------------------------------- MODULE Flash --------------------------------
(***************************************************************************)
(* Rewriting disks: veron-flashd, the root service that takes one request   *)
(* at a time from a FIFO; veron-flasher, the window that sends requests and *)
(* follows the status file; maintenance mode, in which the one-shot marker  *)
(* on the ESP (veron-boot) starts veron-maintenance-init, which lifts the   *)
(* system into RAM and banks the persist partition there.                   *)
(*                                                                         *)
(* Every Veron image has the same partition UUIDs.  The window's thread is  *)
(* blocked from the moment it opens the FIFO until flashd reads; its flags  *)
(* are set when that ends.  Power may fail at any time.                     *)
(***************************************************************************)
EXTENDS Naturals, Sequences

CONSTANTS
  Disks,     \* disks, in the order of their names
  Boot,      \* the disk the firmware boots
  Internal,  \* disks that are not removable
  Veron,     \* disks that carry a Veron image at first
  NoDisk,
  MaxAsk     \* requests of people

ASSUME FlashAssumption ==
  /\ Disks \subseteq Nat /\ NoDisk \notin Disks
  /\ Internal \subseteq Disks /\ Veron \subseteq Disks
  /\ Boot \in Veron \ Internal
  /\ MaxAsk \in Nat

VARIABLES
  up,       \* what runs; "preserve" and "discard": the pivot, in that mode
  root,     \* the disk mountinfo names for /, NoDisk for an overlay or RAM
  plugged,
  disk,     \* image, persist partition and marker file of each disk
  shown,    \* disks whose Veron partitions sysfs shows
  stale,    \* disks whose partitions sysfs shows as they were before a write
  bank,     \* /run/veron-persist-backup
  fd,       \* flashd: its place and the request it works on
  status,   \* status lines the window has not read
  ui,       \* the window: its pending flags and the request it waits to send
  asks,     \* requests of people
  armed,    \* history: markers written, or left because firmware refused to delete
  entered,  \* history: maintenance boots
  wrote,    \* disks this session's writes have verified
  calm      \* one write was asked for, and so far nothing else was done and
            \* no refusal or failure was shown

vars == <<up, root, plugged, disk, shown, stale, bank, fd, status, ui,
          asks, armed, entered, wrote, calm>>

(* What a persist partition or the bank holds.                              *)
Nothing == <<"nothing">>      \* there is none
Empty == <<"empty">>          \* a fresh image's
Partial == <<"partial">>      \* a copy that stopped half way
Kept(d) == <<"kept", d>>      \* what the user of disk d kept there
Contents == {Kept(d) : d \in Disks} \cup {Nothing, Empty, Partial}

Writes == {"FLASH", "STREAM", "INSTALL"}
Verbs == Writes \cup {"GROW", "RESTORE", "ARM"}

Request == [verb : Verbs, dev : Disks \cup {NoDisk}, arg : {"ok", "bad", "preserve", "discard"}]
NoReq == [verb |-> "none", dev |-> NoDisk, arg |-> "bad"]
Req(v, d, a) == [verb |-> v, dev |-> d, arg |-> a]

FdIdle == [pc |-> "read", req |-> NoReq]
NewWindow == [grow |-> NoDisk, restore |-> NoDisk, arm |-> FALSE, send |-> NoReq]

Lines == {"REFUSED", "FAILED", "VERIFIED", "RESTORED", "GROWN", "GROW FAILED", "ARMED"}

TypeOK ==
  /\ up \in {"off", "normal", "preserve", "discard", "maint", "halted"}
  /\ root \in {Boot, NoDisk}
  /\ plugged \subseteq Disks /\ shown \subseteq Disks /\ stale \subseteq Disks
  /\ disk \in [Disks -> [image : {"none", "torn", "whole"}, persist : Contents,
                         marker : {"none", "empty", "preserve", "discard"}]]
  /\ bank \in Contents
  /\ fd \in [pc : {"read", "write", "check", "copy", "mark"}, req : Request \cup {NoReq}]
  /\ fd.pc = "read" <=> fd.req = NoReq
  /\ status \in Seq(Lines)
  /\ ui \in [grow : Disks \cup {NoDisk}, restore : Disks \cup {NoDisk}, arm : BOOLEAN,
             send : Request \cup {NoReq}]
  /\ asks \in 0 .. MaxAsk /\ armed \in Nat /\ entered \in Nat
  /\ wrote \subseteq Disks /\ calm \in BOOLEAN

Init ==
  /\ up = "off" /\ root = NoDisk
  /\ plugged = Disks
  /\ disk = [d \in Disks |->
               IF d \in Veron THEN [image |-> "whole", persist |-> Kept(d), marker |-> "none"]
               ELSE [image |-> "none", persist |-> Nothing, marker |-> "none"]]
  /\ shown = {} /\ stale = {} /\ bank = Nothing
  /\ fd = FdIdle /\ status = <<>> /\ ui = NewWindow
  /\ asks = 0 /\ armed = 0 /\ entered = 0
  /\ wrote = {} /\ calm = TRUE

Running == up \in {"normal", "maint"}

Least(S) == CHOOSE d \in S : \A e \in S : d <= e

-----------------------------------------------------------------------------
(* Power and boot.                                                          *)

PowerOff ==
  /\ up # "off"
  /\ up' = "off" /\ root' = NoDisk
  /\ shown' = {} /\ stale' = {} /\ bank' = Nothing
  /\ fd' = FdIdle /\ status' = <<>> /\ ui' = NewWindow
  /\ wrote' = {} /\ calm' = TRUE
  /\ UNCHANGED <<plugged, disk, asks, armed, entered>>

(* Mutant: the marker is not deleted. *)
TakeMarkerKept(d) == {[mode |-> disk[d].marker, left |-> disk[d].marker, refused |-> FALSE]}

(* veron-boot reads the marker, then deletes it, and starts the kernel: the *)
(* mode it finds and the marker it leaves.  Without memory or when the file *)
(* cannot be read the boot is a normal one; the status of the deletion is   *)
(* not looked at (refused; the guard bounds how often).                     *)
take_marker(d) ==
  LET m == disk[d].marker IN
  {[mode |-> m, left |-> "none", refused |-> FALSE]}
  \cup {[mode |-> "none", left |-> l, refused |-> FALSE] : l \in {m, "none"}}
  \cup IF armed < MaxAsk THEN {[mode |-> m, left |-> m, refused |-> TRUE]} ELSE {}

(* An empty marker is an empty command line: the kernel's own applies. *)
Start ==
  /\ up = "off"
  /\ disk[Boot].image = "whole"
  /\ shown' = {d \in plugged : disk[d].image = "whole"}
  /\ \E t \in take_marker(Boot) :
       /\ disk' = [disk EXCEPT ![Boot].marker = t.left]
       /\ IF t.mode \in {"preserve", "discard"}
          THEN /\ up' = t.mode /\ root' = Boot /\ entered' = entered + 1
               /\ armed' = IF t.refused THEN armed + 1 ELSE armed
          ELSE up' = "normal" /\ root' \in {Boot, NoDisk} /\ UNCHANGED <<armed, entered>>
  /\ UNCHANGED <<plugged, stale, bank, fd, status, ui, asks, wrote, calm>>

(* backup_persist: any disk with the UUID will do, a step that fails is     *)
(* skipped, and so is a file that cannot be copied.                         *)
Banked == {disk[d].persist : d \in shown} \cup {Nothing, Partial}

(* veron-maintenance-init up to exec of dinit; anything but the backup that *)
(* fails is fatal.                                                          *)
Pivot ==
  /\ up \in {"preserve", "discard"}
  /\ \/ up' = "halted" /\ UNCHANGED <<root, bank>>
     \/ /\ up' = "maint" /\ root' = NoDisk
        /\ bank' \in IF up = "preserve" THEN Banked ELSE {Nothing}
  /\ UNCHANGED <<plugged, disk, shown, stale, fd, status, ui, asks, armed, entered,
                 wrote, calm>>

(* A stick is pulled. *)
Unplug(d) ==
  /\ Running /\ d \in plugged \ ({Boot} \cup Internal)
  /\ fd.req.dev # d
  /\ plugged' = plugged \ {d} /\ shown' = shown \ {d} /\ stale' = stale \ {d}
  /\ calm' = FALSE
  /\ UNCHANGED <<up, root, disk, bank, fd, status, ui, asks, armed, entered, wrote>>

(* A stick is put in; its table is read then. *)
Plug(d) ==
  /\ Running /\ d \in Disks \ plugged
  /\ plugged' = plugged \cup {d}
  /\ shown' = IF disk[d].image = "whole" THEN shown \cup {d} ELSE shown
  /\ calm' = FALSE
  /\ UNCHANGED <<up, root, disk, stale, bank, fd, status, ui, asks, armed, entered, wrote>>

-----------------------------------------------------------------------------
(* flashd                                                                   *)

Say(line) == status' = Append(status, line)

(* Mutant: an unknown boot disk is no reason to refuse. *)
AllowedDiskLax(d) == d \in plugged /\ d # root

(* The checks all verbs but ARM share. *)
AllowedDisk(d) ==
  /\ d \in plugged
  /\ IF root = NoDisk THEN up = "maint" ELSE d # root

(* Each verb's own rule; arg is "ok" for the capacity of an INSTALL, the    *)
(* size of a GROW, the digests of a STREAM and the file of a FLASH.         *)
VerbRule(r) ==
  \/ r.verb = "INSTALL" /\ r.dev \in Internal /\ r.arg = "ok"
  \/ r.verb \in {"FLASH", "STREAM"} /\ r.dev \notin Internal /\ r.arg = "ok"
  \/ r.verb = "GROW" /\ r.arg = "ok"
  \/ r.verb = "RESTORE" /\ r.dev \notin Internal /\ bank # Nothing

(* The first partition in name order that has the UUID. *)
partuuid_dev == IF shown = {} THEN NoDisk ELSE Least(shown)

(* A re-read of the table: refused while a partition is in use, and what a  *)
(* torn image has for a table is anyone's guess.                            *)
Rescanned(d) ==
  {[ok |-> FALSE, shown |-> shown, stale |-> stale]}
  \cup {[ok |-> TRUE, shown |-> t, stale |-> stale \ {d}] :
          t \in CASE disk[d].image = "whole" -> {shown \cup {d}}
                 [] disk[d].image = "none" -> {shown \ {d}}
                 [] OTHER -> {shown \cup {d}, shown \ {d}}}

Quiet == UNCHANGED <<up, root, plugged, bank, asks, entered>>

Refuse ==
  /\ Say("REFUSED") /\ fd' = FdIdle
  /\ UNCHANGED <<disk, shown, stale, armed>>

(* GROW: growpart has a module of its own; the image stays as it is. *)
GrowPersist(d) ==
  \E s \in Rescanned(d), line \in {"GROWN", "GROW FAILED"} :
    /\ line = "GROWN" => s.ok /\ d \in s.shown
    /\ shown' = s.shown /\ stale' = s.stale
    /\ Say(line) /\ fd' = FdIdle
    /\ UNCHANGED <<disk, armed>>

(* Mutant: the table is not read again before p4 is looked up. *)
RestorePersistStale(d) ==
  \/ Refuse
  \/ /\ partuuid_dev = d
     /\ fd' = [pc |-> "copy", req |-> fd.req]
     /\ UNCHANGED <<disk, shown, stale, status, armed>>

(* RESTORE up to the mount: p4 must be the first with its UUID, on d, where *)
(* the table says it is.                                                    *)
RestorePersist(d) ==
  \E s \in Rescanned(d) :
    /\ shown' = s.shown /\ stale' = s.stale
    /\ \/ /\ Say(IF s.ok THEN "REFUSED" ELSE "FAILED")
          /\ fd' = FdIdle
       \/ /\ s.ok /\ d \in s.shown /\ \A e \in s.shown : d <= e
          /\ fd' = [pc |-> "copy", req |-> fd.req]
          /\ UNCHANGED status
    /\ UNCHANGED <<disk, armed>>

(* Validation of the request under way. *)
Validate ==
  LET r == fd.req  d == r.dev IN
  /\ fd.pc = "check" /\ r.verb # "ARM"
  /\ IF ~(AllowedDisk(d) /\ VerbRule(r)) THEN Refuse
     ELSE \/ r.verb = "GROW" /\ GrowPersist(d)
          \/ r.verb = "RESTORE" /\ RestorePersist(d)
          \/ /\ r.verb \in Writes
             /\ fd' = [fd EXCEPT !.pc = "write"]
             /\ disk' = [disk EXCEPT ![d].image = "torn", ![d].persist = Empty, ![d].marker = "none"]
             /\ stale' = stale \cup (shown \cap {d})
             /\ UNCHANGED <<shown, status, armed>>
  /\ Quiet /\ UNCHANGED <<ui, wrote, calm>>

(* The device, read back, holds the whole image: dd may end early without   *)
(* an error, as it does when the download that feeds it stops.              *)
Matches(got) == got = "whole"

(* The end of the write and the read-back. *)
Write ==
  LET d == fd.req.dev IN
  /\ fd.pc = "write"
  /\ \E got \in {"torn", "whole"}, ddok \in BOOLEAN, s \in Rescanned(d) :
       /\ got = "whole" => ddok
       /\ disk' = [disk EXCEPT ![d].image = got]
       /\ IF ddok /\ Matches(got)
          THEN /\ Say("VERIFIED") /\ wrote' = wrote \cup {d}
               /\ shown' = IF s.ok THEN shown \cup {d} ELSE shown
               /\ stale' = s.stale
          ELSE /\ Say("FAILED") /\ wrote' = wrote \ {d}
               /\ UNCHANGED <<shown, stale>>
  /\ fd' = FdIdle
  /\ Quiet /\ UNCHANGED <<ui, armed, calm>>

(* cp -a of the bank, into the partition as sysfs places it. *)
Copy ==
  LET d == fd.req.dev IN
  /\ fd.pc = "copy"
  /\ IF d \in stale
     THEN disk' = [disk EXCEPT ![d].image = "torn"] /\ Say("RESTORED")
     ELSE \/ disk' = [disk EXCEPT ![d].persist = bank] /\ Say("RESTORED")
          \/ disk' = [disk EXCEPT ![d].persist = Partial] /\ Say("FAILED")
          \/ UNCHANGED disk /\ Say("FAILED")
  /\ fd' = FdIdle
  /\ Quiet /\ UNCHANGED <<ui, shown, stale, armed, wrote, calm>>

(* ARM-MAINTENANCE creates the marker, then writes it. *)
ArmMaintenance ==
  /\ fd.pc = "check" /\ fd.req.verb = "ARM"
  /\ IF fd.req.arg \in {"preserve", "discard"} /\ partuuid_dev # NoDisk
     THEN \/ Refuse
          \/ /\ fd' = [fd EXCEPT !.pc = "mark", !.req.dev = partuuid_dev]
             /\ disk' = [disk EXCEPT ![partuuid_dev].marker = "empty"]
             /\ UNCHANGED <<shown, stale, status, armed>>
     ELSE Refuse
  /\ Quiet /\ UNCHANGED <<ui, wrote, calm>>

WriteMarker ==
  /\ fd.pc = "mark"
  /\ \/ /\ Say("REFUSED") /\ UNCHANGED <<disk, armed>>
     \/ /\ Say("ARMED") /\ armed' = armed + 1
        /\ disk' = [disk EXCEPT ![fd.req.dev].marker = fd.req.arg]
  /\ fd' = FdIdle
  /\ Quiet /\ UNCHANGED <<ui, shown, stale, wrote, calm>>

-----------------------------------------------------------------------------
(* veron-flasher                                                            *)

(* scan_devices: what the list offers for a verb. *)
Listed(v) ==
  IF root = NoDisk /\ up # "maint" THEN {}
  ELSE {d \in plugged \ {root} : d \in Internal <=> v = "INSTALL"}

(* A click, on "Write + verify" or on "Reflash this boot device"; the       *)
(* thread waits for flashd from here on.                                    *)
Click(r) ==
  /\ Running /\ ui.send = NoReq /\ asks < MaxAsk
  /\ r.verb \in Writes => r.dev \in Listed(r.verb)
  /\ asks' = asks + 1
  /\ ui' = [ui EXCEPT !.send = r, !.arm = @ \/ r.verb = "ARM"]
  /\ calm' = (calm /\ ui = NewWindow /\ fd = FdIdle /\ status = <<>> /\ wrote = {})
  /\ UNCHANGED <<up, root, plugged, disk, shown, stale, bank, fd, status, armed, entered, wrote>>

(* A request written to the FIFO by hand. *)
ByHand(r) ==
  /\ Running /\ fd = FdIdle /\ asks < MaxAsk
  /\ asks' = asks + 1
  /\ fd' = [pc |-> "check", req |-> r]
  /\ wrote' = IF r.verb \in Writes THEN wrote \ {r.dev} ELSE wrote
  /\ calm' = FALSE
  /\ UNCHANGED <<up, root, plugged, disk, shown, stale, bank, status, ui, armed, entered>>

(* Mutant: the restore is not noted. *)
NotedNoRestore(r, keep) ==
  [ui EXCEPT !.send = NoReq, !.grow = IF r.verb \in Writes /\ ~keep THEN r.dev ELSE @]

(* cb_flash ends by noting what is to follow the write; keep: persist is to *)
(* keep the image's size.                                                   *)
Noted(r, keep) ==
  [ui EXCEPT !.send = NoReq,
             !.grow = IF r.verb \in Writes /\ ~keep THEN r.dev ELSE @,
             !.restore = IF r.verb \in Writes /\ up = "maint" /\ bank # Nothing THEN r.dev ELSE @]

(* flashd reads the request. *)
Deliver(keep) ==
  /\ ui.send # NoReq /\ fd = FdIdle
  /\ fd' = [pc |-> "check", req |-> ui.send]
  /\ ui' = Noted(ui.send, keep)
  /\ wrote' = IF ui.send.verb \in Writes THEN wrote \ {ui.send.dev} ELSE wrote
  /\ Quiet /\ UNCHANGED <<disk, shown, stale, status, armed, calm>>

(* send_restore *)
Restoring(d) == IF bank = Nothing THEN NoReq ELSE Req("RESTORE", d, "ok")

(* poll_status, one line. *)
ReadLine ==
  LET line == Head(status) IN
  /\ Running /\ ui.send = NoReq /\ status # <<>>
  /\ status' = Tail(status)
  /\ calm' = (calm /\ line \notin {"REFUSED", "FAILED"})
  /\ ui' = IF line = "VERIFIED" /\ ui.grow # NoDisk
           THEN [ui EXCEPT !.grow = NoDisk, !.send = Req("GROW", ui.grow, "ok")]
           ELSE IF ui.restore # NoDisk /\ (line = "VERIFIED" \/ line \in {"GROWN", "GROW FAILED"})
           THEN [ui EXCEPT !.restore = NoDisk, !.send = Restoring(ui.restore)]
           ELSE ui
  /\ ~(ui.arm /\ line = "ARMED")
  /\ UNCHANGED <<up, root, plugged, disk, shown, stale, bank, fd, asks, armed, entered, wrote>>

(* The answer to ARM: the window asks powerd for a reboot. *)
RebootArmed ==
  /\ Running /\ ui.send = NoReq /\ status # <<>>
  /\ ui.arm /\ Head(status) = "ARMED"
  /\ PowerOff

(* The window is closed; a new one starts with no flags. *)
Close ==
  /\ Running /\ ui # NewWindow /\ ui.send = NoReq
  /\ ui' = NewWindow /\ status' = <<>>
  /\ calm' = FALSE
  /\ UNCHANGED <<up, root, plugged, disk, shown, stale, bank, fd, asks, armed, entered, wrote>>

-----------------------------------------------------------------------------
Clicked == {Req(v, d, "ok") : v \in Writes, d \in Disks}
           \cup {Req("ARM", NoDisk, a) : a \in {"preserve", "discard"}}
Typed == {Req(v, d, "ok") : v \in Verbs \ {"ARM"}, d \in Disks} \cup {Req("INSTALL", d, "bad") : d \in Disks}

Flashd == Validate \/ Write \/ Copy \/ ArmMaintenance \/ WriteMarker
Window == ReadLine \/ RebootArmed \/ \E keep \in BOOLEAN : Deliver(keep)

NextNoHand ==
  \/ PowerOff \/ Start \/ Pivot
  \/ \E d \in Disks : Unplug(d) \/ Plug(d)
  \/ Flashd \/ Window
  \/ \E r \in Clicked : Click(r)
  \/ Close

Next == NextNoHand \/ \E r \in Typed : ByHand(r)

Spec == Init /\ [][Next]_vars

(* Only the window writes to the FIFO. *)
WindowSpec == Init /\ [][NextNoHand]_vars

(* flashd's loop and the window's half-second timer run while the power is  *)
(* on; nobody has to click, and the power may fail.                         *)
FairSpec == Spec /\ WF_vars(Flashd) /\ WF_vars(Window)

-----------------------------------------------------------------------------
(* Properties.                                                              *)

(* "THE BOOT DISK IS SACRED UNDER EVERY VERB" (flashd), and an internal     *)
(* disk is erased only by an INSTALL that states its capacity: no write     *)
(* changes the disk the system runs from, whoever asks and whatever name    *)
(* the root has, and maintenance mode lifts this only once the root is RAM. *)
SacredDisks ==
  [][\A d \in Disks : disk'[d].image # disk[d].image =>
       /\ up = "normal" => d # Boot
       /\ up \in {"normal", "maint"}
       /\ d \in Internal => fd.req.verb = "INSTALL" /\ fd.req.arg = "ok"]_vars

(* "the override is inherently single-shot" (flashd, veron-boot): there are *)
(* never more maintenance boots than markers written, across crashes at any *)
(* point of the arming, the boot and the pivot; one more for every deletion *)
(* that firmware refuses.                                                   *)
OneShot == entered <= armed

(* "VERIFIED" means that the disk holds the whole image, and it keeps it:   *)
(* no grow and no restore damages a verified disk, even when the kernel did *)
(* not take the new table.                                                  *)
VerifiedHolds == \A d \in wrote : disk[d].image = "whole"

(* One click on a boot device whose state was banked, and nobody            *)
(* interferes: once the write has verified, the bank is on the disk again   *)
(* or the person is told why not.                                           *)
Preserved ==
  /\ up = "maint" /\ Boot \in wrote /\ bank # Nothing /\ calm
    ~> disk[Boot].persist = bank \/ ~calm \/ up = "off"

(* Until then the restore is never forgotten: it is noted in the window,    *)
(* waits to be sent or is being served, or a refusal or failure that the    *)
(* person will see is in the status file, whatever became of the grow.      *)
RestoreNotForgotten ==
  up = "maint" /\ Boot \in wrote /\ bank # Nothing /\ calm =>
    \/ disk[Boot].persist = bank
    \/ ui.restore = Boot
    \/ Req("RESTORE", Boot, "ok") \in {ui.send, fd.req}
    \/ \E i \in DOMAIN status : status[i] \in {"REFUSED", "FAILED"}

(* "we must restore it AFTER the image lands and verifies" (veron-flasher): *)
(* the window asks for a grow or a restore only of a disk whose write has   *)
(* verified.                                                                *)
FollowUpAfterVerify ==
  [][ui.send = NoReq /\ ui'.send.verb \in {"GROW", "RESTORE"} => ui'.send.dev \in wrote]_vars

=============================================================================
