---------------------------- MODULE FlashProofs -----------------------------
(***************************************************************************)
(* What flashd may do to a disk and what the maintenance marker may do to   *)
(* the next boot, proved of Flash for every set of disks, every split into  *)
(* internal and removable ones, with requests typed by hand and every loss  *)
(* of power; and what the veron-growpart it runs may do to the table and to *)
(* the file system, proved of Growpart for every size of disk.              *)
(*                                                                          *)
(* Two inductive invariants carry the theorems of Flash.  MarkerInv counts: *)
(* a boot into maintenance is paid for by an armed marker, and one still on *)
(* the boot disk is one that has not been spent yet.  DiskInv says what     *)
(* the daemon already knows at each point of a request: the checks of       *)
(* Validate still hold when Write ends, and a copy goes only to a partition *)
(* table the kernel has read again.  GrowInv carries those of Growpart: the *)
(* entries in the page cache and on the medium are those of a table the     *)
(* file system fits in, and a grow has what it wrote behind it.             *)
(*                                                                          *)
(* CourseInv follows the one write of a calm session through the FIFO,      *)
(* flashd, the status file and the window, for the restore that ends it.    *)
(***************************************************************************)
EXTENDS Flash, Growpart, WellFoundedInduction, TLAPS

\* What the model keeps of one disk.
DiskState == [image : {"none", "torn", "whole"}, persist : Contents,
              marker : {"none", "empty", "preserve", "discard"}]

\* The types the proofs need, and the two facts about a request under way that
\* are facts of type: it names a disk, and one that writes a marker a mode.
Types ==
  /\ up \in {"off", "normal", "preserve", "discard", "maint", "halted"}
  /\ root \in {Boot, NoDisk}
  /\ plugged \subseteq Disks /\ shown \subseteq Disks /\ wrote \subseteq Disks
  /\ disk \in [Disks -> DiskState]
  /\ bank \in Contents
  /\ fd \in [pc : {"read", "write", "check", "copy", "mark"}, req : Request \cup {NoReq}]
  /\ ui \in [grow : Disks \cup {NoDisk}, restore : Disks \cup {NoDisk}, arm : BOOLEAN,
             send : Request \cup {NoReq}]
  /\ fd.pc \in {"write", "copy", "mark"} => fd.req.dev \in Disks
  /\ fd.pc = "mark" => fd.req.arg \in {"preserve", "discard"}
  /\ armed \in Nat /\ entered \in Nat

\* A marker on the boot disk that the initramfs would still obey.
Pending == IF disk[Boot].marker \in {"preserve", "discard"} THEN 1 ELSE 0

\* Boots into maintenance plus the one the marker still promises are all armed.
MarkerInv == entered + Pending <= armed

\* A request is under way, or waits in the pipe, only on a running system.
Serving == fd.pc # "read" \/ ui.send # NoReq => Running

\* A device that is about to be written is no longer counted as verified: the
\* window forgot it when it sent the request (ReadLine, Deliver, ByHand).
Owed == fd.pc \in {"check", "write"} /\ fd.req.verb \in Writes => fd.req.dev \notin wrote

\* What Validate found is still true while the image is being written.
WriteAllowed ==
  fd.pc = "write" =>
    /\ fd.req.verb \in Writes
    /\ up = "normal" => fd.req.dev # Boot
    /\ fd.req.dev \in Internal => fd.req.verb = "INSTALL" /\ fd.req.arg = "ok"

\* The copy back goes to a partition the kernel knows at its new place.
CopyPlaced == fd.pc = "copy" => fd.req.dev \notin stale

\* The inductive invariant of VerifiedStays and DisksAreSacred.
DiskInv == Serving /\ Owed /\ WriteAllowed /\ CopyPlaced /\ VerifiedHolds

\* A non-empty set of naturals has a least member: why Least chooses one.
LEMMA LeastNat ==
  ASSUME NEW S \in SUBSET Nat, S # {}
  PROVE  \E x \in S : \A y \in S : x <= y
<1> DEFINE less == {ss \in Nat \X Nat : ss[1] < ss[2]}
<1>1. IsWellFoundedOn(less, Nat)
  BY NatLessThanWellFounded, Zenon DEF OpToRel
<1>2. \E x \in S : \A y \in S : ~(<<y, x>> \in less)
  <2> HIDE DEF less
  <2> QED BY <1>1, WFMin
<1>3. \A x, y \in Nat : y < x => <<y, x>> \in less
  OBVIOUS
<1>4. \A x, y \in Nat : x <= y \/ y < x
  OBVIOUS
<1> HIDE DEF less
<1> QED BY <1>2, <1>3, <1>4

\* partuuid_dev answers with a disk the kernel shows, or with none.
LEMMA PartuuidType == Types => partuuid_dev \in Disks \cup {NoDisk}
<1> SUFFICES ASSUME Types, shown # {} PROVE Least(shown) \in shown
  BY DEF Types, partuuid_dev
<1>1. \E x \in shown : \A y \in shown : x <= y
  BY LeastNat, FlashAssumption DEF Types
<1> QED
  BY <1>1 DEF Least

\* What can become the content of a persistent partition is in Contents.
LEMMA ContentsType ==
  /\ {Nothing, Empty, Partial} \subseteq Contents
  /\ \A d \in Disks : Kept(d) \in Contents
BY DEF Contents

\* The requests the window sends and the ones typed by hand are requests.
LEMMA RequestType ==
  /\ \A v \in Verbs, d \in Disks \cup {NoDisk}, a \in {"ok", "bad", "preserve", "discard"} :
       Req(v, d, a) \in Request
  /\ Clicked \subseteq Request /\ Typed \subseteq Request
<1>1. \A v \in Verbs, d \in Disks \cup {NoDisk}, a \in {"ok", "bad", "preserve", "discard"} :
       Req(v, d, a) \in Request
  BY DEF Req, Request
<1>2. "ARM" \in Verbs /\ "INSTALL" \in Verbs /\ Writes \subseteq Verbs
  BY DEF Verbs, Writes
<1> QED
  BY <1>1, <1>2 DEF Clicked, Typed

\* The types hold at the start.
LEMMA TypesInit == Init => Types
BY FlashAssumption, ContentsType DEF Init, Types, DiskState, FdIdle, NewWindow

\* Reading a partition table again shows no disk that does not exist.
LEMMA RescannedType ==
  ASSUME Types, NEW d \in Disks, NEW s \in Rescanned(d)
  PROVE  s.shown \subseteq Disks
BY DEF Rescanned, Types

\* What veron-boot leaves of the marker, by what it did with it.
LEMMA StartCases ==
  ASSUME Types, Start
  PROVE  /\ up = "off" /\ disk[Boot].image = "whole"
         /\ UNCHANGED <<plugged, stale, bank, fd, status, ui, asks, wrote, calm>>
         /\ \E l \in {disk[Boot].marker, "none"} :
              /\ disk' = [disk EXCEPT ![Boot].marker = l]
              /\ \/ up' = "normal" /\ root' \in {Boot, NoDisk} /\ UNCHANGED <<armed, entered>>
                 \/ /\ disk[Boot].marker \in {"preserve", "discard"}
                    /\ up' = disk[Boot].marker /\ root' = Boot /\ entered' = entered + 1
                    /\ (l = "none" /\ armed' = armed) \/ armed' = armed + 1
<1>1. PICK t \in take_marker(Boot) :
        /\ disk' = [disk EXCEPT ![Boot].marker = t.left]
        /\ IF t.mode \in {"preserve", "discard"}
           THEN /\ up' = t.mode /\ root' = Boot /\ entered' = entered + 1
                /\ armed' = IF t.refused THEN armed + 1 ELSE armed
           ELSE up' = "normal" /\ root' \in {Boot, NoDisk} /\ UNCHANGED <<armed, entered>>
  BY DEF Start
<1>2. /\ t.left \in {disk[Boot].marker, "none"}
      /\ t.mode \in {disk[Boot].marker, "none"}
      /\ t.refused \in BOOLEAN /\ (t.refused \/ t.mode = "none" \/ t.left = "none")
  <2> DEFINE m == disk[Boot].marker
  <2>1. \/ t = [mode |-> m, left |-> "none", refused |-> FALSE]
        \/ \E l \in {m, "none"} : t = [mode |-> "none", left |-> l, refused |-> FALSE]
        \/ t = [mode |-> m, left |-> m, refused |-> TRUE]
    BY DEF take_marker
  <2> HIDE DEF m
  <2>2. CASE t = [mode |-> m, left |-> "none", refused |-> FALSE]
    BY <2>2, Zenon DEF m
  <2>3. ASSUME NEW l \in {m, "none"}, t = [mode |-> "none", left |-> l, refused |-> FALSE]
        PROVE  /\ t.left \in {disk[Boot].marker, "none"}
               /\ t.mode \in {disk[Boot].marker, "none"}
               /\ t.refused \in BOOLEAN /\ (t.refused \/ t.mode = "none" \/ t.left = "none")
    BY <2>3, Zenon DEF m
  <2>4. CASE t = [mode |-> m, left |-> m, refused |-> TRUE]
    BY <2>4, Zenon DEF m
  <2> QED BY <2>1, <2>2, <2>3, <2>4
<1>3. CASE t.mode \in {"preserve", "discard"}
  BY <1>1, <1>2, <1>3 DEF Start
<1>4. CASE t.mode \notin {"preserve", "discard"}
  BY <1>1, <1>2, <1>4 DEF Start
<1> QED  BY <1>3, <1>4

\* Every step keeps the types; the marker is armed on a disk that exists.
LEMMA TypesNext == Types /\ [Next]_vars => Types'
<1> SUFFICES ASSUME Types, [Next]_vars PROVE Types'
  OBVIOUS
<1> USE FlashAssumption, ContentsType
<1>1. CASE PowerOff
  BY <1>1 DEF PowerOff, Types, FdIdle, NewWindow
<1>2. CASE Start
  <2>1. shown' \subseteq Disks
    BY <1>2 DEF Start, Types
  <2>2. disk[Boot].marker \in {"none", "empty", "preserve", "discard"}
    BY DEF Types, DiskState
  <2>3. disk' \in [Disks -> DiskState]
    BY <1>2, <2>2, StartCases DEF Types, DiskState
  <2>4. /\ up' \in {"normal", "preserve", "discard"} /\ root' \in {Boot, NoDisk}
        /\ armed' \in Nat /\ entered' \in Nat
        /\ UNCHANGED <<plugged, bank, fd, ui, wrote>>
    BY <1>2, <2>2, StartCases DEF Types
  <2> QED BY <2>1, <2>3, <2>4 DEF Types
<1>3. CASE Pivot
  <2>1. Banked \subseteq Contents
    BY DEF Banked, Types, DiskState
  <2> QED BY <1>3, <2>1 DEF Pivot, Types
<1>4. ASSUME NEW d \in Disks, Unplug(d) PROVE Types'
  BY <1>4 DEF Unplug, Types
<1>5. ASSUME NEW d \in Disks, Plug(d) PROVE Types'
  BY <1>5 DEF Plug, Types
<1>6. CASE Validate
  <2>1. CASE ~(AllowedDisk(fd.req.dev) /\ VerbRule(fd.req))
    BY <1>6, <2>1 DEF Validate, Refuse, Quiet, Types, FdIdle
  <2>2. CASE AllowedDisk(fd.req.dev) /\ VerbRule(fd.req)
    <3>0. fd.req.dev \in Disks
      BY <2>2 DEF AllowedDisk, Types
    <3>1. CASE GrowPersist(fd.req.dev)
      <4>1. PICK s \in Rescanned(fd.req.dev) : shown' = s.shown
        BY <3>1 DEF GrowPersist
      <4>2. shown' \subseteq Disks
        BY <3>0, <4>1, RescannedType
      <4>3. fd' = FdIdle /\ UNCHANGED <<disk, armed>>
        BY <3>1 DEF GrowPersist
      <4> QED
        BY <1>6, <3>0, <4>2, <4>3 DEF Validate, Quiet, Types, FdIdle
    <3>2. CASE RestorePersist(fd.req.dev)
      <4>1. PICK s \in Rescanned(fd.req.dev) : shown' = s.shown
        BY <3>2 DEF RestorePersist
      <4>2. shown' \subseteq Disks
        BY <3>0, <4>1, RescannedType
      <4>3. fd' = FdIdle \/ fd' = [pc |-> "copy", req |-> fd.req]
        BY <3>2 DEF RestorePersist
      <4> QED
        BY <1>6, <3>0, <3>2, <4>2, <4>3 DEF Validate, RestorePersist, Quiet, Types, FdIdle
    <3>3. CASE /\ fd' = [fd EXCEPT !.pc = "write"]
               /\ disk' = [disk EXCEPT ![fd.req.dev].image = "torn",
                                       ![fd.req.dev].persist = Empty,
                                       ![fd.req.dev].marker = "none"]
               /\ UNCHANGED <<shown, status, armed>>
      BY <1>6, <3>0, <3>3 DEF Validate, Quiet, Types, DiskState
    <3> QED BY <1>6, <2>2, <3>1, <3>2, <3>3 DEF Validate
  <2> QED BY <2>1, <2>2
<1>7. CASE Write
  BY <1>7 DEF Write, Quiet, Types, DiskState, FdIdle
<1>8. CASE Copy
  <2>1. fd.req.dev \in Disks
    BY <1>8 DEF Copy, Types
  <2>2. \/ disk' = [disk EXCEPT ![fd.req.dev].image = "torn"]
        \/ disk' = [disk EXCEPT ![fd.req.dev].persist = bank]
        \/ disk' = [disk EXCEPT ![fd.req.dev].persist = Partial]
        \/ disk' = disk
    BY <1>8 DEF Copy
  <2>3. disk' \in [Disks -> DiskState]
    BY <2>1, <2>2, SMTT(30) DEF Types, DiskState
  <2> QED
    BY <1>8, <2>3 DEF Copy, Quiet, Types, FdIdle
<1>9. CASE ArmMaintenance
  <2>1. CASE Refuse
    BY <1>9, <2>1 DEF ArmMaintenance, Refuse, Quiet, Types, FdIdle
  <2>2. CASE /\ partuuid_dev # NoDisk /\ fd.req.arg \in {"preserve", "discard"}
             /\ fd' = [fd EXCEPT !.pc = "mark", !.req.dev = partuuid_dev]
             /\ disk' = [disk EXCEPT ![partuuid_dev].marker = "empty"]
             /\ UNCHANGED <<shown, stale, status, armed>>
    <3>1. partuuid_dev \in Disks
      BY <2>2, PartuuidType
    <3>2. fd.req \in Request
      BY <1>9 DEF ArmMaintenance, NoReq, Types
    <3>3. /\ fd'.req = [fd.req EXCEPT !.dev = partuuid_dev] /\ fd'.pc = "mark"
          /\ fd' = [pc |-> "mark", req |-> [fd.req EXCEPT !.dev = partuuid_dev]]
      BY <2>2 DEF Types
    <3>4. [fd.req EXCEPT !.dev = partuuid_dev] \in Request
      BY <3>1, <3>2 DEF Request
    <3>5. fd'.req.dev = partuuid_dev /\ fd'.req.arg = fd.req.arg
      BY <3>2, <3>3 DEF Request
    <3>6. disk' \in [Disks -> DiskState]
      BY <2>2, <3>1 DEF Types, DiskState
    <3> QED
      BY <1>9, <2>2, <3>1, <3>3, <3>4, <3>5, <3>6 DEF ArmMaintenance, Quiet, Types
  <2> QED
    BY <1>9, <2>1, <2>2 DEF ArmMaintenance
<1>10. CASE WriteMarker
  BY <1>10 DEF WriteMarker, Quiet, Types, DiskState, FdIdle, Request
<1>11. CASE ReadLine
  BY <1>11, RequestType, ZenonT(60) DEF ReadLine, Restoring, Types, Verbs
<1>12. CASE RebootArmed
  BY <1>1, <1>12 DEF RebootArmed
<1>13. ASSUME NEW keep \in BOOLEAN, Deliver(keep) PROVE Types'
  BY <1>13, ZenonT(60) DEF Deliver, Noted, Quiet, Types, Request
<1>14. ASSUME NEW r \in Clicked, Click(r) PROVE Types'
  BY <1>14, RequestType DEF Click, Types
<1>15. CASE Close
  BY <1>15 DEF Close, NewWindow, Types
<1>16. ASSUME NEW r \in Typed, ByHand(r) PROVE Types'
  BY <1>16, RequestType DEF ByHand, Types
<1>17. CASE UNCHANGED vars
  BY <1>17 DEF vars, Types
<1> QED
  BY <1>1, <1>2, <1>3, <1>4, <1>5, <1>6, <1>7, <1>8, <1>9, <1>10, <1>11, <1>12, <1>13, <1>14,
     <1>15, <1>16, <1>17 DEF Next, NextNoHand, Flashd, Window

\* The three ways a checked request goes on: it is over, its copy may start and
\* the kernel has the new table, or it passed every check and the image is torn.
LEMMA ValidateCases ==
  ASSUME Validate
  PROVE  /\ UNCHANGED <<up, root, plugged, bank, entered, armed, ui, wrote>>
         /\ fd.pc = "check"
         /\ \/ fd' = FdIdle /\ UNCHANGED disk
            \/ /\ fd' = [pc |-> "copy", req |-> fd.req] /\ UNCHANGED disk
               /\ fd.req.dev \notin stale'
            \/ /\ AllowedDisk(fd.req.dev) /\ VerbRule(fd.req) /\ fd.req.verb \in Writes
               /\ fd' = [fd EXCEPT !.pc = "write"]
               /\ disk' = [disk EXCEPT ![fd.req.dev].image = "torn",
                                       ![fd.req.dev].persist = Empty,
                                       ![fd.req.dev].marker = "none"]
<1>0. UNCHANGED <<up, root, plugged, bank, entered, ui, wrote>> /\ fd.pc = "check"
  BY DEF Validate, Quiet
<1>1. CASE Refuse
  BY <1>0, <1>1 DEF Refuse
<1>2. CASE GrowPersist(fd.req.dev)
  BY <1>0, <1>2 DEF GrowPersist
<1>3. CASE RestorePersist(fd.req.dev)
  <2>1. PICK s \in Rescanned(fd.req.dev) :
          /\ stale' = s.stale
          /\ \/ fd' = FdIdle
             \/ s.ok /\ fd' = [pc |-> "copy", req |-> fd.req]
    BY <1>3 DEF RestorePersist
  <2>2. s.ok => fd.req.dev \notin s.stale
    BY DEF Rescanned
  <2> QED
    BY <1>0, <1>3, <2>1, <2>2 DEF RestorePersist
<1> QED
  BY <1>0, <1>1, <1>2, <1>3 DEF Validate

\* Every step keeps the count: only WriteMarker makes a pending marker, and it
\* counts as armed; only Start enters maintenance, and it removes the marker, or
\* counts the one that firmware left.
LEMMA MarkerNext == Types /\ MarkerInv /\ [Next]_vars => MarkerInv'
<1> SUFFICES ASSUME Types, MarkerInv, [Next]_vars PROVE MarkerInv'
  OBVIOUS
<1> USE FlashAssumption
<1>0. ASSUME disk'[Boot].marker = disk[Boot].marker, UNCHANGED <<entered, armed>>
      PROVE  MarkerInv'
  BY <1>0 DEF MarkerInv, Pending
<1>1. ASSUME disk'[Boot].marker \in {"none", "empty"}, UNCHANGED <<entered, armed>>
      PROVE  MarkerInv'
  BY <1>1 DEF MarkerInv, Pending, Types
<1>2. CASE Start
  <2>1. PICK l \in {disk[Boot].marker, "none"} :
          /\ disk' = [disk EXCEPT ![Boot].marker = l]
          /\ \/ UNCHANGED <<armed, entered>>
             \/ /\ disk[Boot].marker \in {"preserve", "discard"} /\ entered' = entered + 1
                /\ (l = "none" /\ armed' = armed) \/ armed' = armed + 1
    BY <1>2, StartCases
  <2>2. disk'[Boot].marker = l
    BY <2>1 DEF Types, DiskState
  <2> QED
    BY <2>1, <2>2 DEF MarkerInv, Pending, Types
<1>3. CASE Validate
  <2>1. disk'[Boot].marker \in {disk[Boot].marker, "none"}
    BY <1>3, ValidateCases DEF Types, DiskState
  <2>2. UNCHANGED <<entered, armed>>
    BY <1>3, ValidateCases
  <2> QED
    BY <1>0, <1>1, <2>1, <2>2
<1>4. CASE Write
  <2>1. disk'[Boot].marker = disk[Boot].marker
    BY <1>4 DEF Write, Types, DiskState
  <2> QED
    BY <1>0, <1>4, <2>1 DEF Write, Quiet
<1>5. CASE Copy
  <2>1. disk'[Boot].marker = disk[Boot].marker
    BY <1>5 DEF Copy, Types, DiskState
  <2> QED
    BY <1>0, <1>5, <2>1 DEF Copy, Quiet
<1>6. CASE ArmMaintenance
  <2>1. disk'[Boot].marker \in {disk[Boot].marker, "empty"}
    BY <1>6 DEF ArmMaintenance, Refuse, Types, DiskState
  <2>2. UNCHANGED <<entered, armed>>
    BY <1>6 DEF ArmMaintenance, Refuse, Quiet
  <2> QED
    BY <1>0, <1>1, <2>1, <2>2
<1>7. CASE WriteMarker
  BY <1>7 DEF WriteMarker, Quiet, MarkerInv, Pending, Types, DiskState
<1>8. CASE Pivot \/ ReadLine \/ Close \/ PowerOff \/ RebootArmed
  BY <1>0, <1>8 DEF Pivot, ReadLine, Close, PowerOff, RebootArmed
<1>9. ASSUME NEW d \in Disks, Unplug(d) \/ Plug(d) PROVE MarkerInv'
  BY <1>0, <1>9 DEF Unplug, Plug
<1>10. ASSUME NEW keep \in BOOLEAN, Deliver(keep) PROVE MarkerInv'
  BY <1>0, <1>10 DEF Deliver, Quiet
<1>11. ASSUME NEW r \in Clicked, Click(r) PROVE MarkerInv'
  BY <1>0, <1>11 DEF Click
<1>12. ASSUME NEW r \in Typed, ByHand(r) PROVE MarkerInv'
  BY <1>0, <1>12 DEF ByHand
<1>13. CASE UNCHANGED vars
  BY <1>0, <1>13 DEF vars
<1> QED
  BY <1>2, <1>3, <1>4, <1>5, <1>6, <1>7, <1>8, <1>9, <1>10, <1>11, <1>12, <1>13
     DEF Next, NextNoHand, Flashd, Window

\* One armed request buys at most one boot into maintenance: take_marker removes
\* the marker before it acts on it, wherever the power is lost; a deletion that
\* firmware refuses buys one more.
THEOREM MaintenanceOneShot == Spec => []OneShot
<1>1. Init => Types /\ MarkerInv
  BY TypesInit, FlashAssumption DEF Init, MarkerInv, Pending
<1>2. Types /\ MarkerInv /\ [Next]_vars => Types' /\ MarkerInv'
  BY TypesNext, MarkerNext
<1>3. Types /\ MarkerInv => OneShot
  BY DEF Types, MarkerInv, Pending, OneShot
<1> QED
  BY <1>1, <1>2, <1>3, PTL DEF Spec

-----------------------------------------------------------------------------
\* At the start no request is under way and nothing counts as verified.
LEMMA DiskInit == Init => DiskInv
BY DEF Init, DiskInv, Serving, Owed, WriteAllowed, CopyPlaced, VerifiedHolds, FdIdle, NewWindow

\* Every step keeps what the daemon knows of the request it serves.
LEMMA DiskNext == Types /\ DiskInv /\ [Next]_vars => DiskInv'
<1> SUFFICES ASSUME Types, DiskInv, [Next]_vars PROVE DiskInv'
  OBVIOUS
<1> USE FlashAssumption DEF DiskInv
<1>1. CASE PowerOff
  BY <1>1 DEF PowerOff, FdIdle, NewWindow, Serving, Owed, WriteAllowed, CopyPlaced, VerifiedHolds
<1>2. CASE Start
  <2>1. \A d \in Disks : disk'[d].image = disk[d].image
    BY <1>2, StartCases DEF Types, DiskState
  <2>2. fd.pc = "read" /\ ui.send = NoReq
    BY <1>2 DEF Start, Serving, Running
  <2>3. wrote' = wrote /\ fd' = fd /\ ui' = ui
    BY <1>2 DEF Start
  <2>4. VerifiedHolds'
    BY <2>1, <2>3 DEF VerifiedHolds, Types
  <2> QED
    BY <2>2, <2>3, <2>4 DEF Serving, Owed, WriteAllowed, CopyPlaced
<1>3. CASE Pivot
  <2>1. fd.pc = "read" /\ ui.send = NoReq
    BY <1>3 DEF Pivot, Serving, Running
  <2> QED
    BY <1>3, <2>1 DEF Pivot, Serving, Owed, WriteAllowed, CopyPlaced, VerifiedHolds
<1>4. ASSUME NEW d \in Disks, Unplug(d) \/ Plug(d) PROVE DiskInv'
  BY <1>4 DEF Unplug, Plug, Running, Serving, Owed, WriteAllowed, CopyPlaced, VerifiedHolds
<1>5. CASE Validate
  <2>0. UNCHANGED <<up, ui, wrote>> /\ fd.pc = "check" /\ Running
    BY <1>5, ValidateCases DEF Serving
  <2>1. CASE fd' = FdIdle /\ UNCHANGED disk
    BY <2>0, <2>1 DEF FdIdle, Running, Serving, Owed, WriteAllowed, CopyPlaced, VerifiedHolds
  <2>2. CASE /\ fd' = [pc |-> "copy", req |-> fd.req] /\ UNCHANGED disk
             /\ fd.req.dev \notin stale'
    BY <2>0, <2>2 DEF Running, Serving, Owed, WriteAllowed, CopyPlaced, VerifiedHolds
  <2>3. CASE /\ AllowedDisk(fd.req.dev) /\ VerbRule(fd.req) /\ fd.req.verb \in Writes
             /\ fd' = [fd EXCEPT !.pc = "write"]
             /\ disk' = [disk EXCEPT ![fd.req.dev].image = "torn",
                                     ![fd.req.dev].persist = Empty,
                                     ![fd.req.dev].marker = "none"]
    <3>1. fd'.pc = "write" /\ fd'.req = fd.req
      BY <2>3 DEF Types
    <3>2. fd.req.dev \notin wrote
      BY <2>0, <2>3 DEF Owed
    <3>3. VerifiedHolds'
      <4>1. \A d \in Disks \ {fd.req.dev} : disk'[d] = disk[d]
        BY <2>3 DEF Types
      <4> QED
        BY <2>0, <3>2, <4>1 DEF VerifiedHolds, Types
    <3>4. WriteAllowed'
      BY <2>0, <2>3, <3>1 DEF WriteAllowed, AllowedDisk, VerbRule, Types, Writes
    <3> QED
      BY <2>0, <3>1, <3>2, <3>3, <3>4 DEF Running, Serving, Owed, CopyPlaced
  <2> QED
    BY <1>5, <2>1, <2>2, <2>3, ValidateCases
<1>6. CASE Write
  <2>1. fd' = FdIdle /\ UNCHANGED <<up, ui>>
    BY <1>6 DEF Write, Quiet
  <2>2. VerifiedHolds'
    <3>1. PICK got \in {"torn", "whole"} :
            /\ disk' = [disk EXCEPT ![fd.req.dev].image = got]
            /\ \/ got = "whole" /\ wrote' = wrote \cup {fd.req.dev}
               \/ wrote' = wrote \ {fd.req.dev}
      BY <1>6 DEF Write, Matches
    <3>2. fd.req.dev \in Disks
      BY <1>6 DEF Write, Types
    <3> QED
      BY <3>1, <3>2 DEF VerifiedHolds, Types, DiskState
  <2> QED
    BY <2>1, <2>2 DEF FdIdle, Running, Serving, Owed, WriteAllowed, CopyPlaced
<1>7. CASE Copy
  <2>1. fd' = FdIdle /\ UNCHANGED <<up, ui, wrote>>
    BY <1>7 DEF Copy, Quiet
  <2>2. \A d \in Disks : disk'[d].image = disk[d].image
    <3>1. fd.req.dev \in Disks /\ fd.req.dev \notin stale
      BY <1>7 DEF Copy, CopyPlaced, Types
    <3>2. \/ disk' = [disk EXCEPT ![fd.req.dev].persist = bank]
          \/ disk' = [disk EXCEPT ![fd.req.dev].persist = Partial]
          \/ disk' = disk
      BY <1>7, <3>1 DEF Copy
    <3> QED
      BY <3>1, <3>2 DEF Types, DiskState
  <2> QED
    BY <2>1, <2>2 DEF FdIdle, Running, Serving, Owed, WriteAllowed, CopyPlaced, VerifiedHolds, Types
<1>8. CASE ArmMaintenance
  <2>1. fd'.pc \in {"read", "mark"} /\ UNCHANGED <<up, ui, wrote>> /\ Running
    <3>1. fd' = FdIdle \/ fd' = [fd EXCEPT !.pc = "mark", !.req.dev = partuuid_dev]
      BY <1>8 DEF ArmMaintenance, Refuse
    <3>2. CASE fd' = FdIdle
      BY <1>8, <3>2 DEF FdIdle, ArmMaintenance, Quiet, Serving
    <3>3. CASE fd' = [fd EXCEPT !.pc = "mark", !.req.dev = partuuid_dev]
      <4>1. fd' = [pc |-> "mark", req |-> [fd.req EXCEPT !.dev = partuuid_dev]]
        BY <3>3 DEF Types
      <4> QED
        BY <1>8, <4>1 DEF ArmMaintenance, Quiet, Serving
    <3> QED
      BY <3>1, <3>2, <3>3
  <2>2. \A d \in Disks : disk'[d].image = disk[d].image
    BY <1>8 DEF ArmMaintenance, Refuse, Types, DiskState
  <2> QED
    BY <2>1, <2>2 DEF Running, Serving, Owed, WriteAllowed, CopyPlaced, VerifiedHolds, Types
<1>9. CASE WriteMarker
  <2>1. fd' = FdIdle /\ UNCHANGED <<up, ui, wrote>>
    BY <1>9 DEF WriteMarker, Quiet
  <2>2. \A d \in Disks : disk'[d].image = disk[d].image
    BY <1>9 DEF WriteMarker, Types, DiskState
  <2> QED
    BY <2>1, <2>2 DEF FdIdle, Running, Serving, Owed, WriteAllowed, CopyPlaced, VerifiedHolds, Types
<1>10. CASE ReadLine
  BY <1>10 DEF ReadLine, Running, Serving, Owed, WriteAllowed, CopyPlaced, VerifiedHolds
<1>11. CASE RebootArmed
  BY <1>1, <1>11 DEF RebootArmed
<1>12. ASSUME NEW keep \in BOOLEAN, Deliver(keep) PROVE DiskInv'
  BY <1>12 DEF Deliver, Quiet, Running, Serving, Owed, WriteAllowed, CopyPlaced, VerifiedHolds
<1>13. ASSUME NEW r \in Clicked, Click(r) PROVE DiskInv'
  BY <1>13 DEF Click, Running, Serving, Owed, WriteAllowed, CopyPlaced, VerifiedHolds
<1>14. CASE Close
  BY <1>14 DEF Close, Running, Serving, Owed, WriteAllowed, CopyPlaced, VerifiedHolds
<1>15. ASSUME NEW r \in Typed, ByHand(r) PROVE DiskInv'
  BY <1>15 DEF ByHand, Running, Serving, Owed, WriteAllowed, CopyPlaced, VerifiedHolds
<1>16. CASE UNCHANGED vars
  BY <1>16 DEF vars, Running, Serving, Owed, WriteAllowed, CopyPlaced, VerifiedHolds
<1> QED
  BY <1>1, <1>2, <1>3, <1>4, <1>5, <1>6, <1>7, <1>8, <1>9, <1>10, <1>11, <1>12, <1>13, <1>14,
     <1>15, <1>16 DEF Next, NextNoHand, Flashd, Window

\* A disk the window calls verified holds the whole image, until flashd is asked
\* to write it again: no unplugging, refusal or copy back tears it meanwhile.
THEOREM VerifiedStays == Spec => []VerifiedHolds
<1>1. Types /\ DiskInv /\ [Next]_vars => Types' /\ DiskInv'
  BY TypesNext, DiskNext
<1>2. DiskInv => VerifiedHolds
  BY DEF DiskInv
<1> QED
  BY TypesInit, DiskInit, <1>1, <1>2, PTL DEF Spec

\* A step that changes an image is the start or the end of a write whose checks
\* passed, on a system that runs flashd.
LEMMA SacredStep ==
  ASSUME Types, DiskInv, [Next]_vars
  PROVE  [\A d \in Disks : disk'[d].image # disk[d].image =>
            /\ up = "normal" => d # Boot
            /\ up \in {"normal", "maint"}
            /\ d \in Internal => fd.req.verb = "INSTALL" /\ fd.req.arg = "ok"]_vars
<1> SUFFICES ASSUME NEW d \in Disks, disk'[d].image # disk[d].image
             PROVE  /\ up = "normal" => d # Boot
                    /\ up \in {"normal", "maint"}
                    /\ d \in Internal => fd.req.verb = "INSTALL" /\ fd.req.arg = "ok"
  OBVIOUS
<1> USE FlashAssumption
<1>1. CASE Validate
  <2>1. /\ AllowedDisk(fd.req.dev) /\ VerbRule(fd.req) /\ fd.req.verb \in Writes
        /\ disk' = [disk EXCEPT ![fd.req.dev].image = "torn", ![fd.req.dev].persist = Empty,
                                ![fd.req.dev].marker = "none"]
    BY <1>1, ValidateCases
  <2>2. d = fd.req.dev
    BY <2>1 DEF Types
  <2>3. Running
    BY <1>1 DEF Validate, DiskInv, Serving
  <2> QED
    BY <2>1, <2>2, <2>3 DEF AllowedDisk, VerbRule, Writes, Running, Types
<1>2. CASE Write
  <2>1. d = fd.req.dev
    <3>1. PICK got \in {"torn", "whole"} : disk' = [disk EXCEPT ![fd.req.dev].image = got]
      BY <1>2 DEF Write
    <3> QED BY <3>1 DEF Types
  <2> QED
    BY <1>2, <2>1 DEF Write, DiskInv, Serving, Running, WriteAllowed
<1>3. CASE Copy
  <2>1. fd.req.dev \in Disks /\ fd.req.dev \notin stale
    BY <1>3 DEF Copy, DiskInv, CopyPlaced, Types
  <2>2. \/ disk' = [disk EXCEPT ![fd.req.dev].persist = bank]
        \/ disk' = [disk EXCEPT ![fd.req.dev].persist = Partial]
        \/ disk' = disk
    BY <1>3, <2>1 DEF Copy
  <2> QED
    BY <2>1, <2>2 DEF Types, DiskState
<1>4. CASE Start
  BY <1>4, StartCases DEF Types, DiskState
<1>5. CASE ArmMaintenance
  BY <1>5 DEF ArmMaintenance, Refuse, Types, DiskState
<1>6. CASE WriteMarker
  BY <1>6 DEF WriteMarker, Types, DiskState
<1>7. CASE PowerOff \/ Pivot \/ ReadLine \/ RebootArmed \/ Close
  BY <1>7 DEF PowerOff, Pivot, ReadLine, RebootArmed, Close
<1>8. ASSUME NEW e \in Disks, Unplug(e) \/ Plug(e) PROVE FALSE
  BY <1>8 DEF Unplug, Plug
<1>9. ASSUME NEW keep \in BOOLEAN, Deliver(keep) PROVE FALSE
  BY <1>9 DEF Deliver
<1>10. ASSUME NEW r \in Clicked, Click(r) PROVE FALSE
  BY <1>10 DEF Click
<1>11. ASSUME NEW r \in Typed, ByHand(r) PROVE FALSE
  BY <1>11 DEF ByHand
<1>12. CASE UNCHANGED vars
  BY <1>12 DEF vars
<1> QED
  BY <1>1, <1>2, <1>3, <1>4, <1>5, <1>6, <1>7, <1>8, <1>9, <1>10, <1>11, <1>12
     DEF Next, NextNoHand, Flashd, Window

\* The image on a disk changes only on a running system, never on the disk it
\* runs from in normal mode, and on an internal disk only for an INSTALL that
\* carries the consent string.
THEOREM DisksAreSacred == Spec => SacredDisks
<1>1. Types /\ DiskInv /\ [Next]_vars => Types' /\ DiskInv'
  BY TypesNext, DiskNext
<1> QED
  BY TypesInit, DiskInit, <1>1, SacredStep, PTL DEF Spec, SacredDisks

-----------------------------------------------------------------------------
(* veron-growpart.                                                          *)

\* The places after the primary header was written.
Whole == {"mbr", "oldBackup", "sync", "kernel", "fsck", "resize"}

\* A table the file system fits in and that leaves room for the backup GPT.
TableOK(t) == fs <= Size(t) /\ t.last <= LastUsable

\* What a grow under way has already written: the parts in their order, the
\* medium once it is synced, the size the kernel shows once it has rescanned.
\* Until the backup is whole the old primary table still reads; the new backup
\* is whole until the old one is zeroed.
JobInv ==
  /\ job.pc # "idle" => TableOK(job.new) /\ job.new.alt = total - 1
  /\ job.pc \in {"backupEntries", "backup"} => Reads(cache)
  /\ job.pc \in {"backup", "entries", "header", "mbr", "oldBackup"}
       => cache.backupEntries = job.new
  /\ job.pc \in {"entries", "header"} \cup Whole => cache.backup = job.new
  /\ job.pc \in {"header"} \cup Whole => cache.entries = job.new
  /\ job.pc \in Whole => cache.header = job.new
  /\ job.pc \in {"kernel", "fsck", "resize"} => media.entries = job.new
  /\ job.pc \in {"fsck", "resize"} => kern = Size(job.new)

\* The inductive invariant: whatever entries the page cache and the medium hold,
\* they are those of a table the file system fits in.
GrowInv == GrowTypeOK /\ TableOK(cache.entries) /\ TableOK(media.entries) /\ JobInv

\* The image as it was written fits.
LEMMA GrowStarts == GrowInit => GrowInv
<1> SUFFICES ASSUME GrowInit PROVE GrowInv
  OBVIOUS
<1> USE GrowpartAssumption
<1>1. total \in Nat /\ First + 1 < total - Ent - 1
  BY DEF GrowInit
<1>2. PICK alt \in (First + Ent + 2) .. (total - 1) :
        LET t == Table(alt - Ent - 1, alt)  end == IF alt = total - 1 THEN t ELSE Gone IN
        /\ cache = [header |-> t, entries |-> t, backup |-> end, backupEntries |-> end,
                    oldBackup |-> t]
        /\ fs = t.last - First + 1
  BY DEF GrowInit
<1> DEFINE t == Table(alt - Ent - 1, alt)
           end == IF alt = total - 1 THEN t ELSE Gone
<1>3. t \in Tables /\ Gone \in Tables /\ end \in Tables
  BY <1>1, <1>2 DEF Tables, Table, Gone
<1>4. cache \in [Parts -> Tables] /\ cache.entries = t /\ media = cache
  BY <1>2, <1>3 DEF Parts, GrowInit
<1>5. fs = alt - Ent - First /\ fs \in 0 .. total /\ kern = fs
  BY <1>1, <1>2 DEF Table, GrowInit
<1>6. t.last = alt - Ent - 1
  BY DEF Table
<1>7. job = Idle /\ job.pc = "idle" /\ follows \in BOOLEAN /\ total \in Totals
  BY DEF GrowInit, Idle
<1>8. GrowTypeOK
  <2>1. job \in [pc : Places, new : Tables, alt : -1 .. total - 1, how : {"none", "done", "refused"}]
    BY <1>1, <1>3, <1>7 DEF Idle, Places
  <2> QED BY <1>4, <1>5, <1>7, <2>1 DEF GrowTypeOK
<1>9. TableOK(t)
  BY <1>1, <1>2, <1>5, <1>6 DEF TableOK, Size, LastUsable
<1>10. JobInv
  BY <1>7 DEF JobInv, Whole
<1> QED BY <1>4, <1>8, <1>9, <1>10 DEF GrowInv

\* A grow that has ended, in any way.
LEMMA IdleTyped ==
  ASSUME total \in Nat \ {0}, NEW h \in {"none", "done", "refused"}
  PROVE  [Idle EXCEPT !.how = h] \in
           [pc : Places, new : Tables, alt : -1 .. total - 1, how : {"none", "done", "refused"}]
BY DEF Idle, Places, Tables, Gone, Table

\* Every write, write-back, kill and loss of power keeps the invariant.
LEMMA GrowKept == GrowInv /\ [GrowNext]_growVars => GrowInv'
<1> SUFFICES ASSUME GrowInv, [GrowNext]_growVars PROVE GrowInv'
  OBVIOUS
<1> USE GrowpartAssumption
<1> DEFINE Jobs == [pc : Places, new : Tables, alt : -1 .. total - 1,
                    how : {"none", "done", "refused"}]
<1>t. /\ total \in Totals /\ total \in Nat \ {0} /\ fs \in 0 .. total /\ kern \in 0 .. total
      /\ cache \in [Parts -> Tables] /\ media \in [Parts -> Tables] /\ follows \in BOOLEAN
      /\ job \in Jobs /\ First + 1 < total - Ent - 1
  BY DEF GrowInv, GrowTypeOK
<1>c. /\ cache.entries \in Tables /\ media.entries \in Tables /\ cache.header \in Tables
      /\ cache.entries.last \in Int /\ media.entries.last \in Int /\ job.new.last \in Int
  BY <1>t DEF Tables, Parts
<1>o. TableOK(cache.entries) /\ TableOK(media.entries) /\ JobInv
  BY DEF GrowInv
<1>i. \A h \in {"none", "done", "refused"} : [Idle EXCEPT !.how = h] \in Jobs
  BY <1>t, IdleTyped
<1>u. total' = total /\ follows' = follows
  BY DEF GrowNext, Grow, WriteNext, Sync, KernelRescan, Fsck, Resize, WriteBack, Kill, PowerLoss, growVars
<1>v. Tables' = Tables /\ Jobs' = Jobs
  BY <1>u DEF Tables
<1>n. \A h \in {"none", "done", "refused"} : [Idle EXCEPT !.how = h].pc = "idle"
  BY DEF Idle
<1>1. ASSUME NEW n \in Sizes, Grow(n) PROVE GrowInv'
  <2>1. UNCHANGED <<total, cache, media, fs, kern, follows>>
    BY <1>1 DEF Grow
  <2>2. CASE job' = [Idle EXCEPT !.how = "refused"] \/ job' = [Idle EXCEPT !.how = "done"]
    <3>1. job' \in Jobs /\ job'.pc = "idle"
      BY <2>2, <1>i, <1>n
    <3> QED BY <2>1, <3>1, <1>t, <1>o, <1>v DEF GrowInv, GrowTypeOK, JobInv, Whole, TableOK, Size, LastUsable
  <2>3. CASE /\ ~Refused(n)
             /\ job' = [pc |-> "backupEntries", new |-> Table(NewLast(n), total - 1),
                        alt |-> cache.header.alt, how |-> "none"]
    <3>1. Reads(cache) /\ NewLast(n) <= LastUsable /\ NewLast(n) >= cache.entries.last
      <4>1. NewLast(n) \in Int /\ LastUsable \in Int
        BY <1>t DEF NewLast, LastUsable
      <4> QED BY <2>3, <4>1, <1>c DEF Refused
    <3>2. NewLast(n) \in -1 .. total - 1
      BY <3>1, <1>t, <1>c DEF NewLast, LastUsable, Tables
    <3>3. job' \in Jobs
      BY <2>3, <3>2, <1>t, <1>c DEF Places, Tables, Table
    <3>4. job'.pc = "backupEntries" /\ job'.new.last = NewLast(n) /\ job'.new.alt = total - 1
      BY <2>3 DEF Table
    <3>5. TableOK(job'.new)
      BY <3>1, <3>2, <3>4, <1>o, <1>c, <1>t DEF TableOK, Size
    <3> QED BY <2>1, <3>1, <3>3, <3>4, <3>5, <1>t, <1>o, <1>v
            DEF GrowInv, GrowTypeOK, JobInv, Whole, TableOK, Size, LastUsable, Reads
  <2> QED BY <1>1, <2>2, <2>3 DEF Grow
<1>2. CASE WriteNext
  <2>1. UNCHANGED <<total, media, fs, kern, follows>> /\ job.pc \in Parts \cup {"mbr"}
    BY <1>2 DEF WriteNext
  <2>2. job' = [job EXCEPT !.pc = Order(job.pc)] /\ cache' = Written(job.pc)
    BY <1>2 DEF WriteNext
  <2>3. Order(job.pc) \in Places
    BY <2>1 DEF Parts, Places, Order
  <2>4. job' \in Jobs /\ job'.new = job.new /\ job'.pc = Order(job.pc)
    BY <2>2, <2>3, <1>t
  <2>5. Gone \in Tables
    BY <1>t DEF Gone, Table, Tables
  <2>6. cache' \in [Parts -> Tables]
    <3>1. CASE job.pc = "mbr"
      BY <3>1, <2>2, <1>t DEF Written
    <3>2. CASE job.pc = "oldBackup"
      BY <3>2, <2>2, <2>5, <1>t DEF Written
    <3>3. CASE job.pc \notin {"mbr", "oldBackup"}
      BY <3>3, <2>1, <2>2, <1>t DEF Written
    <3> QED BY <3>1, <3>2, <3>3
  <2>7. GrowTypeOK'
    BY <2>1, <2>4, <2>6, <1>t, <1>v DEF GrowTypeOK
  <2>8. TableOK(job.new) /\ job.new.alt = total - 1
    BY <2>1, <1>o DEF JobInv, Parts
  <2>9. cache'.entries \in {cache.entries, job.new}
    <3>1. CASE job.pc = "mbr"
      BY <3>1, <2>2 DEF Written
    <3>2. CASE job.pc = "oldBackup"
      BY <3>2, <2>2, <1>t DEF Written, Zeroed, Parts
    <3>3. CASE job.pc \notin {"mbr", "oldBackup"}
      BY <3>3, <2>1, <2>2, <1>t DEF Written, Parts
    <3> QED BY <3>1, <3>2, <3>3
  <2>10. TableOK(cache'.entries)
    BY <2>8, <2>9, <1>o
  <2>11. JobInv'
    <3>1. CASE job.pc = "backupEntries"
      BY <3>1, <2>1, <2>2, <2>4, <2>8, <1>t, <1>o DEF JobInv, Written, Order, Parts, Whole, Reads, TableOK, Size, LastUsable
    <3>2. CASE job.pc = "backup"
      BY <3>2, <2>1, <2>2, <2>4, <2>8, <1>t, <1>o DEF JobInv, Written, Order, Parts, Whole, Reads, TableOK, Size, LastUsable
    <3>3. CASE job.pc = "entries"
      BY <3>3, <2>1, <2>2, <2>4, <2>8, <1>t, <1>o DEF JobInv, Written, Order, Parts, Whole, Reads, TableOK, Size, LastUsable
    <3>4. CASE job.pc = "header"
      BY <3>4, <2>1, <2>2, <2>4, <2>8, <1>t, <1>o DEF JobInv, Written, Order, Parts, Whole, Reads, TableOK, Size, LastUsable
    <3>5. CASE job.pc = "oldBackup"
      <4>1. /\ cache'.entries = cache.entries /\ cache'.header = cache.header
            /\ cache'.backup = cache.backup
        BY <3>5, <2>2, <1>t DEF Written, Zeroed, Parts
      <4>2. job'.pc = "sync"
        BY <3>5, <2>4 DEF Order
      <4> QED BY <3>5, <4>1, <4>2, <2>1, <2>4, <2>8, <1>t, <1>o DEF JobInv, Whole, TableOK, Size, LastUsable
    <3>6. CASE job.pc = "mbr"
      BY <3>6, <2>1, <2>2, <2>4, <2>8, <1>t, <1>o DEF JobInv, Written, Order, Parts, Whole, Reads, TableOK, Size, LastUsable
    <3> QED BY <2>1, <3>1, <3>2, <3>3, <3>4, <3>5, <3>6 DEF Parts
  <2> QED BY <2>1, <2>7, <2>10, <2>11, <1>o DEF GrowInv, TableOK, Size, LastUsable
<1>3. CASE Sync
  <2>1. job' \in Jobs /\ job'.pc = "kernel" /\ job'.new = job.new /\ media' = cache
    BY <1>3, <1>t DEF Sync, Synced, Places
  <2> QED BY <1>3, <2>1, <1>t, <1>o, <1>v DEF Sync, GrowInv, GrowTypeOK, JobInv, Whole, TableOK, Size, LastUsable
<1>4. CASE KernelRescan
  <2>1. CASE kern' = Size(job.new) /\ job' = [job EXCEPT !.pc = "fsck"]
    <3>1. job' \in Jobs /\ job'.pc = "fsck" /\ job'.new = job.new
      BY <2>1, <1>t DEF Places
    <3>2. kern' \in 0 .. total
      BY <1>4, <2>1, <1>t, <1>c, <1>o DEF KernelRescan, JobInv, TableOK, Size, LastUsable
    <3> QED BY <1>4, <2>1, <3>1, <3>2, <1>t, <1>o, <1>v
            DEF KernelRescan, GrowInv, GrowTypeOK, JobInv, Whole, TableOK, Size, LastUsable
  <2>2. CASE kern' = kern /\ job' = [Idle EXCEPT !.how = "refused"]
    <3>1. job' \in Jobs /\ job'.pc = "idle"
      BY <2>2, <1>i, <1>n
    <3> QED BY <1>4, <2>2, <3>1, <1>t, <1>o, <1>v
            DEF KernelRescan, GrowInv, GrowTypeOK, JobInv, Whole, TableOK, Size, LastUsable
  <2> QED BY <1>4, <2>1, <2>2 DEF KernelRescan
<1>5. CASE Fsck
  <2>1. CASE job' = [job EXCEPT !.pc = "resize"]
    <3>1. job' \in Jobs /\ job'.pc = "resize" /\ job'.new = job.new
      BY <2>1, <1>t DEF Places
    <3> QED BY <1>5, <3>1, <1>t, <1>o, <1>v
            DEF Fsck, GrowInv, GrowTypeOK, JobInv, Whole, TableOK, Size, LastUsable
  <2>2. CASE job' = [Idle EXCEPT !.how = "refused"]
    <3>1. job' \in Jobs /\ job'.pc = "idle"
      BY <2>2, <1>i, <1>n
    <3> QED BY <1>5, <3>1, <1>t, <1>o, <1>v
            DEF Fsck, GrowInv, GrowTypeOK, JobInv, Whole, TableOK, Size, LastUsable
  <2> QED BY <1>5, <2>1, <2>2 DEF Fsck
<1>6. CASE Resize
  <2>1. job' \in Jobs /\ job'.pc = "idle" /\ fs' \in {fs, kern}
    BY <1>6, <1>i, <1>n DEF Resize
  <2>2. kern = Size(job.new) /\ cache.entries = job.new /\ media.entries = job.new
    BY <1>6, <1>o DEF Resize, JobInv, Whole
  <2>3. TableOK(cache.entries)' /\ TableOK(media.entries)'
    BY <1>6, <2>1, <2>2, <1>t, <1>c, <1>o DEF Resize, TableOK, Size, LastUsable
  <2> QED BY <1>6, <2>1, <2>3, <1>t, <1>v
          DEF Resize, GrowInv, GrowTypeOK, JobInv, Whole
<1>7. ASSUME NEW p \in Parts, WriteBack(p) PROVE GrowInv'
  <2>1. media' \in [Parts -> Tables] /\ media'.entries \in {media.entries, cache.entries}
    BY <1>7, <1>t DEF WriteBack, Parts
  <2>2. job.pc \in {"kernel", "fsck", "resize"} => media'.entries = job.new
    BY <2>1, <1>o DEF JobInv, Whole
  <2> QED BY <1>7, <2>1, <2>2, <1>t, <1>o, <1>v
          DEF WriteBack, GrowInv, GrowTypeOK, JobInv, Whole, TableOK, Size, LastUsable, Reads
<1>8. CASE Kill
  <2>1. job' \in Jobs /\ job'.pc = "idle"
    BY <1>8, <1>t DEF Kill, Idle, Places, Tables, Gone, Table
  <2> QED BY <1>8, <2>1, <1>t, <1>o, <1>v DEF Kill, GrowInv, GrowTypeOK, JobInv, Whole, TableOK, Size, LastUsable
<1>9. CASE PowerLoss
  <2>1. job' \in Jobs /\ job'.pc = "idle"
    BY <1>9, <1>t DEF PowerLoss, Idle, Places, Tables, Gone, Table
  <2>2. kern' \in 0 .. total
    BY <1>9, <1>t, <1>c, <1>o DEF PowerLoss, TableOK, Size, LastUsable
  <2> QED BY <1>9, <2>1, <2>2, <1>t, <1>o, <1>v DEF PowerLoss, GrowInv, GrowTypeOK, JobInv, Whole, TableOK, Size, LastUsable
<1>10. CASE UNCHANGED growVars
  BY <1>10, <1>t, <1>o, <1>v DEF growVars, GrowInv, GrowTypeOK, JobInv, Whole, TableOK, Size, LastUsable, Reads
<1> QED BY <1>1, <1>2, <1>3, <1>4, <1>5, <1>6, <1>7, <1>8, <1>9, <1>10 DEF GrowNext

\* The table's sectors, the file system's size and the size the kernel shows stay
\* within the disk, and a grow within its sequence of steps.
THEOREM GrowTypeCorrect == GrowSpec => []GrowTypeOK
<1>1. GrowInv => GrowTypeOK
  BY DEF GrowInv
<1> QED BY GrowStarts, GrowKept, <1>1, PTL DEF GrowSpec

\* Whatever part of a grow reached the medium when the power went, a table that
\* reads holds the file system and ends before the backup GPT: cmd_grow never
\* shrinks, and resize2fs runs only after the fsync and the rescan.  For every
\* size of disk, of array and of file system.
THEOREM GrowKeepsFsInside == GrowSpec => []FsInsidePartition
<1>1. GrowInv => FsInsidePartition
  BY DEF GrowInv, FsInsidePartition, TableOK
<1> QED BY GrowStarts, GrowKept, <1>1, PTL DEF GrowSpec

\* The backup is written while the old primary reads, the primary while the new
\* backup is whole, and the old backup zeroed once the new primary reads.
LEMMA WriteKeepsTable ==
  GrowInv /\ WriteNext /\ Valid(cache) => Valid(cache')
<1> SUFFICES ASSUME GrowInv, WriteNext, Valid(cache) PROVE Valid(cache')
  OBVIOUS
<1> USE GrowpartAssumption
<1>1. /\ total \in Nat \ {0} /\ cache \in [Parts -> Tables] /\ job.new \in Tables /\ JobInv
  BY DEF GrowInv, GrowTypeOK
<1>2. job.pc \in Parts \cup {"mbr"} /\ cache' = Written(job.pc) /\ total' = total
  BY DEF WriteNext
<1>3. job.new.alt = total - 1 /\ job.new # Gone
  BY <1>1, <1>2 DEF JobInv, Parts, Gone, Table
<1>4. CASE job.pc \in {"backupEntries", "backup"}
  BY <1>1, <1>2, <1>4 DEF JobInv, Written, Reads, Valid, Parts
<1>5. CASE job.pc \in {"entries", "header"}
  BY <1>1, <1>2, <1>3, <1>5 DEF JobInv, Whole, Written, Valid, Parts
<1>6. CASE job.pc \in {"mbr", "oldBackup"}
  <2>1. cache'.header = job.new /\ cache'.entries = job.new
    BY <1>1, <1>2, <1>6 DEF JobInv, Whole, Written, Zeroed, Parts
  <2> QED BY <1>3, <2>1 DEF Valid, Reads
<1> QED BY <1>2, <1>4, <1>5, <1>6 DEF Parts

\* Killed between any two of cmd_grow's writes, a disk whose table the firmware
\* accepts keeps one, for every size of disk.
THEOREM WritesKeepATable == GrowSpec => TableSurvivesKill
<1>1. GrowInv /\ [GrowNext]_growVars => [WriteNext /\ Valid(cache) => Valid(cache')]_growVars
  BY WriteKeepsTable
<1> QED BY GrowStarts, GrowKept, <1>1, PTL DEF GrowSpec, TableSurvivesKill

-----------------------------------------------------------------------------
(* One write and what follows it.                                           *)

(* The lines that end a grow. *)
GrowLines == {"GROWN", "GROW FAILED"}

NoFollow == ui.grow = NoDisk /\ ui.restore = NoDisk

(* The window has noted the restore exactly if there is a bank to restore. *)
Follow(d) == ui.restore = IF up = "maint" /\ bank # Nothing THEN d ELSE NoDisk

Untouched == ui = NewWindow /\ fd = FdIdle /\ status = <<>> /\ wrote = {}

Sent == /\ ui.send \in Clicked /\ NoFollow /\ (ui.send.verb = "ARM" => ui.arm)
        /\ fd = FdIdle /\ status = <<>> /\ wrote = {}

WritingTo(d) ==
  /\ fd.pc \in {"check", "write"} /\ fd.req.verb \in Writes /\ fd.req.dev = d
  /\ ui.send = NoReq /\ ui.grow \in {NoDisk, d} /\ Follow(d)
  /\ status = <<>> /\ wrote = {}

Arming ==
  /\ ui.send = NoReq /\ NoFollow /\ ui.arm /\ wrote = {}
  /\ \/ fd.pc \in {"check", "mark"} /\ fd.req.verb = "ARM" /\ status = <<>>
     \/ fd = FdIdle /\ status = <<"ARMED">>

(* A refusal or a failure is on its way to the person. *)
Told == /\ fd = FdIdle /\ ui.send = NoReq
        /\ status = <<"REFUSED">> \/ status = <<"FAILED">>

VerifiedOn(d) ==
  /\ fd = FdIdle /\ ui.send = NoReq /\ ui.grow \in {NoDisk, d} /\ Follow(d)
  /\ status = <<"VERIFIED">> /\ wrote = {d}

GrowingOn(d) ==
  /\ ui.grow = NoDisk /\ Follow(d) /\ wrote = {d}
  /\ \/ ui.send = Req("GROW", d, "ok") /\ fd = FdIdle /\ status = <<>>
     \/ fd = [pc |-> "check", req |-> Req("GROW", d, "ok")] /\ ui.send = NoReq /\ status = <<>>
     \/ fd = FdIdle /\ ui.send = NoReq /\ \E g \in GrowLines : status = <<g>>

RestoringOn(d) ==
  /\ NoFollow /\ status = <<>> /\ wrote = {d}
  /\ \/ ui.send = Req("RESTORE", d, "ok") /\ fd = FdIdle
     \/ \E p \in {"check", "copy"} : fd = [pc |-> p, req |-> Req("RESTORE", d, "ok")]
          /\ ui.send = NoReq

DoneOn(d) ==
  /\ NoFollow /\ fd = FdIdle /\ ui.send = NoReq /\ wrote = {d}
  /\ status = <<>> \/ status = <<"RESTORED">>
  /\ up = "maint" /\ bank # Nothing => disk[d].persist = bank

(* Where an undisturbed write can be. *)
Course ==
  \/ Untouched \/ Sent \/ Arming \/ Told
  \/ \E d \in Disks : WritingTo(d) \/ VerifiedOn(d) \/ GrowingOn(d) \/ RestoringOn(d) \/ DoneOn(d)

(* Nothing is under way on a system that does not run. *)
CourseInv == (~Running => Untouched) /\ (calm => Course)

\* A status file with one line.
LEMMA OneLine ==
  ASSUME NEW x
  PROVE  Append(<<>>, x) = <<x>> /\ Head(<<x>>) = x /\ Tail(<<x>>) = <<>> /\ <<x>> # <<>>
OBVIOUS

\* The lines that end a grow say nothing else.
LEMMA GrowLinesDiffer ==
  \A g \in GrowLines : g \notin {"REFUSED", "FAILED", "VERIFIED", "ARMED", "RESTORED"}
BY Zenon DEF GrowLines

\* The fields of requests, of an idle daemon and of a new window.
LEMMA FieldFacts ==
  /\ \A v, d, a : Req(v, d, a).verb = v /\ Req(v, d, a).dev = d /\ Req(v, d, a).arg = a
  /\ NoReq.verb = "none" /\ FdIdle.pc = "read" /\ FdIdle.req = NoReq
  /\ NewWindow.send = NoReq /\ NewWindow.grow = NoDisk /\ NewWindow.restore = NoDisk
BY DEF Req, NoReq, FdIdle, NewWindow

\* What the window can ask for.
LEMMA ClickedAre ==
  ASSUME NEW r \in Clicked
  PROVE  /\ (r.verb \in Writes /\ r.dev \in Disks) \/ r.verb = "ARM"
         /\ r # NoReq
<1>1. "none" \notin Writes /\ "none" # "ARM"
  BY DEF Writes
<1> QED BY <1>1, FieldFacts DEF Clicked

\* What is under way when the daemon is not idle.
LEMMA Serves ==
  ASSUME Course, fd.pc # "read"
  PROVE  /\ ui.send = NoReq /\ status = <<>>
         /\ \/ \E d \in Disks : WritingTo(d)
            \/ Arming /\ fd.pc \in {"check", "mark"} /\ fd.req.verb = "ARM"
            \/ \E d \in Disks : GrowingOn(d) /\ fd.pc = "check" /\ fd.req = Req("GROW", d, "ok")
            \/ \E d \in Disks : /\ RestoringOn(d) /\ fd.pc \in {"check", "copy"}
                                /\ fd.req = Req("RESTORE", d, "ok")
<1>1. fd # FdIdle
  BY FieldFacts
<1>2. CASE \E d \in Disks : WritingTo(d)
  BY <1>2 DEF WritingTo
<1>3. CASE Arming
  BY <1>1, <1>3 DEF Arming
<1>4. ASSUME NEW d \in Disks, GrowingOn(d)
      PROVE  /\ ui.send = NoReq /\ status = <<>> /\ fd.pc = "check" /\ fd.req = Req("GROW", d, "ok")
  BY <1>1, <1>4 DEF GrowingOn
<1>5. ASSUME NEW d \in Disks, RestoringOn(d)
      PROVE  /\ ui.send = NoReq /\ status = <<>> /\ fd.pc \in {"check", "copy"}
             /\ fd.req = Req("RESTORE", d, "ok")
  BY <1>1, <1>5 DEF RestoringOn
<1> QED
  BY <1>1, <1>2, <1>3, <1>4, <1>5 DEF Course, Untouched, Sent, Told, VerifiedOn, DoneOn

\* A refusal or a failure ends the course with its line.
LEMMA ToldNow ==
  ASSUME status = <<>>, ui.send = NoReq, ui' = ui, fd' = FdIdle,
         Say("REFUSED") \/ Say("FAILED")
  PROVE  Told'
BY OneLine DEF Say, Told

\* A step of the daemon keeps the course.
LEMMA ValidateCourse == Types /\ DiskInv /\ Course /\ Validate => Course'
<1> SUFFICES ASSUME Types, DiskInv, Course, Validate PROVE Course'
  OBVIOUS
<1>0. /\ UNCHANGED <<up, bank, ui, wrote>> /\ fd.pc = "check" /\ fd.req.verb # "ARM"
  BY ValidateCases DEF Validate
<1>s. ui.send = NoReq /\ status = <<>>
  BY <1>0, Serves
<1>1. CASE Refuse
  <2>1. Told'
    BY <1>0, <1>1, <1>s, ToldNow DEF Refuse
  <2> QED BY <2>1 DEF Course
<1>2. ASSUME NEW d \in Disks, WritingTo(d), ~Refuse PROVE Course'
  <2>1. fd.req.verb \notin {"GROW", "RESTORE"}
    BY <1>2 DEF WritingTo, Writes
  <2>2. fd' = [fd EXCEPT !.pc = "write"] /\ UNCHANGED status
    BY <1>2, <2>1 DEF Validate
  <2>3. fd'.pc = "write" /\ fd'.req = fd.req
    BY <2>2 DEF Types
  <2>4. WritingTo(d)'
    BY <1>0, <1>2, <2>2, <2>3 DEF WritingTo, Follow
  <2> QED BY <2>4 DEF Course
<1>3. ASSUME NEW d \in Disks, GrowingOn(d), fd.req = Req("GROW", d, "ok"), ~Refuse PROVE Course'
  <2>1. GrowPersist(d)
    BY <1>3, FieldFacts DEF Validate, Writes
  <2>2. fd' = FdIdle /\ \E g \in GrowLines : status' = Append(status, g)
    BY <2>1, Zenon DEF GrowPersist, GrowLines, Say
  <2>3. \E g \in GrowLines : status' = <<g>>
    BY <2>2, <1>s, OneLine
  <2>4. GrowingOn(d)'
    BY <1>0, <1>s, <1>3, <2>2, <2>3 DEF GrowingOn, Follow
  <2> QED BY <2>4 DEF Course
<1>4. ASSUME NEW d \in Disks, RestoringOn(d), fd.req = Req("RESTORE", d, "ok"), ~Refuse PROVE Course'
  <2>1. RestorePersist(d)
    BY <1>4, FieldFacts DEF Validate, Writes
  <2>2. \/ (Say("REFUSED") \/ Say("FAILED")) /\ fd' = FdIdle
        \/ fd' = [pc |-> "copy", req |-> fd.req] /\ UNCHANGED status
    BY <2>1 DEF RestorePersist
  <2>3. CASE (Say("REFUSED") \/ Say("FAILED")) /\ fd' = FdIdle
    <3>1. Told'
      BY <1>0, <1>s, <2>3, ToldNow
    <3> QED BY <3>1 DEF Course
  <2>4. CASE fd' = [pc |-> "copy", req |-> fd.req] /\ UNCHANGED status
    <3>1. RestoringOn(d)'
      BY <1>0, <1>s, <1>4, <2>4 DEF RestoringOn, NoFollow
    <3> QED BY <3>1 DEF Course
  <2> QED BY <2>2, <2>3, <2>4
<1> QED
  BY <1>0, <1>1, <1>2, <1>3, <1>4, Serves

\* The end of a write.
LEMMA WriteCourse == Types /\ Course /\ Write => Course'
<1> SUFFICES ASSUME Types, Course, Write PROVE Course'
  OBVIOUS
<1>0. UNCHANGED <<up, bank, ui>> /\ fd.pc = "write" /\ fd' = FdIdle
  BY DEF Write, Quiet
<1>1. PICK d \in Disks : WritingTo(d)
  BY <1>0, Serves
<1>s. ui.send = NoReq /\ status = <<>> /\ fd.req.dev = d /\ wrote = {}
  BY <1>1 DEF WritingTo
<1>2. \/ Say("VERIFIED") /\ wrote' = wrote \cup {d}
      \/ Say("FAILED")
  BY <1>s DEF Write
<1>3. CASE Say("VERIFIED") /\ wrote' = wrote \cup {d}
  <2>1. status' = <<"VERIFIED">> /\ wrote' = {d}
    BY <1>3, <1>s, OneLine DEF Say
  <2>2. VerifiedOn(d)'
    BY <1>0, <1>1, <1>s, <2>1 DEF WritingTo, VerifiedOn, Follow
  <2> QED BY <2>2 DEF Course
<1>4. CASE Say("FAILED")
  <2>1. Told'
    BY <1>0, <1>4, <1>s, ToldNow
  <2> QED BY <2>1 DEF Course
<1> QED BY <1>2, <1>3, <1>4

\* The end of a restore: the bank is back, or the person will be told.
LEMMA CopyCourse == Types /\ DiskInv /\ Course /\ Copy => Course'
<1> SUFFICES ASSUME Types, DiskInv, Course, Copy PROVE Course'
  OBVIOUS
<1>0. UNCHANGED <<up, bank, ui, wrote>> /\ fd.pc = "copy" /\ fd' = FdIdle
  BY DEF Copy, Quiet
<1>1. PICK d \in Disks : RestoringOn(d) /\ fd.req = Req("RESTORE", d, "ok")
  BY <1>0, Serves DEF WritingTo
<1>s. ui.send = NoReq /\ status = <<>> /\ fd.req.dev = d /\ d \notin stale
  BY <1>0, <1>1, Serves, FieldFacts DEF DiskInv, CopyPlaced
<1>2. \/ disk' = [disk EXCEPT ![d].persist = bank] /\ Say("RESTORED")
      \/ Say("FAILED")
  BY <1>s DEF Copy
<1>3. CASE disk' = [disk EXCEPT ![d].persist = bank] /\ Say("RESTORED")
  <2>1. status' = <<"RESTORED">>
    BY <1>3, <1>s, OneLine DEF Say
  <2>2. disk'[d].persist = bank
    BY <1>3 DEF Types, DiskState
  <2>3. DoneOn(d)'
    BY <1>0, <1>1, <1>s, <2>1, <2>2 DEF RestoringOn, DoneOn, NoFollow
  <2> QED BY <2>3 DEF Course
<1>4. CASE Say("FAILED")
  <2>1. Told'
    BY <1>0, <1>4, <1>s, ToldNow
  <2> QED BY <2>1 DEF Course
<1> QED BY <1>2, <1>3, <1>4

\* The two steps of arming.
LEMMA ArmCourse == Types /\ Course /\ (ArmMaintenance \/ WriteMarker) => Course'
<1> SUFFICES ASSUME Types, Course, ArmMaintenance \/ WriteMarker PROVE Course'
  OBVIOUS
<1>0. /\ UNCHANGED <<up, bank, ui, wrote>> /\ fd.pc # "read"
      /\ fd.pc = "mark" \/ fd.req.verb = "ARM"
  BY DEF ArmMaintenance, WriteMarker, Quiet
<1>1. Arming /\ fd.req.verb = "ARM"
  <2>1. "ARM" \notin Writes /\ "ARM" # "GROW" /\ "ARM" # "RESTORE"
    BY DEF Writes
  <2>2. \A d \in Disks : ~WritingTo(d)
    BY <1>0, <2>1 DEF WritingTo
  <2> QED BY <1>0, <2>1, <2>2, Serves, FieldFacts
<1>s. ui.send = NoReq /\ status = <<>>
  BY <1>0, Serves
<1>2. CASE (Say("REFUSED") \/ Say("FAILED")) /\ fd' = FdIdle
  <2>1. Told'
    BY <1>0, <1>2, <1>s, ToldNow
  <2> QED BY <2>1 DEF Course
<1>3. CASE fd' = [fd EXCEPT !.pc = "mark", !.req.dev = partuuid_dev] /\ UNCHANGED status
  <2>1. fd.req \in Request
    BY <1>1, FieldFacts DEF Types
  <2>2. fd' = [pc |-> "mark", req |-> [fd.req EXCEPT !.dev = partuuid_dev]]
    BY <1>3 DEF Types
  <2>3. fd'.pc = "mark" /\ fd'.req.verb = "ARM"
    BY <1>1, <2>1, <2>2 DEF Request
  <2>4. Arming'
    BY <1>0, <1>1, <1>s, <1>3, <2>3 DEF Arming, NoFollow
  <2> QED BY <2>4 DEF Course
<1>4. CASE Say("ARMED") /\ fd' = FdIdle
  <2>1. status' = <<"ARMED">>
    BY <1>4, <1>s, OneLine DEF Say
  <2>2. Arming'
    BY <1>0, <1>1, <1>4, <2>1 DEF Arming, NoFollow
  <2> QED BY <2>2 DEF Course
<1> QED
  BY <1>2, <1>3, <1>4 DEF ArmMaintenance, WriteMarker, Refuse

\* What the window makes of a line.
LEMMA ReadLineCases ==
  ASSUME ReadLine
  PROVE  /\ ui.send = NoReq /\ status # <<>> /\ status' = Tail(status)
         /\ UNCHANGED <<up, disk, bank, fd, wrote>>
         /\ calm' => calm /\ Head(status) \notin {"REFUSED", "FAILED"}
         /\ ~(ui.arm /\ Head(status) = "ARMED")
         /\ \/ /\ Head(status) = "VERIFIED" /\ ui.grow # NoDisk
               /\ ui' = [ui EXCEPT !.grow = NoDisk, !.send = Req("GROW", ui.grow, "ok")]
            \/ /\ Head(status) \in GrowLines \cup {"VERIFIED"} /\ ui.restore # NoDisk
               /\ ~(Head(status) = "VERIFIED" /\ ui.grow # NoDisk)
               /\ ui' = [ui EXCEPT !.restore = NoDisk, !.send = Restoring(ui.restore)]
            \/ /\ ui' = ui
               /\ ~(Head(status) = "VERIFIED" /\ ui.grow # NoDisk)
               /\ ~(Head(status) \in GrowLines \cup {"VERIFIED"} /\ ui.restore # NoDisk)
BY Zenon DEF ReadLine, GrowLines

\* A line read by the window moves the course on.
LEMMA ReadLineCourse == Types /\ calm' /\ Course /\ ReadLine => Course'
<1> SUFFICES ASSUME Types, calm', Course, ReadLine PROVE Course'
  OBVIOUS
<1> USE FlashAssumption
<1>0. /\ ui.send = NoReq /\ status # <<>> /\ status' = Tail(status)
      /\ UNCHANGED <<up, disk, bank, fd, wrote>>
      /\ Head(status) \notin {"REFUSED", "FAILED"}
      /\ ~(ui.arm /\ Head(status) = "ARMED")
  BY ReadLineCases
<1>n. ~Told /\ ~Arming /\ ~Untouched /\ ~Sent
  BY <1>0, OneLine DEF Told, Arming, Untouched, Sent
<1>w. \A d \in Disks : ~WritingTo(d) /\ ~RestoringOn(d)
  BY <1>0 DEF WritingTo, RestoringOn
<1>1. ASSUME NEW d \in Disks, fd = FdIdle, wrote = {d}, ui.grow = NoDisk, ui.restore = d,
             bank # Nothing, status' = <<>>,
             ui' = [ui EXCEPT !.restore = NoDisk, !.send = Restoring(ui.restore)]
      PROVE  Course'
  <2>1. Restoring(ui.restore) = Req("RESTORE", d, "ok")
    BY <1>1 DEF Restoring
  <2>2. ui'.send = Req("RESTORE", d, "ok") /\ ui'.grow = NoDisk /\ ui'.restore = NoDisk
    BY <1>1, <2>1 DEF Types
  <2>3. RestoringOn(d)'
    BY <1>0, <1>1, <2>2 DEF RestoringOn, NoFollow
  <2> QED BY <2>3 DEF Course
<1>2. ASSUME NEW d \in Disks, VerifiedOn(d) PROVE Course'
  <2>0. Head(status) = "VERIFIED" /\ status' = <<>> /\ d # NoDisk
    BY <1>0, <1>2, OneLine DEF VerifiedOn
  <2>1. CASE ui.grow = d
    <3>1. ui' = [ui EXCEPT !.grow = NoDisk, !.send = Req("GROW", d, "ok")]
      BY <2>0, <2>1, ReadLineCases
    <3>2. ui'.send = Req("GROW", d, "ok") /\ ui'.grow = NoDisk /\ ui'.restore = ui.restore
      BY <3>1 DEF Types
    <3>3. GrowingOn(d)'
      BY <1>0, <1>2, <2>0, <3>2 DEF VerifiedOn, GrowingOn, Follow
    <3> QED BY <3>3 DEF Course
  <2>2. CASE ui.grow = NoDisk /\ up = "maint" /\ bank # Nothing
    <3>1. ui.restore = d
      BY <1>2, <2>2 DEF VerifiedOn, Follow
    <3>2. ui' = [ui EXCEPT !.restore = NoDisk, !.send = Restoring(ui.restore)]
      BY <2>0, <2>2, <3>1, ReadLineCases
    <3> QED BY <1>1, <1>2, <2>0, <2>2, <3>1, <3>2 DEF VerifiedOn
  <2>3. CASE ui.grow = NoDisk /\ ~(up = "maint" /\ bank # Nothing)
    <3>1. ui.restore = NoDisk
      BY <1>2, <2>3 DEF VerifiedOn, Follow
    <3>2. ui' = ui
      BY <2>0, <2>3, <3>1, ReadLineCases
    <3>3. DoneOn(d)'
      BY <1>0, <1>2, <2>0, <2>3, <3>1, <3>2 DEF VerifiedOn, DoneOn, NoFollow
    <3> QED BY <3>3 DEF Course
  <2> QED BY <1>2, <2>1, <2>2, <2>3 DEF VerifiedOn
<1>3. ASSUME NEW d \in Disks, GrowingOn(d) PROVE Course'
  <2>0. /\ Head(status) \in GrowLines /\ status' = <<>> /\ fd = FdIdle /\ wrote = {d}
        /\ ui.grow = NoDisk /\ d # NoDisk
    BY <1>0, <1>3, OneLine DEF GrowingOn
  <2>1. CASE up = "maint" /\ bank # Nothing
    <3>1. ui.restore = d
      BY <1>3, <2>1 DEF GrowingOn, Follow
    <3>2. ui' = [ui EXCEPT !.restore = NoDisk, !.send = Restoring(ui.restore)]
      BY <2>0, <3>1, ReadLineCases
    <3> QED BY <1>1, <2>0, <2>1, <3>1, <3>2
  <2>2. CASE ~(up = "maint" /\ bank # Nothing)
    <3>1. ui.restore = NoDisk
      BY <1>3, <2>2 DEF GrowingOn, Follow
    <3>2. ui' = ui
      BY <2>0, <3>1, ReadLineCases
    <3>3. DoneOn(d)'
      BY <1>0, <2>0, <2>2, <3>1, <3>2 DEF DoneOn, NoFollow
    <3> QED BY <3>3 DEF Course
  <2> QED BY <2>1, <2>2
<1>4. ASSUME NEW d \in Disks, DoneOn(d) PROVE Course'
  <2>0. status = <<"RESTORED">> /\ Head(status) = "RESTORED" /\ status' = <<>>
    BY <1>0, <1>4, OneLine DEF DoneOn
  <2>1. ui' = ui
    BY <1>4, ReadLineCases DEF DoneOn, NoFollow
  <2>2. DoneOn(d)'
    BY <1>0, <1>4, <2>0, <2>1 DEF DoneOn, NoFollow
  <2> QED BY <2>2 DEF Course
<1> QED BY <1>n, <1>w, <1>2, <1>3, <1>4 DEF Course

\* flashd reads what the window sent.
LEMMA DeliverCourse ==
  ASSUME Types, Course, NEW keep \in BOOLEAN, Deliver(keep)
  PROVE  Course'
<1> USE FlashAssumption
<1>0. /\ ui.send # NoReq /\ fd = FdIdle /\ UNCHANGED <<up, bank, disk, status>>
      /\ fd' = [pc |-> "check", req |-> ui.send]
      /\ ui' = Noted(ui.send, keep)
      /\ wrote' = IF ui.send.verb \in Writes THEN wrote \ {ui.send.dev} ELSE wrote
  BY DEF Deliver, Quiet
<1>f. fd'.pc = "check" /\ fd'.req = ui.send
  BY <1>0
<1>u. /\ ui'.send = NoReq /\ ui'.arm = ui.arm
      /\ ui'.grow = IF ui.send.verb \in Writes /\ ~keep THEN ui.send.dev ELSE ui.grow
      /\ ui'.restore = IF ui.send.verb \in Writes /\ up = "maint" /\ bank # Nothing
                       THEN ui.send.dev ELSE ui.restore
  BY <1>0 DEF Noted, Types
<1>v. "ARM" \notin Writes /\ "GROW" \notin Writes /\ "RESTORE" \notin Writes
  BY DEF Writes
<1>1. CASE Sent
  <2>1. /\ ui.send \in Clicked /\ ui.grow = NoDisk /\ ui.restore = NoDisk /\ status = <<>> /\ wrote = {}
        /\ ui.send.verb = "ARM" => ui.arm
    BY <1>1 DEF Sent, NoFollow
  <2>2. CASE ui.send.verb \in Writes /\ ui.send.dev \in Disks
    <3>1. PICK d \in Disks : d = ui.send.dev
      BY <2>2
    <3>2. WritingTo(d)'
      BY <1>0, <1>f, <1>u, <2>1, <2>2, <3>1 DEF WritingTo, Follow
    <3> QED BY <3>2 DEF Course
  <2>3. CASE ui.send.verb = "ARM"
    <3>1. Arming'
      BY <1>0, <1>f, <1>u, <1>v, <2>1, <2>3 DEF Arming, NoFollow
    <3> QED BY <3>1 DEF Course
  <2> QED BY <2>1, <2>2, <2>3, ClickedAre
<1>2. ASSUME NEW d \in Disks, GrowingOn(d) PROVE Course'
  <2>1. ui.send = Req("GROW", d, "ok") /\ ui.send.verb = "GROW" /\ status = <<>>
    BY <1>0, <1>2, FieldFacts DEF GrowingOn
  <2>2. GrowingOn(d)'
    BY <1>0, <1>2, <1>u, <1>v, <2>1 DEF GrowingOn, Follow
  <2> QED BY <2>2 DEF Course
<1>3. ASSUME NEW d \in Disks, RestoringOn(d) PROVE Course'
  <2>1. ui.send = Req("RESTORE", d, "ok") /\ ui.send.verb = "RESTORE"
    BY <1>0, <1>3, FieldFacts DEF RestoringOn
  <2>2. RestoringOn(d)'
    BY <1>0, <1>3, <1>u, <1>v, <2>1 DEF RestoringOn, NoFollow
  <2> QED BY <2>2 DEF Course
<1>4. ~Untouched /\ ~Arming /\ ~Told /\ \A d \in Disks : ~WritingTo(d) /\ ~VerifiedOn(d) /\ ~DoneOn(d)
  BY <1>0, FieldFacts DEF Untouched, Arming, Told, WritingTo, VerifiedOn, DoneOn
<1> QED BY <1>1, <1>2, <1>3, <1>4 DEF Course

\* A click is the start of the course, or the end of the calm.
LEMMA ClickCourse ==
  ASSUME Types, calm', NEW r \in Clicked, Click(r)
  PROVE  Course'
<1>1. Untouched
  BY DEF Click, Untouched
<1>2. /\ ui' = [ui EXCEPT !.send = r, !.arm = @ \/ r.verb = "ARM"]
      /\ UNCHANGED <<fd, status, wrote>>
  BY DEF Click
<1>3. PICK a \in BOOLEAN : a = (ui.arm \/ r.verb = "ARM")
  OBVIOUS
<1>4. ui' = [ui EXCEPT !.send = r, !.arm = a]
  BY <1>2, <1>3 DEF Types
<1>5. ui'.send = r /\ ui'.arm = a /\ ui'.grow = ui.grow /\ ui'.restore = ui.restore
  BY <1>4 DEF Types
<1>6. r.verb = "ARM" => a
  BY <1>3
<1>7. Sent'
  BY <1>1, <1>2, <1>5, <1>6, FieldFacts DEF Sent, Untouched, NoFollow
<1> QED BY <1>7 DEF Course

\* Every step keeps the course of an undisturbed write.
LEMMA CourseNext == Types /\ DiskInv /\ CourseInv /\ [Next]_vars => CourseInv'
<1> SUFFICES ASSUME Types, DiskInv, CourseInv, [Next]_vars PROVE CourseInv'
  OBVIOUS
<1>0. (~Running => Untouched) /\ (calm => Course)
  BY DEF CourseInv
<1>a. ASSUME up' = up, Running, calm' => Course' PROVE CourseInv'
  BY <1>a DEF CourseInv, Running
<1>b. ASSUME Untouched' PROVE CourseInv'
  BY <1>b DEF CourseInv, Course
<1>1. CASE PowerOff \/ RebootArmed
  BY <1>1, <1>b DEF PowerOff, RebootArmed, Untouched
<1>2. CASE Start \/ Pivot
  <2>1. ~Running /\ UNCHANGED <<ui, fd, status, wrote>>
    BY <1>2 DEF Start, Pivot, Running
  <2>2. Untouched'
    BY <1>0, <2>1 DEF Untouched
  <2> QED BY <1>b, <2>2
<1>3. ASSUME NEW d \in Disks, Unplug(d) \/ Plug(d) PROVE CourseInv'
  BY <1>3, <1>a DEF Unplug, Plug
<1>4. CASE Flashd
  <2>1. Running /\ up' = up /\ calm' = calm
    BY <1>4 DEF Flashd, Validate, Write, Copy, ArmMaintenance, WriteMarker, Quiet, DiskInv, Serving
  <2>2. Course => Course'
    BY <1>4, ValidateCourse, WriteCourse, CopyCourse, ArmCourse DEF Flashd
  <2> QED BY <1>0, <1>a, <2>1, <2>2
<1>5. CASE ReadLine
  <2>1. Running /\ up' = up /\ (calm' => calm)
    BY <1>5, ReadLineCases, Zenon DEF ReadLine
  <2> QED BY <1>0, <1>5, <1>a, <2>1, ReadLineCourse
<1>6. ASSUME NEW keep \in BOOLEAN, Deliver(keep) PROVE CourseInv'
  <2>1. Running /\ up' = up /\ calm' = calm
    BY <1>6 DEF Deliver, Quiet, DiskInv, Serving
  <2> QED BY <1>0, <1>6, <1>a, <2>1, DeliverCourse
<1>7. ASSUME NEW r \in Clicked, Click(r) PROVE CourseInv'
  <2>1. Running /\ up' = up
    BY <1>7 DEF Click
  <2> QED BY <1>7, <1>a, <2>1, ClickCourse
<1>8. CASE Close
  BY <1>8, <1>a DEF Close
<1>9. ASSUME NEW r \in Typed, ByHand(r) PROVE CourseInv'
  BY <1>9, <1>a DEF ByHand
<1>10. CASE UNCHANGED vars
  BY <1>10, <1>0 DEF vars, CourseInv, Running, Course, Untouched, Sent, Arming, Told, WritingTo,
         VerifiedOn, GrowingOn, RestoringOn, DoneOn, Follow, NoFollow
<1> QED
  BY <1>1, <1>2, <1>3, <1>4, <1>5, <1>6, <1>7, <1>8, <1>9, <1>10 DEF Next, NextNoHand, Window

\* The state a person keeps on the boot device is not forgotten over a reflash: from the
\* verified write on, the restore of the bank is noted, on its way, done, or known to have
\* failed (flashd, veron-flasher).
THEOREM RestoreRemembered == Spec => []RestoreNotForgotten
<1>1. Init => CourseInv
  BY DEF Init, CourseInv, Running, Course, Untouched
<1>2. Types /\ DiskInv /\ CourseInv /\ [Next]_vars => Types' /\ DiskInv' /\ CourseInv'
  BY TypesNext, DiskNext, CourseNext
<1>3. CourseInv => RestoreNotForgotten
  <2> SUFFICES ASSUME Course, up = "maint", Boot \in wrote, bank # Nothing
               PROVE  \/ disk[Boot].persist = bank
                      \/ ui.restore = Boot
                      \/ Req("RESTORE", Boot, "ok") \in {ui.send, fd.req}
                      \/ \E i \in DOMAIN status : status[i] \in {"REFUSED", "FAILED"}
    BY DEF CourseInv, RestoreNotForgotten
  <2>1. CASE Told
    <3>1. \A x : 1 \in DOMAIN <<x>> /\ <<x>>[1] = x
      OBVIOUS
    <3> QED BY <2>1, <3>1 DEF Told
  <2>2. ASSUME NEW d \in Disks, VerifiedOn(d) \/ GrowingOn(d) PROVE ui.restore = Boot
    BY <2>2 DEF VerifiedOn, GrowingOn, Follow
  <2>3. ASSUME NEW d \in Disks, RestoringOn(d) PROVE Req("RESTORE", Boot, "ok") \in {ui.send, fd.req}
    BY <2>3 DEF RestoringOn
  <2>4. ASSUME NEW d \in Disks, DoneOn(d) PROVE disk[Boot].persist = bank
    BY <2>4 DEF DoneOn
  <2>5. ~Untouched /\ ~Sent /\ ~Arming /\ \A d \in Disks : ~WritingTo(d)
    BY DEF Untouched, Sent, Arming, WritingTo
  <2> QED BY <2>1, <2>2, <2>3, <2>4, <2>5 DEF Course
<1> QED
  BY TypesInit, DiskInit, <1>1, <1>2, <1>3, PTL DEF Spec

=============================================================================
