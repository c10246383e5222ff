-------------------------------- MODULE Media --------------------------------
(***************************************************************************)
(* Removable media (veron-system): the scripted dinit service media, whose  *)
(* start is scripts/media-mount start and whose stop unmounts, the hotplug  *)
(* handler the kernel runs for every block uevent, and those who ask for a  *)
(* start: the handler, session-gate, and veron-lock and veron-login after   *)
(* a refused attempt.  Handlers and dinitctl calls run in the background,   *)
(* so they take effect in any order.                                        *)
(*                                                                         *)
(* A device is a disk with one partition.  dinit holds a scripted service   *)
(* STARTED once its command has exited 0; a start then does nothing.        *)
(***************************************************************************)
EXTENDS Naturals

CONSTANTS
  Devs,         \* removable disks, in the order /sys/block/* lists them
  Boot,         \* the disk the system booted from; it is one of Devs
  Unmountable,  \* disks with a file system this kernel lacks
  Maintenance,  \* the root is in RAM: nothing of the boot disk is mounted
  MaxTry,       \* seconds media-mount waits for a device, 12 in the code
  NoDev

ASSUME MediaAssumption ==
  /\ Devs \subseteq Nat
  /\ NoDev \notin Devs
  /\ Boot \in Devs
  /\ Unmountable \subseteq Devs
  /\ Maintenance \in BOOLEAN
  /\ MaxTry \in Nat

VARIABLES
  plugged,   \* the disks that are there
  mnt,       \* /proc/mounts: the topmost mount at /run/media/veron/stick
  under,     \* /proc/mounts: the ones below it
  svc,       \* dinit's state of media
  script,    \* media-mount: its place and _try
  stopAsked, \* a stop was asked for while the service was starting
  uevents,   \* hotplug handlers under way
  calls,     \* dinitctl calls under way; equal ones are one
  stuck      \* history: mounted disks that are gone and that umount refused

mediaVars == <<plugged, mnt, under, svc, script, stopAsked, uevents, calls, stuck>>
mounts == <<mnt, under, stuck>>

Mounted == ({mnt} \cup under) \ {NoDev}

Idle == [pc |-> "none", try |-> 0]

MediaTypeOK ==
  /\ plugged \subseteq Devs
  /\ mnt \in Devs \cup {NoDev}
  /\ svc \in {"stopped", "starting", "started", "stopping"}
  /\ script \in [pc : {"none", "already", "wait", "scan"}, try : 0 .. MaxTry]
  /\ script.pc # "none" <=> svc = "starting"
  /\ stopAsked \in BOOLEAN
  /\ uevents \subseteq ({"add", "remove"} \X Devs)
  /\ calls \subseteq {"start", "stop"}
  /\ under \subseteq Devs \ {mnt} /\ stuck \subseteq Mounted
  /\ mnt = NoDev => under = {}

(* Coldplug announces the boot disk. *)
MediaInit ==
  /\ plugged = {Boot}
  /\ mnt = NoDev /\ under = {} /\ stuck = {}
  /\ svc = "stopped" /\ script = Idle /\ stopAsked = FALSE
  /\ uevents = {<<"add", Boot>>}
  /\ calls = {}

-----------------------------------------------------------------------------
(* The person and the kernel.                                               *)

(* A disk that comes back while its old mount stands gets another name. *)
Insert(d) ==
  /\ d \notin plugged /\ d \notin Mounted
  /\ \A a \in {"add", "remove"} : <<a, d>> \notin uevents
  /\ plugged' = plugged \cup {d}
  /\ uevents' = uevents \cup {<<"add", d>>}
  /\ UNCHANGED <<mounts, svc, script, stopAsked, calls>>

Yank(d) ==
  /\ d \in plugged \ {Boot}
  /\ \A a \in {"add", "remove"} : <<a, d>> \notin uevents
  /\ plugged' = plugged \ {d}
  /\ uevents' = uevents \cup {<<"remove", d>>}
  /\ UNCHANGED <<mounts, svc, script, stopAsked, calls>>

(* session-gate's kick, or a refused attempt at a lock or a login. *)
Kick ==
  /\ "start" \notin calls
  /\ calls' = calls \cup {"start"}
  /\ UNCHANGED <<plugged, mounts, svc, script, stopAsked, uevents>>

(* A person stops the service before unplugging. *)
Eject ==
  /\ "stop" \notin calls
  /\ calls' = calls \cup {"stop"}
  /\ UNCHANGED <<plugged, mounts, svc, script, stopAsked, uevents>>

(* umount of the mount point takes the topmost mount away; it fails while   *)
(* files there are open, and -f does not change that.  What is below comes  *)
(* to light, in an order the model leaves open.                             *)
Umount ==
  \/ /\ mnt' \in (IF under = {} THEN {NoDev} ELSE under)
     /\ under' = under \ {mnt'}
     /\ stuck' = stuck \ {mnt}
  \/ /\ mnt # NoDev
     /\ stuck' = stuck \cup ({mnt} \ plugged)
     /\ UNCHANGED <<mnt, under>>

-----------------------------------------------------------------------------
(* hotplug-handler, SUBSYSTEM=block                                         *)

HandleAdd(d) ==
  /\ <<"add", d>> \in uevents
  /\ uevents' = uevents \ {<<"add", d>>}
  /\ calls' = calls \cup {"start"}
  /\ UNCHANGED <<plugged, mounts, svc, script, stopAsked>>

(* Mutant: the service is not released. *)
ReleasedKept(d) == {}

(* The calls made when the device that served the mount point is gone. *)
Released(d) == IF d \in Mounted THEN {"stop"} ELSE {}

(* Mutant: the departed device is not compared with the mounted one. *)
HandleRemoveIgnored(d) ==
  /\ <<"remove", d>> \in uevents
  /\ uevents' = uevents \ {<<"remove", d>>}
  /\ UNCHANGED <<plugged, mounts, svc, script, stopAsked, calls>>

HandleRemove(d) ==
  /\ <<"remove", d>> \in uevents
  /\ uevents' = uevents \ {<<"remove", d>>}
  /\ IF d \in Mounted THEN Umount ELSE UNCHANGED mounts
  /\ calls' = calls \cup Released(d)
  /\ UNCHANGED <<plugged, svc, script, stopAsked>>

-----------------------------------------------------------------------------
(* dinit                                                                    *)

(* Nothing happens unless the service is stopped. *)
CallStart ==
  /\ "start" \in calls
  /\ svc # "stopping"
  /\ calls' = calls \ {"start"}
  /\ IF svc = "stopped"
     THEN svc' = "starting" /\ script' = [Idle EXCEPT !.pc = "already"]
     ELSE UNCHANGED <<svc, script>>
  /\ stopAsked' = IF svc = "starting" THEN FALSE ELSE stopAsked
  /\ UNCHANGED <<plugged, mounts, uevents>>

(* A start under way is let finish first. *)
CallStop ==
  /\ "stop" \in calls
  /\ svc # "stopping"
  /\ calls' = calls \ {"stop"}
  /\ svc' = IF svc = "started" THEN "stopping" ELSE svc
  /\ stopAsked' = (stopAsked \/ svc = "starting")
  /\ UNCHANGED <<plugged, mounts, script, uevents>>

-----------------------------------------------------------------------------
(* media-mount                                                              *)

(* media-mount start exits 0. *)
Exit0 ==
  /\ script' = Idle
  /\ svc' = IF stopAsked THEN "stopping" ELSE "started"
  /\ stopAsked' = FALSE

(* media-mount stop; dinit counts the service as stopped if it fails, too. *)
Unmount ==
  /\ svc = "stopping"
  /\ svc' = "stopped"
  /\ Umount
  /\ UNCHANGED <<plugged, script, stopAsked, uevents, calls>>

(* Mutant: "already mounted" is reported over a corpse. *)
ReadableCorpse == mnt # NoDev

(* There is a mount, and ls of it succeeds. *)
Readable == mnt \in plugged

(* A mount that cannot be read is replaced, or covered if it stays; any     *)
(* other is a success.                                                      *)
AlreadyMounted ==
  /\ script.pc = "already"
  /\ IF Readable
     THEN Exit0 /\ UNCHANGED mounts
     ELSE Umount /\ script' = [Idle EXCEPT !.pc = "wait"] /\ UNCHANGED <<svc, stopAsked>>
  /\ UNCHANGED <<plugged, uevents, calls>>

(* The disk has a line in /proc/mounts. *)
InUse(d) == d \in Mounted \/ (d = Boot /\ ~Maintenance)

TimedOut == script.try = MaxTry

(* The wait ends with a removable disk other than the boot disk, or after   *)
(* MaxTry seconds.                                                          *)
Wait ==
  /\ script.pc = "wait"
  /\ script' = IF TimedOut \/ \E d \in plugged \ {Boot} : ~InUse(d)
               THEN [script EXCEPT !.pc = "scan", !.try = 0]
               ELSE [script EXCEPT !.try = @ + 1]
  /\ UNCHANGED <<plugged, mounts, svc, stopAsked, uevents, calls>>

(* The first disk that mounts is taken; it is not an error if none does.    *)
Candidates == {d \in plugged \ Unmountable : ~InUse(d)}

Scan ==
  /\ script.pc = "scan"
  /\ Exit0
  /\ IF Candidates = {} THEN UNCHANGED mounts
     ELSE /\ mnt' \in {d \in Candidates : \A e \in Candidates : d <= e}
          /\ under' = Mounted
          /\ UNCHANGED stuck
  /\ UNCHANGED <<plugged, uevents, calls>>

MediaNext ==
  \/ \E d \in Devs : Insert(d) \/ Yank(d) \/ HandleAdd(d) \/ HandleRemove(d)
  \/ Kick \/ Eject \/ CallStart \/ CallStop \/ Unmount
  \/ AlreadyMounted \/ Wait \/ Scan

MediaSpec == MediaInit /\ [][MediaNext]_mediaVars

(* Handlers, calls and scripts all get to run; nobody has to kick.          *)
MediaFairSpec ==
  /\ MediaSpec
  /\ \A d \in Devs : WF_mediaVars(HandleAdd(d)) /\ WF_mediaVars(HandleRemove(d))
  /\ SF_mediaVars(CallStart) /\ SF_mediaVars(CallStop)
  /\ WF_mediaVars(Unmount \/ AlreadyMounted \/ Wait \/ Scan)

(* ... and a person who is refused tries again.                             *)
KickedSpec == MediaFairSpec /\ WF_mediaVars(Kick)

-----------------------------------------------------------------------------
(* Properties.                                                              *)

Sticks == Devs \ {Boot}

(* A mount whose disk is gone is still to be found by the handler of that   *)
(* disk's removal, or the kernel refused to let it go: no start, stop, scan *)
(* or re-insertion in between leaves a dead mount that nobody will clear    *)
(* (hotplug-handler, media-mount).                                          *)
StaleMountNoticed == \A d \in Mounted \ plugged : <<"remove", d>> \in uevents \/ d \in stuck

(* "The yank must release what the insertion claims" (hotplug-handler):     *)
(* once the disk that a STARTED service serves is pulled, the service gets  *)
(* stopped, whichever unmounts fail and however handlers, calls and         *)
(* re-insertions overlap; or a disk that is there is mounted.               *)
YankReleases ==
  \A d \in Sticks : svc = "started" /\ mnt = d /\ <<"remove", d>> \in uevents
                      ~> svc = "stopped" \/ mnt \in plugged

(* "Pull-and-reinsert heals with one `dinitctl start media'" (media-mount): *)
(* with a refused person's kicks, a service that is stopped mounts a stick  *)
(* that stays in, over whatever corpses earlier ones left, and whatever is  *)
(* pulled, stopped or cannot be mounted meanwhile.                          *)
StoppedMounts ==
  \A d \in Sticks \ Unmountable :
    (svc = "stopped" /\ [](d \in plugged)) ~> mnt \in plugged

(* "THE BOOT DISK IS NEVER A MOUNT TARGET" (media-mount). *)
BootDiskNeverMounted == Boot \notin Mounted

(* "A real insertion re-triggers media through the hotplug handler"         *)
(* (media-mount): a stick that stays in gets mounted, or another is.        *)
InsertionMounts ==
  \A d \in Sticks \ Unmountable :
    <>[](d \in plugged) => <>(mnt \in plugged)

=============================================================================
