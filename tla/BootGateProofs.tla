---------------------------- MODULE BootGateProofs ----------------------------
(***************************************************************************)
(* The boot gate's safety, for any number of greeter faults and reboots:    *)
(* types, and that the boot marker and an armed machine's session exist     *)
(* only after a factor was verified.  And the safety of the media service   *)
(* the gate kicks: types, and that a mount whose disk is gone has its       *)
(* removal still to come, unless the kernel refused to let it go.           *)
(***************************************************************************)
EXTENDS BootGate, Media, TLAPS

LEMMA TypeInit == Init => TypeOK
<1> SUFFICES ASSUME Init PROVE TypeOK
  OBVIOUS
<1>1. /\ armed \in BOOLEAN /\ factor \in BOOLEAN /\ passed \in BOOLEAN /\ marker \in BOOLEAN
      /\ loop \in BOOLEAN /\ away \in BOOLEAN
      /\ gateArmed \in BOOLEAN /\ proved \in BOOLEAN /\ owed \in BOOLEAN
  BY Zenon DEF Init
<1>2. faults \in 0 .. MaxFaults /\ boots \in 0 .. MaxBoots
  BY GateAssumption DEF Init
<1> QED
  BY <1>1, <1>2, Zenon DEF Init, TypeOK

(* Every step of the gate, the greeter and the session keeps the types. *)
LEMMA TypeNext == TypeOK /\ [Next]_vars => TypeOK'
<1> SUFFICES ASSUME TypeOK, [Next]_vars PROVE TypeOK'
  OBVIOUS
<1>1. CASE GateBegin
  BY <1>1, GateAssumption DEF GateBegin, GateStep, greeterVars, session, history, bounds, TypeOK
<1>2. CASE Prepare
  <2>1. passed' \in BOOLEAN
    BY <1>2, Zenon DEF Prepare
  <2> QED
    BY <1>2, <2>1, GateAssumption DEF Prepare, GateStep, greeterVars, session, history, bounds, TypeOK
<1>3. CASE StartGreeter
  BY <1>3, GateAssumption DEF StartGreeter, GateStep, greeterVars, session, history, bounds, TypeOK
<1>4. CASE PollPassed
  BY <1>4, GateAssumption DEF PollPassed, GateStep, greeterVars, session, history, bounds, TypeOK
<1>5. CASE PollStatus
  BY <1>5, GateAssumption DEF PollStatus, AfterStatus, GateStep, greeterVars, session, history, bounds, TypeOK
<1>6. CASE Check
  BY <1>6, GateAssumption DEF Check, Verdict, GateStep, greeterVars, session, history, bounds, TypeOK
<1>7. CASE StopGreeter
  BY <1>7, GateAssumption DEF StopGreeter, GreeterEnds, GateStep, greeterVars, session, history, bounds, TypeOK
<1>8. CASE MarkBoot
  BY <1>8, GateAssumption DEF MarkBoot, GateStep, greeterVars, session, history, bounds, TypeOK
<1>9. CASE TouchPassed
  BY <1>9, GateAssumption DEF TouchPassed, greeterVars, session, history, bounds, TypeOK
<1>10. CASE KillLabwc
  BY <1>10, GateAssumption DEF KillLabwc, greeterVars, session, history, bounds, TypeOK
<1>11. CASE StaleTouch
  BY <1>11, GateAssumption DEF StaleTouch, greeterVars, session, history, bounds, TypeOK
<1>12. CASE StaleKill
  BY <1>12, GateAssumption DEF StaleKill, greeterVars, session, history, bounds, TypeOK
<1>13. CASE GreeterUnlocks
  BY <1>13, GateAssumption DEF GreeterUnlocks, greeterVars, session, history, bounds, TypeOK
<1>14. CASE GreeterLockFails
  BY <1>14, GateAssumption DEF GreeterLockFails, greeterVars, session, history, bounds, TypeOK
<1>15. CASE GreeterCrashes
  BY <1>15, GateAssumption DEF GreeterCrashes, GreeterEnds, greeterVars, session, history, bounds, TypeOK
<1>16. CASE SessionStart
  BY <1>16, GateAssumption DEF SessionStart, greeterVars, session, history, bounds, TypeOK
<1>17. CASE Autostart
  BY <1>17, GateAssumption DEF Autostart, greeterVars, session, history, bounds, TypeOK
<1>18. CASE LockScreen
  BY <1>18, GateAssumption DEF LockScreen, greeterVars, session, history, bounds, TypeOK
<1>19. CASE UnlockScreen
  BY <1>19, GateAssumption, ZenonT(60) DEF UnlockScreen, greeterVars, session, history, bounds, TypeOK
<1>20. CASE Idled
  BY <1>20, GateAssumption DEF Idled, greeterVars, session, history, bounds, TypeOK
<1>21. CASE Resumed
  <2>1. away' \in BOOLEAN
    BY <1>21, Zenon DEF Resumed
  <2> QED
    BY <1>21, <2>1, GateAssumption DEF Resumed, greeterVars, session, history, bounds, TypeOK
<1>22. CASE LabwcCrashes
  <2>1. away' \in BOOLEAN
    BY <1>22, Zenon DEF LabwcCrashes
  <2> QED
    BY <1>22, <2>1, GateAssumption DEF LabwcCrashes, greeterVars, session, history, bounds, TypeOK
<1>23. CASE SetArmed
  BY <1>23, GateAssumption DEF SetArmed, greeterVars, session, history, bounds, TypeOK
<1>24. CASE Factor
  BY <1>24, GateAssumption DEF Factor, greeterVars, session, history, bounds, TypeOK
<1>25. CASE Reboot
  <2>1. passed' \in BOOLEAN /\ marker' \in BOOLEAN /\ loop' \in BOOLEAN /\ away' \in BOOLEAN /\ gateArmed' \in BOOLEAN /\ proved' \in BOOLEAN /\ owed' \in BOOLEAN
    BY <1>25, Zenon DEF Reboot
  <2> QED
    BY <1>25, <2>1, GateAssumption DEF Reboot, greeterVars, session, history, bounds, TypeOK
<1>26. CASE UNCHANGED vars
  BY <1>26 DEF vars, TypeOK
<1> QED
  BY <1>1, <1>2, <1>3, <1>4, <1>5, <1>6, <1>7, <1>8, <1>9, <1>10, <1>11, <1>12, <1>13, <1>14, <1>15, <1>16, <1>17, <1>18, <1>19, <1>20, <1>21, <1>22, <1>23, <1>24, <1>25, <1>26 DEF Next, Gate, Scripts

(* The state of the scripts, the gate and the session stays in its types. *)
THEOREM TypeCorrect == Spec => []TypeOK
  BY TypeInit, TypeNext, PTL DEF Spec

LEMMA GateInvInit == Init => GateInv
  BY DEF Init, GateInv, Evidence

(* No step makes evidence without proof, crashes and leftovers included. *)
LEMMA GateInvNext == TypeOK /\ TypeOK' /\ GateInv /\ [Next]_vars => GateInv'
<1> SUFFICES ASSUME TypeOK, TypeOK', GateInv, [Next]_vars PROVE GateInv'
  OBVIOUS
<1>1. CASE GateBegin
  BY <1>1 DEF GateBegin, GateStep, greeterVars, session, history, bounds, TypeOK, GateInv, Evidence
<1>2. CASE Prepare
  BY <1>2 DEF Prepare, GateStep, greeterVars, session, history, bounds, TypeOK, GateInv, Evidence
<1>3. CASE StartGreeter
  BY <1>3 DEF StartGreeter, GateStep, greeterVars, session, history, bounds, TypeOK, GateInv, Evidence
<1>4. CASE PollPassed
  BY <1>4 DEF PollPassed, GateStep, greeterVars, session, history, bounds, TypeOK, GateInv, Evidence
<1>5. CASE PollStatus
  BY <1>5 DEF PollStatus, AfterStatus, GateStep, greeterVars, session, history, bounds, TypeOK, GateInv, Evidence
<1>6. CASE Check
  BY <1>6 DEF Check, Verdict, GateStep, greeterVars, session, history, bounds, TypeOK, GateInv, Evidence
<1>7. CASE StopGreeter
  BY <1>7 DEF StopGreeter, GreeterEnds, GateStep, greeterVars, session, history, bounds, TypeOK, GateInv, Evidence
<1>8. CASE MarkBoot
  BY <1>8 DEF MarkBoot, GateStep, greeterVars, session, history, bounds, TypeOK, GateInv, Evidence
<1>9. CASE TouchPassed
  BY <1>9 DEF TouchPassed, greeterVars, session, history, bounds, TypeOK, GateInv, Evidence
<1>10. CASE KillLabwc
  BY <1>10 DEF KillLabwc, greeterVars, session, history, bounds, TypeOK, GateInv, Evidence
<1>11. CASE StaleTouch
  BY <1>11 DEF StaleTouch, greeterVars, session, history, bounds, TypeOK, GateInv, Evidence
<1>12. CASE StaleKill
  BY <1>12 DEF StaleKill, greeterVars, session, history, bounds, TypeOK, GateInv, Evidence
<1>13. CASE GreeterUnlocks
  BY <1>13 DEF GreeterUnlocks, greeterVars, session, history, bounds, TypeOK, GateInv, Evidence
<1>14. CASE GreeterLockFails
  BY <1>14 DEF GreeterLockFails, greeterVars, session, history, bounds, TypeOK, GateInv, Evidence
<1>15. CASE GreeterCrashes
  BY <1>15 DEF GreeterCrashes, GreeterEnds, greeterVars, session, history, bounds, TypeOK, GateInv, Evidence
<1>16. CASE SessionStart
  BY <1>16 DEF SessionStart, greeterVars, session, history, bounds, TypeOK, GateInv, Evidence
<1>17. CASE Autostart
  BY <1>17 DEF Autostart, greeterVars, session, history, bounds, TypeOK, GateInv, Evidence
<1>18. CASE LockScreen
  BY <1>18 DEF LockScreen, greeterVars, session, history, bounds, TypeOK, GateInv, Evidence
<1>19. CASE UnlockScreen
  BY <1>19 DEF UnlockScreen, greeterVars, session, history, bounds, TypeOK, GateInv, Evidence
<1>20. CASE Idled
  BY <1>20 DEF Idled, greeterVars, session, history, bounds, TypeOK, GateInv, Evidence
<1>21. CASE Resumed
  BY <1>21 DEF Resumed, greeterVars, session, history, bounds, TypeOK, GateInv, Evidence
<1>22. CASE LabwcCrashes
  BY <1>22 DEF LabwcCrashes, greeterVars, session, history, bounds, TypeOK, GateInv, Evidence
<1>23. CASE SetArmed
  BY <1>23 DEF SetArmed, greeterVars, session, history, bounds, TypeOK, GateInv, Evidence
<1>24. CASE Factor
  BY <1>24 DEF Factor, greeterVars, session, history, bounds, TypeOK, GateInv, Evidence
<1>25. CASE Reboot
  BY <1>25 DEF Reboot, greeterVars, session, history, bounds, TypeOK, GateInv, Evidence
<1>26. CASE UNCHANGED vars
  BY <1>26 DEF vars, GateInv, Evidence
<1> QED
  BY <1>1, <1>2, <1>3, <1>4, <1>5, <1>6, <1>7, <1>8, <1>9, <1>10, <1>11, <1>12, <1>13, <1>14, <1>15, <1>16, <1>17, <1>18, <1>19, <1>20, <1>21, <1>22, <1>23, <1>24, <1>25, <1>26 DEF Next, Gate, Scripts

(* The boot marker and a session on a machine the gate found armed exist    *)
(* only once a factor was verified in this boot (labwc-session's claim).    *)
THEOREM OnlyVerifiedSessions == Spec => []SessionVerified
<1>1. GateInv => SessionVerified
  BY DEF GateInv, Evidence, SessionVerified
<1> QED
  BY <1>1, GateInvInit, GateInvNext, TypeCorrect, PTL DEF Spec


-----------------------------------------------------------------------------
(* The media service.                                                       *)

\* media-mount under way.
MountRun == [pc : {"none", "already", "wait", "scan"}, try : 0 .. MaxTry]

\* The script ends, starts, or goes on to wait.
LEMMA ScriptStarts ==
  /\ Idle \in MountRun /\ Idle.pc = "none"
  /\ \A p \in {"already", "wait"} :
       [Idle EXCEPT !.pc = p] \in MountRun /\ [Idle EXCEPT !.pc = p].pc = p
BY MediaAssumption DEF Idle, MountRun

\* The types hold before coldplug.
LEMMA MediaTypesInit == MediaInit => MediaTypeOK
<1> SUFFICES ASSUME MediaInit PROVE MediaTypeOK
  OBVIOUS
<1>1. uevents \subseteq ({"add", "remove"} \X Devs)
  BY MediaAssumption DEF MediaInit
<1> QED
  BY <1>1, MediaAssumption, ScriptStarts DEF MediaInit, MediaTypeOK, MountRun

\* umount leaves mounts of disks, each once.
LEMMA UmountTypes ==
  ASSUME MediaTypeOK, Umount
  PROVE  /\ mnt' \in Devs \cup {NoDev}
         /\ under' \subseteq Devs \ {mnt'} /\ stuck' \subseteq Mounted'
         /\ mnt' = NoDev => under' = {}
BY MediaAssumption DEF MediaTypeOK, Umount, Mounted

\* Every handler, call and step of the script keeps them.
LEMMA MediaTypesNext == MediaTypeOK /\ [MediaNext]_mediaVars => MediaTypeOK'
<1> SUFFICES ASSUME MediaTypeOK, [MediaNext]_mediaVars PROVE MediaTypeOK'
  OBVIOUS
<1> USE MediaAssumption DEF MediaTypeOK, mounts
<1>m. UNCHANGED mounts => Mounted' = Mounted
  BY DEF Mounted
<1>1. ASSUME NEW d \in Devs, Insert(d) PROVE MediaTypeOK'
  BY <1>1, <1>m DEF Insert
<1>2. ASSUME NEW d \in Devs, Yank(d) PROVE MediaTypeOK'
  BY <1>2, <1>m DEF Yank
<1>3. ASSUME NEW d \in Devs, HandleAdd(d) PROVE MediaTypeOK'
  BY <1>3, <1>m DEF HandleAdd
<1>4. ASSUME NEW d \in Devs, HandleRemove(d) PROVE MediaTypeOK'
  <2>1. CASE d \in Mounted
    BY <1>4, <2>1, UmountTypes DEF HandleRemove, Released
  <2>2. CASE d \notin Mounted
    BY <1>4, <2>2, <1>m DEF HandleRemove, Released
  <2> QED BY <2>1, <2>2
<1>5. CASE Kick \/ Eject
  BY <1>5, <1>m DEF Kick, Eject
<1>6. CASE CallStart
  <2>1. /\ script' \in MountRun
        /\ script'.pc # "none" <=> svc' = "starting"
        /\ svc' \in {"stopped", "starting", "started", "stopping"}
    BY <1>6, ScriptStarts DEF CallStart, MountRun
  <2>2. stopAsked' \in BOOLEAN
    BY <1>6, Zenon DEF CallStart
  <2> QED
    BY <1>6, <2>1, <2>2, <1>m DEF CallStart, MountRun
<1>7. CASE CallStop
  BY <1>7, <1>m DEF CallStop
<1>8. CASE Unmount
  BY <1>8, UmountTypes DEF Unmount
<1>9. CASE AlreadyMounted
  <2>1. /\ script' \in MountRun
        /\ script'.pc # "none" <=> svc' = "starting"
        /\ svc' \in {"stopped", "starting", "started", "stopping"}
    BY <1>9, ScriptStarts DEF AlreadyMounted, Exit0, MountRun
  <2>2. stopAsked' \in BOOLEAN
    BY <1>9, Zenon DEF AlreadyMounted, Exit0
  <2>3. UNCHANGED mounts \/ Umount
    BY <1>9, Zenon DEF AlreadyMounted
  <2> QED
    BY <1>9, <2>1, <2>2, <2>3, <1>m, UmountTypes DEF AlreadyMounted, MountRun
<1>10. CASE Wait
  <2>1. script' \in MountRun /\ script'.pc # "none"
    <3>1. script.try \in 0 .. MaxTry /\ script \in MountRun
      BY DEF MountRun
    <3>2. CASE script' = [script EXCEPT !.pc = "scan", !.try = 0]
      <4>1. 0 \in 0 .. MaxTry
        OBVIOUS
      <4>2. script' = [pc |-> "scan", try |-> 0]
        BY <3>1, <3>2 DEF MountRun
      <4> QED
        BY <4>1, <4>2 DEF MountRun
    <3>3. CASE ~TimedOut /\ script' = [script EXCEPT !.try = @ + 1]
      <4>1. script.try + 1 \in 0 .. MaxTry
        BY <3>1, <3>3 DEF TimedOut
      <4>2. script.pc = "wait"
        BY <1>10 DEF Wait
      <4> QED
        BY <3>1, <3>3, <4>1, <4>2 DEF MountRun
    <3> QED
      BY <1>10, <3>2, <3>3 DEF Wait
  <2> QED
    BY <1>10, <2>1, <1>m DEF Wait, MountRun
<1>11. CASE Scan
  <2>1. /\ script' \in MountRun
        /\ script'.pc # "none" <=> svc' = "starting"
        /\ svc' \in {"stopped", "starting", "started", "stopping"} /\ stopAsked' \in BOOLEAN
    BY <1>11, ScriptStarts DEF Scan, Exit0
  <2>2. /\ mnt' \in Devs \cup {NoDev}
        /\ under' \subseteq Devs \ {mnt'} /\ stuck' \subseteq Mounted'
        /\ mnt' = NoDev => under' = {}
    <3>1. CASE Candidates = {}
      BY <1>11, <3>1, <1>m DEF Scan
    <3>2. CASE Candidates # {}
      <4>1. mnt' \in Candidates /\ under' = Mounted /\ stuck' = stuck
        BY <1>11, <3>2 DEF Scan
      <4>2. mnt' \in Devs /\ mnt' \notin Mounted
        BY <4>1 DEF Candidates, InUse
      <4> QED BY <4>1, <4>2 DEF Mounted
    <3> QED BY <3>1, <3>2
  <2> QED
    BY <1>11, <2>1, <2>2 DEF Scan, MountRun
<1>12. CASE UNCHANGED mediaVars
  BY <1>12, <1>m DEF mediaVars
<1> QED
  BY <1>1, <1>2, <1>3, <1>4, <1>5, <1>6, <1>7, <1>8, <1>9, <1>10, <1>11, <1>12 DEF MediaNext

\* media-mount start runs exactly while dinit counts the service as starting, and
\* waits at most MaxTry seconds, however handlers and dinitctl calls overlap.
THEOREM MediaTypeCorrect == MediaSpec => []MediaTypeOK
BY MediaTypesInit, MediaTypesNext, PTL DEF MediaSpec

-----------------------------------------------------------------------------
(* A mount whose disk is gone.                                              *)

(* A mount is covered by another only after umount refused to take it away, *)
(* which also holds of the one that media-mount found unreadable.           *)
CorpseInv ==
  /\ StaleMountNoticed
  /\ \A d \in Devs : <<"remove", d>> \in uevents => d \notin plugged
  /\ under \subseteq stuck
  /\ script.pc \in {"wait", "scan"} /\ mnt # NoDev => mnt \in stuck

\* What umount leaves, whoever calls it, when the removal of d (if any) has been handled.
LEMMA UmountKeeps ==
  ASSUME MediaTypeOK, CorpseInv, Umount, plugged' = plugged,
         NEW d, \A e \in Devs : <<"remove", e>> \in uevents' <=> <<"remove", e>> \in uevents /\ e # d,
         d \in plugged \/ d \in stuck \/ d = mnt \/ d \notin Devs
  PROVE  /\ StaleMountNoticed'
         /\ under' \subseteq stuck'
         /\ mnt' = NoDev \/ mnt' \in stuck' \/ (mnt' = mnt /\ mnt \in plugged)
<1> USE MediaAssumption DEF MediaTypeOK, CorpseInv
<1>1. CASE /\ mnt' \in (IF under = {} THEN {NoDev} ELSE under)
           /\ under' = under \ {mnt'} /\ stuck' = stuck \ {mnt}
  <2>1. Mounted' = under
    BY <1>1 DEF Mounted
  <2>2. under \subseteq stuck' /\ mnt' \in under \cup {NoDev}
    BY <1>1
  <2> QED BY <1>1, <2>1, <2>2 DEF StaleMountNoticed
<1>2. CASE mnt # NoDev /\ stuck' = stuck \cup ({mnt} \ plugged) /\ UNCHANGED <<mnt, under>>
  <2>1. Mounted' = Mounted /\ Mounted = {mnt} \cup under /\ Mounted \subseteq Devs
    BY <1>2 DEF Mounted
  <2> QED BY <1>2, <2>1 DEF StaleMountNoticed
<1> QED BY <1>1, <1>2 DEF Umount

\* Every step of the handlers, of dinit and of media-mount keeps it.
LEMMA CorpseStep ==
  ASSUME MediaTypeOK, CorpseInv, [MediaNext]_mediaVars
  PROVE  CorpseInv'
<1> USE MediaAssumption DEF MediaTypeOK, mounts
<1>m. UNCHANGED mounts => Mounted' = Mounted
  BY DEF Mounted
<1>d. Mounted \subseteq Devs
  BY DEF Mounted
<1>p. \A d, e : <<"remove", d>> = <<"remove", e>> <=> d = e
  OBVIOUS
<1>a. \A d, e : <<"remove", d>> # <<"add", e>>
  OBVIOUS
<1>1. ASSUME NEW d \in Devs, Insert(d) PROVE CorpseInv'
  <2>1. /\ d \notin Mounted /\ plugged' = plugged \cup {d} /\ UNCHANGED <<mounts, script>>
        /\ \A e \in Devs : <<"remove", e>> \in uevents' <=> <<"remove", e>> \in uevents
        /\ <<"remove", d>> \notin uevents
    BY <1>1, <1>a DEF Insert
  <2> QED BY <2>1, <1>m, <1>d DEF CorpseInv, StaleMountNoticed
<1>2. ASSUME NEW d \in Devs, Yank(d) PROVE CorpseInv'
  <2>1. /\ plugged' = plugged \ {d} /\ UNCHANGED <<mounts, script>>
        /\ \A e \in Devs : <<"remove", e>> \in uevents' <=> <<"remove", e>> \in uevents \/ e = d
    BY <1>2, <1>p DEF Yank
  <2> QED BY <2>1, <1>m, <1>d DEF CorpseInv, StaleMountNoticed
<1>3. ASSUME NEW d \in Devs, HandleAdd(d) PROVE CorpseInv'
  <2>1. /\ UNCHANGED <<plugged, mounts, script>>
        /\ \A e \in Devs : <<"remove", e>> \in uevents' <=> <<"remove", e>> \in uevents
    BY <1>3, <1>a DEF HandleAdd
  <2> QED BY <2>1, <1>m, <1>d DEF CorpseInv, StaleMountNoticed
<1>4. ASSUME NEW d \in Devs, HandleRemove(d) PROVE CorpseInv'
  <2>1. /\ UNCHANGED <<plugged, script>> /\ <<"remove", d>> \in uevents
        /\ \A e \in Devs : <<"remove", e>> \in uevents' <=> <<"remove", e>> \in uevents /\ e # d
    BY <1>4, <1>p DEF HandleRemove
  <2>2. CASE d \in Mounted
    <3>1. Umount
      BY <1>4, <2>2 DEF HandleRemove
    <3>2. d = mnt \/ d \in stuck
      BY <2>2 DEF Mounted, CorpseInv
    <3>3. /\ StaleMountNoticed'
          /\ under' \subseteq stuck'
          /\ mnt' = NoDev \/ mnt' \in stuck' \/ (mnt' = mnt /\ mnt \in plugged)
      BY <2>1, <3>1, <3>2, UmountKeeps
    <3>4. script.pc \in {"wait", "scan"} /\ mnt' = mnt /\ mnt # NoDev => mnt \in stuck'
      BY <3>1 DEF CorpseInv, Umount
    <3> QED BY <2>1, <3>3, <3>4 DEF CorpseInv
  <2>3. CASE d \notin Mounted
    <3>1. UNCHANGED mounts
      BY <1>4, <2>3 DEF HandleRemove
    <3> QED BY <2>1, <2>3, <3>1, <1>m, <1>d DEF CorpseInv, StaleMountNoticed
  <2> QED BY <2>2, <2>3
<1>u. ASSUME UNCHANGED <<plugged, mounts, uevents>>,
             script'.pc \in {"wait", "scan"} => script.pc \in {"wait", "scan"}
      PROVE  CorpseInv'
  BY <1>u, <1>m DEF CorpseInv, StaleMountNoticed
<1>5. CASE Kick \/ Eject \/ CallStop
  BY <1>5, <1>u DEF Kick, Eject, CallStop
<1>6. CASE CallStart
  <2>1. script' = script \/ script' = [Idle EXCEPT !.pc = "already"]
    BY <1>6 DEF CallStart
  <2>2. script'.pc \in {"wait", "scan"} => script.pc \in {"wait", "scan"}
    BY <2>1, ScriptStarts
  <2> QED BY <1>6, <1>u, <2>2 DEF CallStart
<1>7. CASE Wait
  BY <1>7, <1>u DEF Wait
<1>8. CASE Unmount
  <2>1. /\ Umount /\ UNCHANGED <<plugged, script, uevents>>
        /\ script.pc = "none" /\ NoDev \notin Devs
    BY <1>8 DEF Unmount
  <2>2. StaleMountNoticed' /\ under' \subseteq stuck'
    <3>1. \A e \in Devs : <<"remove", e>> \in uevents' <=> <<"remove", e>> \in uevents /\ e # NoDev
      BY <2>1
    <3> QED BY <2>1, <3>1, UmountKeeps
  <2> QED BY <2>1, <2>2 DEF CorpseInv
<1>9. CASE AlreadyMounted
  <2>1. CASE Readable
    <3>1. UNCHANGED <<plugged, mounts, uevents>> /\ script' = Idle
      BY <1>9, <2>1 DEF AlreadyMounted, Exit0
    <3> QED BY <3>1, <1>u, ScriptStarts
  <2>2. CASE ~Readable
    <3>1. Umount /\ UNCHANGED <<plugged, uevents>> /\ mnt \notin plugged
      BY <1>9, <2>2 DEF AlreadyMounted, Readable
    <3>2. /\ StaleMountNoticed'
          /\ under' \subseteq stuck'
          /\ mnt' = NoDev \/ mnt' \in stuck' \/ (mnt' = mnt /\ mnt \in plugged)
      <4>1. \A e \in Devs : <<"remove", e>> \in uevents' <=> <<"remove", e>> \in uevents /\ e # NoDev
        BY <3>1
      <4> QED BY <3>1, <4>1, UmountKeeps
    <3> QED BY <3>1, <3>2 DEF CorpseInv
  <2> QED BY <2>1, <2>2
<1>10. CASE Scan
  <2>1. script' = Idle /\ script.pc = "scan" /\ UNCHANGED <<plugged, uevents>>
    BY <1>10 DEF Scan, Exit0
  <2>2. CASE Candidates = {}
    <3>1. UNCHANGED mounts
      BY <1>10, <2>2 DEF Scan
    <3> QED BY <2>1, <3>1, <1>u, ScriptStarts
  <2>3. CASE Candidates # {}
    <3>1. mnt' \in Candidates /\ under' = Mounted /\ stuck' = stuck
      BY <1>10, <2>3 DEF Scan
    <3>2. mnt' \in plugged /\ Mounted \subseteq stuck
      BY <2>1, <3>1 DEF Candidates, Mounted, CorpseInv
    <3>3. Mounted' \subseteq Mounted \cup {mnt'}
      BY <3>1 DEF Mounted
    <3> QED BY <2>1, <3>1, <3>2, <3>3, ScriptStarts DEF CorpseInv, StaleMountNoticed
  <2> QED BY <2>2, <2>3
<1>11. CASE UNCHANGED mediaVars
  BY <1>11, <1>u DEF mediaVars
<1> QED
  BY <1>1, <1>2, <1>3, <1>4, <1>5, <1>6, <1>7, <1>8, <1>9, <1>10, <1>11 DEF MediaNext

\* hotplug-handler's view of a removal is never lost: a mount whose disk is gone has that
\* disk's removal still to be handled, or a umount of it was refused, for any disks, waits
\* and order of the handlers, and any umounts that fail.
THEOREM StaleMountIsNoticed == MediaSpec => []StaleMountNoticed
<1>1. MediaInit => CorpseInv
  <2> SUFFICES ASSUME MediaInit PROVE CorpseInv
    OBVIOUS
  <2>1. Mounted = {} /\ script.pc = "none"
    BY ScriptStarts DEF MediaInit, Mounted
  <2>2. \A d : <<"remove", d>> \notin uevents
    BY DEF MediaInit
  <2> QED BY <2>1, <2>2 DEF MediaInit, CorpseInv, StaleMountNoticed
<1>2. MediaTypeOK /\ CorpseInv /\ [MediaNext]_mediaVars => CorpseInv'
  BY CorpseStep
<1>3. CorpseInv => StaleMountNoticed
  BY DEF CorpseInv
<1> QED
  BY <1>1, <1>2, <1>3, MediaTypeCorrect, PTL DEF MediaSpec

=============================================================================
