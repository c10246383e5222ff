------------------------------ MODULE BootGate ------------------------------
(***************************************************************************)
(* The boot gate and the session behind it (veron-system): root's           *)
(* session-gate script, the greeter compositor and its autostart script,    *)
(* labwc-session, the user session's autostart, the session lock and        *)
(* veron-idle.  dinit starts labwc once session-gate has exited 0 and       *)
(* restarts it whenever it ends.                                            *)
(*                                                                         *)
(* veron-lock is its contract here (Locker, which SessionLock implements):  *)
(* status 0 only when a factor was verified.  A greeter's lock that is told *)
(* 0 as its compositor dies is one that unlocked just before.               *)
(***************************************************************************)
EXTENDS Naturals

CONSTANTS
  LegacyConf,  \* autologin= in ~/.config/veron/auth.conf, "absent" for no file,
               \* "never" for off with idle=0
  MaxFaults,   \* bound: compositor crashes and failed veron-lock runs
  MaxBoots     \* bound: reboots

ASSUME GateAssumption ==
  /\ LegacyConf \in {"absent", "on", "off", "never"}
  /\ MaxFaults \in Nat
  /\ MaxBoots \in Nat

VARIABLES
  armed,      \* /persist/veron-auth/auth.conf: autologin=off
  factor,     \* external: veron_verify would accept now
  gate,       \* where session-gate is
  greeter,    \* the greeter service, "up" or "down"
  auto,       \* where the running greeter's autostart script is
  stale,      \* where autostart scripts of earlier greeters are
  passed,     \* /run/greeter/passed
  marker,     \* /run/veron-boot-authed
  labwc,      \* user session: "down", "up" (compositor), "ready" (autostart done)
  screen,     \* user session: "open" or "locked"
  loop,       \* the relaunch loop of the user's autostart runs
  away,       \* the seat is idle
  gateArmed,  \* history: the gate found the machine armed in this boot
  proved,     \* history: a factor was verified in this boot
  owed,       \* history: the screen was locked and no factor verified since
  faults, boots

vars == <<armed, factor, gate, greeter, auto, stale, passed, marker, labwc, screen,
          loop, away, gateArmed, proved, owed, faults, boots>>
greeterVars == <<greeter, auto, stale, passed>>
session == <<labwc, screen, loop, away>>
history == <<gateArmed, proved, owed>>
bounds == <<faults, boots>>

(* The running greeter has exactly one autostart script. *)
TypeOK ==
  /\ armed \in BOOLEAN /\ factor \in BOOLEAN /\ passed \in BOOLEAN /\ marker \in BOOLEAN
  /\ loop \in BOOLEAN /\ away \in BOOLEAN
  /\ gateArmed \in BOOLEAN /\ proved \in BOOLEAN /\ owed \in BOOLEAN
  /\ gate \in {"begin", "prep", "start", "poll", "status", "check", "stop", "mark", "done"}
  /\ greeter \in {"up", "down"}
  /\ auto \in {"none", "lock", "touch", "kill"}
  /\ greeter = "up" <=> auto # "none"
  /\ stale \subseteq {"touch", "kill"}
  /\ labwc \in {"down", "up", "ready"} /\ screen \in {"open", "locked"}
  /\ faults \in 0 .. MaxFaults /\ boots \in 0 .. MaxBoots

Init ==
  /\ armed \in BOOLEAN /\ factor \in BOOLEAN
  /\ gate = "begin"
  /\ greeter = "down" /\ auto = "none" /\ stale = {}
  /\ passed = FALSE /\ marker = FALSE
  /\ labwc = "down" /\ screen = "open" /\ loop = FALSE /\ away = FALSE
  /\ gateArmed = FALSE /\ proved = FALSE /\ owed = FALSE
  /\ faults = 0 /\ boots = 0

-----------------------------------------------------------------------------
(* session-gate                                                             *)

GateStep(from, to) == gate = from /\ gate' = to

GateBegin ==
  /\ GateStep("begin", IF armed THEN "prep" ELSE "done")
  /\ gateArmed' = armed
  /\ UNCHANGED <<armed, factor, greeterVars, marker, session, proved, owed, bounds>>

(* /run/greeter is removed and made again: no marker of an earlier round. *)
Prepare ==
  /\ GateStep("prep", "start")
  /\ passed' = FALSE
  /\ UNCHANGED <<armed, factor, greeter, auto, stale, marker, session, history, bounds>>

StartGreeter ==
  /\ GateStep("start", "poll")
  /\ greeter' = "up" /\ auto' = "lock"
  /\ UNCHANGED <<armed, factor, stale, passed, marker, session, history, bounds>>

PollPassed ==
  /\ GateStep("poll", IF passed THEN "check" ELSE "status")
  /\ UNCHANGED <<armed, factor, greeterVars, marker, session, history, bounds>>

(* Mutant: a greeter that stopped is not noticed. *)
AfterStatusKeepsWaiting == "poll"

AfterStatus == IF greeter = "down" THEN "check" ELSE "poll"

PollStatus ==
  /\ GateStep("status", AfterStatus)
  /\ UNCHANGED <<armed, factor, greeterVars, marker, session, history, bounds>>

(* Mutant: the end of the wait is taken for a pass. *)
VerdictByEnd == "stop"

(* The marker is looked for again once the wait has ended. *)
Verdict == IF passed THEN "stop" ELSE "prep"

Check ==
  /\ GateStep("check", Verdict)
  /\ UNCHANGED <<armed, factor, greeterVars, marker, session, history, bounds>>

(* The greeter's labwc is gone.  Its autostart script lives on: a lock that *)
(* had not been satisfied ends with the compositor, status 2.               *)
GreeterEnds ==
  /\ greeter' = "down" /\ auto' = "none"
  /\ stale' = CASE auto = "none" -> stale
                [] auto = "lock" -> stale \cup {"kill"}
                [] OTHER -> stale \cup {auto}

StopGreeter ==
  /\ GateStep("stop", "mark")
  /\ GreeterEnds
  /\ UNCHANGED <<armed, factor, passed, marker, session, history, bounds>>

MarkBoot ==
  /\ GateStep("mark", "done")
  /\ marker' = TRUE
  /\ UNCHANGED <<armed, factor, greeterVars, session, history, bounds>>

-----------------------------------------------------------------------------
(* The greeter: labwc and its autostart script.                             *)

GreeterUnlocks ==
  /\ auto = "lock" /\ factor
  /\ auto' = "touch"
  /\ proved' = TRUE
  /\ UNCHANGED <<armed, factor, gate, greeter, stale, passed, marker, session,
                 gateArmed, owed, bounds>>

(* veron-lock ends with another status. *)
GreeterLockFails ==
  /\ auto = "lock"
  /\ faults < MaxFaults /\ faults' = faults + 1
  /\ auto' = "kill"
  /\ UNCHANGED <<armed, factor, gate, greeter, stale, passed, marker, session, history, boots>>

TouchPassed ==
  /\ auto = "touch"
  /\ passed' = TRUE
  /\ auto' = "kill"
  /\ UNCHANGED <<armed, factor, gate, greeter, stale, marker, session, history, bounds>>

KillLabwc ==
  /\ auto = "kill"
  /\ greeter' = "down" /\ auto' = "none"
  /\ UNCHANGED <<armed, factor, gate, stale, passed, marker, session, history, bounds>>

GreeterCrashes ==
  /\ greeter = "up"
  /\ faults < MaxFaults /\ faults' = faults + 1
  /\ GreeterEnds
  /\ UNCHANGED <<armed, factor, gate, passed, marker, session, history, boots>>

(* A script of an earlier greeter goes on: its touch lands in the new       *)
(* directory, its pkill hits the new compositor.                            *)
StaleTouch ==
  /\ "touch" \in stale
  /\ passed' = TRUE
  /\ stale' = (stale \ {"touch"}) \cup {"kill"}
  /\ UNCHANGED <<armed, factor, gate, greeter, auto, marker, session, history, bounds>>

StaleKill ==
  /\ "kill" \in stale
  /\ greeter' = "down" /\ auto' = "none"
  /\ \E rest \in {stale \ {"kill"}} :
       stale' = IF auto = "touch" THEN rest \cup {"touch"}
                ELSE IF auto = "none" THEN rest ELSE rest \cup {"kill"}
  /\ UNCHANGED <<armed, factor, gate, passed, marker, session, history, bounds>>

-----------------------------------------------------------------------------
(* The user session.                                                        *)

(* labwc-session: refused while armed without the marker. *)
SessionStart ==
  /\ gate = "done" /\ labwc = "down"
  /\ ~armed \/ marker
  /\ labwc' = "up" /\ screen' = "open" /\ away' = FALSE
  /\ UNCHANGED <<armed, factor, gate, greeterVars, marker, loop, history, bounds>>

(* The user's autostart: the relaunch loop when armed without the marker. *)
Autostart ==
  /\ labwc = "up"
  /\ labwc' = "ready"
  /\ loop' = (loop \/ (armed /\ ~marker))
  /\ UNCHANGED <<armed, factor, gate, greeterVars, marker, screen, away, history, bounds>>

(* The loop's veron-lock, or Super+L. *)
LockScreen ==
  /\ labwc # "down" /\ screen = "open"
  /\ loop \/ (labwc = "ready" /\ armed)
  /\ screen' = "locked"
  /\ owed' = TRUE
  /\ UNCHANGED <<armed, factor, gate, greeterVars, marker, labwc, loop, away,
                 gateArmed, proved, bounds>>

UnlockScreen ==
  /\ labwc # "down" /\ screen = "locked" /\ factor
  /\ screen' = "open"
  /\ proved' = TRUE /\ owed' = FALSE
  /\ loop' = FALSE
  /\ UNCHANGED <<armed, factor, gate, greeterVars, marker, labwc, away, gateArmed, bounds>>

(* notif_idled: veron-idle reads ~/.config/veron/auth.conf, and does not    *)
(* lock without autologin=off there or with idle=0.                         *)
Idled ==
  /\ labwc = "ready" /\ ~away
  /\ away' = TRUE
  /\ screen' = IF LegacyConf = "off" THEN "locked" ELSE screen
  /\ owed' = (owed \/ LegacyConf = "off")
  /\ UNCHANGED <<armed, factor, gate, greeterVars, marker, labwc, loop,
                 gateArmed, proved, bounds>>

Resumed ==
  /\ away
  /\ away' = FALSE
  /\ UNCHANGED <<armed, factor, gate, greeterVars, marker, labwc, screen, loop, history, bounds>>

(* The compositor dies, and its lock with it; dinit starts it again. *)
LabwcCrashes ==
  /\ labwc # "down"
  /\ faults < MaxFaults /\ faults' = faults + 1
  /\ labwc' = "down" /\ screen' = "open" /\ away' = FALSE
  /\ UNCHANGED <<armed, factor, gate, greeterVars, marker, loop, history, boots>>

(* veron-enroll keyfile, autologin on and off, at the open session. *)
SetArmed ==
  /\ labwc # "down" /\ screen = "open"
  /\ armed \/ factor
  /\ armed' = ~armed
  /\ UNCHANGED <<factor, gate, greeterVars, marker, session, history, bounds>>

-----------------------------------------------------------------------------
(* The environment.                                                         *)

Factor == factor' = ~factor
          /\ UNCHANGED <<armed, gate, greeterVars, marker, session, history, bounds>>

(* What a power cycle leaves: /run is empty, nothing runs. *)
Reboot ==
  /\ boots < MaxBoots /\ boots' = boots + 1
  /\ gate' = "begin"
  /\ greeter' = "down" /\ auto' = "none" /\ stale' = {}
  /\ passed' = FALSE /\ marker' = FALSE
  /\ labwc' = "down" /\ screen' = "open" /\ loop' = FALSE /\ away' = FALSE
  /\ gateArmed' = FALSE /\ proved' = FALSE /\ owed' = FALSE
  /\ UNCHANGED <<armed, factor, faults>>

Gate == GateBegin \/ Prepare \/ StartGreeter \/ PollPassed \/ PollStatus \/ Check
        \/ StopGreeter \/ MarkBoot
Scripts == TouchPassed \/ KillLabwc \/ StaleTouch \/ StaleKill

Next ==
  \/ Gate \/ Scripts
  \/ GreeterUnlocks \/ GreeterLockFails \/ GreeterCrashes
  \/ SessionStart \/ Autostart \/ LockScreen \/ UnlockScreen \/ Idled \/ Resumed
  \/ LabwcCrashes \/ SetArmed \/ Factor \/ Reboot

Spec == Init /\ [][Next]_vars

(* The scripts are scheduled, dinit starts and restarts labwc, and a person *)
(* with a factor presses Enter at the greeter and at the lock.              *)
FairSpec ==
  /\ Spec
  /\ WF_vars(Gate) /\ WF_vars(Scripts) /\ SF_vars(GreeterUnlocks)
  /\ WF_vars(SessionStart) /\ WF_vars(Autostart)

-----------------------------------------------------------------------------
(* Properties.                                                              *)

(* "No failure anywhere can mint" the boot marker (labwc-session): it, and  *)
(* a user session on a machine the gate found armed, exist only after a     *)
(* factor was verified in this boot, whatever greeters crash, are killed    *)
(* late or leave scripts behind.                                            *)
SessionVerified == marker \/ (gateArmed /\ labwc # "down") => proved

(* A greeter script's touch is not for ever lost between the gate's last    *)
(* look and its rm -rf: the second of sleep between them is longer than the *)
(* script's two commands take.                                              *)
TouchSeen == gate = "prep" => ~passed

(* "Inserting the stick at any point boots the session" (dinit.d/           *)
(* session-gate): once the factor stays, the gate is passed, whatever       *)
(* greeters crashed before.                                                 *)
GateOpens == <>[](factor /\ TouchSeen) => []<>(gate = "done")

(* "Every crash, everywhere, now lands on the closed side" (labwc-session): *)
(* after the screen was locked, no open session without a factor.           *)
CrashLandsClosed == labwc = "ready" /\ armed /\ owed => screen = "locked" \/ loop

(* veron-idle "starts veron-lock when the person has walked away", on an    *)
(* armed machine (dinit.d/veron-idle).                                      *)
IdleLocks == [][armed /\ ~away /\ away' => screen' = "locked"]_vars

-----------------------------------------------------------------------------
(* The inductive invariant behind SessionVerified.                          *)

(* What only a verified factor can have caused: the file, a script about to *)
(* make it, the marker, the gate past its verdict.                          *)
Evidence ==
  \/ passed \/ auto = "touch" \/ "touch" \in stale
  \/ marker \/ gate \in {"stop", "mark"}
  \/ gateArmed /\ gate = "done"

GateInv ==
  /\ Evidence => proved
  /\ labwc # "down" => gate = "done"

=============================================================================
