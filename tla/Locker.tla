------------------------------- MODULE Locker --------------------------------
(***************************************************************************)
(* What veron-lock promises to whoever starts it (the greeter's autostart,  *)
(* the user's autostart, Super+L, veron-idle), with outputs, surfaces,      *)
(* events and keys left out: a run that takes the session lock gives it     *)
(* back, and ends with status 0, only after it verified the factors itself; *)
(* one that ends in any other way leaves the session locked.  Both happen   *)
(* together unless the run is cut off in between.  BootGate uses veron-lock *)
(* as this, SessionLock implements it.                                      *)
(***************************************************************************)
VARIABLES
  factor,   \* external: veron_verify would find its factors now
  holder,   \* who keeps the session locked: "no", "us", "dead" or "other"
  running,  \* a run of veron-lock is under way
  proved,   \* it has verified the factors
  status    \* how the last run ended: "none", "ok" (0), "failed"

lockerVars == <<factor, holder, running, proved, status>>

Init ==
  /\ factor \in BOOLEAN
  /\ holder \in {"no", "other"}
  /\ running = FALSE /\ proved = FALSE /\ status = "none"

(* Whoever was told 0 does not start it again. *)
Start ==
  /\ ~running /\ status # "ok"
  /\ running' = TRUE /\ status' = "none"
  /\ UNCHANGED <<factor, holder, proved>>

(* Nothing is armed, or there is nothing to draw on. *)
Decline ==
  /\ ~running /\ status # "ok"
  /\ status' = "failed"
  /\ UNCHANGED <<factor, holder, running, proved>>

(* A session that is open, or whose locker died, is locked by this run. *)
Take ==
  /\ running /\ holder \in {"no", "dead"}
  /\ holder' = "us"
  /\ UNCHANGED <<factor, running, proved, status>>

(* The factors are verified, by the run that holds the session. *)
Prove ==
  /\ running /\ holder = "us" /\ factor
  /\ proved' = TRUE
  /\ UNCHANGED <<factor, holder, running, status>>

Unlock ==
  /\ running /\ holder = "us" /\ proved
  /\ holder' = "no"
  /\ running' = FALSE /\ proved' = FALSE /\ status' = "ok"
  /\ UNCHANGED factor

(* Cut off after the check: the unlock may or may not have come through,    *)
(* and the status does not tell.                                            *)
Lost ==
  /\ running /\ holder = "us" /\ proved
  /\ holder' \in {"dead", "no"}
  /\ running' = FALSE /\ proved' = FALSE /\ status' \in {"ok", "failed"}
  /\ UNCHANGED factor

(* Refused or killed: what it held stays locked. *)
Fail ==
  /\ running
  /\ holder' = IF holder = "us" THEN "dead" ELSE holder
  /\ running' = FALSE /\ proved' = FALSE /\ status' = "failed"
  /\ UNCHANGED factor

OtherReleases ==
  /\ holder = "other"
  /\ holder' = "no"
  /\ UNCHANGED <<factor, running, proved, status>>

Factor == factor' = ~factor /\ UNCHANGED <<holder, running, proved, status>>

Next == Start \/ Decline \/ Take \/ Prove \/ Unlock \/ Lost \/ Fail \/ OtherReleases \/ Factor

Spec == Init /\ [][Next]_lockerVars

=============================================================================
