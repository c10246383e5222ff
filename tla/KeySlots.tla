------------------------------ MODULE KeySlots ------------------------------
(***************************************************************************)
(* What the factor store promises, with every mechanism left out: a set of *)
(* factors that open the machine and a gate that is armed or not.  A       *)
(* factor is a pair <<path, key>>: that key file, reachable at that path,  *)
(* opens the store.  wrap.c and enroll.c implement this with one wrap file *)
(* per slot, one line per slot in auth.conf, and several non-atomic steps  *)
(* per command (see FactorStore).                                          *)
(***************************************************************************)
CONSTANTS Paths, Keys

VARIABLES
  factors,   \* the <<path, key>> pairs that open the store
  armed      \* autologin=off: the session starts locked

slotVars == <<factors, armed>>

Init == factors = {} /\ armed = FALSE

(* A key file becomes a factor, under a path that had none or beside one.   *)
Enrol(p, k) ==
  /\ factors' = factors \cup {<<p, k>>}
  /\ UNCHANGED armed

(* A path is enrolled again with other bytes behind it: the factors of that *)
(* path may be lost, those of every other path may not.                     *)
Replace(p, k) ==
  /\ \E gone \in SUBSET {f \in factors : f[1] = p} :
        factors' = (factors \ gone) \cup {<<p, k>>}
  /\ UNCHANGED armed

(* Factors are revoked, never all of them while the gate is armed.          *)
Revoke(f) ==
  /\ factors' = factors \ {f}
  /\ armed => factors' # {}
  /\ UNCHANGED armed

(* The gate is armed only when something opens it.                          *)
Arm == factors # {} /\ armed' = TRUE /\ UNCHANGED factors

Disarm == armed' = FALSE /\ UNCHANGED factors

Next ==
  \/ \E p \in Paths, k \in Keys : Enrol(p, k) \/ Replace(p, k)
  \/ \E f \in factors : Revoke(f)
  \/ Arm
  \/ Disarm

Spec == Init /\ [][Next]_slotVars

=============================================================================
