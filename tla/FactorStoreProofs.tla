-------------------------- MODULE FactorStoreProofs --------------------------
(***************************************************************************)
(* Theorems about FactorStore for any number of slots, any paths and keys  *)
(* and any bound on the masters.                                           *)
(***************************************************************************)
EXTENDS FactorStore, TLAPS

TypeInv == TypeOK /\ CmdLocals

LEMMA TypeInvInit == Init => TypeInv
<1> SUFFICES ASSUME Init PROVE TypeInv
  OBVIOUS
<1> USE StoreAssumption DEF Init
<1>1. file \in [Paths -> Keys \cup {NoKey}] /\ keyfile \in [Slots -> Paths \cup {NoPath}]
  OBVIOUS
<1>2. wrap \in [Slots -> Wraps]
  BY DEF NoWrap, Wraps
<1>3. cmd \in Commands
  BY DEF Idle, Commands
<1>4. autologin \in {"unset", "on", "off"} /\ totp \in BOOLEAN
  OBVIOUS
<1>5. seed \in Masters \cup {NoSeed} /\ masters \in Masters \cup {0}
  OBVIOUS
<1>6. CmdLocals
  BY DEF CmdLocals, Idle, NoWrap
<1>7. QED
  BY <1>1, <1>2, <1>3, <1>4, <1>5, <1>6 DEF TypeInv, TypeOK

LEMMA TypeInvNext == TypeInv /\ [Next]_vars => TypeInv'
<1> SUFFICES ASSUME TypeInv, [Next]_vars PROVE TypeInv'
  OBVIOUS
<1> USE StoreAssumption DEF TypeInv, TypeOK, CmdLocals, Commands, Idle, Wraps, NoWrap
<1>1. ASSUME NEW p \in Paths, EnrollKeyfile(p) PROVE TypeInv'
  <2>1. PICK s \in Slots :
          \/ \E i \in Slots :
               /\ FirstUnwrapping(i)
               /\ cmd' = [Idle EXCEPT !.pc = "wrap", !.path = p, !.slot = s,
                                      !.master = wrap[i].master]
               /\ UNCHANGED masters
          \/ /\ masters < MaxMasters
             /\ masters' = masters + 1
             /\ cmd' = [Idle EXCEPT !.pc = "wrap", !.path = p, !.slot = s,
                                    !.master = masters + 1]
    BY <1>1 DEF EnrollKeyfile
  <2>2. ASSUME NEW i \in Slots, FirstUnwrapping(i),
               cmd' = [Idle EXCEPT !.pc = "wrap", !.path = p, !.slot = s,
                                   !.master = wrap[i].master],
               UNCHANGED masters
        PROVE TypeInv'
    <3>1. wrap[i].master \in Masters
      BY <2>2 DEF FirstUnwrapping, Unwraps, Opens
    <3>2. QED
      BY <1>1, <2>2, <3>1, ZenonT(60) DEF EnrollKeyfile
  <2>3. CASE /\ masters < MaxMasters
             /\ masters' = masters + 1
             /\ cmd' = [Idle EXCEPT !.pc = "wrap", !.path = p, !.slot = s,
                                    !.master = masters + 1]
    <3>1. masters + 1 \in Masters
      BY <2>3 DEF Masters
    <3>2. QED
      BY <1>1, <2>3, <3>1, ZenonT(60) DEF EnrollKeyfile
  <2>4. QED
    BY <2>1, <2>2, <2>3
<1>2. CASE WriteWrap
  <2>1. /\ cmd.path \in Paths /\ cmd.slot \in Slots /\ cmd.master \in Masters
        /\ file[cmd.path] \in Keys
    BY <1>2 DEF WriteWrap
  <2>2. wrap' \in [Slots -> Wraps] /\ cmd' \in Commands
    BY <1>2, <2>1 DEF WriteWrap
  <2>3. QED
    BY <1>2, <2>1, <2>2 DEF WriteWrap
<1>3. CASE WriteWrapFails
  BY <1>3 DEF WriteWrapFails
<1>4. CASE ConfSetKeyfile
  BY <1>4 DEF ConfSetKeyfile
<1>5. CASE ArmGate
  BY <1>5 DEF ArmGate
<1>6. CASE ConfSetFails
  BY <1>6 DEF ConfSetFails
<1>7. CASE EnrollTotp
  <2>1. PICK i \in Slots : /\ FirstUnwrapping(i)
                           /\ cmd' = [Idle EXCEPT !.pc = "seed", !.master = wrap[i].master]
    BY <1>7 DEF EnrollTotp
  <2>2. wrap[i].master \in Masters
    BY <2>1 DEF FirstUnwrapping, Unwraps, Opens
  <2>3. QED
    BY <1>7, <2>1, <2>2 DEF EnrollTotp
<1>8. CASE WriteSeed
  BY <1>8 DEF WriteSeed
<1>9. CASE ConfSetTotp
  BY <1>9 DEF ConfSetTotp
<1>10. CASE RemoveTotp
  BY <1>10 DEF RemoveTotp
<1>11. CASE AutologinOff \/ AutologinOn
  BY <1>11 DEF AutologinOff, AutologinOn
<1>12. ASSUME NEW S \in {Slots} \cup {{i} : i \in Slots}, RemoveKeyfile(S) PROVE TypeInv'
  BY <1>12 DEF RemoveKeyfile, EnrolledSlots
<1>13. CASE RemoveConf
  <2>1. PICK i \in cmd.todo :
          keyfile' = [keyfile EXCEPT ![i] = NoPath] \/ keyfile' = keyfile
    BY <1>13 DEF RemoveConf
  <2>2. keyfile' \in [Slots -> Paths \cup {NoPath}]
    BY <2>1
  <2>3. QED
    BY <1>13, <2>2 DEF RemoveConf
<1>14. CASE RemoveWrap
  <2>1. PICK i \in cmd.todo :
          /\ wrap' = [wrap EXCEPT ![i] = NoWrap]
          /\ \/ cmd' = Idle
             \/ cmd' = [cmd EXCEPT !.pc = "rmconf", !.todo = cmd.todo \ {i}]
    BY <1>14 DEF RemoveWrap
  <2>2. i \in Slots /\ wrap' \in [Slots -> Wraps]
    BY <2>1
  <2>3. \A j \in Slots : wrap'[j].key \in Keys => wrap'[j].master \in Masters
    BY <2>1, <2>2
  <2>4. cmd' \in Commands /\ cmd'.pc \in {"idle", "rmconf"}
    <3>1. CASE cmd' = Idle
      BY <3>1
    <3>2. CASE cmd' = [cmd EXCEPT !.pc = "rmconf", !.todo = cmd.todo \ {i}]
      <4>1. cmd.todo \ {i} \in SUBSET Slots
        OBVIOUS
      <4>2. QED
        BY <3>2, <4>1
    <3>3. QED
      BY <2>1, <3>1, <3>2
  <2>5. QED
    BY <1>14, <2>2, <2>3, <2>4 DEF RemoveWrap
<1>15. ASSUME NEW p \in Paths, NEW k \in Keys \cup {NoKey}, Media(p, k) PROVE TypeInv'
  BY <1>15 DEF Media
<1>16. CASE Crash
  BY <1>16 DEF Crash
<1>17. CASE UNCHANGED vars
  BY <1>17 DEF vars
<1>18. QED
  BY <1>1, <1>2, <1>3, <1>4, <1>5, <1>6, <1>7, <1>8, <1>9, <1>10, <1>11,
     <1>12, <1>13, <1>14, <1>15, <1>16, <1>17 DEF Next

(* Every reachable store is well-typed: what enroll.c writes into auth.conf *)
(* and the wraps is always something its readers know.                      *)
THEOREM TypeCorrect == Spec => []TypeOK
<1>1. Spec => []TypeInv
  BY TypeInvInit, TypeInvNext, PTL DEF Spec
<1>2. TypeInv => TypeOK
  BY DEF TypeInv
<1>3. QED
  BY <1>1, <1>2, PTL
-----------------------------------------------------------------------------
(* The store invariant, for a store whose `remove' can rely on its writes.  *)

LEMMA StoreInvInit == Init => StoreInv
  BY DEF Init, StoreInv, LinesWrapped, EnrolUnderWay, RemovalUnderWay, ArmedHasLine, Idle

LEMMA StoreInvNext ==
  ASSUME "remove" \notin WriteFaults
  PROVE  TypeInv /\ StoreInv /\ [Next]_vars => StoreInv'
<1> SUFFICES ASSUME TypeInv, StoreInv, [Next]_vars PROVE StoreInv'
  OBVIOUS
<1> USE StoreAssumption DEF TypeInv, TypeOK, CmdLocals, StoreInv, LinesWrapped,
        EnrolUnderWay, RemovalUnderWay, ArmedHasLine, Wraps, Commands
<1>1. ASSUME NEW p \in Paths, EnrollKeyfile(p) PROVE StoreInv'
  <2>1. PICK s \in Slots :
          /\ SlotFor(s, p)
          /\ \E m : cmd' = [Idle EXCEPT !.pc = "wrap", !.path = p, !.slot = s, !.master = m]
    BY <1>1, Zenon DEF EnrollKeyfile
  <2>2. cmd'.pc = "wrap" /\ cmd'.path = p /\ cmd'.slot = s
    BY <2>1 DEF Idle
  <2>3. keyfile[s] \in {NoPath, p}
    BY <2>1 DEF SlotFor, Takes
  <2>4. QED
    BY <1>1, <2>2, <2>3 DEF EnrollKeyfile
<1>2. CASE WriteWrap
  <2>1. cmd.path \in Paths /\ cmd.slot \in Slots /\ file[cmd.path] \in Keys
    BY <1>2 DEF WriteWrap
  <2>2. \A i \in Slots : wrap'[i].key = IF i = cmd.slot THEN file[cmd.path] ELSE wrap[i].key
    BY <1>2, <2>1 DEF WriteWrap
  <2>3. cmd'.pc = "conf" /\ cmd'.path = cmd.path /\ cmd'.slot = cmd.slot
    BY <1>2 DEF WriteWrap
  <2>4. QED
    BY <1>2, <2>1, <2>2, <2>3 DEF WriteWrap
<1>3. CASE WriteWrapFails \/ ConfSetFails \/ Crash
  BY <1>3 DEF WriteWrapFails, ConfSetFails, Crash, Idle
<1>4. CASE ConfSetKeyfile
  <2>1. cmd.path \in Paths /\ cmd.slot \in Slots
    BY <1>4 DEF ConfSetKeyfile
  <2>2. \A i \in Slots : keyfile'[i] = IF i = cmd.slot THEN cmd.path ELSE keyfile[i]
    BY <1>4, <2>1 DEF ConfSetKeyfile
  <2>3. cmd'.pc = "arm" /\ cmd'.path = cmd.path /\ cmd'.slot = cmd.slot
    BY <1>4 DEF ConfSetKeyfile
  <2>4. QED
    BY <1>4, <2>1, <2>2, <2>3 DEF ConfSetKeyfile
<1>5. CASE ArmGate
  BY <1>5 DEF ArmGate, Idle
<1>6. CASE EnrollTotp
  BY <1>6 DEF EnrollTotp, Idle
<1>7. CASE WriteSeed \/ ConfSetTotp \/ RemoveTotp \/ AutologinOn
  BY <1>7 DEF WriteSeed, ConfSetTotp, RemoveTotp, AutologinOn, Idle
<1>8. CASE AutologinOff
  BY <1>8 DEF AutologinOff, HaveMaster, Unwraps, Enrolled
<1>9. ASSUME NEW S \in {Slots} \cup {{i} : i \in Slots}, RemoveKeyfile(S) PROVE StoreInv'
  <2>1. cmd'.pc = "rmconf" /\ cmd'.todo = S \cap EnrolledSlots /\ cmd'.todo # {}
    BY <1>9 DEF RemoveKeyfile, Idle
  <2>2. autologin = "off" => \E i \in Slots \ cmd'.todo : keyfile[i] # NoPath
    BY <1>9, <2>1 DEF RemoveKeyfile, RemovesLast, EnrolledSlots, Enrolled
  <2>3. QED
    BY <1>9, <2>1, <2>2 DEF RemoveKeyfile
<1>10. CASE RemoveConf
  <2>1. PICK i \in cmd.todo : First(i, cmd.todo) /\ keyfile' = [keyfile EXCEPT ![i] = NoPath]
    BY <1>10 DEF RemoveConf
  <2>2. i \in Slots /\ \A j \in Slots : keyfile'[j] = IF j = i THEN NoPath ELSE keyfile[j]
    BY <2>1
  <2>3. \A j \in cmd.todo : First(j, cmd.todo) => j = i
    BY <2>1 DEF First, Slots
  <2>4. cmd'.pc = "rmwrap" /\ cmd'.todo = cmd.todo
    BY <1>10 DEF RemoveConf
  <2>5. QED
    BY <1>10, <2>1, <2>2, <2>3, <2>4 DEF RemoveConf
<1>11. CASE RemoveWrap
  <2>1. PICK i \in cmd.todo :
          /\ First(i, cmd.todo)
          /\ wrap' = [wrap EXCEPT ![i] = NoWrap]
          /\ cmd' = IF cmd.todo = {i} THEN Idle
                    ELSE [cmd EXCEPT !.pc = "rmconf", !.todo = cmd.todo \ {i}]
    BY <1>11 DEF RemoveWrap
  <2>2. i \in Slots /\ keyfile[i] = NoPath
    BY <1>11, <2>1 DEF RemoveWrap
  <2>3. \A j \in Slots : j # i => wrap'[j] = wrap[j]
    BY <2>1, <2>2
  <2>4. CASE cmd.todo = {i}
    BY <1>11, <2>1, <2>2, <2>3, <2>4 DEF RemoveWrap, Idle
  <2>5. CASE cmd.todo # {i}
    <3>1. cmd'.pc = "rmconf" /\ cmd'.todo = cmd.todo \ {i} /\ cmd'.todo # {}
      BY <2>1, <2>5
    <3>2. QED
      BY <1>11, <2>2, <2>3, <3>1 DEF RemoveWrap
  <2>6. QED
    BY <2>4, <2>5
<1>12. ASSUME NEW p \in Paths, NEW k \in Keys \cup {NoKey}, Media(p, k) PROVE StoreInv'
  BY <1>12 DEF Media, First
<1>13. CASE UNCHANGED vars
  BY <1>13 DEF vars, First
<1>14. QED
  BY <1>1, <1>2, <1>3, <1>4, <1>5, <1>6, <1>7, <1>8, <1>9, <1>10, <1>11, <1>12, <1>13
     DEF Next

LEMMA StoreInvariant ==
  ASSUME "remove" \notin WriteFaults
  PROVE  Spec => [](TypeInv /\ StoreInv)
<1>1. TypeInv /\ StoreInv /\ [Next]_vars => (TypeInv /\ StoreInv)'
  BY TypeInvNext, StoreInvNext
<1>2. QED
  BY TypeInvInit, StoreInvInit, <1>1, PTL DEF Spec

(* Crash or not, every auth.conf line has its wrap: the order of enroll.c's *)
(* writes, wrap before line and line before unlink, is what guarantees it.  *)
THEOREM LinesHaveWraps ==
  ASSUME "remove" \notin WriteFaults
  PROVE  Spec => []EnrolledHasWrap
<1>1. StoreInv => EnrolledHasWrap
  BY DEF StoreInv, LinesWrapped, EnrolledHasWrap, Enrolled
<1>2. QED
  BY StoreInvariant, <1>1, PTL

(* An enrolled, wrapped slot is a factor. *)
LEMMA LineIsFactor ==
  ASSUME TypeInv, StoreInv, NEW i \in Slots, keyfile[i] # NoPath
  PROVE  <<keyfile[i], wrap[i].key>> \in Factors
<1>1. keyfile[i] \in Paths /\ wrap[i].key \in Keys
  BY DEF TypeInv, TypeOK, StoreInv, LinesWrapped
<1>2. QED
  BY <1>1 DEF Factors, Opens

LEMMA InvGivesKey == TypeInv /\ StoreInv => GateHasKey
  BY LineIsFactor DEF StoreInv, ArmedHasLine, GateHasKey

(* An armed gate can always be opened by some key file: no sequence of      *)
(* enrolments, removals, arming, swaps of media and crashes arms the gate   *)
(* with nothing to open it, or removes the last factor of an armed gate.    *)
THEOREM GateStaysOpenable ==
  ASSUME "remove" \notin WriteFaults
  PROVE  Spec => []GateHasKey
  BY StoreInvariant, InvGivesKey, PTL

TotpInv == /\ totp => seed \in Masters
           /\ cmd.pc = "totp" => seed \in Masters

(* totp=yes is never in auth.conf without a seed in totp.wrap, whatever     *)
(* fails and wherever the enrolment is cut off.                             *)
THEOREM TotpAlwaysHasSeed == Spec => []TotpHasSeed
<1>1. Init => TotpInv
  BY DEF Init, TotpInv, Idle
<1>2. TypeInv /\ TotpInv /\ [Next]_vars => TotpInv'
  <2> SUFFICES ASSUME TypeInv, TotpInv, [Next]_vars PROVE TotpInv'
    OBVIOUS
  <2> USE DEF TotpInv, Idle
  <2>1. ASSUME NEW p \in Paths, EnrollKeyfile(p) PROVE TotpInv'
    <3>1. cmd'.pc = "wrap"
      BY <2>1 DEF EnrollKeyfile
    <3>2. QED
      BY <2>1, <3>1 DEF EnrollKeyfile
  <2>2. CASE WriteWrap \/ ConfSetKeyfile
    BY <2>2 DEF WriteWrap, ConfSetKeyfile, TypeInv, TypeOK, Commands
  <2>3. CASE WriteWrapFails \/ ArmGate \/ ConfSetFails \/ Crash
    BY <2>3 DEF WriteWrapFails, ArmGate, ConfSetFails, Crash
  <2>4. CASE EnrollTotp
    BY <2>4 DEF EnrollTotp
  <2>5. CASE WriteSeed
    BY <2>5 DEF WriteSeed, TypeInv, CmdLocals
  <2>6. CASE ConfSetTotp
    BY <2>6 DEF ConfSetTotp
  <2>7. CASE RemoveTotp \/ AutologinOff \/ AutologinOn
    BY <2>7 DEF RemoveTotp, AutologinOff, AutologinOn
  <2>8. ASSUME NEW S \in {Slots} \cup {{i} : i \in Slots}, RemoveKeyfile(S) PROVE TotpInv'
    BY <2>8 DEF RemoveKeyfile
  <2>9. CASE RemoveConf
    BY <2>9 DEF RemoveConf, TypeInv, TypeOK, Commands
  <2>10. CASE RemoveWrap
    BY <2>10 DEF RemoveWrap, TypeInv, TypeOK, Commands
  <2>11. ASSUME NEW p \in Paths, NEW k \in Keys \cup {NoKey}, Media(p, k) PROVE TotpInv'
    BY <2>11 DEF Media
  <2>12. CASE UNCHANGED vars
    BY <2>12 DEF vars
  <2>13. QED
    BY <2>1, <2>2, <2>3, <2>4, <2>5, <2>6, <2>7, <2>8, <2>9, <2>10, <2>11, <2>12 DEF Next
<1>3. TotpInv => TotpHasSeed
  BY StoreAssumption DEF TotpInv, TotpHasSeed, Masters, NoSeed
<1>4. QED
  BY TypeInvInit, TypeInvNext, <1>1, <1>2, <1>3, PTL DEF Spec
-----------------------------------------------------------------------------
(* How each step changes the set of factors.                                *)

LEMMA FactorsMember ==
  ASSUME NEW p \in Paths, NEW k \in Keys
  PROVE  <<p, k>> \in Factors <=> \E i \in Slots : keyfile[i] = p /\ wrap[i].key = k
  BY DEF Factors, Opens

LEMMA FactorsUnchanged ==
  ASSUME UNCHANGED <<keyfile, wrap>>
  PROVE  Factors' = Factors
  BY DEF Factors, Opens

(* Rewrapping a free slot changes no factor; rewrapping the path's own slot *)
(* adds the new bytes and loses at most factors of that path.               *)
LEMMA FactorsWriteWrap ==
  ASSUME TypeInv, StoreInv, WriteWrap
  PROVE  /\ cmd.path \in Paths /\ file[cmd.path] \in Keys
         /\ \A f \in Factors : f[1] # cmd.path => f \in Factors'
         /\ Factors' \subseteq Factors \cup {<<cmd.path, file[cmd.path]>>}
         /\ keyfile[cmd.slot] = NoPath => Factors' = Factors
         /\ keyfile[cmd.slot] # NoPath => <<cmd.path, file[cmd.path]>> \in Factors'
<1> USE DEF TypeInv, TypeOK, CmdLocals
<1>1. cmd.path \in Paths /\ cmd.slot \in Slots /\ file[cmd.path] \in Keys
  BY DEF WriteWrap
<1>2. \A i \in Slots : wrap'[i].key = IF i = cmd.slot THEN file[cmd.path] ELSE wrap[i].key
  BY <1>1 DEF WriteWrap
<1>3. keyfile' = keyfile /\ keyfile[cmd.slot] \in {NoPath, cmd.path}
  BY DEF WriteWrap, StoreInv, EnrolUnderWay
<1>4. \A f \in Factors : f[1] # cmd.path => f \in Factors'
  BY <1>1, <1>2, <1>3, StoreAssumption DEF Factors, Opens
<1>5. Factors' \subseteq Factors \cup {<<cmd.path, file[cmd.path]>>}
  BY <1>1, <1>2, <1>3, StoreAssumption DEF Factors, Opens
<1>6. keyfile[cmd.slot] = NoPath => Factors' = Factors
  BY <1>1, <1>2, <1>3, StoreAssumption DEF Factors, Opens
<1>7. keyfile[cmd.slot] # NoPath => <<cmd.path, file[cmd.path]>> \in Factors'
  BY <1>1, <1>2, <1>3 DEF Factors, Opens
<1>8. QED
  BY <1>1, <1>4, <1>5, <1>6, <1>7

(* Listing the slot adds exactly the factor its wrap was made for. *)
LEMMA FactorsConfSet ==
  ASSUME TypeInv, StoreInv, ConfSetKeyfile
  PROVE  /\ cmd.path \in Paths /\ wrap[cmd.slot].key \in Keys
         /\ Factors' = Factors \cup {<<cmd.path, wrap[cmd.slot].key>>}
<1> USE DEF TypeInv, TypeOK, CmdLocals
<1>1. cmd.path \in Paths /\ cmd.slot \in Slots /\ wrap[cmd.slot].key \in Keys
  BY DEF ConfSetKeyfile, StoreInv, EnrolUnderWay
<1>2. \A i \in Slots : keyfile'[i] = IF i = cmd.slot THEN cmd.path ELSE keyfile[i]
  BY <1>1 DEF ConfSetKeyfile
<1>3. wrap' = wrap /\ keyfile[cmd.slot] \in {NoPath, cmd.path}
  BY DEF ConfSetKeyfile, StoreInv, EnrolUnderWay
<1>4. Factors' \subseteq Factors \cup {<<cmd.path, wrap[cmd.slot].key>>}
  BY <1>1, <1>2, <1>3 DEF Factors, Opens
<1>5. Factors \subseteq Factors'
  BY <1>1, <1>2, <1>3, StoreAssumption DEF Factors, Opens
<1>6. <<cmd.path, wrap[cmd.slot].key>> \in Factors'
  BY <1>1, <1>2, <1>3 DEF Factors, Opens
<1>7. QED
  BY <1>1, <1>4, <1>5, <1>6

(* Deleting a line loses at most the factor of that slot; the unlink that   *)
(* follows loses nothing more.                                              *)
LEMMA FactorsRemoveConf ==
  ASSUME "remove" \notin WriteFaults, TypeInv, StoreInv, RemoveConf
  PROVE  Factors' = Factors \/ \E f \in Factors : Factors' = Factors \ {f}
<1> USE DEF TypeInv, TypeOK
<1>1. PICK i \in cmd.todo : keyfile' = [keyfile EXCEPT ![i] = NoPath]
  BY DEF RemoveConf
<1>2. /\ i \in Slots /\ wrap' = wrap
      /\ \A j \in Slots : keyfile'[j] = IF j = i THEN NoPath ELSE keyfile[j]
  BY <1>1 DEF RemoveConf, Commands
<1>3. Factors' \subseteq Factors
  BY <1>2, StoreAssumption DEF Factors, Opens
<1>4. \A f \in Factors : f \notin Factors' => f = <<keyfile[i], wrap[i].key>>
  BY <1>2 DEF Factors, Opens
<1>5. CASE Factors \subseteq Factors'
  BY <1>3, <1>5
<1>6. ASSUME NEW f \in Factors, f \notin Factors' PROVE Factors' = Factors \ {f}
  BY <1>3, <1>4, <1>6
<1>7. QED
  BY <1>5, <1>6

LEMMA FactorsRemoveWrap ==
  ASSUME TypeInv, StoreInv, RemoveWrap
  PROVE  Factors' = Factors
<1> USE DEF TypeInv, TypeOK
<1>1. PICK i \in cmd.todo : First(i, cmd.todo) /\ wrap' = [wrap EXCEPT ![i] = NoWrap]
  BY DEF RemoveWrap
<1>2. /\ i \in Slots /\ keyfile[i] = NoPath /\ keyfile' = keyfile
      /\ \A j \in Slots : j # i => wrap'[j] = wrap[j]
  BY <1>1 DEF RemoveWrap, Commands, StoreInv, RemovalUnderWay
<1>3. \A j \in Slots : \A q \in Paths : \A k \in Keys :
        Opens(j, q, k)' <=> Opens(j, q, k)
  BY <1>2, StoreAssumption DEF Opens
<1>4. QED
  BY <1>3 DEF Factors

-----------------------------------------------------------------------------
(* Enrolling never costs a factor of another path: outside `remove', a      *)
(* factor is lost only when its own path is enrolled again.                 *)
THEOREM EnrolKeepsOtherPaths ==
  ASSUME "remove" \notin WriteFaults
  PROVE  Spec => OtherPathsKept
<1>1. TypeInv /\ StoreInv /\ [Next]_vars => [FactorsKept]_vars
  <2> SUFFICES ASSUME TypeInv, StoreInv, Next PROVE FactorsKept
    OBVIOUS
  <2> USE DEF FactorsKept
  <2>1. CASE UNCHANGED <<keyfile, wrap>>
    BY <2>1, FactorsUnchanged
  <2>2. CASE WriteWrap
    BY <2>2, FactorsWriteWrap DEF WriteWrap
  <2>3. CASE ConfSetKeyfile
    BY <2>3, FactorsConfSet
  <2>4. CASE RemoveConf \/ RemoveWrap
    BY <2>4 DEF RemoveConf, RemoveWrap
  <2>5. QED
    BY <2>1, <2>2, <2>3, <2>4 DEF Next, EnrollKeyfile, WriteWrapFails, ArmGate,
       ConfSetFails, EnrollTotp, WriteSeed, ConfSetTotp, RemoveTotp, AutologinOff,
       AutologinOn, RemoveKeyfile, Media, Crash
<1>2. QED
  BY StoreInvariant, <1>1, PTL DEF Spec, OtherPathsKept

(* The store with its slots, lines, wraps and non-atomic commands           *)
(* implements the abstract key slots: factors are only added, replaced on   *)
(* their own path or revoked, and an armed gate always keeps one.           *)
THEOREM StoreImplementsKeySlots ==
  ASSUME "remove" \notin WriteFaults
  PROVE  Spec => ImplementsKeySlots
<1> DEFINE Step == [Abstract!Next]_(Abstract!slotVars)
<1>1. Init => Abstract!Init
  <2> SUFFICES ASSUME Init PROVE Abstract!Init
    OBVIOUS
  <2>1. Factors = {}
    BY StoreAssumption DEF Init, Factors, Opens
  <2>2. QED
    BY <2>1 DEF Init, Abstract!Init
<1>2. TypeInv /\ StoreInv /\ TypeInv' /\ StoreInv' /\ [Next]_vars => Step
  <2> SUFFICES ASSUME TypeInv, StoreInv, TypeInv', StoreInv', [Next]_vars PROVE Step
    OBVIOUS
  <2> USE DEF Abstract!slotVars
  <2>0. GateHasKey'
    BY InvGivesKey, PTL
  <2>1. CASE UNCHANGED <<keyfile, wrap, autologin>>
    BY <2>1, FactorsUnchanged
  <2>2. CASE WriteWrap
    <3>1. UNCHANGED autologin
      BY <2>2 DEF WriteWrap
    <3>2. CASE keyfile[cmd.slot] = NoPath
      BY <2>2, <3>1, <3>2, FactorsWriteWrap
    <3>3. CASE keyfile[cmd.slot] # NoPath
      <4> DEFINE p == cmd.path
                 k == file[cmd.path]
                 gone == {f \in Factors : f[1] = p /\ f \notin Factors'}
      <4>1. Factors' = (Factors \ gone) \cup {<<p, k>>}
        BY <2>2, <3>3, FactorsWriteWrap
      <4>2. gone \in SUBSET {f \in Factors : f[1] = p}
        OBVIOUS
      <4>3. Abstract!Replace(p, k)
        BY <3>1, <4>1, <4>2 DEF Abstract!Replace
      <4>4. QED
        BY <2>2, <4>3, FactorsWriteWrap DEF Abstract!Next
    <3>4. QED
      BY <3>2, <3>3
  <2>3. CASE ConfSetKeyfile
    <3>1. Abstract!Enrol(cmd.path, wrap[cmd.slot].key)
      BY <2>3, FactorsConfSet DEF Abstract!Enrol, ConfSetKeyfile
    <3>2. QED
      BY <2>3, <3>1, FactorsConfSet DEF Abstract!Next
  <2>4. CASE ArmGate \/ AutologinOff
    <3>1. Factors' = Factors
      BY <2>4, FactorsUnchanged DEF ArmGate, AutologinOff
    <3>2. CASE autologin' = "off"
      <4>1. GateHasKey'
        BY <2>0
      <4>2. Abstract!Arm
        BY <3>1, <3>2, <4>1 DEF Abstract!Arm, GateHasKey
      <4>3. QED
        BY <4>2 DEF Abstract!Next
    <3>3. CASE autologin' # "off"
      BY <2>4, <3>1, <3>3 DEF ArmGate, AutologinOff
    <3>4. QED
      BY <3>2, <3>3
  <2>5. CASE AutologinOn
    <3>1. Abstract!Disarm
      BY <2>5, FactorsUnchanged DEF AutologinOn, Abstract!Disarm
    <3>2. QED
      BY <3>1 DEF Abstract!Next
  <2>6. CASE RemoveConf
    <3>1. UNCHANGED autologin
      BY <2>6 DEF RemoveConf
    <3>2. CASE Factors' = Factors
      BY <3>1, <3>2
    <3>3. ASSUME NEW f \in Factors, Factors' = Factors \ {f} PROVE Step
      <4>1. autologin = "off" => Factors' # {}
        BY <2>0, <3>1 DEF GateHasKey
      <4>2. Abstract!Revoke(f)
        BY <3>1, <3>3, <4>1 DEF Abstract!Revoke
      <4>3. QED
        BY <4>2 DEF Abstract!Next
    <3>4. QED
      BY <2>6, <3>2, <3>3, FactorsRemoveConf
  <2>7. CASE RemoveWrap
    BY <2>7, FactorsRemoveWrap DEF RemoveWrap
  <2>8. CASE UNCHANGED vars
    BY <2>8, FactorsUnchanged DEF vars
  <2>9. QED
    BY <2>1, <2>2, <2>3, <2>4, <2>5, <2>6, <2>7, <2>8 DEF Next, EnrollKeyfile,
       WriteWrapFails, ConfSetFails, EnrollTotp, WriteSeed, ConfSetTotp, RemoveTotp,
       RemoveKeyfile, Media, Crash
<1>3. QED
  BY StoreInvariant, <1>1, <1>2, PTL DEF Spec, ImplementsKeySlots, Abstract!Spec

=============================================================================
