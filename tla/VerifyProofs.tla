---------------------------- MODULE VerifyProofs ----------------------------
(***************************************************************************)
(* The two promises of veron_verify, proved for every set of processes,     *)
(* every number of time steps and every number of enrolled seeds.           *)
(*                                                                          *)
(* Both hold however attempts, enrolments and removals interleave, writes   *)
(* fail and the power goes.  The last accepted step is read, tested and     *)
(* rewritten without a lock, and the file is truncated before it is         *)
(* written, so that a code can be used twice; ReplayInv says that the       *)
(* windows this opens are the only ways.  An accepted code that was not     *)
(* exposed by one of them is covered by the file, unless a write has        *)
(* emptied it, and every attempt past its comparison holds a later one.     *)
(***************************************************************************)
EXTENDS Verify, TLAPS

\* What an attempt owes is still enrolled, and one that has come to the card has
\* satisfied the code, if it owes it.
FactorInv ==
  \A p \in Procs :
    /\ att[p].pc # "idle" => att[p].res = "none"
    /\ "totp" \in att[p].need => totp
    /\ "card" \in att[p].need => card
    /\ att[p].need \subseteq Factor
    /\ att[p].pc = "card" /\ "totp" \in att[p].need => "totp" \in att[p].got

\* The attempt has compared its code and is about to write.
Past(p) == att[p].pc \in {"open", "record"}

\* The accepted codes that no race uncovered.
Clean == used \ exposed

\* Seeds are shown after they are made, and only codes of shown ones are typed.
SeedInv ==
  /\ shown <= gen /\ (enrol \in {"state", "conf"} => shown < gen)
  /\ \A c \in used : c[1] <= shown
  /\ \A p \in Procs : att[p].code[1] <= shown
  /\ \A p \in Procs : att[p].pc = "check" \/ Past(p) => att[p].seed # 0
  /\ \A p \in Procs : Past(p) => att[p].code[1] = att[p].seed

\* The file covers the clean codes of the present seed, unless it was emptied.
FileInv == ~cut => \A c \in Clean : c[1] = gen => c[2] <= state

\* Whoever is about to write holds no clean code, and one later than those of the
\* present seed.
LaterInv ==
  \A p \in Procs, c \in Clean :
    Past(p) => att[p].code # c /\ (c[1] = gen => c[2] < att[p].code[2])

ReplayInv == SeedInv /\ FileInv /\ LaterInv

\* The attempts that begin or are over.
LEMMA AttemptTypes ==
  /\ Fresh \in Attempts /\ [Fresh EXCEPT !.res = "no"] \in Attempts
  /\ [Fresh EXCEPT !.res = "ok"] \in Attempts
BY DEF Fresh, Attempts

\* An attempt goes on.
LEMMA Moved ==
  ASSUME NEW a \in Attempts, NEW x \in {"idle", "totp", "check", "open", "record", "card"}
  PROVE  [a EXCEPT !.pc = x] \in Attempts
BY DEF Attempts

\* The types hold at the start.
LEMMA TypeInit == Init => TypeOK
<1> SUFFICES ASSUME Init PROVE TypeOK
  OBVIOUS
<1>1. att \in [Procs -> Attempts]
  BY AttemptTypes DEF Init
<1> QED
  BY <1>1 DEF Init, TypeOK

\* Every step keeps the types.
LEMMA TypeNext == TypeOK /\ [Next]_vars => TypeOK'
<1> SUFFICES ASSUME TypeOK, [Next]_vars PROVE TypeOK'
  OBVIOUS
<1> USE VerifyAssumption
<1>1. ASSUME NEW p \in Procs, NEW c \in Codes \cup {NoCode},
             NEW key \in BOOLEAN, NEW cardIn \in BOOLEAN, Begin(p, c, key, cardIn)
      PROVE  TypeOK'
  <2> DEFINE n == (IF totp THEN {"totp"} ELSE {}) \cup (IF card THEN {"card"} ELSE {})
             g == IF card /\ cardIn THEN {"card"} ELSE {}
  <2>1. n \in SUBSET Factor /\ g \in SUBSET Factor
    BY DEF Factor
  <2> HIDE DEF n, g
  <2>2. [Fresh EXCEPT !.pc = "totp", !.code = c, !.need = n, !.got = g] \in Attempts
    BY <2>1 DEF Fresh, Attempts
  <2>3. \E a \in Attempts : att' = [att EXCEPT ![p] = a]
    BY <1>1, <2>2, AttemptTypes DEF Begin, n, g
  <2>4. att' \in [Procs -> Attempts]
    BY <2>3 DEF TypeOK
  <2> QED
    BY <1>1, <2>4 DEF Begin, store, hist, TypeOK
<1>2. ASSUME NEW p \in Procs, NoTotp(p) PROVE TypeOK'
  <2>1. att' = [att EXCEPT ![p] = [att[p] EXCEPT !.pc = "card"]]
    BY <1>2 DEF NoTotp, TypeOK
  <2>2. att' \in [Procs -> Attempts]
    BY <2>1, Moved DEF TypeOK
  <2> QED
    BY <1>2, <2>2 DEF NoTotp, TypeOK, store, hist
<1>3. ASSUME NEW p \in Procs, ReadSeed(p) PROVE TypeOK'
  BY <1>3, AttemptTypes, SMTT(30) DEF ReadSeed, Refuse, TypeOK, store, hist, Attempts
<1>4. ASSUME NEW p \in Procs, NEW now \in Steps, CheckTotp(p, now) PROVE TypeOK'
  <2>1. \/ att' = [att EXCEPT ![p] = [att[p] EXCEPT !.pc = "open"]]
        \/ att' = [att EXCEPT ![p] = [Fresh EXCEPT !.res = "no"]]
    BY <1>4 DEF CheckTotp, Refuse, TypeOK
  <2>2. att' \in [Procs -> Attempts]
    <3>1. att[p] \in Attempts
      BY DEF TypeOK
    <3>2. [att[p] EXCEPT !.pc = "open"] \in Attempts
      BY <3>1, Moved
    <3> QED BY <2>1, <3>2, AttemptTypes DEF TypeOK
  <2>3. exposed' \subseteq used
    BY <1>4 DEF CheckTotp, Uncovered, TypeOK
  <2> QED
    BY <1>4, <2>2, <2>3 DEF CheckTotp, TypeOK, store
<1>5. ASSUME NEW p \in Procs, OpenState(p) PROVE TypeOK'
  <2>1. \/ att' = [att EXCEPT ![p] = [att[p] EXCEPT !.pc = "record"]]
        \/ att' = [att EXCEPT ![p] = [Fresh EXCEPT !.res = "no"]]
    BY <1>5 DEF OpenState, Refuse, TypeOK
  <2>2. att[p] \in Attempts
    BY DEF TypeOK
  <2>3. [att[p] EXCEPT !.pc = "record"] \in Attempts
    BY <2>2, Moved
  <2>4. att' \in [Procs -> Attempts]
    BY <2>1, <2>3, AttemptTypes DEF TypeOK
  <2> QED BY <1>5, <2>4 DEF OpenState, TypeOK
<1>6. ASSUME NEW p \in Procs, Record(p) PROVE TypeOK'
  <2> DEFINE a == [att[p] EXCEPT !.pc = "card", !.got = @ \cup {"totp"}]
  <2>1. att[p] \in Attempts
    BY DEF TypeOK
  <2>2. a \in Attempts
    BY <2>1 DEF Attempts, Factor
  <2>3. att[p].code \in Codes \cup {NoCode}
    BY <2>1 DEF Attempts
  <2>4. att[p].code[2] \in Steps \cup {0}
    BY <2>3 DEF Codes, NoCode
  <2>5. CASE /\ state' = att[p].code[2] /\ cut' = FALSE
             /\ used' = used \cup {att[p].code}
             /\ exposed' = exposed \cup (IF Raced(p) THEN {att[p].code} ELSE {})
             /\ att' = [att EXCEPT ![p] = a]
    <3>1. att' \in [Procs -> Attempts]
      BY <2>2, <2>5 DEF TypeOK
    <3>2. used' \subseteq Codes \cup {NoCode} /\ exposed' \subseteq used'
      BY <2>3, <2>5 DEF TypeOK
    <3>3. UNCHANGED <<totp, card, gen, shown, enrol>>
      BY <1>6 DEF Record
    <3>4. state' \in Steps \cup {0} /\ cut' \in BOOLEAN
      BY <2>4, <2>5
    <3> QED
      BY <3>1, <3>2, <3>3, <3>4 DEF TypeOK
  <2>6. CASE Refuse(p) /\ UNCHANGED <<state, hist>>
    <3>1. att' \in [Procs -> Attempts]
      BY <2>6, AttemptTypes DEF Refuse, TypeOK
    <3> QED
      BY <1>6, <2>6, <3>1 DEF Record, TypeOK, hist
  <2> QED
    BY <1>6, <2>5, <2>6 DEF Record, TypeOK
<1>7. ASSUME NEW p \in Procs, Finish(p) PROVE TypeOK'
  BY <1>7, AttemptTypes DEF Finish, Refuse, TypeOK, store, hist
<1>8. CASE EnrollTotp \/ ResetState \/ ConfSetTotp \/ EnrollCard
  BY <1>8 DEF EnrollTotp, ResetState, ConfSetTotp, EnrollCard, TypeOK, hist
<1>9. CASE WriteSeed
  BY <1>9 DEF WriteSeed, TypeOK, hist, Gens
<1>10. ASSUME NEW f \in Factor, Forgive(f) PROVE att' \in [Procs -> Attempts]
  <2>1. \A p \in Procs : [att[p] EXCEPT !.need = att[p].need \ {f}] \in Attempts
    BY DEF TypeOK, Attempts
  <2> QED BY <1>10, <2>1 DEF Forgive
<1>11. CASE RemoveTotp
  BY <1>10, <1>11 DEF RemoveTotp, TypeOK, hist, Factor
<1>12. CASE RemoveCard
  BY <1>10, <1>12 DEF RemoveCard, TypeOK, hist, Factor
<1>14. CASE PowerLoss
  BY <1>14, AttemptTypes DEF PowerLoss, TypeOK, hist
<1>15. CASE UNCHANGED vars
  BY <1>15 DEF vars, TypeOK
<1> QED
  BY <1>1, <1>2, <1>3, <1>4, <1>5, <1>6, <1>7, <1>8, <1>9, <1>11, <1>12, <1>14, <1>15
     DEF Next

-----------------------------------------------------------------------------
\* At the start no attempt is under way.
LEMMA FactorInit == Init => FactorInv
<1>1. Init => \A p \in Procs : att[p] = Fresh
  BY DEF Init
<1>2. Fresh.pc = "idle" /\ Fresh.need = {}
  BY DEF Fresh
<1> QED BY <1>1, <1>2 DEF FactorInv

\* A step of one process that leaves the policy alone is judged by its attempt.
LEMMA OneChanged ==
  ASSUME TypeOK, FactorInv, NEW p \in Procs, UNCHANGED <<totp, card>>,
         NEW a, a.need \subseteq Factor, att' = [att EXCEPT ![p] = a],
         a.pc # "idle" => a.res = "none",
         "totp" \in a.need => totp, "card" \in a.need => card,
         a.pc = "card" /\ "totp" \in a.need => "totp" \in a.got
  PROVE  FactorInv'
<1>1. \A q \in Procs : att'[q] = IF q = p THEN a ELSE att[q]
  BY DEF TypeOK
<1> QED
  BY <1>1 DEF FactorInv

\* Every step keeps it: an attempt owes the code only while totp=yes stays, and then
\* comes to the card through Record.
LEMMA FactorNext == TypeOK /\ FactorInv /\ [Next]_vars => FactorInv'
<1> SUFFICES ASSUME TypeOK, FactorInv, [Next]_vars PROVE FactorInv'
  OBVIOUS
<1> DEFINE no == [Fresh EXCEPT !.res = "no"]
<1>0. ASSUME NEW p \in Procs, Refuse(p), UNCHANGED <<totp, card>> PROVE FactorInv'
  <2>1. no.pc = "idle" /\ no.need = {}
    BY DEF Fresh
  <2>2. att' = [att EXCEPT ![p] = no]
    BY <1>0 DEF Refuse
  <2> HIDE DEF no
  <2> QED BY <1>0, <2>1, <2>2, OneChanged
<1>a. ASSUME NEW p \in Procs PROVE att[p] \in Attempts
  BY DEF TypeOK
<1>1. ASSUME NEW p \in Procs, NEW c \in Codes \cup {NoCode},
             NEW key \in BOOLEAN, NEW cardIn \in BOOLEAN, Begin(p, c, key, cardIn)
      PROVE  FactorInv'
  <2>0. UNCHANGED <<totp, card>>
    BY <1>1 DEF Begin, store, hist
  <2>1. CASE ~key
    BY <1>0, <1>1, <2>0, <2>1 DEF Begin, Refuse
  <2>2. CASE key
    <3> DEFINE n == (IF totp THEN {"totp"} ELSE {}) \cup (IF card THEN {"card"} ELSE {})
               g == IF card /\ cardIn THEN {"card"} ELSE {}
               a == [Fresh EXCEPT !.pc = "totp", !.code = c, !.need = n, !.got = g]
    <3>1. n \subseteq Factor /\ ("totp" \in n => totp) /\ ("card" \in n => card)
      BY DEF Factor
    <3>2. att' = [att EXCEPT ![p] = a]
      BY <1>1, <2>2 DEF Begin
    <3> HIDE DEF n, g
    <3>3. a.pc = "totp" /\ a.res = "none" /\ a.need = n
      BY DEF Fresh
    <3> HIDE DEF a
    <3> QED BY <2>0, <3>1, <3>2, <3>3, OneChanged
  <2> QED BY <2>1, <2>2
<1>2. ASSUME NEW p \in Procs, NEW x \in {"check", "open", "record", "card"}, NEW a \in Attempts,
             a.pc = x, a.need = att[p].need, a.res = att[p].res, att[p].pc # "idle",
             x = "card" /\ "totp" \in a.need => "totp" \in a.got,
             att' = [att EXCEPT ![p] = a], UNCHANGED <<totp, card>>
      PROVE  FactorInv'
  BY <1>2, OneChanged DEF FactorInv
<1>3. ASSUME NEW p \in Procs, NoTotp(p) PROVE FactorInv'
  <2> DEFINE a == [att[p] EXCEPT !.pc = "card"]
  <2>1. /\ a \in Attempts /\ a.pc = "card" /\ a.need = att[p].need /\ a.res = att[p].res
        /\ att' = [att EXCEPT ![p] = a]
    BY <1>3, <1>a DEF NoTotp, TypeOK, Attempts
  <2>2. "totp" \notin a.need
    BY <1>3, <2>1 DEF NoTotp, FactorInv
  <2> HIDE DEF a
  <2> QED BY <1>2, <1>3, <2>1, <2>2 DEF NoTotp, store, hist
<1>4. ASSUME NEW p \in Procs, ReadSeed(p) PROVE FactorInv'
  <2>1. CASE gen = 0
    BY <1>0, <1>4, <2>1 DEF ReadSeed, store, hist
  <2>2. CASE gen # 0
    <3> DEFINE a == [att[p] EXCEPT !.pc = "check", !.seed = gen]
    <3>1. /\ a \in Attempts /\ a.pc = "check" /\ a.need = att[p].need /\ a.res = att[p].res
          /\ att' = [att EXCEPT ![p] = a]
      BY <1>4, <1>a, <2>2 DEF ReadSeed, TypeOK, Attempts
    <3> HIDE DEF a
    <3> QED BY <1>2, <1>4, <3>1 DEF ReadSeed, store, hist
  <2> QED BY <2>1, <2>2
<1>5. ASSUME NEW p \in Procs, NEW now \in Steps, CheckTotp(p, now) PROVE FactorInv'
  <2>1. CASE Refuse(p)
    BY <1>0, <1>5, <2>1 DEF CheckTotp, store, hist
  <2>2. CASE ~Refuse(p)
    <3> DEFINE a == [att[p] EXCEPT !.pc = "open"]
    <3>1. /\ a \in Attempts /\ a.pc = "open" /\ a.need = att[p].need /\ a.res = att[p].res
          /\ att' = [att EXCEPT ![p] = a]
      BY <1>5, <1>a, <2>2 DEF CheckTotp, TypeOK, Attempts
    <3> HIDE DEF a
    <3> QED BY <1>2, <1>5, <3>1 DEF CheckTotp, store, hist
  <2> QED BY <2>1, <2>2
<1>6. ASSUME NEW p \in Procs, OpenState(p) PROVE FactorInv'
  <2>1. CASE Refuse(p)
    BY <1>0, <1>6, <2>1 DEF OpenState
  <2>2. CASE ~Refuse(p)
    <3> DEFINE a == [att[p] EXCEPT !.pc = "record"]
    <3>1. /\ a \in Attempts /\ a.pc = "record" /\ a.need = att[p].need /\ a.res = att[p].res
          /\ att' = [att EXCEPT ![p] = a]
      BY <1>6, <1>a, <2>2 DEF OpenState, TypeOK, Attempts
    <3> HIDE DEF a
    <3> QED BY <1>2, <1>6, <3>1 DEF OpenState
  <2> QED BY <2>1, <2>2
<1>7. ASSUME NEW p \in Procs, Record(p) PROVE FactorInv'
  <2>1. CASE Refuse(p)
    BY <1>0, <1>7, <2>1 DEF Record
  <2>2. CASE ~Refuse(p)
    <3> DEFINE a == [att[p] EXCEPT !.pc = "card", !.got = att[p].got \cup {"totp"}]
    <3>1. /\ a \in Attempts /\ a.pc = "card" /\ a.need = att[p].need /\ a.res = att[p].res
          /\ "totp" \in a.got
      BY <1>a DEF Attempts, Factor
    <3>2. att' = [att EXCEPT ![p].pc = "card", ![p].got = @ \cup {"totp"}]
      BY <1>7, <2>2 DEF Record
    <3>3. att' = [att EXCEPT ![p] = a]
      BY <1>a, <3>2 DEF TypeOK, Attempts
    <3> HIDE DEF a
    <3> QED BY <1>2, <1>7, <3>1, <3>3 DEF Record
  <2> QED BY <2>1, <2>2
<1>8. ASSUME NEW p \in Procs, Finish(p) PROVE FactorInv'
  <2>1. CASE Refuse(p)
    BY <1>0, <1>8, <2>1 DEF Finish, store, hist
  <2>2. CASE ~Refuse(p)
    <3> DEFINE yes == [Fresh EXCEPT !.res = "ok"]
    <3>1. yes.pc = "idle" /\ yes.need = {}
      BY DEF Fresh
    <3>2. att' = [att EXCEPT ![p] = yes]
      BY <1>8, <2>2 DEF Finish
    <3> HIDE DEF yes
    <3> QED BY <1>8, <3>1, <3>2, OneChanged DEF Finish, store, hist
  <2> QED BY <2>1, <2>2
<1>9. CASE EnrollTotp \/ ResetState \/ WriteSeed
  BY <1>9 DEF EnrollTotp, ResetState, WriteSeed, FactorInv
<1>10. CASE ConfSetTotp \/ EnrollCard
  BY <1>10 DEF ConfSetTotp, EnrollCard, FactorInv
<1>11. ASSUME NEW f \in Factor, Forgive(f)
       PROVE  \A p \in Procs : /\ att'[p].need = att[p].need \ {f} /\ att'[p].got = att[p].got
                               /\ att'[p].pc = att[p].pc /\ att'[p].res = att[p].res
  BY <1>11, <1>a DEF Forgive, Attempts
<1>12. CASE RemoveTotp
  <2>1. \A p \in Procs : /\ att'[p].need = att[p].need \ {"totp"} /\ att'[p].got = att[p].got
                         /\ att'[p].pc = att[p].pc /\ att'[p].res = att[p].res
    BY <1>11, <1>12 DEF RemoveTotp, Factor
  <2> QED BY <1>12, <2>1 DEF RemoveTotp, FactorInv
<1>13. CASE RemoveCard
  <2>1. \A p \in Procs : /\ att'[p].need = att[p].need \ {"card"} /\ att'[p].got = att[p].got
                         /\ att'[p].pc = att[p].pc /\ att'[p].res = att[p].res
    BY <1>11, <1>13 DEF RemoveCard, Factor
  <2> QED BY <1>13, <2>1 DEF RemoveCard, FactorInv
<1>15. CASE PowerLoss
  BY <1>15 DEF PowerLoss, FactorInv, Fresh, Factor
<1>16. CASE UNCHANGED vars
  BY <1>16 DEF vars, FactorInv
<1> QED
  BY <1>1, <1>3, <1>4, <1>5, <1>6, <1>7, <1>8, <1>9, <1>10, <1>12, <1>13, <1>15, <1>16
     DEF Next

\* Only Finish grants an attempt, and it reads the card's line once more.
LEMMA FactorStep ==
  ASSUME TypeOK, FactorInv, [Next]_vars
  PROVE  [\A p \in Procs : att[p].pc = "card" /\ att'[p].res = "ok"
                             => att[p].need \subseteq att[p].got]_vars
<1> SUFFICES ASSUME NEW p \in Procs, att[p].pc = "card", att'[p].res = "ok"
             PROVE  att[p].need \subseteq att[p].got
  OBVIOUS
<1>1. att[p].res = "none"
  BY DEF FactorInv
<1>2. CASE Finish(p)
  <2>1. ~(card /\ "card" \notin att[p].got)
    BY <1>2 DEF Finish, Refuse, TypeOK, Fresh
  <2> QED
    BY <2>1 DEF FactorInv, Factor
<1>3. ASSUME ~Finish(p) PROVE att'[p].res # "ok"
  <2>1. ASSUME NEW q \in Procs, NEW c \in Codes \cup {NoCode},
               NEW key \in BOOLEAN, NEW cardIn \in BOOLEAN, Begin(q, c, key, cardIn)
        PROVE  att'[p].res # "ok"
    BY <1>1, <2>1 DEF Begin, TypeOK
  <2>2. ASSUME NEW q \in Procs, NoTotp(q) \/ ReadSeed(q) \/ OpenState(q)
        PROVE  att'[p].res # "ok"
    BY <1>1, <2>2 DEF NoTotp, ReadSeed, OpenState, Refuse, Fresh, TypeOK
  <2>8. ASSUME NEW q \in Procs, NEW now \in Steps, CheckTotp(q, now)
        PROVE  att'[p].res # "ok"
    BY <1>1, <2>8 DEF CheckTotp, Refuse, Fresh, TypeOK
  <2>3. ASSUME NEW q \in Procs, Record(q) PROVE att'[p].res # "ok"
    BY <1>1, <2>3 DEF Record, Refuse, Fresh, TypeOK
  <2>4. ASSUME NEW q \in Procs, Finish(q) PROVE att'[p].res # "ok"
    BY <1>1, <1>3, <2>4 DEF Finish, Refuse, TypeOK
  <2>5. CASE RemoveTotp \/ RemoveCard
    BY <1>1, <2>5 DEF RemoveTotp, RemoveCard, Forgive, TypeOK, Attempts
  <2>6. CASE PowerLoss
    BY <2>6 DEF PowerLoss, Fresh
  <2>7. CASE \/ EnrollTotp \/ WriteSeed \/ ResetState \/ ConfSetTotp \/ EnrollCard
             \/ UNCHANGED vars
    BY <1>1, <2>7 DEF EnrollTotp, WriteSeed, ResetState, ConfSetTotp, EnrollCard, vars
  <2> QED
    BY <2>1, <2>2, <2>3, <2>4, <2>5, <2>6, <2>7, <2>8 DEF Next
<1> QED
  BY <1>2, <1>3

\* An attempt that is granted satisfied every factor that was enrolled from its
\* start to its end, although veron_verify reads the policy at three places while
\* veron-enroll changes it.
THEOREM FactorsAreChecked == Spec => NoFactorSkipped
<1>1. TypeOK /\ FactorInv /\ [Next]_vars => TypeOK' /\ FactorInv'
  BY TypeNext, FactorNext
<1> QED
  BY TypeInit, FactorInit, <1>1, FactorStep, PTL DEF Spec, NoFactorSkipped

-----------------------------------------------------------------------------
\* At the start no code was used.
LEMMA ReplayInit == Init => ReplayInv
BY VerifyAssumption DEF Init, ReplayInv, SeedInv, FileInv, LaterInv, Clean, Past, Fresh, NoCode

\* The two components of a code.
LEMMA CodeTypes ==
  ASSUME NEW c \in Codes \cup {NoCode}
  PROVE  c[1] \in Nat /\ c[2] \in Nat
BY VerifyAssumption DEF Codes, NoCode, Gens, Steps

\* A step that adds no used code, exposes none less and leaves the file as it is
\* keeps the invariant if no attempt gets past its comparison in it.
LEMMA NobodyPasses ==
  ASSUME TypeOK, TypeOK', ReplayInv, UNCHANGED <<gen, shown, state, used, cut>>,
         exposed \subseteq exposed',
         enrol' \in {"state", "conf"} => enrol \in {"state", "conf"},
         \A p \in Procs :
            \/ /\ att'[p].code = att[p].code /\ att'[p].seed = att[p].seed
               /\ \/ att'[p].pc = att[p].pc
                  \/ att'[p].pc = "record" /\ att[p].pc = "open"
                  \/ att'[p].pc = "card"
            \/ att'[p].code[1] <= shown /\ att'[p].pc \in {"idle", "totp"}
            \/ /\ att'[p].code = att[p].code /\ att'[p].pc = "check" /\ att'[p].seed # 0
  PROVE  ReplayInv'
<1>1. SeedInv'
  <2>1. \A p \in Procs : att'[p].code[1] <= shown
    BY DEF ReplayInv, SeedInv
  <2>2. \A p \in Procs : Past(p)' => Past(p) /\ att'[p].code = att[p].code /\ att'[p].seed = att[p].seed
    BY DEF Past
  <2>3. \A p \in Procs : att'[p].pc = "check" => att'[p].seed # 0
    BY DEF ReplayInv, SeedInv
  <2> QED BY <2>1, <2>2, <2>3 DEF ReplayInv, SeedInv
<1>2. Clean' \subseteq Clean
  BY DEF Clean
<1>3. FileInv'
  BY <1>2 DEF ReplayInv, FileInv
<1>4. LaterInv'
  <2>2. \A p \in Procs : Past(p)' => Past(p) /\ att'[p].code = att[p].code
    BY DEF Past
  <2> QED BY <1>2, <2>2 DEF ReplayInv, LaterInv
<1> QED BY <1>1, <1>3, <1>4 DEF ReplayInv

\* An attempt that finds its code later than the step it reads.
LEMMA MatchKeeps ==
  ASSUME TypeOK, TypeOK', ReplayInv, NEW p \in Procs, NEW now \in Steps, CheckTotp(p, now),
         Acceptable(att[p].code, att[p].seed, now)
  PROVE  ReplayInv'
<1>a. /\ att[p] \in Attempts /\ att[p].code \in Codes \cup {NoCode} /\ att[p].code[2] \in Nat
      /\ state \in Nat
  BY CodeTypes, VerifyAssumption DEF TypeOK, Attempts, Steps
<1>1. /\ att' = [att EXCEPT ![p].pc = "open"] /\ att[p].pc = "check"
      /\ exposed' = exposed \cup Uncovered(att[p].seed)
      /\ UNCHANGED <<gen, shown, state, enrol, used, cut>>
      /\ att[p].code[1] = att[p].seed /\ att[p].code[2] > state
  BY DEF CheckTotp, Acceptable, store
<1>2. /\ \A q \in Procs \ {p} : att'[q] = att[q]
      /\ att'[p].code = att[p].code /\ att'[p].seed = att[p].seed /\ att'[p].pc = "open"
  BY <1>1, <1>a DEF TypeOK, Attempts
<1>3. Clean' \subseteq Clean
  BY <1>1 DEF Clean
<1>4. SeedInv'
  BY <1>1, <1>2 DEF ReplayInv, SeedInv, Past
<1>5. FileInv'
  BY <1>1, <1>3 DEF ReplayInv, FileInv
<1>6. ASSUME NEW c \in Clean'
      PROVE  att[p].code # c /\ (c[1] = gen => c[2] < att[p].code[2])
  <2>1. ~cut /\ (att[p].seed # gen => c[1] # att[p].seed) /\ c \in Clean
    BY <1>1, <1>3, <1>6 DEF Clean, Uncovered
  <2>2. c[2] \in Nat
    BY <2>1, CodeTypes DEF Clean, TypeOK
  <2>3. c[1] = gen => c[2] < att[p].code[2]
    BY <1>1, <1>a, <2>1, <2>2 DEF ReplayInv, FileInv
  <2>4. att[p].code # c
    BY <1>1, <1>a, <2>1, <2>3
  <2> QED BY <2>3, <2>4
<1>7. LaterInv'
  <2> SUFFICES ASSUME NEW q \in Procs, NEW c \in Clean', Past(q)'
               PROVE  att'[q].code # c /\ (c[1] = gen' => c[2] < att'[q].code[2])
    BY DEF LaterInv
  <2>1. CASE q = p
    BY <1>1, <1>2, <1>6, <2>1
  <2>2. CASE q # p
    BY <1>1, <1>2, <1>3, <2>2 DEF ReplayInv, LaterInv, Past
  <2> QED BY <2>1, <2>2
<1> QED BY <1>4, <1>5, <1>7 DEF ReplayInv

\* An accepted code: it is clean only if nobody else stood past the comparison.
LEMMA RecordKeeps ==
  ASSUME TypeOK, TypeOK', ReplayInv, NEW p \in Procs, att[p].pc = "record",
         UNCHANGED <<gen, shown, enrol>>, state' = att[p].code[2], cut' = FALSE,
         used' = used \cup {att[p].code},
         exposed' = exposed \cup (IF Raced(p) THEN {att[p].code} ELSE {}),
         att' = [att EXCEPT ![p].pc = "card", ![p].got = @ \cup {"totp"}]
  PROVE  ReplayInv'
<1> DEFINE k == att[p].code
<1>a. att[p] \in Attempts /\ k \in Codes \cup {NoCode} /\ k[2] \in Nat
  BY CodeTypes DEF TypeOK, Attempts
<1>1. /\ \A q \in Procs \ {p} : att'[q] = att[q]
      /\ att'[p].code = k /\ att'[p].seed = att[p].seed /\ att'[p].pc = "card"
  BY <1>a DEF TypeOK, Attempts
<1>2. /\ Past(p) /\ k[1] <= shown
      /\ \A c \in Clean : c[1] = gen => c[2] < k[2]
  BY DEF ReplayInv, SeedInv, LaterInv, Past
<1>3. Clean' \subseteq Clean \cup {k}
  BY DEF Clean
<1>4. k \in Clean' => \A q \in Procs \ {p} : ~Past(q)
  <2>1. k \in Clean' => ~Raced(p)
    BY DEF Clean
  <2> QED BY <2>1 DEF Raced, Past
<1> HIDE DEF k
<1>5. SeedInv'
  <2>1. \A c \in used' : c[1] <= shown'
    BY <1>2 DEF k, ReplayInv, SeedInv
  <2>2. \A q \in Procs : att'[q].code = att[q].code /\ att'[q].seed = att[q].seed
                         /\ (Past(q)' => Past(q)) /\ (att'[q].pc = "check" => att[q].pc = "check")
    BY <1>1 DEF Past, k
  <2> QED BY <2>1, <2>2 DEF ReplayInv, SeedInv
<1>6. FileInv'
  <2> SUFFICES ASSUME NEW c \in Clean', c[1] = gen' PROVE c[2] <= state'
    BY DEF FileInv
  <2>1. c \in Codes \cup {NoCode}
    BY DEF Clean, TypeOK
  <2>2. c[2] \in Nat
    BY <2>1, CodeTypes
  <2>3. state' = k[2]
    BY DEF k
  <2> QED BY <1>2, <1>3, <1>a, <2>2, <2>3
<1>7. LaterInv'
  <2> SUFFICES ASSUME NEW q \in Procs, NEW c \in Clean', Past(q)'
               PROVE  att'[q].code # c /\ (c[1] = gen' => c[2] < att'[q].code[2])
    BY DEF LaterInv
  <2>1. q # p /\ att'[q] = att[q] /\ Past(q)
    BY <1>1 DEF Past
  <2>2. c \in Clean
    BY <1>3, <1>4, <2>1
  <2> QED BY <2>1, <2>2 DEF ReplayInv, LaterInv
<1> QED BY <1>5, <1>6, <1>7 DEF ReplayInv

\* Every step keeps the invariant.
LEMMA ReplayNext == TypeOK /\ ReplayInv /\ [Next]_vars => ReplayInv'
<1> SUFFICES ASSUME TypeOK, ReplayInv, [Next]_vars PROVE ReplayInv'
  OBVIOUS
<1>t. TypeOK'
  BY TypeNext
<1>a. \A p \in Procs : att[p] \in Attempts
  BY DEF TypeOK
<1>n. shown \in Nat /\ gen \in Nat /\ state \in Nat
  BY VerifyAssumption DEF TypeOK, Gens, Steps
<1>f. /\ Fresh.pc = "idle" /\ Fresh.code[1] = 0
      /\ [Fresh EXCEPT !.res = "no"].pc = "idle" /\ [Fresh EXCEPT !.res = "no"].code[1] = 0
      /\ [Fresh EXCEPT !.res = "ok"].pc = "idle" /\ [Fresh EXCEPT !.res = "ok"].code[1] = 0
  BY DEF Fresh, NoCode
<1>r. ASSUME NEW p \in Procs, NEW a, att' = [att EXCEPT ![p] = a], a.pc = "idle", a.code[1] = 0,
             UNCHANGED <<gen, shown, state, enrol, hist>>
      PROVE  ReplayInv'
  BY <1>r, <1>t, <1>n, NobodyPasses DEF TypeOK, hist
<1>1. ASSUME NEW p \in Procs, NEW c \in Codes \cup {NoCode},
             NEW key \in BOOLEAN, NEW cardIn \in BOOLEAN, Begin(p, c, key, cardIn)
      PROVE  ReplayInv'
  <2>0. UNCHANGED <<gen, shown, state, enrol, used, cut, exposed>>
    BY <1>1 DEF Begin, store, hist
  <2>1. c[1] <= shown
    BY <1>1, <1>n DEF Begin, NoCode
  <2>2. PICK a : att' = [att EXCEPT ![p] = a] /\ a.pc \in {"idle", "totp"} /\ a.code[1] <= shown
    <3> DEFINE n == (IF totp THEN {"totp"} ELSE {}) \cup (IF card THEN {"card"} ELSE {})
               g == IF card /\ cardIn THEN {"card"} ELSE {}
               b == [Fresh EXCEPT !.pc = "totp", !.code = c, !.need = n, !.got = g]
    <3>1. b.pc = "totp" /\ b.code = c
      BY DEF Fresh
    <3>2. att' = [att EXCEPT ![p] = IF key THEN b ELSE [Fresh EXCEPT !.res = "no"]]
      BY <1>1 DEF Begin
    <3> DEFINE w == IF key THEN b ELSE [Fresh EXCEPT !.res = "no"]
    <3>3. w.pc \in {"idle", "totp"} /\ w.code[1] <= shown
      <4> HIDE DEF b
      <4>1. CASE key
        BY <2>1, <3>1, <4>1
      <4>2. CASE ~key
        BY <1>f, <1>n, <4>2
      <4> QED BY <4>1, <4>2
    <3>4. att' = [att EXCEPT ![p] = w]
      BY <3>2
    <3> HIDE DEF b, w
    <3> QED BY <3>3, <3>4
  <2> QED BY <1>t, <2>0, <2>2, NobodyPasses DEF TypeOK
<1>2. ASSUME NEW p \in Procs, NoTotp(p) PROVE ReplayInv'
  <2>1. /\ \A q \in Procs \ {p} : att'[q] = att[q]
        /\ att'[p].code = att[p].code /\ att'[p].seed = att[p].seed /\ att'[p].pc = "card"
    BY <1>2, <1>a DEF NoTotp, TypeOK, Attempts
  <2> QED BY <1>2, <1>t, <2>1, NobodyPasses DEF NoTotp, store, hist
<1>3. ASSUME NEW p \in Procs, ReadSeed(p) PROVE ReplayInv'
  <2>1. CASE gen = 0
    BY <1>3, <1>r, <1>f, <2>1 DEF ReadSeed, Refuse, store, hist
  <2>2. CASE gen # 0
    <3>1. /\ \A q \in Procs \ {p} : att'[q] = att[q]
          /\ att'[p].code = att[p].code /\ att'[p].seed = gen /\ att'[p].pc = "check"
      BY <1>3, <1>a, <2>2 DEF ReadSeed, TypeOK, Attempts
    <3> QED BY <1>3, <1>t, <2>2, <3>1, NobodyPasses DEF ReadSeed, store, hist
  <2> QED BY <2>1, <2>2
<1>4. ASSUME NEW p \in Procs, NEW now \in Steps, CheckTotp(p, now) PROVE ReplayInv'
  <2>1. CASE Acceptable(att[p].code, att[p].seed, now)
    BY <1>4, <1>t, <2>1, MatchKeeps
  <2>2. CASE ~Acceptable(att[p].code, att[p].seed, now)
    BY <1>4, <1>r, <1>f, <2>2 DEF CheckTotp, Refuse, store, hist
  <2> QED BY <2>1, <2>2
<1>5. ASSUME NEW p \in Procs, OpenState(p) PROVE ReplayInv'
  <2>1. CASE p \notin Owners
    BY <1>5, <1>r, <1>f, <2>1 DEF OpenState, Refuse, hist
  <2>2. CASE p \in Owners
    <3>1. /\ \A q \in Procs \ {p} : att'[q] = att[q]
          /\ att'[p].code = att[p].code /\ att'[p].seed = att[p].seed
          /\ att'[p].pc = "record" /\ att[p].pc = "open"
      BY <1>5, <1>a, <2>2 DEF OpenState, TypeOK, Attempts
    <3>2. cut' /\ UNCHANGED <<gen, shown, enrol, used, exposed>>
      BY <1>5, <2>2 DEF OpenState
    <3>3. SeedInv'
      BY <3>1, <3>2 DEF ReplayInv, SeedInv, Past
    <3>4. FileInv'
      BY <3>2 DEF FileInv
    <3>5. LaterInv'
      BY <3>1, <3>2 DEF ReplayInv, LaterInv, Past, Clean
    <3> QED BY <3>3, <3>4, <3>5 DEF ReplayInv
  <2> QED BY <2>1, <2>2
<1>6. ASSUME NEW p \in Procs, Record(p) PROVE ReplayInv'
  <2>1. CASE Refuse(p) /\ UNCHANGED <<state, hist>>
    BY <1>6, <1>r, <1>f, <2>1 DEF Record, Refuse
  <2>2. CASE ~(Refuse(p) /\ UNCHANGED <<state, hist>>)
    <3>1. /\ att[p].pc = "record" /\ UNCHANGED <<gen, shown, enrol>>
          /\ state' = att[p].code[2] /\ cut' = FALSE
          /\ used' = used \cup {att[p].code}
          /\ exposed' = exposed \cup (IF Raced(p) THEN {att[p].code} ELSE {})
          /\ att' = [att EXCEPT ![p].pc = "card", ![p].got = @ \cup {"totp"}]
      BY <1>6, <2>2 DEF Record
    <3> QED BY <1>t, <3>1, RecordKeeps
  <2> QED BY <2>1, <2>2
<1>7. ASSUME NEW p \in Procs, Finish(p) PROVE ReplayInv'
  BY <1>7, <1>r, <1>f DEF Finish, Refuse, store, hist
<1>8. CASE EnrollTotp \/ EnrollCard \/ UNCHANGED vars
  BY <1>8, <1>t, NobodyPasses DEF EnrollTotp, EnrollCard, vars, hist
<1>9. CASE WriteSeed
  <2>1. gen' = gen + 1 /\ UNCHANGED <<shown, state, att, used, cut, exposed>>
    BY <1>9 DEF WriteSeed, hist
  <2>2. \A c \in used : c[1] # gen'
    <3>1. \A c \in used : c[1] \in Nat
      BY CodeTypes DEF TypeOK
    <3> QED BY <1>n, <2>1, <3>1 DEF ReplayInv, SeedInv
  <2>3. SeedInv'
    BY <1>n, <2>1 DEF ReplayInv, SeedInv, Past
  <2>4. FileInv' /\ LaterInv'
    BY <2>1, <2>2 DEF ReplayInv, LaterInv, FileInv, Clean, Past
  <2> QED BY <2>3, <2>4 DEF ReplayInv
<1>10. CASE ResetState
  <2>1. /\ UNCHANGED <<gen, shown, att, used, exposed>> /\ enrol = "state" /\ enrol' = "conf"
    BY <1>10 DEF ResetState
  <2>2. \A c \in used : c[1] # gen
    <3>1. \A c \in used : c[1] \in Nat
      BY CodeTypes DEF TypeOK
    <3> QED BY <1>n, <2>1, <3>1 DEF ReplayInv, SeedInv
  <2>3. SeedInv'
    BY <2>1 DEF ReplayInv, SeedInv, Past
  <2>4. FileInv' /\ LaterInv'
    BY <2>1, <2>2 DEF ReplayInv, LaterInv, FileInv, Clean, Past
  <2> QED BY <2>3, <2>4 DEF ReplayInv
<1>11. CASE ConfSetTotp
  <2>1. /\ UNCHANGED <<gen, att, state, used, cut, exposed>> /\ enrol' = "idle" /\ shown' = gen
    BY <1>11 DEF ConfSetTotp, hist
  <2>2. \A c \in used : c[1] <= gen
    <3>1. \A c \in used : c[1] \in Nat
      BY CodeTypes DEF TypeOK
    <3> QED BY <1>n, <3>1 DEF ReplayInv, SeedInv
  <2>3. \A p \in Procs : att[p].code[1] <= gen
    <3>1. \A p \in Procs : att[p].code[1] \in Nat
      BY <1>a, CodeTypes DEF Attempts
    <3> QED BY <1>n, <3>1 DEF ReplayInv, SeedInv
  <2>4. SeedInv'
    BY <1>n, <2>1, <2>2, <2>3 DEF ReplayInv, SeedInv, Past
  <2>5. FileInv' /\ LaterInv'
    BY <2>1 DEF ReplayInv, LaterInv, FileInv, Clean, Past
  <2> QED BY <2>4, <2>5 DEF ReplayInv
<1>12. CASE RemoveTotp \/ RemoveCard
  <2>1. \A p \in Procs : /\ att'[p].code = att[p].code /\ att'[p].seed = att[p].seed
                         /\ att'[p].pc = att[p].pc
    BY <1>12, <1>a DEF RemoveTotp, RemoveCard, Forgive, Attempts
  <2> QED BY <1>12, <1>t, <2>1, NobodyPasses DEF RemoveTotp, RemoveCard, hist
<1>13. CASE PowerLoss
  <2>1. /\ UNCHANGED <<gen, shown, used, exposed>> /\ enrol' = "idle"
        /\ \A p \in Procs : att'[p].pc = "idle" /\ att'[p].code[1] = 0
    BY <1>13, <1>f DEF PowerLoss
  <2>2. SeedInv'
    BY <1>n, <2>1 DEF ReplayInv, SeedInv, Past
  <2>3. LaterInv'
    BY <2>1 DEF LaterInv, Past
  <2>4. FileInv'
    BY <1>13, <2>1 DEF PowerLoss, ReplayInv, FileInv, Clean
  <2> QED BY <2>2, <2>3, <2>4 DEF ReplayInv
<1> QED
  BY <1>1, <1>2, <1>3, <1>4, <1>5, <1>6, <1>7, <1>8, <1>9, <1>10, <1>11, <1>12, <1>13 DEF Next

\* A code is accepted again only through one of the windows verify.c leaves open:
\* another attempt between its comparison and its write when the code was recorded,
\* or a read of totp.state that a write had emptied, or with a replaced seed.  No
\* other order of attempts, enrolments, clock changes, failures and power losses
\* makes a code work twice.
THEOREM ReplaysAreRaces == Spec => ReplayNeedsRace
<1>1. TypeOK /\ ReplayInv /\ [Next]_vars => TypeOK' /\ ReplayInv'
  BY TypeNext, ReplayNext
<1>2. ReplayInv => [\A p \in Procs : Accepted(p) => att[p].code \notin used \ exposed]_vars
  <2> SUFFICES ASSUME ReplayInv, NEW p \in Procs, Accepted(p)
               PROVE  att[p].code \notin used \ exposed
    OBVIOUS
  <2> QED BY DEF ReplayInv, LaterInv, Accepted, Past, Clean
<1> QED
  BY TypeInit, ReplayInit, <1>1, <1>2, PTL DEF Spec, ReplayNeedsRace

=============================================================================
