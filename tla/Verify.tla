------------------------------- MODULE Verify -------------------------------
(***************************************************************************)
(* veron_verify (veron-auth/files/verify.c) as the programs that call it   *)
(* run it: the session's lock and the console login as the store's owner   *)
(* (veron), the greeter's lock as user greeter, which is only in the       *)
(* store's group.  They share /persist/veron-auth/totp.state, the last     *)
(* time step whose code was accepted, and read, check and rewrite it       *)
(* without a lock while veron-enroll may be changing the factors.          *)
(*                                                                         *)
(* A code is a pair <<generation of the seed, time step>>; two seeds or    *)
(* two steps never share a code here (in the program: once in a million).  *)
(* Which slot unwraps is FactorStore's concern, here one does or none does. *)
(* Key files, cards and the clock change at any time: what an attempt finds *)
(* is chosen where it looks.                                                *)
(***************************************************************************)
EXTENDS Naturals

CONSTANTS
  Procs,       \* the processes that call veron_verify
  Owners,      \* those that run as veron and may write totp.state
  MaxStep,     \* bound: time steps (now/30) are 1 .. MaxStep
  MaxGen       \* bound: how often a TOTP seed is enrolled

ASSUME VerifyAssumption ==
  /\ Owners \subseteq Procs
  /\ MaxStep \in Nat
  /\ MaxGen \in Nat

Steps == 1 .. MaxStep
Gens == 1 .. MaxGen
Codes == Gens \X Steps
NoCode == <<0, 0>>

VARIABLES
  totp,    \* auth.conf: totp=yes
  card,    \* auth.conf: card=yes
  gen,     \* totp.wrap: generation of the seed, 0 for none
  shown,   \* the newest seed veron-enroll printed for the person's app
  state,   \* totp.state; 0 also for a missing, empty or garbled file
  enrol,   \* where a running `veron-enroll totp' is
  att,     \* each process's attempt
  used,    \* history: the codes that were accepted
  cut,     \* history: totp.state is empty from a write that did not reach it
  exposed  \* history: accepted codes that a race or a lost write uncovered

vars == <<totp, card, gen, shown, state, enrol, att, used, cut, exposed>>
store == <<totp, card, gen, shown, state, enrol>>
hist == <<used, cut, exposed>>

Factor == {"totp", "card"}
Attempts == [pc : {"idle", "totp", "check", "open", "record", "card"},
             code : Codes \cup {NoCode},
             seed : Gens \cup {0},  \* the seed it decrypted
             need : SUBSET Factor,  \* enrolled throughout the attempt
             got : SUBSET Factor,   \* satisfied by it; "card" is card_ok
             res : {"none", "ok", "no"}]

Fresh == [pc |-> "idle", code |-> NoCode, seed |-> 0,
          need |-> {}, got |-> {}, res |-> "none"]

TypeOK ==
  /\ totp \in BOOLEAN /\ card \in BOOLEAN
  /\ gen \in Gens \cup {0} /\ shown \in Gens \cup {0}
  /\ state \in Steps \cup {0}
  /\ enrol \in {"idle", "seed", "state", "conf"}
  /\ att \in [Procs -> Attempts]
  /\ used \subseteq Codes \cup {NoCode} /\ cut \in BOOLEAN /\ exposed \subseteq used

Init ==
  /\ totp = FALSE /\ card = FALSE
  /\ gen = 0 /\ shown = 0 /\ state = 0
  /\ enrol = "idle"
  /\ att = [p \in Procs |-> Fresh]
  /\ used = {} /\ cut = FALSE /\ exposed = {}

-----------------------------------------------------------------------------
(* One attempt.                                                             *)

Refuse(p) == att' = [att EXCEPT ![p] = [Fresh EXCEPT !.res = "no"]]

(* The slots are tried, the card is asked for if it is enrolled; without a  *)
(* master (key) nothing else is asked.  Any code may be typed that some     *)
(* seed the person was ever shown can produce, or none.                     *)
Begin(p, c, key, cardIn) ==
  /\ att[p].pc = "idle"
  /\ c = NoCode \/ c[1] <= shown
  /\ att' = [att EXCEPT ![p] =
       IF key THEN [Fresh EXCEPT !.pc = "totp", !.code = c,
                                 !.need = (IF totp THEN {"totp"} ELSE {})
                                          \cup (IF card THEN {"card"} ELSE {}),
                                 !.got = IF card /\ cardIn THEN {"card"} ELSE {}]
       ELSE [Fresh EXCEPT !.res = "no"]]
  /\ UNCHANGED <<store, hist>>

(* totp is not enrolled: the code is not looked at. *)
NoTotp(p) ==
  /\ att[p].pc = "totp"
  /\ ~totp
  /\ att' = [att EXCEPT ![p].pc = "card"]
  /\ UNCHANGED <<store, hist>>

(* veron_totp_seed_read: refused when there is no seed. *)
ReadSeed(p) ==
  /\ att[p].pc = "totp"
  /\ totp
  /\ IF gen # 0
     THEN att' = [att EXCEPT ![p].pc = "check", ![p].seed = gen]
     ELSE Refuse(p)
  /\ UNCHANGED <<store, hist>>

(* Mutant: a code of the step last accepted still matches. *)
AcceptableAgain(c, g, now) ==
  /\ c[1] = g
  /\ c[2] \in {now - 1, now, now + 1}
  /\ c[2] >= state

(* veron_totp_check_seed up to the match: the candidates are the steps      *)
(* around now that are later than the last accepted one.                    *)
Acceptable(c, g, now) ==
  /\ c[1] = g
  /\ c[2] \in {now - 1, now, now + 1}
  /\ c[2] > state

(* The accepted codes that an attempt with the seed g cannot be refused,    *)
(* since the step it reads no longer stands for them: all, when a write has *)
(* emptied the file; those of a seed that was replaced since it was read.   *)
Uncovered(g) == IF cut THEN used ELSE IF g # gen THEN {c \in used : c[1] = g} ELSE {}

CheckTotp(p, now) ==
  /\ att[p].pc = "check"
  /\ IF Acceptable(att[p].code, att[p].seed, now)
     THEN /\ att' = [att EXCEPT ![p].pc = "open"]
          /\ exposed' = exposed \cup Uncovered(att[p].seed)
     ELSE Refuse(p) /\ UNCHANGED exposed
  /\ UNCHANGED <<store, used, cut>>

(* fopen(statepath, "w") truncates the file; the greeter may not open it.   *)
OpenState(p) ==
  /\ att[p].pc = "open"
  /\ IF p \in Owners
     THEN att' = [att EXCEPT ![p].pc = "record"] /\ state' = 0 /\ cut' = TRUE
     ELSE Refuse(p) /\ UNCHANGED <<state, cut>>
  /\ UNCHANGED <<totp, card, gen, shown, enrol, used, exposed>>

(* Another attempt has compared its code already and has yet to write. *)
Raced(p) == \E q \in Procs \ {p} : att[q].pc \in {"open", "record"}

(* The step is written before success is reported; if it cannot be, the     *)
(* attempt is refused and the file stays empty.                             *)
Record(p) ==
  /\ att[p].pc = "record"
  /\ \/ /\ state' = att[p].code[2] /\ cut' = FALSE
        /\ used' = used \cup {att[p].code}
        /\ exposed' = exposed \cup (IF Raced(p) THEN {att[p].code} ELSE {})
        /\ att' = [att EXCEPT ![p].pc = "card", ![p].got = @ \cup {"totp"}]
     \/ Refuse(p) /\ UNCHANGED <<state, hist>>
  /\ UNCHANGED <<totp, card, gen, shown, enrol>>

(* Mutant: the card's absence is not held against the attempt. *)
FinishWithoutCard(p) ==
  /\ att[p].pc = "card"
  /\ att' = [att EXCEPT ![p] = [Fresh EXCEPT !.res = "ok"]]
  /\ UNCHANGED <<store, hist>>

(* The card line is read again; the presence found at the start counts. *)
Finish(p) ==
  /\ att[p].pc = "card"
  /\ IF card /\ "card" \notin att[p].got
     THEN Refuse(p)
     ELSE att' = [att EXCEPT ![p] = [Fresh EXCEPT !.res = "ok"]]
  /\ UNCHANGED <<store, hist>>

-----------------------------------------------------------------------------
(* veron-enroll totp | card | remove totp | remove card                     *)

(* A possession factor unwraps, or it is refused. *)
EnrollTotp ==
  /\ enrol = "idle"
  /\ gen < MaxGen
  /\ enrol' = "seed"
  /\ UNCHANGED <<totp, card, gen, shown, state, att, hist>>

WriteSeed ==
  /\ enrol = "seed"
  /\ gen < MaxGen
  /\ gen' = gen + 1
  /\ enrol' = "state"
  /\ UNCHANGED <<totp, card, shown, state, att, hist>>

ResetState ==
  /\ enrol = "state"
  /\ state' = 0 /\ cut' = FALSE
  /\ enrol' = "conf"
  /\ UNCHANGED <<totp, card, gen, shown, att, used, exposed>>

(* totp=yes, and only then the secret is printed. *)
ConfSetTotp ==
  /\ enrol = "conf"
  /\ totp' = TRUE
  /\ shown' = gen
  /\ enrol' = "idle"
  /\ UNCHANGED <<card, gen, state, att, hist>>

EnrollCard ==
  /\ enrol = "idle"
  /\ ~card
  /\ card' = TRUE
  /\ UNCHANGED <<totp, gen, shown, state, enrol, att, hist>>

(* A factor whose line is deleted is no longer owed by anyone under way. *)
Forgive(f) == att' = [p \in Procs |-> [att[p] EXCEPT !.need = @ \ {f}]]

RemoveTotp ==
  /\ enrol = "idle"
  /\ totp
  /\ totp' = FALSE
  /\ Forgive("totp")
  /\ UNCHANGED <<card, gen, shown, state, enrol, hist>>

RemoveCard ==
  /\ enrol = "idle"
  /\ card
  /\ card' = FALSE
  /\ Forgive("card")
  /\ UNCHANGED <<totp, gen, shown, state, enrol, hist>>

-----------------------------------------------------------------------------
(* Every process dies; totp.state, which is not synced, may come back empty. *)
PowerLoss ==
  /\ att' = [p \in Procs |-> Fresh]
  /\ enrol' = "idle"
  /\ \/ UNCHANGED <<state, cut>>
     \/ state # 0 /\ state' = 0 /\ cut' = TRUE
  /\ UNCHANGED <<totp, card, gen, shown, used, exposed>>

Next ==
  \/ \E p \in Procs, c \in Codes \cup {NoCode}, key, cardIn \in BOOLEAN :
       Begin(p, c, key, cardIn)
  \/ \E p \in Procs, now \in Steps : CheckTotp(p, now)
  \/ \E p \in Procs :
       NoTotp(p) \/ ReadSeed(p) \/ OpenState(p) \/ Record(p) \/ Finish(p)
  \/ EnrollTotp \/ WriteSeed \/ ResetState \/ ConfSetTotp \/ EnrollCard
  \/ RemoveTotp \/ RemoveCard
  \/ PowerLoss

Spec == Init /\ [][Next]_vars

-----------------------------------------------------------------------------
(* Properties.                                                              *)

Accepted(p) == att[p].pc = "record" /\ att'[p].pc = "card"

(* What the step read before and recorded after the comparison is worth: a  *)
(* code is accepted again only if another attempt stood between its own     *)
(* comparison and its write when the code was recorded, or if since then an *)
(* attempt read totp.state while a write had left it empty, or with a seed  *)
(* replaced meanwhile.  Attempts and enrolments overlap as they like, the   *)
(* clock is set back, writes fail, the power goes.                          *)
ReplayNeedsRace ==
  [][\A p \in Procs : Accepted(p) => att[p].code \notin used \ exposed]_vars

(* "A second use of an accepted code must be refused" (verify.c:204).       *)
NoReplay == [][\A p \in Procs : Accepted(p) => att[p].code \notin used]_vars

(* An accepted attempt satisfied every factor that was enrolled from its    *)
(* start to its end: policy lines are read at three places in veron_verify, *)
(* while veron-enroll adds and removes them.                                *)
NoFactorSkipped ==
  [][\A p \in Procs : att[p].pc = "card" /\ att'[p].res = "ok"
                        => att[p].need \subseteq att[p].got]_vars

(* "Whatever modes enrolment wrote, verification works" (session-gate): an  *)
(* attempt whose code matched is not turned away at the state file.         *)
MatchedCodeAccepted ==
  [][\A p \in Procs : att[p].pc = "open" => att'[p].res # "no"]_vars

=============================================================================
