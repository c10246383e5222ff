----------------------------- MODULE FactorStore -----------------------------
(***************************************************************************)
(* The factor store of veron-auth: /persist/veron-auth holds auth.conf and *)
(* one wrap file per key-file slot (veron-auth/files/wrap.c), and           *)
(* veron-enroll (veron-auth/files/enroll.c) changes them.  One veron-enroll *)
(* runs at a time; each of its commands is a sequence of separate file      *)
(* writes, so a power loss or a kill (Crash) can fall between any two, and  *)
(* the removable media behind a path can be swapped between any two.        *)
(*                                                                         *)
(* A key file's bytes are a member of Keys, a master secret is the number  *)
(* of its generation.  AES-GCM is modelled by what it does: a wrap opens   *)
(* exactly for the bytes that made it (wrap_read's tag check).             *)
(***************************************************************************)
EXTENDS Naturals, FiniteSets

CONSTANTS
  NumSlots,           \* keyfile0 .. keyfile(NumSlots-1); 8 in the code
  Paths,              \* path names a key file can be enrolled under
  Keys,               \* key-file contents
  Removable,          \* the paths veron_is_removable traces to removable media
  AllowOndiskKeyfile, \* VERON_ALLOW_ONDISK_KEYFILE is set
  WriteFaults,        \* the commands during which a store write may fail
                      \* (full or failing disk): "enrol", "remove"
  MaxMasters,         \* bound: how many master secrets may be generated
  NoPath, NoKey       \* no such line in auth.conf; no file at the path

Slots == 0 .. NumSlots - 1

ASSUME StoreAssumption ==
  /\ NumSlots \in Nat
  /\ MaxMasters \in Nat
  /\ AllowOndiskKeyfile \in BOOLEAN
  /\ WriteFaults \subseteq {"enrol", "remove"}
  /\ NoPath \notin Paths
  /\ NoKey \notin Keys

VARIABLES
  file,       \* external: the bytes each path yields now (media come and go)
  keyfile,    \* auth.conf: keyfileN=<path>
  autologin,  \* auth.conf: autologin=on|off, or no such line
  totp,       \* auth.conf: totp=yes
  wrap,       \* master.N.wrap: who opens it and what it holds
  seed,       \* totp.wrap: the master it is encrypted under
  masters,    \* how many master secrets were generated so far
  cmd         \* the running veron-enroll: its place and its locals

conf == <<keyfile, autologin, totp>>
vars == <<file, keyfile, autologin, totp, wrap, seed, masters, cmd>>

Masters == 1 .. MaxMasters
Wraps == [key : Keys \cup {NoKey}, master : Masters \cup {0}]
NoWrap == [key |-> NoKey, master |-> 0]
NoSeed == 0

Commands == [pc : {"idle", "wrap", "conf", "arm", "seed", "totp", "rmconf", "rmwrap"},
             path : Paths \cup {NoPath}, slot : Slots \cup {NumSlots},
             master : Masters \cup {0}, todo : SUBSET Slots]
Idle == [pc |-> "idle", path |-> NoPath, slot |-> NumSlots, master |-> 0, todo |-> {}]

TypeOK ==
  /\ file \in [Paths -> Keys \cup {NoKey}]
  /\ keyfile \in [Slots -> Paths \cup {NoPath}]
  /\ autologin \in {"unset", "on", "off"}
  /\ totp \in BOOLEAN
  /\ wrap \in [Slots -> Wraps]
  /\ seed \in Masters \cup {NoSeed}
  /\ masters \in Masters \cup {0}
  /\ cmd \in Commands

Init ==
  /\ file = [p \in Paths |-> NoKey]
  /\ keyfile = [i \in Slots |-> NoPath]
  /\ autologin = "unset"
  /\ totp = FALSE
  /\ wrap = [i \in Slots |-> NoWrap]
  /\ seed = NoSeed
  /\ masters = 0
  /\ cmd = Idle

-----------------------------------------------------------------------------
(* Reading the store.                                                       *)

Enrolled(i) == keyfile[i] # NoPath

(* The key k, found at path p, opens slot i. *)
Opens(i, p, k) ==
  /\ p \in Paths /\ k \in Keys
  /\ keyfile[i] = p
  /\ wrap[i].key = k

(* veron_master_from_keyfile on slot i, with the media plugged in now. *)
Unwraps(i) == Enrolled(i) /\ Opens(i, keyfile[i], file[keyfile[i]])

(* The slot whose wrap yields the master: the loops run over the slots in   *)
(* order and stop at the first that unwraps.                                *)
FirstUnwrapping(i) == Unwraps(i) /\ \A j \in Slots : j < i => ~Unwraps(j)

HaveMaster == \E i \in Slots : Unwraps(i)

TakesAny(i, p) == TRUE  \* mutant: the slot's line is not looked at

(* The slot an enrolment of p takes: the first with no line or p's own. *)
Takes(i, p) == keyfile[i] \in {NoPath, p}
SlotFor(i, p) == Takes(i, p) /\ \A j \in Slots : j < i => ~Takes(j, p)

-----------------------------------------------------------------------------
(* veron-enroll keyfile <p>                                                 *)

(* The removable-media rule, the search for a master and the choice of the  *)
(* slot.  A path with no file cannot be traced to a device and is refused   *)
(* (veron_is_removable returns -1, and the probe fails under the override). *)
EnrollKeyfile(p) ==
  /\ cmd.pc = "idle"
  /\ p \in Removable \/ AllowOndiskKeyfile
  /\ file[p] # NoKey
  /\ \E s \in Slots :
       /\ SlotFor(s, p)
       /\ \/ \E i \in Slots :
               /\ FirstUnwrapping(i)
               /\ cmd' = [Idle EXCEPT !.pc = "wrap", !.path = p, !.slot = s,
                                      !.master = wrap[i].master]
               /\ UNCHANGED masters
          \/ /\ ~HaveMaster
             /\ masters < MaxMasters
             /\ masters' = masters + 1
             /\ cmd' = [Idle EXCEPT !.pc = "wrap", !.path = p, !.slot = s,
                                    !.master = masters + 1]
  /\ UNCHANGED <<file, keyfile, autologin, totp, wrap, seed>>

(* veron_wrap_to_keyfile reads the key file again and renames the new wrap  *)
(* into place.                                                              *)
WriteWrap ==
  /\ cmd.pc = "wrap"
  /\ file[cmd.path] # NoKey
  /\ wrap' = [wrap EXCEPT ![cmd.slot] = [key |-> file[cmd.path], master |-> cmd.master]]
  /\ cmd' = [cmd EXCEPT !.pc = "conf"]
  /\ UNCHANGED <<file, keyfile, autologin, totp, seed, masters>>

(* The derivation fails (the file is gone) or the wrap cannot be written. *)
WriteWrapFails ==
  /\ cmd.pc = "wrap"
  /\ file[cmd.path] = NoKey \/ "enrol" \in WriteFaults
  /\ cmd' = Idle
  /\ UNCHANGED <<file, keyfile, autologin, totp, wrap, seed, masters>>

ConfSetKeyfile ==
  /\ cmd.pc = "conf"
  /\ keyfile' = [keyfile EXCEPT ![cmd.slot] = cmd.path]
  /\ cmd' = [cmd EXCEPT !.pc = "arm"]
  /\ UNCHANGED <<file, autologin, totp, wrap, seed, masters>>

(* Enrolling arms the gate unless autologin was chosen before. *)
ArmGate ==
  /\ cmd.pc = "arm"
  /\ autologin' = IF autologin = "unset" THEN "off" ELSE autologin
  /\ cmd' = Idle
  /\ UNCHANGED <<file, keyfile, totp, wrap, seed, masters>>

(* conf_set fails: every command but `remove' gives up there. *)
ConfSetFails ==
  /\ "enrol" \in WriteFaults
  /\ cmd.pc \in {"conf", "arm", "seed", "totp"}
  /\ cmd' = Idle
  /\ UNCHANGED <<file, keyfile, autologin, totp, wrap, seed, masters>>

-----------------------------------------------------------------------------
(* veron-enroll totp: refused unless a possession factor unwraps now; the   *)
(* seed is encrypted under the master that factor gave.                     *)
EnrollTotp ==
  /\ cmd.pc = "idle"
  /\ \E i \in Slots :
       /\ FirstUnwrapping(i)
       /\ cmd' = [Idle EXCEPT !.pc = "seed", !.master = wrap[i].master]
  /\ UNCHANGED <<file, keyfile, autologin, totp, wrap, seed, masters>>

(* Mutant: the command goes on to totp=yes without writing the seed. *)
WriteSeedSkipped ==
  /\ cmd.pc = "seed"
  /\ cmd' = [cmd EXCEPT !.pc = "totp"]
  /\ UNCHANGED <<file, keyfile, autologin, totp, wrap, seed, masters>>

WriteSeed ==
  /\ cmd.pc = "seed"
  /\ seed' = cmd.master
  /\ cmd' = [cmd EXCEPT !.pc = "totp"]
  /\ UNCHANGED <<file, keyfile, autologin, totp, wrap, masters>>

ConfSetTotp ==
  /\ cmd.pc = "totp"
  /\ totp' = TRUE
  /\ cmd' = Idle
  /\ UNCHANGED <<file, keyfile, autologin, wrap, seed, masters>>

(* veron-enroll remove totp: the line goes, totp.wrap stays. *)
RemoveTotp ==
  /\ cmd.pc = "idle"
  /\ totp' = FALSE
  /\ UNCHANGED <<file, keyfile, autologin, wrap, seed, masters, cmd>>

-----------------------------------------------------------------------------
(* veron-enroll autologin on|off                                            *)

(* Mutant: no factor has to unwrap before the gate is armed. *)
AutologinOffUnproved ==
  /\ cmd.pc = "idle"
  /\ autologin' = "off"
  /\ UNCHANGED <<file, keyfile, totp, wrap, seed, masters, cmd>>

AutologinOff ==
  /\ cmd.pc = "idle"
  /\ HaveMaster
  /\ autologin' = "off"
  /\ UNCHANGED <<file, keyfile, totp, wrap, seed, masters, cmd>>

AutologinOn ==
  /\ cmd.pc = "idle"
  /\ autologin' = "on"
  /\ UNCHANGED <<file, keyfile, totp, wrap, seed, masters, cmd>>

-----------------------------------------------------------------------------
(* veron-enroll remove keyfile <slot>|all                                   *)

EnrolledSlots == {i \in Slots : Enrolled(i)}

(* Mutant: strictly more slots would have to go than are enrolled. *)
RemovesLastOffByOne(S) ==
  /\ autologin = "off"
  /\ Cardinality(S \cap EnrolledSlots) > Cardinality(EnrolledSlots)
  /\ EnrolledSlots # {}

(* The refusal: the gate is armed and every enrolled slot would go. *)
RemovesLast(S) ==
  /\ autologin = "off"
  /\ EnrolledSlots \subseteq S
  /\ EnrolledSlots # {}

RemoveKeyfile(S) ==
  /\ cmd.pc = "idle"
  /\ ~RemovesLast(S)
  /\ S \cap EnrolledSlots # {}
  /\ cmd' = [Idle EXCEPT !.pc = "rmconf", !.todo = S \cap EnrolledSlots]
  /\ UNCHANGED <<file, keyfile, autologin, totp, wrap, seed, masters>>

First(i, S) == i \in S /\ \A j \in S : i <= j

(* Mutant: the line is left in auth.conf. *)
RemoveConfForgotten ==
  /\ cmd.pc = "rmconf"
  /\ cmd' = [cmd EXCEPT !.pc = "rmwrap"]
  /\ UNCHANGED <<file, keyfile, autologin, totp, wrap, seed, masters>>

(* The line is deleted first.  The result of conf_set is not looked at. *)
RemoveConf ==
  /\ cmd.pc = "rmconf"
  /\ \E i \in cmd.todo :
       /\ First(i, cmd.todo)
       /\ keyfile' \in {[keyfile EXCEPT ![i] = NoPath]}
                         \cup (IF "remove" \in WriteFaults THEN {keyfile} ELSE {})
  /\ cmd' = [cmd EXCEPT !.pc = "rmwrap"]
  /\ UNCHANGED <<file, autologin, totp, wrap, seed, masters>>

(* ... then the wrap is unlinked, whatever became of the line. *)
RemoveWrap ==
  /\ cmd.pc = "rmwrap"
  /\ \E i \in cmd.todo :
       /\ First(i, cmd.todo)
       /\ wrap' = [wrap EXCEPT ![i] = NoWrap]
       /\ cmd' = IF cmd.todo = {i} THEN Idle
                 ELSE [cmd EXCEPT !.pc = "rmconf", !.todo = @ \ {i}]
  /\ UNCHANGED <<file, keyfile, autologin, totp, seed, masters>>

-----------------------------------------------------------------------------
(* The environment.                                                         *)

(* Media are mounted, unmounted and swapped: a path yields other bytes. *)
Media(p, k) ==
  /\ file[p] # k
  /\ file' = [file EXCEPT ![p] = k]
  /\ UNCHANGED <<keyfile, autologin, totp, wrap, seed, masters, cmd>>

(* veron-enroll is killed, or the power goes: what was renamed stays. *)
Crash ==
  /\ cmd.pc # "idle"
  /\ cmd' = Idle
  /\ UNCHANGED <<file, keyfile, autologin, totp, wrap, seed, masters>>

Next ==
  \/ \E p \in Paths : EnrollKeyfile(p)
  \/ WriteWrap \/ WriteWrapFails \/ ConfSetKeyfile \/ ArmGate \/ ConfSetFails
  \/ EnrollTotp \/ WriteSeed \/ ConfSetTotp \/ RemoveTotp
  \/ AutologinOff \/ AutologinOn
  \/ \E S \in {Slots} \cup {{i} : i \in Slots} : RemoveKeyfile(S)
  \/ RemoveConf \/ RemoveWrap
  \/ \E p \in Paths, k \in Keys \cup {NoKey} : Media(p, k)
  \/ Crash

Spec == Init /\ [][Next]_vars

-----------------------------------------------------------------------------
(* Properties.                                                              *)

(* The factors the store accepts: a key file at its enrolled path. *)
Factors == {f \in Paths \X Keys : \E i \in Slots : Opens(i, f[1], f[2])}

(* Every auth.conf line has its wrap: enroll.c writes the wrap before the   *)
(* line and deletes the line before the wrap, so that no crash leaves a     *)
(* line the verifier trusts and cannot use.                                 *)
EnrolledHasWrap == \A i \in Slots : Enrolled(i) => wrap[i].key \in Keys

(* An armed gate always has a factor that opens it: enroll.c arms only      *)
(* after a wrap exists and `remove keyfile' refuses to take the last one.   *)
GateHasKey == autologin = "off" => Factors # {}

(* TOTP is demanded only once a seed exists: totp=yes follows totp.wrap,    *)
(* in whatever order enrolments, removals and crashes come.                 *)
TotpHasSeed == totp => seed # NoSeed

FactorsKept ==
  \A f \in Factors : \/ f \in Factors'
                     \/ cmd.pc \in {"rmconf", "rmwrap"}
                     \/ cmd.pc = "wrap" /\ f[1] = cmd.path

(* Enrolling never costs another factor: outside `remove', a step loses a   *)
(* factor only by rewrapping the slot of the very path being enrolled.      *)
OtherPathsKept == [][FactorsKept]_vars

(* wrap.c promises that a second key file is enrolled "without invalidating *)
(* the first": outside `remove', no step loses a factor at all.             *)
SpareKeepsOriginal ==
  [][Factors \subseteq Factors' \/ cmd.pc \in {"rmconf", "rmwrap"}]_vars

(* The store implements the abstract key slots, crashes included. *)
Abstract == INSTANCE KeySlots WITH
              factors <- Factors, armed <- (autologin = "off")
ImplementsKeySlots == Abstract!Spec

-----------------------------------------------------------------------------
(* The inductive invariant behind EnrolledHasWrap and GateHasKey, for a     *)
(* store in which `remove' can rely on its writes.                          *)

LinesWrapped == \A i \in Slots : keyfile[i] # NoPath => wrap[i].key \in Keys

(* The locals a command is using are set. *)
CmdLocals ==
  /\ cmd.pc \in {"wrap", "conf", "arm"} => cmd.path \in Paths /\ cmd.slot \in Slots
  /\ cmd.pc \in {"seed", "wrap"} => cmd.master \in Masters
  /\ \A i \in Slots : wrap[i].key \in Keys => wrap[i].master \in Masters

(* The slot of an enrolment under way is still free or the path's own; past *)
(* the wrap it is wrapped, past the line it is listed.                      *)
EnrolUnderWay ==
  /\ cmd.pc \in {"wrap", "conf", "arm"} => keyfile[cmd.slot] \in {NoPath, cmd.path}
  /\ cmd.pc \in {"conf", "arm"} => wrap[cmd.slot].key \in Keys
  /\ cmd.pc = "arm" => keyfile[cmd.slot] # NoPath

(* A removal under way still has slots to do, and, with the gate armed,     *)
(* some enrolled slot it will not touch; before the unlink its line is gone. *)
RemovalUnderWay ==
  /\ cmd.pc \in {"rmconf", "rmwrap"} =>
       /\ cmd.todo # {}
       /\ autologin = "off" => \E i \in Slots \ cmd.todo : keyfile[i] # NoPath
  /\ cmd.pc = "rmwrap" =>
       \A i \in cmd.todo : First(i, cmd.todo) => keyfile[i] = NoPath

ArmedHasLine == autologin = "off" => \E i \in Slots : keyfile[i] # NoPath

StoreInv == LinesWrapped /\ EnrolUnderWay /\ RemovalUnderWay /\ ArmedHasLine

=============================================================================
