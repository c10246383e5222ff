---------------------------- MODULE SessionLock ----------------------------
(***************************************************************************)
(* veron-lock (veron-auth/files/lock.c) and the compositor it talks to     *)
(* through ext-session-lock-v1.  The compositor is external: it announces  *)
(* and withdraws outputs and the keyboard (every VT switch does both),     *)
(* configures lock surfaces, forwards keys, and disconnects a client that  *)
(* breaks the protocol's order.  Its events wait in a queue until the      *)
(* single-threaded client dispatches them, so the client acts on a view    *)
(* that may be out of date.                                                *)
(*                                                                         *)
(* A buffer is its size.  The typed entry is its length; it satisfies      *)
(* veron_verify when it is CodeLen long and a factor is there.             *)
(***************************************************************************)
EXTENDS Naturals, Sequences, FiniteSets, FiniteSetsExt

CONSTANTS
  Outputs,      \* registry names of outputs
  MaxOutputs,   \* MAX_OUTPUTS, 8 in the code
  MaxEntry,     \* MAX_ENTRY, 256 in the code
  CodeLen,      \* length of the code to type; 0 when a key file is enough
  Sizes,        \* sizes an output can have, positive
  AllocFaults,  \* memfd_create or mmap can fail
  MaxQueue,     \* bound: events in flight
  MaxDeaths,    \* bound: how often the client dies without having unlocked
  NoOutput

ASSUME LockAssumption ==
  /\ IsFiniteSet(Outputs) /\ NoOutput \notin Outputs
  /\ MaxOutputs \in Nat \ {0}
  /\ Sizes \subseteq Nat \ {0}
  /\ AllocFaults \in BOOLEAN
  /\ MaxEntry \in Nat /\ MaxEntry >= 2
  /\ CodeLen \in Nat /\ MaxQueue \in Nat /\ MaxDeaths \in Nat

VARIABLES
  store,    \* what lock_is_armed finds: "armed" (or uncertain), "none"
  factor,   \* external: veron_verify would find its factors now
  held,     \* compositor: who holds the session lock
  sent,     \* compositor: `locked' has been sent to this client
  present,  \* compositor: the outputs there are
  surf,     \* compositor: each output's lock surface
  active,   \* compositor: our VT is in front, the seat has a keyboard
  err,      \* compositor: the protocol error this client was killed for
  ev,       \* events on their way to the client
  pc,       \* client: "none", "globals", "loop"
  slot,     \* client: outputs[]
  nOut,     \* client: n_outputs
  kbd,      \* client: its wl_keyboard, "none", "live" or "inert"
  entry,    \* client: entry_len
  flags,    \* client: which of locked_ok, finished, unlocking are set
  exit,     \* exit status of the client, 9 until it ends
  deaths

vars == <<store, factor, held, sent, present, surf, active, err, ev,
          pc, slot, nOut, kbd, entry, flags, exit, deaths>>
compositor == <<held, sent, present, surf, active, err>>
client == <<pc, slot, nOut, kbd, entry, flags, exit, deaths>>

Slots == 1 .. MaxOutputs
NoSurf == [role |-> FALSE, size |-> 0, acked |-> 0, buf |-> 0]
NoSlot == [name |-> NoOutput, role |-> FALSE, conf |-> FALSE, buf |-> 0]
KeySyms == {"char", "erase", "enter"}  \* "erase" is BackSpace or Escape
Events == ({"global", "remove"} \X Outputs) \cup ({"configure"} \X Outputs \X Sizes)
          \cup ({"caps"} \X BOOLEAN) \cup ({"key"} \X KeySyms)
          \cup {<<"locked">>, <<"finished">>}

TypeOK ==
  /\ store \in {"armed", "none"} /\ factor \in BOOLEAN
  /\ held \in {"no", "us", "dead", "other"} /\ sent \in BOOLEAN
  /\ present \subseteq Outputs
  /\ surf \in [Outputs -> [role : BOOLEAN, size : Sizes \cup {0},
                           acked : Sizes \cup {0}, buf : Sizes \cup {0}]]
  /\ active \in BOOLEAN
  /\ err \in {"none", "early commit", "size", "duplicate", "bad unlock"}
  /\ ev \in Seq(Events)
  /\ pc \in {"none", "globals", "loop"}
  /\ slot \in [Slots -> [name : Outputs \cup {NoOutput}, role : BOOLEAN,
                         conf : BOOLEAN, buf : Sizes \cup {0}]]
  /\ nOut \in 0 .. MaxOutputs
  /\ kbd \in {"none", "live", "inert"}
  /\ entry \in 0 .. MaxEntry - 2
  /\ flags \subseteq {"locked_ok", "finished", "unlocking"}
  /\ exit \in {0, 1, 2, 3, 9} /\ deaths \in 0 .. MaxDeaths

Init ==
  /\ store \in {"armed", "none"} /\ factor \in BOOLEAN
  /\ held \in {"no", "other"} /\ sent = FALSE
  /\ present \in SUBSET Outputs /\ Cardinality(present) <= MaxOutputs
  /\ surf = [o \in Outputs |-> NoSurf]
  /\ active = TRUE /\ err = "none" /\ ev = <<>>
  /\ pc = "none" /\ slot = [i \in Slots |-> NoSlot] /\ nOut = 0
  /\ kbd = "none" /\ entry = 0 /\ flags = {} /\ exit = 9 /\ deaths = 0

-----------------------------------------------------------------------------
(* Requests, as the compositor takes them.  A request on an object whose    *)
(* output is gone is ignored.                                               *)

(* get_lock_surface for the outputs in S. *)
GetLockSurfaces(S) ==
  /\ surf' = [o \in Outputs |->
                IF o \in S \cap present THEN [NoSurf EXCEPT !.role = TRUE] ELSE surf[o]]
  /\ err' = IF \E o \in S \cap present : surf[o].role THEN "duplicate" ELSE err

(* draw: nothing to draw on without a buffer, else attach and commit. *)
Draws(sl) == {sl[i].name : i \in {j \in 1 .. nOut : sl[j].conf /\ sl[j].buf # 0}}
BufOf(sl, o) == (CHOOSE s \in {sl[i] : i \in Slots} : s.name = o).buf

(* draw_all with the slots sl on top of the surfaces sf. *)
DrawAll(sl, sf) ==
  LET D == Draws(sl) \cap {o \in present : sf[o].role}
  IN /\ surf' = [o \in Outputs |->
                   IF o \in D THEN [sf[o] EXCEPT !.buf = BufOf(sl, o)] ELSE sf[o]]
     /\ err' = IF \E o \in D : sf[o].acked = 0 THEN "early commit"
               ELSE IF \E o \in D : sf[o].acked # BufOf(sl, o) THEN "size"
               ELSE err

Redraw == DrawAll(slot, surf)

-----------------------------------------------------------------------------
(* Start.                                                                   *)

(* The registry roundtrips: the outputs there are take slots in the order   *)
(* they are announced, as many as there are slots.                          *)
Connect ==
  /\ pc = "none" /\ exit # 0
  /\ IF store = "none"
     THEN exit' = 3 /\ UNCHANGED <<pc, slot, nOut, kbd>>
     ELSE IF present = {}
     THEN exit' = 1 /\ UNCHANGED <<pc, slot, nOut, kbd>>
     ELSE /\ pc' = "globals"
          /\ LET n == Min({MaxOutputs, Cardinality(present)})
             IN /\ nOut' = n
                /\ \E f \in [1 .. n -> present] :
                     /\ \A i, j \in 1 .. n : f[i] = f[j] => i = j
                     /\ slot' = [i \in Slots |-> IF i <= n THEN [NoSlot EXCEPT !.name = f[i]]
                                                 ELSE NoSlot]
          /\ kbd' = IF active THEN "live" ELSE "none"
          /\ exit' = 9
  /\ UNCHANGED <<store, factor, compositor, ev, entry, flags, deaths>>

(* lock() and then a surface for every output, before any event is waited   *)
(* for.  The compositor refuses while another client holds the lock; a lock *)
(* whose client died can be taken over.                                     *)
TakeLock ==
  /\ pc = "globals"
  /\ pc' = "loop"
  /\ slot' = [i \in Slots |-> [slot[i] EXCEPT !.role = @ \/ slot[i].name # NoOutput]]
  /\ IF held = "other"
     THEN ev' = Append(ev, <<"finished">>) /\ UNCHANGED <<held, surf, err>>
     ELSE held' = "us" /\ UNCHANGED ev
          /\ GetLockSurfaces({slot[i].name : i \in 1 .. nOut} \ {NoOutput})
  /\ UNCHANGED <<store, factor, sent, present, active, nOut, kbd, entry, flags, exit, deaths>>

-----------------------------------------------------------------------------
(* Event handlers.  wl_display_dispatch runs every event it has read before *)
(* the loop looks at `running', so events are still handled after an unlock *)
(* was decided.                                                             *)

Dispatching(kind) == pc \in {"globals", "loop"} /\ ev # <<>> /\ Head(ev)[1] = kind
Taken == ev' = Tail(ev)

(* Mutant: an emptied slot is not used again. *)
FreeSlotsNeverReused == IF nOut < MaxOutputs THEN {nOut + 1} ELSE {}

(* The slot for a new output: an emptied one before a new one, or none. *)
FreeSlots ==
  LET emptied == {k \in 1 .. nOut : slot[k].name = NoOutput}
  IN IF emptied # {} THEN {Min(emptied)}
     ELSE IF nOut < MaxOutputs THEN {nOut + 1} ELSE {}

(* reg_global: an output that appears while locked is covered at once. *)
RegGlobal ==
  /\ Dispatching("global") /\ Taken
  /\ IF FreeSlots = {} THEN UNCHANGED <<slot, nOut, surf, err>>
     ELSE \E i \in FreeSlots :
            /\ nOut' = IF i > nOut THEN i ELSE nOut
            /\ slot' = [slot EXCEPT ![i].name = Head(ev)[2], ![i].role = (pc = "loop")]
            /\ IF pc = "loop" /\ held = "us" THEN GetLockSurfaces({Head(ev)[2]})
               ELSE UNCHANGED <<surf, err>>
  /\ UNCHANGED <<store, factor, held, sent, present, active, pc, kbd, entry, flags, exit, deaths>>

(* Mutant: the buffers of the output stay in its slot. *)
TeardownKeepsBuffer(s) == [s EXCEPT !.name = NoOutput, !.role = FALSE]

(* output_teardown *)
Teardown(s) == NoSlot

(* reg_remove *)
RegRemove ==
  /\ Dispatching("remove") /\ Taken
  /\ slot' = [i \in Slots |->
                IF i <= nOut /\ slot[i].name = Head(ev)[2] THEN Teardown(slot[i]) ELSE slot[i]]
  /\ UNCHANGED <<store, factor, compositor, pc, nOut, kbd, entry, flags, exit, deaths>>

(* output_alloc: the slots it can leave; no buffer is left when it fails. *)
OutputAlloc(s, size) ==
  {[s EXCEPT !.buf = size]}
     \cup IF AllocFaults /\ s.buf # size THEN {[s EXCEPT !.buf = 0]} ELSE {}

(* surface_configure: ack, allocate, draw this output.  An event for a      *)
(* surface already destroyed is dropped by the library.                     *)
SurfaceConfigure ==
  /\ Dispatching("configure") /\ Taken
  /\ LET o == Head(ev)[2]
         size == Head(ev)[3]
         mine == {i \in 1 .. nOut : slot[i].name = o /\ slot[i].role}
         acked == IF o \in present THEN [surf EXCEPT ![o].acked = size] ELSE surf
     IN IF mine = {} THEN UNCHANGED <<slot, surf, err>>
        ELSE \E i \in mine, s \in OutputAlloc(slot[Min(mine)], size) :
          IF s.buf = size
          THEN LET done == [s EXCEPT !.conf = TRUE]
               IN /\ slot' = [slot EXCEPT ![i] = done]
                  /\ DrawAll([j \in Slots |-> IF j = i THEN done ELSE NoSlot], acked)
          ELSE slot' = [slot EXCEPT ![i] = s] /\ surf' = acked /\ UNCHANGED err
  /\ UNCHANGED <<store, factor, held, sent, present, active,
                 pc, nOut, kbd, entry, flags, exit, deaths>>

LockLocked ==
  /\ Dispatching("locked") /\ Taken
  /\ flags' = flags \cup {"locked_ok"}
  /\ UNCHANGED <<store, factor, compositor, pc, slot, nOut, kbd, entry, exit, deaths>>

LockFinished ==
  /\ Dispatching("finished") /\ Taken
  /\ flags' = flags \cup {"finished"}
  /\ UNCHANGED <<store, factor, compositor, pc, slot, nOut, kbd, entry, exit, deaths>>

(* Mutant: a keyboard is acquired and never released. *)
KeyboardAfterAcquireOnly(cap) ==
  IF cap /\ kbd = "none" THEN (IF active THEN "live" ELSE "inert") ELSE kbd

(* seat_caps: released when the capability drops, acquired when it returns. *)
KeyboardAfter(cap) ==
  IF ~cap THEN "none"
  ELSE IF kbd = "none" THEN (IF active THEN "live" ELSE "inert")
  ELSE kbd

SeatCaps ==
  /\ Dispatching("caps") /\ Taken
  /\ kbd' = KeyboardAfter(Head(ev)[2])
  /\ UNCHANGED <<store, factor, compositor, pc, slot, nOut, entry, flags, exit, deaths>>

(* The entry after a key that adds to it. *)
Typed == IF entry + 1 < MaxEntry - 1 THEN entry + 1 ELSE entry

(* kb_key, other than Enter *)
KbKey ==
  /\ Dispatching("key") /\ Taken
  /\ Head(ev)[2] # "enter"
  /\ \/ Head(ev)[2] = "char" /\ entry' = Typed
        /\ IF Typed # entry THEN Redraw ELSE UNCHANGED <<surf, err>>
     \/ Head(ev)[2] = "erase" /\ entry' \in {0, IF entry > 0 THEN entry - 1 ELSE 0}
        /\ Redraw
  /\ UNCHANGED <<store, factor, held, sent, present, active,
                 pc, slot, nOut, kbd, flags, exit, deaths>>

(* Mutant: the code is compared, the other factors are not asked for. *)
VerifiedByEntry == CodeLen > 0 => entry = CodeLen

Verified == factor /\ (CodeLen > 0 => entry = CodeLen)

(* try_unlock: the entry is wiped whether or not it was right. *)
TryUnlock ==
  /\ Dispatching("key") /\ Taken
  /\ Head(ev)[2] = "enter"
  /\ Redraw
  /\ entry' = 0
  /\ flags' = IF Verified THEN flags \cup {"unlocking"} ELSE flags
  /\ UNCHANGED <<store, factor, held, sent, present, active,
                 pc, slot, nOut, kbd, exit, deaths>>

-----------------------------------------------------------------------------
(* The end.                                                                 *)

(* The process is gone, and with it what was queued for it. *)
Gone ==
  /\ pc' = "none" /\ slot' = [i \in Slots |-> NoSlot] /\ nOut' = 0
  /\ kbd' = "none" /\ entry' = 0 /\ flags' = {} /\ ev' = <<>>
  /\ surf' = [o \in Outputs |-> NoSurf] /\ sent' = FALSE

(* What main returns: 1 refused, 0 unlocked, 2 otherwise. *)
ExitStatus(ended) == IF "finished" \in ended THEN 1 ELSE IF "unlocking" \in ended THEN 0 ELSE 2

(* The loop ends once `running' is seen to be 0. *)
Leave ==
  /\ pc = "loop"
  /\ flags \cap {"finished", "unlocking"} # {}
  /\ Gone
  /\ exit' = ExitStatus(flags)
  /\ IF "finished" \in flags
     THEN UNCHANGED held /\ err' = IF sent THEN "bad unlock" ELSE err
     ELSE held' = "no" /\ err' = IF sent THEN err ELSE "bad unlock"
  /\ UNCHANGED <<store, factor, present, active, deaths>>

(* The process is killed, or the connection is lost and main goes on to its *)
(* return with the flags it has.  The compositor keeps the session locked,  *)
(* unless the unlock that was decided had reached it.                       *)
Die ==
  /\ pc # "none"
  /\ deaths < MaxDeaths
  /\ deaths' = deaths + 1
  /\ Gone
  /\ \E seen \in {{}, flags} : exit' = ExitStatus(seen)
  /\ \/ held' = IF held = "us" THEN "dead" ELSE held
     \/ pc = "loop" /\ "unlocking" \in flags /\ held' = "no"
  /\ UNCHANGED <<store, factor, present, active, err>>

-----------------------------------------------------------------------------
(* The compositor and the person.                                           *)

Send(e) == Len(ev) < MaxQueue /\ ev' = IF pc = "none" THEN ev ELSE Append(ev, e)

(* `locked' comes before any key is routed to a lock surface. *)
SendLocked ==
  /\ pc = "loop" /\ held = "us" /\ ~sent
  /\ Send(<<"locked">>)
  /\ sent' = TRUE
  /\ UNCHANGED <<store, factor, held, present, surf, active, err, client>>

Configure(o, size) ==
  /\ surf[o].role /\ surf[o].size # size
  /\ Send(<<"configure", o, size>>)
  /\ surf' = [surf EXCEPT ![o].size = size]
  /\ UNCHANGED <<store, factor, held, sent, present, active, err, client>>

(* A registry name is not used again while its removal is on its way. *)
OutputNew(o) ==
  /\ o \notin present
  /\ Cardinality(present) < MaxOutputs
  /\ \A i \in DOMAIN ev : ev[i] # <<"remove", o>>
  /\ Send(<<"global", o>>)
  /\ present' = present \cup {o}
  /\ UNCHANGED <<store, factor, held, sent, surf, active, err, client>>

OutputGone(o) ==
  /\ o \in present
  /\ Send(<<"remove", o>>)
  /\ present' = present \ {o}
  /\ surf' = [surf EXCEPT ![o] = NoSurf]
  /\ UNCHANGED <<store, factor, held, sent, active, err, client>>

(* Ctrl+Alt+Fn: the seat loses its keyboard, or has one again. *)
SwitchVt ==
  /\ Send(<<"caps", ~active>>)
  /\ active' = ~active
  /\ kbd' = IF active /\ kbd = "live" THEN "inert" ELSE kbd
  /\ UNCHANGED <<store, factor, held, sent, present, surf, err,
                 pc, slot, nOut, entry, flags, exit, deaths>>

(* A key reaches a lock surface's client through a live keyboard. *)
Press(k) ==
  /\ held = "us" /\ sent /\ active /\ kbd = "live"
  /\ \E o \in present : surf[o].role
  /\ Send(<<"key", k>>)
  /\ UNCHANGED <<store, factor, compositor, client>>

Factor == factor' = ~factor /\ UNCHANGED <<store, compositor, ev, client>>

(* The other locker unlocks. *)
OtherReleases ==
  /\ held = "other"
  /\ held' = "no"
  /\ UNCHANGED <<store, factor, sent, present, surf, active, err, ev, client>>

Dispatch ==
  \/ RegGlobal \/ RegRemove \/ SurfaceConfigure \/ LockLocked \/ LockFinished
  \/ SeatCaps \/ KbKey \/ TryUnlock

Next ==
  \/ Connect \/ TakeLock \/ Dispatch \/ Leave \/ Die
  \/ SendLocked \/ SwitchVt \/ Factor \/ OtherReleases
  \/ \E o \in Outputs : OutputNew(o) \/ OutputGone(o)
  \/ \E o \in Outputs, size \in Sizes : Configure(o, size)
  \/ \E k \in KeySyms : Press(k)

Spec == Init /\ [][Next]_vars

(* The client is scheduled and relaunched (autostart loops until status 0), *)
(* the compositor gets round to `locked', another locker is satisfied in    *)
(* the end, and the person keeps pressing Enter.                            *)
FairSpec ==
  /\ Spec
  /\ WF_vars(Connect) /\ WF_vars(TakeLock) /\ WF_vars(Dispatch) /\ WF_vars(Leave)
  /\ SF_vars(SendLocked) /\ WF_vars(OtherReleases) /\ SF_vars(Press("enter"))

-----------------------------------------------------------------------------
(* Properties.                                                              *)

(* The client never breaks the order ext-session-lock-v1 demands, which     *)
(* would disconnect it and strand the session: acknowledge before the first *)
(* commit, buffers of exactly the acknowledged size, one surface per        *)
(* output, the right way out; through VT switches, hotplug, resizing and    *)
(* failed allocations.                                                      *)
NoProtocolError == err = "none"

(* "The exit code is the contract, and 0 means one thing: a person          *)
(* demonstrated a factor and unlocked" (lock.c:698): whoever is told 0 has  *)
(* an open session, and a session that opens was unlocked by status 0.      *)
ExitStatusHonest ==
  [][/\ exit' = 0 /\ pc # "none" /\ pc' = "none" => held' = "no"
     /\ held \in {"us", "dead"} /\ held' = "no" => exit' = 0]_vars

(* What a run of veron-lock looks like to whoever started it.               *)
Contract == INSTANCE Locker WITH
       holder <- held,
       running <- pc # "none",
       proved <- "unlocking" \in flags,
       status <- IF exit = 9 THEN "none" ELSE IF exit = 0 THEN "ok" ELSE "failed"

(* The session that a run locked is opened only by that run, and status 0   *)
(* is returned only by a run, that handled a key while the factors were     *)
(* there (labwc-greeter/autostart relies on both); every other end of it, a *)
(* refusal or a death at any point, leaves the session locked and is told   *)
(* as a failure.  A run that loses its connection between the check and the *)
(* end may be told wrong in either direction.                               *)
ImplementsLocker == Contract!Spec

(* A VT switch back gives the person the keyboard back: once every event is *)
(* handled, in front of our VT, the client holds a keyboard that delivers,  *)
(* however often the capability went and came while it was busy (seat_caps).*)
KeyboardReturns == pc # "none" /\ active /\ ev = <<>> => kbd = "live"

(* Once every event is handled, every output is covered by a lock surface,  *)
(* and shows a buffer of the size it was last configured to, unless no      *)
(* buffer could be had.                                                     *)
EveryOutputCovered ==
  pc = "loop" /\ held = "us" /\ ev = <<>> =>
    \A o \in present :
      /\ surf[o].role
      /\ surf[o].buf = surf[o].size \/ BufOf(slot, o) = 0

(* A lock is never refused for ever: with a factor in place, the VT in      *)
(* front and an output to draw on, Enter ends the relaunching with status 0 *)
(* in the end, whatever VT switches, refusals and deaths of the client came *)
(* before; the session is open then, unless the connection was lost between *)
(* the check and the unlock.                                                *)
FactorUnlocks ==
  (store = "armed" /\ <>[](factor /\ active) /\ \E o \in Outputs : <>[](o \in present))
     => <>(exit = 0)

=============================================================================
