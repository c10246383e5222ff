------------------------- MODULE SessionLockProofs -------------------------
(***************************************************************************)
(* The client of SessionLock never breaks the protocol's order and covers  *)
(* every output once its events are handled, for any number of outputs,    *)
(* slots and sizes, any queue and any number of deaths; it keeps Locker's  *)
(* contract with whoever starts it, and has a keyboard that delivers once  *)
(* its events are handled.                                                 *)
(*                                                                         *)
(* The client acts on events that may be out of date.  What makes that     *)
(* sound is that the events in flight lead, one by one, from the outputs   *)
(* the client has slots for to the outputs the compositor has.  The same   *)
(* holds of the seat: its events lead from the keyboard the client holds   *)
(* to the one the VT in front gives it.                                    *)
(***************************************************************************)
EXTENDS SessionLock, FiniteSetTheorems, SequenceTheorems, TLAPS

-----------------------------------------------------------------------------
(* The inductive invariant.                                                 *)

(* The outputs that the slots sl are for. *)
Known(sl) == {sl[i].name : i \in Slots} \ {NoOutput}

Is(e, kind, o) == e[1] = kind /\ e[2] = o

(* What the event e does to the outputs the client knows of. *)
Move(A, e, B) ==
  /\ e[1] = "global" => e[2] \notin A /\ B = A \cup {e[2]}
  /\ e[1] = "remove" => e[2] \in A /\ B = A \ {e[2]}
  /\ e[1] \notin {"global", "remove"} => B = A

(* V[j] is what the client knows after j of the events q.  A name that was  *)
(* withdrawn is not used again within q, and a surface is configured only   *)
(* while its output is known.                                               *)
ViewsBy(V, q, K, P) ==
  /\ V \in [0 .. Len(q) -> SUBSET Outputs]
  /\ V[0] = K /\ V[Len(q)] = P
  /\ \A j \in 1 .. Len(q) : Move(V[j - 1], q[j], V[j])
  /\ \A j \in 0 .. Len(q) : Cardinality(V[j]) <= MaxOutputs
  /\ \A j \in 1 .. Len(q), o \in Outputs :
       Is(q[j], "remove", o) => \A k \in j .. Len(q) : o \notin V[k]
  /\ \A j \in 1 .. Len(q), o \in Outputs :
       Is(q[j], "configure", o) => \A k \in 0 .. j - 1 : o \in V[k]
  /\ \A m \in 0 .. Len(q), o \in Outputs : \A k \in 0 .. m :
       o \in V[k] /\ o \notin V[m] => \E j \in k + 1 .. m : Is(q[j], "remove", o)

(* The events q lead from the outputs K to the outputs P. *)
Views(q, K, P) == \E V \in [0 .. Len(q) -> SUBSET Outputs] : ViewsBy(V, q, K, P)

NoConf(q, o) == \A j \in 1 .. Len(q) : ~Is(q[j], "configure", o)

(* The last size announced for o in q is s. *)
Last(q, o, s) ==
  \A j \in 1 .. Len(q) :
    Is(q[j], "configure", o) /\ (\A k \in j + 1 .. Len(q) : ~Is(q[k], "configure", o))
      => q[j][3] = s

NoKind(q, kind) == \A j \in 1 .. Len(q) : q[j][1] # kind

(* Slots beyond nOut and slots without an output are empty; no two slots    *)
(* are for the same output; in the loop every output has its surface, and   *)
(* before it none has.                                                      *)
SlotInv(p, sl, n) ==
  /\ \A i \in Slots : i > n \/ sl[i].name = NoOutput => sl[i] = NoSlot
  /\ \A i, j \in Slots : sl[i].name = sl[j].name /\ sl[i].name # NoOutput => i = j
  /\ p = "loop" => \A i \in Slots : sl[i].name # NoOutput => sl[i].role
  /\ p # "loop" => \A i \in Slots : ~sl[i].role /\ ~sl[i].conf /\ sl[i].buf = 0
  /\ p = "none" => Known(sl) = {}

(* The events in flight lead from what the client knows to what there is. *)
QueueInv(p, q, K, P) ==
  /\ Cardinality(P) <= MaxOutputs
  /\ p = "none" => q = <<>>
  /\ p # "none" => Views(q, K, P)

(* The lock is ours only in the loop, surfaces are configured only for its  *)
(* holder, keys come only after `locked', and `finished' only in its place. *)
LockInv(p, h, sn, q, fl) ==
  /\ h = "us" => p = "loop"
  /\ sn => h = "us"
  /\ "finished" \in fl \/ ~NoKind(q, "finished") => p = "loop" /\ h # "us"
  /\ "unlocking" \in fl \/ ~NoKind(q, "key") => sn
  /\ ~NoKind(q, "configure") => h = "us"

(* Exactly the outputs that both sides know of have a lock surface; a slot  *)
(* with a buffer to show has had its size acknowledged; and a surface with  *)
(* no configure in flight shows the size it was last configured to, unless  *)
(* its slot has no buffer.                                                  *)
SurfInv(h, P, sf, q, sl) ==
  /\ \A o \in Outputs : sf[o].role <=> h = "us" /\ o \in P /\ o \in Known(sl)
  /\ \A o \in Outputs : ~sf[o].role => sf[o] = NoSurf
  /\ \A i \in Slots : \A o \in Outputs :
       sl[i].name = o /\ sf[o].role =>
         /\ sl[i].conf /\ sl[i].buf # 0 => sf[o].acked = sl[i].buf
         /\ Last(q, o, sf[o].size)
         /\ NoConf(q, o) => /\ sf[o].acked = sf[o].size
                            /\ sf[o].buf = sf[o].size \/ sl[i].buf = 0

LockerInv ==
  /\ TypeOK
  /\ SlotInv(pc, slot, nOut)
  /\ QueueInv(pc, ev, Known(slot), present)
  /\ LockInv(pc, held, sent, ev, flags)
  /\ SurfInv(held, present, surf, ev, slot)
  /\ NoProtocolError

-----------------------------------------------------------------------------
(* Events and queues.                                                       *)

\* What an event carries, by its kind.
LEMMA EventTypes ==
  ASSUME NEW e \in Events
  PROVE  /\ e[1] \in {"global", "remove", "configure", "caps", "key", "locked", "finished"}
         /\ e[1] \in {"global", "remove", "configure"} => e[2] \in Outputs
         /\ e[1] = "configure" => e[3] \in Sizes
         /\ e[1] = "remove" => e = <<"remove", e[2]>>
         /\ e[1] = "caps" => e[2] \in BOOLEAN
         /\ e[1] = "key" => e[2] \in KeySyms
<1>1. CASE e \in {"global", "remove"} \X Outputs
  BY <1>1
<1>2. CASE e \in {"configure"} \X Outputs \X Sizes
  BY <1>2
<1>3. CASE e \in {"caps"} \X BOOLEAN
  BY <1>3
<1>4. CASE e \in {"key"} \X KeySyms
  BY <1>4
<1>5. CASE e \in {<<"locked">>, <<"finished">>}
  BY <1>5
<1> QED  BY <1>1, <1>2, <1>3, <1>4, <1>5 DEF Events

\* The events that the compositor sends.
LEMMA EventsAre ==
  /\ \A o \in Outputs : <<"global", o>> \in Events /\ <<"remove", o>> \in Events
  /\ \A o \in Outputs, s \in Sizes : <<"configure", o, s>> \in Events
  /\ \A b \in BOOLEAN : <<"caps", b>> \in Events
  /\ \A k \in KeySyms : <<"key", k>> \in Events
  /\ <<"locked">> \in Events /\ <<"finished">> \in Events
BY DEF Events

\* The queue after its first event was taken.
LEMMA TailFacts ==
  ASSUME NEW q \in Seq(Events), q # <<>>
  PROVE  /\ Tail(q) \in Seq(Events)
         /\ Len(q) \in Nat /\ Len(q) >= 1
         /\ Len(Tail(q)) = Len(q) - 1
         /\ \A i \in 1 .. Len(q) - 1 : Tail(q)[i] = q[i + 1]
         /\ Head(q) = q[1] /\ Head(q) \in Events
BY HeadTailProperties, EmptySeq, LenProperties

\* The queue after an event was sent.
LEMMA AppendFacts ==
  ASSUME NEW q \in Seq(Events), NEW e \in Events
  PROVE  /\ Append(q, e) \in Seq(Events)
         /\ Len(q) \in Nat
         /\ Len(Append(q, e)) = Len(q) + 1
         /\ \A i \in 1 .. Len(q) : Append(q, e)[i] = q[i]
         /\ Append(q, e)[Len(q) + 1] = e
BY AppendProperties, LenProperties

\* Taking an event moves what the client knows one view on; a withdrawn output
\* is gone for good and has no configure left in flight.
LEMMA ViewsTail ==
  ASSUME NEW q \in Seq(Events), q # <<>>, NEW K, NEW P, Views(q, K, P)
  PROVE  \E K1 \in SUBSET Outputs :
           /\ Move(K, Head(q), K1) /\ Views(Tail(q), K1, P)
           /\ Cardinality(K1) <= MaxOutputs
           /\ Head(q)[1] = "remove" => Head(q)[2] \notin P /\ NoConf(Tail(q), Head(q)[2])
           /\ Head(q)[1] = "configure" => Head(q)[2] \in K
<1> DEFINE t == Tail(q)
           n == Len(q)
<1>q. /\ t \in Seq(Events) /\ n \in Nat /\ n >= 1 /\ Len(t) = n - 1
      /\ \A i \in 1 .. n - 1 : t[i] = q[i + 1]
      /\ Head(q) = q[1] /\ Head(q) \in Events
  BY TailFacts
<1>e. \A i \in 1 .. n : q[i] \in Events
  BY ElementOfSeq
<1>1. PICK V \in [0 .. n -> SUBSET Outputs] : ViewsBy(V, q, K, P)
  BY DEF Views
<1> DEFINE W == [j \in 0 .. n - 1 |-> V[j + 1]]
<1> HIDE DEF t, n
<1>2. W \in [0 .. Len(t) -> SUBSET Outputs]
  BY <1>q
<1>w. \A j \in 0 .. n - 1 : W[j] = V[j + 1]
  OBVIOUS
<1> HIDE DEF W
<1>3. ViewsBy(W, t, V[1], P)
  <2>1. W[0] = V[1] /\ W[Len(t)] = P
    BY <1>1, <1>q, <1>w DEF ViewsBy, n
  <2>2. ASSUME NEW j \in 1 .. Len(t) PROVE Move(W[j - 1], t[j], W[j])
    <3>1. j + 1 \in 1 .. n /\ (j + 1) - 1 = j /\ j - 1 \in 0 .. n - 1 /\ j \in 0 .. n - 1 /\ (j - 1) + 1 = j
      BY <1>q
    <3>2. Move(V[j], q[j + 1], V[j + 1])
      BY <1>1, <3>1 DEF ViewsBy, n
    <3>3. W[j - 1] = V[j] /\ W[j] = V[j + 1] /\ t[j] = q[j + 1]
      BY <1>w, <3>1, <1>q
    <3> QED  BY <3>2, <3>3
  <2>3. ASSUME NEW j \in 0 .. Len(t) PROVE Cardinality(W[j]) <= MaxOutputs
    <3>1. j + 1 \in 0 .. n /\ j \in 0 .. n - 1
      BY <1>q
    <3> QED  BY <1>1, <3>1, <1>w DEF ViewsBy, n
  <2>4. ASSUME NEW j \in 1 .. Len(t), NEW o \in Outputs, Is(t[j], "remove", o),
               NEW k \in j .. Len(t)
        PROVE  o \notin W[k]
    <3>1. j + 1 \in 1 .. n /\ k + 1 \in j + 1 .. n /\ k \in 0 .. n - 1 /\ t[j] = q[j + 1]
      BY <1>q
    <3> QED  BY <1>1, <3>1, <1>w, <2>4 DEF ViewsBy, n
  <2>5. ASSUME NEW j \in 1 .. Len(t), NEW o \in Outputs, Is(t[j], "configure", o),
               NEW k \in 0 .. j - 1
        PROVE  o \in W[k]
    <3>1. j + 1 \in 1 .. n /\ k + 1 \in 0 .. (j + 1) - 1 /\ k \in 0 .. n - 1 /\ t[j] = q[j + 1]
      BY <1>q
    <3> QED  BY <1>1, <3>1, <1>w, <2>5 DEF ViewsBy, n
  <2>6. ASSUME NEW m \in 0 .. Len(t), NEW o \in Outputs, NEW k \in 0 .. m,
               o \in W[k], o \notin W[m]
        PROVE  \E j \in k + 1 .. m : Is(t[j], "remove", o)
    <3>1. m + 1 \in 0 .. n /\ m \in 0 .. n - 1 /\ k + 1 \in 0 .. m + 1 /\ k \in 0 .. n - 1
      BY <1>q
    <3>2. PICK j \in (k + 1) + 1 .. m + 1 : Is(q[j], "remove", o)
      BY <1>1, <3>1, <1>w, <2>6 DEF ViewsBy, n
    <3>3. j - 1 \in k + 1 .. m /\ j - 1 \in 1 .. n - 1 /\ (j - 1) + 1 = j
      BY <1>q
    <3>4. t[j - 1] = q[j]
      BY <3>3, <1>q
    <3> QED  BY <3>2, <3>3, <3>4
  <2> QED  BY <1>2, <2>1, <2>2, <2>3, <2>4, <2>5, <2>6 DEF ViewsBy
<1>4. Views(t, V[1], P)
  BY <1>2, <1>3 DEF Views
<1>5. /\ 1 \in 1 .. n /\ 1 \in 0 .. n /\ 0 \in 0 .. n /\ 0 \in 0 .. 1 - 1 /\ n \in 1 .. n /\ 1 - 1 = 0
  BY <1>q
<1>6. Move(K, q[1], V[1]) /\ V[1] \in SUBSET Outputs /\ Cardinality(V[1]) <= MaxOutputs
  BY <1>1, <1>5 DEF ViewsBy, n
<1>7. ASSUME q[1][1] = "remove" PROVE q[1][2] \notin P /\ NoConf(t, q[1][2])
  <2> DEFINE o == q[1][2]
  <2>1. o \in Outputs /\ Is(q[1], "remove", o)
    BY <1>7, <1>q, EventTypes DEF Is
  <2> HIDE DEF o
  <2>2. \A k \in 1 .. n : o \notin V[k]
    BY <1>1, <1>5, <2>1 DEF ViewsBy, n
  <2>3. o \notin P
    BY <2>2, <1>5, <1>1 DEF ViewsBy, n
  <2>4. ASSUME NEW j \in 1 .. Len(t), Is(t[j], "configure", o) PROVE FALSE
    <3>1. j + 1 \in 1 .. n /\ 1 \in 0 .. (j + 1) - 1 /\ t[j] = q[j + 1]
      BY <1>q
    <3>2. o \in V[1]
      BY <1>1, <3>1, <2>1, <2>4 DEF ViewsBy, n
    <3> QED  BY <3>2, <2>2, <1>5
  <2> QED  BY <2>3, <2>4 DEF NoConf, o
<1>8. ASSUME q[1][1] = "configure" PROVE q[1][2] \in K
  <2>1. q[1][2] \in Outputs /\ Is(q[1], "configure", q[1][2])
    BY <1>8, <1>q, EventTypes DEF Is
  <2> QED  BY <1>1, <1>5, <2>1 DEF ViewsBy, n
<1> QED  BY <1>4, <1>6, <1>7, <1>8, <1>q DEF t

\* What the views say of the two ends: with nothing in flight both sides know
\* the same outputs; a missing one is on its way out; an unknown one is not configured.
LEMMA ViewsFacts ==
  ASSUME NEW q \in Seq(Events), NEW K, NEW P, Views(q, K, P)
  PROVE  /\ q = <<>> => K = P
         /\ \A o \in P : \A j \in 1 .. Len(q) : ~Is(q[j], "remove", o)
         /\ \A o \in K : o \notin P => \E j \in 1 .. Len(q) : Is(q[j], "remove", o)
         /\ \A o \in Outputs : o \notin K => NoConf(q, o)
         /\ K \in SUBSET Outputs /\ P \in SUBSET Outputs
<1> DEFINE n == Len(q)
<1>1. PICK V \in [0 .. n -> SUBSET Outputs] : ViewsBy(V, q, K, P)
  BY DEF Views
<1>n. n \in Nat
  BY LenProperties
<1>2. q = <<>> => n = 0
  BY EmptySeq
<1> HIDE DEF n
<1>i. 0 \in 0 .. n /\ n \in 0 .. n /\ 0 + 1 = 1
  BY <1>n
<1>3. q = <<>> => K = P
  BY <1>1, <1>2 DEF ViewsBy, n
<1>4. K \in SUBSET Outputs /\ P \in SUBSET Outputs
  BY <1>1, <1>i DEF ViewsBy, n
<1>5. ASSUME NEW o \in P, NEW j \in 1 .. n, Is(q[j], "remove", o) PROVE FALSE
  <2>1. n \in j .. n /\ o \in Outputs
    BY <1>n, <1>4
  <2> QED  BY <1>1, <2>1, <1>5 DEF ViewsBy, n
<1>6. ASSUME NEW o \in K, o \notin P PROVE \E j \in 1 .. n : Is(q[j], "remove", o)
  <2>1. o \in V[0] /\ o \notin V[n] /\ o \in Outputs
    BY <1>1, <1>4, <1>6 DEF ViewsBy, n
  <2>2. \E j \in 0 + 1 .. n : Is(q[j], "remove", o)
    BY <1>1, <2>1, <1>i DEF ViewsBy, n
  <2> QED  BY <2>2, <1>i
<1>7. ASSUME NEW o \in Outputs, o \notin K PROVE NoConf(q, o)
  <2>1. ASSUME NEW j \in 1 .. n, Is(q[j], "configure", o) PROVE FALSE
    <3>1. 0 \in 0 .. j - 1
      BY <1>n
    <3> QED  BY <1>1, <3>1, <2>1, <1>7 DEF ViewsBy, n
  <2> QED  BY <2>1 DEF NoConf, n
<1> QED  BY <1>3, <1>4, <1>5, <1>6, <1>7 DEF n

\* Nothing in flight.
LEMMA ViewsNone ==
  ASSUME NEW P \in SUBSET Outputs, Cardinality(P) <= MaxOutputs
  PROVE  Views(<<>>, P, P)
<1> DEFINE V == [j \in 0 .. 0 |-> P]
<1>1. Len(<<>>) = 0
  BY EmptySeq
<1>2. V \in [0 .. Len(<<>>) -> SUBSET Outputs] /\ V[0] = P
  BY <1>1
<1>3. \A j \in 0 .. 0 : j = 0
  OBVIOUS
<1>4. \A j \in 1 .. 0 : FALSE
  OBVIOUS
<1> HIDE DEF V
<1>5. ViewsBy(V, <<>>, P, P)
  BY <1>1, <1>2, <1>3, <1>4 DEF ViewsBy
<1> QED  BY <1>2, <1>5 DEF Views

\* Sending an event adds a view, if the compositor keeps its rules on names.
LEMMA ViewsAppend ==
  ASSUME NEW q \in Seq(Events), NEW e \in Events, NEW K, NEW P, NEW P1 \in SUBSET Outputs,
         Views(q, K, P), Move(P, e, P1), Cardinality(P1) <= MaxOutputs,
         e[1] = "global" => \A j \in 1 .. Len(q) : ~Is(q[j], "remove", e[2]),
         e[1] = "configure" => e[2] \in K /\ e[2] \in P
  PROVE  Views(Append(q, e), K, P1)
<1> DEFINE r == Append(q, e)
           n == Len(q)
<1>q. /\ r \in Seq(Events) /\ n \in Nat /\ Len(r) = n + 1
      /\ \A i \in 1 .. n : r[i] = q[i]
      /\ r[n + 1] = e
  BY AppendFacts
<1>1. PICK V \in [0 .. n -> SUBSET Outputs] : ViewsBy(V, q, K, P)
  BY DEF Views
<1> DEFINE W == [j \in 0 .. n + 1 |-> IF j <= n THEN V[j] ELSE P1]
<1> HIDE DEF r, n
<1>2. W \in [0 .. n + 1 -> SUBSET Outputs]
  BY <1>q
<1>w. /\ \A j \in 0 .. n : W[j] = V[j]
      /\ W[n + 1] = P1
  BY <1>q
<1> HIDE DEF W
<1>i. /\ 0 \in 0 .. n /\ n \in 0 .. n /\ n + 1 \in 1 .. n + 1 /\ (n + 1) - 1 = n
      /\ \A j \in 1 .. n + 1 : j \in 1 .. n \/ j = n + 1
      /\ \A j \in 0 .. n + 1 : j \in 0 .. n \/ j = n + 1
      /\ \A j \in 1 .. n : j - 1 \in 0 .. n /\ j \in 0 .. n
  BY <1>q
<1>p. V[0] = K /\ V[n] = P
  BY <1>1 DEF ViewsBy, n
<1>3. W[0] = K /\ W[n + 1] = P1
  BY <1>p, <1>i, <1>w
<1>4. ASSUME NEW j \in 1 .. n + 1 PROVE Move(W[j - 1], r[j], W[j])
  <2>1. CASE j \in 1 .. n
    <3>1. Move(V[j - 1], q[j], V[j])
      BY <1>1, <2>1 DEF ViewsBy, n
    <3> QED  BY <3>1, <1>w, <1>i, <1>q, <2>1
  <2>2. CASE j = n + 1
    <3>1. W[j - 1] = P /\ W[j] = P1 /\ r[j] = e
      BY <2>2, <1>i, <1>w, <1>p, <1>q
    <3> QED  BY <3>1
  <2> QED  BY <2>1, <2>2, <1>i
<1>5. ASSUME NEW j \in 0 .. n + 1 PROVE Cardinality(W[j]) <= MaxOutputs
  BY <1>1, <1>w, <1>i DEF ViewsBy, n
<1>6. ASSUME NEW j \in 1 .. n + 1, NEW o \in Outputs, Is(r[j], "remove", o), NEW k \in j .. n + 1
      PROVE  o \notin W[k]
  <2>1. CASE j \in 1 .. n /\ k \in j .. n
    <3>1. o \notin V[k] /\ k \in 0 .. n
      BY <1>1, <2>1, <1>6, <1>q DEF ViewsBy, n
    <3> QED  BY <3>1, <1>w
  <2>2. CASE j \in 1 .. n /\ k = n + 1
    <3>1. Is(q[j], "remove", o) /\ n \in j .. n
      BY <2>2, <1>6, <1>q
    <3>2. o \notin P
      BY <3>1, <2>2, <1>1, <1>p DEF ViewsBy, n
    <3>3. ~(e[1] = "global" /\ e[2] = o)
      BY <3>1, <2>2 DEF n
    <3>4. o \notin P1
      BY <3>2, <3>3, EventTypes DEF Move
    <3> QED  BY <3>4, <2>2, <1>w
  <2>3. CASE j = n + 1
    <3>1. k = n + 1 /\ Is(e, "remove", o)
      BY <2>3, <1>6, <1>q
    <3>2. o \notin P1
      BY <3>1 DEF Move, Is
    <3> QED  BY <3>1, <3>2, <1>w
  <2>4. k \in j .. n \/ k = n + 1
    BY <1>q
  <2> QED  BY <2>1, <2>2, <2>3, <2>4, <1>i
<1>7. ASSUME NEW j \in 1 .. n + 1, NEW o \in Outputs, Is(r[j], "configure", o), NEW k \in 0 .. j - 1
      PROVE  o \in W[k]
  <2>1. CASE j \in 1 .. n
    <3>1. o \in V[k] /\ k \in 0 .. n
      BY <1>1, <2>1, <1>7, <1>q DEF ViewsBy, n
    <3> QED  BY <3>1, <1>w
  <2>2. CASE j = n + 1
    <3>1. Is(e, "configure", o) /\ k \in 0 .. n
      BY <2>2, <1>7, <1>q
    <3>2. o \in V[0] /\ o \in V[n]
      BY <3>1, <1>p DEF Is
    <3>3. ASSUME o \notin V[k] PROVE FALSE
      <4>1. PICK j1 \in 0 + 1 .. k : Is(q[j1], "remove", o)
        BY <3>1, <3>2, <3>3, <1>1, <1>q DEF ViewsBy, n
      <4>2. j1 \in 1 .. n /\ n \in j1 .. n
        BY <3>1, <1>q
      <4>3. o \notin V[n]
        BY <1>1, <4>1, <4>2 DEF ViewsBy, n
      <4> QED  BY <4>3, <3>2
    <3> QED  BY <3>1, <3>3, <1>w
  <2> QED  BY <2>1, <2>2, <1>i
<1>8. ASSUME NEW m \in 0 .. n + 1, NEW o \in Outputs, NEW k \in 0 .. m, o \in W[k], o \notin W[m]
      PROVE  \E j \in k + 1 .. m : Is(r[j], "remove", o)
  <2>1. CASE m \in 0 .. n
    <3>1. k \in 0 .. n
      BY <1>q, <2>1
    <3>2. PICK j \in k + 1 .. m : Is(q[j], "remove", o)
      BY <1>1, <2>1, <1>8, <1>w, <3>1 DEF ViewsBy, n
    <3>3. j \in 1 .. n
      BY <1>q, <2>1, <3>1
    <3> QED  BY <3>2, <3>3, <1>q
  <2>2. CASE m = n + 1
    <3>1. o \notin P1 /\ k # m
      BY <2>2, <1>8, <1>w
    <3>2. k \in 0 .. n /\ o \in V[k]
      BY <2>2, <3>1, <1>8, <1>w, <1>q
    <3>3. CASE o \in P
      <4>1. Is(e, "remove", o)
        BY <3>1, <3>3, EventTypes DEF Move, Is
      <4> QED  BY <4>1, <2>2, <3>2, <1>q
    <3>4. CASE o \notin P
      <4>1. PICK j \in k + 1 .. n : Is(q[j], "remove", o)
        BY <1>1, <3>2, <3>4, <1>p, <1>i DEF ViewsBy, n
      <4>2. j \in 1 .. n /\ j \in k + 1 .. m
        BY <2>2, <3>2, <1>q
      <4> QED  BY <4>1, <4>2, <1>q
    <3> QED  BY <3>3, <3>4
  <2> QED  BY <2>1, <2>2, <1>i
<1>9. ViewsBy(W, r, K, P1)
  BY <1>q, <1>2, <1>3, <1>4, <1>5, <1>6, <1>7, <1>8 DEF ViewsBy
<1> QED  BY <1>q, <1>2, <1>9 DEF Views, r

-----------------------------------------------------------------------------
\* What is in flight once the first event was taken.
LEMMA TailQueue ==
  ASSUME NEW q \in Seq(Events), q # <<>>
  PROVE  /\ \A kind : NoKind(q, kind) => NoKind(Tail(q), kind)
         /\ \A kind : NoKind(q, kind) => Head(q)[1] # kind
         /\ \A o, s : Last(q, o, s) => Last(Tail(q), o, s)
         /\ \A o : ~Is(Head(q), "configure", o) => (NoConf(q, o) <=> NoConf(Tail(q), o))
         /\ \A o, s : Is(Head(q), "configure", o) /\ NoConf(Tail(q), o) /\ Last(q, o, s)
                        => Head(q)[3] = s
<1> DEFINE t == Tail(q)
           n == Len(q)
<1>q. /\ n \in Nat /\ n >= 1 /\ Len(t) = n - 1
      /\ \A i \in 1 .. n - 1 : t[i] = q[i + 1]
      /\ Head(q) = q[1]
  BY TailFacts
<1> HIDE DEF t, n
<1>i. /\ 1 \in 1 .. n
      /\ \A i \in 1 .. n - 1 : i + 1 \in 1 .. n
      /\ \A i \in 1 .. n : i = 1 \/ (i - 1 \in 1 .. n - 1 /\ (i - 1) + 1 = i)
  BY <1>q
<1>s. \A i \in 1 .. n : i = 1 \/ (i - 1 \in 1 .. n - 1 /\ t[i - 1] = q[i])
  BY <1>q, <1>i
<1>1. ASSUME NEW kind, NoKind(q, kind) PROVE NoKind(t, kind) /\ Head(q)[1] # kind
  BY <1>1, <1>q, <1>i DEF NoKind, n
<1>2. ASSUME NEW o, ~Is(Head(q), "configure", o) PROVE NoConf(q, o) <=> NoConf(t, o)
  <2>1. ASSUME NoConf(q, o) PROVE NoConf(t, o)
    BY <2>1, <1>q, <1>i DEF NoConf, n
  <2>2. ASSUME NoConf(t, o), NEW j \in 1 .. n PROVE ~Is(q[j], "configure", o)
    BY <2>2, <1>2, <1>q, <1>s DEF NoConf
  <2> QED  BY <2>1, <2>2 DEF NoConf, n
<1>3. ASSUME NEW o, NEW s, Last(q, o, s) PROVE Last(t, o, s)
  <2>1. SUFFICES ASSUME NEW j \in 1 .. n - 1, Is(t[j], "configure", o),
                        \A k \in j + 1 .. n - 1 : ~Is(t[k], "configure", o)
                 PROVE  t[j][3] = s
    BY <1>q DEF Last
  <2>2. ASSUME NEW k \in (j + 1) + 1 .. n PROVE ~Is(q[k], "configure", o)
    <3>1. k - 1 \in j + 1 .. n - 1 /\ k \in 1 .. n /\ k # 1
      BY <1>q
    <3> QED  BY <3>1, <2>1, <1>s
  <2>3. j + 1 \in 1 .. n /\ t[j] = q[j + 1]
    BY <1>i, <1>q
  <2> QED  BY <2>1, <2>2, <2>3, <1>3 DEF Last, n
<1>4. ASSUME NEW o, NEW s, Is(Head(q), "configure", o), NoConf(t, o), Last(q, o, s)
      PROVE  Head(q)[3] = s
  <2>1. ASSUME NEW k \in 1 + 1 .. n PROVE ~Is(q[k], "configure", o)
    <3>1. k \in 1 .. n /\ k # 1
      BY <1>q
    <3> QED  BY <3>1, <1>s, <1>4, <1>q DEF NoConf
  <2> QED  BY <2>1, <1>4, <1>q, <1>i DEF Last, n
<1> QED  BY <1>1, <1>2, <1>3, <1>4 DEF t

\* What is in flight once an event was sent.
LEMMA AppendQueue ==
  ASSUME NEW q \in Seq(Events), NEW e \in Events
  PROVE  /\ \A kind : NoKind(Append(q, e), kind) <=> NoKind(q, kind) /\ e[1] # kind
         /\ \A o : NoConf(Append(q, e), o) <=> NoConf(q, o) /\ ~Is(e, "configure", o)
         /\ \A o, s : Last(q, o, s) /\ ~Is(e, "configure", o) => Last(Append(q, e), o, s)
         /\ \A o : Is(e, "configure", o) => Last(Append(q, e), o, e[3])
<1> DEFINE r == Append(q, e)
           n == Len(q)
<1>q. /\ n \in Nat /\ Len(r) = n + 1
      /\ \A i \in 1 .. n : r[i] = q[i]
      /\ r[n + 1] = e
  BY AppendFacts
<1> HIDE DEF r, n
<1>i. /\ n + 1 \in 1 .. n + 1
      /\ \A i \in 1 .. n : i \in 1 .. n + 1
      /\ \A i \in 1 .. n + 1 : i \in 1 .. n \/ i = n + 1
  BY <1>q
<1>1. ASSUME NEW kind PROVE NoKind(r, kind) <=> NoKind(q, kind) /\ e[1] # kind
  BY <1>q, <1>i DEF NoKind, n
<1>2. ASSUME NEW o PROVE NoConf(r, o) <=> NoConf(q, o) /\ ~Is(e, "configure", o)
  BY <1>q, <1>i DEF NoConf, n
<1>3. ASSUME NEW o, NEW s, Last(q, o, s), ~Is(e, "configure", o) PROVE Last(r, o, s)
  <2>1. SUFFICES ASSUME NEW j \in 1 .. n + 1, Is(r[j], "configure", o),
                        \A k \in j + 1 .. n + 1 : ~Is(r[k], "configure", o)
                 PROVE  r[j][3] = s
    BY <1>q DEF Last
  <2>2. j \in 1 .. n /\ r[j] = q[j]
    BY <2>1, <1>3, <1>q, <1>i
  <2>3. ASSUME NEW k \in j + 1 .. n PROVE ~Is(q[k], "configure", o)
    <3>1. k \in j + 1 .. n + 1 /\ k \in 1 .. n
      BY <1>q
    <3> QED  BY <3>1, <2>1, <1>q
  <2> QED  BY <2>1, <2>2, <2>3, <1>3 DEF Last, n
<1>4. ASSUME NEW o, Is(e, "configure", o) PROVE Last(r, o, e[3])
  <2>1. SUFFICES ASSUME NEW j \in 1 .. n + 1, Is(r[j], "configure", o),
                        \A k \in j + 1 .. n + 1 : ~Is(r[k], "configure", o)
                 PROVE  r[j][3] = e[3]
    BY <1>q DEF Last
  <2>2. ASSUME j \in 1 .. n PROVE FALSE
    <3>1. n + 1 \in j + 1 .. n + 1
      BY <2>2, <1>q
    <3> QED  BY <3>1, <2>1, <1>4, <1>q
  <2> QED  BY <2>2, <1>i, <1>q
<1> QED  BY <1>1, <1>2, <1>3, <1>4 DEF r

-----------------------------------------------------------------------------
(* Slots and surfaces.                                                      *)

SlotRecs == [name : Outputs \cup {NoOutput}, role : BOOLEAN, conf : BOOLEAN,
             buf : Sizes \cup {0}]
SurfRecs == [role : BOOLEAN, size : Sizes \cup {0}, acked : Sizes \cup {0},
             buf : Sizes \cup {0}]

Shapes ==
  /\ present \subseteq Outputs /\ surf \in [Outputs -> SurfRecs]
  /\ ev \in Seq(Events) /\ slot \in [Slots -> SlotRecs]
Scalars ==
  /\ store \in {"armed", "none"} /\ factor \in BOOLEAN
  /\ held \in {"no", "us", "dead", "other"} /\ sent \in BOOLEAN
  /\ active \in BOOLEAN /\ pc \in {"none", "globals", "loop"}
  /\ nOut \in 0 .. MaxOutputs
  /\ kbd \in {"none", "live", "inert"}
  /\ entry \in 0 .. MaxEntry - 2
  /\ flags \subseteq {"locked_ok", "finished", "unlocking"}
  /\ exit \in {0, 1, 2, 3, 9} /\ deaths \in 0 .. MaxDeaths

LEMMA TypesSplit ==
  /\ TypeOK => Shapes /\ Scalars
  /\ Shapes' /\ Scalars' /\ err' = "none" => TypeOK'
<1>1. TypeOK => Shapes /\ Scalars
  BY Zenon DEF TypeOK, Shapes, Scalars, SlotRecs, SurfRecs
<1>2. Shapes' /\ Scalars' /\ err' = "none" => TypeOK'
  BY Zenon DEF TypeOK, Shapes, Scalars, SlotRecs, SurfRecs
<1> QED  BY <1>1, <1>2

\* An empty slot and an output without a lock surface.
LEMMA EmptyRecs ==
  /\ NoSlot \in SlotRecs /\ NoSlot.name = NoOutput /\ ~NoSlot.role /\ ~NoSlot.conf /\ NoSlot.buf = 0
  /\ NoSurf \in SurfRecs /\ ~NoSurf.role /\ NoSurf.size = 0 /\ NoSurf.acked = 0 /\ NoSurf.buf = 0
BY DEF NoSlot, NoSurf, SlotRecs, SurfRecs

\* BufOf finds the slot of an output, since there is only one.
LEMMA BufOfIs ==
  ASSUME NEW sl \in [Slots -> SlotRecs], NEW i \in Slots, NEW o, sl[i].name = o,
         \A j \in Slots : sl[j].name = o => j = i
  PROVE  BufOf(sl, o) = sl[i].buf
<1> DEFINE S == {sl[j] : j \in Slots}
<1>1. sl[i] \in S /\ \A s \in S : s.name = o => s = sl[i]
  OBVIOUS
<1>2. (CHOOSE s \in S : s.name = o) = sl[i]
  BY <1>1
<1> QED  BY <1>2 DEF BufOf

\* An output is known when a slot has its name.
LEMMA KnownBySlots ==
  ASSUME NEW sl \in [Slots -> SlotRecs]
  PROVE  /\ Known(sl) \in SUBSET Outputs
         /\ \A o \in Outputs : o \in Known(sl) <=> \E i \in Slots : sl[i].name = o
BY LockAssumption DEF Known, SlotRecs

(* Taking an event that is no configure, or sending one, leaves the         *)
(* surfaces as they should be.                                              *)
LEMMA SurfacesKept ==
  ASSUME NEW h, NEW P, NEW sf, NEW sl, NEW q \in Seq(Events), SurfInv(h, P, sf, q, sl)
  PROVE  /\ q # <<>> /\ Head(q)[1] # "configure" => SurfInv(h, P, sf, Tail(q), sl)
         /\ \A e \in Events : e[1] # "configure" => SurfInv(h, P, sf, Append(q, e), sl)
<1>1. ASSUME q # <<>>, Head(q)[1] # "configure" PROVE SurfInv(h, P, sf, Tail(q), sl)
  <2>1. \A o : ~Is(Head(q), "configure", o)
    BY <1>1 DEF Is
  <2>2. /\ \A o : NoConf(q, o) <=> NoConf(Tail(q), o)
        /\ \A o, s : Last(q, o, s) => Last(Tail(q), o, s)
    BY <2>1, <1>1, TailQueue
  <2> QED  BY <2>2 DEF SurfInv
<1>2. ASSUME NEW e \in Events, e[1] # "configure" PROVE SurfInv(h, P, sf, Append(q, e), sl)
  <2>1. \A o : ~Is(e, "configure", o)
    BY <1>2 DEF Is
  <2>2. /\ \A o : NoConf(q, o) <=> NoConf(Append(q, e), o)
        /\ \A o, s : Last(q, o, s) => Last(Append(q, e), o, s)
    BY <2>1, AppendQueue
  <2> QED  BY <2>2 DEF SurfInv
<1> QED  BY <1>1, <1>2

(* draw_all commits only buffers of the acknowledged size. *)
LEMMA RedrawKeeps ==
  ASSUME LockerInv, Redraw
  PROVE  /\ surf' \in [Outputs -> SurfRecs] /\ err' = err
         /\ \A q : SurfInv(held, present, surf, q, slot)
                      => SurfInv(held, present, surf', q, slot)
<1> DEFINE D == Draws(slot) \cap {o \in present : surf[o].role}
<1>t. /\ slot \in [Slots -> SlotRecs] /\ surf \in [Outputs -> SurfRecs]
      /\ present \in SUBSET Outputs /\ nOut \in 0 .. MaxOutputs
  BY DEF LockerInv, TypeOK, SlotRecs, SurfRecs
<1>n. Slots = 1 .. MaxOutputs /\ MaxOutputs \in Nat
  BY LockAssumption DEF Slots
<1>1. ASSUME NEW o \in D
      PROVE  \E i \in Slots : /\ slot[i].name = o /\ slot[i].conf /\ slot[i].buf # 0
                              /\ BufOf(slot, o) = slot[i].buf
                              /\ surf[o].acked = slot[i].buf
                              /\ \A j \in Slots : slot[j].name = o => j = i
  <2>1. PICK i \in 1 .. nOut : slot[i].name = o /\ slot[i].conf /\ slot[i].buf # 0
    BY DEF Draws
  <2>2. i \in Slots /\ o \in Outputs /\ o # NoOutput /\ surf[o].role
    BY <1>t, <1>n, LockAssumption
  <2>3. \A j \in Slots : slot[j].name = o => j = i
    BY <2>1, <2>2 DEF LockerInv, SlotInv
  <2>4. BufOf(slot, o) = slot[i].buf
    BY <1>t, <2>1, <2>2, <2>3, BufOfIs
  <2>5. surf[o].acked = slot[i].buf
    BY <2>1, <2>2 DEF LockerInv, SurfInv
  <2> QED  BY <2>1, <2>2, <2>3, <2>4, <2>5
<1>2. /\ surf' = [o \in Outputs |->
                   IF o \in D THEN [surf[o] EXCEPT !.buf = BufOf(slot, o)] ELSE surf[o]]
      /\ err' = IF \E o \in D : surf[o].acked = 0 THEN "early commit"
                ELSE IF \E o \in D : surf[o].acked # BufOf(slot, o) THEN "size"
                ELSE err
  BY DEF Redraw, DrawAll
<1> HIDE DEF D
<1>3. err' = err
  <2>1. ~\E o \in D : surf[o].acked = 0
    BY <1>1
  <2>2. ~\E o \in D : surf[o].acked # BufOf(slot, o)
    BY <1>1
  <2> QED  BY <1>2, <2>1, <2>2
<1>4. ASSUME NEW o \in Outputs
      PROVE  /\ surf'[o] \in SurfRecs
             /\ surf'[o].role = surf[o].role /\ surf'[o].size = surf[o].size
             /\ surf'[o].acked = surf[o].acked
             /\ \/ surf'[o] = surf[o]
                \/ o \in D /\ surf'[o].buf = BufOf(slot, o)
  <2>1. CASE o \in D
    <3>1. BufOf(slot, o) \in Sizes \cup {0}
      BY <1>1, <1>t, <2>1 DEF SlotRecs
    <3>2. surf'[o] = [surf[o] EXCEPT !.buf = BufOf(slot, o)] /\ surf[o] \in SurfRecs
      BY <1>2, <1>t, <2>1
    <3> QED  BY <2>1, <3>1, <3>2 DEF SurfRecs
  <2>2. CASE o \notin D
    BY <1>2, <1>t, <2>2
  <2> QED  BY <2>1, <2>2
<1>5. surf' \in [Outputs -> SurfRecs]
  <2>1. DOMAIN surf' = Outputs /\ surf' = [o \in Outputs |-> surf'[o]]
    BY <1>2
  <2> QED  BY <2>1, <1>4
<1>6. ASSUME NEW q, SurfInv(held, present, surf, q, slot)
      PROVE  SurfInv(held, present, surf', q, slot)
  <2>1. ASSUME NEW o \in Outputs
        PROVE  surf'[o].role <=> held = "us" /\ o \in present /\ o \in Known(slot)
    BY <1>4, <1>6 DEF SurfInv
  <2>2. ASSUME NEW o \in Outputs, ~surf'[o].role PROVE surf'[o] = NoSurf
    <3>1. o \notin D
      BY <2>2, <1>4 DEF D
    <3> QED  BY <3>1, <2>2, <1>4, <1>6 DEF SurfInv
  <2>3. ASSUME NEW i \in Slots, NEW o \in Outputs, slot[i].name = o, surf'[o].role
        PROVE  /\ slot[i].conf /\ slot[i].buf # 0 => surf'[o].acked = slot[i].buf
               /\ Last(q, o, surf'[o].size)
               /\ NoConf(q, o) => /\ surf'[o].acked = surf'[o].size
                                  /\ surf'[o].buf = surf'[o].size \/ slot[i].buf = 0
    <3>1. surf[o].role /\ surf'[o].size = surf[o].size /\ surf'[o].acked = surf[o].acked
      BY <2>3, <1>4
    <3>2. /\ slot[i].conf /\ slot[i].buf # 0 => surf[o].acked = slot[i].buf
          /\ Last(q, o, surf[o].size)
          /\ NoConf(q, o) => /\ surf[o].acked = surf[o].size
                             /\ surf[o].buf = surf[o].size \/ slot[i].buf = 0
      BY <1>6, <2>3, <3>1 DEF SurfInv
    <3>3. surf'[o].buf = surf[o].buf \/ surf'[o].buf = surf[o].acked
      BY <1>4, <1>1
    <3> QED  BY <3>1, <3>2, <3>3
  <2> QED  BY <2>1, <2>2, <2>3 DEF SurfInv
<1> QED  BY <1>3, <1>5, <1>6

-----------------------------------------------------------------------------
(* The invariant holds at the start.                                        *)

\* The invariant holds before the client has started.
LEMMA LockerInit == Init => LockerInv
<1> SUFFICES ASSUME Init PROVE LockerInv
  OBVIOUS
<1>n. Slots = 1 .. MaxOutputs /\ MaxOutputs \in Nat /\ Slots # {}
  BY LockAssumption DEF Slots
<1>1. /\ slot = [i \in Slots |-> NoSlot] /\ slot \in [Slots -> SlotRecs]
      /\ surf = [o \in Outputs |-> NoSurf] /\ surf \in [Outputs -> SurfRecs]
  BY EmptyRecs DEF Init
<1>2. ev = <<>> /\ ev \in Seq(Events) /\ Len(ev) = 0
  BY EmptySeq DEF Init
<1>3. TypeOK
  <2>1. entry \in 0 .. MaxEntry - 2 /\ deaths \in 0 .. MaxDeaths /\ nOut \in 0 .. MaxOutputs
    BY LockAssumption DEF Init
  <2> QED  BY <1>1, <1>2, <2>1 DEF Init, TypeOK, SlotRecs, SurfRecs
<1>4. Known(slot) = {}
  BY <1>1, EmptyRecs DEF Known
<1>5. SlotInv(pc, slot, nOut)
  BY <1>1, <1>4, EmptyRecs DEF Init, SlotInv
<1>6. \A kind : NoKind(ev, kind)
  BY <1>2 DEF NoKind
<1>7. QueueInv(pc, ev, Known(slot), present)
  BY <1>2, <1>6 DEF Init, QueueInv
<1>8. LockInv(pc, held, sent, ev, flags)
  BY <1>6 DEF Init, LockInv
<1>9. SurfInv(held, present, surf, ev, slot)
  BY <1>1, EmptyRecs DEF Init, SurfInv
<1> QED  BY <1>3, <1>5, <1>7, <1>8, <1>9 DEF LockerInv, NoProtocolError, Init

-----------------------------------------------------------------------------
(* Steps that leave slots and surfaces to the queue.                        *)

(* Taking an event that is about no output. *)
LEMMA PlainTaken ==
  ASSUME LockerInv, pc \in {"globals", "loop"}, ev # <<>>,
         Head(ev)[1] \notin {"global", "remove", "configure"}
  PROVE  /\ Tail(ev) \in Seq(Events)
         /\ QueueInv(pc, Tail(ev), Known(slot), present)
         /\ SurfInv(held, present, surf, Tail(ev), slot)
         /\ \A kind : NoKind(ev, kind) => NoKind(Tail(ev), kind) /\ Head(ev)[1] # kind
<1>0. ev \in Seq(Events)
  BY DEF LockerInv, TypeOK
<1>1. Tail(ev) \in Seq(Events)
  BY <1>0, TailFacts
<1>2. \A kind : NoKind(ev, kind) => NoKind(Tail(ev), kind) /\ Head(ev)[1] # kind
  BY <1>0, TailQueue
<1>3. SurfInv(held, present, surf, Tail(ev), slot)
  BY <1>0, SurfacesKept DEF LockerInv
<1>4. Views(ev, Known(slot), present)
  BY DEF LockerInv, QueueInv
<1>5. PICK K1 \in SUBSET Outputs : Move(Known(slot), Head(ev), K1) /\ Views(Tail(ev), K1, present)
  BY <1>0, <1>4, ViewsTail
<1>6. K1 = Known(slot)
  BY <1>5 DEF Move
<1>7. QueueInv(pc, Tail(ev), Known(slot), present)
  BY <1>5, <1>6, <1>2 DEF LockerInv, QueueInv
<1> QED  BY <1>1, <1>2, <1>3, <1>7

\* lock_locked, lock_finished and seat_caps.
LEMMA QuietHandlersKeep ==
  ASSUME LockerInv, LockLocked \/ LockFinished \/ SeatCaps
  PROVE  LockerInv'
<1>1. /\ pc \in {"globals", "loop"} /\ ev # <<>> /\ ev' = Tail(ev)
      /\ Head(ev)[1] \in {"locked", "finished", "caps"}
      /\ UNCHANGED <<store, factor, compositor, pc, slot, nOut, entry, exit, deaths>>
  BY DEF LockLocked, LockFinished, SeatCaps, Dispatching, Taken
<1>u. UNCHANGED <<store, factor, held, sent, present, surf, active, err, pc, slot, nOut, entry, exit, deaths>>
  BY <1>1 DEF compositor
<1>2. /\ Tail(ev) \in Seq(Events)
      /\ QueueInv(pc, Tail(ev), Known(slot), present)
      /\ SurfInv(held, present, surf, Tail(ev), slot)
      /\ \A kind : NoKind(ev, kind) => NoKind(Tail(ev), kind) /\ Head(ev)[1] # kind
  BY <1>1, PlainTaken
<1>3. /\ kbd' \in {"none", "live", "inert"}
      /\ flags' \subseteq {"locked_ok", "finished", "unlocking"}
      /\ "unlocking" \in flags' <=> "unlocking" \in flags
      /\ "finished" \in flags' => "finished" \in flags \/ Head(ev)[1] = "finished"
  BY DEF LockLocked, LockFinished, SeatCaps, KeyboardAfter, Dispatching, LockerInv, TypeOK
<1>e. ev' \in Seq(Events)
  BY <1>1, <1>2
<1>4. TypeOK'
  <2>1. Shapes /\ Scalars
    BY TypesSplit DEF LockerInv
  <2>2. Shapes'
    BY <2>1, <1>u, <1>e DEF Shapes
  <2>3. Scalars'
    BY <2>1, <1>u, <1>3 DEF Scalars
  <2> QED  BY <1>u, <2>2, <2>3, TypesSplit DEF LockerInv, NoProtocolError
<1>5. LockInv(pc, held, sent, Tail(ev), flags')
  BY <1>2, <1>3 DEF LockerInv, LockInv
<1>6. /\ SlotInv(pc', slot', nOut') /\ QueueInv(pc', ev', Known(slot'), present')
      /\ LockInv(pc', held', sent', ev', flags') /\ SurfInv(held', present', surf', ev', slot')
      /\ err' = "none"
  BY <1>1, <1>u, <1>2, <1>5 DEF LockerInv, NoProtocolError
<1> QED  BY <1>4, <1>6 DEF LockerInv, NoProtocolError

\* kb_key and try_unlock: a key is only handled after `locked'.
LEMMA KeysKeep ==
  ASSUME LockerInv, KbKey \/ TryUnlock
  PROVE  LockerInv'
<1>1. /\ pc \in {"globals", "loop"} /\ ev # <<>> /\ ev' = Tail(ev) /\ Head(ev)[1] = "key"
      /\ UNCHANGED <<store, factor, held, sent, present, active, pc, slot, nOut, kbd, exit, deaths>>
  BY DEF KbKey, TryUnlock, Dispatching, Taken
<1>2. /\ Tail(ev) \in Seq(Events)
      /\ QueueInv(pc, Tail(ev), Known(slot), present)
      /\ SurfInv(held, present, surf, Tail(ev), slot)
      /\ \A kind : NoKind(ev, kind) => NoKind(Tail(ev), kind) /\ Head(ev)[1] # kind
  BY <1>1, PlainTaken
<1>3. Redraw \/ UNCHANGED <<surf, err>>
  BY DEF KbKey, TryUnlock
<1>4. /\ surf' \in [Outputs -> SurfRecs] /\ err' = err
      /\ SurfInv(held, present, surf', Tail(ev), slot)
  <2>1. CASE Redraw
    BY <2>1, <1>2, RedrawKeeps
  <2>2. CASE UNCHANGED <<surf, err>>
    BY <2>2, <1>2 DEF LockerInv, TypeOK, SurfRecs
  <2> QED  BY <1>3, <2>1, <2>2
<1>5. entry' \in 0 .. MaxEntry - 2
  <2>0. entry \in 0 .. MaxEntry - 2 /\ MaxEntry \in Nat /\ MaxEntry >= 2
    BY LockAssumption DEF LockerInv, TypeOK
  <2>1. entry' \in {Typed, 0, IF entry > 0 THEN entry - 1 ELSE 0}
    BY DEF KbKey, TryUnlock
  <2> QED  BY <2>0, <2>1 DEF Typed
<1>6. sent /\ flags' \in {flags, flags \cup {"unlocking"}}
  <2>1. ~NoKind(ev, "key")
    BY <1>1, <1>2
  <2> QED  BY <2>1 DEF KbKey, TryUnlock, LockerInv, LockInv
<1>7. TypeOK'
  BY <1>1, <1>2, <1>4, <1>5, <1>6 DEF LockerInv, TypeOK, NoProtocolError, SurfRecs
<1>8. LockInv(pc, held, sent, Tail(ev), flags')
  BY <1>2, <1>6 DEF LockerInv, LockInv
<1>9. /\ SlotInv(pc', slot', nOut') /\ QueueInv(pc', ev', Known(slot'), present')
      /\ LockInv(pc', held', sent', ev', flags') /\ SurfInv(held', present', surf', ev', slot')
      /\ err' = "none"
  BY <1>1, <1>2, <1>4, <1>8 DEF LockerInv, NoProtocolError
<1> QED  BY <1>7, <1>9 DEF LockerInv, NoProtocolError

(* Sending an event that is about no output. *)
LEMMA PlainSent ==
  ASSUME LockerInv, NEW e \in Events, Send(e), e[1] \notin {"global", "remove", "configure"}
  PROVE  /\ ev' \in Seq(Events)
         /\ QueueInv(pc, ev', Known(slot), present)
         /\ SurfInv(held, present, surf, ev', slot)
         /\ \A kind : NoKind(ev, kind) /\ e[1] # kind => NoKind(ev', kind)
<1>0. ev \in Seq(Events) /\ present \in SUBSET Outputs
  BY DEF LockerInv, TypeOK
<1>1. CASE pc = "none"
  BY <1>0, <1>1 DEF LockerInv, Send
<1>2. CASE pc # "none"
  <2>1. ev' = Append(ev, e)
    BY <1>2 DEF Send
  <2>2. Append(ev, e) \in Seq(Events)
    BY <1>0, AppendFacts
  <2>3. \A kind : NoKind(Append(ev, e), kind) <=> NoKind(ev, kind) /\ e[1] # kind
    BY <1>0, AppendQueue
  <2>4. SurfInv(held, present, surf, Append(ev, e), slot)
    BY <1>0, SurfacesKept DEF LockerInv
  <2>5. Views(ev, Known(slot), present) /\ Cardinality(present) <= MaxOutputs
    BY <1>2 DEF LockerInv, QueueInv
  <2>6. Move(present, e, present)
    BY DEF Move
  <2>7. Views(Append(ev, e), Known(slot), present)
    BY <1>0, <2>5, <2>6, ViewsAppend
  <2>8. QueueInv(pc, Append(ev, e), Known(slot), present)
    BY <2>3, <2>7, <1>2 DEF LockerInv, QueueInv
  <2> QED  BY <2>1, <2>2, <2>3, <2>4, <2>8
<1> QED  BY <1>1, <1>2

\* `locked', a VT switch and a key press.
LEMMA PlainSendsKeep ==
  ASSUME LockerInv,
         SendLocked \/ SwitchVt \/ \E k \in KeySyms : Press(k)
  PROVE  LockerInv'
<1>1. PICK e \in Events :
        /\ e[1] \in {"locked", "caps", "key"} /\ Send(e)
        /\ e[1] = "key" => sent
        /\ sent' # sent => sent' /\ held = "us"
  <2>1. CASE SendLocked
    BY <2>1, EventsAre DEF SendLocked
  <2>2. CASE SwitchVt
    <3>0. PICK b \in BOOLEAN : b = ~active
      BY Zenon
    <3>1. Send(<<"caps", b>>) /\ sent' = sent
      BY <2>2, <3>0, Zenon DEF SwitchVt
    <3>2. <<"caps", b>> \in Events
      BY EventsAre
    <3> QED  BY <3>1, <3>2
  <2>3. CASE \E k \in KeySyms : Press(k)
    <3>1. PICK k \in KeySyms : Press(k)
      BY <2>3
    <3>2. <<"key", k>> \in Events /\ Send(<<"key", k>>) /\ sent /\ sent' = sent
      BY <3>1, EventsAre DEF Press, compositor
    <3> QED  BY <3>2
  <2> QED  BY <2>1, <2>2, <2>3
<1>2. /\ ev' \in Seq(Events)
      /\ QueueInv(pc, ev', Known(slot), present)
      /\ SurfInv(held, present, surf, ev', slot)
      /\ \A kind : NoKind(ev, kind) /\ e[1] # kind => NoKind(ev', kind)
  BY <1>1, PlainSent
<1>3. /\ UNCHANGED <<store, factor, held, present, surf, err, pc, slot, nOut, entry, flags, exit, deaths>>
      /\ active' \in BOOLEAN /\ kbd' \in {"none", "live", "inert"}
      /\ sent' \in BOOLEAN
  BY DEF SendLocked, SwitchVt, Press, compositor, client, LockerInv, TypeOK
<1>4. TypeOK'
  BY <1>2, <1>3 DEF LockerInv, TypeOK
<1>5. sent => sent'
  BY DEF SendLocked, SwitchVt, Press, compositor
<1>6. LockInv(pc, held, sent', ev', flags)
  BY <1>1, <1>2, <1>3, <1>5 DEF LockerInv, LockInv, TypeOK
<1>7. /\ SlotInv(pc', slot', nOut') /\ QueueInv(pc', ev', Known(slot'), present')
      /\ LockInv(pc', held', sent', ev', flags') /\ SurfInv(held', present', surf', ev', slot')
      /\ err' = "none"
  BY <1>2, <1>3, <1>6 DEF LockerInv, NoProtocolError
<1> QED  BY <1>4, <1>7 DEF LockerInv, NoProtocolError

\* A factor comes or goes, another locker lets go, or nothing happens.
LEMMA BystandersKeep ==
  ASSUME LockerInv, Factor \/ OtherReleases \/ UNCHANGED vars
  PROVE  LockerInv'
<1>1. /\ UNCHANGED <<store, sent, present, surf, active, err, ev, pc, slot, nOut, kbd, entry, flags, exit, deaths>>
      /\ factor' \in BOOLEAN /\ held' \in {"no", "us", "dead", "other"}
      /\ held' # held => held = "other" /\ held' = "no"
  BY DEF Factor, OtherReleases, vars, compositor, client, LockerInv, TypeOK
<1>2. TypeOK'
  BY <1>1 DEF LockerInv, TypeOK
<1>3. LockInv(pc, held', sent, ev, flags)
  BY <1>1 DEF LockerInv, LockInv
<1>4. SurfInv(held', present, surf, ev, slot)
  BY <1>1 DEF LockerInv, SurfInv
<1>5. /\ SlotInv(pc', slot', nOut') /\ QueueInv(pc', ev', Known(slot'), present')
      /\ LockInv(pc', held', sent', ev', flags') /\ SurfInv(held', present', surf', ev', slot')
      /\ err' = "none"
  BY <1>1, <1>3, <1>4 DEF LockerInv, NoProtocolError
<1> QED  BY <1>2, <1>5 DEF LockerInv, NoProtocolError

-----------------------------------------------------------------------------
(* The end of the client.                                                   *)

\* The client ends; it unlocks only what was locked.
LEMMA EndsKeep ==
  ASSUME LockerInv, Leave \/ Die
  PROVE  LockerInv'
<1>1. Gone /\ UNCHANGED <<store, factor, present, active>>
  BY DEF Leave, Die
<1>2. /\ slot' = [i \in Slots |-> NoSlot] /\ slot' \in [Slots -> SlotRecs]
      /\ surf' = [o \in Outputs |-> NoSurf] /\ surf' \in [Outputs -> SurfRecs]
  BY <1>1, EmptyRecs DEF Gone
<1>3. ev' = <<>> /\ ev' \in Seq(Events) /\ Len(ev') = 0
  BY <1>1, EmptySeq DEF Gone
<1>4. err' = "none" /\ held' # "us" /\ held' \in {"no", "us", "dead", "other"}
  <2>1. CASE Leave
    BY <2>1 DEF Leave, LockerInv, LockInv, NoProtocolError, TypeOK
  <2>2. CASE Die
    <3>1. err' = "none"
      BY <2>2 DEF Die, LockerInv, NoProtocolError
    <3>2. held' # "us" /\ held' \in {"no", "us", "dead", "other"}
      BY <2>2 DEF Die, LockerInv, TypeOK
    <3> QED  BY <3>1, <3>2
  <2> QED  BY <2>1, <2>2
<1>5. exit' \in {0, 1, 2, 3, 9} /\ deaths' \in 0 .. MaxDeaths
  <2>1. CASE Leave
    BY <2>1 DEF Leave, ExitStatus, LockerInv, TypeOK
  <2>2. CASE Die
    <3>1. exit' \in {0, 1, 2}
      BY <2>2 DEF Die, ExitStatus
    <3>2. deaths \in 0 .. MaxDeaths /\ deaths < MaxDeaths /\ deaths' = deaths + 1
      BY <2>2 DEF Die, LockerInv, TypeOK
    <3> QED  BY <3>1, <3>2, LockAssumption
  <2> QED  BY <2>1, <2>2
<1>6. TypeOK'
  <2>1. entry' \in 0 .. MaxEntry - 2 /\ nOut' \in 0 .. MaxOutputs
    BY <1>1, LockAssumption DEF Gone
  <2> QED  BY <1>1, <1>2, <1>3, <1>4, <1>5, <2>1 DEF Gone, LockerInv, TypeOK, SlotRecs, SurfRecs
<1>7. Known(slot') = {}
  BY <1>2, EmptyRecs DEF Known
<1>8. SlotInv(pc', slot', nOut')
  BY <1>1, <1>2, <1>7, EmptyRecs DEF Gone, SlotInv
<1>9. \A kind : NoKind(ev', kind)
  BY <1>3 DEF NoKind
<1>10. QueueInv(pc', ev', Known(slot'), present')
  BY <1>1, <1>3, <1>9 DEF Gone, LockerInv, QueueInv
<1>11. LockInv(pc', held', sent', ev', flags')
  BY <1>1, <1>4, <1>9 DEF Gone, LockInv
<1>12. SurfInv(held', present', surf', ev', slot')
  BY <1>2, <1>4, EmptyRecs DEF SurfInv
<1> QED  BY <1>4, <1>6, <1>8, <1>10, <1>11, <1>12 DEF LockerInv, NoProtocolError

-----------------------------------------------------------------------------
(* Outputs that come, go and are resized.                                   *)

\* A set of slots that is not empty has a least one.
LEMMA LeastSlot ==
  ASSUME NEW S \in SUBSET Slots, S # {}
  PROVE  Min(S) \in S
<1> DEFINE less == {ss \in Nat \X Nat : ss[1] < ss[2]}
<1>0. S \in SUBSET Nat
  BY DEF Slots
<1>1. IsWellFoundedOn(less, Nat)
  BY NatLessThanWellFounded, Zenon DEF OpToRel
<1>2. \E x \in S : \A y \in S : ~(<<y, x>> \in less)
  <2> HIDE DEF less
  <2> QED  BY <1>0, <1>1, WFMin
<1>3. \A x, y \in Nat : x =< y \/ <<y, x>> \in less
  OBVIOUS
<1> HIDE DEF less
<1>4. \E x \in S : \A y \in S : x =< y
  BY <1>0, <1>2, <1>3
<1> QED  BY <1>4 DEF Min

\* There are finitely many outputs.
LEMMA FiniteOutputs ==
  ASSUME NEW P \in SUBSET Outputs
  PROVE  IsFiniteSet(P) /\ Cardinality(P) \in Nat
BY LockAssumption, FS_Subset, FS_CardinalityType

\* The compositor resizes a lock surface.
LEMMA ConfigureKeeps ==
  ASSUME LockerInv, NEW o \in Outputs, NEW size \in Sizes, Configure(o, size)
  PROVE  LockerInv'
<1> DEFINE e == <<"configure", o, size>>
<1>t. /\ slot \in [Slots -> SlotRecs] /\ surf \in [Outputs -> SurfRecs]
      /\ present \in SUBSET Outputs /\ ev \in Seq(Events)
  BY DEF LockerInv, TypeOK, SlotRecs, SurfRecs
<1>1. /\ surf[o].role /\ Send(e)
      /\ surf' = [surf EXCEPT ![o].size = size]
      /\ UNCHANGED <<store, factor, held, sent, present, active, err, pc, slot, nOut, kbd, entry, flags, exit, deaths>>
  BY DEF Configure, client
<1>2. held = "us" /\ pc = "loop" /\ o \in present /\ o \in Known(slot)
  BY <1>1 DEF LockerInv, SurfInv, LockInv
<1>3. e \in Events /\ e[1] = "configure" /\ e[2] = o /\ e[3] = size
  BY EventsAre
<1>4. ev' = Append(ev, e)
  BY <1>1, <1>2 DEF Send
<1> HIDE DEF e
<1>5. /\ \A kind : NoKind(ev', kind) <=> NoKind(ev, kind) /\ e[1] # kind
      /\ \A p : NoConf(ev', p) <=> NoConf(ev, p) /\ ~Is(e, "configure", p)
      /\ \A p, s : Last(ev, p, s) /\ ~Is(e, "configure", p) => Last(ev', p, s)
      /\ \A p : Is(e, "configure", p) => Last(ev', p, e[3])
      /\ ev' \in Seq(Events)
  BY <1>3, <1>4, <1>t, AppendQueue, AppendFacts
<1>6. /\ surf' \in [Outputs -> SurfRecs]
      /\ surf'[o].role /\ surf'[o].acked = surf[o].acked /\ surf'[o].buf = surf[o].buf
      /\ surf'[o].size = size
      /\ \A p \in Outputs : p # o => surf'[p] = surf[p]
  BY <1>1, <1>t DEF SurfRecs
<1>7. QueueInv(pc, ev', Known(slot), present)
  <2>1. Views(ev, Known(slot), present) /\ Cardinality(present) <= MaxOutputs
    BY <1>2 DEF LockerInv, QueueInv
  <2>2. Move(present, e, present)
    BY <1>3 DEF Move
  <2>3. Views(Append(ev, e), Known(slot), present)
    BY <1>t, <1>2, <1>3, <2>1, <2>2, ViewsAppend
  <2> QED  BY <2>1, <2>3, <1>2, <1>4 DEF QueueInv
<1>8. SurfInv(held, present, surf', ev', slot)
  <2>1. ASSUME NEW p \in Outputs
        PROVE  surf'[p].role <=> held = "us" /\ p \in present /\ p \in Known(slot)
    BY <1>1, <1>6 DEF LockerInv, SurfInv
  <2>2. ASSUME NEW p \in Outputs, ~surf'[p].role PROVE surf'[p] = NoSurf
    <3>1. p # o /\ ~surf[p].role
      BY <1>1, <1>6, <2>2
    <3> QED  BY <3>1, <1>6 DEF LockerInv, SurfInv
  <2>3. ASSUME NEW i \in Slots, NEW p \in Outputs, slot[i].name = p, surf'[p].role
        PROVE  /\ slot[i].conf /\ slot[i].buf # 0 => surf'[p].acked = slot[i].buf
               /\ Last(ev', p, surf'[p].size)
               /\ NoConf(ev', p) => /\ surf'[p].acked = surf'[p].size
                                    /\ surf'[p].buf = surf'[p].size \/ slot[i].buf = 0
    <3>1. surf[p].role
      BY <1>1, <1>6, <2>3
    <3>2. /\ slot[i].conf /\ slot[i].buf # 0 => surf[p].acked = slot[i].buf
          /\ Last(ev, p, surf[p].size)
          /\ NoConf(ev, p) => /\ surf[p].acked = surf[p].size
                              /\ surf[p].buf = surf[p].size \/ slot[i].buf = 0
      BY <2>3, <3>1 DEF LockerInv, SurfInv
    <3>3. CASE p = o
      <4>1. Is(e, "configure", p)
        BY <3>3, <1>3 DEF Is
      <4>2. ~NoConf(ev', p) /\ Last(ev', p, e[3])
        BY <4>1, <1>5
      <4> QED  BY <4>2, <3>2, <3>3, <1>3, <1>6
    <3>4. CASE p # o
      <4>1. ~Is(e, "configure", p)
        BY <3>4, <1>3 DEF Is
      <4>2. (NoConf(ev', p) <=> NoConf(ev, p)) /\ Last(ev', p, surf[p].size)
        BY <4>1, <1>5, <3>2
      <4> QED  BY <4>2, <3>2, <3>4, <1>6
    <3> QED  BY <3>3, <3>4
  <2> QED  BY <2>1, <2>2, <2>3 DEF SurfInv
<1>9. LockInv(pc, held, sent, ev', flags)
  BY <1>2, <1>3, <1>5 DEF LockerInv, LockInv
<1>e. ev' \in Seq(Events)
  BY <1>5
<1>10. TypeOK'
  <2>1. Shapes /\ Scalars
    BY TypesSplit DEF LockerInv
  <2>2. Shapes'
    BY <2>1, <1>1, <1>e, <1>6 DEF Shapes
  <2>3. Scalars'
    BY <2>1, <1>1 DEF Scalars
  <2> QED  BY <1>1, <2>2, <2>3, TypesSplit DEF LockerInv, NoProtocolError
<1>11. /\ SlotInv(pc', slot', nOut') /\ QueueInv(pc', ev', Known(slot'), present')
       /\ LockInv(pc', held', sent', ev', flags') /\ SurfInv(held', present', surf', ev', slot')
       /\ err' = "none"
  BY <1>1, <1>7, <1>8, <1>9 DEF LockerInv, NoProtocolError
<1> QED  BY <1>10, <1>11 DEF LockerInv, NoProtocolError

\* An output comes: the client knows no output of that name.
LEMMA OutputNewKeeps ==
  ASSUME LockerInv, NEW o \in Outputs, OutputNew(o)
  PROVE  LockerInv'
<1> DEFINE e == <<"global", o>>
<1>t. /\ slot \in [Slots -> SlotRecs] /\ surf \in [Outputs -> SurfRecs]
      /\ present \in SUBSET Outputs /\ ev \in Seq(Events)
  BY DEF LockerInv, TypeOK, SlotRecs, SurfRecs
<1>1. /\ o \notin present /\ Cardinality(present) < MaxOutputs
      /\ \A i \in DOMAIN ev : ev[i] # <<"remove", o>>
      /\ Send(e) /\ present' = present \cup {o}
      /\ UNCHANGED <<store, factor, held, sent, surf, active, err, pc, slot, nOut, kbd, entry, flags, exit, deaths>>
  BY DEF OutputNew, client
<1>3. e \in Events /\ e[1] = "global" /\ e[2] = o
  BY EventsAre
<1> HIDE DEF e
<1>4. Cardinality(present') <= MaxOutputs /\ present' \in SUBSET Outputs
  <2>1. IsFiniteSet(present) /\ Cardinality(present) \in Nat
    BY <1>t, FiniteOutputs
  <2>2. Cardinality(present') = Cardinality(present) + 1
    BY <2>1, <1>1, FS_AddElement
  <2>3. MaxOutputs \in Nat
    BY LockAssumption
  <2> QED  BY <2>1, <2>2, <2>3, <1>1, <1>t
<1>5. /\ ev' \in Seq(Events) /\ QueueInv(pc, ev', Known(slot), present')
      /\ SurfInv(held, present', surf, ev', slot)
      /\ \A kind : NoKind(ev, kind) /\ kind # "global" => NoKind(ev', kind)
  <2>1. CASE pc = "none"
    <3>1. ev' = ev /\ ev = <<>>
      BY <2>1, <1>1 DEF Send, LockerInv, QueueInv
    <3>2. held # "us"
      BY <2>1 DEF LockerInv, LockInv
    <3>3. SurfInv(held, present', surf, ev', slot)
      BY <3>1, <3>2 DEF LockerInv, SurfInv
    <3>4. QueueInv(pc, ev', Known(slot), present')
      BY <3>1, <2>1, <1>4 DEF LockerInv, QueueInv
    <3> QED  BY <3>1, <3>3, <3>4, <1>t
  <2>2. CASE pc # "none"
    <3>1. ev' = Append(ev, e)
      BY <2>2, <1>1 DEF Send
    <3>2. Views(ev, Known(slot), present)
      BY <2>2 DEF LockerInv, QueueInv
    <3>3. \A j \in 1 .. Len(ev) : ~Is(ev[j], "remove", o)
      <4>1. SUFFICES ASSUME NEW j \in 1 .. Len(ev), Is(ev[j], "remove", o) PROVE FALSE
        OBVIOUS
      <4>2. j \in DOMAIN ev /\ ev[j] \in Events
        BY <1>t, ElementOfSeq, LenProperties
      <4>3. ev[j] = <<"remove", o>>
        BY <4>1, <4>2, EventTypes DEF Is
      <4> QED  BY <4>2, <4>3, <1>1
    <3>4. o \notin Known(slot)
      BY <1>t, <1>1, <3>2, <3>3, ViewsFacts
    <3>5. Move(present, e, present')
      BY <1>1, <1>3 DEF Move
    <3>6. Views(Append(ev, e), Known(slot), present')
      <4> DEFINE P1 == present'
      <4>1. P1 \in SUBSET Outputs /\ Cardinality(P1) <= MaxOutputs /\ Move(present, e, P1)
        BY <1>4, <3>5
      <4> HIDE DEF P1
      <4>2. Views(Append(ev, e), Known(slot), P1)
        BY <4>1, <1>t, <1>3, <3>2, <3>3, ViewsAppend
      <4> QED  BY <4>2 DEF P1
    <3>7. /\ \A kind : NoKind(Append(ev, e), kind) <=> NoKind(ev, kind) /\ e[1] # kind
          /\ Append(ev, e) \in Seq(Events)
      BY <1>t, <1>3, AppendQueue, AppendFacts
    <3>8. SurfInv(held, present, surf, Append(ev, e), slot)
      BY <1>t, <1>3, SurfacesKept DEF LockerInv
    <3>9. SurfInv(held, present', surf, Append(ev, e), slot)
      BY <3>8, <3>4, <1>1 DEF SurfInv
    <3>10. QueueInv(pc, Append(ev, e), Known(slot), present')
      BY <3>6, <3>7, <1>3, <1>4, <2>2 DEF LockerInv, QueueInv
    <3> QED  BY <3>1, <3>7, <3>9, <3>10, <1>3
  <2> QED  BY <2>1, <2>2
<1>9. LockInv(pc, held, sent, ev', flags)
  BY <1>5 DEF LockerInv, LockInv
<1>e. ev' \in Seq(Events)
  BY <1>5
<1>10. TypeOK'
  <2>1. Shapes /\ Scalars
    BY TypesSplit DEF LockerInv
  <2>2. Shapes'
    BY <2>1, <1>1, <1>4, <1>e DEF Shapes
  <2>3. Scalars'
    BY <2>1, <1>1 DEF Scalars
  <2> QED  BY <1>1, <2>2, <2>3, TypesSplit DEF LockerInv, NoProtocolError
<1>11. /\ SlotInv(pc', slot', nOut') /\ QueueInv(pc', ev', Known(slot'), present')
       /\ LockInv(pc', held', sent', ev', flags') /\ SurfInv(held', present', surf', ev', slot')
       /\ err' = "none"
  BY <1>1, <1>5, <1>9 DEF LockerInv, NoProtocolError
<1> QED  BY <1>10, <1>11 DEF LockerInv, NoProtocolError

\* An output goes, and its lock surface with it.
LEMMA OutputGoneKeeps ==
  ASSUME LockerInv, NEW o \in Outputs, OutputGone(o)
  PROVE  LockerInv'
<1> DEFINE e == <<"remove", o>>
<1>t. /\ slot \in [Slots -> SlotRecs] /\ surf \in [Outputs -> SurfRecs]
      /\ present \in SUBSET Outputs /\ ev \in Seq(Events)
  BY DEF LockerInv, TypeOK, SlotRecs, SurfRecs
<1>1. /\ o \in present /\ Send(e) /\ present' = present \ {o}
      /\ surf' = [surf EXCEPT ![o] = NoSurf]
      /\ UNCHANGED <<store, factor, held, sent, active, err, pc, slot, nOut, kbd, entry, flags, exit, deaths>>
  BY DEF OutputGone, client
<1>3. e \in Events /\ e[1] = "remove" /\ e[2] = o
  BY EventsAre
<1> HIDE DEF e
<1>4. Cardinality(present') <= MaxOutputs /\ present' \in SUBSET Outputs
  <2>1. IsFiniteSet(present) /\ Cardinality(present) \in Nat
    BY <1>t, FiniteOutputs
  <2>2. Cardinality(present') = Cardinality(present) - 1
    BY <2>1, <1>1, FS_RemoveElement
  <2>3. MaxOutputs \in Nat /\ Cardinality(present) <= MaxOutputs
    BY LockAssumption DEF LockerInv, QueueInv
  <2> QED  BY <2>1, <2>2, <2>3, <1>1, <1>t
<1>s. /\ surf' \in [Outputs -> SurfRecs] /\ surf'[o] = NoSurf
      /\ \A p \in Outputs : p # o => surf'[p] = surf[p]
  BY <1>1, <1>t, EmptyRecs
<1>5. /\ ev' \in Seq(Events) /\ QueueInv(pc, ev', Known(slot), present')
      /\ SurfInv(held, present, surf, ev', slot)
      /\ \A kind : NoKind(ev, kind) /\ kind # "remove" => NoKind(ev', kind)
  <2>1. CASE pc = "none"
    <3>1. ev' = ev /\ ev = <<>>
      BY <2>1, <1>1 DEF Send, LockerInv, QueueInv
    <3>4. QueueInv(pc, ev', Known(slot), present')
      BY <3>1, <2>1, <1>4 DEF LockerInv, QueueInv
    <3> QED  BY <3>1, <3>4, <1>t DEF LockerInv
  <2>2. CASE pc # "none"
    <3>1. ev' = Append(ev, e)
      BY <2>2, <1>1 DEF Send
    <3>2. Views(ev, Known(slot), present)
      BY <2>2 DEF LockerInv, QueueInv
    <3>6. Views(Append(ev, e), Known(slot), present')
      <4> DEFINE P1 == present'
      <4>1. P1 \in SUBSET Outputs /\ Cardinality(P1) <= MaxOutputs /\ Move(present, e, P1)
        BY <1>1, <1>3, <1>4 DEF Move
      <4> HIDE DEF P1
      <4>2. Views(Append(ev, e), Known(slot), P1)
        BY <4>1, <1>t, <1>3, <3>2, ViewsAppend
      <4> QED  BY <4>2 DEF P1
    <3>7. /\ \A kind : NoKind(Append(ev, e), kind) <=> NoKind(ev, kind) /\ e[1] # kind
          /\ Append(ev, e) \in Seq(Events)
      BY <1>t, <1>3, AppendQueue, AppendFacts
    <3>8. SurfInv(held, present, surf, Append(ev, e), slot)
      BY <1>t, <1>3, SurfacesKept DEF LockerInv
    <3>10. QueueInv(pc, Append(ev, e), Known(slot), present')
      BY <3>6, <3>7, <1>3, <1>4, <2>2 DEF LockerInv, QueueInv
    <3> QED  BY <3>1, <3>7, <3>8, <3>10, <1>3
  <2> QED  BY <2>1, <2>2
<1>6. SurfInv(held, present', surf', ev', slot)
  <2>1. ASSUME NEW p \in Outputs
        PROVE  surf'[p].role <=> held = "us" /\ p \in present' /\ p \in Known(slot)
    BY <1>1, <1>s, <1>5, EmptyRecs DEF SurfInv
  <2>2. ASSUME NEW p \in Outputs, ~surf'[p].role PROVE surf'[p] = NoSurf
    BY <2>2, <1>s, <1>5 DEF SurfInv
  <2>3. ASSUME NEW i \in Slots, NEW p \in Outputs, slot[i].name = p, surf'[p].role
        PROVE  /\ slot[i].conf /\ slot[i].buf # 0 => surf'[p].acked = slot[i].buf
               /\ Last(ev', p, surf'[p].size)
               /\ NoConf(ev', p) => /\ surf'[p].acked = surf'[p].size
                                    /\ surf'[p].buf = surf'[p].size \/ slot[i].buf = 0
    <3>1. p # o /\ surf'[p] = surf[p]
      BY <1>s, <2>3, EmptyRecs
    <3> QED  BY <3>1, <2>3, <1>5 DEF SurfInv
  <2> QED  BY <2>1, <2>2, <2>3 DEF SurfInv
<1>9. LockInv(pc, held, sent, ev', flags)
  BY <1>5 DEF LockerInv, LockInv
<1>e. ev' \in Seq(Events)
  BY <1>5
<1>10. TypeOK'
  <2>1. Shapes /\ Scalars
    BY TypesSplit DEF LockerInv
  <2>2. Shapes'
    BY <2>1, <1>1, <1>4, <1>e, <1>s DEF Shapes
  <2>3. Scalars'
    BY <2>1, <1>1 DEF Scalars
  <2> QED  BY <1>1, <2>2, <2>3, TypesSplit DEF LockerInv, NoProtocolError
<1>11. /\ SlotInv(pc', slot', nOut') /\ QueueInv(pc', ev', Known(slot'), present')
       /\ LockInv(pc', held', sent', ev', flags') /\ SurfInv(held', present', surf', ev', slot')
       /\ err' = "none"
  BY <1>1, <1>5, <1>6, <1>9 DEF LockerInv, NoProtocolError
<1> QED  BY <1>10, <1>11 DEF LockerInv, NoProtocolError

\* reg_remove empties the slot of an output that is gone.
LEMMA RegRemoveKeeps ==
  ASSUME LockerInv, RegRemove
  PROVE  LockerInv'
<1> DEFINE o == Head(ev)[2]
<1>t. /\ slot \in [Slots -> SlotRecs] /\ surf \in [Outputs -> SurfRecs]
      /\ present \in SUBSET Outputs /\ ev \in Seq(Events)
  BY DEF LockerInv, TypeOK, SlotRecs, SurfRecs
<1>1. /\ pc \in {"globals", "loop"} /\ ev # <<>> /\ Head(ev)[1] = "remove" /\ ev' = Tail(ev)
      /\ slot' = [i \in Slots |-> IF i <= nOut /\ slot[i].name = o THEN NoSlot ELSE slot[i]]
      /\ UNCHANGED <<store, factor, held, sent, present, surf, active, err, pc, nOut, kbd, entry, flags, exit, deaths>>
  BY DEF RegRemove, Dispatching, Taken, Teardown, compositor
<1>2. Tail(ev) \in Seq(Events) /\ o \in Outputs /\ o # NoOutput
  BY <1>1, <1>t, TailFacts, EventTypes, LockAssumption
<1>3. PICK K1 \in SUBSET Outputs :
        /\ Move(Known(slot), Head(ev), K1) /\ Views(Tail(ev), K1, present)
        /\ o \notin present
  <2>1. Views(ev, Known(slot), present)
    BY <1>1 DEF LockerInv, QueueInv
  <2> QED  BY <1>1, <1>t, <2>1, ViewsTail
<1>4. K1 = Known(slot) \ {o}
  BY <1>1, <1>3 DEF Move
<1> HIDE DEF o
<1>5. /\ slot' \in [Slots -> SlotRecs]
      /\ \A i \in Slots : slot[i].name = o => slot'[i] = NoSlot
      /\ \A i \in Slots : slot[i].name # o => slot'[i] = slot[i]
  <2>1. slot' \in [Slots -> SlotRecs]
    BY <1>1, <1>t, EmptyRecs
  <2>2. \A i \in Slots : slot[i].name # o => slot'[i] = slot[i]
    BY <1>1
  <2>3. ASSUME NEW i \in Slots, slot[i].name = o PROVE slot'[i] = NoSlot
    <3>1. i <= nOut
      <4>1. i > nOut => slot[i] = NoSlot
        BY DEF LockerInv, SlotInv
      <4>2. i \in 1 .. MaxOutputs /\ nOut \in 0 .. MaxOutputs /\ MaxOutputs \in Nat
        BY LockAssumption DEF Slots, LockerInv, TypeOK
      <4> QED  BY <4>1, <4>2, <2>3, <1>2, EmptyRecs
    <3> QED  BY <3>1, <2>3, <1>1
  <2> QED  BY <2>1, <2>2, <2>3
<1>6. Known(slot') = K1
  <2>1. ASSUME NEW p \in Outputs PROVE p \in Known(slot') <=> p \in Known(slot) /\ p # o
    <3>1. p # NoOutput
      BY LockAssumption
    <3>2. ASSUME NEW i \in Slots PROVE slot'[i].name = p <=> slot[i].name = p /\ p # o
      BY <3>1, <1>5, EmptyRecs
    <3> QED  BY <3>2, <1>5, <1>t, KnownBySlots
  <2>2. Known(slot') \in SUBSET Outputs /\ Known(slot) \in SUBSET Outputs
    BY <1>5, <1>t, KnownBySlots
  <2> QED  BY <2>1, <2>2, <1>4
<1>7. SlotInv(pc, slot', nOut)
  <2>1. ASSUME NEW i \in Slots
        PROVE  /\ i > nOut \/ slot'[i].name = NoOutput => slot'[i] = NoSlot
               /\ pc = "loop" => (slot'[i].name # NoOutput => slot'[i].role)
               /\ pc # "loop" => ~slot'[i].role /\ ~slot'[i].conf /\ slot'[i].buf = 0
    BY <1>5, EmptyRecs DEF LockerInv, SlotInv
  <2>2. ASSUME NEW i \in Slots, NEW j \in Slots, slot'[i].name = slot'[j].name,
               slot'[i].name # NoOutput
        PROVE  i = j
    BY <2>2, <1>5, EmptyRecs DEF LockerInv, SlotInv
  <2> QED  BY <2>1, <2>2, <1>1 DEF SlotInv
<1>8. QueueInv(pc, Tail(ev), Known(slot'), present)
  BY <1>1, <1>3, <1>6 DEF LockerInv, QueueInv
<1>9. LockInv(pc, held, sent, Tail(ev), flags)
  <2>1. \A kind : NoKind(ev, kind) => NoKind(Tail(ev), kind)
    BY <1>1, <1>t, TailQueue
  <2> QED  BY <2>1 DEF LockerInv, LockInv
<1>10. SurfInv(held, present, surf, Tail(ev), slot')
  <2>1. SurfInv(held, present, surf, Tail(ev), slot)
    BY <1>1, <1>t, SurfacesKept DEF LockerInv
  <2>2. ASSUME NEW p \in Outputs
        PROVE  surf[p].role <=> held = "us" /\ p \in present /\ p \in Known(slot')
    BY <2>1, <1>3, <1>4, <1>6 DEF SurfInv
  <2>3. ASSUME NEW i \in Slots, NEW p \in Outputs, slot'[i].name = p PROVE slot'[i] = slot[i]
    BY <2>3, <1>5, EmptyRecs, LockAssumption
  <2>4. ASSUME NEW i \in Slots, NEW p \in Outputs, slot'[i].name = p, surf[p].role
        PROVE  /\ slot'[i].conf /\ slot'[i].buf # 0 => surf[p].acked = slot'[i].buf
               /\ Last(Tail(ev), p, surf[p].size)
               /\ NoConf(Tail(ev), p) => /\ surf[p].acked = surf[p].size
                                         /\ surf[p].buf = surf[p].size \/ slot'[i].buf = 0
    BY <2>1, <2>3, <2>4 DEF SurfInv
  <2>5. \A p \in Outputs : ~surf[p].role => surf[p] = NoSurf
    BY <2>1 DEF SurfInv
  <2> QED  BY <2>2, <2>4, <2>5 DEF SurfInv
<1>11. TypeOK'
  <2>1. Shapes /\ Scalars
    BY TypesSplit DEF LockerInv
  <2>2. Shapes'
    BY <2>1, <1>1, <1>2, <1>5 DEF Shapes
  <2>3. Scalars'
    BY <2>1, <1>1 DEF Scalars
  <2> QED  BY <1>1, <2>2, <2>3, TypesSplit DEF LockerInv, NoProtocolError
<1>12. /\ SlotInv(pc', slot', nOut') /\ QueueInv(pc', ev', Known(slot'), present')
       /\ LockInv(pc', held', sent', ev', flags') /\ SurfInv(held', present', surf', ev', slot')
       /\ err' = "none"
  BY <1>1, <1>7, <1>8, <1>9, <1>10 DEF LockerInv, NoProtocolError
<1> QED  BY <1>11, <1>12 DEF LockerInv, NoProtocolError

(* When every slot is taken, the client knows as many outputs as there are  *)
(* slots.                                                                   *)
LEMMA FullSlots ==
  ASSUME NEW sl \in [Slots -> SlotRecs], \A i \in Slots : sl[i].name # NoOutput,
         \A i, j \in Slots : sl[i].name = sl[j].name => i = j
  PROVE  MaxOutputs <= Cardinality(Known(sl))
<1> DEFINE f == [i \in Slots |-> sl[i].name]
<1>1. f \in [Slots -> Known(sl)]
  BY DEF Known
<1>2. \A i, j \in Slots : f[i] = f[j] => i = j
  OBVIOUS
<1> HIDE DEF f
<1>3. f \in Injection(Slots, Known(sl))
  BY <1>1, <1>2 DEF Injection, IsInjective
<1>4. IsFiniteSet(Known(sl))
  BY KnownBySlots, FiniteOutputs
<1>5. Cardinality(Slots) <= Cardinality(Known(sl))
  BY <1>3, <1>4, FS_Injection
<1>6. Cardinality(Slots) = MaxOutputs
  <2>1. MaxOutputs \in Int /\ 1 \in Int /\ ~(1 > MaxOutputs) /\ MaxOutputs - 1 + 1 = MaxOutputs
    BY LockAssumption
  <2> QED  BY <2>1, FS_Interval DEF Slots
<1> QED  BY <1>5, <1>6

(* There is a slot for every output that is announced. *)
LEMMA SlotForOutput ==
  ASSUME LockerInv, NEW o \in Outputs, o \notin Known(slot),
         Cardinality(Known(slot) \cup {o}) <= MaxOutputs
  PROVE  /\ FreeSlots # {}
         /\ \A i \in FreeSlots : i \in Slots /\ slot[i] = NoSlot /\ i <= nOut + 1
<1> DEFINE emptied == {k \in 1 .. nOut : slot[k].name = NoOutput}
<1>t. slot \in [Slots -> SlotRecs] /\ nOut \in 0 .. MaxOutputs /\ MaxOutputs \in Nat
  BY LockAssumption DEF LockerInv, TypeOK, SlotRecs
<1>f. FreeSlots = IF emptied # {} THEN {Min(emptied)} ELSE IF nOut < MaxOutputs THEN {nOut + 1} ELSE {}
  BY DEF FreeSlots
<1>1. emptied \in SUBSET Slots
  BY <1>t DEF Slots
<1>2. CASE emptied # {}
  <2>1. Min(emptied) \in emptied
    BY <1>1, <1>2, LeastSlot
  <2>2. FreeSlots = {Min(emptied)}
    BY <1>2, <1>f
  <2>3. Min(emptied) \in 1 .. nOut /\ slot[Min(emptied)].name = NoOutput
    BY <2>1
  <2> HIDE DEF emptied
  <2>4. Min(emptied) \in Slots /\ Min(emptied) <= nOut + 1
    BY <2>3, <1>t DEF Slots
  <2>5. slot[Min(emptied)] = NoSlot
    BY <2>3, <2>4 DEF LockerInv, SlotInv
  <2> QED  BY <2>2, <2>4, <2>5
<1>3. CASE emptied = {} /\ nOut < MaxOutputs
  <2>1. FreeSlots = {nOut + 1} /\ nOut + 1 \in Slots /\ nOut + 1 > nOut /\ nOut + 1 <= nOut + 1
    BY <1>3, <1>f, <1>t DEF Slots
  <2>2. slot[nOut + 1] = NoSlot
    BY <2>1 DEF LockerInv, SlotInv
  <2> QED  BY <2>1, <2>2
<1>4. CASE emptied = {} /\ ~(nOut < MaxOutputs)
  <2>1. \A i \in Slots : slot[i].name # NoOutput
    BY <1>4, <1>t DEF Slots
  <2>2. \A i, j \in Slots : slot[i].name = slot[j].name => i = j
    BY <2>1 DEF LockerInv, SlotInv
  <2>3. MaxOutputs <= Cardinality(Known(slot))
    BY <2>1, <2>2, <1>t, FullSlots
  <2>4. IsFiniteSet(Known(slot)) /\ Cardinality(Known(slot)) \in Nat
    BY <1>t, KnownBySlots, FiniteOutputs
  <2>5. Cardinality(Known(slot) \cup {o}) = Cardinality(Known(slot)) + 1
    BY <2>4, FS_AddElement
  <2> QED  BY <2>3, <2>4, <2>5, <1>t
<1> QED  BY <1>2, <1>3, <1>4

\* reg_global finds a free slot and asks for the one surface of the output.
LEMMA RegGlobalKeeps ==
  ASSUME LockerInv, RegGlobal
  PROVE  LockerInv'
<1> DEFINE o == Head(ev)[2]
<1>t. /\ slot \in [Slots -> SlotRecs] /\ surf \in [Outputs -> SurfRecs]
      /\ present \in SUBSET Outputs /\ ev \in Seq(Events)
      /\ nOut \in 0 .. MaxOutputs /\ MaxOutputs \in Nat
  BY LockAssumption DEF LockerInv, TypeOK, SlotRecs, SurfRecs
<1>1. /\ pc \in {"globals", "loop"} /\ ev # <<>> /\ Head(ev)[1] = "global" /\ ev' = Tail(ev)
      /\ UNCHANGED <<store, factor, held, sent, present, active, pc, kbd, entry, flags, exit, deaths>>
  BY DEF RegGlobal, Dispatching, Taken
<1>2. Tail(ev) \in Seq(Events) /\ o \in Outputs /\ o # NoOutput
  BY <1>1, <1>t, TailFacts, EventTypes, LockAssumption
<1>3. Views(ev, Known(slot), present)
  BY <1>1 DEF LockerInv, QueueInv
<1>4. PICK K1 \in SUBSET Outputs :
        /\ Move(Known(slot), Head(ev), K1) /\ Views(Tail(ev), K1, present)
        /\ Cardinality(K1) <= MaxOutputs
  BY <1>1, <1>t, <1>3, ViewsTail
<1>5. o \notin Known(slot) /\ K1 = Known(slot) \cup {o}
  BY <1>1, <1>4 DEF Move
<1>6. PICK i \in FreeSlots :
        /\ nOut' = IF i > nOut THEN i ELSE nOut
        /\ slot' = [slot EXCEPT ![i].name = o, ![i].role = (pc = "loop")]
        /\ IF pc = "loop" /\ held = "us" THEN GetLockSurfaces({o}) ELSE UNCHANGED <<surf, err>>
  <2>1. FreeSlots # {}
    BY <1>2, <1>4, <1>5, SlotForOutput
  <2> QED  BY <2>1 DEF RegGlobal
<1>7. i \in Slots /\ slot[i] = NoSlot /\ i <= nOut + 1
  BY <1>2, <1>4, <1>5, SlotForOutput
<1>8. NoConf(Tail(ev), o)
  <2>1. NoConf(ev, o)
    BY <1>t, <1>2, <1>3, <1>5, ViewsFacts
  <2>2. ~Is(Head(ev), "configure", o)
    BY <1>1 DEF Is
  <2> QED  BY <2>1, <2>2, <1>1, <1>t, TailQueue
<1> HIDE DEF o
<1>9. nOut' \in 0 .. MaxOutputs /\ i <= nOut' /\ nOut <= nOut' /\ \A j \in Slots : j > nOut' => j > nOut
  BY <1>6, <1>7, <1>t DEF Slots
<1>10. /\ slot' \in [Slots -> SlotRecs]
       /\ slot'[i].name = o /\ ~slot'[i].conf /\ slot'[i].buf = 0
       /\ slot'[i].role <=> pc = "loop"
       /\ \A j \in Slots : j # i => slot'[j] = slot[j]
  <2>1. PICK b \in BOOLEAN : b = (pc = "loop")
    BY Zenon
  <2> DEFINE new == [NoSlot EXCEPT !.name = o, !.role = b]
  <2>2. slot' = [slot EXCEPT ![i].name = o, ![i].role = b]
    BY <1>6, <2>1, Zenon
  <2>3. slot'[i] = new
    BY <2>2, <1>7, <1>t
  <2>4. \A j \in Slots : j # i => slot'[j] = slot[j]
    BY <2>2, <1>7, <1>t
  <2>5. new \in SlotRecs /\ new.name = o /\ new.role = b /\ ~new.conf /\ new.buf = 0
    BY <1>2, EmptyRecs DEF SlotRecs
  <2>6. DOMAIN slot' = Slots /\ slot' = [j \in Slots |-> slot'[j]]
    BY <2>2, <1>t
  <2> HIDE DEF new
  <2>7. slot' \in [Slots -> SlotRecs]
    BY <2>3, <2>4, <2>5, <2>6, <1>t
  <2>8. slot'[i].role <=> pc = "loop"
    BY <2>1, <2>3, <2>5, Zenon
  <2> QED  BY <2>3, <2>4, <2>5, <2>7, <2>8
<1>11. Known(slot') = K1
  <2>1. ASSUME NEW p \in Outputs PROVE p \in Known(slot') <=> p \in Known(slot) \/ p = o
    <3>1. p # NoOutput
      BY LockAssumption
    <3>2. slot[i].name # p
      BY <1>7, <3>1, EmptyRecs
    <3>3. (\E j \in Slots : slot'[j].name = p) <=> (\E j \in Slots : slot[j].name = p) \/ p = o
      BY <3>2, <1>7, <1>10
    <3> QED  BY <3>3, <1>10, <1>t, KnownBySlots
  <2>2. Known(slot') \in SUBSET Outputs /\ Known(slot) \in SUBSET Outputs
    BY <1>10, <1>t, KnownBySlots
  <2> QED  BY <2>1, <2>2, <1>5, <1>2
<1>12. SlotInv(pc, slot', nOut')
  <2>1. ASSUME NEW j \in Slots
        PROVE  /\ j > nOut' \/ slot'[j].name = NoOutput => slot'[j] = NoSlot
               /\ pc = "loop" => (slot'[j].name # NoOutput => slot'[j].role)
               /\ pc # "loop" => ~slot'[j].role /\ ~slot'[j].conf /\ slot'[j].buf = 0
    <3>1. CASE j = i
      <4>1. ~(j > nOut')
        BY <3>1, <1>9, <1>7, <1>t DEF Slots
      <4> QED  BY <4>1, <3>1, <1>10, <1>2
    <3>2. CASE j # i
      BY <3>2, <1>9, <1>10 DEF LockerInv, SlotInv
    <3> QED  BY <3>1, <3>2
  <2>2. ASSUME NEW j \in Slots, NEW k \in Slots, slot'[j].name = slot'[k].name,
               slot'[j].name # NoOutput
        PROVE  j = k
    <3>1. \A m \in Slots : slot[m].name # o
      BY <1>5, <1>2, <1>t, KnownBySlots
    <3> QED  BY <3>1, <2>2, <1>10 DEF LockerInv, SlotInv
  <2> QED  BY <2>1, <2>2, <1>1 DEF SlotInv
<1>13. QueueInv(pc, Tail(ev), Known(slot'), present)
  BY <1>1, <1>4, <1>11 DEF LockerInv, QueueInv
<1>14. LockInv(pc, held, sent, Tail(ev), flags)
  <2>1. \A kind : NoKind(ev, kind) => NoKind(Tail(ev), kind)
    BY <1>1, <1>t, TailQueue
  <2> QED  BY <2>1 DEF LockerInv, LockInv
<1>15. SurfInv(held, present, surf, Tail(ev), slot)
  BY <1>1, <1>t, SurfacesKept DEF LockerInv
<1>16. /\ surf' \in [Outputs -> SurfRecs] /\ err' = err
       /\ \A p \in Outputs : p # o => surf'[p] = surf[p]
       /\ held = "us" /\ o \in present
            => surf'[o].role /\ surf'[o].size = 0 /\ surf'[o].acked = 0 /\ surf'[o].buf = 0
       /\ ~(held = "us" /\ o \in present) => surf'[o] = surf[o]
  <2>1. held = "us" => pc = "loop"
    BY DEF LockerInv, LockInv
  <2>2. CASE held = "us"
    <3>1. GetLockSurfaces({o})
      BY <2>1, <2>2, <1>6
    <3>2. ~surf[o].role
      BY <1>2, <1>5, <1>15 DEF SurfInv
    <3> DEFINE new == [NoSurf EXCEPT !.role = TRUE]
    <3>4. new \in SurfRecs /\ new.role /\ new.size = 0 /\ new.acked = 0 /\ new.buf = 0
      BY EmptyRecs DEF SurfRecs
    <3>5. /\ surf' = [p \in Outputs |->
                IF p \in {o} \cap present THEN new ELSE surf[p]]
          /\ err' = IF \E p \in {o} \cap present : surf[p].role THEN "duplicate" ELSE err
      BY <3>1 DEF GetLockSurfaces
    <3> HIDE DEF new
    <3>6. err' = err
      BY <3>2, <3>5
    <3>7. surf' \in [Outputs -> SurfRecs]
      BY <3>4, <3>5, <1>t
    <3> QED  BY <3>4, <3>5, <3>6, <3>7, <1>2, <2>2
  <2>3. CASE held # "us"
    BY <2>3, <1>6, <1>t
  <2> QED  BY <2>2, <2>3
<1>17. SurfInv(held, present, surf', Tail(ev), slot')
  <2>1. ASSUME NEW p \in Outputs
        PROVE  surf'[p].role <=> held = "us" /\ p \in present /\ p \in Known(slot')
    <3>1. CASE p # o
      BY <3>1, <1>5, <1>11, <1>15, <1>16 DEF SurfInv
    <3>2. CASE p = o /\ held = "us" /\ o \in present
      BY <3>2, <1>5, <1>11, <1>16
    <3>3. CASE p = o /\ ~(held = "us" /\ o \in present)
      BY <3>3, <1>15, <1>16 DEF SurfInv
    <3> QED  BY <3>1, <3>2, <3>3
  <2>2. ASSUME NEW p \in Outputs, ~surf'[p].role PROVE surf'[p] = NoSurf
    BY <2>2, <1>15, <1>16 DEF SurfInv
  <2>3. ASSUME NEW j \in Slots, NEW p \in Outputs, slot'[j].name = p, surf'[p].role
        PROVE  /\ slot'[j].conf /\ slot'[j].buf # 0 => surf'[p].acked = slot'[j].buf
               /\ Last(Tail(ev), p, surf'[p].size)
               /\ NoConf(Tail(ev), p) => /\ surf'[p].acked = surf'[p].size
                                         /\ surf'[p].buf = surf'[p].size \/ slot'[j].buf = 0
    <3>1. CASE p # o
      <4>1. j # i /\ slot'[j] = slot[j] /\ surf'[p] = surf[p]
        BY <3>1, <2>3, <1>10, <1>16
      <4> QED  BY <4>1, <2>3, <1>15 DEF SurfInv
    <3>2. CASE p = o
      <4>1. j = i
        BY <3>2, <2>3, <1>12, <1>10, <1>7, <1>2 DEF SlotInv
      <4>2. held = "us" /\ o \in present
        BY <2>1, <2>3, <3>2
      <4>3. Last(Tail(ev), o, surf'[o].size)
        BY <1>8 DEF Last, NoConf
      <4> QED  BY <3>2, <4>1, <4>2, <4>3, <1>10, <1>16
    <3> QED  BY <3>1, <3>2
  <2> QED  BY <2>1, <2>2, <2>3 DEF SurfInv
<1>18. TypeOK'
  <2>1. Shapes /\ Scalars
    BY TypesSplit DEF LockerInv
  <2>2. Shapes'
    BY <2>1, <1>1, <1>2, <1>10, <1>16 DEF Shapes
  <2>3. Scalars'
    BY <2>1, <1>1, <1>9 DEF Scalars
  <2> QED  BY <1>16, <2>2, <2>3, TypesSplit DEF LockerInv, NoProtocolError
<1>19. /\ SlotInv(pc', slot', nOut') /\ QueueInv(pc', ev', Known(slot'), present')
       /\ LockInv(pc', held', sent', ev', flags') /\ SurfInv(held', present', surf', ev', slot')
       /\ err' = "none"
  BY <1>1, <1>12, <1>13, <1>14, <1>16, <1>17 DEF LockerInv, NoProtocolError
<1> QED  BY <1>18, <1>19 DEF LockerInv, NoProtocolError

(* What surface_configure leaves: the size acknowledged, and a buffer of    *)
(* that size shown or none at all.                                          *)
LEMMA ConfigureOutcome ==
  ASSUME LockerInv, SurfaceConfigure, Head(ev)[2] \in Outputs, Head(ev)[3] \in Sizes,
         held = "us", pc = "loop",
         NEW i \in Slots, slot[i].name = Head(ev)[2]
  PROVE  /\ err' = err
         /\ slot' \in [Slots -> SlotRecs]
         /\ slot'[i].name = Head(ev)[2] /\ slot'[i].role
         /\ slot'[i].buf \in {0, Head(ev)[3]}
         /\ \A j \in Slots : j # i => slot'[j] = slot[j]
         /\ surf' \in [Outputs -> SurfRecs]
         /\ \A p \in Outputs : p # Head(ev)[2] => surf'[p] = surf[p]
         /\ Head(ev)[2] \notin present => surf'[Head(ev)[2]] = surf[Head(ev)[2]]
         /\ Head(ev)[2] \in present =>
              /\ surf'[Head(ev)[2]].role
              /\ surf'[Head(ev)[2]].size = surf[Head(ev)[2]].size
              /\ surf'[Head(ev)[2]].acked = Head(ev)[3]
              /\ surf'[Head(ev)[2]].buf = Head(ev)[3] \/ slot'[i].buf = 0
<1> DEFINE o == Head(ev)[2]
           size == Head(ev)[3]
<1>0. o \in Outputs /\ size \in Sizes /\ slot[i].name = o
  OBVIOUS
<1> DEFINE mine == {j \in 1 .. nOut : slot[j].name = o /\ slot[j].role}
           acked == IF o \in present THEN [surf EXCEPT ![o].acked = size] ELSE surf
<1> HIDE DEF o, size
<1>t. /\ slot \in [Slots -> SlotRecs] /\ surf \in [Outputs -> SurfRecs]
      /\ present \in SUBSET Outputs /\ nOut \in 0 .. MaxOutputs /\ MaxOutputs \in Nat
      /\ o # NoOutput /\ size # 0 /\ Slots = 1 .. MaxOutputs
  BY <1>0, LockAssumption DEF LockerInv, TypeOK, SlotRecs, SurfRecs, Slots
<1>1. i \in 1 .. nOut /\ slot[i].role /\ \A j \in Slots : slot[j].name = o => j = i
  <2>1. ~(i > nOut)
    BY <1>0, <1>t, EmptyRecs DEF LockerInv, SlotInv
  <2>2. i \in 1 .. nOut
    BY <2>1, <1>t
  <2> QED  BY <2>2, <1>0, <1>t DEF LockerInv, SlotInv
<1>2. mine = {i}
  BY <1>0, <1>1, <1>t
<1>3. Min({i}) = i
  BY <1>t DEF Min
<1>4. PICK s \in OutputAlloc(slot[i], size) :
        IF s.buf = size
        THEN LET done == [s EXCEPT !.conf = TRUE]
             IN /\ slot' = [slot EXCEPT ![i] = done]
                /\ DrawAll([j \in Slots |-> IF j = i THEN done ELSE NoSlot], acked)
        ELSE slot' = [slot EXCEPT ![i] = s] /\ surf' = acked /\ UNCHANGED err
  <2>1. \E k \in mine, s \in OutputAlloc(slot[Min(mine)], size) :
          IF s.buf = size
          THEN LET done == [s EXCEPT !.conf = TRUE]
               IN /\ slot' = [slot EXCEPT ![k] = done]
                  /\ DrawAll([j \in Slots |-> IF j = k THEN done ELSE NoSlot], acked)
          ELSE slot' = [slot EXCEPT ![k] = s] /\ surf' = acked /\ UNCHANGED err
    <3>1. mine # {}
      BY <1>2
    <3> QED  BY <3>1 DEF SurfaceConfigure, o, size
  <2> HIDE DEF mine, acked
  <2>2. Min(mine) = i
    BY <1>2, <1>3
  <2>3. PICK k \in mine, s \in OutputAlloc(slot[Min(mine)], size) :
          IF s.buf = size
          THEN LET done == [s EXCEPT !.conf = TRUE]
               IN /\ slot' = [slot EXCEPT ![k] = done]
                  /\ DrawAll([j \in Slots |-> IF j = k THEN done ELSE NoSlot], acked)
          ELSE slot' = [slot EXCEPT ![k] = s] /\ surf' = acked /\ UNCHANGED err
    BY <2>1, Zenon
  <2>4. k = i
    BY <1>2
  <2>5. s \in OutputAlloc(slot[i], size)
    BY <2>2
  <2> QED  BY <2>3, <2>4, <2>5, Zenon
<1>5. surf[o].role <=> o \in present
  <2>1. o \in Known(slot)
    BY <1>0, <1>t, KnownBySlots
  <2> QED  BY <2>1, <1>0 DEF LockerInv, SurfInv
<1>6. /\ acked \in [Outputs -> SurfRecs]
      /\ \A p \in Outputs : p # o => acked[p] = surf[p]
      /\ o \notin present => acked[o] = surf[o]
      /\ o \in present => /\ acked[o].role /\ acked[o].size = surf[o].size
                          /\ acked[o].acked = size
  <2>1. CASE o \notin present
    BY <2>1, <1>0, <1>t
  <2>2. CASE o \in present
    <3>1. surf[o].role
      BY <1>5, <2>2
    <3> QED  BY <2>2, <3>1, <1>0, <1>t DEF SurfRecs
  <2> QED  BY <2>1, <2>2
<1> HIDE DEF acked
<1>7. s \in SlotRecs /\ s.name = o /\ s.role /\ s.buf \in {0, size}
  <2>1. s \in {[slot[i] EXCEPT !.buf = size], [slot[i] EXCEPT !.buf = 0]}
    BY DEF OutputAlloc
  <2> QED  BY <2>1, <1>0, <1>1, <1>t DEF SlotRecs
<1>8. CASE s.buf = size
  <2> DEFINE done == [s EXCEPT !.conf = TRUE]
             sl == [j \in Slots |-> IF j = i THEN done ELSE NoSlot]
  <2>1. slot' = [slot EXCEPT ![i] = done] /\ DrawAll(sl, acked)
    BY <1>4, <1>8
  <2>2. done \in SlotRecs /\ done.name = o /\ done.role /\ done.conf /\ done.buf = size
    BY <1>7, <1>8 DEF SlotRecs
  <2> HIDE DEF done
  <2>3. /\ slot' \in [Slots -> SlotRecs] /\ slot'[i] = done
        /\ \A j \in Slots : j # i => slot'[j] = slot[j]
    BY <2>1, <2>2, <1>t
  <2>4. sl \in [Slots -> SlotRecs] /\ sl[i] = done /\ \A j \in Slots : j # i => sl[j] = NoSlot
    BY <2>2, EmptyRecs
  <2> HIDE DEF sl
  <2>5. BufOf(sl, o) = size
    <3>1. \A j \in Slots : sl[j].name = o => j = i
      BY <2>4, <1>t, EmptyRecs
    <3> QED  BY <3>1, <2>2, <2>4, BufOfIs
  <2>6. Draws(sl) = {o}
    <3>1. {j \in 1 .. nOut : sl[j].conf /\ sl[j].buf # 0} = {i}
      BY <2>2, <2>4, <1>1, <1>t, EmptyRecs
    <3> QED  BY <3>1, <2>2, <2>4 DEF Draws
  <2> DEFINE D == {o} \cap {p \in present : acked[p].role}
  <2>7. /\ surf' = [p \in Outputs |->
                     IF p \in D THEN [acked[p] EXCEPT !.buf = BufOf(sl, p)] ELSE acked[p]]
        /\ err' = IF \E p \in D : acked[p].acked = 0 THEN "early commit"
                  ELSE IF \E p \in D : acked[p].acked # BufOf(sl, p) THEN "size"
                  ELSE err
    BY <2>1, <2>6 DEF DrawAll
  <2>8. \A p \in D : p = o /\ o \in present
    OBVIOUS
  <2>9. o \in present => o \in D
    BY <1>6
  <2> HIDE DEF D
  <2>10. err' = err
    <3>1. ~\E p \in D : acked[p].acked = 0
      BY <2>8, <1>6, <1>t
    <3>2. ~\E p \in D : acked[p].acked # BufOf(sl, p)
      BY <2>8, <2>5, <1>6
    <3> QED  BY <2>7, <3>1, <3>2
  <2>11. \A p \in Outputs : p # o => surf'[p] = surf[p]
    BY <2>7, <2>8, <1>6
  <2>12. o \notin present => surf'[o] = surf[o]
    BY <2>7, <2>8, <1>0, <1>6
  <2>13. ASSUME o \in present
         PROVE  /\ surf'[o].role /\ surf'[o].size = surf[o].size /\ surf'[o].acked = size
                /\ surf'[o].buf = size /\ surf'[o] \in SurfRecs
    <3>1. surf'[o] = [acked[o] EXCEPT !.buf = size] /\ acked[o] \in SurfRecs
      BY <2>13, <2>5, <2>7, <2>9, <1>0, <1>6
    <3> QED  BY <3>1, <2>13, <1>6 DEF SurfRecs
  <2>14. surf' \in [Outputs -> SurfRecs]
    <3>1. DOMAIN surf' = Outputs /\ surf' = [p \in Outputs |-> surf'[p]]
      BY <2>7
    <3> QED  BY <3>1, <2>11, <2>12, <2>13, <1>t
  <2> QED  BY <2>2, <2>3, <2>10, <2>11, <2>12, <2>13, <2>14 DEF o, size
<1>9. CASE s.buf # size
  <2>1. slot' = [slot EXCEPT ![i] = s] /\ surf' = acked /\ err' = err
    BY <1>4, <1>9
  <2>2. s.buf = 0
    BY <1>7, <1>9
  <2>3. /\ slot' \in [Slots -> SlotRecs] /\ slot'[i] = s
        /\ \A j \in Slots : j # i => slot'[j] = slot[j]
    BY <2>1, <1>7, <1>t
  <2> QED  BY <2>1, <2>2, <2>3, <1>6, <1>7 DEF o, size
<1> QED  BY <1>8, <1>9

\* surface_configure.
LEMMA SurfaceConfigureKeeps ==
  ASSUME LockerInv, SurfaceConfigure
  PROVE  LockerInv'
<1> DEFINE o == Head(ev)[2]
           size == Head(ev)[3]
<1>t. /\ slot \in [Slots -> SlotRecs] /\ surf \in [Outputs -> SurfRecs]
      /\ present \in SUBSET Outputs /\ ev \in Seq(Events)
  BY DEF LockerInv, TypeOK, SlotRecs, SurfRecs
<1>1. /\ pc \in {"globals", "loop"} /\ ev # <<>> /\ Head(ev)[1] = "configure" /\ ev' = Tail(ev)
      /\ UNCHANGED <<store, factor, held, sent, present, active, pc, nOut, kbd, entry, flags, exit, deaths>>
  BY DEF SurfaceConfigure, Dispatching, Taken
<1>2. Tail(ev) \in Seq(Events) /\ o \in Outputs /\ o # NoOutput /\ size \in Sizes
  BY <1>1, <1>t, TailFacts, EventTypes, LockAssumption
<1>3. /\ \A kind : NoKind(ev, kind) => NoKind(Tail(ev), kind) /\ Head(ev)[1] # kind
      /\ \A p, s : Last(ev, p, s) => Last(Tail(ev), p, s)
      /\ \A p : ~Is(Head(ev), "configure", p) => (NoConf(ev, p) <=> NoConf(Tail(ev), p))
      /\ \A p, s : Is(Head(ev), "configure", p) /\ NoConf(Tail(ev), p) /\ Last(ev, p, s)
                     => Head(ev)[3] = s
  BY <1>1, <1>t, TailQueue
<1>4. held = "us" /\ pc = "loop"
  <2>1. ~NoKind(ev, "configure")
    BY <1>1, <1>3
  <2> QED  BY <2>1 DEF LockerInv, LockInv
<1>5. PICK K1 \in SUBSET Outputs :
        /\ Move(Known(slot), Head(ev), K1) /\ Views(Tail(ev), K1, present)
        /\ o \in Known(slot)
  <2>1. Views(ev, Known(slot), present)
    BY <1>1 DEF LockerInv, QueueInv
  <2> QED  BY <1>1, <1>t, <2>1, ViewsTail
<1>6. K1 = Known(slot)
  BY <1>1, <1>5 DEF Move
<1>7. PICK i \in Slots : slot[i].name = o
  BY <1>2, <1>5, <1>t, KnownBySlots
<1>8. /\ err' = err
      /\ slot' \in [Slots -> SlotRecs]
      /\ slot'[i].name = o /\ slot'[i].role
      /\ slot'[i].buf \in {0, size}
      /\ \A j \in Slots : j # i => slot'[j] = slot[j]
      /\ surf' \in [Outputs -> SurfRecs]
      /\ \A p \in Outputs : p # o => surf'[p] = surf[p]
      /\ o \notin present => surf'[o] = surf[o]
      /\ o \in present => /\ surf'[o].role /\ surf'[o].size = surf[o].size
                          /\ surf'[o].acked = size
                          /\ surf'[o].buf = size \/ slot'[i].buf = 0
  BY <1>2, <1>4, <1>7, ConfigureOutcome
<1>h. Is(Head(ev), "configure", o) /\ \A p : p # o => ~Is(Head(ev), "configure", p)
  BY <1>1 DEF Is
<1>z. size = Head(ev)[3]
  OBVIOUS
<1> HIDE DEF o, size
<1>n. \A j \in Slots : slot'[j].name = slot[j].name
  BY <1>7, <1>8
<1>9. Known(slot') = Known(slot)
  BY <1>n DEF Known
<1>10. SlotInv(pc, slot', nOut)
  <2>1. ASSUME NEW j \in Slots
        PROVE  /\ j > nOut \/ slot'[j].name = NoOutput => slot'[j] = NoSlot
               /\ slot'[j].name # NoOutput => slot'[j].role
    <3>1. CASE j = i
      <4>1. ~(i > nOut)
        BY <1>2, <1>7, EmptyRecs DEF LockerInv, SlotInv
      <4> QED  BY <4>1, <3>1, <1>2, <1>8
    <3>2. CASE j # i
      BY <3>2, <1>4, <1>8 DEF LockerInv, SlotInv
    <3> QED  BY <3>1, <3>2
  <2>2. \A j, k \in Slots : slot'[j].name = slot'[k].name /\ slot'[j].name # NoOutput => j = k
    BY <1>n DEF LockerInv, SlotInv
  <2> QED  BY <2>1, <2>2, <1>4 DEF SlotInv
<1>11. QueueInv(pc, Tail(ev), Known(slot'), present)
  BY <1>4, <1>5, <1>6, <1>9 DEF LockerInv, QueueInv
<1>12. LockInv(pc, held, sent, Tail(ev), flags)
  BY <1>3, <1>4 DEF LockerInv, LockInv
<1>13. SurfInv(held, present, surf', Tail(ev), slot')
  <2>0. SurfInv(held, present, surf, ev, slot)
    BY DEF LockerInv
  <2>1. ASSUME NEW p \in Outputs
        PROVE  surf'[p].role <=> held = "us" /\ p \in present /\ p \in Known(slot')
    <3>1. CASE p # o
      BY <3>1, <2>0, <1>8, <1>9 DEF SurfInv
    <3>2. CASE p = o /\ o \in present
      BY <3>2, <1>4, <1>5, <1>8, <1>9
    <3>3. CASE p = o /\ o \notin present
      BY <3>3, <2>0, <1>8, <1>9 DEF SurfInv
    <3> QED  BY <3>1, <3>2, <3>3
  <2>2. ASSUME NEW p \in Outputs, ~surf'[p].role PROVE surf'[p] = NoSurf
    <3>1. surf'[p] = surf[p]
      BY <2>2, <1>8
    <3> QED  BY <3>1, <2>0, <2>2 DEF SurfInv
  <2>3. ASSUME NEW j \in Slots, NEW p \in Outputs, slot'[j].name = p, surf'[p].role
        PROVE  /\ slot'[j].conf /\ slot'[j].buf # 0 => surf'[p].acked = slot'[j].buf
               /\ Last(Tail(ev), p, surf'[p].size)
               /\ NoConf(Tail(ev), p) => /\ surf'[p].acked = surf'[p].size
                                         /\ surf'[p].buf = surf'[p].size \/ slot'[j].buf = 0
    <3>1. CASE p # o
      <4>1. j # i /\ slot'[j] = slot[j] /\ surf'[p] = surf[p]
        BY <3>1, <2>3, <1>8
      <4>2. /\ slot[j].conf /\ slot[j].buf # 0 => surf[p].acked = slot[j].buf
            /\ Last(ev, p, surf[p].size)
            /\ NoConf(ev, p) => /\ surf[p].acked = surf[p].size
                                /\ surf[p].buf = surf[p].size \/ slot[j].buf = 0
        BY <4>1, <2>0, <2>3 DEF SurfInv
      <4>3. NoConf(ev, p) <=> NoConf(Tail(ev), p)
        BY <3>1, <1>h, <1>3
      <4> QED  BY <4>1, <4>2, <4>3, <1>3
    <3>2. CASE p = o
      <4>1. j = i
        BY <3>2, <2>3, <1>8, <1>10, <1>2 DEF SlotInv
      <4>2. o \in present /\ surf[o].role
        BY <2>1, <2>3, <3>2, <2>0, <1>5 DEF SurfInv
      <4>3. Last(ev, o, surf[o].size)
        BY <4>2, <2>0, <1>7, <1>2 DEF SurfInv
      <4>4. Last(Tail(ev), o, surf'[o].size)
        BY <4>3, <4>2, <1>3, <1>8
      <4>5. NoConf(Tail(ev), o) => surf'[o].size = size
        BY <4>3, <4>2, <1>3, <1>8, <1>h, <1>z
      <4> QED  BY <3>2, <4>1, <4>2, <4>4, <4>5, <1>8
    <3> QED  BY <3>1, <3>2
  <2> QED  BY <2>1, <2>2, <2>3 DEF SurfInv
<1>14. TypeOK'
  <2>1. Shapes /\ Scalars
    BY TypesSplit DEF LockerInv
  <2>2. Shapes'
    BY <2>1, <1>1, <1>2, <1>8 DEF Shapes
  <2>3. Scalars'
    BY <2>1, <1>1 DEF Scalars
  <2> QED  BY <1>8, <2>2, <2>3, TypesSplit DEF LockerInv, NoProtocolError
<1>15. /\ SlotInv(pc', slot', nOut') /\ QueueInv(pc', ev', Known(slot'), present')
       /\ LockInv(pc', held', sent', ev', flags') /\ SurfInv(held', present', surf', ev', slot')
       /\ err' = "none"
  BY <1>1, <1>8, <1>10, <1>11, <1>12, <1>13 DEF LockerInv, NoProtocolError
<1> QED  BY <1>14, <1>15 DEF LockerInv, NoProtocolError

-----------------------------------------------------------------------------
(* The start of the client.                                                 *)

(* The outputs there are all have a slot after the registry roundtrips. *)
LEMMA ConnectOutcome ==
  ASSUME LockerInv, Connect, pc' # "none"
  PROVE  /\ pc' = "globals" /\ kbd' \in {"none", "live", "inert"} /\ exit' = 9
         /\ nOut' \in 0 .. MaxOutputs /\ slot' \in [Slots -> SlotRecs]
         /\ Known(slot') = present
         /\ SlotInv("globals", slot', nOut')
<1> DEFINE n == Min({MaxOutputs, Cardinality(present)})
<1>t. /\ present \in SUBSET Outputs /\ IsFiniteSet(present) /\ Cardinality(present) \in Nat
      /\ MaxOutputs \in Nat /\ Cardinality(present) <= MaxOutputs
  <2>1. present \in SUBSET Outputs /\ Cardinality(present) <= MaxOutputs
    BY DEF LockerInv, TypeOK, QueueInv
  <2> QED  BY <2>1, FiniteOutputs, LockAssumption
<1>1. /\ pc' = "globals" /\ nOut' = n /\ kbd' = (IF active THEN "live" ELSE "none") /\ exit' = 9
      /\ \E f \in [1 .. n -> present] :
           /\ \A i, j \in 1 .. n : f[i] = f[j] => i = j
           /\ slot' = [i \in Slots |-> IF i <= n THEN [NoSlot EXCEPT !.name = f[i]] ELSE NoSlot]
  BY DEF Connect
<1>2. n = Cardinality(present)
  BY <1>t DEF Min
<1> HIDE DEF n
<1>3. PICK f \in [1 .. n -> present] :
        /\ \A i, j \in 1 .. n : f[i] = f[j] => i = j
        /\ slot' = [i \in Slots |-> IF i <= n THEN [NoSlot EXCEPT !.name = f[i]] ELSE NoSlot]
  BY <1>1
<1>4. \A o \in present : \E i \in 1 .. n : f[i] = o
  <2>1. f \in Injection(1 .. n, present)
    BY <1>3 DEF Injection, IsInjective
  <2>2. Cardinality(1 .. n) = n
    <3>1. n \in Int /\ 1 \in Int /\ (1 > n => n = 0) /\ n - 1 + 1 = n
      BY <1>2, <1>t
    <3> QED  BY <3>1, FS_Interval
  <2>3. f \in Surjection(1 .. n, present)
    BY <2>1, <2>2, <1>2, <1>t, FS_Injection
  <2> QED  BY <2>3 DEF Surjection
<1>5. ASSUME NEW i \in Slots
      PROVE  /\ slot'[i] \in SlotRecs /\ ~slot'[i].role /\ ~slot'[i].conf /\ slot'[i].buf = 0
             /\ i > n => slot'[i] = NoSlot
             /\ ~(i > n) => i \in 1 .. n /\ slot'[i].name = f[i] /\ f[i] \in present
             /\ ~(i > n) => f[i] # NoOutput
  <2>0. i \in 1 .. MaxOutputs /\ n \in Nat
    BY <1>2, <1>t DEF Slots
  <2>1. CASE i > n
    <3>1. slot'[i] = NoSlot
      BY <2>0, <2>1, <1>3
    <3> QED  BY <3>1, <2>1, EmptyRecs
  <2>2. CASE ~(i > n)
    <3>1. i <= n /\ i \in 1 .. n
      BY <2>0, <2>2
    <3>2. slot'[i] = [NoSlot EXCEPT !.name = f[i]] /\ f[i] \in present /\ f[i] \in Outputs
      BY <3>1, <1>3, <1>t
    <3>3. f[i] # NoOutput
      BY <3>2, LockAssumption
    <3> QED  BY <2>2, <3>1, <3>2, <3>3, EmptyRecs DEF SlotRecs
  <2> QED  BY <2>1, <2>2
<1>6. slot' \in [Slots -> SlotRecs]
  <2>1. DOMAIN slot' = Slots /\ slot' = [i \in Slots |-> slot'[i]]
    BY <1>3
  <2> QED  BY <2>1, <1>5
<1>7. Known(slot') = present
  <2>1. ASSUME NEW o \in present PROVE o \in Known(slot')
    <3>1. PICK i \in 1 .. n : f[i] = o
      BY <1>4
    <3>2. i \in Slots /\ ~(i > n)
      BY <1>2, <1>t DEF Slots
    <3> QED  BY <3>1, <3>2, <1>5 DEF Known
  <2>2. ASSUME NEW o \in Known(slot') PROVE o \in present
    <3>1. PICK i \in Slots : slot'[i].name = o /\ o # NoOutput
      BY DEF Known
    <3> QED  BY <3>1, <1>5, EmptyRecs
  <2> QED  BY <2>1, <2>2
<1>8. SlotInv("globals", slot', n)
  <2>1. \A i \in Slots : i > n \/ slot'[i].name = NoOutput => slot'[i] = NoSlot
    BY <1>5
  <2>2. ASSUME NEW i \in Slots, NEW j \in Slots, slot'[i].name = slot'[j].name, slot'[i].name # NoOutput
        PROVE  i = j
    <3>1. ~(i > n) /\ ~(j > n)
      BY <2>2, <1>5, EmptyRecs
    <3> QED  BY <3>1, <2>2, <1>3, <1>5
  <2>3. \A i \in Slots : ~slot'[i].role /\ ~slot'[i].conf /\ slot'[i].buf = 0
    BY <1>5
  <2> QED  BY <2>1, <2>2, <2>3 DEF SlotInv
<1>9. n \in 0 .. MaxOutputs
  BY <1>2, <1>t
<1> QED  BY <1>1, <1>6, <1>7, <1>8, <1>9

\* The client starts, or finds nothing to do.
LEMMA ConnectKeeps ==
  ASSUME LockerInv, Connect
  PROVE  LockerInv'
<1>1. /\ pc = "none" /\ exit' \in {1, 3, 9}
      /\ UNCHANGED <<store, factor, held, sent, present, surf, active, err, ev, entry, flags, deaths>>
  BY DEF Connect, compositor
<1>2. ev = <<>> /\ held # "us" /\ ~("finished" \in flags) /\ NoKind(ev, "finished")
  BY <1>1 DEF LockerInv, QueueInv, LockInv
<1>3. Shapes /\ Scalars
  BY TypesSplit DEF LockerInv
<1>4. CASE pc' = "none"
  <2>1. UNCHANGED <<pc, slot, nOut, kbd>>
    BY <1>1, <1>4 DEF Connect
  <2>2. Shapes'
    BY <2>1, <1>1, <1>3 DEF Shapes
  <2>3. Scalars'
    BY <2>1, <1>1, <1>3 DEF Scalars
  <2>4. TypeOK'
    BY <1>1, <2>2, <2>3, TypesSplit DEF LockerInv, NoProtocolError
  <2>5. /\ SlotInv(pc', slot', nOut') /\ QueueInv(pc', ev', Known(slot'), present')
        /\ LockInv(pc', held', sent', ev', flags') /\ SurfInv(held', present', surf', ev', slot')
        /\ err' = "none"
    BY <1>1, <2>1 DEF LockerInv, NoProtocolError
  <2> QED  BY <2>4, <2>5 DEF LockerInv, NoProtocolError
<1>5. CASE pc' # "none"
  <2>1. /\ pc' = "globals" /\ kbd' \in {"none", "live", "inert"} /\ exit' = 9
        /\ nOut' \in 0 .. MaxOutputs /\ slot' \in [Slots -> SlotRecs]
        /\ Known(slot') = present
        /\ SlotInv("globals", slot', nOut')
    BY <1>5, ConnectOutcome
  <2>2. Shapes'
    BY <2>1, <1>1, <1>3 DEF Shapes
  <2>3. Scalars'
    BY <2>1, <1>1, <1>3 DEF Scalars
  <2>4. TypeOK'
    BY <1>1, <2>2, <2>3, TypesSplit DEF LockerInv, NoProtocolError
  <2>5. QueueInv("globals", <<>>, present, present)
    <3>1. present \in SUBSET Outputs /\ Cardinality(present) <= MaxOutputs
      BY DEF LockerInv, TypeOK, QueueInv
    <3> QED  BY <3>1, ViewsNone DEF QueueInv
  <2>6. LockInv("globals", held, sent, ev, flags)
    BY <1>2 DEF LockerInv, LockInv
  <2>7. SurfInv(held, present, surf, ev, slot')
    BY <1>2 DEF LockerInv, SurfInv
  <2>8. /\ SlotInv(pc', slot', nOut') /\ QueueInv(pc', ev', Known(slot'), present')
        /\ LockInv(pc', held', sent', ev', flags') /\ SurfInv(held', present', surf', ev', slot')
        /\ err' = "none"
    BY <1>1, <1>2, <2>1, <2>5, <2>6, <2>7 DEF LockerInv, NoProtocolError
  <2> QED  BY <2>4, <2>8 DEF LockerInv, NoProtocolError
<1> QED  BY <1>4, <1>5

\* The lock is asked for, granted or refused.
LEMMA TakeLockKeeps ==
  ASSUME LockerInv, TakeLock
  PROVE  LockerInv'
<1>t. /\ slot \in [Slots -> SlotRecs] /\ surf \in [Outputs -> SurfRecs]
      /\ present \in SUBSET Outputs /\ ev \in Seq(Events) /\ nOut \in 0 .. MaxOutputs
  BY DEF LockerInv, TypeOK, SlotRecs, SurfRecs
<1>1. /\ pc = "globals" /\ pc' = "loop"
      /\ slot' = [i \in Slots |-> [slot[i] EXCEPT !.role = @ \/ slot[i].name # NoOutput]]
      /\ UNCHANGED <<store, factor, sent, present, active, nOut, kbd, entry, flags, exit, deaths>>
  BY DEF TakeLock
<1>2. /\ held # "us" /\ ~sent /\ ~("finished" \in flags) /\ NoKind(ev, "finished")
      /\ ~("unlocking" \in flags) /\ NoKind(ev, "key") /\ NoKind(ev, "configure")
  BY <1>1 DEF LockerInv, LockInv
<1>3. \A o \in Outputs : ~surf[o].role /\ surf[o] = NoSurf
  BY <1>2 DEF LockerInv, SurfInv
<1>4. ASSUME NEW i \in Slots
      PROVE  /\ slot'[i] \in SlotRecs /\ slot'[i].name = slot[i].name
             /\ slot[i].name # NoOutput => slot'[i].role
             /\ slot[i].name = NoOutput => slot'[i] = NoSlot
             /\ ~slot'[i].conf /\ slot'[i].buf = 0
  <2>1. PICK b \in BOOLEAN : b = (slot[i].role \/ slot[i].name # NoOutput)
    BY Zenon
  <2>2. slot'[i] = [slot[i] EXCEPT !.role = b]
    BY <1>1, <2>1, Zenon
  <2>3. slot[i] \in SlotRecs /\ ~slot[i].role /\ ~slot[i].conf /\ slot[i].buf = 0
    BY <1>1, <1>t DEF LockerInv, SlotInv
  <2>4. /\ slot'[i] \in SlotRecs /\ slot'[i].name = slot[i].name /\ slot'[i].role = b
        /\ ~slot'[i].conf /\ slot'[i].buf = 0
    BY <2>2, <2>3 DEF SlotRecs
  <2>5. b <=> slot[i].name # NoOutput
    BY <2>1, <2>3, Zenon
  <2>6. ASSUME slot[i].name = NoOutput PROVE slot'[i] = NoSlot
    <3>1. slot[i] = NoSlot
      BY <2>6 DEF LockerInv, SlotInv
    <3>2. ~b
      BY <2>5, <2>6
    <3>f. \A r \in SlotRecs : (~r.role => r.role = FALSE) /\ (~r.conf => r.conf = FALSE)
      BY DEF SlotRecs
    <3>3. slot'[i].name = NoSlot.name /\ slot'[i].role = NoSlot.role
          /\ slot'[i].conf = NoSlot.conf /\ slot'[i].buf = NoSlot.buf
      BY <2>4, <2>6, <3>2, <3>f, EmptyRecs
    <3>4. \A r, s \in SlotRecs :
            r.name = s.name /\ r.role = s.role /\ r.conf = s.conf /\ r.buf = s.buf => r = s
      BY DEF SlotRecs
    <3> QED  BY <2>4, <3>3, <3>4, EmptyRecs
  <2> QED  BY <2>4, <2>5, <2>6
<1>5. slot' \in [Slots -> SlotRecs]
  <2>1. DOMAIN slot' = Slots /\ slot' = [i \in Slots |-> slot'[i]]
    BY <1>1
  <2> QED  BY <2>1, <1>4
<1>6. Known(slot') = Known(slot)
  BY <1>4 DEF Known
<1>7. SlotInv("loop", slot', nOut)
  <2>1. \A i \in Slots : i > nOut \/ slot'[i].name = NoOutput => slot'[i] = NoSlot
    BY <1>4, EmptyRecs DEF LockerInv, SlotInv
  <2>2. \A i, j \in Slots : slot'[i].name = slot'[j].name /\ slot'[i].name # NoOutput => i = j
    BY <1>4 DEF LockerInv, SlotInv
  <2> QED  BY <1>4, <2>1, <2>2 DEF SlotInv
<1>8. Views(ev, Known(slot), present) /\ Cardinality(present) <= MaxOutputs
  BY <1>1 DEF LockerInv, QueueInv
<1>9. /\ held' \in {"no", "us", "dead", "other"} /\ err' = err
      /\ ev' \in Seq(Events) /\ surf' \in [Outputs -> SurfRecs]
      /\ QueueInv("loop", ev', Known(slot), present)
      /\ LockInv("loop", held', sent, ev', flags)
      /\ SurfInv(held', present, surf', ev', slot')
  <2>1. CASE held = "other"
    <3> DEFINE e == <<"finished">>
    <3>1. ev' = Append(ev, e) /\ held' = held /\ surf' = surf /\ err' = err
      BY <2>1 DEF TakeLock
    <3>2. e \in Events /\ e[1] = "finished"
      BY EventsAre
    <3> HIDE DEF e
    <3>3. /\ Append(ev, e) \in Seq(Events)
          /\ \A kind : NoKind(Append(ev, e), kind) <=> NoKind(ev, kind) /\ e[1] # kind
      BY <3>2, <1>t, AppendFacts, AppendQueue
    <3>4. Move(present, e, present)
      BY <3>2 DEF Move
    <3>5. Views(Append(ev, e), Known(slot), present)
      BY <3>2, <3>4, <1>t, <1>8, ViewsAppend
    <3>6. QueueInv("loop", ev', Known(slot), present)
      BY <3>1, <3>5, <1>8 DEF QueueInv
    <3>7. LockInv("loop", held, sent, ev', flags)
      BY <3>1, <3>2, <3>3, <1>2, <2>1 DEF LockInv
    <3>8. SurfInv(held, present, surf, ev', slot')
      BY <2>1, <1>3 DEF SurfInv
    <3> QED  BY <2>1, <3>1, <3>3, <3>6, <3>7, <3>8, <1>t
  <2>2. CASE held # "other"
    <3> DEFINE S == {slot[i].name : i \in 1 .. nOut} \ {NoOutput}
               new == [NoSurf EXCEPT !.role = TRUE]
    <3>1. held' = "us" /\ ev' = ev /\ GetLockSurfaces(S)
      BY <2>2 DEF TakeLock
    <3>2. new \in SurfRecs /\ new.role /\ new.size = 0 /\ new.acked = 0 /\ new.buf = 0
      BY EmptyRecs DEF SurfRecs
    <3>3. S = Known(slot)
      <4>1. Slots = 1 .. MaxOutputs /\ MaxOutputs \in Nat /\ 1 .. nOut \subseteq Slots
        BY <1>t, LockAssumption DEF Slots
      <4>2. \A i \in Slots : i \in 1 .. nOut \/ slot[i].name = NoOutput
        <5>1. ASSUME NEW i \in Slots, i \notin 1 .. nOut PROVE slot[i].name = NoOutput
          <6>1. i > nOut
            BY <5>1, <4>1, <1>t
          <6> QED  BY <6>1, EmptyRecs DEF LockerInv, SlotInv
        <5> QED  BY <5>1
      <4> QED  BY <4>1, <4>2 DEF Known
    <3>4. /\ surf' = [o \in Outputs |-> IF o \in S \cap present THEN new ELSE surf[o]]
          /\ err' = IF \E o \in S \cap present : surf[o].role THEN "duplicate" ELSE err
      BY <3>1 DEF GetLockSurfaces
    <3> HIDE DEF S, new
    <3>5. err' = err
      BY <3>4, <1>3, <1>t
    <3>6. surf' \in [Outputs -> SurfRecs]
      BY <3>2, <3>4, <1>t
    <3>7. QueueInv("loop", ev, Known(slot), present)
      BY <1>8 DEF QueueInv
    <3>8. LockInv("loop", "us", sent, ev, flags)
      BY <1>2 DEF LockInv
    <3>9. SurfInv("us", present, surf', ev, slot')
      <4>1. ASSUME NEW o \in Outputs
            PROVE  /\ surf'[o].role <=> o \in present /\ o \in Known(slot')
                   /\ ~surf'[o].role => surf'[o] = NoSurf
                   /\ surf'[o].size = 0 /\ surf'[o].acked = 0 /\ surf'[o].buf = 0
        <5>1. CASE o \in S \cap present
          <6>1. surf'[o] = new
            BY <5>1, <3>4
          <6> QED  BY <5>1, <6>1, <3>2, <3>3, <1>6
        <5>2. CASE o \notin S \cap present
          <6>1. surf'[o] = NoSurf
            BY <5>2, <3>4, <1>3
          <6> QED  BY <5>2, <6>1, <3>3, <1>6, EmptyRecs
        <5> QED  BY <5>1, <5>2
      <4>2. \A o, s : Last(ev, o, s)
        BY <1>2 DEF Last, NoKind, Is
      <4> QED  BY <4>1, <4>2, <1>4 DEF SurfInv
    <3> QED  BY <3>1, <3>5, <3>6, <3>7, <3>8, <3>9, <1>t
  <2> QED  BY <2>1, <2>2
<1>10. TypeOK'
  <2>1. Shapes /\ Scalars
    BY TypesSplit DEF LockerInv
  <2>2. Shapes'
    BY <2>1, <1>1, <1>5, <1>9 DEF Shapes
  <2>3. held' \in {"no", "us", "dead", "other"}
    BY <1>9
  <2>4. Scalars'
    BY <2>1, <2>3, <1>1 DEF Scalars
  <2> QED  BY <1>9, <2>2, <2>4, TypesSplit DEF LockerInv, NoProtocolError
<1>11. /\ SlotInv(pc', slot', nOut') /\ QueueInv(pc', ev', Known(slot'), present')
       /\ LockInv(pc', held', sent', ev', flags') /\ SurfInv(held', present', surf', ev', slot')
       /\ err' = "none"
  BY <1>1, <1>6, <1>7, <1>9 DEF LockerInv, NoProtocolError
<1> QED  BY <1>10, <1>11 DEF LockerInv, NoProtocolError

-----------------------------------------------------------------------------
(* The theorems.                                                            *)

\* Every step of the client and of the compositor keeps the invariant.
LEMMA LockerStep == LockerInv /\ [Next]_vars => LockerInv'
<1> SUFFICES ASSUME LockerInv, [Next]_vars PROVE LockerInv'
  OBVIOUS
<1>1. CASE Connect
  BY <1>1, ConnectKeeps
<1>2. CASE TakeLock
  BY <1>2, TakeLockKeeps
<1>3. CASE Dispatch
  BY <1>3, RegGlobalKeeps, RegRemoveKeeps, SurfaceConfigureKeeps, QuietHandlersKeep, KeysKeep
     DEF Dispatch
<1>4. CASE Leave \/ Die
  BY <1>4, EndsKeep
<1>5. CASE SendLocked \/ SwitchVt \/ \E k \in KeySyms : Press(k)
  BY <1>5, PlainSendsKeep
<1>6. CASE Factor \/ OtherReleases \/ UNCHANGED vars
  BY <1>6, BystandersKeep
<1>7. CASE \E o \in Outputs : OutputNew(o) \/ OutputGone(o)
  BY <1>7, OutputNewKeeps, OutputGoneKeeps
<1>8. CASE \E o \in Outputs, size \in Sizes : Configure(o, size)
  BY <1>8, ConfigureKeeps
<1> QED  BY <1>1, <1>2, <1>3, <1>4, <1>5, <1>6, <1>7, <1>8 DEF Next

\* The invariant holds throughout.
LEMMA LockerAlways == Spec => []LockerInv
BY LockerInit, LockerStep, PTL DEF Spec

\* The types of lock.c's state, in particular that entry_len leaves room for the
\* terminating byte and n_outputs never passes MAX_OUTPUTS.
THEOREM TypeCorrect == Spec => []TypeOK
<1>1. LockerInv => TypeOK
  BY DEF LockerInv
<1> QED  BY <1>1, LockerAlways, PTL

\* lock.c never breaks the order ext-session-lock-v1 demands, whatever outputs come
\* and go, are resized or get no buffer while its events are in flight.
THEOREM ProtocolKept == Spec => []NoProtocolError
<1>1. LockerInv => NoProtocolError
  BY DEF LockerInv
<1> QED  BY <1>1, LockerAlways, PTL

\* Once lock.c has handled every event, every output has a lock surface and shows a
\* buffer of its last configured size, unless output_alloc failed for it.
THEOREM OutputsCovered == Spec => []EveryOutputCovered
<1>1. LockerInv => EveryOutputCovered
  <2> SUFFICES ASSUME LockerInv, pc = "loop", held = "us", ev = <<>>, NEW o \in present
               PROVE  /\ surf[o].role
                      /\ surf[o].buf = surf[o].size \/ BufOf(slot, o) = 0
    BY DEF EveryOutputCovered
  <2>t. /\ slot \in [Slots -> SlotRecs] /\ ev \in Seq(Events) /\ o \in Outputs /\ o # NoOutput
    BY LockAssumption DEF LockerInv, TypeOK, SlotRecs
  <2>1. Known(slot) = present
    <3>1. Views(ev, Known(slot), present)
      BY DEF LockerInv, QueueInv
    <3> QED  BY <3>1, <2>t, ViewsFacts
  <2>2. PICK i \in Slots : slot[i].name = o
    BY <2>1, <2>t, KnownBySlots
  <2>3. \A j \in Slots : slot[j].name = o => j = i
    BY <2>2, <2>t DEF LockerInv, SlotInv
  <2>4. BufOf(slot, o) = slot[i].buf
    BY <2>2, <2>3, <2>t, BufOfIs
  <2>5. surf[o].role
    BY <2>1, <2>t DEF LockerInv, SurfInv
  <2>6. NoConf(ev, o)
    <3>1. Len(ev) = 0
      BY EmptySeq
    <3> QED  BY <3>1 DEF NoConf
  <2>7. surf[o].buf = surf[o].size \/ slot[i].buf = 0
    BY <2>2, <2>5, <2>6, <2>t DEF LockerInv, SurfInv
  <2> QED  BY <2>4, <2>5, <2>7
<1> QED  BY <1>1, LockerAlways, PTL

\* lock.c keeps the contract that autostart relies on: the session a run locked is opened
\* by that run alone, and status 0 returned by it, only once it has verified the factors;
\* wherever it is killed or loses its connection.
THEOREM LockImplementsLocker == Spec => ImplementsLocker
<1>1. Init => Contract!Init
  BY DEF Init, Contract!Init
<1>2. LockerInv /\ [Next]_vars => [Contract!Next]_(Contract!lockerVars)
  <2> SUFFICES ASSUME LockerInv, [Next]_vars
               PROVE  Contract!Next \/ UNCHANGED Contract!lockerVars
    OBVIOUS
  <2> USE DEF Contract!Next, Contract!lockerVars
  <2>t. /\ held \in {"no", "us", "dead", "other"} /\ exit \in {0, 1, 2, 3, 9}
        /\ pc \in {"none", "globals", "loop"}
        /\ held = "us" => pc = "loop"
        /\ "finished" \in flags => held # "us"
        /\ "unlocking" \in flags \/ ~NoKind(ev, "key") => held = "us"
    BY DEF LockerInv, TypeOK, LockInv
  <2>1. CASE Connect
    <3>1. /\ pc = "none" /\ exit # 0 /\ UNCHANGED <<factor, held, flags>>
          /\ \/ exit' \in {1, 3} /\ pc' = pc
             \/ exit' = 9 /\ pc' = "globals"
      BY <2>1 DEF Connect, compositor
    <3>2. CASE exit' \in {1, 3} /\ pc' = pc
      <4>1. Contract!Decline
        BY <3>1, <3>2 DEF Contract!Decline
      <4> QED BY <4>1
    <3>3. CASE exit' = 9 /\ pc' = "globals"
      <4>1. Contract!Start
        BY <3>1, <3>3 DEF Contract!Start
      <4> QED BY <4>1
    <3> QED BY <3>1, <3>2, <3>3
  <2>2. CASE TakeLock
    <3>1. /\ pc = "globals" /\ pc' = "loop" /\ UNCHANGED <<factor, flags, exit>>
          /\ held' = IF held = "other" THEN held ELSE "us"
      BY <2>2 DEF TakeLock
    <3>2. CASE held = "other"
      BY <3>1, <3>2
    <3>3. CASE held # "other"
      <4>1. Contract!Take
        BY <3>1, <3>3, <2>t DEF Contract!Take
      <4> QED BY <4>1
    <3> QED BY <3>2, <3>3
  <2>3. CASE TryUnlock
    <3>1. /\ UNCHANGED <<factor, held, pc, exit>> /\ ev # <<>> /\ Head(ev)[1] = "key"
          /\ flags' = IF Verified THEN flags \cup {"unlocking"} ELSE flags
      BY <2>3 DEF TryUnlock, Dispatching
    <3>2. held = "us"
      <4>1. ev \in Seq(Events)
        BY DEF LockerInv, TypeOK
      <4>2. ~NoKind(ev, "key")
        BY <3>1, <4>1, TailQueue
      <4> QED BY <4>2, <2>t
    <3>3. CASE Verified
      <4>1. Contract!Prove
        BY <3>1, <3>2, <3>3, <2>t DEF Contract!Prove, Verified
      <4> QED BY <4>1
    <3>4. CASE ~Verified
      BY <3>1, <3>4
    <3> QED BY <3>3, <3>4
  <2>4. CASE Leave
    <3>1. pc = "loop" /\ pc' = "none" /\ flags' = {} /\ factor' = factor
      BY <2>4 DEF Leave, Gone
    <3>2. CASE "finished" \in flags
      <4>1. exit' = 1 /\ held' = held
        BY <2>4, <3>2 DEF Leave, ExitStatus
      <4>2. Contract!Fail
        BY <3>1, <3>2, <4>1, <2>t DEF Contract!Fail
      <4> QED BY <4>2
    <3>3. CASE "finished" \notin flags
      <4>1. "unlocking" \in flags /\ exit' = 0 /\ held' = "no"
        BY <2>4, <3>3 DEF Leave, ExitStatus
      <4>2. Contract!Unlock
        BY <3>1, <4>1, <2>t DEF Contract!Unlock
      <4> QED BY <4>2
    <3> QED BY <3>2, <3>3
  <2>5. CASE Die
    <3>1. pc # "none" /\ pc' = "none" /\ flags' = {} /\ factor' = factor
      BY <2>5 DEF Die, Gone
    <3>2. CASE "unlocking" \in flags
      <4>1. exit' \in {0, 1, 2} /\ held' \in {"dead", "no"}
        BY <2>5, <2>t, <3>2 DEF Die, ExitStatus
      <4>2. Contract!Lost
        BY <3>1, <3>2, <4>1, <2>t DEF Contract!Lost
      <4> QED BY <4>2
    <3>3. CASE "unlocking" \notin flags
      <4>1. exit' \in {1, 2} /\ held' = IF held = "us" THEN "dead" ELSE held
        BY <2>5, <3>3 DEF Die, ExitStatus
      <4>2. Contract!Fail
        BY <3>1, <4>1 DEF Contract!Fail
      <4> QED BY <4>2
    <3> QED BY <3>2, <3>3
  <2>6. CASE OtherReleases
    <3>1. Contract!OtherReleases
      BY <2>6 DEF OtherReleases, Contract!OtherReleases, client
    <3> QED BY <3>1
  <2>7. CASE Factor
    <3>1. Contract!Factor
      BY <2>7 DEF Factor, Contract!Factor, client, compositor
    <3> QED BY <3>1
  <2>8. CASE \/ RegGlobal \/ RegRemove \/ SurfaceConfigure \/ LockLocked \/ LockFinished
             \/ SeatCaps \/ KbKey
    <3>1. /\ UNCHANGED <<factor, held, pc, exit>>
          /\ "unlocking" \in flags' <=> "unlocking" \in flags
      BY <2>8 DEF RegGlobal, RegRemove, SurfaceConfigure, LockLocked, LockFinished, SeatCaps,
                  KbKey, compositor
    <3> QED BY <3>1
  <2>9. CASE SendLocked \/ SwitchVt \/ UNCHANGED vars
    <3>1. UNCHANGED <<factor, held, pc, exit, flags>>
      BY <2>9 DEF SendLocked, SwitchVt, vars, client
    <3> QED BY <3>1
  <2>10. CASE \/ \E o \in Outputs : OutputNew(o) \/ OutputGone(o)
              \/ \E o \in Outputs, size \in Sizes : Configure(o, size)
              \/ \E k \in KeySyms : Press(k)
    <3>1. UNCHANGED <<factor, held, pc, exit, flags>>
      BY <2>10 DEF OutputNew, OutputGone, Configure, Press, client, compositor
    <3> QED BY <3>1
  <2> QED
    BY <2>1, <2>2, <2>3, <2>4, <2>5, <2>6, <2>7, <2>8, <2>9, <2>10 DEF Next, Dispatch
<1> QED
  BY LockerAlways, <1>1, <1>2, PTL DEF Spec, ImplementsLocker, Contract!Spec

-----------------------------------------------------------------------------
(* The keyboard comes and goes by events of its own.                        *)

(* j \in H: the client has a keyboard once j of the events q are handled.   *)
(* Each caps event changes that, nothing else does, and the last one leaves *)
(* it as the seat is now.                                                   *)
KeyboardsBy(H, q, k, act) ==
  /\ 0 \in H <=> k # "none"
  /\ \A j \in 1 .. Len(q) :
       /\ q[j][1] = "caps" => (j \in H <=> q[j][2]) /\ (j - 1 \in H <=> j \notin H)
       /\ q[j][1] # "caps" => (j - 1 \in H <=> j \in H)
  /\ \A m \in 0 .. Len(q) :
       (\A j \in m + 1 .. Len(q) : q[j][1] # "caps") => (m \in H <=> act)

(* With no caps event in flight, the keyboard of a seat in front delivers. *)
KeyboardInv(q, k, act) ==
  /\ \E H \in SUBSET (0 .. Len(q)) : KeyboardsBy(H, q, k, act)
  /\ NoKind(q, "caps") /\ act => k = "live"

\* What handling an event leaves: k is the keyboard before it, k1 after it.
LEMMA KeyboardTail ==
  ASSUME NEW q \in Seq(Events), q # <<>>, NEW k, NEW k1, NEW act \in BOOLEAN,
         KeyboardInv(q, k, act),
         Head(q)[1] # "caps" => k1 = k,
         Head(q)[1] = "caps" /\ ~Head(q)[2] => k1 = "none",
         Head(q)[1] = "caps" /\ Head(q)[2] /\ k = "none"
           => k1 = IF act THEN "live" ELSE "inert"
  PROVE  KeyboardInv(Tail(q), k1, act)
<1> DEFINE t == Tail(q)
           n == Len(q)
<1>q. /\ t \in Seq(Events) /\ n \in Nat /\ n >= 1 /\ Len(t) = n - 1
      /\ \A i \in 1 .. n - 1 : t[i] = q[i + 1]
      /\ Head(q) = q[1] /\ Head(q) \in Events
  BY TailFacts
<1>e. q[1][1] = "caps" => q[1][2] \in BOOLEAN
  BY <1>q, EventTypes
<1>1. PICK H \in SUBSET (0 .. n) : KeyboardsBy(H, q, k, act)
  BY DEF KeyboardInv
<1> DEFINE G == {j \in 0 .. n - 1 : j + 1 \in H}
<1>i. /\ 1 \in 1 .. n /\ 1 \in 0 .. n /\ 0 \in 0 .. n - 1 /\ 0 + 1 = 1 /\ 1 - 1 = 0
      /\ \A j \in 1 .. n - 1 : /\ j + 1 \in 1 .. n /\ (j + 1) - 1 = j /\ j \in 0 .. n - 1
                               /\ j - 1 \in 0 .. n - 1 /\ (j - 1) + 1 = j
      /\ \A m \in 0 .. n - 1 : m + 1 \in 0 .. n
  BY <1>q
<1>g. G \in SUBSET (0 .. n - 1) /\ \A j \in 0 .. n - 1 : j \in G <=> j + 1 \in H
  OBVIOUS
<1> HIDE DEF t, n, G
<1>2. /\ 0 \in H <=> k # "none"
      /\ \A j \in 1 .. n :
           /\ q[j][1] = "caps" => (j \in H <=> q[j][2]) /\ (j - 1 \in H <=> j \notin H)
           /\ q[j][1] # "caps" => (j - 1 \in H <=> j \in H)
      /\ \A m \in 0 .. n :
           (\A j \in m + 1 .. n : q[j][1] # "caps") => (m \in H <=> act)
  BY <1>1 DEF KeyboardsBy, n
<1>3. 0 \in G <=> 1 \in H
  BY <1>g, <1>i
<1>4. 0 \in G <=> k1 # "none"
  <2>1. CASE q[1][1] # "caps"
    <3>1. 0 \in H <=> 1 \in H
      BY <2>1, <1>2, <1>i
    <3> QED  BY <3>1, <2>1, <1>2, <1>3, <1>q
  <2>2. CASE q[1][1] = "caps"
    <3>1. (1 \in H <=> q[1][2]) /\ (0 \in H <=> 1 \notin H)
      BY <2>2, <1>2, <1>i
    <3>2. CASE ~q[1][2]
      BY <3>1, <3>2, <2>2, <1>3, <1>q
    <3>3. CASE q[1][2]
      <4>1. k = "none"
        BY <3>1, <3>3, <1>2
      <4>2. k1 = "live" \/ k1 = "inert"
        BY <4>1, <3>3, <2>2, <1>q
      <4> QED  BY <3>1, <3>3, <1>3, <4>2
    <3> QED  BY <3>2, <3>3
  <2> QED  BY <2>1, <2>2
<1>5. ASSUME NEW j \in 1 .. n - 1
      PROVE  /\ t[j][1] = "caps" => (j \in G <=> t[j][2]) /\ (j - 1 \in G <=> j \notin G)
             /\ t[j][1] # "caps" => (j - 1 \in G <=> j \in G)
  <2>1. t[j] = q[j + 1] /\ (j \in G <=> j + 1 \in H) /\ (j - 1 \in G <=> j \in H)
    BY <1>q, <1>i, <1>g
  <2>2. /\ q[j + 1][1] = "caps" => (j + 1 \in H <=> q[j + 1][2]) /\ (j \in H <=> j + 1 \notin H)
        /\ q[j + 1][1] # "caps" => (j \in H <=> j + 1 \in H)
    BY <1>2, <1>i
  <2> QED  BY <2>1, <2>2
<1>6. ASSUME NEW m \in 0 .. n - 1, \A j \in m + 1 .. n - 1 : t[j][1] # "caps"
      PROVE  m \in G <=> act
  <2>1. ASSUME NEW j \in (m + 1) + 1 .. n PROVE q[j][1] # "caps"
    <3>1. j - 1 \in m + 1 .. n - 1 /\ j - 1 \in 1 .. n - 1 /\ (j - 1) + 1 = j
      BY <1>q
    <3>2. t[j - 1] = q[j]
      BY <3>1, <1>q
    <3> QED  BY <3>1, <3>2, <1>6
  <2> QED  BY <2>1, <1>2, <1>i, <1>g
<1>7. KeyboardsBy(G, t, k1, act)
  BY <1>4, <1>5, <1>6, <1>q DEF KeyboardsBy
<1>8. ASSUME NoKind(t, "caps"), act PROVE k1 = "live"
  <2>1. \A j \in 0 + 1 .. n - 1 : t[j][1] # "caps"
    BY <1>8, <1>q DEF NoKind
  <2>2. 0 \in G
    BY <2>1, <1>6, <1>i, <1>8
  <2>3. 1 \in H
    BY <2>2, <1>3
  <2>4. CASE q[1][1] # "caps"
    <3>1. NoKind(q, "caps")
      <4>1. ASSUME NEW j \in 1 .. n PROVE q[j][1] # "caps"
        <5>1. CASE j = 1
          BY <5>1, <2>4
        <5>2. CASE j # 1
          <6>1. j - 1 \in 1 .. n - 1 /\ (j - 1) + 1 = j
            BY <5>2, <1>q
          <6>2. t[j - 1] = q[j]
            BY <6>1, <1>q
          <6> QED  BY <6>1, <6>2, <1>8, <1>q DEF NoKind
        <5> QED  BY <5>1, <5>2
      <4> QED  BY <4>1 DEF NoKind, n
    <3> QED  BY <3>1, <2>4, <1>8, <1>q DEF KeyboardInv
  <2>5. CASE q[1][1] = "caps"
    <3>1. q[1][2] /\ 0 \notin H
      BY <2>3, <2>5, <1>2, <1>i
    <3>2. k = "none"
      BY <3>1, <1>2
    <3> QED  BY <3>1, <3>2, <2>5, <1>8, <1>q
  <2> QED  BY <2>4, <2>5
<1> QED  BY <1>7, <1>8, <1>g, <1>q DEF KeyboardInv, t

\* What sending an event leaves: k and act are the keyboard and the seat before it.
LEMMA KeyboardAppend ==
  ASSUME NEW q \in Seq(Events), NEW e \in Events, NEW k, NEW k1,
         NEW act \in BOOLEAN, NEW act1 \in BOOLEAN,
         KeyboardInv(q, k, act), k1 # "none" <=> k # "none",
         e[1] = "caps" => e[2] = act1 /\ (act1 <=> ~act),
         e[1] # "caps" => k1 = k /\ (act1 <=> act)
  PROVE  KeyboardInv(Append(q, e), k1, act1)
<1> DEFINE r == Append(q, e)
           n == Len(q)
<1>q. /\ r \in Seq(Events) /\ n \in Nat /\ Len(r) = n + 1
      /\ \A i \in 1 .. n : r[i] = q[i]
      /\ r[n + 1] = e
  BY AppendFacts
<1>1. PICK H \in SUBSET (0 .. n) : KeyboardsBy(H, q, k, act)
  BY DEF KeyboardInv
<1> DEFINE G == H \cup {j \in {n + 1} : act1}
<1>i. /\ n + 1 \in 1 .. n + 1 /\ n \in 0 .. n /\ 0 \in 0 .. n /\ n + 1 \notin 0 .. n
      /\ (n + 1) - 1 = n /\ n + 1 \in 0 .. n + 1
      /\ \A j \in 1 .. n + 1 : j \in 1 .. n \/ j = n + 1
      /\ \A j \in 1 .. n : j \in 0 .. n /\ j - 1 \in 0 .. n
      /\ \A j \in 0 .. n : j \in 0 .. n + 1
  BY <1>q
<1>g. /\ G \in SUBSET (0 .. n + 1)
      /\ n + 1 \in G <=> act1
      /\ \A j \in 0 .. n : j \in G <=> j \in H
  BY <1>i
<1> HIDE DEF r, n, G
<1>2. /\ 0 \in H <=> k # "none"
      /\ \A j \in 1 .. n :
           /\ q[j][1] = "caps" => (j \in H <=> q[j][2]) /\ (j - 1 \in H <=> j \notin H)
           /\ q[j][1] # "caps" => (j - 1 \in H <=> j \in H)
      /\ \A m \in 0 .. n :
           (\A j \in m + 1 .. n : q[j][1] # "caps") => (m \in H <=> act)
  BY <1>1 DEF KeyboardsBy, n
<1>3. 0 \in G <=> k1 # "none"
  BY <1>2, <1>g, <1>i
<1>4. n \in H <=> act
  <2>1. \A j \in n + 1 .. n : FALSE
    BY <1>q
  <2> QED  BY <2>1, <1>2, <1>i
<1>5. ASSUME NEW j \in 1 .. n + 1
      PROVE  /\ r[j][1] = "caps" => (j \in G <=> r[j][2]) /\ (j - 1 \in G <=> j \notin G)
             /\ r[j][1] # "caps" => (j - 1 \in G <=> j \in G)
  <2>1. CASE j \in 1 .. n
    <3>1. r[j] = q[j] /\ (j \in G <=> j \in H) /\ (j - 1 \in G <=> j - 1 \in H)
      BY <2>1, <1>q, <1>i, <1>g
    <3> QED  BY <3>1, <2>1, <1>2
  <2>2. CASE j = n + 1
    <3>1. r[j] = e /\ (j \in G <=> act1) /\ (j - 1 \in G <=> act)
      BY <2>2, <1>q, <1>i, <1>g, <1>4
    <3> QED  BY <3>1
  <2> QED  BY <2>1, <2>2, <1>i
<1>6. ASSUME NEW m \in 0 .. n + 1, \A j \in m + 1 .. n + 1 : r[j][1] # "caps"
      PROVE  m \in G <=> act1
  <2>1. CASE m = n + 1
    BY <2>1, <1>g
  <2>2. CASE m # n + 1
    <3>1. m \in 0 .. n /\ n + 1 \in m + 1 .. n + 1
      BY <2>2, <1>q
    <3>2. e[1] # "caps"
      BY <3>1, <1>6, <1>q
    <3>3. ASSUME NEW j \in m + 1 .. n PROVE q[j][1] # "caps"
      <4>1. j \in m + 1 .. n + 1 /\ j \in 1 .. n
        BY <1>q, <3>1
      <4> QED  BY <4>1, <1>6, <1>q
    <3>4. m \in H <=> act
      BY <3>3, <3>1, <1>2
    <3> QED  BY <3>2, <3>4, <3>1, <1>g
  <2> QED  BY <2>1, <2>2
<1>7. KeyboardsBy(G, r, k1, act1)
  BY <1>3, <1>5, <1>6, <1>q DEF KeyboardsBy
<1>8. ASSUME NoKind(r, "caps"), act1 PROVE k1 = "live"
  <2>1. NoKind(q, "caps") /\ e[1] # "caps"
    BY <1>8, AppendQueue DEF r
  <2>2. k1 = k /\ act
    BY <2>1, <1>8
  <2>3. k = "live"
    BY <2>1, <2>2 DEF KeyboardInv
  <2> QED  BY <2>2, <2>3
<1> QED  BY <1>7, <1>8, <1>g, <1>q DEF KeyboardInv, r

\* The keyboard of a client that has just come up.
LEMMA KeyboardFresh ==
  ASSUME NEW act \in BOOLEAN
  PROVE  KeyboardInv(<<>>, IF act THEN "live" ELSE "none", act)
<1> DEFINE H == {j \in {0} : act}
<1>1. Len(<<>>) = 0 /\ 0 .. 0 = {0} /\ 1 .. 0 = {}
  BY EmptySeq
<1>2. H \in SUBSET (0 .. Len(<<>>)) /\ (0 \in H <=> act)
  BY <1>1
<1> HIDE DEF H
<1>3. 0 \in H <=> (IF act THEN "live" ELSE "none") # "none"
  BY <1>2
<1>4. KeyboardsBy(H, <<>>, IF act THEN "live" ELSE "none", act)
  BY <1>1, <1>2, <1>3 DEF KeyboardsBy
<1>5. act => (IF act THEN "live" ELSE "none") = "live"
  OBVIOUS
<1> QED  BY <1>2, <1>4, <1>5 DEF KeyboardInv

(* While the client runs. *)
KeyboardKept == pc # "none" => KeyboardInv(ev, kbd, active)

\* Every step keeps it.
LEMMA KeyboardStep == LockerInv /\ KeyboardKept /\ [Next]_vars => KeyboardKept'
<1> SUFFICES ASSUME LockerInv, KeyboardKept, [Next]_vars, pc' # "none"
             PROVE  KeyboardInv(ev', kbd', active')
  BY DEF KeyboardKept
<1>t. ev \in Seq(Events) /\ active \in BOOLEAN
  BY DEF LockerInv, TypeOK
<1>k. pc # "none" => KeyboardInv(ev, kbd, active)
  BY DEF KeyboardKept
<1>1. CASE Connect
  <2>1. pc = "none" /\ ev' = ev /\ active' = active
    BY <1>1 DEF Connect, compositor
  <2>2. ev = <<>>
    BY <2>1 DEF LockerInv, QueueInv
  <2>3. kbd' = IF active THEN "live" ELSE "none"
    BY <1>1, <2>1 DEF Connect
  <2> QED  BY <2>1, <2>2, <2>3, <1>t, KeyboardFresh
<1>2. CASE Leave \/ Die
  BY <1>2 DEF Leave, Die, Gone
<1>3. CASE /\ UNCHANGED <<pc, kbd, active>> /\ ev # <<>> /\ ev' = Tail(ev) /\ Head(ev)[1] # "caps"
  BY <1>3, <1>t, <1>k, KeyboardTail
<1>4. CASE SeatCaps
  <2>1. /\ ev # <<>> /\ ev' = Tail(ev) /\ Head(ev)[1] = "caps" /\ UNCHANGED <<pc, active>>
        /\ kbd' = KeyboardAfter(Head(ev)[2])
    BY <1>4 DEF SeatCaps, Dispatching, Taken, compositor
  <2>2. /\ ~Head(ev)[2] => kbd' = "none"
        /\ Head(ev)[2] /\ kbd = "none" => kbd' = IF active THEN "live" ELSE "inert"
    BY <2>1 DEF KeyboardAfter
  <2> QED  BY <2>1, <2>2, <1>t, <1>k, KeyboardTail
<1>5. ASSUME UNCHANGED <<kbd, active>>, pc # "none", NEW e \in Events, e[1] # "caps",
             ev' = Append(ev, e)
      PROVE  KeyboardInv(ev', kbd', active')
  BY <1>5, <1>t, <1>k, KeyboardAppend
<1>6. CASE UNCHANGED <<pc, kbd, active, ev>>
  BY <1>6, <1>k
<1>7. CASE TakeLock
  <2>1. pc = "globals" /\ UNCHANGED <<kbd, active>> /\ (ev' = ev \/ ev' = Append(ev, <<"finished">>))
    BY <1>7 DEF TakeLock
  <2>2. CASE ev' = ev
    BY <2>1, <2>2, <1>k
  <2>3. CASE ev' = Append(ev, <<"finished">>)
    BY <2>1, <2>3, <1>5, EventsAre
  <2> QED  BY <2>1, <2>2, <2>3
<1>8. CASE SwitchVt
  <2>1. PICK b \in BOOLEAN : b = ~active
    BY <1>t
  <2>2. /\ pc' = pc /\ ev' = Append(ev, <<"caps", b>>) /\ active' = b
        /\ kbd' = IF active /\ kbd = "live" THEN "inert" ELSE kbd
    BY <1>8, <2>1 DEF SwitchVt, Send
  <2>3. kbd' # "none" <=> kbd # "none"
    BY <2>2
  <2>4. <<"caps", b>> \in Events /\ <<"caps", b>>[1] = "caps" /\ <<"caps", b>>[2] = b
    BY EventsAre
  <2> HIDE DEF Events
  <2>5. pc # "none" /\ (b <=> ~active)
    BY <2>2, <2>1
  <2> QED  BY <2>2, <2>3, <2>4, <2>5, <1>t, <1>k, KeyboardAppend
<1>9. CASE RegGlobal \/ RegRemove \/ SurfaceConfigure \/ LockLocked \/ LockFinished \/ KbKey
           \/ TryUnlock
  <2>1. UNCHANGED <<pc, kbd, active>> /\ ev # <<>> /\ ev' = Tail(ev) /\ Head(ev)[1] # "caps"
    BY <1>9 DEF RegGlobal, RegRemove, SurfaceConfigure, LockLocked, LockFinished, KbKey, TryUnlock,
                Dispatching, Taken, compositor
  <2> QED  BY <2>1, <1>3
<1>10. CASE SendLocked \/ \E k \in KeySyms : Press(k)
  <2>1. UNCHANGED <<pc, kbd, active>>
    BY <1>10 DEF SendLocked, Press, client, compositor
  <2>2. \/ ev' = Append(ev, <<"locked">>)
        \/ \E k \in KeySyms : ev' = Append(ev, <<"key", k>>)
    BY <1>10, <2>1 DEF SendLocked, Press, Send
  <2> QED  BY <2>1, <2>2, <1>5, EventsAre
<1>11. CASE \/ \E o \in Outputs : OutputNew(o) \/ OutputGone(o)
            \/ \E o \in Outputs, size \in Sizes : Configure(o, size)
  <2>1. UNCHANGED <<pc, kbd, active>>
    BY <1>11 DEF OutputNew, OutputGone, Configure, client
  <2>2. \/ \E o \in Outputs : ev' = Append(ev, <<"global", o>>) \/ ev' = Append(ev, <<"remove", o>>)
        \/ \E o \in Outputs, s \in Sizes : ev' = Append(ev, <<"configure", o, s>>)
    BY <1>11, <2>1 DEF OutputNew, OutputGone, Configure, Send
  <2> QED  BY <2>1, <2>2, <1>5, EventsAre
<1>12. CASE Factor \/ OtherReleases \/ UNCHANGED vars
  BY <1>12, <1>6 DEF Factor, OtherReleases, vars, client, compositor
<1> QED
  BY <1>1, <1>2, <1>4, <1>7, <1>8, <1>9, <1>10, <1>11, <1>12 DEF Next, Dispatch

\* seat_caps follows the seat through every VT switch: a client in front with nothing left
\* to handle has a keyboard that delivers, for any number of switches in flight.
THEOREM KeyboardComesBack == Spec => []KeyboardReturns
<1>1. Init => KeyboardKept
  BY DEF Init, KeyboardKept
<1>2. KeyboardKept => KeyboardReturns
  <2>1. NoKind(<<>>, "caps")
    BY EmptySeq DEF NoKind
  <2> QED  BY <2>1 DEF KeyboardKept, KeyboardInv, KeyboardReturns
<1> QED  BY <1>1, <1>2, KeyboardStep, LockerAlways, PTL DEF Spec

=============================================================================
