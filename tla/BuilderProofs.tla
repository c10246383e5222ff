--------------------------- MODULE BuilderProofs ----------------------------
(***************************************************************************)
(* A checkpoint is only a cache: what the package builder stages and what   *)
(* it ships is made from the current inputs, and is what a build from       *)
(* nothing would have made wherever the listings are committed, for every   *)
(* set of packages, listed or not, every graph of dependencies, and any     *)
(* number of edits, failing steps, failing uploads and lost machines.       *)
(* Proved for the runner of the workflow (CleanRunner).                     *)
(*                                                                          *)
(* The argument has two halves.  About the operators: package_keys, which   *)
(* follows the dependencies for as many rounds as there are packages, has   *)
(* then reached everything the package is built on (ClosureLeast, by        *)
(* counting), and topo_order's next package has all its dependencies behind *)
(* it (UpcomingReady).  About the behaviours: BuilderInv, whose core is     *)
(* that a marker vouches for every directory beside it (Vouched), which is  *)
(* what a round inherits, and that a directory of a running round is        *)
(* missing or of the current inputs (DestFresh).                            *)
(***************************************************************************)
EXTENDS Builder, FiniteSetTheorems, WellFoundedInduction, TLAPS

\* The recipes a tree can hold.
Recipes == [Pkgs -> Versions \cup {NoRecipe}]

\* How many rounds topo_order and package_keys are followed for.
Depth == Cardinality(Pkgs)

\* A non-empty set of naturals has a least member.
LEMMA LeastNat ==
  ASSUME NEW S \in SUBSET Nat, S # {}
  PROVE  \E x \in S : \A y \in S : x <= y
<1> DEFINE less == {ss \in Nat \X Nat : ss[1] < ss[2]}
<1>1. IsWellFoundedOn(less, Nat)
  BY NatLessThanWellFounded, Zenon DEF OpToRel
<1>2. \E x \in S : \A y \in S : ~(<<y, x>> \in less)
  <2> HIDE DEF less
  <2> QED BY <1>1, WFMin
<1>3. \A x, y \in Nat : y < x => <<y, x>> \in less
  OBVIOUS
<1>4. \A x, y \in Nat : x <= y \/ y < x
  OBVIOUS
<1> HIDE DEF less
<1> QED BY <1>2, <1>3, <1>4

\* Induction up to n, for a set instead of a predicate.
LEMMA Induct ==
  ASSUME NEW n \in Nat, NEW T \in SUBSET Nat, 0 \in T,
         \A k \in 1 .. n : k - 1 \in T => k \in T
  PROVE  0 .. n \subseteq T
<1> SUFFICES ASSUME (0 .. n) \ T # {} PROVE FALSE
  OBVIOUS
<1>0. (0 .. n) \ T \in SUBSET Nat
  OBVIOUS
<1>1. PICK x \in (0 .. n) \ T : \A y \in (0 .. n) \ T : x <= y
  BY <1>0, LeastNat
<1>2. x \in 1 .. n /\ x - 1 \in 0 .. n /\ ~(x <= x - 1)
  BY <1>1
<1> QED
  BY <1>1, <1>2

\* A function can be iterated n times from a start.
LEMMA Iteration ==
  ASSUME NEW F \in [SUBSET Pkgs -> SUBSET Pkgs], NEW S0 \in SUBSET Pkgs, NEW n \in Nat
  PROVE  \E f \in [0 .. n -> SUBSET Pkgs] :
           f[0] = S0 /\ \A k \in 1 .. n : f[k] = F[f[k - 1]]
<1> DEFINE Good(m) == \E f \in [0 .. m -> SUBSET Pkgs] :
                        f[0] = S0 /\ \A k \in 1 .. m : f[k] = F[f[k - 1]]
           T == {m \in Nat : Good(m)}
<1>1. Good(0)
  <2>1. [k \in 0 .. 0 |-> S0] \in [0 .. 0 -> SUBSET Pkgs]
    OBVIOUS
  <2>2. [k \in 0 .. 0 |-> S0][0] = S0 /\ \A k \in 1 .. 0 : FALSE
    OBVIOUS
  <2> QED BY <2>1, <2>2
<1>2. ASSUME NEW m \in 1 .. n, Good(m - 1) PROVE Good(m)
  <2>1. PICK f \in [0 .. (m - 1) -> SUBSET Pkgs] :
          f[0] = S0 /\ \A k \in 1 .. (m - 1) : f[k] = F[f[k - 1]]
    BY <1>2
  <2> DEFINE g == [k \in 0 .. m |-> IF k = m THEN F[f[m - 1]] ELSE f[k]]
  <2>2. g \in [0 .. m -> SUBSET Pkgs]
    <3>1. m - 1 \in 0 .. (m - 1) /\ \A k \in 0 .. m : k # m => k \in 0 .. (m - 1)
      OBVIOUS
    <3> QED BY <3>1
  <2>3. g[0] = S0
    BY <2>1
  <2>4. ASSUME NEW k \in 1 .. m PROVE g[k] = F[g[k - 1]]
    <3>1. k \in 0 .. m /\ k - 1 \in 0 .. m /\ k - 1 # m
      OBVIOUS
    <3>2. g[k - 1] = f[k - 1]
      BY <3>1
    <3>3. CASE k = m
      BY <3>1, <3>2, <3>3
    <3>4. CASE k # m
      <4>1. k \in 1 .. (m - 1)
        BY <3>4
      <4> QED BY <2>1, <3>1, <3>2, <3>4, <4>1
    <3> QED BY <3>3, <3>4
  <2> HIDE DEF g
  <2> QED BY <2>2, <2>3, <2>4
<1>3. n \in T
  <2>1. 0 \in T
    BY <1>1
  <2>2. ASSUME NEW k \in 1 .. n, k - 1 \in T PROVE k \in T
    <3> HIDE DEF Good
    <3>1. Good(k - 1)
      BY <2>2
    <3>2. Good(k)
      BY <1>2, <3>1
    <3> QED BY <3>2
  <2> HIDE DEF T, Good
  <2>3. T \in SUBSET Nat
    BY DEF T
  <2>4. 0 .. n \subseteq T
    BY <2>1, <2>2, <2>3, Induct
  <2> QED BY <2>4
<1> QED BY <1>3

\* There are finitely many packages.
LEMMA DepthType == Depth \in Nat
BY FS_CardinalityType, BuilderAssumption DEF Depth

\* A recipe names packages as its dependencies.
LEMMA DepsType ==
  ASSUME NEW r \in Recipes, NEW p \in Pkgs
  PROVE  DepsOf(r, p) \subseteq Pkgs
<1> SUFFICES ASSUME r[p] # NoRecipe PROVE Needs[p][r[p]] \subseteq Pkgs
  BY DEF DepsOf
<1>1. r[p] \in Versions
  BY DEF Recipes
<1>2. Needs[p] \in [Versions -> SUBSET Pkgs]
  BY BuilderAssumption
<1> QED BY <1>1, <1>2

\* Closure follows the dependencies one step a round: its recursion has a solution.
LEMMA ClosureIter ==
  ASSUME NEW r \in Recipes, NEW p \in Pkgs
  PROVE  \E f \in [0 .. Depth -> SUBSET Pkgs] :
           /\ f[0] = {p}
           /\ \A k \in 1 .. Depth : f[k] = f[k - 1] \cup UNION {DepsOf(r, q) : q \in f[k - 1]}
           /\ Closure(r, p) = f[Depth]
<1> DEFINE F == [S \in SUBSET Pkgs |-> S \cup UNION {DepsOf(r, q) : q \in S}]
           up[k \in 0 .. Cardinality(Pkgs)] ==
             IF k = 0 THEN {p} ELSE up[k - 1] \cup UNION {DepsOf(r, q) : q \in up[k - 1]}
<1>1. F \in [SUBSET Pkgs -> SUBSET Pkgs]
  BY DepsType
<1>2. PICK f \in [0 .. Depth -> SUBSET Pkgs] :
        f[0] = {p} /\ \A k \in 1 .. Depth : f[k] = F[f[k - 1]]
  <2> HIDE DEF F
  <2>1. {p} \in SUBSET Pkgs
    OBVIOUS
  <2> QED BY <1>1, <2>1, Iteration, DepthType
<1>3. \A k \in 1 .. Depth : f[k] = f[k - 1] \cup UNION {DepsOf(r, q) : q \in f[k - 1]}
  <2> TAKE k \in 1 .. Depth
  <2>1. k - 1 \in 0 .. Depth
    BY DepthType
  <2>2. f[k - 1] \in SUBSET Pkgs
    BY <2>1
  <2> QED BY <1>2, <2>2
<1>4. f = [k \in 0 .. Depth |->
             IF k = 0 THEN {p} ELSE f[k - 1] \cup UNION {DepsOf(r, q) : q \in f[k - 1]}]
  <2>1. \A k \in 0 .. Depth : k = 0 \/ k \in 1 .. Depth
    BY DepthType
  <2> QED BY <1>2, <1>3, <2>1
<1>5. up = [k \in 0 .. Depth |->
             IF k = 0 THEN {p} ELSE up[k - 1] \cup UNION {DepsOf(r, q) : q \in up[k - 1]}]
  BY <1>4 DEF Depth
<1>6. Closure(r, p) = up[Depth]
  BY DEF Closure, Depth
<1> HIDE DEF up
<1>7. up = f
  <2> DEFINE T == {k \in 0 .. Depth : up[k] = f[k]}
  <2>1. 0 \in T
    BY <1>2, <1>5, DepthType
  <2>2. ASSUME NEW k \in 1 .. Depth, k - 1 \in T PROVE k \in T
    <3>1. k \in 0 .. Depth /\ k # 0
      BY DepthType
    <3>2. up[k] = up[k - 1] \cup UNION {DepsOf(r, q) : q \in up[k - 1]}
      BY <1>5, <3>1
    <3> QED BY <1>3, <2>2, <3>1, <3>2
  <2>3. T \in SUBSET Nat
    BY DepthType
  <2> HIDE DEF T
  <2>4. 0 .. Depth \subseteq T
    BY <2>1, <2>2, <2>3, Induct, DepthType
  <2>5. \A k \in 0 .. Depth : up[k] = f[k]
    BY <2>4 DEF T
  <2>6. DOMAIN up = 0 .. Depth
    BY <1>5
  <2> QED BY <1>5, <2>5, <2>6
<1> QED BY <1>2, <1>3, <1>6, <1>7

\* So has the recursion of topo_order.
LEMMA RoundIter ==
  ASSUME NEW r \in Recipes
  PROVE  /\ Round(r) \in [0 .. Depth -> SUBSET Pkgs]
         /\ Round(r)[0] = {}
         /\ \A k \in 1 .. Depth :
              Round(r)[k] = Round(r)[k - 1]
                            \cup {p \in Names(r) : DepsOf(r, p) \subseteq Round(r)[k - 1]}
<1> DEFINE F == [S \in SUBSET Pkgs |-> S \cup {p \in Names(r) : DepsOf(r, p) \subseteq S}]
           done[k \in 0 .. Cardinality(Pkgs)] ==
             IF k = 0 THEN {}
             ELSE done[k - 1] \cup {p \in Names(r) : DepsOf(r, p) \subseteq done[k - 1]}
<1>1. F \in [SUBSET Pkgs -> SUBSET Pkgs]
  BY DEF Names
<1>2. PICK f \in [0 .. Depth -> SUBSET Pkgs] :
        f[0] = {} /\ \A k \in 1 .. Depth : f[k] = F[f[k - 1]]
  <2> HIDE DEF F
  <2>1. {} \in SUBSET Pkgs
    OBVIOUS
  <2> QED BY <1>1, <2>1, Iteration, DepthType
<1>3. \A k \in 1 .. Depth :
        f[k] = f[k - 1] \cup {p \in Names(r) : DepsOf(r, p) \subseteq f[k - 1]}
  <2> TAKE k \in 1 .. Depth
  <2>1. k - 1 \in 0 .. Depth
    BY DepthType
  <2>2. f[k - 1] \in SUBSET Pkgs
    BY <2>1
  <2> QED BY <1>2, <2>2
<1>4. f = [k \in 0 .. Depth |->
             IF k = 0 THEN {}
             ELSE f[k - 1] \cup {p \in Names(r) : DepsOf(r, p) \subseteq f[k - 1]}]
  <2>1. \A k \in 0 .. Depth : k = 0 \/ k \in 1 .. Depth
    BY DepthType
  <2> QED BY <1>2, <1>3, <2>1
<1>5. done = [k \in 0 .. Depth |->
                IF k = 0 THEN {}
                ELSE done[k - 1] \cup {p \in Names(r) : DepsOf(r, p) \subseteq done[k - 1]}]
  BY <1>4 DEF Depth
<1>6. Round(r) = done
  BY DEF Round
<1> HIDE DEF done
<1>7. done = f
  <2> DEFINE T == {k \in 0 .. Depth : done[k] = f[k]}
  <2>1. 0 \in T
    BY <1>2, <1>5, DepthType
  <2>2. ASSUME NEW k \in 1 .. Depth, k - 1 \in T PROVE k \in T
    <3>1. k \in 0 .. Depth /\ k # 0
      BY DepthType
    <3>2. done[k] = done[k - 1] \cup {p \in Names(r) : DepsOf(r, p) \subseteq done[k - 1]}
      BY <1>5, <3>1
    <3> QED BY <1>3, <2>2, <3>1, <3>2
  <2>3. T \in SUBSET Nat
    BY DepthType
  <2> HIDE DEF T
  <2>4. 0 .. Depth \subseteq T
    BY <2>1, <2>2, <2>3, Induct, DepthType
  <2>5. \A k \in 0 .. Depth : done[k] = f[k]
    BY <2>4 DEF T
  <2>6. DOMAIN done = 0 .. Depth
    BY <1>5
  <2> QED BY <1>5, <2>5, <2>6
<1> QED BY <1>2, <1>3, <1>6, <1>7

-----------------------------------------------------------------------------
\* A set that holds what its members are built on.
Closed(r, S) == \A q \in S : DepsOf(r, q) \subseteq S

\* What p is built on, p included: whatever every closed set with p holds.
Needed(r, p) == {x \in Pkgs : \A S \in SUBSET Pkgs : p \in S /\ Closed(r, S) => x \in S}

\* That is itself a closed set with p.
LEMMA NeededClosed ==
  ASSUME NEW r \in Recipes, NEW p \in Pkgs
  PROVE  p \in Needed(r, p) /\ Closed(r, Needed(r, p))
<1>1. p \in Needed(r, p)
  BY DEF Needed
<1>2. ASSUME NEW q \in Needed(r, p), NEW x \in DepsOf(r, q) PROVE x \in Needed(r, p)
  <2>1. q \in Pkgs /\ x \in Pkgs
    BY <1>2, DepsType DEF Needed
  <2>2. ASSUME NEW S \in SUBSET Pkgs, p \in S, Closed(r, S) PROVE x \in S
    BY <1>2, <2>2 DEF Needed, Closed
  <2> QED BY <2>1, <2>2 DEF Needed
<1> QED BY <1>1, <1>2 DEF Closed

\* It is p and what each of its dependencies is built on.
LEMMA NeededUnfold ==
  ASSUME NEW r \in Recipes, NEW p \in Pkgs
  PROVE  Needed(r, p) = {p} \cup UNION {Needed(r, q) : q \in DepsOf(r, p)}
<1> DEFINE S == {p} \cup UNION {Needed(r, q) : q \in DepsOf(r, p)}
<1>0. \A q \in DepsOf(r, p) : q \in Pkgs
  BY DepsType
<1>1. S \in SUBSET Pkgs /\ p \in S
  BY DEF Needed
<1>2. DepsOf(r, p) \subseteq S
  BY <1>0, NeededClosed
<1>3. Closed(r, S)
  <2> SUFFICES ASSUME NEW q \in S PROVE DepsOf(r, q) \subseteq S
    BY DEF Closed
  <2>1. CASE q = p
    BY <1>2, <2>1
  <2>2. ASSUME NEW x \in DepsOf(r, p), q \in Needed(r, x) PROVE DepsOf(r, q) \subseteq S
    <3>1. DepsOf(r, q) \subseteq Needed(r, x)
      BY <1>0, <2>2, NeededClosed DEF Closed
    <3> QED BY <3>1
  <2> QED BY <2>1, <2>2
<1>4. Needed(r, p) \subseteq S
  <2> HIDE DEF S
  <2> QED BY <1>1, <1>3 DEF Needed
<1>5. ASSUME NEW q \in DepsOf(r, p), NEW x \in Needed(r, q) PROVE x \in Needed(r, p)
  <2>1. Needed(r, p) \in SUBSET Pkgs
    BY DEF Needed
  <2>2. q \in Needed(r, p) /\ Closed(r, Needed(r, p))
    BY NeededClosed DEF Closed
  <2>3. \A W \in SUBSET Pkgs : q \in W /\ Closed(r, W) => x \in W
    BY <1>5 DEF Needed
  <2> QED BY <2>1, <2>2, <2>3
<1> QED BY <1>4, <1>5, NeededClosed

\* package_keys reaches all of it: a round that adds nothing ends the search, and
\* Depth rounds that each add a package would be more packages than there are.
LEMMA ClosureLeast ==
  ASSUME NEW r \in Recipes, NEW p \in Pkgs
  PROVE  Closure(r, p) = Needed(r, p)
<1>1. PICK f \in [0 .. Depth -> SUBSET Pkgs] :
           /\ f[0] = {p}
           /\ \A k \in 1 .. Depth : f[k] = f[k - 1] \cup UNION {DepsOf(r, q) : q \in f[k - 1]}
           /\ Closure(r, p) = f[Depth]
  BY ClosureIter
<1>a. \A k \in 1 .. Depth : k \in 0 .. Depth /\ k - 1 \in 0 .. Depth
  BY DepthType
<1>b. \A k \in 0 .. Depth : IsFiniteSet(f[k]) /\ Cardinality(f[k]) \in Nat
                            /\ Cardinality(f[k]) <= Depth
  BY FS_Subset, FS_CardinalityType, BuilderAssumption DEF Depth
<1>2. \A k \in 0 .. Depth : f[k] \subseteq Needed(r, p)
  <2> DEFINE T == {k \in 0 .. Depth : f[k] \subseteq Needed(r, p)}
  <2>1. 0 \in T
    BY <1>1, NeededClosed, DepthType
  <2>2. ASSUME NEW k \in 1 .. Depth, k - 1 \in T PROVE k \in T
    BY <1>1, <1>a, <2>2, NeededClosed DEF Closed
  <2>3. T \in SUBSET Nat
    BY DepthType
  <2> HIDE DEF T
  <2>4. 0 .. Depth \subseteq T
    BY <2>1, <2>2, <2>3, Induct, DepthType
  <2> QED BY <2>4 DEF T
<1>3. \A k \in 0 .. Depth : p \in f[k]
  <2> DEFINE T == {k \in 0 .. Depth : p \in f[k]}
  <2>1. 0 \in T
    BY <1>1, DepthType
  <2>2. ASSUME NEW k \in 1 .. Depth, k - 1 \in T PROVE k \in T
    BY <1>1, <1>a, <2>2
  <2>3. T \in SUBSET Nat
    BY DepthType
  <2> HIDE DEF T
  <2>4. 0 .. Depth \subseteq T
    BY <2>1, <2>2, <2>3, Induct, DepthType
  <2> QED BY <2>4 DEF T
<1>4. \A k \in 0 .. Depth : Closed(r, f[k]) \/ Cardinality(f[k]) > k
  <2> DEFINE T == {k \in 0 .. Depth : Closed(r, f[k]) \/ Cardinality(f[k]) > k}
  <2>1. 0 \in T
    <3>1. Cardinality(f[0]) = 1
      BY <1>1, FS_Singleton
    <3> QED BY <3>1, DepthType
  <2>2. ASSUME NEW k \in 1 .. Depth, k - 1 \in T PROVE k \in T
    <3>1. f[k] = f[k - 1] \cup UNION {DepsOf(r, q) : q \in f[k - 1]}
      BY <1>1
    <3>2. CASE Closed(r, f[k - 1])
      <4>1. f[k] = f[k - 1]
        BY <3>1, <3>2 DEF Closed
      <4> QED BY <1>a, <3>2, <4>1
    <3>3. CASE ~Closed(r, f[k - 1])
      <4>1. f[k] # f[k - 1] /\ f[k - 1] \subseteq f[k]
        BY <3>1, <3>3 DEF Closed
      <4>2. Cardinality(f[k - 1]) < Cardinality(f[k])
        <5>1. Cardinality(f[k - 1]) <= Cardinality(f[k])
              /\ Cardinality(f[k - 1]) # Cardinality(f[k])
          BY <1>a, <1>b, <4>1, FS_Subset
        <5> QED BY <1>a, <1>b, <5>1
      <4>3. Cardinality(f[k - 1]) > k - 1
        BY <2>2, <3>3
      <4>4. Cardinality(f[k]) > k
        BY <1>a, <1>b, <4>2, <4>3
      <4> QED BY <1>a, <4>4
    <3> QED BY <3>2, <3>3
  <2>3. T \in SUBSET Nat
    BY DepthType
  <2> HIDE DEF T
  <2>4. 0 .. Depth \subseteq T
    BY <2>1, <2>2, <2>3, Induct, DepthType
  <2> QED BY <2>4 DEF T
<1>5. Depth \in 0 .. Depth
  BY DepthType
<1>6. Closed(r, f[Depth])
  BY <1>4, <1>5, <1>b, DepthType
<1>7. f[Depth] \in SUBSET Pkgs
  BY <1>5
<1>8. Needed(r, p) \subseteq f[Depth]
  BY <1>3, <1>5, <1>6, <1>7 DEF Needed
<1> QED BY <1>1, <1>2, <1>5, <1>8

\* What package_keys finds is what p is built on: two different definitions, a
\* search and the closed sets of the property.
LEMMA BuiltOnClosure ==
  ASSUME loaded.recipe \in Recipes, NEW p \in Pkgs
  PROVE  BuiltOn(p) = Closure(loaded.recipe, p)
BY ClosureLeast DEF BuiltOn, Needed, Closed

\* A build from nothing is made from exactly what the key names.
LEMMA FreshKey ==
  ASSUME loaded.recipe \in Recipes, NEW p \in Pkgs
  PROVE  Fresh(p) = Whole(package_keys(loaded.recipe, loaded.base, p))
BY BuiltOnClosure DEF Fresh, package_keys

\* What the steps of p read, where its dependencies are staged from their keys,
\* is what the key of p names.
LEMMA ProductKey ==
  ASSUME loaded.recipe \in Recipes, NEW p \in Pkgs,
         \A q \in DepsOf(loaded.recipe, p) :
           root[q].from = package_keys(loaded.recipe, loaded.base, q)
  PROVE  /\ Product(p).from = package_keys(loaded.recipe, loaded.base, p)
         /\ \A q \in DepsOf(loaded.recipe, p) :
              package_keys(loaded.recipe, loaded.base, q)
                \subseteq package_keys(loaded.recipe, loaded.base, p)
<1> DEFINE r == loaded.recipe
           Key(q) == {<<x, r[x]>> : x \in Needed(r, q)} \cup {<<0, loaded.base>>}
<1>1. \A q \in Pkgs : package_keys(r, loaded.base, q) = Key(q)
  BY ClosureLeast DEF package_keys
<1>2. \A q \in DepsOf(r, p) : root[q].from = Key(q)
  BY <1>1, DepsType
<1>3. Product(p).from = {<<p, r[p]>>, <<0, loaded.base>>} \cup UNION {Key(q) : q \in DepsOf(r, p)}
  <2>1. Product(p).from = {<<p, r[p]>>, <<0, loaded.base>>}
                          \cup UNION {root[q].from : q \in DepsOf(r, p)}
    BY DEF Product
  <2> HIDE DEF Key
  <2> QED BY <1>2, <2>1
<1>4. {<<p, r[p]>>, <<0, loaded.base>>} \cup UNION {Key(q) : q \in DepsOf(r, p)} = Key(p)
  BY NeededUnfold
<1>5. \A q \in DepsOf(r, p) : Key(q) \subseteq Key(p)
  <2> HIDE DEF Key
  <2> QED BY <1>4
<1>6. \A q \in DepsOf(r, p) : q \in Pkgs
  BY DepsType
<1> HIDE DEF Key
<1> QED BY <1>1, <1>3, <1>4, <1>5, <1>6

-----------------------------------------------------------------------------
\* A package is done only after its dependencies, and stays done.
LEMMA RoundGrows ==
  ASSUME NEW r \in Recipes, NEW k \in 1 .. Depth
  PROVE  /\ Round(r)[k - 1] \subseteq Round(r)[k]
         /\ \A p \in Round(r)[k] : DepsOf(r, p) \subseteq Round(r)[k - 1]
<1> DEFINE R == Round(r)
           T == {j \in 0 .. Depth : j = 0 \/ \A p \in R[j] : DepsOf(r, p) \subseteq R[j - 1]}
<1>1. /\ R \in [0 .. Depth -> SUBSET Pkgs] /\ R[0] = {}
      /\ \A j \in 1 .. Depth :
           R[j] = R[j - 1] \cup {p \in Names(r) : DepsOf(r, p) \subseteq R[j - 1]}
  BY RoundIter
<1> HIDE DEF R
<1>2. 0 \in T
  BY DepthType
<1>3. ASSUME NEW j \in 1 .. Depth, j - 1 \in T PROVE j \in T
  <2>1. j \in 0 .. Depth
    BY DepthType
  <2>2. ASSUME NEW p \in R[j] PROVE DepsOf(r, p) \subseteq R[j - 1]
    <3>1. CASE p \notin R[j - 1]
      BY <1>1, <2>2, <3>1
    <3>2. CASE p \in R[j - 1]
      <4>1. j - 1 # 0
        BY <1>1, <3>2
      <4>2. j - 1 \in 1 .. Depth
        BY <4>1, DepthType
      <4>3. DepsOf(r, p) \subseteq R[(j - 1) - 1]
        BY <1>3, <3>2, <4>1
      <4>4. R[(j - 1) - 1] \subseteq R[j - 1]
        BY <1>1, <4>2
      <4> QED BY <4>3, <4>4
    <3> QED BY <3>1, <3>2
  <2> QED BY <2>1, <2>2
<1>4. T \in SUBSET Nat
  BY DepthType
<1>5. k \in T
  <2> HIDE DEF T
  <2>1. 0 .. Depth \subseteq T
    BY <1>2, <1>3, <1>4, Induct, DepthType
  <2> QED BY <2>1, DepthType
<1> QED BY <1>1, <1>5 DEF R

\* Only packages with a recipe are ever done.
LEMMA RoundNames ==
  ASSUME NEW r \in Recipes, NEW k \in 0 .. Depth
  PROVE  Round(r)[k] \subseteq Names(r)
<1> DEFINE T == {j \in 0 .. Depth : Round(r)[j] \subseteq Names(r)}
<1>1. 0 \in T
  BY RoundIter, DepthType
<1>2. ASSUME NEW j \in 1 .. Depth, j - 1 \in T PROVE j \in T
  BY <1>2, RoundIter, DepthType
<1>3. T \in SUBSET Nat
  BY DepthType
<1>4. k \in T
  <2> HIDE DEF T
  <2>1. 0 .. Depth \subseteq T
    BY <1>1, <1>2, <1>3, Induct, DepthType
  <2> QED BY <2>1
<1> QED BY <1>4

\* Where an order exists, every set of packages has a first round.
LEMMA FirstRound ==
  ASSUME NEW r \in Recipes, Ordered(r), NEW ps \in SUBSET Names(r), ps # {}
  PROVE  \E k \in 1 .. Depth : Round(r)[k] \cap ps # {} /\ Round(r)[k - 1] \cap ps = {}
<1> DEFINE S == {k \in 0 .. Depth : Round(r)[k] \cap ps # {}}
<1>1. Depth \in S
  BY DepthType DEF Ordered, Depth
<1>2. S \in SUBSET Nat
  BY DepthType
<1>3. PICK k \in S : \A j \in S : k <= j
  <2> HIDE DEF S
  <2> QED BY <1>1, <1>2, LeastNat
<1>4. k \in 1 .. Depth
  <2>1. k # 0
    BY RoundIter
  <2> QED BY <2>1, DepthType
<1>5. k - 1 \in 0 .. Depth /\ ~(k <= k - 1)
  BY <1>4, DepthType
<1> QED BY <1>3, <1>4, <1>5

\* The next package of a plan depends on nothing that is still to come.
LEMMA UpcomingReady ==
  ASSUME NEW r \in Recipes, Ordered(r), NEW ps \in SUBSET Names(r), ps # {}
  PROVE  Upcoming(r, ps) \in ps /\ DepsOf(r, Upcoming(r, ps)) \cap ps = {}
<1> DEFINE k == CHOOSE k \in 1 .. Depth :
                  Round(r)[k] \cap ps # {} /\ Round(r)[k - 1] \cap ps = {}
           W == Round(r)[k] \cap ps
           n == CHOOSE p \in W : \A q \in W : p <= q
<1>1. k \in 1 .. Depth /\ W # {} /\ Round(r)[k - 1] \cap ps = {}
  BY FirstRound
<1>2. Upcoming(r, ps) = n
  BY DEF Upcoming, Depth
<1> HIDE DEF k
<1>3. W \in SUBSET Nat
  BY BuilderAssumption DEF Names
<1>4. \E p \in W : \A q \in W : p <= q
  <2> HIDE DEF W
  <2> QED BY <1>1, <1>3, LeastNat
<1>5. n \in W
  <2> HIDE DEF W
  <2> QED BY <1>4
<1>6. DepsOf(r, n) \subseteq Round(r)[k - 1]
  <2> HIDE DEF n
  <2> QED BY <1>1, <1>5, RoundGrows
<1> QED BY <1>1, <1>2, <1>5, <1>6

\* A plan, cut short by --upto or not, holds what its packages are built on.
LEMMA PlanClosed ==
  ASSUME NEW r \in Recipes, Ordered(r), NEW u \in Names(r) \cup {All}
  PROVE  /\ Plan(r, u) \subseteq Names(r)
         /\ \A p \in Plan(r, u) : DepsOf(r, p) \subseteq Plan(r, u)
         /\ u = All => Plan(r, u) = Names(r)
<1>1. CASE u = All
  BY <1>1 DEF Plan, Ordered
<1>2. CASE u # All
  <2> DEFINE k == CHOOSE k \in 1 .. Depth : u \in Round(r)[k] \ Round(r)[k - 1]
  <2>1. \E j \in 1 .. Depth : u \in Round(r)[j] \ Round(r)[j - 1]
    <3>1. {u} \in SUBSET Names(r)
      BY <1>2
    <3>2. PICK j \in 1 .. Depth : Round(r)[j] \cap {u} # {} /\ Round(r)[j - 1] \cap {u} = {}
      BY <3>1, FirstRound
    <3> QED BY <3>2
  <2>2. k \in 1 .. Depth
    BY <2>1
  <2>3. Plan(r, u) = Round(r)[k - 1] \cup {p \in Round(r)[k] : p <= u}
    BY <1>2 DEF Plan, Depth
  <2> HIDE DEF k
  <2>4. k \in 0 .. Depth /\ k - 1 \in 0 .. Depth
    BY <2>2, DepthType
  <2>5. Plan(r, u) \subseteq Names(r)
    BY <2>3, <2>4, RoundNames
  <2>6. \A p \in Plan(r, u) : DepsOf(r, p) \subseteq Round(r)[k - 1]
    BY <2>2, <2>3, RoundGrows
  <2> QED BY <1>2, <2>3, <2>5, <2>6
<1> QED BY <1>1, <1>2

-----------------------------------------------------------------------------
\* The runner of the workflow: dest/ is not kept on the machine, and --upto names
\* a package.
CleanRunner == ~Laptop /\ ~Typos

\* Every package a key names has its committed listing.
Vetted(key) == \A x \in key : x[1] \in Pkgs => x[1] \in Listed

\* A directory made from exactly what the key names, its install ended or not; it
\* was built on a partial package only if that one is not listed.
MadeFrom(tree, key) ==
  /\ tree.from = key
  /\ tree \in [state : {"partial", "tainted", "whole"}, from : {key}]
  /\ Vetted(key) => tree.state # "tainted"

\* The key of p in this round.
Key(p) == package_keys(loaded.recipe, loaded.base, p)

\* What may be staged: a partial directory only of a package without a listing.
Stageable(tree, p) ==
  MadeFrom(tree, Key(p)) /\ (p \in Listed => tree.state # "partial")

\* One entry for each package.
IsTree(d) == d = [p \in Pkgs |-> d[p]]

\* Each directory has an entry in the marker and was made from what it says.
Vouched(d, m) ==
  \A p \in Pkgs : d[p] # Absent => m.keys[p] # {} /\ MadeFrom(d[p], m.keys[p])

\* The whole plan of the round.
Planned == Plan(loaded.recipe, opts.upto)

\* Types, and that a round works on the tree it loaded.
Inputs ==
  /\ pc \in {"idle", "chain", "next", "steps", "checkpoint", "publish", "upload", "merge",
             "merged", "end"}
  /\ recipe \in Recipes /\ loaded.recipe \in Recipes
  /\ pc # "idle" => loaded = [recipe |-> recipe, base |-> base]
  /\ IsTree(dest) /\ IsTree(root) /\ IsTree(release.dest)

\* What is published, and what a round takes over or is about to publish.
Caches ==
  /\ Vouched(release.dest, release.marker)
  /\ pc \in {"chain", "publish", "upload"} => Vouched(dest, marker)

\* What holds before the driver starts.
Waiting ==
  /\ pc \in {"idle", "chain"} => root = NoTree /\ ~ok
  /\ pc = "chain" => /\ opts.upto \in Names(loaded.recipe) \cup {All}
                     /\ marker = NoMarker \/ marker.base = loaded.base

\* No directory of a running round is stale, and none has lost its recipe.
DestFresh ==
  \A p \in Pkgs : dest[p] # Absent =>
    p \in Names(loaded.recipe) /\ MadeFrom(dest[p], Key(p))

\* The build root holds exactly the part of the plan that is done, up to date.
Staged ==
  \A p \in Pkgs :
    /\ p \in Planned \ todo => Stageable(root[p], p) /\ dest[p] = root[p]
    /\ p \notin Planned \ todo => root[p] = Absent

\* What holds once the driver has started.
Going ==
  /\ Ordered(loaded.recipe)
  /\ opts.upto \in Names(loaded.recipe) \cup {All}
  /\ todo \subseteq Planned
  /\ DestFresh /\ Staged
  /\ ok => todo = {}

\* What holds when it died instead.
Refused == pc = "checkpoint" /\ ~Ordered(loaded.recipe) /\ root = NoTree /\ ~ok

\* One of the two, and a package under way has its dependencies behind it.
Working ==
  /\ pc \in {"next", "steps", "checkpoint", "publish", "upload", "merge"} => Going \/ Refused
  /\ pc = "steps" => at \in todo /\ DepsOf(loaded.recipe, at) \cap todo = {}
  /\ pc = "merge" => ok /\ opts.upto = All

\* What holds at the end of a round, shipped or not.
Ended ==
  /\ pc = "end" =>
       \A p \in Pkgs : root[p] = Absent \/ Stageable(root[p], p)
  /\ pc = "merged" =>
       \A p \in Pkgs : IF p \in Names(loaded.recipe)
                       THEN Stageable(root[p], p) ELSE root[p] = Absent

\* What a running build means to restore is there.
Restorable ==
  /\ resume \subseteq Pkgs
  /\ pc \in {"next", "steps"} => \A p \in resume : dest[p] # Absent

\* The inductive invariant.
BuilderInv == Inputs /\ Caches /\ Waiting /\ Working /\ Ended /\ Restorable

\* Nothing is published or staged at first.
LEMMA BuilderInit == CleanRunner /\ Init => BuilderInv
<1> SUFFICES ASSUME Init PROVE BuilderInv
  OBVIOUS
<1>1. \A p \in Pkgs : NoTree[p] = Absent
  BY DEF NoTree
<1>2. Inputs
  BY BuilderAssumption DEF Init, Inputs, Recipes, IsTree, NoTree, NoRelease
<1> QED
  BY <1>1, <1>2 DEF Init, BuilderInv, Caches, Waiting, Working, Ended, Restorable, NoRelease, Vouched

\* The end of a round, and the loss of a machine, leave only what is published.
LEMMA KeepsEnd ==
  ASSUME CleanRunner, BuilderInv, EndRound, release' = release
  PROVE  BuilderInv'
<1>1. \A p \in Pkgs : NoTree[p] = Absent
  BY DEF NoTree
<1>2. /\ dest' = NoTree /\ root' = NoTree /\ pc' = "idle" /\ ok' = FALSE /\ resume' = {}
      /\ loaded' = [recipe |-> recipe, base |-> base] /\ recipe' = recipe
  BY DEF EndRound, CleanRunner, inputs
<1>3. Inputs'
  BY <1>2 DEF BuilderInv, Inputs, IsTree, NoTree
<1> QED
  BY <1>1, <1>2, <1>3 DEF BuilderInv, Caches, Waiting, Working, Ended, Restorable, Vouched

\* A commit or a new sysroot comes between rounds.
LEMMA KeepsEdit ==
  ASSUME CleanRunner, BuilderInv, Edit
  PROVE  BuilderInv'
<1>1. pc = "idle" /\ UNCHANGED <<plan, dest, marker, release, root, pc, faults>>
  BY DEF Edit, CleanRunner
<1>2. recipe' \in Recipes
  BY DEF Edit, BuilderInv, Inputs, Recipes
<1>3. Inputs'
  BY <1>1, <1>2 DEF BuilderInv, Inputs, plan, IsTree
<1> QED
  BY <1>1, <1>3 DEF BuilderInv, Caches, Waiting, Working, Ended, Restorable, plan, Vouched

\* A round starts from the published checkpoint or from nothing.
LEMMA KeepsPhaseIn ==
  ASSUME CleanRunner, BuilderInv, NEW r \in BOOLEAN, NEW u \in Pkgs \cup {All}, PhaseIn(r, u)
  PROVE  BuilderInv'
<1>1. \A p \in Pkgs : NoTree[p] = Absent
  BY DEF NoTree
<1>2. /\ pc = "idle" /\ pc' = "chain" /\ UNCHANGED <<inputs, release, root, resume, ok>>
      /\ loaded' = [recipe |-> recipe, base |-> base]
      /\ opts' = [resume |-> r, upto |-> u] /\ u \in Names(recipe) \cup {All}
      /\ \/ dest' = release.dest /\ marker' = release.marker /\ release.marker.base = base
         \/ dest' = NoTree /\ marker' = NoMarker
  BY DEF PhaseIn, CleanRunner, NoRelease
<1>3. Inputs'
  BY <1>2 DEF BuilderInv, Inputs, IsTree, NoTree, inputs
<1>4. Caches'
  BY <1>1, <1>2 DEF BuilderInv, Caches, Vouched
<1>5. Waiting'
  BY <1>2 DEF BuilderInv, Waiting, inputs
<1> QED
  BY <1>2, <1>3, <1>4, <1>5 DEF BuilderInv, Working, Ended, Restorable

\* On a runner the driver dies only when no order exists.
LEMMA KeepsRefuse ==
  ASSUME CleanRunner, BuilderInv, Refuse
  PROVE  BuilderInv'
<1>1. /\ pc = "chain" /\ pc' = "checkpoint"
      /\ UNCHANGED <<recipe, base, loaded, opts, resume, todo, at, ok, dest, marker, release, root>>
  BY DEF Refuse, inputs, plan
<1>2. ~Ordered(loaded.recipe)
  BY <1>1 DEF Refuse, Dies, BuilderInv, Waiting
<1>3. Refused'
  BY <1>1, <1>2 DEF Refused, BuilderInv, Waiting
<1> QED
  BY <1>1, <1>3 DEF BuilderInv, Inputs, IsTree, Caches, Waiting, Working, Ended, Restorable, Vouched

\* Dropping what the marker does not vouch for leaves nothing stale.
LEMMA KeepsStart ==
  ASSUME CleanRunner, BuilderInv, Start
  PROVE  BuilderInv'
<1>0. \A p \in Pkgs : NoTree[p] = Absent
  BY DEF NoTree
<1>1. /\ pc = "chain" /\ pc' = "next" /\ todo' = Planned
      /\ UNCHANGED <<recipe, base, loaded, opts, at, ok, release, root>>
  BY DEF Start, inputs, Planned
<1>2. Ordered(loaded.recipe)
  BY DEF Start, Dies
<1>3. IsTree(dest')
  BY DEF Start, IsTree, DropStale, NoTree
<1>4. DestFresh'
  <2>1. CASE dest' = NoTree
    BY <1>0, <1>1, <2>1 DEF DestFresh
  <2>2. CASE dest' = DropStale(marker, dest, loaded.recipe, loaded.base)
    <3> SUFFICES ASSUME NEW p \in Pkgs, dest'[p] # Absent
                 PROVE  /\ p \in Names(loaded.recipe)
                        /\ MadeFrom(dest'[p], Key(p))
      BY <1>1 DEF DestFresh, Key
    <3>1. /\ dest'[p] = dest[p]
          /\ marker.keys[p] = {} \/ p \in Reusable(marker, dest, loaded.recipe, loaded.base)
      BY <2>2 DEF DropStale
    <3>2. marker.keys[p] # {} /\ MadeFrom(dest[p], marker.keys[p])
      BY <1>1, <3>1 DEF BuilderInv, Caches, Vouched
    <3> QED
      BY <3>1, <3>2 DEF Reusable, Key
  <2> QED
    BY <2>1, <2>2 DEF Start
<1>5. Staged'
  BY <1>0, <1>1 DEF Staged, Planned, BuilderInv, Waiting
<1>6. Going'
  BY <1>1, <1>2, <1>4, <1>5 DEF Going, BuilderInv, Waiting, Planned
<1>7. Restorable'
  BY <1>0, <1>1 DEF Start, Restorable, Reusable, DropStale, Dirs, Names
<1> QED
  BY <1>1, <1>3, <1>6, <1>7 DEF BuilderInv, Inputs, Caches, Waiting, Working, Ended, Vouched, IsTree

\* The driver's next package is in the plan with its dependencies behind it.
LEMMA FirstReady ==
  ASSUME BuilderInv, pc = "next", todo # {}
  PROVE  /\ Going /\ loaded.recipe \in Recipes
         /\ First \in todo /\ First \in Planned
         /\ First \in Pkgs /\ First \in Names(loaded.recipe)
         /\ DepsOf(loaded.recipe, First) \cap todo = {}
<1>1. Going /\ loaded.recipe \in Recipes
  BY DEF BuilderInv, Inputs, Working, Refused
<1>2. todo \in SUBSET Names(loaded.recipe)
  BY <1>1, PlanClosed DEF Going, Planned
<1>3. First \in todo /\ DepsOf(loaded.recipe, First) \cap todo = {}
  BY <1>1, <1>2, UpcomingReady DEF First, Going
<1> QED
  BY <1>1, <1>2, <1>3 DEF Going, Names

\* A package whose dependencies are staged is made from its key, and well when
\* every package of the key is listed.
LEMMA ProductMade ==
  ASSUME BuilderInv, Going, NEW p \in Planned, DepsOf(loaded.recipe, p) \cap todo = {}
  PROVE  /\ Product(p) \in [state : {"tainted", "whole"}, from : {Key(p)}]
         /\ Vetted(Key(p)) => Product(p).state = "whole"
<1>1. loaded.recipe \in Recipes /\ p \in Pkgs /\ DepsOf(loaded.recipe, p) \subseteq Planned
  BY PlanClosed DEF BuilderInv, Inputs, Going, Planned, Names
<1>2. \A q \in DepsOf(loaded.recipe, p) : q \in Pkgs /\ Stageable(root[q], q)
  BY <1>1, DepsType DEF Going, Staged
<1>3. /\ Product(p).from = Key(p)
      /\ \A q \in DepsOf(loaded.recipe, p) : Key(q) \subseteq Key(p)
  BY <1>1, <1>2, ProductKey DEF Stageable, MadeFrom, Key
<1>4. Product(p) \in [state : {"tainted", "whole"}, from : {Key(p)}]
  BY <1>3 DEF Product
<1>5. ASSUME Vetted(Key(p)), NEW q \in DepsOf(loaded.recipe, p) PROVE root[q].state = "whole"
  <2>1. Vetted(Key(q))
    BY <1>3, <1>5 DEF Vetted
  <2>2. q \in Listed
    <3>1. q \in Closure(loaded.recipe, q)
      BY <1>1, <1>2, ClosureLeast, NeededClosed
    <3>2. <<q, loaded.recipe[q]>> \in Key(q)
      BY <3>1 DEF Key, package_keys
    <3> QED BY <1>2, <2>1, <3>2 DEF Vetted
  <2>3. root[q].state \in {"partial", "tainted", "whole"}
    BY <1>2 DEF Stageable, MadeFrom
  <2> QED BY <1>2, <2>1, <2>2, <2>3 DEF Stageable, MadeFrom
<1> QED
  BY <1>4, <1>5 DEF Product

\* A restored directory with every listed path may be staged.
LEMMA KeepsRestore ==
  ASSUME CleanRunner, BuilderInv, Restore
  PROVE  BuilderInv'
<1> DEFINE f == First
<1>1. /\ pc = "next" /\ pc' = "next" /\ todo # {} /\ todo' = todo \ {f}
      /\ root' = [root EXCEPT ![f] = dest[f]] /\ Accepted(f)
      /\ UNCHANGED <<recipe, base, loaded, opts, resume, at, ok, dest, marker, release>>
  BY DEF Restore, stage_into, inputs
<1>2. /\ Going /\ f \in todo /\ f \in Planned /\ f \in Pkgs
  BY <1>1, FirstReady
<1> HIDE DEF f
<1>3. Stageable(dest[f], f)
  <2>1. f \in Listed => dest[f].state # "partial"
    BY <1>1, <1>2 DEF Accepted, NoneMissing
  <2>2. dest[f] # Absent
    BY <1>1 DEF Accepted, BuilderInv, Restorable
  <2> QED
    BY <1>2, <2>1, <2>2 DEF Going, DestFresh, Stageable
<1>4. IsTree(root') /\ root'[f] = dest[f] /\ \A p \in Pkgs \ {f} : root'[p] = root[p]
  BY <1>1, <1>2 DEF BuilderInv, Inputs, IsTree
<1>5. Staged'
  BY <1>1, <1>2, <1>3, <1>4 DEF Staged, Going, Planned, Stageable, Key
<1>6. Going'
  BY <1>1, <1>2, <1>5 DEF Going, DestFresh, Planned, Key
<1> QED
  BY <1>1, <1>4, <1>6 DEF BuilderInv, Inputs, Caches, Waiting, Working, Ended, Restorable, Vouched, IsTree

\* A package about to be built is in nobody's way.
LEMMA KeepsBegin ==
  ASSUME CleanRunner, BuilderInv, Begin
  PROVE  BuilderInv'
<1> DEFINE f == First
<1>1. /\ pc = "next" /\ pc' = "steps" /\ todo # {} /\ at' = f
      /\ dest' = [dest EXCEPT ![f] = [Product(f) EXCEPT !.state = "partial"]]
      /\ UNCHANGED <<recipe, base, loaded, opts, todo, ok, marker, release, root>>
  BY DEF Begin, inputs
<1>2. /\ Going /\ f \in todo /\ f \in Planned /\ f \in Pkgs /\ f \in Names(loaded.recipe)
      /\ DepsOf(loaded.recipe, f) \cap todo = {}
  BY <1>1, FirstReady
<1> HIDE DEF f
<1> DEFINE d == [Product(f) EXCEPT !.state = "partial"]
<1>3. IsTree(dest') /\ dest'[f] = d /\ \A p \in Pkgs \ {f} : dest'[p] = dest[p]
  BY <1>1, <1>2 DEF BuilderInv, Inputs, IsTree
<1>7. MadeFrom(d, Key(f))
  <2>1. Product(f) \in [state : {"tainted", "whole"}, from : {Key(f)}]
    BY <1>2, ProductMade
  <2>2. d.state = "partial" /\ d.from = Key(f) /\ d \in [state : {"partial", "tainted", "whole"}, from : {Key(f)}]
    BY <2>1
  <2> QED BY <2>2 DEF MadeFrom
<1> HIDE DEF d
<1>4. DestFresh'
  BY <1>1, <1>2, <1>3, <1>7 DEF Going, DestFresh, Key
<1>5. Staged'
  BY <1>1, <1>2, <1>3 DEF Going, Staged, Planned, Stageable, Key
<1>6. Going'
  BY <1>1, <1>2, <1>4, <1>5 DEF Going, Planned
<1>8. Restorable'
  BY <1>1, <1>2, <1>3 DEF BuilderInv, Restorable, Begin
<1> QED
  BY <1>1, <1>2, <1>3, <1>6, <1>8
     DEF BuilderInv, Inputs, Caches, Waiting, Working, Ended, Vouched, IsTree

\* A built package is up to date, since its dependencies were.
LEMMA KeepsFinish ==
  ASSUME CleanRunner, BuilderInv, Finish
  PROVE  BuilderInv'
<1>1. /\ pc = "steps" /\ pc' = "next" /\ todo' = todo \ {at}
      /\ dest' = [dest EXCEPT ![at] = Product(at)]
      /\ root' = [root EXCEPT ![at] = Product(at)]
      /\ UNCHANGED <<recipe, base, loaded, opts, at, ok, marker, release>>
  BY DEF Finish, stage_into, inputs
<1>2. /\ Going /\ loaded.recipe \in Recipes /\ at \in todo /\ at \in Planned
      /\ DepsOf(loaded.recipe, at) \cap todo = {}
  BY <1>1 DEF BuilderInv, Inputs, Working, Refused, Going
<1>3. at \in Names(loaded.recipe) /\ at \in Pkgs /\ DepsOf(loaded.recipe, at) \subseteq Planned
  BY <1>2, PlanClosed DEF Going, Planned, Names
<1>4. Stageable(Product(at), at) /\ Product(at) # Absent
  <2>1. /\ Product(at) \in [state : {"tainted", "whole"}, from : {Key(at)}]
        /\ Vetted(Key(at)) => Product(at).state = "whole"
    BY <1>2, ProductMade
  <2>2. Product(at).state \in {"tainted", "whole"} /\ Product(at).from = Key(at)
    BY <2>1
  <2>3. Product(at) \in [state : {"partial", "tainted", "whole"}, from : {Key(at)}]
    BY <2>1
  <2> QED BY <2>1, <2>2, <2>3 DEF Stageable, MadeFrom, Absent
<1>5. /\ IsTree(dest') /\ dest'[at] = Product(at) /\ \A p \in Pkgs \ {at} : dest'[p] = dest[p]
      /\ IsTree(root') /\ root'[at] = Product(at) /\ \A p \in Pkgs \ {at} : root'[p] = root[p]
  BY <1>1, <1>3 DEF BuilderInv, Inputs, IsTree
<1>6. DestFresh'
  BY <1>1, <1>2, <1>3, <1>4, <1>5 DEF Going, DestFresh, Stageable, Key
<1>7. Staged'
  BY <1>1, <1>2, <1>4, <1>5 DEF Going, Staged, Planned, Stageable, Key
<1>8. Going'
  BY <1>1, <1>2, <1>6, <1>7 DEF Going, Planned
<1>9. Restorable'
  <2>1. resume' = resume /\ resume \subseteq Pkgs
    BY DEF Finish, BuilderInv, Restorable
  <2> QED BY <1>1, <1>4, <1>5, <2>1 DEF BuilderInv, Restorable
<1> QED
  BY <1>1, <1>5, <1>8, <1>9 DEF BuilderInv, Inputs, Caches, Waiting, Working, Ended, Vouched, IsTree

\* A failure, the end of the time and success leave dest/ as it is.
LEMMA KeepsStop ==
  ASSUME CleanRunner, BuilderInv, Fail \/ TimeOut \/ Succeed
  PROVE  BuilderInv'
<1>1. /\ pc \in {"next", "steps"} /\ pc' = "checkpoint"
      /\ UNCHANGED <<recipe, base, loaded, opts, resume, todo, at, dest, marker, release, root>>
      /\ ok' = ok \/ todo = {}
  BY DEF Fail, TimeOut, Succeed, inputs, plan
<1>2. Going
  BY <1>1 DEF BuilderInv, Working, Refused
<1>3. Going'
  BY <1>1, <1>2 DEF Going, DestFresh, Staged, Planned, Stageable, Key
<1> QED
  BY <1>1, <1>3 DEF BuilderInv, Inputs, Caches, Waiting, Working, Ended, Restorable, Vouched, IsTree

\* The marker vouches for what dest/ holds: the tree is still the one the round
\* loaded, and nothing in dest/ is stale.
LEMMA KeepsCheckpoint ==
  ASSUME CleanRunner, BuilderInv, Checkpoint
  PROVE  BuilderInv'
<1>1. /\ pc = "checkpoint"
      /\ pc' = IF ~Ordered(loaded.recipe) THEN AfterPublish ELSE "publish"
      /\ marker' = IF Ordered(loaded.recipe) /\ Names(loaded.recipe) \cap Dirs(dest) # {}
                   THEN Stamp(dest, loaded.recipe, loaded.base) ELSE marker
      /\ UNCHANGED <<recipe, base, loaded, opts, resume, todo, at, ok, dest, release, root>>
  BY DEF Checkpoint, CleanRunner, BuilderInv, Inputs, inputs, plan
<1>2. CASE Refused
  <2>1. pc' = "end"
    BY <1>1, <1>2 DEF Refused, AfterPublish
  <2>2. \A p \in Pkgs : root[p] = Absent
    BY <1>2 DEF Refused, NoTree
  <2> QED
    BY <1>1, <2>1, <2>2 DEF BuilderInv, Inputs, Caches, Waiting, Working, Ended, Restorable, Vouched, IsTree
<1>3. CASE Going
  <2>1. pc' = "publish"
    BY <1>1, <1>3 DEF Going
  <2>2. Vouched(dest', marker')
    <3> SUFFICES ASSUME NEW p \in Pkgs, dest[p] # Absent
                 PROVE  marker'.keys[p] # {} /\ MadeFrom(dest[p], marker'.keys[p])
      BY <1>1 DEF Vouched
    <3>1. p \in Names(loaded.recipe) \cap Dirs(dest)
      BY <1>3 DEF Going, DestFresh, Dirs
    <3>2. marker' = Stamp(dest, loaded.recipe, loaded.base)
      BY <1>1, <1>3, <3>1 DEF Going
    <3>3. marker'.keys[p] = package_keys(loaded.recipe, loaded.base, p)
      BY <3>1, <3>2 DEF Stamp
    <3>4. package_keys(loaded.recipe, loaded.base, p) # {}
      BY DEF package_keys
    <3> QED
      BY <1>3, <3>3, <3>4 DEF Going, DestFresh, Key
  <2>3. Going'
    BY <1>1, <1>3 DEF Going, DestFresh, Staged, Planned, Stageable, Key
  <2> QED
    BY <1>1, <2>1, <2>2, <2>3
       DEF BuilderInv, Inputs, Caches, Waiting, Working, Ended, Restorable, Vouched, IsTree
<1> QED
  BY <1>1, <1>2, <1>3 DEF BuilderInv, Working

\* The release is replaced by what the marker vouches for, or is gone.
LEMMA KeepsPublish ==
  ASSUME CleanRunner, BuilderInv, Clobber \/ Upload
  PROVE  BuilderInv'
<1>0. \A p \in Pkgs : NoTree[p] = Absent
  BY DEF NoTree
<1>1. UNCHANGED <<recipe, base, loaded, opts, resume, todo, at, ok, dest, marker, root>>
  BY DEF Clobber, Upload, inputs, plan
<1>2. /\ pc \in {"publish", "upload"}
      /\ pc' \in {"upload", AfterPublish}
      /\ release' \in {NoRelease, release, [dest |-> dest, marker |-> marker]}
  BY DEF Clobber, Upload
<1>3. Going
  BY <1>2 DEF BuilderInv, Working, Refused
<1>4. Going'
  BY <1>1, <1>3 DEF Going, DestFresh, Staged, Planned, Stageable, Key
<1>5. Vouched(dest, marker)
  BY <1>2 DEF BuilderInv, Caches
<1>6. Vouched(release'.dest, release'.marker) /\ IsTree(release'.dest)
  BY <1>0, <1>2, <1>5 DEF BuilderInv, Caches, Inputs, Vouched, NoRelease, IsTree, NoTree
<1>7. \A p \in Pkgs : root[p] = Absent \/ Stageable(root[p], p)
  BY <1>3 DEF Going, Staged
<1>8. /\ pc' \in {"upload", "merge", "end"}
      /\ pc' = "merge" => ok /\ opts.upto = All
  BY <1>2 DEF AfterPublish
<1> QED
  BY <1>1, <1>2, <1>4, <1>5, <1>6, <1>7, <1>8
     DEF BuilderInv, Inputs, Caches, Waiting, Working, Ended, Restorable, Vouched, IsTree,
         Stageable, Key

\* What is shipped is dest/, or what was staged from it.
LEMMA KeepsMerge ==
  ASSUME CleanRunner, BuilderInv, Merge
  PROVE  BuilderInv'
<1>1. /\ pc = "merge" /\ pc' = "merged"
      /\ root' = [p \in Pkgs |-> IF dest[p] = Absent \/ <<p, recipe[p]>> \in BuildOnly
                                 THEN root[p] ELSE dest[p]]
      /\ UNCHANGED <<recipe, base, loaded, opts, resume, todo, at, ok, dest, marker, release>>
  BY DEF Merge, inputs, plan
<1>2. Going /\ ok /\ opts.upto = All /\ loaded.recipe \in Recipes
  BY <1>1 DEF BuilderInv, Inputs, Working, Refused
<1>3. todo = {} /\ Planned = Names(loaded.recipe)
  BY <1>2, PlanClosed DEF Going, Planned
<1>4. ASSUME NEW p \in Pkgs
      PROVE  IF p \in Names(loaded.recipe) THEN Stageable(root'[p], p) ELSE root'[p] = Absent
  <2>1. CASE p \in Names(loaded.recipe)
    BY <1>1, <1>2, <1>3, <2>1 DEF Going, Staged
  <2>2. CASE p \notin Names(loaded.recipe)
    BY <1>1, <1>2, <1>3, <2>2 DEF Going, Staged, DestFresh
  <2> QED BY <2>1, <2>2
<1>5. Ended'
  BY <1>1, <1>4 DEF Ended, Stageable, Key
<1> QED
  BY <1>1, <1>5 DEF BuilderInv, Inputs, Caches, Waiting, Working, Restorable, Vouched, IsTree

\* Every step keeps the invariant.
LEMMA BuilderNext == CleanRunner /\ BuilderInv /\ [Next]_vars => BuilderInv'
<1> SUFFICES ASSUME CleanRunner, BuilderInv, [Next]_vars PROVE BuilderInv'
  OBVIOUS
<1>1. CASE Lose \/ End
  BY <1>1, KeepsEnd DEF Lose, End
<1>2. CASE UNCHANGED vars
  BY <1>2 DEF vars, inputs, plan, BuilderInv, Inputs, Caches, Waiting, Working, Ended, Restorable, Vouched,
              IsTree, Going, Refused, DestFresh, Staged, Planned, Stageable, Key
<1>3. CASE \E r \in BOOLEAN, u \in Pkgs \cup {All} : PhaseIn(r, u)
  BY <1>3, KeepsPhaseIn
<1> QED
  BY <1>1, <1>2, <1>3, KeepsEdit, KeepsRefuse, KeepsStart, KeepsRestore, KeepsBegin, KeepsFinish,
     KeepsStop, KeepsCheckpoint, KeepsPublish, KeepsMerge DEF Next, Work

\* What may be staged is up to date, by the other definition of what p is built on.
LEMMA StageableUpToDate ==
  ASSUME loaded.recipe \in Recipes, NEW p \in Pkgs, NEW tree, Stageable(tree, p)
  PROVE  UpToDate(p, tree)
<1>1. Fresh(p) = Whole(Key(p)) /\ BuiltOn(p) = Closure(loaded.recipe, p)
  BY FreshKey, BuiltOnClosure DEF Key
<1>2. tree.from = Fresh(p).from
  BY <1>1 DEF Stageable, MadeFrom, Whole
<1>3. ASSUME BuiltOn(p) \subseteq Listed PROVE tree = Fresh(p)
  <2>1. Vetted(Key(p))
    <3>1. \A x \in Key(p) : x[1] \in Closure(loaded.recipe, p) \cup {0}
      BY DEF Key, package_keys
    <3> QED BY <1>1, <1>3, <3>1, BuilderAssumption DEF Vetted
  <2>2. p \in Listed
    BY <1>1, <1>3, ClosureLeast, NeededClosed
  <2>3. tree \in [state : {"partial", "tainted", "whole"}, from : {Key(p)}]
    BY DEF Stageable, MadeFrom
  <2>4. tree.state = "whole" /\ tree.from = Key(p)
    BY <2>1, <2>2, <2>3 DEF Stageable, MadeFrom
  <2> QED BY <1>1, <2>3, <2>4 DEF Whole
<1> QED
  BY <1>2, <1>3 DEF UpToDate

\* On a runner, nothing is ever staged for the packages built after it but a tree
\* of the current recipes and sysroot, restored or built; and where p and all it
\* is built on are listed, nothing but what a build from nothing would make
\* (cmd_build, package_keys).  For any set of listed packages.
THEOREM StagedIsFresh == CleanRunner => (Spec => []RootFresh)
<1> SUFFICES ASSUME CleanRunner PROVE Spec => []RootFresh
  OBVIOUS
<1>1. Init => BuilderInv
  BY BuilderInit
<1>2. BuilderInv /\ [Next]_vars => BuilderInv'
  BY BuilderNext
<1>3. BuilderInv => RootFresh
  <2> SUFFICES ASSUME BuilderInv, pc # "merged", NEW p \in Pkgs
               PROVE  root[p] = Absent \/ Stageable(root[p], p)
    BY StageableUpToDate DEF BuilderInv, Inputs, RootFresh
  <2>1. NoTree[p] = Absent
    BY DEF NoTree
  <2>2. CASE Going
    BY <2>2 DEF Going, Staged
  <2>3. CASE Refused
    BY <2>1, <2>3 DEF Refused
  <2>4. CASE pc \in {"idle", "chain", "end"}
    BY <2>1, <2>4 DEF BuilderInv, Waiting, Ended
  <2> QED
    BY <2>2, <2>3, <2>4 DEF BuilderInv, Inputs, Working
<1> QED
  BY <1>1, <1>2, <1>3, PTL DEF Spec

\* On a runner, the system that is shipped has of every package with a recipe such
\* a tree, merged from dest/ or, for a build-only one, as it was staged, and
\* nothing of a package without a recipe (cmd_merge).
THEOREM ShippedIsFresh == CleanRunner => (Spec => []SystemFresh)
<1> SUFFICES ASSUME CleanRunner PROVE Spec => []SystemFresh
  OBVIOUS
<1>1. Init => BuilderInv
  BY BuilderInit
<1>2. BuilderInv /\ [Next]_vars => BuilderInv'
  BY BuilderNext
<1>3. BuilderInv => SystemFresh
  <2> SUFFICES ASSUME BuilderInv, pc = "merged", NEW p \in Pkgs
               PROVE  IF p \in Names(loaded.recipe) THEN UpToDate(p, root[p]) ELSE root[p] = Absent
    BY DEF SystemFresh
  <2>1. IF p \in Names(loaded.recipe) THEN Stageable(root[p], p) ELSE root[p] = Absent
    BY DEF BuilderInv, Ended
  <2> QED
    BY <2>1, StageableUpToDate DEF BuilderInv, Inputs
<1> QED
  BY <1>1, <1>2, <1>3, PTL DEF Spec
=============================================================================
