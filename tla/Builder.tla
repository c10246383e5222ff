------------------------------- MODULE Builder -------------------------------
(***************************************************************************)
(* The package driver (tools/veron: build --clean [--resume] [--upto],     *)
(* checkpoint, merge) and the two phases of stages/5-user-space/build.sh   *)
(* and of its workflow that run it: phase_in restores the build root and a *)
(* published checkpoint, phase_chain builds, the checkpoint is published,  *)
(* phase_merge ships.  A checkpoint is a cache: dest/ with one directory   *)
(* for each package, and a marker with the key of each.                    *)
(*                                                                         *)
(* What a directory holds is abstracted to whether its install ran to the  *)
(* end, whether it was built against packages of which one did not, and    *)
(* the inputs it was made from: the recipes of the package and of          *)
(* everything it was built against, and the sysroot.  SHA-256 is the       *)
(* identity on those inputs.  As package_keys assumes, a build reads only  *)
(* what its recipe declares.                                               *)
(***************************************************************************)
EXTENDS Integers, FiniteSets

CONSTANTS
  Pkgs,        \* Package names, numbered in their sorted order.
  Versions,    \* What a recipe (its inputs, files/ and patches/) may say.
  Needs,       \* Needs[p][v]: deps.build and deps.link of recipe v of p.
  Tree,        \* The recipes at first.
  Listed,      \* The packages with a committed installs.txt.
  BuildOnly,   \* <<p, v>>: recipe v of p says build_only.
  Bases,       \* Digests of the sysroot.
  Typos,       \* Whether --upto may name what has no recipe.
  Laptop,      \* TRUE: dest/ stays on the machine, and no gh is installed;
               \* FALSE: every round runs on a fresh runner.
  MaxEdits,    \* Bound on edits of recipes and of the sysroot.
  MaxFaults    \* Bound on failing steps, failing uploads and lost machines.

NoRecipe == 0
All == 0       \* --upto not given.

ASSUME BuilderAssumption ==
  /\ Pkgs \subseteq Nat \ {0} /\ IsFiniteSet(Pkgs)
  /\ Versions \subseteq Nat \ {NoRecipe}
  /\ Needs \in [Pkgs -> [Versions -> SUBSET Pkgs]]
  /\ Tree \in [Pkgs -> Versions \cup {NoRecipe}]
  /\ Listed \subseteq Pkgs /\ BuildOnly \subseteq Pkgs \X Versions
  /\ Bases \subseteq Nat \ {0} /\ Bases # {}
  /\ Laptop \in BOOLEAN /\ Typos \in BOOLEAN
  /\ MaxEdits \in Nat /\ MaxFaults \in Nat

VARIABLES
  recipe,      \* The recipes in the tree.
  base,        \* The sysroot stage 4 last published.
  loaded,      \* [recipe, base] as the running build read them.
  opts,        \* [resume, upto]: how the round was started.
  dest,        \* dest/: what each package's directory holds.
  marker,      \* dest/.veron-checkpoint.
  release,     \* The published dest.tar.zst: [dest, marker].
  root,        \* The build root: what of each package is staged in it.
  resume,      \* The packages the running build means to restore.
  todo,        \* The rest of its plan.
  at,          \* The package whose steps run.
  built,       \* Whether this round has finished a package.
  ok,          \* Whether its build succeeded.
  pc, edits, faults

inputs == <<recipe, base, edits>>
plan   == <<loaded, opts, resume, todo, at, built, ok>>
vars   == <<inputs, plan, dest, marker, release, root, pc, faults>>

Names(r) == {p \in Pkgs : r[p] # NoRecipe}

DepsOf(r, p) == IF r[p] = NoRecipe THEN {} ELSE Needs[p][r[p]]

(***************************************************************************)
(* Contents of directories and markers.                                    *)
(***************************************************************************)
Absent    == [state |-> "none", from |-> {}]
Whole(in) == [state |-> "whole", from |-> in]
NoTree    == [p \in Pkgs |-> Absent]
NoMarker  == [base |-> 0, keys |-> [p \in Pkgs |-> {}]]
NoRelease == [dest |-> NoTree, marker |-> NoMarker]

Dirs(d) == {p \in Pkgs : d[p] # Absent}

-----------------------------------------------------------------------------
(***************************************************************************)
(* topo_order: round after round, every package whose dependencies are     *)
(* done, sorted by name.  Round(r)[k] is what is done after k rounds.      *)
(***************************************************************************)
Round(r) ==
  LET done[k \in 0 .. Cardinality(Pkgs)] ==
        IF k = 0 THEN {}
        ELSE done[k - 1] \cup {p \in Names(r) : DepsOf(r, p) \subseteq done[k - 1]}
  IN  done

\* It dies on a dependency without a recipe and on a cycle.
Ordered(r) ==
  /\ \A p \in Names(r) : DepsOf(r, p) \subseteq Names(r)
  /\ Round(r)[Cardinality(Pkgs)] = Names(r)

\* --upto takes a prefix of the order.
Plan(r, upto) ==
  IF upto = All THEN Names(r)
  ELSE LET k == CHOOSE k \in 1 .. Cardinality(Pkgs) :
                  upto \in Round(r)[k] \ Round(r)[k - 1]
       IN  Round(r)[k - 1] \cup {p \in Round(r)[k] : p <= upto}

\* The next package of the plan: of the first round with any, the first by name.
Upcoming(r, ps) ==
  LET done  == Round(r)
      k     == CHOOSE k \in 1 .. Cardinality(Pkgs) :
                 done[k] \cap ps # {} /\ done[k - 1] \cap ps = {}
  IN  CHOOSE p \in done[k] \cap ps : \A q \in done[k] \cap ps : p <= q

First == Upcoming(loaded.recipe, todo)

(***************************************************************************)
(* package_keys: a package's own recipe, and through the keys of its       *)
(* dependencies everything it is built on, and the sysroot.                *)
(***************************************************************************)
Closure(r, p) ==
  LET up[k \in 0 .. Cardinality(Pkgs)] ==
        IF k = 0 THEN {p}
        ELSE up[k - 1] \cup UNION {DepsOf(r, q) : q \in up[k - 1]}
  IN  up[Cardinality(Pkgs)]

\* Mutant: the key forgets the keys of the dependencies.
PackageKeysOwn(r, b, p) == {<<p, r[p]>>, <<0, b>>}

package_keys(r, b, p) == {<<q, r[q]>> : q \in Closure(r, p)} \cup {<<0, b>>}

\* read_checkpoint and the reuse test: the key still matches, and the directory is there.
Reusable(m, d, r, b) ==
  {p \in Names(r) \cap Dirs(d) : m.keys[p] = package_keys(r, b, p)}

\* Mutant: a directory whose recipe is gone is not looked at.
DropStaleKnown(m, d, r, b) ==
  [p \in Pkgs |-> IF m.keys[p] # {} /\ p \in Names(r) \ Reusable(m, d, r, b)
                  THEN Absent ELSE d[p]]

\* Entries of the marker that are not reusable lose their directory.
DropStale(m, d, r, b) ==
  [p \in Pkgs |-> IF m.keys[p] # {} /\ p \notin Reusable(m, d, r, b)
                  THEN Absent ELSE d[p]]

\* cmd_checkpoint: every directory that has a recipe is recorded under the
\* key of the recipes as they are now.
Stamp(d, r, b) ==
  [base |-> b,
   keys |-> [p \in Pkgs |-> IF p \in Names(r) \cap Dirs(d)
                            THEN package_keys(r, b, p) ELSE {}]]

-----------------------------------------------------------------------------
Init ==
  /\ recipe = Tree /\ base \in Bases
  /\ loaded = [recipe |-> recipe, base |-> base]
  /\ opts = [resume |-> FALSE, upto |-> All]
  /\ dest = NoTree /\ marker = NoMarker /\ release = NoRelease /\ root = NoTree
  /\ resume = {} /\ todo = {} /\ at = 0 /\ built = FALSE /\ ok = FALSE
  /\ pc = "idle" /\ edits = 0 /\ faults = 0

\* A round ends, and with it the runner; a laptop keeps its dest/.
EndRound ==
  /\ pc' = "idle"
  /\ loaded' = [recipe |-> recipe, base |-> base]
  /\ root' = NoTree /\ resume' = {} /\ todo' = {} /\ at' = 0
  /\ built' = FALSE /\ ok' = FALSE
  /\ dest' = IF Laptop THEN dest ELSE NoTree
  /\ marker' = IF Laptop THEN marker ELSE NoMarker
  /\ UNCHANGED <<inputs, opts>>

(***************************************************************************)
(* A commit to the tree, or a new sysroot from stage 4.  A runner works on *)
(* its own checkout; on a laptop the tree is edited while a build runs.    *)
(***************************************************************************)
Edit ==
  /\ edits < MaxEdits
  /\ pc = "idle" \/ Laptop
  /\ edits' = edits + 1
  /\ \/ /\ \E p \in Pkgs, v \in Versions \cup {NoRecipe} :
             recipe' = [recipe EXCEPT ![p] = v]
        /\ UNCHANGED base
     \/ /\ pc = "idle"
        /\ base' \in Bases
        /\ UNCHANGED recipe
  /\ UNCHANGED <<plan, dest, marker, release, root, pc, faults>>

(***************************************************************************)
(* phase_in: a fresh sysroot, and with USE_CHECKPOINT the published        *)
(* checkpoint unless it was made on another sysroot.  Without gh dest/     *)
(* stays as it is.                                                         *)
(***************************************************************************)
PhaseIn(r, u) ==
  /\ pc = "idle"
  /\ Typos \/ u \in Names(recipe) \cup {All}
  /\ opts' = [resume |-> r, upto |-> u]
  /\ LET got == CASE Laptop -> [dest |-> dest, marker |-> marker]
                  [] ~Laptop /\ r /\ release.marker.base = base -> release
                  [] OTHER -> NoRelease
     IN  dest' = got.dest /\ marker' = got.marker
  /\ loaded' = [recipe |-> recipe, base |-> base]
  /\ pc' = "chain"
  /\ UNCHANGED <<inputs, release, root, resume, todo, at, built, ok, faults>>

(***************************************************************************)
(* The driver dies before it touches dest/: no order exists, --upto names  *)
(* nothing, or, the last line of defence, the marker was made on another   *)
(* sysroot.                                                                *)
(***************************************************************************)
Dies ==
  \/ ~Ordered(loaded.recipe)
  \/ opts.upto \notin Names(loaded.recipe) \cup {All}
  \/ opts.resume /\ marker # NoMarker /\ marker.base # loaded.base

Refuse ==
  /\ pc = "chain" /\ Dies
  /\ pc' = "checkpoint"
  /\ UNCHANGED <<inputs, plan, dest, marker, release, root, faults>>

(***************************************************************************)
(* The start of cmd_build.  --clean wipes dest/ with its marker unless     *)
(* --resume is given; --resume keeps what the marker vouches for.          *)
(***************************************************************************)
Start ==
  /\ pc = "chain" /\ ~Dies
  /\ todo' = Plan(loaded.recipe, opts.upto)
  /\ IF opts.resume
     THEN /\ resume' = Reusable(marker, dest, loaded.recipe, loaded.base)
          /\ dest' = DropStale(marker, dest, loaded.recipe, loaded.base)
          /\ UNCHANGED marker
     ELSE resume' = {} /\ dest' = NoTree /\ marker' = NoMarker
  /\ pc' = "next"
  /\ UNCHANGED <<inputs, loaded, opts, at, built, ok, release, root, faults>>

\* installed_paths against install_listing: a listed package must have every
\* path; one without a listing passes as it is.
NoneMissing(p) == p \in Listed => dest[p].state # "partial"

Accepted(p) == p \in resume /\ NoneMissing(p)

stage_into(p, tree) == root' = [root EXCEPT ![p] = tree]

\* A restored package is staged, not rebuilt.
Restore ==
  /\ pc = "next" /\ todo # {} /\ Accepted(First)
  /\ stage_into(First, dest[First])
  /\ todo' = todo \ {First}
  /\ UNCHANGED <<inputs, loaded, opts, resume, at, built, ok, dest, marker, release, pc, faults>>

\* What the steps of p make, from what stands in the build root.
Product(p) ==
  [state |-> IF \A q \in DepsOf(loaded.recipe, p) : root[q].state = "whole"
             THEN "whole" ELSE "tainted",
   from  |-> {<<p, loaded.recipe[p]>>, <<0, loaded.base>>}
             \cup UNION {root[q].from : q \in DepsOf(loaded.recipe, p)}]

\* Any other package starts from an empty directory and fills it.
Begin ==
  /\ pc = "next" /\ todo # {} /\ ~Accepted(First)
  /\ at' = First
  /\ dest' = [dest EXCEPT ![First] = [Product(First) EXCEPT !.state = "partial"]]
  /\ resume' = resume \ {First}
  /\ pc' = "steps"
  /\ UNCHANGED <<inputs, loaded, opts, todo, built, ok, marker, release, root, faults>>

\* Its last step ended well: it is staged for those built after it.
Finish ==
  /\ pc = "steps"
  /\ dest' = [dest EXCEPT ![at] = Product(at)]
  /\ stage_into(at, Product(at))
  /\ todo' = todo \ {at}
  /\ built' = TRUE
  /\ pc' = "next"
  /\ UNCHANGED <<inputs, loaded, opts, resume, at, ok, marker, release, faults>>

\* A step failed, timed out, or installed nothing: the tree stays as it is.
Fail ==
  /\ pc = "steps" /\ faults < MaxFaults
  /\ faults' = faults + 1
  /\ pc' = "checkpoint"
  /\ UNCHANGED <<inputs, plan, dest, marker, release, root>>

\* The round's time is up; the steps marked always() still run.
TimeOut ==
  /\ pc = "steps" /\ built /\ ~Laptop
  /\ pc' = "checkpoint"
  /\ UNCHANGED <<inputs, plan, dest, marker, release, root, faults>>

\* The machine is gone.  A laptop comes back with its dest/.
Lose ==
  /\ pc \notin {"idle", "merged", "end"} /\ faults < MaxFaults
  /\ faults' = faults + 1
  /\ EndRound
  /\ UNCHANGED release

Succeed ==
  /\ pc = "next" /\ todo = {}
  /\ ok' = TRUE
  /\ pc' = "checkpoint"
  /\ UNCHANGED <<inputs, loaded, opts, resume, todo, at, built, dest, marker, release, root, faults>>

\* After the chain, build done or not; a run with --upto has no system.
AfterPublish == IF ok /\ opts.upto = All THEN "merge" ELSE "end"

\* Mutant: only a build that succeeded is banked.
CheckpointSucceeded ==
  /\ pc = "checkpoint"
  /\ marker' = IF ok THEN Stamp(dest, recipe, loaded.base) ELSE marker
  /\ pc' = IF Laptop \/ ~ok THEN AfterPublish ELSE "publish"
  /\ UNCHANGED <<inputs, plan, dest, release, root, faults>>

\* It reads the tree again, and dies where topo_order does.
Checkpoint ==
  /\ pc = "checkpoint"
  /\ marker' = IF Ordered(recipe) /\ Names(recipe) \cap Dirs(dest) # {}
               THEN Stamp(dest, recipe, loaded.base) ELSE marker
  /\ pc' = IF Laptop \/ ~Ordered(recipe) THEN AfterPublish ELSE "publish"
  /\ UNCHANGED <<inputs, plan, dest, release, root, faults>>

\* gh release upload --clobber: the old asset goes first.
Clobber ==
  /\ pc = "publish"
  /\ release' = NoRelease
  /\ pc' = "upload"
  /\ UNCHANGED <<inputs, plan, dest, marker, root, faults>>

Upload ==
  /\ pc = "upload"
  /\ \/ release' = [dest |-> dest, marker |-> marker] /\ UNCHANGED faults
     \/ faults < MaxFaults /\ faults' = faults + 1 /\ UNCHANGED release
  /\ pc' = AfterPublish
  /\ UNCHANGED <<inputs, plan, dest, marker, root>>

\* cmd_merge: every directory of dest/, whether it is in the plan or not, but for
\* those that are build-only, which stay as they were staged.
Merge ==
  /\ pc = "merge"
  /\ root' = [p \in Pkgs |-> IF dest[p] = Absent \/ <<p, recipe[p]>> \in BuildOnly
                             THEN root[p] ELSE dest[p]]
  /\ pc' = "merged"
  /\ UNCHANGED <<inputs, plan, dest, marker, release, faults>>

End == pc \in {"end", "merged"} /\ EndRound /\ UNCHANGED <<release, faults>>

Work == \/ Refuse \/ Start \/ Restore \/ Begin \/ Finish \/ Succeed
        \/ Checkpoint \/ Clobber \/ Upload \/ Merge \/ End

Next == \/ Edit \/ Work \/ Fail \/ TimeOut \/ Lose
        \/ \E r \in BOOLEAN, u \in Pkgs \cup {All} : PhaseIn(r, u)

Spec == Init /\ [][Next]_vars

(***************************************************************************)
(* A dispatched round runs on, another is dispatched after it, and the     *)
(* time of a round is enough for a package.                                *)
(***************************************************************************)
FairSpec ==
  /\ Spec
  /\ WF_vars(Work)
  /\ WF_vars(\E r \in BOOLEAN, u \in Pkgs \cup {All} : PhaseIn(r, u))

-----------------------------------------------------------------------------
\* What p is built on, p included: whatever is in every set that holds p and
\* what its members need.
BuiltOn(p) ==
  LET closed == {S \in SUBSET Pkgs : p \in S /\ \A q \in S : DepsOf(loaded.recipe, q) \subseteq S}
  IN  {x \in Pkgs : \A S \in closed : x \in S}

\* What a build of p from nothing would make of the loaded recipes.
Fresh(p) == Whole({<<q, loaded.recipe[q]>> : q \in BuiltOn(p)} \cup {<<0, loaded.base>>})

\* A tree of p is made from the current inputs and no other; when p and all it is
\* built on have a committed listing, it is what a build from nothing would make.
UpToDate(p, tree) ==
  /\ tree.from = Fresh(p).from
  /\ BuiltOn(p) \subseteq Listed => tree = Fresh(p)

Contents == [state : {"none", "partial", "tainted", "whole"},
             from : SUBSET ((Pkgs \X (Versions \cup {NoRecipe})) \cup ({0} \X Bases))]

TypeOK ==
  /\ recipe \in [Pkgs -> Versions \cup {NoRecipe}] /\ base \in Bases
  /\ \A p \in Pkgs : dest[p] \in Contents /\ root[p] \in Contents
  /\ resume \subseteq Pkgs /\ todo \subseteq Pkgs /\ at \in Pkgs \cup {0}
  /\ pc \in {"idle", "chain", "next", "steps", "checkpoint", "publish", "upload",
             "merge", "merged", "end"}

\* Nothing is ever staged for the packages built after it but a tree of these
\* recipes and this sysroot, whether it was built in this round or restored, and
\* where the listings are committed nothing but what a build from nothing would
\* make: a partial or tainted tree comes only from a package without a listing,
\* or one built on such (package_keys, cmd_build's resume block).
RootFresh ==
  pc # "merged" => \A p \in Pkgs : root[p] = Absent \/ UpToDate(p, root[p])

\* What is shipped is such a tree of every package that has a recipe, and nothing
\* of one that no longer has one (cmd_merge takes whatever dest/ holds).
SystemFresh ==
  pc = "merged" => \A p \in Pkgs :
    IF p \in Names(loaded.recipe) THEN UpToDate(p, root[p]) ELSE root[p] = Absent

\* "a broken cache entry, which is the thing worth catching" (installed_paths):
\* no restored tree lacks what its install would have made, listed or not.
RestoredWhole == \A p \in Pkgs : root[p].state # "partial"

\* Rounds that end before they are done, as long as each finishes one package,
\* ship in the end once every round resumes the one before (the relay).
RelayShips ==
  <>[](Ordered(recipe) /\ opts = [resume |-> TRUE, upto |-> All])
    => []<>(pc = "merged")
=============================================================================
