------------------------------ MODULE MCBuilder ------------------------------
(***************************************************************************)
(* Three packages: 2 is built on 1, or in its second recipe on 3; 3 is     *)
(* built on 2 or on nothing.  So an edit moves a dependency to a package   *)
(* later in the alphabet, removes one, or makes a cycle.                   *)
(***************************************************************************)
EXTENDS Builder

MCNeeds == [p \in 1 .. 3 |->
             CASE p = 1 -> [v \in 1 .. 2 |-> {}]
               [] p = 2 -> [v \in 1 .. 2 |-> IF v = 1 THEN {1} ELSE {3}]
               [] p = 3 -> [v \in 1 .. 2 |-> IF v = 1 THEN {2} ELSE {}]]

\* Package 1 is a bootstrap rung.
MCBuildOnly == {<<1, 1>>}

MCTree == [p \in 1 .. 3 |-> 1]
=============================================================================
