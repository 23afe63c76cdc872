------------------------------ MODULE InOrder ------------------------------
(***************************************************************************)
(* The members of a finite set as the list in which a loop meets them.     *)
(***************************************************************************)
EXTENDS Naturals, FiniteSets

(* before is the set of the pairs <<x, y>> such that x is met before y.    *)
Earlier(S, before, x) == {y \in S : <<y, x>> \in before}

InOrder(S, before) ==
  [k \in 1 .. Cardinality(S) |->
     CHOOSE x \in S : Cardinality(Earlier(S, before, x)) = k - 1]

(* A loop over the positions of a list.                                    *)
Ascending(S) == InOrder(S, {p \in S \X S : p[1] < p[2]})

=============================================================================
