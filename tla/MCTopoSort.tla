----------------------------- MODULE MCTopoSort -----------------------------
(***************************************************************************)
(* Instances of TopoSort for TLC: the schemas it sorts.                    *)
(***************************************************************************)
EXTENDS TopoSort

CONSTANTS A, B, C, D,
          MaxUses      \* bound on the number of references in FourTypes

(* One assignment for each of four types, and every way they can refer to  *)
(* each other with at most MaxUses references.  Renaming types permutes    *)
(* the schema order, so fixing the order of the names loses nothing.       *)
FourTypes ==
  LET Body(n) == [name : {n}, local : SUBSET ({A, B, C, D} \ {n}),
                  foreign : {{}}]
  IN  {s \in {<<w, x, y, z>> : w \in Body(A), x \in Body(B), y \in Body(C),
                               z \in Body(D)} :
         Cardinality({<<i, u>> \in (1 .. 4) \X Names : u \in s[i].local})
           <= MaxUses}

(* The same name assigned more than once, and schemas of up to three       *)
(* assignments, the empty one included.                                    *)
Doubled ==
  LET Bodies == [name : {A, B}, local : SUBSET {A, B}, foreign : {{}}]
  IN  UNION {[1 .. k -> Bodies] : k \in 0 .. 3}

AllSchemas == FourTypes \cup Doubled

=============================================================================
