---------------------------- MODULE MCModuleSort ----------------------------
(***************************************************************************)
(* Instances of ModuleSort for TLC.                                        *)
(***************************************************************************)
EXTENDS ModuleSort, SequencesExt

CONSTANTS K, L, M,    \* the modules
          X,          \* a module that was not found
          MaxFrom     \* bound on the FROM clauses of a module

(* A module may name the others, some of them twice, and one that was not  *)
(* found; it does not import from itself.                                  *)
Parsed(name) ==
  [name : {name}, from : BoundedSeq(ModuleNames \ {name}, MaxFrom)]

ThreeModules == {<<k, l, m>> : k \in Parsed(K), l \in Parsed(L), m \in Parsed(M)}

(* The file of K was parsed twice, before and after the others.            *)
ParsedTwice == {<<k, l, k, m>> : k \in Parsed(K), l \in Parsed(L), m \in Parsed(M)}

(* Two files have different modules called K.                              *)
TwoOfAName ==
  {<<k, l, k2, m>> : k, k2 \in Parsed(K), l \in Parsed(L),
                     m \in [name : {M}, from : {<<>>, <<K>>, <<L>>}]}

AllInputs == ThreeModules \cup ParsedTwice \cup TwoOfAName

=============================================================================
