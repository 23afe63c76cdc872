----------------------------- MODULE MCCompiler -----------------------------
(***************************************************************************)
(* Instances of Compiler for TLC: what it may be started in.               *)
(***************************************************************************)
EXTENDS Compiler

CONSTANTS M, N,        \* modules, each in a file of its own
          Dot, Inc,    \* "." and another directory
          Bare,        \* no directory
          T, V         \* types

AllPlaces == {Dot, Inc}
AllNames == {M, N}
AllTypes == {T, V}

Clauses1(from) == {<<>>, <<[from |-> from, symbols |-> {T}]>>}

ModuleOf(m, clauses) ==
  [name |-> m, types |-> {T}, skipped |-> {}, clauses |-> clauses]

(* M imports from N nothing, its type, the type in two clauses, or what N  *)
(* does not have; or the file has a second M that imports from N, and N    *)
(* may import from M.                                                      *)
FilesOfM ==
  {<<[name |-> M, types |-> {T, V}, skipped |-> {T}, clauses |-> <<>>],
     ModuleOf(M, <<[from |-> N, symbols |-> {T}]>>)>>} \cup
  {<<ModuleOf(M, c)>> :
     c \in Clauses1(N) \cup
           {<<[from |-> N, symbols |-> {T}], [from |-> N, symbols |-> {}]>>,
            <<[from |-> N, symbols |-> {V}]>>}}

(* N may import from M or have a type without code; its file may have a    *)
(* second module, also called M, with other types.                         *)
FilesOfN ==
  {<<ModuleOf(N, c)>> : c \in Clauses1(M)} \cup
  {<<[name |-> N, types |-> {T, V}, skipped |-> {V}, clauses |-> <<>>]>>,
   <<ModuleOf(N, <<>>),
     [name |-> M, types |-> {T, V}, skipped |-> {T}, clauses |-> <<>>]>>}

(* Where a file is: at the current directory it has two spellings.         *)
Spellings == {{Bare, Dot}, {Inc}}

AllWorlds ==
  {[lang |-> l, extras |-> x, input |-> <<i, M>>, includes |-> inc,
    files |-> [p \in (pm \X {M}) \cup (pn \X {N}) |-> IF p[2] = M THEN fm ELSE fn],
    broken |-> {}] :
     l \in Lang, x \in SUBSET {"json", "schema"}, i \in {Bare, Inc},
     inc \in {<<>>, <<Dot>>, <<Inc, Dot>>},
     pm \in Spellings, pn \in Spellings \cup {{}, {Bare, Dot, Inc}},
     fm \in FilesOfM, fn \in FilesOfN}

(* Without --json and --schema, with N's file broken wherever it is.       *)
BrokenWorlds ==
  {[w EXCEPT !.files = [p \in {p \in DOMAIN w.files : p[2] = M} |-> w.files[p]],
             !.broken = {p \in DOMAIN w.files : p[2] = N}] :
     w \in {w \in AllWorlds : w.extras = {}}}

Started == AllWorlds \cup BrokenWorlds

=============================================================================
