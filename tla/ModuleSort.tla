----------------------------- MODULE ModuleSort -----------------------------
(***************************************************************************)
(* topoSortModules (CompilerMain.cpp): the order in which the modules of   *)
(* a compilation are emitted.  Kahn's algorithm with a first-in-first-out  *)
(* queue over positions in the list of parsed modules.  A module that has  *)
(* several FROM clauses for one other module counts it several times.      *)
(***************************************************************************)
EXTENDS Naturals, Sequences, FiniteSets, InOrder

CONSTANTS ModuleNames,
          Inputs       \* the module lists the sort may be given

(* A parsed module: its name and the name in each of its FROM clauses.     *)
Module == [name : ModuleNames, from : Seq(ModuleNames)]

ASSUME InputsAssumption == Inputs \subseteq Seq(Module)

VARIABLES modules,    \* the argument of the call; never changes
          phase,      \* "emit", "append", "done"
          inDegree,
          q,
          result,     \* positions in modules, in emission order
          emitted,    \* names in result when the append loop starts
          cursor      \* position of the append loop

vars == <<modules, phase, inDegree, q, result, emitted, cursor>>

Indices == DOMAIN modules

(* nameToIdx: the last module of that name.                                *)
IsIndexOf(j, name) ==
  /\ modules[j].name = name
  /\ \A k \in Indices : modules[k].name = name => k <= j

(* The FROM clauses of module i that put it into dependents[j].            *)
Clauses(i, j) ==
  {c \in DOMAIN modules[i].from : i # j /\ IsIndexOf(j, modules[i].from[c])}

Imports == [i \in Indices |-> {j \in Indices : Clauses(i, j) # {}}]

ImportsOf(i) == {modules[i].from[c] : c \in DOMAIN modules[i].from}

Placed == {result[k] : k \in DOMAIN result}

-----------------------------------------------------------------------------

Init ==
  /\ modules \in Inputs
  /\ phase = "emit"
  /\ inDegree = [i \in Indices |->
                   Cardinality(UNION {Clauses(i, j) : j \in Indices})]
  /\ q = Ascending({i \in Indices : Imports[i] = {}})
  /\ result = <<>>
  /\ emitted = {}
  /\ cursor = 1

(* Fault: a module is queued when one of its imports is emitted.           *)
PopModuleEarly ==
  /\ phase = "emit"
  /\ q # <<>>
  /\ LET idx == Head(q)
         left(i) == inDegree[i] - Cardinality(Clauses(i, idx))
     IN  /\ result' = Append(result, idx)
         /\ inDegree' = [i \in Indices |-> left(i)]
         /\ q' = Tail(q) \o Ascending({i \in Indices : idx \in Imports[i]})
  /\ UNCHANGED <<modules, phase, emitted, cursor>>

(* Fault: the degree drops by all the clauses of a module, whichever module*)
(* they name.                                                              *)
PopModuleAllClauses ==
  /\ phase = "emit"
  /\ q # <<>>
  /\ LET idx == Head(q)
         left(i) == IF idx \in Imports[i]
                      THEN inDegree[i] - Len(modules[i].from) ELSE inDegree[i]
     IN  /\ result' = Append(result, idx)
         /\ inDegree' = [i \in Indices |-> left(i)]
         /\ q' = Tail(q) \o Ascending({i \in Indices : idx \in Imports[i]
                                                       /\ left(i) = 0})
  /\ UNCHANGED <<modules, phase, emitted, cursor>>

(* dependents[idx] lists modules by position, all clauses of one together, *)
(* so those whose degree drops to zero are queued by position.             *)
PopModule ==
  /\ phase = "emit"
  /\ q # <<>>
  /\ LET idx == Head(q)
         left(i) == inDegree[i] - Cardinality(Clauses(i, idx))
     IN  /\ result' = Append(result, idx)
         /\ inDegree' = [i \in Indices |-> left(i)]
         /\ q' = Tail(q) \o Ascending({i \in Indices : idx \in Imports[i]
                                                       /\ left(i) = 0})
  /\ UNCHANGED <<modules, phase, emitted, cursor>>

QueueDrained ==
  /\ phase = "emit"
  /\ q = <<>>
  /\ emitted' = {modules[i].name : i \in Placed}
  /\ phase' = IF Len(result) < Len(modules) THEN "append" ELSE "done"
  /\ UNCHANGED <<modules, inDegree, q, result, cursor>>

(* Fault: the append loop does not look at emitted.                        *)
AppendRestAll ==
  /\ phase = "append"
  /\ result' = Append(result, cursor)
  /\ cursor' = cursor + 1
  /\ phase' = IF cursor = Len(modules) THEN "done" ELSE "append"
  /\ UNCHANGED <<modules, inDegree, q, emitted>>

AppendRest ==
  /\ phase = "append"
  /\ result' = IF modules[cursor].name \in emitted THEN result
                                                   ELSE Append(result, cursor)
  /\ cursor' = cursor + 1
  /\ phase' = IF cursor = Len(modules) THEN "done" ELSE "append"
  /\ UNCHANGED <<modules, inDegree, q, emitted>>

Next == PopModule \/ QueueDrained \/ AppendRest

Spec == Init /\ [][Next]_vars

-----------------------------------------------------------------------------

TypeOK ==
  /\ modules \in Seq(Module)
  /\ phase \in {"emit", "append", "done"}
  /\ inDegree \in [Indices -> Nat]
  /\ q \in Seq(Indices)
  /\ result \in Seq(Indices)
  /\ emitted \subseteq ModuleNames
  /\ cursor \in 1 .. Len(modules) + 1

(* Every parsed module is emitted, once, although the append loop compares *)
(* names: a file reached along two paths is parsed twice, and both copies  *)
(* are released or stranded together.  A module gives way only to another  *)
(* of its name that imports from other modules than it does.               *)
EveryModuleOnce ==
  phase = "done" =>
    /\ \A j, k \in DOMAIN result : result[j] = result[k] => j = k
    /\ \A i \in Indices \ Placed :
         \E j \in Placed :
           modules[j].name = modules[i].name /\ ImportsOf(j) # ImportsOf(i)

(* However many FROM clauses name one module, a module is released exactly *)
(* when all its imports have been, and the rest is appended at the end.    *)
Released == {i \in Placed : modules[i].name \in emitted}

Stranded == IF phase \in {"append", "done"} THEN Indices \ Released ELSE {}

Order == INSTANCE DependencyOrder WITH
           Items <- Nat,
           uses <- Imports,
           order <- result,
           stranded <- Stranded

OrderSpec == Order!Spec

=============================================================================
