------------------------------ MODULE TopoSort ------------------------------
(***************************************************************************)
(* topoSortAssignments (CompilerMain.cpp): the order in which the types of *)
(* one module are emitted.  Kahn's algorithm over hash maps keyed by the   *)
(* name of an assignment, a priority queue on the position in the schema,  *)
(* and an append loop for whatever the queue never released.               *)
(*                                                                         *)
(* The loops that fill and drain the maps take one action per iteration,   *)
(* because std::unordered_map visits its entries in no particular order.   *)
(***************************************************************************)
EXTENDS Naturals, Sequences, FiniteSets

CONSTANTS Names,     \* type names that may occur in the schema
          Schemas    \* the assignment lists the sort may be given

(* An assignment: its name, the names of this module's types its body      *)
(* refers to, and the names of other modules' types it refers to.          *)
Assignment == [name : Names, local : SUBSET Names, foreign : SUBSET Names]

ASSUME NamesFinite == IsFiniteSet(Names)
ASSUME SchemasAssumption == Schemas \subseteq Seq(Assignment)

VARIABLES assignments,  \* the argument of the call; never changes
          depMap,       \* name -> names it uses, collected before the sort
          phase,        \* "count", "emit", "append", "done"
          counted,      \* entries <<user, used>> of depMap already counted
          inDegree,
          dependents,
          pq,
          result,       \* positions in assignments, in emission order
          emitted,      \* names in result when the append loop starts
          cursor        \* position of the append loop

vars == <<assignments, depMap, phase, counted, inDegree, dependents, pq,
          result, emitted, cursor>>

input == <<assignments, depMap>>

-----------------------------------------------------------------------------
(* The maps built from the argument.                                       *)

NameAt(i) == assignments[i].name

Known == {NameAt(i) : i \in DOMAIN assignments}

(* nameToNode and originalOrder: a later assignment of the same name       *)
(* overwrites the entry of an earlier one.                                 *)
LastOf(n) ==
  CHOOSE i \in DOMAIN assignments :
    /\ NameAt(i) = n
    /\ \A j \in DOMAIN assignments : NameAt(j) = n => j <= i

(* collect() takes the part of a resolved name after the last dot, so a    *)
(* type of another module counts as the type of the same name in this one. *)
UsedBy(n) ==
  {u \in Known \ {n} : \E i \in DOMAIN assignments :
      NameAt(i) = n /\ u \in assignments[i].local \cup assignments[i].foreign}

DepEdges == {e \in Known \X Known : e[2] \in depMap[e[1]]}

Placed == {NameAt(result[k]) : k \in DOMAIN result}

-----------------------------------------------------------------------------

Init ==
  /\ assignments \in Schemas
  /\ depMap = [n \in Known |-> UsedBy(n)]
  /\ phase = "count"
  /\ counted = {}
  /\ inDegree = [n \in Known |-> 0]
  /\ dependents = [n \in Known |-> {}]
  /\ pq = {}
  /\ result = <<>>
  /\ emitted = {}
  /\ cursor = 1

(* One entry of depMap.  Both maps are unordered: any uncounted entry may  *)
(* be next.  Each entry occurs once, so dependents[u] has no duplicates.   *)
CountUse(n, u) ==
  /\ phase = "count"
  /\ <<n, u>> \in DepEdges \ counted
  /\ counted' = counted \cup {<<n, u>>}
  /\ inDegree' = [inDegree EXCEPT ![n] = @ + 1]
  /\ dependents' = [dependents EXCEPT ![u] = @ \cup {n}]
  /\ UNCHANGED <<input, phase, pq, result, emitted, cursor>>

SeedQueue ==
  /\ phase = "count"
  /\ counted = DepEdges
  /\ pq' = {n \in Known : inDegree[n] = 0}
  /\ phase' = "emit"
  /\ UNCHANGED <<input, counted, inDegree, dependents, result, emitted,
                 cursor>>

(* Fault: the queue is a max-heap, the default of std::priority_queue.     *)
IsTopLargest(n) == n \in pq /\ \A m \in pq : LastOf(n) >= LastOf(m)

(* The entry of pq with the smallest original position.                    *)
IsTop(n) == n \in pq /\ \A m \in pq : LastOf(n) <= LastOf(m)

(* Fault: inDegree[m]-- == 0, which tests the degree before it drops.      *)
PopAndReleaseLate(n) ==
  /\ phase = "emit"
  /\ IsTop(n)
  /\ result' = Append(result, LastOf(n))
  /\ inDegree' = [m \in Known |->
       IF m \in dependents[n] THEN inDegree[m] - 1 ELSE inDegree[m]]
  /\ pq' = (pq \ {n}) \cup {m \in dependents[n] : inDegree[m] = 0}
  /\ UNCHANGED <<input, phase, counted, dependents, emitted, cursor>>

(* One round of the emission loop, with the inner loop over dependents.    *)
PopAndRelease(n) ==
  /\ phase = "emit"
  /\ IsTop(n)
  /\ result' = Append(result, LastOf(n))
  /\ inDegree' = [m \in Known |->
       IF m \in dependents[n] THEN inDegree[m] - 1 ELSE inDegree[m]]
  /\ pq' = (pq \ {n}) \cup {m \in dependents[n] : inDegree[m] = 1}
  /\ UNCHANGED <<input, phase, counted, dependents, emitted, cursor>>

(* Fault: the append loop is missing.                                      *)
QueueDrainedForgets ==
  /\ phase = "emit"
  /\ pq = {}
  /\ emitted' = Placed
  /\ phase' = "done"
  /\ UNCHANGED <<input, counted, inDegree, dependents, pq, result, cursor>>

(* The queue is empty.  The append loop runs only if result is short.      *)
QueueDrained ==
  /\ phase = "emit"
  /\ pq = {}
  /\ emitted' = Placed
  /\ phase' = IF Len(result) < Len(assignments) THEN "append" ELSE "done"
  /\ UNCHANGED <<input, counted, inDegree, dependents, pq, result,
                 cursor>>

(* Fault: the append loop does not look at emitted.                        *)
AppendRestAll ==
  /\ phase = "append"
  /\ cursor \in DOMAIN assignments
  /\ result' = Append(result, cursor)
  /\ cursor' = cursor + 1
  /\ phase' = IF cursor = Len(assignments) THEN "done" ELSE "append"
  /\ UNCHANGED <<input, counted, inDegree, dependents, pq, emitted>>

(* One round of the append loop; emitted is not updated by it.             *)
AppendRest ==
  /\ phase = "append"
  /\ cursor \in DOMAIN assignments
  /\ result' = IF NameAt(cursor) \in emitted THEN result
                                             ELSE Append(result, cursor)
  /\ cursor' = cursor + 1
  /\ phase' = IF cursor = Len(assignments) THEN "done" ELSE "append"
  /\ UNCHANGED <<input, counted, inDegree, dependents, pq, emitted>>

Next ==
  \/ \E n, u \in Known : CountUse(n, u)
  \/ SeedQueue
  \/ \E n \in Known : PopAndRelease(n)
  \/ QueueDrained
  \/ AppendRest

Spec == Init /\ [][Next]_vars

-----------------------------------------------------------------------------

TypeOK ==
  /\ assignments \in Seq(Assignment)
  /\ depMap \in [Known -> SUBSET Known]
  /\ phase \in {"count", "emit", "append", "done"}
  /\ counted \subseteq DepEdges
  /\ inDegree \in [Known -> Nat]
  /\ dependents \in [Known -> SUBSET Known]
  /\ pq \subseteq Known
  /\ result \in Seq(DOMAIN assignments)
  /\ emitted \subseteq Known
  /\ cursor \in 1 .. Len(assignments) + 1

(* While types are emitted, the degree of a type is the number of types it *)
(* uses that are not emitted yet, and dependents inverts the uses: the     *)
(* decrements of the emission loop never drift from what is really left.   *)
DegreeCountsUnplaced ==
  phase = "emit" =>
    \A n \in Known :
      /\ inDegree[n] = Cardinality(depMap[n] \ Placed)
      /\ dependents[n] = {m \in Known : n \in depMap[m]}

(* The queue holds exactly the types whose uses are all emitted: none is   *)
(* queued early, forgotten, or queued again after it was emitted.          *)
QueueIsReady ==
  phase = "emit" =>
    pq = {n \in Known \ Placed : depMap[n] \subseteq Placed}

(* A type the queue released comes after every type it uses.               *)
ReleasedAfterUses ==
  \A k \in DOMAIN result :
    \/ phase \in {"append", "done"} /\ NameAt(result[k]) \notin emitted
    \/ \A u \in depMap[NameAt(result[k])] :
         \E j \in 1 .. k - 1 : NameAt(result[j]) = u

(* No name is lost.  A name is emitted once, by its last assignment, unless*)
(* it was stranded, and then every assignment of it is emitted.            *)
NothingLost ==
  phase = "done" =>
    \A i \in DOMAIN assignments :
      Cardinality({k \in DOMAIN result : result[k] = i}) =
        IF NameAt(i) \in emitted /\ i # LastOf(NameAt(i)) THEN 0 ELSE 1

(* Only types stuck behind a cycle are ever stranded, and all of these     *)
(* are: those of every set in which each type uses one of the set, so that *)
(* following uses from it never ends.                                      *)
StrandedReachCycle ==
  phase = "done" =>
    Known \ emitted =
      UNION {S \in SUBSET Known : \A n \in S : depMap[n] \cap S # {}}

(* Whatever order the hash maps are visited in, each released type is the  *)
(* first, in schema order, of those that could come next: the order of the *)
(* output is a function of the schema ("output is deterministic").         *)
FirstReadyInSchemaOrder ==
  [][Len(result') > Len(result) /\ phase = "emit" =>
       \A m \in Known \ Placed :
         depMap[m] \subseteq Placed => result'[Len(result')] <= LastOf(m)]_vars

-----------------------------------------------------------------------------
(* The abstract specification, over names.                                 *)

Stranded == IF phase \in {"append", "done"} THEN Known \ emitted ELSE {}

Order == INSTANCE DependencyOrder WITH
           Items <- Names,
           uses <- depMap,
           order <- [k \in DOMAIN result |-> NameAt(result[k])],
           stranded <- Stranded

OrderSpec == Order!Spec

=============================================================================
