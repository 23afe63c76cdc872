-------------------------- MODULE TopoSort_proofs --------------------------
(***************************************************************************)
(* Proofs about TopoSort, for every set of schemas.                        *)
(***************************************************************************)
EXTENDS TopoSort, FiniteSetTheorems, WellFoundedInduction, TLAPS

-----------------------------------------------------------------------------
(* Lemmas about the maps keyed by name.                                    *)

LEMMA MaxExists ==
  ASSUME NEW S \in SUBSET Nat, IsFiniteSet(S), S # {}
  PROVE  \E m \in S : \A s \in S : s <= m
<1> DEFINE HasMax(U) == \E m \in U : \A s \in U : s <= m
           Bad == {U \in SUBSET S : U # {} /\ ~ HasMax(U)}
<1>1. SUFFICES ASSUME Bad # {} PROVE FALSE
  OBVIOUS
<1>2. Bad \subseteq FiniteSubsetsOf(S)
  BY FS_FiniteSubsetsOfFinite
<1>3. PICK U \in Bad : \A V \in Bad : ~ (<<V, U>> \in StrictSubsetOrdering(S))
  <2> HIDE DEF Bad
  <2> QED
    BY <1>1, <1>2, WFMin, FS_StrictSubsetOrderingWellFounded
<1>4. PICK x \in U : TRUE
  BY <1>3
<1>5. CASE U \ {x} = {}
  <2>1. U = {x}
    BY <1>4, <1>5
  <2> QED
    BY <1>3, <2>1
<1>6. CASE U \ {x} # {}
  <2>1. HasMax(U \ {x})
    <3>1. <<U \ {x}, U>> \in StrictSubsetOrdering(S)
      BY <1>3, <1>4 DEF StrictSubsetOrdering
    <3>2. U \ {x} \notin Bad
      BY <1>3, <3>1
    <3> QED
      BY <1>3, <1>6, <3>2
  <2>2. PICK m \in U \ {x} : \A s \in U \ {x} : s <= m
    BY <2>1
  <2>3. m \in Nat /\ x \in Nat
    BY <1>3, <1>4, <2>2
  <2>4. HasMax(U)
    <3>1. CASE x <= m
      BY <2>2, <2>3, <3>1
    <3>2. CASE m <= x
      <4>1. \A s \in U : s <= x
        BY <1>3, <2>2, <2>3, <3>2
      <4> QED
        BY <1>4, <4>1
    <3> QED
      BY <2>3, <3>1, <3>2
  <2> QED
    BY <1>3, <2>4
<1> QED
  BY <1>5, <1>6

(* nameToNode and originalOrder have an entry for every assigned name, and *)
(* it points to an assignment of that name.                                *)
LEMMA LastOfName ==
  ASSUME assignments \in Seq(Assignment), NEW n \in Known
  PROVE  /\ LastOf(n) \in DOMAIN assignments
         /\ NameAt(LastOf(n)) = n
<1> DEFINE S == {i \in DOMAIN assignments : NameAt(i) = n}
<1>1. DOMAIN assignments = 1 .. Len(assignments) /\ Len(assignments) \in Nat
  OBVIOUS
<1>2. S \in SUBSET Nat /\ IsFiniteSet(S) /\ S # {}
  <2>1. S \subseteq 1 .. Len(assignments) /\ S # {}
    BY <1>1 DEF Known
  <2>2. IsFiniteSet(1 .. Len(assignments))
    BY <1>1, FS_Interval
  <2> QED
    BY <2>1, <2>2, FS_Subset
<1>3. \E m \in S : \A s \in S : s <= m
  <2> HIDE DEF S
  <2> QED
    BY <1>2, MaxExists
<1>4. \E i \in DOMAIN assignments :
        NameAt(i) = n /\ \A j \in DOMAIN assignments : NameAt(j) = n => j <= i
  BY <1>3
<1> QED
  BY <1>4 DEF LastOf

LEMMA KnownFinite ==
  ASSUME assignments \in Seq(Assignment)
  PROVE  Known \subseteq Names /\ IsFiniteSet(Known)
<1>1. \A i \in DOMAIN assignments : assignments[i] \in Assignment
  OBVIOUS
<1>2. Known \subseteq Names
  BY <1>1 DEF Known, NameAt, Assignment
<1> QED
  BY <1>2, NamesFinite, FS_Subset

LEMMA KnownSubsetFinite ==
  ASSUME assignments \in Seq(Assignment), NEW S \in SUBSET Known
  PROVE  IsFiniteSet(S) /\ Cardinality(S) \in Nat
BY KnownFinite, FS_Subset, FS_CardinalityType

-----------------------------------------------------------------------------
(* The inductive invariant.  While uses are counted, the degrees and the   *)
(* inverse map agree with what has been counted so far; while types are    *)
(* emitted, with what has not been emitted yet.                            *)

CountingAgrees ==
  phase = "count" =>
    /\ result = <<>>
    /\ pq = {}
    /\ \A n \in Known :
         /\ inDegree[n] = Cardinality({u \in Known : <<n, u>> \in counted})
         /\ dependents[n] = {m \in Known : <<m, n>> \in counted}

NoSelfUse == \A n \in Known : n \notin depMap[n]

IInv ==
  /\ TypeOK
  /\ NoSelfUse
  /\ CountingAgrees
  /\ DegreeCountsUnplaced
  /\ QueueIsReady
  /\ ReleasedAfterUses

LEMMA PlacedKnown ==
  ASSUME TypeOK
  PROVE  Placed \subseteq Known
BY DEF TypeOK, Placed, Known

LEMMA InitIInv == Init => IInv
<1> SUFFICES ASSUME Init
             PROVE  IInv
  OBVIOUS
<1>1. assignments \in Seq(Assignment)
  BY SchemasAssumption DEF Init
<1>2. depMap \in [Known -> SUBSET Known] /\ NoSelfUse
  BY DEF Init, UsedBy, NoSelfUse
<1>3. TypeOK
  BY <1>1, <1>2 DEF Init, TypeOK
<1>4. CountingAgrees
  <2>1. \A n \in Known : {u \in Known : <<n, u>> \in counted} = {}
    BY DEF Init
  <2> QED
    BY <2>1, FS_EmptySet DEF Init, CountingAgrees
<1> QED
  BY <1>2, <1>3, <1>4
     DEF Init, IInv, DegreeCountsUnplaced, QueueIsReady, ReleasedAfterUses

LEMMA CountUseIInv ==
  ASSUME IInv, NEW n \in Known, NEW u \in Known, CountUse(n, u)
  PROVE  IInv'
<1> USE DEF IInv
<1>1. /\ phase = "count" /\ phase' = "count"
      /\ <<n, u>> \in DepEdges /\ <<n, u>> \notin counted
      /\ counted' = counted \cup {<<n, u>>}
      /\ inDegree' = [inDegree EXCEPT ![n] = @ + 1]
      /\ dependents' = [dependents EXCEPT ![u] = @ \cup {n}]
      /\ Known' = Known /\ DepEdges' = DepEdges
      /\ UNCHANGED <<assignments, depMap, pq, result, emitted, cursor>>
  BY DEF CountUse, input, Known, NameAt, DepEdges
<1>2. TypeOK'
  <2>1. inDegree' \in [Known -> Nat] /\ dependents' \in [Known -> SUBSET Known]
    BY <1>1 DEF TypeOK
  <2>2. counted' \subseteq DepEdges
    BY <1>1 DEF TypeOK
  <2> QED
    BY <1>1, <2>1, <2>2 DEF TypeOK
<1>3. NoSelfUse'
  BY <1>1 DEF NoSelfUse
<1>4. CountingAgrees'
  <2>1. ASSUME NEW m \in Known
        PROVE  inDegree'[m] =
                 Cardinality({v \in Known : <<m, v>> \in counted'})
    <3> DEFINE Counted(m0) == {v \in Known : <<m0, v>> \in counted}
    <3>1. IsFiniteSet(Counted(m)) /\ inDegree[m] = Cardinality(Counted(m))
      <4>1. Counted(m) \in SUBSET Known
        OBVIOUS
      <4>2. inDegree[m] = Cardinality(Counted(m))
        BY <1>1 DEF CountingAgrees
      <4> QED
        BY <4>1, <4>2, KnownSubsetFinite DEF TypeOK
    <3>2. CASE m = n
      <4>1. {v \in Known : <<n, v>> \in counted'} = Counted(n) \cup {u}
        BY <1>1
      <4>2. u \notin Counted(n)
        BY <1>1
      <4>3. Cardinality(Counted(n) \cup {u}) = Cardinality(Counted(n)) + 1
        BY <3>1, <3>2, <4>2, FS_AddElement
      <4> QED
        BY <1>1, <3>1, <3>2, <4>1, <4>3 DEF TypeOK
    <3>3. CASE m # n
      <4>1. {v \in Known : <<m, v>> \in counted'} = Counted(m)
        BY <1>1, <3>3
      <4> QED
        BY <1>1, <3>1, <3>3, <4>1 DEF TypeOK
    <3> QED
      BY <3>2, <3>3
  <2>2. ASSUME NEW m \in Known
        PROVE  dependents'[m] = {v \in Known : <<v, m>> \in counted'}
    <3>1. dependents[m] = {v \in Known : <<v, m>> \in counted}
      BY <1>1 DEF CountingAgrees
    <3>2. CASE m = u
      BY <1>1, <3>1, <3>2 DEF TypeOK
    <3>3. CASE m # u
      BY <1>1, <3>1, <3>3, SMTT(30) DEF TypeOK
    <3> QED
      BY <3>2, <3>3
  <2>3. phase' = "count" => result' = <<>> /\ pq' = {}
    BY <1>1 DEF CountingAgrees
  <2>4. Known' = Known
    BY <1>1
  <2> QED
    BY <2>1, <2>2, <2>3, <2>4 DEF CountingAgrees
<1>5. ReleasedAfterUses'
  BY <1>1 DEF CountingAgrees, ReleasedAfterUses
<1>6. DegreeCountsUnplaced' /\ QueueIsReady'
  BY <1>1 DEF DegreeCountsUnplaced, QueueIsReady
<1> QED
  BY <1>2, <1>3, <1>4, <1>5, <1>6

LEMMA SeedQueueIInv ==
  ASSUME IInv, SeedQueue
  PROVE  IInv'
<1> USE DEF IInv
<1>1. /\ phase = "count" /\ phase' = "emit" /\ counted = DepEdges
      /\ pq' = {n \in Known : inDegree[n] = 0}
      /\ Known' = Known /\ DepEdges' = DepEdges /\ Placed' = Placed
      /\ UNCHANGED <<assignments, depMap, counted, inDegree, dependents,
                     result, emitted, cursor>>
  BY DEF SeedQueue, input, Known, NameAt, DepEdges, Placed
<1>2. result = <<>> /\ Placed = {}
  BY <1>1 DEF CountingAgrees, Placed
<1>3. ASSUME NEW n \in Known
      PROVE  /\ inDegree[n] = Cardinality(depMap[n])
             /\ dependents[n] = {m \in Known : n \in depMap[m]}
             /\ IsFiniteSet(depMap[n])
  <2>1. {u \in Known : <<n, u>> \in counted} = depMap[n]
    BY <1>1 DEF DepEdges, TypeOK
  <2>2. {m \in Known : <<m, n>> \in counted} = {m \in Known : n \in depMap[m]}
    BY <1>1 DEF DepEdges, TypeOK
  <2>3. IsFiniteSet(depMap[n])
    BY KnownSubsetFinite DEF TypeOK
  <2> QED
    BY <1>1, <2>1, <2>2, <2>3 DEF CountingAgrees
<1>4. DegreeCountsUnplaced'
  <2>1. \A n \in Known : depMap[n] \ Placed = depMap[n]
    BY <1>2
  <2> QED
    BY <1>1, <1>3, <2>1 DEF DegreeCountsUnplaced
<1>5. QueueIsReady'
  <2>1. \A n \in Known : inDegree[n] = 0 <=> depMap[n] = {}
    BY <1>3, FS_EmptySet
  <2> QED
    BY <1>1, <1>2, <2>1 DEF QueueIsReady
<1> QED
  BY <1>1, <1>2, <1>4, <1>5
     DEF TypeOK, NoSelfUse, CountingAgrees, ReleasedAfterUses

(* The heart of the proof: one round of the emission loop keeps the        *)
(* degrees equal to what is left to emit, so that the queue gets exactly   *)
(* the types whose last use has just been emitted.                         *)
LEMMA PopAndReleaseIInv ==
  ASSUME IInv, NEW n \in Known, PopAndRelease(n)
  PROVE  IInv'
<1>1. /\ phase = "emit" /\ phase' = "emit" /\ n \in pq
      /\ result' = Append(result, LastOf(n))
      /\ inDegree' = [m \in Known |->
           IF m \in dependents[n] THEN inDegree[m] - 1 ELSE inDegree[m]]
      /\ pq' = (pq \ {n}) \cup {m \in dependents[n] : inDegree[m] = 1}
      /\ Known' = Known /\ DepEdges' = DepEdges
      /\ UNCHANGED <<assignments, depMap, counted, dependents, emitted, cursor>>
  BY DEF PopAndRelease, IsTop, input, Known, NameAt, DepEdges
<1>2. /\ assignments \in Seq(Assignment)
      /\ depMap \in [Known -> SUBSET Known]
      /\ result \in Seq(DOMAIN assignments)
      /\ TypeOK /\ NoSelfUse /\ ReleasedAfterUses
      /\ \A m \in Known : /\ inDegree[m] = Cardinality(depMap[m] \ Placed)
                          /\ dependents[m] = {v \in Known : m \in depMap[v]}
      /\ pq = {m \in Known \ Placed : depMap[m] \subseteq Placed}
  BY <1>1 DEF IInv, TypeOK, DegreeCountsUnplaced, QueueIsReady
<1>3. LastOf(n) \in DOMAIN assignments /\ NameAt(LastOf(n)) = n
  BY <1>2, LastOfName
<1>4. Placed' = Placed \cup {n}
  <2>1. Placed' = {NameAt(result'[k]) : k \in DOMAIN result'}
    BY <1>1 DEF Placed, NameAt
  <2>2. /\ DOMAIN result' = DOMAIN result \cup {Len(result) + 1}
        /\ \A k \in DOMAIN result : result'[k] = result[k]
        /\ result'[Len(result) + 1] = LastOf(n)
    BY <1>1, <1>2, <1>3
  <2> QED
    BY <1>3, <2>1, <2>2 DEF Placed
<1>5. n \notin Placed /\ depMap[n] \subseteq Placed /\ n \notin depMap[n]
  BY <1>1, <1>2 DEF NoSelfUse
<1>6. ASSUME NEW m \in Placed
      PROVE  depMap[m] \subseteq Placed
  <2>1. PICK k \in DOMAIN result : m = NameAt(result[k])
    BY DEF Placed
  <2>2. \A u \in depMap[m] : \E j \in 1 .. k - 1 : NameAt(result[j]) = u
    BY <1>1, <1>2, <2>1 DEF ReleasedAfterUses
  <2> QED
    BY <1>2, <2>1, <2>2 DEF Placed
<1>7. ASSUME NEW m \in Known
      PROVE  /\ IsFiniteSet(depMap[m] \ Placed)
             /\ inDegree'[m] = Cardinality(depMap[m] \ Placed')
             /\ inDegree'[m] \in Nat
             /\ m \in dependents[n] =>
                  (inDegree[m] = 1 <=> depMap[m] \subseteq Placed')
  <2>1. IsFiniteSet(depMap[m] \ Placed)
    <3>1. depMap[m] \ Placed \in SUBSET Known
      BY <1>2
    <3> QED
      BY <1>2, <3>1, KnownSubsetFinite
  <2>2. depMap[m] \ Placed' = (depMap[m] \ Placed) \ {n}
    BY <1>4
  <2>3. /\ IsFiniteSet(depMap[m] \ Placed')
        /\ Cardinality(depMap[m] \ Placed') =
             IF n \in depMap[m] \ Placed THEN Cardinality(depMap[m] \ Placed) - 1
                                        ELSE Cardinality(depMap[m] \ Placed)
    BY <2>1, <2>2, FS_RemoveElement, SMTT(30)
  <2>4. m \in dependents[n] <=> n \in depMap[m] \ Placed
    BY <1>2, <1>5
  <2>5. /\ Cardinality(depMap[m] \ Placed') \in Nat
        /\ Cardinality(depMap[m] \ Placed) \in Nat
        /\ Cardinality(depMap[m] \ Placed') = 0 <=> depMap[m] \ Placed' = {}
    BY <2>1, <2>3, FS_CardinalityType, FS_EmptySet
  <2>6. inDegree[m] = Cardinality(depMap[m] \ Placed)
    BY <1>2
  <2>7. inDegree'[m] = Cardinality(depMap[m] \ Placed')
    BY <1>1, <2>3, <2>4, <2>6
  <2>8. m \in dependents[n] => (inDegree[m] = 1 <=> depMap[m] \subseteq Placed')
    BY <2>3, <2>4, <2>5, <2>6
  <2> QED
    BY <2>1, <2>5, <2>7, <2>8
<1>8. TypeOK'
  <2>1. pq' \subseteq Known
    BY <1>1, <1>2
  <2>2. inDegree' \in [Known -> Nat]
    BY <1>1, <1>7
  <2>3. result' \in Seq(DOMAIN assignments)
    BY <1>1, <1>2, <1>3
  <2> QED
    BY <1>1, <1>2, <2>1, <2>2, <2>3 DEF TypeOK
<1>9. DegreeCountsUnplaced'
  BY <1>1, <1>2, <1>7 DEF DegreeCountsUnplaced
<1>10. QueueIsReady'
  <2>1. ASSUME NEW m \in Known
        PROVE  m \in pq' <=> m \notin Placed' /\ depMap[m] \subseteq Placed'
    <3>1. CASE m \in dependents[n]
      <4>1. n \in depMap[m] /\ m \notin Placed'
        BY <1>2, <1>4, <1>5, <1>6, <3>1
      <4>2. m \notin pq
        BY <1>2, <1>5, <4>1
      <4> QED
        BY <1>1, <1>7, <3>1, <4>1, <4>2
    <3>2. CASE m \notin dependents[n]
      <4>1. n \notin depMap[m]
        BY <1>2, <3>2
      <4> QED
        BY <1>1, <1>2, <1>4, <3>2, <4>1
    <3> QED
      BY <3>1, <3>2
  <2> QED
    BY <1>1, <1>2, <1>8, <2>1 DEF QueueIsReady, TypeOK
<1>11. ReleasedAfterUses'
  <2>1. ASSUME NEW k \in DOMAIN result',
               NEW u \in depMap[NameAt(result'[k])]
        PROVE  \E j \in 1 .. k - 1 : NameAt(result'[j]) = u
    <3>1. CASE k \in DOMAIN result
      <4>1. result'[k] = result[k] /\ \A j \in 1 .. k - 1 : result'[j] = result[j]
        BY <1>1, <1>2, <3>1
      <4> QED
        BY <1>1, <1>2, <2>1, <3>1, <4>1 DEF ReleasedAfterUses
    <3>2. CASE k = Len(result) + 1
      <4>1. result'[k] = LastOf(n) /\ u \in Placed
        BY <1>1, <1>2, <1>3, <1>5, <2>1, <3>2
      <4>2. PICK j \in DOMAIN result : NameAt(result[j]) = u
        BY <4>1 DEF Placed
      <4> QED
        BY <1>1, <1>2, <3>2, <4>2
    <3> QED
      BY <1>1, <1>2, <3>1, <3>2
  <2> QED
    BY <1>1, <2>1 DEF ReleasedAfterUses, NameAt
<1> QED
  BY <1>1, <1>2, <1>8, <1>9, <1>10, <1>11 DEF IInv, NoSelfUse, CountingAgrees

LEMMA QueueDrainedIInv ==
  ASSUME IInv, QueueDrained
  PROVE  IInv'
<1>1. /\ phase = "emit" /\ phase' \in {"append", "done"}
      /\ emitted' = Placed
      /\ Known' = Known /\ DepEdges' = DepEdges
      /\ UNCHANGED <<assignments, depMap, counted, inDegree, dependents, pq,
                     result, cursor>>
  BY DEF QueueDrained, input, Known, NameAt, DepEdges
<1>2. TypeOK'
  BY <1>1, PlacedKnown DEF IInv, TypeOK
<1>3. ReleasedAfterUses'
  BY <1>1 DEF IInv, ReleasedAfterUses, NameAt
<1> QED
  BY <1>1, <1>2, <1>3
     DEF IInv, NoSelfUse, CountingAgrees, DegreeCountsUnplaced, QueueIsReady

LEMMA AppendRestIInv ==
  ASSUME IInv, AppendRest
  PROVE  IInv'
<1>1. /\ phase = "append" /\ phase' \in {"append", "done"}
      /\ cursor \in DOMAIN assignments /\ cursor' = cursor + 1
      /\ result' = IF NameAt(cursor) \in emitted THEN result
                                                ELSE Append(result, cursor)
      /\ Known' = Known /\ DepEdges' = DepEdges
      /\ UNCHANGED <<assignments, depMap, counted, inDegree, dependents, pq,
                     emitted>>
  BY DEF AppendRest, input, Known, NameAt, DepEdges
<1>2. /\ TypeOK /\ result \in Seq(DOMAIN assignments)
      /\ DOMAIN assignments = 1 .. Len(assignments)
      /\ Len(assignments) \in Nat
  BY DEF IInv, TypeOK
<1>3. result' \in Seq(DOMAIN assignments) /\ cursor' \in 1 .. Len(assignments) + 1
  <2>1. CASE NameAt(cursor) \in emitted
    BY <1>1, <1>2, <2>1
  <2>2. CASE NameAt(cursor) \notin emitted
    BY <1>1, <1>2, <2>2
  <2> QED
    BY <2>1, <2>2
<1>4. TypeOK'
  BY <1>1, <1>2, <1>3 DEF TypeOK
<1>5. ReleasedAfterUses'
  <2>1. CASE NameAt(cursor) \in emitted
    BY <1>1, <2>1 DEF IInv, ReleasedAfterUses, NameAt
  <2>2. CASE NameAt(cursor) \notin emitted
    <3>1. result' = Append(result, cursor)
      BY <1>1, <2>2
    <3>2. ASSUME NEW k \in DOMAIN result',
                 NameAt(result'[k]) \in emitted
          PROVE  \A u \in depMap[NameAt(result'[k])] :
                   \E j \in 1 .. k - 1 : NameAt(result'[j]) = u
      <4>1. k # Len(result) + 1
        BY <1>1, <1>2, <2>2, <3>1, <3>2
      <4>2. k \in DOMAIN result
        BY <1>1, <1>2, <3>1, <4>1
      <4>3. result'[k] = result[k] /\ \A j \in 1 .. k - 1 : result'[j] = result[j]
        BY <1>1, <1>2, <3>1, <4>2
      <4>4. \A u \in depMap[NameAt(result[k])] :
              \E j \in 1 .. k - 1 : NameAt(result[j]) = u
        BY <1>1, <3>2, <4>2, <4>3 DEF IInv, ReleasedAfterUses
      <4> QED
        BY <4>3, <4>4
    <3>3. /\ phase' \in {"append", "done"} /\ emitted' = emitted
          /\ depMap' = depMap /\ assignments' = assignments
      BY <1>1
    <3>4. ASSUME NEW k \in DOMAIN result'
          PROVE  \/ phase' \in {"append", "done"} /\ NameAt(result'[k]) \notin emitted'
                 \/ \A u \in depMap'[NameAt(result'[k])] :
                      \E j \in 1 .. k - 1 : NameAt(result'[j]) = u
      BY <3>2, <3>3
    <3> QED
      BY <3>3, <3>4 DEF ReleasedAfterUses, NameAt
  <2> QED
    BY <2>1, <2>2
<1> QED
  BY <1>1, <1>4, <1>5
     DEF IInv, NoSelfUse, CountingAgrees, DegreeCountsUnplaced, QueueIsReady

LEMMA NextIInv == IInv /\ [Next]_vars => IInv'
<1> SUFFICES ASSUME IInv, [Next]_vars
             PROVE  IInv'
  OBVIOUS
<1>1. ASSUME NEW n \in Known, NEW u \in Known, CountUse(n, u)
      PROVE  IInv'
  BY <1>1, CountUseIInv
<1>2. CASE SeedQueue
  BY <1>2, SeedQueueIInv
<1>3. ASSUME NEW n \in Known, PopAndRelease(n)
      PROVE  IInv'
  BY <1>3, PopAndReleaseIInv
<1>4. CASE QueueDrained
  BY <1>4, QueueDrainedIInv
<1>5. CASE AppendRest
  BY <1>5, AppendRestIInv
<1>6. CASE UNCHANGED vars
  <2>1. Known' = Known /\ DepEdges' = DepEdges /\ Placed' = Placed
    BY <1>6 DEF vars, Known, NameAt, DepEdges, Placed
  <2>2. TypeOK' /\ NoSelfUse' /\ CountingAgrees'
    BY <1>6, <2>1 DEF vars, IInv, TypeOK, NoSelfUse, CountingAgrees
  <2>3. DegreeCountsUnplaced' /\ QueueIsReady'
    BY <1>6, <2>1 DEF vars, IInv, DegreeCountsUnplaced, QueueIsReady
  <2>4. ReleasedAfterUses'
    BY <1>6 DEF vars, IInv, ReleasedAfterUses, NameAt
  <2> QED
    BY <2>2, <2>3, <2>4 DEF IInv
<1> QED
  BY <1>1, <1>2, <1>3, <1>4, <1>5, <1>6 DEF Next

LEMMA Invariance == Spec => []IInv
BY InitIInv, NextIInv, PTL DEF Spec

-----------------------------------------------------------------------------

(* Degrees stay natural numbers, positions stay positions of the schema.   *)
THEOREM TopoSortTypeCorrect == Spec => []TypeOK
<1>1. IInv => TypeOK
  BY DEF IInv
<1> QED
  BY <1>1, Invariance, PTL

(* The decremented degrees and the queue never drift from the set of types *)
(* that are really left to emit, for any schema.                           *)
THEOREM QueueCorrect == Spec => [](DegreeCountsUnplaced /\ QueueIsReady)
<1>1. IInv => DegreeCountsUnplaced /\ QueueIsReady
  BY DEF IInv
<1> QED
  BY <1>1, Invariance, PTL

(* Every type the queue releases follows all the types it uses.            *)
THEOREM TypesFollowTheirUses == Spec => []ReleasedAfterUses
<1>1. IInv => ReleasedAfterUses
  BY DEF IInv
<1> QED
  BY <1>1, Invariance, PTL

-----------------------------------------------------------------------------
(* The implementation of DependencyOrder.                                  *)

ordered == [k \in DOMAIN result |-> NameAt(result[k])]

LEMMA OrderedNames ==
  ASSUME TypeOK
  PROVE  /\ ordered \in Seq(Known)
         /\ Order!Emitted = Placed
         /\ Order!Unemitted = Known \ Placed
<1>1. DOMAIN result = 1 .. Len(result) /\ Len(result) \in Nat
  BY DEF TypeOK
<1>2. ordered \in [1 .. Len(result) -> Known]
  BY <1>1 DEF ordered, TypeOK, Known
<1>3. ordered \in Seq(Known)
  BY <1>1, <1>2
<1>4. Order!Emitted = Placed
  BY DEF Order!Emitted, Placed
<1>5. DOMAIN depMap = Known
  BY DEF TypeOK
<1> QED
  BY <1>3, <1>4, <1>5 DEF Order!Unemitted

LEMMA OrderedAppend ==
  ASSUME TypeOK, NEW i \in DOMAIN assignments, result' = Append(result, i),
         assignments' = assignments
  PROVE  ordered' = Append(ordered, NameAt(i))
<1>1. /\ result \in Seq(DOMAIN assignments)
      /\ DOMAIN result = 1 .. Len(result) /\ Len(result) \in Nat
  BY DEF TypeOK
<1>2. ordered \in Seq(Known) /\ Len(ordered) = Len(result)
  BY <1>1, OrderedNames DEF ordered
<1> DEFINE longer == Append(ordered, NameAt(i))
           D == 1 .. Len(result) + 1
<1>3. ordered' = [k \in D |-> NameAt(result'[k])]
  BY <1>1 DEF ordered, NameAt
<1>4. \A k \in D : NameAt(result'[k]) = longer[k]
  BY <1>1, <1>2 DEF ordered
<1>5. longer = [k \in D |-> longer[k]]
  <2>1. NameAt(i) \in Known
    BY DEF Known
  <2>2. longer \in Seq(Known) /\ Len(longer) = Len(result) + 1
    BY <1>1, <1>2, <2>1
  <2>3. longer \in [D -> Known]
    <3> HIDE DEF longer
    <3> QED
      BY <2>2
  <2> HIDE DEF longer, D
  <2> QED
    BY <2>3
<1> HIDE DEF longer, D
<1>6. [k \in D |-> NameAt(result'[k])] = [k \in D |-> longer[k]]
  BY <1>4
<1>7. ordered' = longer
  BY <1>3, <1>5, <1>6
<1> QED
  BY <1>7 DEF longer

LEMMA InitRefines == Init => Order!Init
<1> SUFFICES ASSUME Init
             PROVE  Order!Init
  OBVIOUS
<1>1. Known \in SUBSET Names
  BY SchemasAssumption, KnownFinite DEF Init
<1>2. depMap \in [Known -> SUBSET Known]
  BY DEF Init, UsedBy
<1>3. ordered = <<>>
  BY DEF Init, ordered
<1> QED
  BY <1>1, <1>2, <1>3 DEF Init, Order!Init, Stranded, ordered

LEMMA NextRefines ==
  ASSUME IInv, [Next]_vars
  PROVE  [Order!Next]_(Order!vars)
<1> USE DEF IInv
<1>1. ASSUME NEW n \in Known, NEW u \in Known, CountUse(n, u)
      PROVE  UNCHANGED Order!vars
  BY <1>1 DEF CountUse, input, Order!vars, Stranded, NameAt, Known
<1>2. CASE SeedQueue
  BY <1>2 DEF SeedQueue, input, Order!vars, Stranded, NameAt, Known
<1>3. ASSUME NEW n \in Known, PopAndRelease(n)
      PROVE  Order!Emit(n)
  <2>1. /\ phase = "emit" /\ phase' = "emit" /\ n \in pq
        /\ result' = Append(result, LastOf(n))
        /\ assignments' = assignments /\ depMap' = depMap
    BY <1>3 DEF PopAndRelease, IsTop, input
  <2>2. LastOf(n) \in DOMAIN assignments /\ NameAt(LastOf(n)) = n
    BY LastOfName DEF TypeOK
  <2>3. ordered' = Append(ordered, n)
    BY <2>1, <2>2, OrderedAppend
  <2>4. Stranded = {} /\ Stranded' = {}
    BY <2>1 DEF Stranded
  <2>5. n \in Order!Ready
    BY <2>1, OrderedNames DEF Order!Ready, QueueIsReady
  <2> QED
    BY <2>1, <2>3, <2>4, <2>5 DEF Order!Emit, ordered
<1>4. CASE QueueDrained
  <2>1. /\ phase = "emit" /\ phase' \in {"append", "done"} /\ pq = {}
        /\ emitted' = Placed
        /\ UNCHANGED <<assignments, depMap, result>>
    BY <1>4 DEF QueueDrained, input
  <2>2. Stranded = {} /\ Stranded' = Order!Unemitted
    BY <2>1, OrderedNames DEF Stranded, Known, NameAt
  <2>3. Order!Ready = {}
    BY <2>1, OrderedNames DEF Order!Ready, QueueIsReady
  <2>4. UNCHANGED <<depMap, ordered>>
    BY <2>1 DEF ordered, NameAt
  <2>5. CASE Order!Unemitted = {}
    BY <2>2, <2>4, <2>5 DEF Order!vars, ordered
  <2>6. CASE Order!Unemitted # {}
    BY <2>2, <2>3, <2>4, <2>6 DEF Order!GiveUp, Order!Next, ordered
  <2> QED
    BY <2>5, <2>6
<1>5. CASE AppendRest
  <2>1. /\ phase = "append" /\ phase' \in {"append", "done"}
        /\ cursor \in DOMAIN assignments
        /\ result' = IF NameAt(cursor) \in emitted THEN result
                                                  ELSE Append(result, cursor)
        /\ UNCHANGED <<assignments, depMap, emitted>>
    BY <1>5 DEF AppendRest, input
  <2>2. Stranded = Known \ emitted /\ Stranded' = Stranded
    BY <2>1 DEF Stranded, Known, NameAt
  <2>3. CASE NameAt(cursor) \in emitted
    <3>1. UNCHANGED ordered
      BY <2>1, <2>3 DEF ordered, NameAt
    <3> QED
      BY <2>1, <2>2, <3>1 DEF Order!vars, ordered
  <2>4. CASE NameAt(cursor) \notin emitted
    <3>1. ordered' = Append(ordered, NameAt(cursor))
      BY <2>1, <2>4, OrderedAppend
    <3>2. NameAt(cursor) \in Stranded /\ NameAt(cursor) \in DOMAIN depMap
      BY <2>1, <2>2, <2>4 DEF Known, TypeOK
    <3> QED
      BY <2>1, <2>2, <3>1, <3>2 DEF Order!EmitStranded, Order!Next, ordered
  <2> QED
    BY <2>3, <2>4
<1>6. CASE UNCHANGED vars
  BY <1>6 DEF vars, Order!vars, Stranded, NameAt, Known
<1>7. DOMAIN depMap = Known
  BY DEF TypeOK
<1>8. CASE Next
  <2>1. ASSUME NEW n \in Known, PopAndRelease(n)
        PROVE  Order!Next
    BY <1>3, <1>7, <2>1 DEF Order!Next
  <2> QED
    BY <1>1, <1>2, <1>4, <1>5, <1>8, <2>1 DEF Next
<1> QED
  BY <1>6, <1>8

(* The sort of the assignments implements DependencyOrder: the hash maps,  *)
(* the degrees and the queue only ever emit a type whose uses have all     *)
(* been emitted, or give up when there is none.                            *)
THEOREM TopoSortImplementsOrder == Spec => OrderSpec
<1>1. IInv /\ [Next]_vars => [Order!Next]_(Order!vars)
  BY NextRefines
<1> QED
  BY <1>1, InitRefines, Invariance, PTL DEF Spec, OrderSpec, Order!Spec

-----------------------------------------------------------------------------
(* No name is lost.                                                        *)

Positions == {result[k] : k \in DOMAIN result}

InPlace(i) == NameAt(i) \in emitted => i = LastOf(NameAt(i))

(* No position is emitted twice; the queue emits the last assignment of a  *)
(* name; the append loop has emitted the others up to cursor.              *)
PlacementInv ==
  /\ \A j, k \in DOMAIN result : result[j] = result[k] => j = k
  /\ phase \in {"count", "emit"} =>
       /\ cursor = 1
       /\ \A k \in DOMAIN result : result[k] = LastOf(NameAt(result[k]))
  /\ phase = "append" =>
       \A i \in DOMAIN assignments :
         i \in Positions <=>
           InPlace(i) /\ (NameAt(i) \in emitted \/ i < cursor)
  /\ phase = "done" =>
       \A i \in DOMAIN assignments : i \in Positions <=> InPlace(i)

LEMMA AppendedPositions ==
  ASSUME TypeOK, NEW i \in DOMAIN assignments, result' = Append(result, i)
  PROVE  /\ Positions' = Positions \cup {i}
         /\ DOMAIN result' = DOMAIN result \cup {Len(result) + 1}
         /\ Len(result) + 1 \notin DOMAIN result
         /\ \A k \in DOMAIN result : result'[k] = result[k]
         /\ result'[Len(result) + 1] = i
<1>1. result \in Seq(DOMAIN assignments) /\ Len(result) \in Nat
      /\ DOMAIN result = 1 .. Len(result)
  BY DEF TypeOK
<1> DEFINE r == result'
<1>2. /\ DOMAIN r = DOMAIN result \cup {Len(result) + 1}
      /\ Len(result) + 1 \notin DOMAIN result
      /\ \A k \in DOMAIN result : r[k] = result[k]
      /\ r[Len(result) + 1] = i
  BY <1>1
<1>3. Positions' = {r[k] : k \in DOMAIN r}
  BY DEF Positions
<1> HIDE DEF r
<1>4. {r[k] : k \in DOMAIN r} = Positions \cup {i}
  BY <1>2 DEF Positions
<1> QED
  BY <1>2, <1>3, <1>4 DEF r

(* If the queue has emitted as many assignments as there are, it has       *)
(* emitted them all.                                                       *)
LEMMA FullResult ==
  ASSUME TypeOK, ~ (Len(result) < Len(assignments)),
         \A j, k \in DOMAIN result : result[j] = result[k] => j = k
  PROVE  Positions = DOMAIN assignments
<1> DEFINE S == 1 .. Len(result)
           T == 1 .. Len(assignments)
<1>1. /\ Len(result) \in Nat /\ Len(assignments) \in Nat
      /\ DOMAIN result = S /\ DOMAIN assignments = T /\ result \in [S -> T]
  BY DEF TypeOK
<1>2. result \in Injection(S, T)
  BY <1>1 DEF Injection, IsInjective
<1>3. /\ IsFiniteSet(S) /\ Cardinality(S) = Len(result)
      /\ IsFiniteSet(T) /\ Cardinality(T) = Len(assignments)
  <2>1. ASSUME NEW n \in Nat
        PROVE  IsFiniteSet(1 .. n) /\ Cardinality(1 .. n) = n
    BY <2>1, FS_Interval
  <2> QED
    BY <1>1, <2>1
<1>4. /\ Cardinality(S) <= Cardinality(T)
      /\ Cardinality(S) = Cardinality(T) <=> result \in Surjection(S, T)
  <2> HIDE DEF S, T
  <2> QED
    BY <1>2, <1>3, FS_Injection
<1>5. result \in Surjection(S, T)
  BY <1>1, <1>3, <1>4
<1> QED
  BY <1>1, <1>5 DEF Surjection, Positions

LEMMA LastOfFrozen ==
  ASSUME assignments' = assignments
  PROVE  /\ \A i : NameAt(i)' = NameAt(i)
         /\ \A n : LastOf(n)' = LastOf(n)
BY DEF LastOf, NameAt

LEMMA InitPlacement == Init => PlacementInv
BY DEF Init, PlacementInv

LEMMA PopAndReleasePlacement ==
  ASSUME IInv, PlacementInv, NEW n \in Known, PopAndRelease(n)
  PROVE  PlacementInv'
<1>1. /\ phase = "emit" /\ phase' = "emit" /\ n \in pq
      /\ result' = Append(result, LastOf(n))
      /\ UNCHANGED <<assignments, cursor>>
  BY DEF PopAndRelease, IsTop, input
<1>2. TypeOK /\ assignments \in Seq(Assignment) /\ n \notin Placed
  BY <1>1 DEF IInv, TypeOK, QueueIsReady
<1>3. LastOf(n) \in DOMAIN assignments /\ NameAt(LastOf(n)) = n
  BY <1>2, LastOfName
<1>4. /\ DOMAIN result' = DOMAIN result \cup {Len(result) + 1}
      /\ Len(result) + 1 \notin DOMAIN result
      /\ \A k \in DOMAIN result : result'[k] = result[k]
      /\ result'[Len(result) + 1] = LastOf(n)
  BY <1>1, <1>2, <1>3, AppendedPositions
<1>5. \A k \in DOMAIN result : result[k] # LastOf(n)
  BY <1>2, <1>3 DEF Placed
<1>6. \A k \in DOMAIN result : result[k] = LastOf(NameAt(result[k]))
  BY <1>1 DEF PlacementInv
<1>7. \A j, k \in DOMAIN result' : result'[j] = result'[k] => j = k
  BY <1>4, <1>5 DEF PlacementInv
<1>8. \A k \in DOMAIN result' : result'[k] = LastOf(NameAt(result'[k]))
  BY <1>3, <1>4, <1>6
<1> QED
  BY <1>1, <1>7, <1>8, LastOfFrozen DEF PlacementInv

LEMMA QueueDrainedPlacement ==
  ASSUME IInv, PlacementInv, QueueDrained
  PROVE  PlacementInv'
<1> DEFINE e == emitted'
           p == phase'
<1>1. /\ phase = "emit" /\ e = Placed
      /\ p = IF Len(result) < Len(assignments) THEN "append" ELSE "done"
      /\ UNCHANGED <<assignments, result, cursor>>
  BY DEF QueueDrained, input
<1>2. /\ TypeOK /\ cursor = 1
      /\ \A k \in DOMAIN result : result[k] = LastOf(NameAt(result[k]))
      /\ \A j, k \in DOMAIN result : result[j] = result[k] => j = k
  BY <1>1 DEF IInv, PlacementInv
<1>3. assignments \in Seq(Assignment) /\ Len(assignments) \in Nat
      /\ DOMAIN assignments = 1 .. Len(assignments)
  BY <1>2 DEF TypeOK
<1>4. ASSUME NEW i \in DOMAIN assignments
      PROVE  i \in Positions <=> NameAt(i) \in e /\ i = LastOf(NameAt(i))
  <2>1. ASSUME i \in Positions
        PROVE  NameAt(i) \in e /\ i = LastOf(NameAt(i))
    BY <1>1, <1>2, <2>1 DEF Positions, Placed
  <2>2. ASSUME NameAt(i) \in e, i = LastOf(NameAt(i))
        PROVE  i \in Positions
    <3>1. PICK k \in DOMAIN result : NameAt(result[k]) = NameAt(i)
      BY <1>1, <2>2 DEF Placed
    <3>2. result[k] = i
      BY <1>2, <2>2, <3>1
    <3> QED
      BY <3>2 DEF Positions
  <2> QED
    BY <2>1, <2>2
<1>5. p = "append" =>
        \A i \in DOMAIN assignments :
          i \in Positions <=>
            /\ NameAt(i) \in e => i = LastOf(NameAt(i))
            /\ NameAt(i) \in e \/ i < cursor
  BY <1>2, <1>3, <1>4
<1>6. p = "done" =>
        \A i \in DOMAIN assignments :
          i \in Positions <=> (NameAt(i) \in e => i = LastOf(NameAt(i)))
  <2>1. ASSUME p = "done"
        PROVE  Positions = DOMAIN assignments
    <3>1. ~ (Len(result) < Len(assignments))
      BY <1>1, <2>1
    <3> QED
      BY <1>2, <3>1, FullResult
  <2> QED
    BY <1>4, <2>1
<1>7. p \in {"append", "done"}
  BY <1>1
<1> HIDE DEF e, p
<1> QED
  <2>1. p = phase' /\ e = emitted' /\ Positions' = Positions
    BY <1>1 DEF e, p, Positions
  <2>2. \A i : InPlace(i)' <=> (NameAt(i) \in e => i = LastOf(NameAt(i)))
    BY <1>1, <2>1, LastOfFrozen DEF InPlace
  <2> QED
    BY <1>1, <1>2, <1>5, <1>6, <1>7, <2>1, <2>2, LastOfFrozen DEF PlacementInv

LEMMA AppendRestPlacement ==
  ASSUME IInv, PlacementInv, AppendRest
  PROVE  PlacementInv'
<1> DEFINE r == result'
           c == cursor'
<1>1. /\ phase = "append" /\ cursor \in DOMAIN assignments /\ c = cursor + 1
      /\ r = IF NameAt(cursor) \in emitted THEN result ELSE Append(result, cursor)
      /\ phase' = IF cursor = Len(assignments) THEN "done" ELSE "append"
      /\ UNCHANGED <<assignments, emitted>>
  BY DEF AppendRest, input
<1>2. TypeOK /\ cursor \in Nat /\ Len(assignments) \in Nat
      /\ DOMAIN assignments = 1 .. Len(assignments)
  BY <1>1 DEF IInv, TypeOK
<1>3. \A i \in DOMAIN assignments :
        i \in Positions <=> InPlace(i) /\ (NameAt(i) \in emitted \/ i < cursor)
  BY <1>1 DEF PlacementInv
<1>4. \A j, k \in DOMAIN result : result[j] = result[k] => j = k
  BY DEF PlacementInv
<1>5. /\ \A j, k \in DOMAIN r : r[j] = r[k] => j = k
      /\ Positions' = IF NameAt(cursor) \in emitted THEN Positions
                                                   ELSE Positions \cup {cursor}
  <2>1. CASE NameAt(cursor) \in emitted
    BY <1>1, <1>4, <2>1 DEF Positions
  <2>2. CASE NameAt(cursor) \notin emitted
    <3>1. r = Append(result, cursor)
      BY <1>1, <2>2
    <3>2. /\ Positions' = Positions \cup {cursor}
          /\ DOMAIN r = DOMAIN result \cup {Len(result) + 1}
          /\ Len(result) + 1 \notin DOMAIN result
          /\ \A k \in DOMAIN result : r[k] = result[k]
          /\ r[Len(result) + 1] = cursor
      BY <1>1, <1>2, <3>1, AppendedPositions
    <3>3. cursor \notin Positions
      BY <1>1, <1>2, <1>3, <2>2
    <3>4. \A k \in DOMAIN result : result[k] # cursor
      BY <3>3 DEF Positions
    <3> HIDE DEF r
    <3>5. \A j, k \in DOMAIN r : r[j] = r[k] => j = k
      BY <1>4, <3>2, <3>4
    <3> QED
      BY <2>2, <3>2, <3>5
  <2> QED
    BY <2>1, <2>2
<1>6. \A i \in DOMAIN assignments :
        i \in Positions' <=> InPlace(i) /\ (NameAt(i) \in emitted \/ i < c)
  BY <1>1, <1>2, <1>3, <1>5 DEF InPlace
<1>7. cursor = Len(assignments) =>
        \A i \in DOMAIN assignments : i \in Positions' <=> InPlace(i)
  BY <1>1, <1>2, <1>6
<1>8. \A i : InPlace(i)' <=> InPlace(i)
  BY <1>1, LastOfFrozen DEF InPlace
<1> HIDE DEF r, c
<1>9. \A j, k \in DOMAIN result' : result'[j] = result'[k] => j = k
  BY <1>5 DEF r
<1>10. \A i \in DOMAIN assignments :
         i \in Positions' <=> InPlace(i) /\ (NameAt(i) \in emitted \/ i < cursor')
  BY <1>6 DEF c
<1>11. phase' \in {"append", "done"} /\ (phase' = "done" => cursor = Len(assignments))
  BY <1>1
<1> QED
  BY <1>1, <1>7, <1>8, <1>9, <1>10, <1>11, LastOfFrozen DEF PlacementInv

LEMMA PlacementStep == IInv /\ PlacementInv /\ [Next]_vars => PlacementInv'
<1> SUFFICES ASSUME IInv, PlacementInv, [Next]_vars
             PROVE  PlacementInv'
  OBVIOUS
<1>1. ASSUME NEW n \in Known, NEW u \in Known, CountUse(n, u)
      PROVE  PlacementInv'
  BY <1>1, LastOfFrozen DEF CountUse, input, PlacementInv
<1>2. CASE SeedQueue
  BY <1>2, LastOfFrozen DEF SeedQueue, input, PlacementInv
<1>3. ASSUME NEW n \in Known, PopAndRelease(n)
      PROVE  PlacementInv'
  BY <1>3, PopAndReleasePlacement
<1>4. CASE QueueDrained
  BY <1>4, QueueDrainedPlacement
<1>5. CASE AppendRest
  BY <1>5, AppendRestPlacement
<1>6. CASE UNCHANGED vars
  <2>1. /\ UNCHANGED <<assignments, phase, result, emitted, cursor>>
        /\ Positions' = Positions
    BY <1>6 DEF vars, Positions
  <2>2. \A i : InPlace(i)' <=> InPlace(i)
    BY <2>1, LastOfFrozen DEF InPlace
  <2> QED
    BY <2>1, <2>2, LastOfFrozen DEF PlacementInv
<1> QED
  BY <1>1, <1>2, <1>3, <1>4, <1>5, <1>6 DEF Next

(* No type is lost on the way through the queue and the append loop, and   *)
(* none comes out twice but for the repeated assignments of a stranded     *)
(* name: the comparison of the number of results with the number of        *)
(* assignments skips the append loop only if there is nothing to append.   *)
THEOREM NoTypeIsLost == Spec => []NothingLost
<1>1. ASSUME IInv, PlacementInv PROVE NothingLost
  <2> SUFFICES ASSUME phase = "done", NEW i \in DOMAIN assignments
               PROVE  Cardinality({k \in DOMAIN result : result[k] = i}) =
                        IF NameAt(i) \in emitted /\ i # LastOf(NameAt(i)) THEN 0 ELSE 1
    BY DEF NothingLost
  <2> DEFINE at == {k \in DOMAIN result : result[k] = i}
  <2>1. i \in Positions <=> InPlace(i)
    BY <1>1 DEF PlacementInv
  <2>2. CASE i \in Positions
    <3>1. PICK k \in DOMAIN result : result[k] = i
      BY <2>2 DEF Positions
    <3>2. at = {k}
      BY <1>1, <3>1 DEF PlacementInv
    <3> QED
      BY <2>1, <2>2, <3>2, FS_Singleton DEF InPlace
  <2>3. CASE i \notin Positions
    <3>1. at = {}
      BY <2>3 DEF Positions
    <3> QED
      BY <2>1, <2>3, <3>1, FS_EmptySet DEF InPlace
  <2> QED
    BY <2>2, <2>3
<1> QED
  BY <1>1, InitPlacement, PlacementStep, Invariance, PTL DEF Spec

-----------------------------------------------------------------------------
(* What is stranded, and in which order the queue emits.                   *)

(* Following uses from a set of these never ends.                          *)
Endless == {S \in SUBSET Known : \A n \in S : depMap[n] \cap S # {}}

(* The queue never emits a type of an endless set, and when it is empty    *)
(* what is left is such a set.                                             *)
EndlessInv ==
  /\ phase \in {"count", "emit"} => \A S \in Endless : S \cap Placed = {}
  /\ phase \in {"append", "done"} => Known \ emitted = UNION Endless

LEMMA EndlessFrozen ==
  ASSUME UNCHANGED <<assignments, depMap>>
  PROVE  Known' = Known /\ Endless' = Endless
BY DEF Known, NameAt, Endless

LEMMA EndlessStep == IInv /\ EndlessInv /\ [Next]_vars => EndlessInv'
<1> SUFFICES ASSUME IInv, EndlessInv, [Next]_vars
             PROVE  EndlessInv'
  OBVIOUS
<1>1. TypeOK
  BY DEF IInv
<1>2. Known' = Known /\ Endless' = Endless
  <2>1. UNCHANGED <<assignments, depMap>>
    BY DEF Next, vars, CountUse, SeedQueue, PopAndRelease, QueueDrained, AppendRest, input
  <2> QED
    BY <2>1, EndlessFrozen
<1>3. ASSUME phase' = phase, UNCHANGED <<assignments, result, emitted>>
      PROVE  EndlessInv'
  BY <1>2, <1>3 DEF EndlessInv, Placed, NameAt
<1>4. ASSUME NEW n \in Known, NEW u \in Known, CountUse(n, u)
      PROVE  EndlessInv'
  BY <1>3, <1>4 DEF CountUse, input
<1>5. CASE SeedQueue
  <2>1. /\ phase = "count" /\ phase' = "emit"
        /\ UNCHANGED <<assignments, result>>
    BY <1>5 DEF SeedQueue, input
  <2> QED
    BY <1>2, <2>1 DEF EndlessInv, Placed, NameAt
<1>6. ASSUME NEW n \in Known, PopAndRelease(n)
      PROVE  EndlessInv'
  <2>1. /\ phase = "emit" /\ phase' = "emit" /\ n \in pq
        /\ result' = Append(result, LastOf(n))
        /\ UNCHANGED <<assignments, depMap>>
    BY <1>6 DEF PopAndRelease, IsTop, input
  <2>2. depMap[n] \subseteq Placed
    BY <2>1 DEF IInv, QueueIsReady
  <2>3. Placed' = Placed \cup {n}
    <3>1. LastOf(n) \in DOMAIN assignments /\ NameAt(LastOf(n)) = n
      BY <1>1, LastOfName DEF TypeOK
    <3>2. /\ DOMAIN result' = DOMAIN result \cup {Len(result) + 1}
          /\ \A k \in DOMAIN result : result'[k] = result[k]
          /\ result'[Len(result) + 1] = LastOf(n)
      BY <1>1, <2>1, <3>1, AppendedPositions
    <3>3. Placed' = {NameAt(result'[k]) : k \in DOMAIN result'}
      BY <2>1 DEF Placed, NameAt
    <3> QED
      BY <3>1, <3>2, <3>3 DEF Placed
  <2>4. \A S \in Endless : S \cap Placed = {} /\ n \notin S
    BY <2>1, <2>2 DEF EndlessInv, Endless
  <2> QED
    BY <1>2, <2>1, <2>3, <2>4 DEF EndlessInv
<1>7. CASE QueueDrained
  <2>1. /\ phase = "emit" /\ phase' \in {"append", "done"} /\ pq = {}
        /\ emitted' = Placed
    BY <1>7 DEF QueueDrained
  <2>2. \A S \in Endless : S \subseteq Known \ Placed
    BY <2>1 DEF EndlessInv, Endless
  <2>3. Known \ Placed \in Endless
    <3>1. ASSUME NEW n \in Known \ Placed
          PROVE  depMap[n] \cap (Known \ Placed) # {}
      <4>1. ~ (depMap[n] \subseteq Placed)
        BY <2>1 DEF IInv, QueueIsReady
      <4> QED
        BY <1>1, <4>1 DEF TypeOK
    <3> QED
      BY <3>1 DEF Endless
  <2>4. Known \ Placed = UNION Endless
    BY <2>2, <2>3
  <2> QED
    BY <1>2, <2>1, <2>4 DEF EndlessInv
<1>8. CASE AppendRest
  <2>1. phase = "append" /\ phase' \in {"append", "done"} /\ emitted' = emitted
    BY <1>8 DEF AppendRest
  <2> QED
    BY <1>2, <2>1 DEF EndlessInv
<1>9. CASE UNCHANGED vars
  BY <1>3, <1>9 DEF vars
<1> QED
  BY <1>4, <1>5, <1>6, <1>7, <1>8, <1>9 DEF Next

(* A type is left to the append loop if and only if its uses lead into a   *)
(* cycle: the degrees strand no type that could have been ordered.         *)
THEOREM OnlyCyclesStrand == Spec => []StrandedReachCycle
<1>1. Init => EndlessInv
  BY DEF Init, EndlessInv, Placed
<1>2. EndlessInv => StrandedReachCycle
  BY DEF EndlessInv, StrandedReachCycle, Endless
<1> QED
  BY <1>1, <1>2, EndlessStep, Invariance, PTL DEF Spec

(* What the queue emits next is the first type, in schema order, of those  *)
(* that could be next, in whatever order the hash maps are visited.        *)
THEOREM OrderIsDeterministic == Spec => FirstReadyInSchemaOrder
<1> DEFINE FirstReady ==
      Len(result') > Len(result) /\ phase = "emit" =>
        \A m \in Known \ Placed :
          depMap[m] \subseteq Placed => result'[Len(result')] <= LastOf(m)
<1>1. IInv /\ [Next]_vars => [FirstReady]_vars
  <2> SUFFICES ASSUME IInv, Next, Len(result') > Len(result), phase = "emit",
                      NEW m \in Known \ Placed, depMap[m] \subseteq Placed
               PROVE  result'[Len(result')] <= LastOf(m)
    OBVIOUS
  <2>1. TypeOK /\ Len(result) \in Nat
    BY DEF IInv, TypeOK
  <2>2. PICK n \in Known : PopAndRelease(n)
    <3>1. result' # result
      BY <2>1
    <3> QED
      BY <3>1 DEF Next, CountUse, SeedQueue, QueueDrained, AppendRest
  <2>3. IsTop(n) /\ result' = Append(result, LastOf(n))
    BY <2>2 DEF PopAndRelease
  <2>4. m \in pq
    BY DEF IInv, QueueIsReady
  <2>5. LastOf(n) \in DOMAIN assignments
    BY <2>1, LastOfName DEF TypeOK
  <2>6. result'[Len(result')] = LastOf(n)
    BY <2>1, <2>3, <2>5 DEF TypeOK
  <2> QED
    BY <2>3, <2>4, <2>6 DEF IsTop
<1> QED
  BY <1>1, Invariance, PTL DEF Spec, FirstReadyInSchemaOrder

-----------------------------------------------------------------------------
(* What any order that DependencyOrder allows is good for: that of the     *)
(* types, by the theorem above, and that of the modules.                   *)

CONSTANT Items
VARIABLES uses, order, stranded

AnyOrder == INSTANCE DependencyOrder

(* The emission order lists known items, and uses never change.            *)
THEOREM OrderTypeCorrect == AnyOrder!Spec => []AnyOrder!TypeOK
<1>1. AnyOrder!Init => AnyOrder!TypeOK
  BY DEF AnyOrder!Init, AnyOrder!TypeOK
<1>2. AnyOrder!TypeOK /\ [AnyOrder!Next]_(AnyOrder!vars) => AnyOrder!TypeOK'
  <2> SUFFICES ASSUME AnyOrder!TypeOK, [AnyOrder!Next]_(AnyOrder!vars)
               PROVE  AnyOrder!TypeOK'
    OBVIOUS
  <2>1. ASSUME NEW x \in DOMAIN uses, AnyOrder!Emit(x)
        PROVE  AnyOrder!TypeOK'
    BY <2>1 DEF AnyOrder!TypeOK, AnyOrder!Emit
  <2>2. ASSUME NEW x \in DOMAIN uses, AnyOrder!EmitStranded(x)
        PROVE  AnyOrder!TypeOK'
    BY <2>2 DEF AnyOrder!TypeOK, AnyOrder!EmitStranded
  <2>3. CASE AnyOrder!GiveUp
    BY <2>3 DEF AnyOrder!TypeOK, AnyOrder!GiveUp, AnyOrder!Unemitted
  <2>4. CASE UNCHANGED AnyOrder!vars
    BY <2>4 DEF AnyOrder!TypeOK, AnyOrder!vars
  <2> QED
    BY <2>1, <2>2, <2>3, <2>4 DEF AnyOrder!Next
<1> QED
  BY <1>1, <1>2, PTL DEF AnyOrder!Spec

(* Every item that is not stranded is emitted after all it uses: the       *)
(* promise of both sorts of the compiler driver.                           *)
THEOREM UsesComeFirst == AnyOrder!Spec => []AnyOrder!UsesFirst
<1>1. AnyOrder!Init => AnyOrder!UsesFirst
  BY DEF AnyOrder!Init, AnyOrder!UsesFirst
<1>2. AnyOrder!TypeOK /\ AnyOrder!UsesFirst /\ [AnyOrder!Next]_(AnyOrder!vars) => AnyOrder!UsesFirst'
  <2> SUFFICES ASSUME AnyOrder!TypeOK, AnyOrder!UsesFirst, [AnyOrder!Next]_(AnyOrder!vars)
               PROVE  AnyOrder!UsesFirst'
    OBVIOUS
  <2>1. ASSUME NEW x \in DOMAIN uses, AnyOrder!Emit(x)
        PROVE  AnyOrder!UsesFirst'
    <3>1. /\ order' = Append(order, x)
          /\ uses' = uses /\ stranded' = stranded /\ stranded = {}
      BY <2>1 DEF AnyOrder!Emit
    <3>2. ASSUME NEW u \in uses[x]
          PROVE  \E j \in 1 .. Len(order) : order[j] = u
      BY <2>1 DEF AnyOrder!Emit, AnyOrder!Ready, AnyOrder!Emitted, AnyOrder!TypeOK
    <3>3. ASSUME NEW i \in DOMAIN order'
          PROVE  \A u \in uses[order'[i]] :
                   \E j \in 1 .. i - 1 : order'[j] = u
      <4>1. CASE i = Len(order) + 1
        BY <3>1, <3>2, <4>1 DEF AnyOrder!TypeOK
      <4>2. CASE i \in DOMAIN order
        BY <3>1, <4>2 DEF AnyOrder!TypeOK, AnyOrder!UsesFirst
      <4> QED
        BY <3>1, <4>1, <4>2 DEF AnyOrder!TypeOK
    <3> QED
      BY <3>1, <3>3 DEF AnyOrder!UsesFirst
  <2>2. ASSUME NEW x \in DOMAIN uses, AnyOrder!EmitStranded(x)
        PROVE  AnyOrder!UsesFirst'
    <3>1. /\ order' = Append(order, x)
          /\ uses' = uses /\ stranded' = stranded /\ x \in stranded
      BY <2>2 DEF AnyOrder!EmitStranded
    <3> QED
      BY <3>1 DEF AnyOrder!TypeOK, AnyOrder!UsesFirst
  <2>3. CASE AnyOrder!GiveUp
    BY <2>3 DEF AnyOrder!UsesFirst, AnyOrder!GiveUp
  <2>4. CASE UNCHANGED AnyOrder!vars
    BY <2>4 DEF AnyOrder!UsesFirst, AnyOrder!vars
  <2> QED
    BY <2>1, <2>2, <2>3, <2>4 DEF AnyOrder!Next
<1> QED
  BY <1>1, <1>2, OrderTypeCorrect, PTL DEF AnyOrder!Spec

(* What is given up on waits for something given up on as well: nothing is *)
(* stranded unless uses run in a cycle (or never end).                     *)
THEOREM StrandedItemsWait == AnyOrder!Spec => []AnyOrder!StrandedWait
<1>1. AnyOrder!Init => AnyOrder!StrandedWait
  BY DEF AnyOrder!Init, AnyOrder!StrandedWait
<1>2. AnyOrder!TypeOK /\ AnyOrder!StrandedWait /\ [AnyOrder!Next]_(AnyOrder!vars) => AnyOrder!StrandedWait'
  <2> SUFFICES ASSUME AnyOrder!TypeOK, AnyOrder!StrandedWait, [AnyOrder!Next]_(AnyOrder!vars)
               PROVE  AnyOrder!StrandedWait'
    OBVIOUS
  <2>1. CASE AnyOrder!GiveUp
    <3>1. ASSUME NEW x \in AnyOrder!Unemitted
          PROVE  uses[x] \cap AnyOrder!Unemitted # {}
      BY <2>1, <3>1 DEF AnyOrder!GiveUp, AnyOrder!Ready, AnyOrder!Unemitted, AnyOrder!TypeOK
    <3> QED
      BY <2>1, <3>1 DEF AnyOrder!GiveUp, AnyOrder!StrandedWait
  <2>2. CASE UNCHANGED <<uses, stranded>>
    BY <2>2 DEF AnyOrder!StrandedWait
  <2> QED
    BY <2>1, <2>2 DEF AnyOrder!Next, AnyOrder!Emit, AnyOrder!EmitStranded, AnyOrder!vars
<1> QED
  BY <1>1, <1>2, OrderTypeCorrect, PTL DEF AnyOrder!Spec

=============================================================================
