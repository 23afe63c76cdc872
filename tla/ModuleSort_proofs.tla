-------------------------- MODULE ModuleSort_proofs --------------------------
(***************************************************************************)
(* Proofs about ModuleSort, for every set of module lists: several FROM    *)
(* clauses for one module, modules of one name and missing ones included.  *)
(***************************************************************************)
EXTENDS ModuleSort, InOrder_proofs, SequenceTheorems

-----------------------------------------------------------------------------
(* The clauses that put a module into the lists of dependents.             *)

(* The clauses of module i for a module that has not been emitted.         *)
Waiting(i, placed) == UNION {Clauses(i, j) : j \in Indices \ placed}

LEMMA IndicesFinite ==
  ASSUME modules \in Seq(Module)
  PROVE  /\ Len(modules) \in Nat /\ Indices = 1 .. Len(modules)
         /\ Indices \in SUBSET Nat
         /\ \A S \in SUBSET Indices : S \in SUBSET Nat /\ IsFiniteSet(S)
<1>1. Len(modules) \in Nat /\ Indices = 1 .. Len(modules)
  BY DEF Indices
<1>2. IsFiniteSet(1 .. Len(modules))
  BY <1>1, FS_Interval
<1>3. \A S \in SUBSET Indices : IsFiniteSet(S)
  BY <1>1, <1>2, FS_Subset
<1>4. Indices \in SUBSET Nat
  BY <1>1
<1> QED
  BY <1>1, <1>3, <1>4

(* A clause is for one module at most, so that emitting a module takes     *)
(* away just the clauses that are for it.                                  *)
LEMMA ClausesFacts ==
  ASSUME modules \in Seq(Module), NEW i \in Indices
  PROVE  /\ \A S : S \subseteq DOMAIN modules[i].from =>
              IsFiniteSet(S) /\ Cardinality(S) \in Nat
         /\ \A j \in Indices : Clauses(i, j) \subseteq DOMAIN modules[i].from
         /\ \A j, k \in Indices : \A c \in Clauses(i, j) \cap Clauses(i, k) : j = k
         /\ Clauses(i, i) = {}
<1>1. modules[i] \in Module
  BY DEF Indices
<1>2. modules[i].from \in Seq(ModuleNames)
  BY <1>1 DEF Module
<1>3. Len(modules[i].from) \in Nat /\ DOMAIN modules[i].from = 1 .. Len(modules[i].from)
  BY <1>2
<1>4. IsFiniteSet(DOMAIN modules[i].from)
  BY <1>3, FS_Interval
<1>5. \A S : S \subseteq DOMAIN modules[i].from =>
        IsFiniteSet(S) /\ Cardinality(S) \in Nat
  BY <1>4, FS_Subset, FS_CardinalityType
<1>6. ASSUME NEW j \in Indices, NEW k \in Indices,
             NEW c \in Clauses(i, j) \cap Clauses(i, k)
      PROVE  j = k
  <2>1. j \in Nat /\ k \in Nat
    BY IndicesFinite
  <2>2. j <= k /\ k <= j
    BY <1>6 DEF Clauses, IsIndexOf
  <2> QED
    BY <2>1, <2>2
<1> QED
  BY <1>5, <1>6 DEF Clauses

LEMMA WaitingFacts ==
  ASSUME modules \in Seq(Module), NEW i \in Indices, NEW placed
  PROVE  /\ IsFiniteSet(Waiting(i, placed))
         /\ Cardinality(Waiting(i, placed)) \in Nat
         /\ Cardinality(Waiting(i, placed)) = 0 <=> Imports[i] \subseteq placed
<1>1. Waiting(i, placed) \subseteq DOMAIN modules[i].from
  BY ClausesFacts DEF Waiting
<1>2. IsFiniteSet(Waiting(i, placed)) /\ Cardinality(Waiting(i, placed)) \in Nat
  BY <1>1, ClausesFacts
<1>3. Waiting(i, placed) = {} <=> Imports[i] \subseteq placed
  BY DEF Waiting, Imports
<1> QED
  BY <1>2, <1>3, FS_EmptySet

LEMMA WaitingLess ==
  ASSUME modules \in Seq(Module), NEW i \in Indices, NEW placed,
         NEW idx \in Indices \ placed
  PROVE  Cardinality(Waiting(i, placed \cup {idx})) =
           Cardinality(Waiting(i, placed)) - Cardinality(Clauses(i, idx))
<1> DEFINE W == Waiting(i, placed)
           C == Clauses(i, idx)
<1>1. Waiting(i, placed \cup {idx}) = W \ C
  BY ClausesFacts DEF Waiting
<1>2. W \cap C = C
  BY DEF Waiting
<1>3. IsFiniteSet(W)
  BY WaitingFacts
<1> HIDE DEF W, C
<1>4. Cardinality(W \ C) = Cardinality(W) - Cardinality(W \cap C)
  BY <1>3, FS_Difference
<1> QED
  BY <1>1, <1>2, <1>4 DEF W, C

-----------------------------------------------------------------------------
(* The inductive invariant.                                                *)

Members(s) == {s[k] : k \in DOMAIN s}

NoneTwice(s) == \A j, k \in DOMAIN s : s[j] = s[k] => j = k

(* While the queue is emptied, a degree counts the clauses for modules that*)
(* have not been emitted, and the queue has the modules that wait for none.*)
QueueInv ==
  phase = "emit" =>
    /\ cursor = 1
    /\ \A i \in Indices : inDegree[i] = Cardinality(Waiting(i, Placed))
    /\ Members(q) = {i \in Indices \ Placed : Imports[i] \subseteq Placed}
    /\ NoneTwice(q)
    /\ \A i \in Placed : Imports[i] \subseteq Placed

(* Afterwards nothing that was not released could have been, and the append*)
(* loop has passed over the modules before cursor.                         *)
AppendInv ==
  phase \in {"append", "done"} =>
    /\ phase = "append" => cursor \in Indices
    /\ emitted = {modules[i].name : i \in Released}
    /\ \A i \in Released : Imports[i] \subseteq Released
    /\ \A i \in Indices \ Released :
         /\ ~ (Imports[i] \subseteq Released)
         /\ i \in Placed <=> /\ modules[i].name \notin emitted
                             /\ phase = "append" => i < cursor

IInv == TypeOK /\ NoneTwice(result) /\ QueueInv /\ AppendInv

LEMMA PlacedIndices ==
  ASSUME TypeOK
  PROVE  Placed \subseteq Indices
BY DEF TypeOK, Placed

(* t lists what s does and the members of a set.                           *)
Adds(t, s, X) == Members(t) = Members(s) \cup X

(* t lists what s does but its head, and what a does.                      *)
Moves(t, s, a) == Members(t) = (Members(s) \ {Head(s)}) \cup Members(a)

LEMMA Appended ==
  ASSUME NEW S, NEW s \in Seq(S), NEW x \in S, NEW t, t = Append(s, x)
  PROVE  /\ t \in Seq(S)
         /\ Adds(t, s, {x})
         /\ NoneTwice(s) /\ x \notin Members(s) => NoneTwice(t)
<1>1. /\ DOMAIN s = 1 .. Len(s) /\ Len(s) \in Nat
      /\ t \in Seq(S) /\ DOMAIN t = DOMAIN s \cup {Len(s) + 1}
      /\ Len(s) + 1 \notin DOMAIN s
      /\ \A k \in DOMAIN s : t[k] = s[k]
      /\ t[Len(s) + 1] = x
  OBVIOUS
<1>2. Members(t) = Members(s) \cup {x}
  BY <1>1 DEF Members
<1>3. ASSUME NoneTwice(s), x \notin Members(s)
      PROVE  NoneTwice(t)
  <2>1. \A k \in DOMAIN s : s[k] # x
    BY <1>3 DEF Members
  <2> QED
    BY <1>1, <1>3, <2>1 DEF NoneTwice
<1> QED
  BY <1>1, <1>2, <1>3 DEF Adds

(* The queue after its head was taken and others were put behind it.       *)
LEMMA Requeued ==
  ASSUME NEW S, NEW s \in Seq(S), s # <<>>, NoneTwice(s),
         NEW a \in Seq(S), NoneTwice(a),
         \A j \in DOMAIN s, k \in DOMAIN a : s[j] # a[k],
         NEW t, t = Tail(s) \o a
  PROVE  /\ t \in Seq(S)
         /\ Moves(t, s, a)
         /\ NoneTwice(t)
<1> DEFINE n == Len(s) - 1
<1>1. /\ Len(s) \in Nat /\ Len(s) >= 1 /\ n \in Nat /\ DOMAIN s = 1 .. n + 1
      /\ Len(a) \in Nat /\ DOMAIN a = 1 .. Len(a) /\ Head(s) = s[1]
  BY EmptySeq
<1>2. /\ Tail(s) \in Seq(S) /\ Len(Tail(s)) = n
      /\ \A k \in 1 .. n : Tail(s)[k] = s[k + 1]
  BY HeadTailProperties
<1>3. /\ t \in Seq(S) /\ DOMAIN t = 1 .. n + Len(a)
      /\ \A k \in 1 .. n : t[k] = s[k + 1]
      /\ \A k \in 1 .. Len(a) : t[n + k] = a[k]
  BY <1>1, <1>2
<1> HIDE DEF n
<1>4. \A k \in DOMAIN t : k \in 1 .. n \/ (k - n \in 1 .. Len(a) /\ k = n + (k - n))
  BY <1>1, <1>3
<1>5. \A k \in DOMAIN t :
        \/ k \in 1 .. n /\ k + 1 \in DOMAIN s /\ t[k] = s[k + 1]
        \/ k - n \in DOMAIN a /\ t[k] = a[k - n]
  BY <1>1, <1>3, <1>4
<1>6. NoneTwice(t)
  <2> SUFFICES ASSUME NEW j \in DOMAIN t, NEW k \in DOMAIN t, t[j] = t[k]
               PROVE  j = k
    BY DEF NoneTwice
  <2>1. j \in Int /\ k \in Int /\ n \in Int
    BY <1>1, <1>3
  <2>2. CASE j \in 1 .. n /\ k \in 1 .. n
    <3>1. j + 1 \in DOMAIN s /\ k + 1 \in DOMAIN s /\ s[j + 1] = s[k + 1]
      BY <1>1, <1>3, <2>2
    <3> QED
      BY <2>1, <3>1 DEF NoneTwice
  <2>3. CASE j \in 1 .. n /\ k \notin 1 .. n
    <3>1. j + 1 \in DOMAIN s /\ t[j] = s[j + 1]
      BY <1>1, <1>3, <2>3
    <3>2. k - n \in DOMAIN a /\ t[k] = a[k - n]
      BY <1>5, <2>3
    <3> QED
      BY <3>1, <3>2
  <2>4. CASE j \notin 1 .. n /\ k \in 1 .. n
    <3>1. k + 1 \in DOMAIN s /\ t[k] = s[k + 1]
      BY <1>1, <1>3, <2>4
    <3>2. j - n \in DOMAIN a /\ t[j] = a[j - n]
      BY <1>5, <2>4
    <3> QED
      BY <3>1, <3>2
  <2>5. CASE j \notin 1 .. n /\ k \notin 1 .. n
    <3>1. j - n \in DOMAIN a /\ k - n \in DOMAIN a /\ a[j - n] = a[k - n]
      BY <1>5, <2>5
    <3> QED
      BY <2>1, <3>1 DEF NoneTwice
  <2> QED
    BY <2>2, <2>3, <2>4, <2>5
<1>7. ASSUME NEW k \in DOMAIN t
      PROVE  t[k] \in (Members(s) \ {Head(s)}) \cup Members(a)
  <2>1. CASE k \in 1 .. n /\ k + 1 \in DOMAIN s /\ t[k] = s[k + 1]
    <3>1. k + 1 # 1 /\ 1 \in DOMAIN s
      BY <1>1, <2>1
    <3>2. s[k + 1] # s[1]
      BY <2>1, <3>1 DEF NoneTwice
    <3> QED
      BY <1>1, <2>1, <3>2 DEF Members
  <2>2. CASE k - n \in DOMAIN a /\ t[k] = a[k - n]
    BY <2>2 DEF Members
  <2> QED
    BY <1>5, <2>1, <2>2
<1>8. ASSUME NEW m \in DOMAIN s, s[m] # Head(s)
      PROVE  s[m] \in Members(t)
  <2>1. m # 1
    BY <1>1, <1>8
  <2>2. m - 1 \in 1 .. n /\ m - 1 \in DOMAIN t /\ (m - 1) + 1 = m
    BY <1>1, <1>3, <2>1
  <2>3. t[m - 1] = s[m]
    BY <1>3, <2>2
  <2> QED
    BY <2>2, <2>3 DEF Members
<1>9. ASSUME NEW m \in DOMAIN a
      PROVE  a[m] \in Members(t)
  <2>1. n + m \in DOMAIN t /\ t[n + m] = a[m]
    BY <1>1, <1>3
  <2> QED
    BY <2>1 DEF Members
<1>10. Members(t) \subseteq (Members(s) \ {Head(s)}) \cup Members(a)
  BY <1>7 DEF Members
<1>11. Members(s) \ {Head(s)} \subseteq Members(t)
  <2>1. ASSUME NEW x \in Members(s) \ {Head(s)}
        PROVE  x \in Members(t)
    <3>1. PICK m \in DOMAIN s : x = s[m]
      BY DEF Members
    <3> QED
      BY <1>8, <3>1
  <2> QED
    BY <2>1
<1>12. Members(a) \subseteq Members(t)
  <2>1. ASSUME NEW x \in Members(a)
        PROVE  x \in Members(t)
    <3>1. PICK m \in DOMAIN a : x = a[m]
      BY DEF Members
    <3> QED
      BY <1>9, <3>1
  <2> QED
    BY <2>1
<1> QED
  BY <1>3, <1>6, <1>10, <1>11, <1>12 DEF Moves

LEMMA AscendingList ==
  ASSUME NEW S \in SUBSET Nat, IsFiniteSet(S)
  PROVE  /\ Ascending(S) \in Seq(S)
         /\ Members(Ascending(S)) = S
         /\ NoneTwice(Ascending(S))
<1>1. Ascending(S) \in Seq(S) /\ DOMAIN Ascending(S) = 1 .. Cardinality(S)
  BY AscendingFacts
<1>2. \A k \in DOMAIN Ascending(S) : Ascending(S)[k] \in S
  <2> DEFINE list == Ascending(S)
  <2>1. list \in Seq(S)
    BY <1>1
  <2> HIDE DEF list
  <2>2. \A k \in DOMAIN list : list[k] \in S
    BY <2>1
  <2> QED
    BY <2>2 DEF list
<1>3. NoneTwice(Ascending(S))
  BY <1>1, AscendingFacts DEF NoneTwice
<1>4. \A x \in S : \E k \in DOMAIN Ascending(S) : Ascending(S)[k] = x
  BY <1>1, AscendingFacts
<1>5. Members(Ascending(S)) = S
  BY <1>2, <1>4 DEF Members
<1> QED
  BY <1>1, <1>3, <1>5

LEMMA InitIInv == Init => IInv
<1> SUFFICES ASSUME Init
             PROVE  IInv
  OBVIOUS
<1>1. modules \in Seq(Module) /\ result = <<>> /\ phase = "emit" /\ cursor = 1
      /\ emitted = {} /\ Placed = {}
  BY InputsAssumption DEF Init, Placed
<1> DEFINE S == {i \in Indices : Imports[i] = {}}
<1>2. S \in SUBSET Nat /\ IsFiniteSet(S)
  BY <1>1, IndicesFinite
<1>3. q = Ascending(S)
  BY DEF Init
<1> HIDE DEF S
<1>4. q \in Seq(S) /\ Members(q) = S /\ NoneTwice(q)
  BY <1>2, <1>3, AscendingList DEF Members
<1>5. q \in Seq(Indices)
  BY <1>4 DEF S
<1>6. \A i \in Indices : inDegree[i] = Cardinality(Waiting(i, Placed))
  BY <1>1 DEF Init, Waiting
<1>7. inDegree \in [Indices -> Nat]
  <2>1. \A i \in Indices : inDegree[i] \in Nat
    BY <1>1, <1>6, WaitingFacts
  <2> QED
    BY <2>1 DEF Init
<1>8. TypeOK
  BY <1>1, <1>5, <1>7, IndicesFinite DEF TypeOK
<1>9. QueueInv
  BY <1>1, <1>4, <1>6 DEF QueueInv, S
<1> QED
  BY <1>1, <1>8, <1>9 DEF IInv, AppendInv, NoneTwice

LEMMA InputFrozen ==
  ASSUME modules' = modules
  PROVE  /\ Indices' = Indices /\ Imports' = Imports
         /\ \A i, j : Clauses(i, j)' = Clauses(i, j)
         /\ \A i : ImportsOf(i)' = ImportsOf(i)
BY DEF Indices, Imports, Clauses, IsIndexOf, ImportsOf

(* The heart of the proof: a module enters the queue exactly when the last *)
(* of the modules it waits for is emitted.                                 *)
LEMMA PopModuleIInv ==
  ASSUME IInv, PopModule
  PROVE  IInv'
<1> DEFINE idx == Head(q)
           left(i) == inDegree[i] - Cardinality(Clauses(i, idx))
           S == {i \in Indices : idx \in Imports[i] /\ left(i) = 0}
           r == result'
           t == q'
           degree == inDegree'
<1>1. /\ phase = "emit" /\ phase' = "emit" /\ q # <<>>
      /\ r = Append(result, idx)
      /\ degree = [i \in Indices |-> left(i)]
      /\ t = Tail(q) \o Ascending(S)
      /\ UNCHANGED <<modules, emitted, cursor>>
  BY DEF PopModule
<1>2. /\ TypeOK /\ modules \in Seq(Module) /\ q \in Seq(Indices)
      /\ result \in Seq(Indices) /\ cursor = 1
      /\ \A i \in Indices : inDegree[i] = Cardinality(Waiting(i, Placed))
      /\ Members(q) = {i \in Indices \ Placed : Imports[i] \subseteq Placed}
      /\ NoneTwice(q) /\ NoneTwice(result)
      /\ \A i \in Placed : Imports[i] \subseteq Placed
  BY <1>1 DEF IInv, TypeOK, QueueInv
<1>3. Head(q) = q[1] /\ 1 \in DOMAIN q
  BY <1>1, <1>2
<1>4. idx \in Members(q)
  BY <1>3 DEF Members
<1>5. idx \in Indices \ Placed /\ Imports[idx] \subseteq Placed
  BY <1>2, <1>4
<1> HIDE DEF idx
<1>6. ASSUME NEW i \in Indices
      PROVE  /\ left(i) = Cardinality(Waiting(i, Placed \cup {idx}))
             /\ left(i) \in Nat
             /\ left(i) = 0 <=> Imports[i] \subseteq Placed \cup {idx}
  <2> DEFINE W == Waiting(i, Placed)
             less == Waiting(i, Placed \cup {idx})
  <2>1. Cardinality(less) = Cardinality(W) - Cardinality(Clauses(i, idx))
    BY <1>2, <1>5, WaitingLess
  <2>2. /\ Cardinality(less) \in Nat
        /\ Cardinality(less) = 0 <=> Imports[i] \subseteq Placed \cup {idx}
    BY <1>2, WaitingFacts
  <2>3. inDegree[i] = Cardinality(W)
    BY <1>2
  <2> HIDE DEF W, less
  <2> QED
    BY <2>1, <2>2, <2>3 DEF less
<1>7. idx \notin Imports[idx]
  BY <1>5 DEF Imports, Clauses
<1>8. S = {i \in Indices \ (Placed \cup {idx}) :
             idx \in Imports[i] /\ Imports[i] \subseteq Placed \cup {idx}}
  BY <1>2, <1>5, <1>6, <1>7
<1>9. S \in SUBSET Nat /\ IsFiniteSet(S) /\ S \subseteq Indices
  BY <1>2, IndicesFinite
<1>10. \A i \in Members(q) : i \notin S
  BY <1>2, <1>5, <1>8
<1> HIDE DEF S
<1>11. /\ Ascending(S) \in Seq(S)
       /\ Members(Ascending(S)) = S
       /\ NoneTwice(Ascending(S))
  BY <1>9, AscendingList
<1>12. Ascending(S) \in Seq(Indices)
  <2> DEFINE a == Ascending(S)
  <2>1. a \in Seq(S)
    BY <1>11
  <2> HIDE DEF a
  <2>2. Len(a) \in Nat /\ a \in [1 .. Len(a) -> S]
    BY <2>1
  <2>3. a \in [1 .. Len(a) -> Indices]
    BY <1>9, <2>2
  <2> QED
    BY <2>2, <2>3 DEF a
<1>13. \A j \in DOMAIN q, k \in DOMAIN Ascending(S) : q[j] # Ascending(S)[k]
  BY <1>10, <1>11 DEF Members
<1>14. /\ t \in Seq(Indices) /\ NoneTwice(t)
       /\ Members(t) = (Members(q) \ {idx}) \cup S
  <2> DEFINE a == Ascending(S)
  <2>1. /\ a \in Seq(Indices) /\ NoneTwice(a) /\ t = Tail(q) \o a
        /\ \A j \in DOMAIN q, k \in DOMAIN a : q[j] # a[k]
        /\ Members(a) = S
    BY <1>1, <1>11, <1>12, <1>13
  <2> HIDE DEF a, t
  <2> QED
    <3>1. Head(q) = idx
      BY DEF idx
    <3>2. q \in Seq(Indices) /\ q # <<>> /\ NoneTwice(q)
      BY <1>1, <1>2
    <3>3. a \in Seq(Indices) /\ NoneTwice(a)
      BY <2>1
    <3>4. \A j \in DOMAIN q, k \in DOMAIN a : q[j] # a[k]
      BY <2>1
    <3>5. t = Tail(q) \o a
      BY <2>1
    <3>6. t \in Seq(Indices)
      BY <3>2, <3>3, <3>4, <3>5, Requeued
    <3>7. NoneTwice(t)
      BY <3>2, <3>3, <3>4, <3>5, Requeued
    <3>8. Members(t) = (Members(q) \ {Head(q)}) \cup Members(a)
      <4>1. Moves(t, q, a)
        BY <3>2, <3>3, <3>4, <3>5, Requeued
      <4> QED
        BY <4>1 DEF Moves
    <3> QED
      BY <2>1, <3>1, <3>6, <3>7, <3>8
<1>15. /\ r \in Seq(Indices) /\ NoneTwice(r)
       /\ Members(r) = Placed \cup {idx}
  <2>1. Members(result) = Placed
    BY DEF Placed, Members
  <2>2. r = Append(result, idx)
    BY <1>1
  <2>3. result \in Seq(Indices)
    BY <1>2
  <2>4. idx \in Indices
    BY <1>5
  <2> HIDE DEF r
  <2>5. r \in Seq(Indices)
    BY <2>2, <2>3, <2>4, Appended
  <2>6. Members(r) = Members(result) \cup {idx}
    <3>1. Adds(r, result, {idx})
      BY <2>2, <2>3, <2>4, Appended
    <3> QED
      BY <3>1 DEF Adds
  <2>7. idx \notin Members(result) /\ NoneTwice(result)
    BY <1>2, <1>5, <2>1
  <2>8. NoneTwice(r)
    BY <2>2, <2>3, <2>4, <2>7, Appended
  <2> QED
    BY <2>1, <2>5, <2>6, <2>8
<1>16. Placed' = Placed \cup {idx} /\ Members(q)' = (Members(q) \ {idx}) \cup S
  BY <1>14, <1>15 DEF Placed, Members
<1>17. Indices' = Indices /\ Imports' = Imports
       /\ \A i, j : Clauses(i, j)' = Clauses(i, j)
  BY <1>1, InputFrozen
<1>18. \A i \in Indices : degree[i] = Cardinality(Waiting(i, Placed)')
  <2>1. \A i : Waiting(i, Placed)' = Waiting(i, Placed \cup {idx})
    BY <1>16, <1>17 DEF Waiting
  <2> QED
    BY <1>1, <1>6, <2>1
<1>19. degree \in [Indices -> Nat]
  BY <1>1, <1>6
<1> HIDE DEF r, t, degree
<1>20. TypeOK'
  BY <1>1, <1>2, <1>14, <1>15, <1>17, <1>19 DEF TypeOK, r, t, degree
<1>21. (Members(q) \ {idx}) \cup S =
         {i \in Indices \ (Placed \cup {idx}) : Imports[i] \subseteq Placed \cup {idx}}
  BY <1>2, <1>5, <1>8
<1>22. \A i \in Placed \cup {idx} : Imports[i] \subseteq Placed \cup {idx}
  BY <1>2, <1>5
<1>23. QueueInv'
  BY <1>1, <1>2, <1>14, <1>16, <1>17, <1>18, <1>21, <1>22
     DEF QueueInv, r, t, degree, NoneTwice
<1>24. AppendInv'
  BY <1>1 DEF AppendInv
<1> QED
  BY <1>15, <1>20, <1>23, <1>24 DEF IInv, NoneTwice, r

(* If the queue has emitted as many modules as there are, it has emitted   *)
(* them all.                                                               *)
LEMMA FullResult ==
  ASSUME TypeOK, NoneTwice(result), ~ (Len(result) < Len(modules))
  PROVE  Placed = Indices
<1> DEFINE S == 1 .. Len(result)
           T == 1 .. Len(modules)
<1>1. /\ Len(result) \in Nat /\ Len(modules) \in Nat
      /\ DOMAIN result = S /\ Indices = T /\ result \in [S -> T]
  BY DEF TypeOK, Indices
<1>2. result \in Injection(S, T)
  BY <1>1 DEF Injection, IsInjective, NoneTwice
<1>3. /\ IsFiniteSet(S) /\ Cardinality(S) = Len(result)
      /\ IsFiniteSet(T) /\ Cardinality(T) = Len(modules)
  <2>1. ASSUME NEW n \in Nat
        PROVE  IsFiniteSet(1 .. n) /\ Cardinality(1 .. n) = n
    BY <2>1, FS_Interval
  <2> QED
    BY <1>1, <2>1
<1>4. /\ Cardinality(S) <= Cardinality(T)
      /\ Cardinality(S) = Cardinality(T) <=> result \in Surjection(S, T)
  <2> HIDE DEF S, T
  <2> QED
    BY <1>2, <1>3, FS_Injection
<1>5. result \in Surjection(S, T)
  BY <1>1, <1>3, <1>4
<1> QED
  BY <1>1, <1>5 DEF Surjection, Placed

LEMMA QueueDrainedIInv ==
  ASSUME IInv, QueueDrained
  PROVE  IInv'
<1> DEFINE e == emitted'
           p == phase'
<1>1. /\ phase = "emit" /\ q = <<>> /\ e = {modules[i].name : i \in Placed}
      /\ p = IF Len(result) < Len(modules) THEN "append" ELSE "done"
      /\ UNCHANGED <<modules, inDegree, q, result, cursor>>
  BY DEF QueueDrained
<1>2. /\ TypeOK /\ NoneTwice(result) /\ cursor = 1 /\ Placed \subseteq Indices
      /\ Members(q) = {i \in Indices \ Placed : Imports[i] \subseteq Placed}
      /\ \A i \in Placed : Imports[i] \subseteq Placed
  BY <1>1, PlacedIndices DEF IInv, QueueInv
<1>3. p \in {"append", "done"} /\ (p = "done" => ~ (Len(result) < Len(modules)))
  BY <1>1
<1>4. \A i \in Indices \ Placed : ~ (Imports[i] \subseteq Placed)
  <2>1. Members(q) = {}
    BY <1>1 DEF Members
  <2> QED
    BY <1>2, <2>1
<1>5. p = "done" => Placed = Indices
  BY <1>2, <1>3, FullResult
<1>6. Indices' = Indices /\ Imports' = Imports /\ Placed' = Placed
  BY <1>1, InputFrozen DEF Placed
<1>7. {i \in Placed : modules[i].name \in e} = Placed
  BY <1>1
<1>8. \A i \in Indices : i \in Nat /\ ~ (i < 1)
  BY <1>2, IndicesFinite DEF TypeOK
<1>9. modules \in Seq(Module)
  BY <1>2 DEF TypeOK
<1>10. e \subseteq ModuleNames
  <2>1. \A i \in Indices : modules[i] \in Module
    BY <1>9 DEF Indices
  <2> QED
    BY <1>1, <1>2, <2>1 DEF Module
<1> HIDE DEF e, p
<1>11. Released' = Placed
  BY <1>1, <1>6, <1>7 DEF Released, e
<1>15. p = "append" => 1 \in Indices
  <2>1. Len(result) \in Nat /\ Len(modules) \in Nat /\ Indices = 1 .. Len(modules)
    BY <1>2, <1>9, IndicesFinite DEF TypeOK
  <2> QED
    BY <1>1, <2>1 DEF p
<1>12. TypeOK'
  BY <1>1, <1>2, <1>3, <1>6, <1>10 DEF TypeOK, e, p
<1>13. QueueInv'
  BY <1>3 DEF QueueInv, p
<1>14. AppendInv'
  <2>1. e = {modules[i].name : i \in Placed}
    BY <1>1
  <2>2. \A i \in Indices \ Placed :
          i \in Placed <=> modules[i].name \notin e /\ (p = "append" => i < 1)
    BY <1>3, <1>5, <1>8
  <2> QED
    BY <1>1, <1>2, <1>4, <1>6, <1>11, <1>15, <2>1, <2>2 DEF AppendInv, e, p
<1> QED
  BY <1>1, <1>2, <1>12, <1>13, <1>14 DEF IInv, NoneTwice

LEMMA AppendRestIInv ==
  ASSUME IInv, AppendRest
  PROVE  IInv'
<1> DEFINE r == result'
           p == phase'
           skipped == modules[cursor].name \in emitted
<1>1. /\ phase = "append"
      /\ r = IF skipped THEN result ELSE Append(result, cursor)
      /\ cursor' = cursor + 1
      /\ p = IF cursor = Len(modules) THEN "done" ELSE "append"
      /\ UNCHANGED <<modules, inDegree, q, emitted>>
  BY DEF AppendRest
<1>2. /\ TypeOK /\ NoneTwice(result) /\ Placed \subseteq Indices
      /\ cursor \in Indices
      /\ emitted = {modules[i].name : i \in Released}
      /\ \A i \in Released : Imports[i] \subseteq Released
      /\ \A i \in Indices \ Released :
           /\ ~ (Imports[i] \subseteq Released)
           /\ i \in Placed <=> modules[i].name \notin emitted /\ i < cursor
  BY <1>1, PlacedIndices DEF IInv, AppendInv
<1>3. /\ modules \in Seq(Module) /\ result \in Seq(Indices)
      /\ Len(modules) \in Nat /\ Indices = 1 .. Len(modules)
  BY <1>2, IndicesFinite DEF TypeOK
<1>4. p \in {"append", "done"} /\ (p = "done" <=> cursor = Len(modules))
  BY <1>1
<1>5. /\ r \in Seq(Indices) /\ NoneTwice(r)
      /\ Members(r) = IF skipped THEN Placed ELSE Placed \cup {cursor}
  <2>1. Members(result) = Placed
    BY DEF Members, Placed
  <2>2. CASE skipped
    BY <1>1, <1>2, <1>3, <2>1, <2>2
  <2>3. CASE ~ skipped
    <3>1. r = Append(result, cursor)
      BY <1>1, <2>3
    <3>2. cursor \notin Placed
      <4>1. cursor \notin Released
        BY <1>2, <2>3 DEF Released
      <4> QED
        BY <1>2, <1>3, <4>1
    <3>3. result \in Seq(Indices)
      BY <1>3
    <3>4. cursor \in Indices
      BY <1>2
    <3>5. NoneTwice(result) /\ cursor \notin Members(result)
      BY <1>2, <2>1, <3>2
    <3> HIDE DEF r, skipped
    <3>6. r \in Seq(Indices)
      BY <3>1, <3>3, <3>4, Appended
    <3>7. NoneTwice(r)
      BY <3>1, <3>3, <3>4, <3>5, Appended
    <3>8. Adds(r, result, {cursor})
      BY <3>1, <3>3, <3>4, Appended
    <3> QED
      BY <2>1, <2>3, <3>6, <3>7, <3>8 DEF Adds
  <2> QED
    BY <2>2, <2>3
<1>6. Indices' = Indices /\ Imports' = Imports /\ Placed' = Members(r)
  BY <1>1, InputFrozen DEF Placed, Members
<1>7. {i \in Members(r) : modules[i].name \in emitted} = Released
  BY <1>5 DEF Released
<1>8. Released' = Released
  BY <1>1, <1>6, <1>7 DEF Released
<1>9. \A i \in Indices \ Released :
        i \in Members(r) <=>
          modules[i].name \notin emitted /\ (p = "append" => i < cursor + 1)
  <2> SUFFICES ASSUME NEW i \in Indices \ Released
               PROVE  i \in Members(r) <=>
                        modules[i].name \notin emitted /\ (p = "append" => i < cursor + 1)
    OBVIOUS
  <2>1. i \in Placed <=> modules[i].name \notin emitted /\ i < cursor
    BY <1>2
  <2>2. /\ i < cursor + 1 <=> i < cursor \/ i = cursor
        /\ p = "done" => i < cursor + 1
    BY <1>2, <1>3, <1>4
  <2>3. i \in Members(r) <=> i \in Placed \/ (~ skipped /\ i = cursor)
    BY <1>5
  <2> QED
    BY <1>4, <2>1, <2>2, <2>3
<1>10. cursor + 1 \in 1 .. Len(modules) + 1 /\ (p = "append" => cursor + 1 \in Indices)
  BY <1>2, <1>3, <1>4
<1> HIDE DEF r, p
<1>11. TypeOK'
  BY <1>1, <1>2, <1>4, <1>5, <1>6, <1>10 DEF TypeOK, r, p
<1>12. QueueInv'
  BY <1>4 DEF QueueInv, p
<1>13. AppendInv'
  BY <1>1, <1>2, <1>6, <1>8, <1>9, <1>10 DEF AppendInv, p
<1> QED
  BY <1>5, <1>11, <1>12, <1>13 DEF IInv, NoneTwice, r

LEMMA NextIInv == IInv /\ [Next]_vars => IInv'
<1> SUFFICES ASSUME IInv, [Next]_vars
             PROVE  IInv'
  OBVIOUS
<1>1. CASE PopModule
  BY <1>1, PopModuleIInv
<1>2. CASE QueueDrained
  BY <1>2, QueueDrainedIInv
<1>3. CASE AppendRest
  BY <1>3, AppendRestIInv
<1>4. CASE UNCHANGED vars
  <2>1. /\ UNCHANGED <<modules, phase, inDegree, q, result, emitted, cursor>>
        /\ Indices' = Indices /\ Imports' = Imports
        /\ \A i, j : Clauses(i, j)' = Clauses(i, j)
    BY <1>4, InputFrozen DEF vars
  <2>2. Placed' = Placed /\ Released' = Released /\ Members(q)' = Members(q)
    BY <2>1 DEF Placed, Released, Members
  <2>3. \A i : Waiting(i, Placed)' = Waiting(i, Placed)
    BY <2>1, <2>2 DEF Waiting
  <2>4. TypeOK'
    BY <2>1 DEF IInv, TypeOK
  <2>5. QueueInv'
    BY <2>1, <2>2, <2>3 DEF IInv, QueueInv, NoneTwice
  <2>6. AppendInv'
    BY <2>1, <2>2 DEF IInv, AppendInv
  <2> QED
    BY <2>1, <2>4, <2>5, <2>6 DEF IInv, NoneTwice
<1> QED
  BY <1>1, <1>2, <1>3, <1>4 DEF Next

LEMMA Invariance == Spec => []IInv
BY InitIInv, NextIInv, PTL DEF Spec

-----------------------------------------------------------------------------

(* Degrees stay natural numbers: no clause is taken off twice.             *)
THEOREM ModuleSortTypeCorrect == Spec => []TypeOK
<1>1. IInv => TypeOK
  BY DEF IInv
<1> QED
  BY <1>1, Invariance, PTL

(* Every module is emitted once, whatever its FROM clauses name and however*)
(* often its file was read; a module is dropped only in favour of another  *)
(* of its name that imports from other modules.                            *)
THEOREM ModulesAreEmitted == Spec => []EveryModuleOnce
<1>1. ASSUME IInv PROVE EveryModuleOnce
  <2> SUFFICES ASSUME phase = "done", NEW i \in Indices \ Placed
               PROVE  \E j \in Placed :
                        modules[j].name = modules[i].name /\ ImportsOf(j) # ImportsOf(i)
    BY <1>1 DEF EveryModuleOnce, IInv, NoneTwice
  <2>1. /\ emitted = {modules[j].name : j \in Released}
        /\ \A j \in Released : Imports[j] \subseteq Released
        /\ Released \subseteq Placed /\ i \notin Released
        /\ ~ (Imports[i] \subseteq Released) /\ modules[i].name \in emitted
    BY <1>1 DEF IInv, AppendInv, Released
  <2>2. PICK j \in Released : modules[j].name = modules[i].name
    BY <2>1
  <2>3. ASSUME ImportsOf(j) = ImportsOf(i)
        PROVE  FALSE
    <3>1. PICK m \in Imports[i] : m \notin Released
      BY <2>1
    <3>2. m \in Indices /\ Clauses(i, m) # {}
      BY <3>1 DEF Imports
    <3>3. PICK c \in DOMAIN modules[i].from : IsIndexOf(m, modules[i].from[c])
      BY <3>2 DEF Clauses
    <3>4. modules[i].from[c] \in ImportsOf(j)
      BY <2>3 DEF ImportsOf
    <3>5. PICK d \in DOMAIN modules[j].from : modules[j].from[d] = modules[i].from[c]
      BY <3>4 DEF ImportsOf
    <3>6. j # m
      BY <2>2, <3>1
    <3>7. d \in Clauses(j, m)
      BY <3>3, <3>5, <3>6 DEF Clauses
    <3>8. j \in Indices
      BY <1>1, <2>1, <2>2, PlacedIndices DEF IInv
    <3>9. m \in Imports[j]
      BY <3>2, <3>7, <3>8 DEF Imports
    <3> QED
      BY <2>1, <2>2, <3>1, <3>9
  <2> QED
    BY <2>1, <2>2, <2>3
<1> QED
  BY <1>1, Invariance, PTL

(* The sort implements DependencyOrder: it emits a module only when all    *)
(* that it imports from have been emitted, or when no module is in that    *)
(* position any more.                                                      *)
THEOREM ModuleSortImplementsOrder == Spec => OrderSpec
<1>1. TypeOK => /\ DOMAIN Imports = Indices
                /\ Order!Emitted = Placed /\ Order!Unemitted = Indices \ Placed
  BY DEF Imports, Order!Emitted, Order!Unemitted, Placed
<1>2. Init => Order!Init
  <2> SUFFICES ASSUME Init
               PROVE  Order!Init
    OBVIOUS
  <2>1. modules \in Seq(Module)
    BY InputsAssumption DEF Init
  <2>2. Indices \subseteq Nat
    BY <2>1, IndicesFinite
  <2>3. Imports \in [Indices -> SUBSET Indices] /\ DOMAIN Imports = Indices
    BY DEF Imports
  <2>4. Stranded = {} /\ result = <<>>
    BY DEF Init, Stranded
  <2> QED
    BY <2>2, <2>3, <2>4 DEF Order!Init
<1>3. IInv /\ [Next]_vars => [Order!Next]_(Order!vars)
  <2> SUFFICES ASSUME IInv, [Next]_vars
               PROVE  [Order!Next]_(Order!vars)
    OBVIOUS
  <2>1. TypeOK /\ Placed \subseteq Indices /\ DOMAIN Imports = Indices
    BY PlacedIndices DEF IInv, Imports
  <2>2. CASE PopModule
    <3> DEFINE idx == Head(q)
    <3>1. /\ phase = "emit" /\ phase' = "emit" /\ q # <<>>
          /\ result' = Append(result, idx) /\ modules' = modules
      BY <2>2 DEF PopModule
    <3>2. idx \in Members(q)
      <4>1. q \in Seq(Indices)
        BY <2>1 DEF TypeOK
      <4>2. Head(q) = q[1] /\ 1 \in DOMAIN q
        BY <3>1, <4>1
      <4> QED
        BY <4>2 DEF Members
    <3>3. idx \in Indices \ Placed /\ Imports[idx] \subseteq Placed
      BY <3>1, <3>2 DEF IInv, QueueInv
    <3>4. Stranded = {} /\ Stranded' = {} /\ Imports' = Imports
      BY <3>1, InputFrozen DEF Stranded
    <3>5. idx \in Order!Ready
      BY <1>1, <2>1, <3>3 DEF Order!Ready
    <3> HIDE DEF idx
    <3>6. Order!Emit(idx)
      BY <3>1, <3>4, <3>5 DEF Order!Emit
    <3> QED
      BY <2>1, <3>3, <3>6 DEF Order!Next
  <2>3. CASE QueueDrained
    <3>1. /\ phase = "emit" /\ phase' \in {"append", "done"} /\ q = <<>>
          /\ emitted' = {modules[i].name : i \in Placed}
          /\ UNCHANGED <<modules, result>>
      BY <2>3 DEF QueueDrained
    <3>2. Imports' = Imports /\ Indices' = Indices /\ Placed' = Placed
      BY <3>1, InputFrozen DEF Placed
    <3>3. Released' = Placed
      BY <3>1, <3>2 DEF Released
    <3>4. Stranded = {} /\ Stranded' = Order!Unemitted
      BY <1>1, <2>1, <3>1, <3>2, <3>3 DEF Stranded
    <3>5. Order!Ready = {}
      <4>1. Members(q) = {}
        BY <3>1 DEF Members
      <4> QED
        BY <1>1, <2>1, <3>1, <4>1 DEF Order!Ready, IInv, QueueInv
    <3>6. CASE Order!Unemitted = {}
      BY <3>1, <3>2, <3>4, <3>6 DEF Order!vars
    <3>7. CASE Order!Unemitted # {}
      BY <3>1, <3>2, <3>4, <3>5, <3>7 DEF Order!GiveUp, Order!Next
    <3> QED
      BY <3>6, <3>7
  <2>4. CASE AppendRest
    <3>1. /\ phase = "append" /\ phase' \in {"append", "done"}
          /\ result' = IF modules[cursor].name \in emitted THEN result
                                                          ELSE Append(result, cursor)
          /\ UNCHANGED <<modules, emitted>> /\ cursor \in Indices
      BY <2>4 DEF AppendRest, IInv, AppendInv
    <3>2. Imports' = Imports /\ Indices' = Indices
      BY <3>1, InputFrozen
    <3>3. CASE modules[cursor].name \in emitted
      <4>1. result' = result /\ Placed' = Placed
        BY <3>1, <3>3 DEF Placed
      <4>2. Stranded' = Stranded
        BY <3>1, <3>2, <4>1 DEF Stranded, Released
      <4> QED
        BY <3>2, <4>1, <4>2 DEF Order!vars
    <3>4. CASE modules[cursor].name \notin emitted
      <4>1. result' = Append(result, cursor)
        BY <3>1, <3>4
      <4>2. Placed' = Placed \cup {cursor}
        <5>1. result \in Seq(Indices)
          BY <2>1 DEF TypeOK
        <5>2. Adds(result', result, {cursor})
          BY <3>1, <4>1, <5>1, Appended
        <5> QED
          BY <5>2 DEF Adds, Placed, Members
      <4>3. Released' = Released
        BY <3>1, <3>4, <4>2 DEF Released
      <4>4. Stranded' = Stranded /\ cursor \in Stranded
        BY <3>1, <3>2, <3>4, <4>3 DEF Stranded, Released
      <4>5. Order!EmitStranded(cursor)
        BY <3>2, <4>1, <4>4 DEF Order!EmitStranded
      <4> QED
        BY <2>1, <3>1, <4>5 DEF Order!Next
    <3> QED
      BY <3>3, <3>4
  <2>5. CASE UNCHANGED vars
    <3>1. UNCHANGED <<modules, phase, result, emitted>>
      BY <2>5 DEF vars
    <3>2. Imports' = Imports /\ Indices' = Indices /\ Placed' = Placed
      BY <3>1, InputFrozen DEF Placed
    <3>3. Stranded' = Stranded
      BY <3>1, <3>2 DEF Stranded, Released
    <3> QED
      BY <3>1, <3>2, <3>3 DEF Order!vars
  <2> QED
    BY <2>2, <2>3, <2>4, <2>5 DEF Next
<1> QED
  BY <1>2, <1>3, Invariance, PTL DEF Spec, OrderSpec, Order!Spec

=============================================================================
