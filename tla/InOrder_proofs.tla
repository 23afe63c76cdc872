--------------------------- MODULE InOrder_proofs ---------------------------
(***************************************************************************)
(* What a loop over a finite set meets: every member, once, and in order.  *)
(***************************************************************************)
EXTENDS InOrder, Integers, Sequences, FiniteSetTheorems, WellFoundedInduction, TLAPS

IsOrder(S, before) ==
  /\ \A x \in S : <<x, x>> \notin before
  /\ \A x, y, z \in S : <<x, y>> \in before /\ <<y, z>> \in before => <<x, z>> \in before
  /\ \A x, y \in S : x = y \/ <<x, y>> \in before \/ <<y, x>> \in before

(* What is met earlier has fewer members before it.                        *)
LEMMA EarlierCounts ==
  ASSUME NEW S, IsFiniteSet(S), NEW before, IsOrder(S, before),
         NEW x \in S, NEW y \in S, <<x, y>> \in before
  PROVE  /\ Cardinality(Earlier(S, before, x)) \in Nat
         /\ Cardinality(Earlier(S, before, y)) \in Nat
         /\ Cardinality(Earlier(S, before, x)) < Cardinality(Earlier(S, before, y))
<1> DEFINE A == Earlier(S, before, x)
           B == Earlier(S, before, y)
<1>1. A \in SUBSET S /\ B \in SUBSET S
  BY DEF Earlier
<1>2. A \in SUBSET B /\ x \in B /\ x \notin A
  BY DEF Earlier, IsOrder
<1> HIDE DEF A, B
<1>3. IsFiniteSet(B)
  BY <1>1, FS_Subset
<1>4. IsFiniteSet(A) /\ Cardinality(A) <= Cardinality(B)
      /\ (Cardinality(B) = Cardinality(A) => A = B)
  BY <1>2, <1>3, FS_Subset
<1>5. Cardinality(A) \in Nat /\ Cardinality(B) \in Nat
  BY <1>3, <1>4, FS_CardinalityType
<1>6. Cardinality(A) < Cardinality(B)
  BY <1>2, <1>4, <1>5
<1> QED
  BY <1>5, <1>6 DEF A, B

(* So each count below the number of members is that of exactly one.       *)
LEMMA EarlierIsPlace ==
  ASSUME NEW S, IsFiniteSet(S), NEW before, IsOrder(S, before)
  PROVE  /\ Cardinality(S) \in Nat
         /\ \A x \in S : Cardinality(Earlier(S, before, x)) \in 0 .. Cardinality(S) - 1
         /\ \A x, y \in S :
              Cardinality(Earlier(S, before, x)) = Cardinality(Earlier(S, before, y))
                => x = y
         /\ \A n \in 0 .. Cardinality(S) - 1 :
              \E x \in S : Cardinality(Earlier(S, before, x)) = n
<1> DEFINE place == [x \in S |-> Cardinality(Earlier(S, before, x))]
           T == 0 .. Cardinality(S) - 1
<1>1. Cardinality(S) \in Nat
  BY FS_CardinalityType
<1>2. ASSUME NEW x \in S
      PROVE  place[x] \in T
  <2>1. Earlier(S, before, x) \in SUBSET S /\ x \notin Earlier(S, before, x)
    BY DEF Earlier, IsOrder
  <2>2. /\ IsFiniteSet(Earlier(S, before, x))
        /\ Cardinality(Earlier(S, before, x)) <= Cardinality(S)
        /\ Cardinality(S) = Cardinality(Earlier(S, before, x)) =>
             S = Earlier(S, before, x)
    BY <2>1, FS_Subset
  <2>3. Cardinality(Earlier(S, before, x)) \in Nat
    BY <2>2, FS_CardinalityType
  <2> QED
    BY <1>1, <2>1, <2>2, <2>3
<1>3. ASSUME NEW x \in S, NEW y \in S, place[x] = place[y]
      PROVE  x = y
  <2>1. x = y \/ <<x, y>> \in before \/ <<y, x>> \in before
    BY DEF IsOrder
  <2>2. CASE <<x, y>> \in before
    BY <1>3, <2>2, EarlierCounts
  <2>3. CASE <<y, x>> \in before
    BY <1>3, <2>3, EarlierCounts
  <2> QED
    BY <2>1, <2>2, <2>3
<1>4. IsFiniteSet(T) /\ Cardinality(T) = Cardinality(S)
  <2>1. 0 \in Int /\ Cardinality(S) - 1 \in Int
    BY <1>1
  <2>2. /\ IsFiniteSet(0 .. Cardinality(S) - 1)
        /\ Cardinality(0 .. Cardinality(S) - 1) =
             IF 0 > Cardinality(S) - 1 THEN 0 ELSE (Cardinality(S) - 1) - 0 + 1
    BY <2>1, FS_Interval
  <2> QED
    BY <1>1, <2>2
<1>5. place \in [S -> T]
  BY <1>2
<1>6. place \in Injection(S, T)
  BY <1>3, <1>5 DEF Injection, IsInjective
<1>7. place \in Surjection(S, T)
  <2> HIDE DEF T, place
  <2> QED
    BY <1>4, <1>6, FS_Injection
<1>8. \A n \in T : \E x \in S : place[x] = n
  BY <1>7 DEF Surjection
<1> QED
  BY <1>1, <1>2, <1>3, <1>8

(* The list has every member of the set, once.                             *)
LEMMA InOrderFacts ==
  ASSUME NEW S, IsFiniteSet(S), NEW before, IsOrder(S, before)
  PROVE  /\ InOrder(S, before) \in Seq(S)
         /\ Len(InOrder(S, before)) = Cardinality(S)
         /\ \A x \in S : \E k \in 1 .. Cardinality(S) : InOrder(S, before)[k] = x
         /\ \A j, k \in 1 .. Cardinality(S) :
              InOrder(S, before)[j] = InOrder(S, before)[k] => j = k
<1> DEFINE place(x) == Cardinality(Earlier(S, before, x))
           list == InOrder(S, before)
           n == Cardinality(S)
<1>1. /\ n \in Nat
      /\ \A x \in S : place(x) \in 0 .. n - 1
      /\ \A x, y \in S : place(x) = place(y) => x = y
      /\ \A i \in 0 .. n - 1 : \E x \in S : place(x) = i
  BY EarlierIsPlace
<1>2. list = [k \in 1 .. n |-> CHOOSE x \in S : place(x) = k - 1]
  BY DEF InOrder
<1>3. ASSUME NEW k \in 1 .. n
      PROVE  list[k] \in S /\ place(list[k]) = k - 1
  <2>1. k - 1 \in 0 .. n - 1
    BY <1>1
  <2>2. \E x \in S : place(x) = k - 1
    BY <1>1, <2>1
  <2>3. list[k] = CHOOSE x \in S : place(x) = k - 1
    BY <1>2
  <2> HIDE DEF place
  <2> QED
    BY <2>2, <2>3
<1> HIDE DEF place, list, n
<1>4. list \in [1 .. n -> S]
  BY <1>2, <1>3
<1>5. list \in Seq(S) /\ Len(list) = n
  BY <1>1, <1>4
<1>6. ASSUME NEW x \in S
      PROVE  \E k \in 1 .. n : list[k] = x
  <2>1. place(x) + 1 \in 1 .. n /\ place(x) \in Nat
    BY <1>1
  <2>2. list[place(x) + 1] \in S /\ place(list[place(x) + 1]) = place(x)
    BY <1>3, <2>1
  <2> QED
    BY <1>1, <2>1, <2>2
<1>7. ASSUME NEW j \in 1 .. n, NEW k \in 1 .. n, list[j] = list[k]
      PROVE  j = k
  BY <1>1, <1>3, <1>7
<1> QED
  BY <1>5, <1>6, <1>7 DEF list, n

LEMMA AscendingFacts ==
  ASSUME NEW S \in SUBSET Nat, IsFiniteSet(S)
  PROVE  /\ Ascending(S) \in Seq(S)
         /\ Len(Ascending(S)) = Cardinality(S)
         /\ \A x \in S : \E k \in 1 .. Cardinality(S) : Ascending(S)[k] = x
         /\ \A j, k \in 1 .. Cardinality(S) :
              Ascending(S)[j] = Ascending(S)[k] => j = k
<1> DEFINE before == {p \in S \X S : p[1] < p[2]}
<1>1. \A x, y \in S : <<x, y>> \in before <=> x < y
  OBVIOUS
<1> HIDE DEF before
<1>2. IsOrder(S, before)
  BY <1>1 DEF IsOrder
<1>3. Ascending(S) = InOrder(S, before)
  BY DEF Ascending, before
<1> QED
  BY <1>2, <1>3, InOrderFacts

(* A search that stops at the first hit stops, if there is a hit.          *)
LEMMA FirstExists ==
  ASSUME NEW S \in SUBSET Nat, S # {}
  PROVE  \E x \in S : \A y \in S : x <= y
<1> DEFINE below == {p \in Nat \X Nat : p[1] < p[2]}
<1>1. IsWellFoundedOn(below, Nat)
  BY NatLessThanWellFounded DEF OpToRel
<1>2. PICK x \in S : \A y \in S : ~ (<<y, x>> \in below)
  <2> HIDE DEF below
  <2> QED
    BY <1>1, WFMin
<1>3. \A y \in S : ~ (y < x)
  BY <1>2
<1> QED
  BY <1>2, <1>3

=============================================================================
