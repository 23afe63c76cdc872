----------------------- MODULE SequenceCodec_proofs -------------------------
(***************************************************************************)
(* Proofs about SequenceCodec: what one codec writes another reads, for    *)
(* messages of any length, any types and values, and either language,      *)
(* encoding rules and version at each end.                                 *)
(*                                                                         *)
(* Of each primitive P of UperPrimitives and MemberCodec it is shown what  *)
(* is written (PutPFacts: it is behind what is there), what is read when P *)
(* was written (PTrip: the value, and that the reader ends where the       *)
(* writer did) and what is read of any message (GetPFacts: the reader      *)
(* stays inside, and C++ gives a sound value or fails). WriterInv says     *)
(* what these make of a message, ReaderInv where the decoder is in it.     *)
(***************************************************************************)
EXTENDS SequenceCodec, InOrder_proofs, SequenceTheorems

-----------------------------------------------------------------------------
(***************************************************************************)
(* Loops and recursive definitions; powers of two.                         *)
(***************************************************************************)

(* A loop that keeps a property from its start keeps it to its end.        *)
LEMMA UpTo ==
  ASSUME NEW n \in Nat, NEW S, 0 \in S, \A j \in 0 .. n - 1 : j \in S => j + 1 \in S
  PROVE  0 .. n \subseteq S
<1> DEFINE missed == {j \in 0 .. n : j \notin S}
<1>1. SUFFICES ASSUME missed # {} PROVE FALSE
  OBVIOUS
<1>2. PICK j \in missed : \A k \in missed : j <= k
  <2>1. missed \in SUBSET Nat
    OBVIOUS
  <2> HIDE DEF missed
  <2> QED
    BY <1>1, <2>1, FirstExists
<1>3. j # 0 /\ j - 1 \in 0 .. n - 1 /\ j - 1 \notin missed
  BY <1>2
<1> QED
  BY <1>2, <1>3

(* What a recursive definition over 0 .. n asks for exists.                *)
IsCourse(f, n, D, first, step) ==
  /\ f \in [0 .. n -> D]
  /\ f = [j \in 0 .. n |-> IF j = 0 THEN first ELSE step[j][f[j - 1]]]

(* A step for every number up to n has a course from any start.            *)
LEMMA Iterated ==
  ASSUME NEW n \in Nat, NEW D, NEW first \in D, NEW step \in [1 .. n -> [D -> D]]
  PROVE  \E f : IsCourse(f, n, D, first, step)
<1> DEFINE Course(m) == {f \in [0 .. m -> D] :
             f[0] = first /\ \A j \in 1 .. m : f[j] = step[j][f[j - 1]]}
           S == {m \in 0 .. n : Course(m) # {}}
<1>1. 0 \in S
  <2>1. [j \in 0 .. 0 |-> first] \in Course(0)
    OBVIOUS
  <2> QED
    BY <2>1
<1>2. ASSUME NEW m \in 0 .. n - 1, m \in S
      PROVE  m + 1 \in S
  <2>1. PICK f : f \in Course(m)
    BY <1>2
  <2>2. step[m + 1][f[m]] \in D
    BY <2>1
  <2> DEFINE g == [j \in 0 .. m + 1 |-> IF j <= m THEN f[j] ELSE step[m + 1][f[m]]]
  <2>3. g \in [0 .. m + 1 -> D]
    BY <2>1, <2>2
  <2>4. g[0] = first
    BY <2>1
  <2>5. ASSUME NEW j \in 1 .. m + 1
        PROVE  g[j] = step[j][g[j - 1]]
    <3>1. CASE j <= m
      BY <2>1, <3>1
    <3>2. CASE j = m + 1
      BY <3>2
    <3> QED
      BY <3>1, <3>2
  <2>6. g \in Course(m + 1)
    BY <2>3, <2>4, <2>5
  <2>7. m + 1 \in 0 .. n
    OBVIOUS
  <2> HIDE DEF Course, g
  <2> QED
    BY <2>6, <2>7
<1>3. n \in S
  <2> HIDE DEF S
  <2>1. 0 .. n \subseteq S
    BY <1>1, <1>2, UpTo
  <2> QED
    BY <2>1
<1>4. PICK f : f \in Course(n)
  BY <1>3
<1>5. f = [j \in 0 .. n |-> IF j = 0 THEN first ELSE step[j][f[j - 1]]]
  BY <1>4
<1> QED
  BY <1>4, <1>5 DEF IsCourse

(* Powers of 2.                                                            *)

(* The widths for which Power is defined.                                  *)
Widths == 0 .. Octet * Word

(* The whole octets of a word are widths.                                  *)
LEMMA WordFacts ==
  /\ Octet * Word \in Nat /\ 4 * Octet <= Octet * Word
  /\ \A k \in 0 .. Word : k * Octet \in Widths /\ Octet * k \in Widths
<1>1. Octet * Word \in Nat /\ 4 * Octet <= Octet * Word
  BY WidthAssumption
<1>2. ASSUME NEW k \in 0 .. Word
      PROVE  k * Octet \in Widths /\ Octet * k \in Widths
  BY WidthAssumption DEF Widths
<1> QED
  BY <1>1, <1>2

(* The recursive definition of Power, as an equation.                      *)
LEMMA PowerDefined ==
  /\ Power[0] = 1
  /\ \A k \in Widths : Power[k] \in Nat
  /\ \A k \in Widths : k > 0 => Power[k] = 2 * Power[k - 1]
<1> DEFINE n == Octet * Word
           step == [k \in 1 .. n |-> [p \in Nat |-> 2 * p]]
<1>1. n \in Nat
  BY WordFacts
<1>2. step \in [1 .. n -> [Nat -> Nat]]
  OBVIOUS
<1>3. PICK f : IsCourse(f, n, Nat, 1, step)
  <2>1. 1 \in Nat
    OBVIOUS
  <2> HIDE DEF step, n
  <2> QED
    BY <1>1, <1>2, <2>1, Iterated
<1>4. f = [k \in 0 .. n |-> IF k = 0 THEN 1 ELSE 2 * f[k - 1]]
  <2>1. \A k \in 1 .. n : step[k][f[k - 1]] = 2 * f[k - 1]
    <3>1. \A k \in 1 .. n : f[k - 1] \in Nat
      <4> HIDE DEF n, step
      <4> QED
        BY <1>1, <1>3 DEF IsCourse
    <3> QED
      BY <3>1
  <2>2. [k \in 0 .. n |-> IF k = 0 THEN 1 ELSE step[k][f[k - 1]]] = [k \in 0 .. n |-> IF k = 0 THEN 1 ELSE 2 * f[k - 1]]
    <3> HIDE DEF step
    <3> QED
      BY <1>1, <2>1
  <2> QED
    BY <1>3, <2>2 DEF IsCourse
<1>5. Power = [k \in 0 .. n |-> IF k = 0 THEN 1 ELSE 2 * Power[k - 1]]
  BY <1>4 DEF Power
<1> DEFINE S == {k \in 0 .. n : Power[k] \in Nat}
<1>6. Power[0] = 1
  BY <1>1, <1>5
<1>7. \A k \in 0 .. n - 1 : k \in S => k + 1 \in S
  <2>1. \A k \in 0 .. n - 1 : Power[k + 1] = 2 * Power[k] /\ k + 1 \in 0 .. n
    BY <1>1, <1>5
  <2> QED
    BY <2>1
<1>8. 0 .. n \subseteq S
  <2>1. 0 \in S
    BY <1>1, <1>6
  <2> HIDE DEF S, n
  <2> QED
    BY <1>1, <2>1, <1>7, UpTo
<1>9. \A k \in 0 .. n : k > 0 => Power[k] = 2 * Power[k - 1]
  BY <1>1, <1>5
<1>10. Widths = 0 .. n
  BY DEF Widths
<1> QED
  BY <1>6, <1>8, <1>9, <1>10

(* A power of two is a positive number.                                    *)
LEMMA PowerPositive == \A k \in Widths : Power[k] \in Nat /\ Power[k] >= 1
<1> DEFINE S == {k \in Widths : Power[k] >= 1}
<1>1. 0 \in S
  BY PowerDefined, WordFacts DEF Widths
<1>2. \A k \in 0 .. Octet * Word - 1 : k \in S => k + 1 \in S
  <2> SUFFICES ASSUME NEW k \in 0 .. Octet * Word - 1, k \in S
               PROVE  k + 1 \in S
    OBVIOUS
  <2>1. k \in Widths /\ k + 1 \in Widths
    BY WordFacts DEF Widths
  <2>2. Power[k + 1] = 2 * Power[k] /\ Power[k] \in Nat
    BY <2>1, PowerDefined
  <2> QED
    BY <2>1, <2>2
<1>3. Widths \subseteq S
  <2> HIDE DEF S
  <2> QED
    BY <1>1, <1>2, UpTo, WordFacts DEF Widths
<1> QED
  BY <1>3, PowerDefined

(* The power of a sum is the product of the powers.                        *)
LEMMA PowerSum ==
  ASSUME NEW j \in Nat, NEW k \in Nat, j + k \in Widths
  PROVE  /\ j \in Widths /\ k \in Widths
         /\ Power[j + k] = Power[j] * Power[k]
         /\ Power[j + k] \in Nat /\ Power[j] \in Nat /\ Power[k] \in Nat
         /\ Power[j] >= 1 /\ Power[k] >= 1
<1>1. \A m \in 0 .. k : j + m \in Widths /\ m \in Widths
  BY WordFacts DEF Widths
<1> DEFINE S == {m \in 0 .. k : Power[j + m] = Power[j] * Power[m]}
<1>2. 0 \in S
  <2>1. Power[j] \in Nat
    BY <1>1, PowerPositive
  <2> QED
    BY <1>1, <2>1, PowerDefined
<1>3. ASSUME NEW m \in 0 .. k - 1, m \in S
      PROVE  m + 1 \in S
  <2>1. /\ Power[j + (m + 1)] = 2 * Power[j + m]
        /\ Power[m + 1] = 2 * Power[m]
        /\ Power[m] \in Nat /\ Power[j] \in Nat
    <3>1. j + (m + 1) \in Widths /\ m + 1 \in Widths /\ j + (m + 1) > 0 /\ m + 1 > 0 /\ m \in Widths /\ j + 0 \in Widths
      BY <1>1
    <3>2. (j + (m + 1)) - 1 = j + m /\ (m + 1) - 1 = m
      OBVIOUS
    <3> QED
      BY <3>1, <3>2, PowerDefined
  <2>2. Power[j + m] = Power[j] * Power[m]
    BY <1>3
  <2>3. 2 * (Power[j] * Power[m]) = Power[j] * (2 * Power[m])
    BY <2>1
  <2> QED
    BY <2>1, <2>2, <2>3
<1>4. 0 .. k \subseteq S
  <2> HIDE DEF S
  <2> QED
    BY <1>2, <1>3, UpTo
<1> QED
  BY <1>1, <1>4, PowerPositive

(* A wider field holds at least twice as many values.                      *)
LEMMA PowerGrows ==
  ASSUME NEW j \in Widths, NEW k \in Widths, j < k
  PROVE  Power[j] < Power[k] /\ 2 * Power[j] <= Power[k]
<1>1. /\ Power[k] = Power[j + 1] * Power[k - (j + 1)]
      /\ Power[k - (j + 1)] \in Nat /\ Power[k - (j + 1)] >= 1 /\ Power[j + 1] \in Nat
  <2>1. j + 1 \in Nat /\ k - (j + 1) \in Nat /\ (j + 1) + (k - (j + 1)) = k
    BY WordFacts DEF Widths
  <2> QED
    BY <2>1, PowerSum
<1>2. Power[j + 1] = 2 * Power[j] /\ Power[j] \in Nat /\ Power[j] >= 1
  <2>1. j + 1 \in Widths /\ j + 1 > 0 /\ (j + 1) - 1 = j
    BY WordFacts DEF Widths
  <2> QED
    BY <2>1, PowerDefined, PowerPositive
<1>3. Power[k] >= Power[j + 1] /\ Power[k] \in Nat
  <2>1. ASSUME NEW p \in Nat, NEW q \in Nat, q >= 1
        PROVE  p * q >= p /\ p * q \in Nat
    BY <2>1
  <2> QED
    BY <1>1, <2>1
<1> QED
  BY <1>2, <1>3

(* The powers that the primitives name.                                    *)
LEMMA PowerNames ==
  /\ Octet \in Widths /\ Octet - 1 \in Widths /\ Octet - 2 \in Widths /\ Octet - 4 \in Widths
  /\ 2 * Octet \in Widths /\ 2 * Octet - 2 \in Widths /\ 4 * Octet \in Widths /\ 4 * Octet - 1 \in Widths
  /\ Octet * Word - 1 \in Widths /\ Octet * Word \in Widths
  /\ Power[Octet - 4] \in Nat /\ Power[Octet - 4] >= 1
  /\ MaxFragments = 4 * Power[Octet - 4] /\ MaxFragments \in Nat
  /\ Short = 2 * MaxFragments /\ Power[Octet] = 4 * MaxFragments
  /\ Long = Power[Octet] * MaxFragments
  /\ Power[2 * Octet] = Power[Octet] * Power[Octet]
  /\ Power[4 * Octet] = 2 * Power[4 * Octet - 1]
  /\ Power[Octet * Word] = 2 * Power[Octet * Word - 1]
  /\ Power[4 * Octet - 1] <= Power[Octet * Word - 1]
<1>1. /\ Octet \in Widths /\ Octet - 1 \in Widths /\ Octet - 2 \in Widths /\ Octet - 4 \in Widths /\ Octet - 3 \in Widths
      /\ 2 * Octet \in Widths /\ 2 * Octet - 2 \in Widths /\ 4 * Octet \in Widths /\ 4 * Octet - 1 \in Widths
      /\ Octet * Word - 1 \in Widths /\ Octet * Word \in Widths
  BY WordFacts, WidthAssumption DEF Widths
<1>2. \A k \in Widths : k > 0 => Power[k] = 2 * Power[k - 1]
  BY PowerDefined
<1>3. \A k \in Widths : Power[k] \in Nat /\ Power[k] >= 1
  BY PowerPositive
<1>4. Power[Octet - 3] = 2 * Power[Octet - 4]
  <2>1. (Octet - 3) - 1 = Octet - 4 /\ Octet - 3 > 0
    BY WidthAssumption
  <2> QED
    BY <1>1, <1>2, <2>1
<1>5. Power[Octet - 2] = 2 * Power[Octet - 3]
  <2>1. (Octet - 2) - 1 = Octet - 3 /\ Octet - 2 > 0
    BY WidthAssumption
  <2> QED
    BY <1>1, <1>2, <2>1
<1>6. Power[Octet - 1] = 2 * Power[Octet - 2]
  <2>1. (Octet - 1) - 1 = Octet - 2 /\ Octet - 1 > 0
    BY WidthAssumption
  <2> QED
    BY <1>1, <1>2, <2>1
<1>7. Power[Octet] = 2 * Power[Octet - 1]
  BY <1>1, <1>2, WidthAssumption
<1>8. Long = Power[Octet] * MaxFragments
  <2>1. Octet + (Octet - 2) = 2 * Octet - 2 /\ Octet - 2 \in Nat /\ Octet \in Nat
    BY WidthAssumption
  <2> QED
    BY <1>1, <2>1, PowerSum DEF Long, MaxFragments
<1>9. Power[2 * Octet] = Power[Octet] * Power[Octet]
  <2>1. Octet + Octet = 2 * Octet /\ Octet \in Nat
    BY WidthAssumption
  <2> QED
    BY <1>1, <2>1, PowerSum
<1>10. Power[4 * Octet] = 2 * Power[4 * Octet - 1]
  BY <1>1, <1>2, WidthAssumption
<1>11. Power[Octet * Word] = 2 * Power[Octet * Word - 1]
  <2>1. Octet * Word > 0
    BY WordFacts, WidthAssumption
  <2> QED
    BY <1>1, <1>2, <2>1
<1>12. Power[4 * Octet - 1] <= Power[Octet * Word - 1]
  <2>1. CASE 4 * Octet = Octet * Word
    BY <1>1, <1>3, <2>1
  <2>2. CASE 4 * Octet # Octet * Word
    <3>1. 4 * Octet - 1 < Octet * Word - 1
      BY <2>2, WordFacts, WidthAssumption
    <3>2. Power[4 * Octet - 1] < Power[Octet * Word - 1]
      BY <1>1, <3>1, PowerGrows
    <3> QED
      BY <3>2, <1>1, <1>3
  <2> QED
    BY <2>1, <2>2
<1>13. Power[Octet - 4] \in Nat /\ Power[Octet - 3] \in Nat /\ Power[Octet - 2] \in Nat /\ Power[Octet - 1] \in Nat /\ Power[Octet - 4] >= 1
  BY <1>1, <1>3
<1>14. MaxFragments = 4 * Power[Octet - 4] /\ MaxFragments \in Nat
  BY <1>4, <1>5, <1>13 DEF MaxFragments
<1>15. Short = 2 * MaxFragments /\ Power[Octet] = 4 * MaxFragments
  BY <1>6, <1>7, <1>13 DEF MaxFragments, Short
<1> QED
  BY <1>1, <1>8, <1>9, <1>10, <1>11, <1>12, <1>13, <1>14, <1>15

-----------------------------------------------------------------------------
(***************************************************************************)
(* Quotients; messages and their bits.                                     *)
(***************************************************************************)

(* Quotients and remainders.                                               *)

(* What C++ and C have of v / m and v % m for a positive m.                *)
LEMMA Quotient ==
  ASSUME NEW v \in Int, NEW m \in Nat, m >= 1
  PROVE  /\ v \div m \in Int /\ v % m \in Nat /\ v % m < m
         /\ v = m * (v \div m) + (v % m)
         /\ v >= 0 => v \div m \in Nat /\ v % m <= v
         /\ 0 <= v /\ v < m => v % m = v /\ v \div m = 0
<1>1. v \div m \in Int /\ v % m \in Nat /\ v % m < m
  BY Z3
<1>2. v = m * (v \div m) + (v % m)
  BY Z3
<1>3. v >= 0 => v \div m \in Nat
  BY Z3
<1>4. v >= 0 => v % m <= v
  BY Z3
<1>5. 0 <= v /\ v < m => v % m = v /\ v \div m = 0
  BY Z3
<1> QED
  BY <1>1, <1>2, <1>3, <1>4, <1>5

(* A quotient and a remainder in range are the quotient and the remainder. *)
LEMMA QuotientIs ==
  ASSUME NEW v \in Int, NEW m \in Nat, m >= 1, NEW q \in Int, NEW r \in Nat, r < m, v = m * q + r
  PROVE  v \div m = q /\ v % m = r
BY Z3

(* Dividing twice is dividing by the product.                              *)
LEMMA QuotientTwice ==
  ASSUME NEW v \in Int, NEW m \in Nat, m >= 1, NEW n \in Nat, n >= 1
  PROVE  (v \div m) \div n = v \div (m * n) /\ m * n \in Nat /\ m * n >= 1
BY Z3

(* Nothing remains of a multiple.                                          *)
LEMMA Multiple ==
  ASSUME NEW q \in Int, NEW m \in Nat, m >= 1
  PROVE  (m * q) % m = 0 /\ (m * q) \div m = q
<1>1. m * q \in Int /\ m * q = m * q + 0 /\ 0 \in Nat /\ 0 < m
  OBVIOUS
<1> DEFINE v == m * q
<1>2. v \in Int /\ v = m * q + 0
  BY <1>1
<1> HIDE DEF v
<1>3. v % m = 0 /\ v \div m = q
  BY <1>2, <1>1, QuotientIs
<1> QED
  BY <1>3 DEF v

(* A remainder by 2m ends in the lowest bit.                               *)
LEMMA LowBit ==
  ASSUME NEW v \in Int, NEW m \in Nat, m >= 1
  PROVE  v % (2 * m) = 2 * ((v \div 2) % m) + (v % 2)
<1>1. (v \div 2) \in Int /\ v % 2 \in 0 .. 1 /\ v = 2 * (v \div 2) + (v % 2)
  OBVIOUS
<1>2. PICK q \in Int, r \in Nat : r < m /\ v \div 2 = m * q + r /\ r = (v \div 2) % m
  BY <1>1, Quotient
<1>3. v = (2 * m) * q + (2 * r + (v % 2)) /\ 2 * r + (v % 2) \in Nat /\ 2 * r + (v % 2) < 2 * m
  <2>1. 2 * (m * q) = (2 * m) * q
    OBVIOUS
  <2> QED
    BY <1>1, <1>2, <2>1
<1>4. v % (2 * m) = 2 * r + (v % 2)
  <2>1. 2 * m \in Nat /\ 2 * m >= 1
    OBVIOUS
  <2> QED
    BY <1>3, <2>1, QuotientIs
<1> QED
  BY <1>2, <1>4

(* Messages.                                                               *)

(* Messages are sequences of bits.                                         *)
Message == Seq({0, 1})

(* msg begins with w.                                                      *)
Extends(w, msg) == Len(w) <= Len(msg) /\ \A j \in 1 .. Len(w) : msg[j] = w[j]

(* The bits of a message.                                                  *)
LEMMA MessageFacts ==
  ASSUME NEW w \in Message
  PROVE  Len(w) \in Nat /\ DOMAIN w = 1 .. Len(w) /\ \A j \in 1 .. Len(w) : w[j] \in {0, 1}
BY DEF Message

(* A function to bits is a message.                                        *)
LEMMA MessageIs ==
  ASSUME NEW n \in Nat, NEW f, f \in [1 .. n -> {0, 1}]
  PROVE  f \in Message /\ Len(f) = n
BY DEF Message

(* To begin with is transitive.                                            *)
LEMMA ExtendsOnward ==
  ASSUME NEW u \in Message, NEW v \in Message, NEW w \in Message, Extends(u, v), Extends(v, w)
  PROVE  Extends(u, w)
BY MessageFacts DEF Extends

(* A message begins with itself.                                           *)
LEMMA ExtendsSelf ==
  ASSUME NEW w \in Message
  PROVE  Extends(w, w)
BY MessageFacts DEF Extends

(* What is written after w leaves w as it is.                              *)
LEMMA Longer ==
  ASSUME NEW w \in Message, NEW x \in Message
  PROVE  /\ w \o x \in Message
         /\ Len(w \o x) = Len(w) + Len(x)
         /\ Extends(w, w \o x)
         /\ \A j \in 1 .. Len(x) : (w \o x)[Len(w) + j] = x[j]
<1>1. w \o x \in Message /\ Len(w \o x) = Len(w) + Len(x)
  BY DEF Message
<1>2. \A j \in 1 .. Len(w) + Len(x) : (w \o x)[j] = IF j <= Len(w) THEN w[j] ELSE x[j - Len(w)]
  BY DEF Message
<1> QED
  BY <1>1, <1>2, MessageFacts DEF Extends

(* One bit written after w leaves w as it is.                              *)
LEMMA Appended ==
  ASSUME NEW w \in Message, NEW b \in {0, 1}
  PROVE  /\ Append(w, b) \in Message /\ Len(Append(w, b)) = Len(w) + 1
         /\ Extends(w, Append(w, b)) /\ Append(w, b)[Len(w) + 1] = b
<1>1. Append(w, b) \in Message /\ Len(Append(w, b)) = Len(w) + 1
  BY DEF Message
<1>2. \A j \in 1 .. Len(w) + 1 : Append(w, b)[j] = IF j <= Len(w) THEN w[j] ELSE b
  BY DEF Message
<1> QED
  BY <1>1, <1>2, MessageFacts DEF Extends

(* Padding is a message of its length.                                     *)
LEMMA ZerosFacts ==
  ASSUME NEW n \in Nat
  PROVE  Zeros(n) \in Message /\ Len(Zeros(n)) = n
BY MessageIs DEF Zeros

(* The next octet boundary is the first multiple of Octet that is not      *)
(* before n.                                                               *)
LEMMA AlignedFacts ==
  ASSUME NEW n \in Nat
  PROVE  /\ OctetsOf(n) \in Nat /\ Aligned(n) \in Nat
         /\ Aligned(n) >= n /\ Aligned(n) < n + Octet /\ Aligned(n) % Octet = 0
         /\ \A m \in Nat : m % Octet = 0 /\ n <= m => Aligned(n) <= m
         /\ n % Octet = 0 => Aligned(n) = n
<1>1. Octet \in Nat /\ Octet >= 4
  BY WidthAssumption
<1> DEFINE q == (n + Octet - 1) \div Octet
           r == (n + Octet - 1) % Octet
<1>2. q \in Nat /\ r \in Nat /\ r < Octet /\ n + Octet - 1 = Octet * q + r
  BY <1>1, Quotient
<1>3. OctetsOf(n) = q /\ Aligned(n) = Octet * q
  BY DEF OctetsOf, Aligned
<1> HIDE DEF q, r
<1>4. Octet * q \in Nat /\ (Octet * q) % Octet = 0
  <2>1. Octet * q \in Nat
    BY <1>1, <1>2
  <2>2. (Octet * q) % Octet = 0
    <3>1. q \in Int
      BY <1>2
    <3> QED
      BY ONLY <1>1, <3>1, Multiple
  <2> QED
    BY <2>1, <2>2
<1>5. Octet * q >= n /\ Octet * q < n + Octet
  BY <1>1, <1>2, <1>4
<1>6. ASSUME NEW m \in Nat, m % Octet = 0, n <= m
      PROVE  Octet * q <= m
  <2>1. m = Octet * (m \div Octet) /\ m \div Octet \in Nat
    BY <1>1, <1>6, Quotient
  <2> DEFINE p == m \div Octet
  <2>2. p \in Nat /\ m = Octet * p
    BY <2>1
  <2> HIDE DEF p
  <2>3. ASSUME q > p
        PROVE  FALSE
    <3>1. Octet * q >= Octet * p + Octet
      BY <1>1, <1>2, <2>2, <2>3
    <3> QED
      BY <1>1, <1>2, <1>5, <1>6, <2>2, <3>1
  <2>4. q <= p
    BY <1>2, <2>2, <2>3
  <2> QED
    BY <1>1, <1>2, <2>2, <2>4
<1>7. n % Octet = 0 => Octet * q = n
  BY <1>1, <1>4, <1>5, <1>6
<1> QED
  BY <1>2, <1>3, <1>4, <1>5, <1>6, <1>7

(* Aligning a message pads it to the next octet boundary.                  *)
LEMMA AlignFacts ==
  ASSUME NEW w \in Message
  PROVE  Align(w) \in Message /\ Len(Align(w)) = Aligned(Len(w)) /\ Extends(w, Align(w))
<1> DEFINE n == Len(w)
           gap == Aligned(n) - n
<1>1. n \in Nat
  BY MessageFacts
<1>2. gap \in Nat /\ n + gap = Aligned(n)
  <2> HIDE DEF n
  <2>1. Aligned(n) \in Nat /\ Aligned(n) >= n
    BY <1>1, AlignedFacts
  <2> QED
    BY <1>1, <2>1
<1>3. Align(w) = w \o Zeros(gap)
  BY DEF Align
<1> HIDE DEF gap
<1>4. Zeros(gap) \in Message /\ Len(Zeros(gap)) = gap
  BY <1>2, ZerosFacts
<1>5. Align(w) \in Message /\ Len(Align(w)) = n + gap /\ Extends(w, Align(w))
  BY <1>3, <1>4, Longer
<1> QED
  BY <1>2, <1>5

(* n bits of a number are a message of n bits.                             *)
LEMMA BitsFacts ==
  ASSUME NEW v \in Int, NEW n \in Widths
  PROVE  Bits(v, n) \in Message /\ Len(Bits(v, n)) = n
<1>1. n \in Nat /\ \A j \in 1 .. n : n - j \in Widths
  BY WordFacts DEF Widths
<1>2. \A j \in 1 .. n : (v \div Power[n - j]) % 2 \in {0, 1}
  <2> TAKE j \in 1 .. n
  <2>1. v \div Power[n - j] \in Int
    BY <1>1, PowerPositive, Quotient
  <2> QED
    BY <2>1
<1>3. Bits(v, n) \in [1 .. n -> {0, 1}]
  BY <1>2 DEF Bits
<1> QED
  BY <1>1, <1>3, MessageIs

(* Numbers.                                                                *)

(* The numbers that the first j bits make.                                 *)
IsSum(sum, bits) ==
  /\ sum \in [0 .. Len(bits) -> Nat] /\ sum[0] = 0
  /\ \A j \in 1 .. Len(bits) : sum[j] = 2 * sum[j - 1] + bits[j]
  /\ Number(bits) = sum[Len(bits)]

(* The recursive sum of Number exists, and is a natural number.            *)
LEMMA NumberFacts ==
  ASSUME NEW bits \in Message
  PROVE  Number(bits) \in Nat /\ \E sum : IsSum(sum, bits)
<1> DEFINE n == Len(bits)
           step == [k \in 1 .. n |-> [p \in Nat |-> 2 * p + bits[k]]]
           Sum(f) == f = [j \in 0 .. Len(bits) |-> IF j = 0 THEN 0 ELSE 2 * f[j - 1] + bits[j]]
           sum == CHOOSE f : Sum(f)
<1>1. n \in Nat /\ \A k \in 1 .. n : bits[k] \in {0, 1}
  BY MessageFacts
<1>2. step \in [1 .. n -> [Nat -> Nat]]
  BY <1>1
<1>3. PICK f : IsCourse(f, n, Nat, 0, step)
  <2>1. 0 \in Nat
    OBVIOUS
  <2> HIDE DEF step, n
  <2> QED
    BY <1>1, <1>2, <2>1, Iterated
<1>4. Sum(f)
  <2>1. \A k \in 1 .. n : step[k][f[k - 1]] = 2 * f[k - 1] + bits[k]
    <3>1. \A k \in 1 .. n : f[k - 1] \in Nat
      <4> HIDE DEF n, step
      <4> QED
        BY <1>1, <1>3 DEF IsCourse
    <3> QED
      BY <3>1
  <2>2. [k \in 0 .. n |-> IF k = 0 THEN 0 ELSE step[k][f[k - 1]]] = [k \in 0 .. n |-> IF k = 0 THEN 0 ELSE 2 * f[k - 1] + bits[k]]
    <3> HIDE DEF step
    <3> QED
      BY <1>1, <2>1
  <2> QED
    BY <1>3, <2>2 DEF IsCourse
<1>5. Sum(sum)
  BY <1>4
<1>6. Number(bits) = sum[n]
  BY DEF Number
<1> HIDE DEF sum
<1>7. sum[0] = 0 /\ \A k \in 1 .. n : sum[k] = 2 * sum[k - 1] + bits[k]
  BY <1>1, <1>5
<1> DEFINE S == {j \in 0 .. n : sum[j] \in Nat}
<1>8. 0 .. n \subseteq S
  <2>1. 0 \in S
    BY <1>1, <1>7
  <2>2. ASSUME NEW j \in 0 .. n - 1, j \in S
        PROVE  j + 1 \in S
    <3>1. j + 1 \in 1 .. n /\ (j + 1) - 1 = j
      BY <1>1
    <3>2. sum[j + 1] = 2 * sum[j] + bits[j + 1]
      BY <1>7, <3>1
    <3> QED
      BY <1>1, <2>2, <3>1, <3>2
  <2> HIDE DEF S, n
  <2> QED
    BY <1>1, <2>1, <2>2, UpTo
<1>9. sum = [j \in 0 .. n |-> sum[j]]
  BY <1>5
<1>10. sum \in [0 .. n -> Nat]
  BY <1>8, <1>9
<1> QED
  BY <1>1, <1>6, <1>7, <1>10 DEF IsSum

(* The n low bits of v read back as v modulo 2^n.                          *)
LEMMA NumberOfBits ==
  ASSUME NEW v \in Int, NEW n \in Widths
  PROVE  Number(Bits(v, n)) = v % Power[n]
<1> DEFINE bits == Bits(v, n)
<1>1. bits \in Message /\ Len(bits) = n /\ n \in Nat
  BY BitsFacts, WordFacts DEF Widths
<1>2. \A j \in 0 .. n : n - j \in Widths /\ j \in Widths
  BY WordFacts DEF Widths
<1>3. \A j \in 1 .. n : bits[j] = (v \div Power[n - j]) % 2
  BY DEF Bits
<1>4. PICK sum : IsSum(sum, bits)
  BY <1>1, NumberFacts
<1> HIDE DEF bits
<1> DEFINE S == {j \in 0 .. n : sum[j] = (v \div Power[n - j]) % Power[j]}
<1>5. 0 \in S
  <2>1. v \div Power[n] \in Int
    BY <1>2, PowerPositive, Quotient
  <2>2. (v \div Power[n]) % 1 = 0
    BY <2>1
  <2> QED
    BY <1>1, <1>4, <2>2, PowerDefined DEF IsSum
<1>6. ASSUME NEW j \in 0 .. n - 1, j \in S
      PROVE  j + 1 \in S
  <2> DEFINE x == v \div Power[n - (j + 1)]
             p == Power[j]
             d == Power[n - (j + 1)]
  <2>1. /\ n - (j + 1) \in Widths /\ n - j \in Widths /\ j \in Widths /\ j + 1 \in Widths
        /\ (n - j) - 1 = n - (j + 1) /\ n - j > 0 /\ (j + 1) - 1 = j /\ j + 1 > 0
    BY <1>1, <1>2
  <2>2. d \in Nat /\ d >= 1 /\ p \in Nat /\ p >= 1 /\ Power[n - j] = 2 * d /\ Power[j + 1] = 2 * p
    BY <2>1, PowerPositive, PowerDefined
  <2>3. x \in Int /\ x \div 2 = v \div Power[n - j]
    <3>1. d * 2 = 2 * d
      BY <2>2
    <3>2. (v \div d) \div 2 = v \div (d * 2) /\ v \div d \in Int
      <4> HIDE DEF d
      <4>1. v \div d \in Int
        BY <2>2, Quotient
      <4>2. 2 \in Nat /\ 2 >= 1
        OBVIOUS
      <4>3. (v \div d) \div 2 = v \div (d * 2)
        BY <2>2, <4>2, QuotientTwice
      <4> QED
        BY <4>1, <4>3
    <3> QED
      BY <2>2, <3>1, <3>2
  <2>4. sum[j + 1] = 2 * sum[j] + (x % 2)
    <3>1. j + 1 \in 1 .. n
      BY <1>1
    <3> QED
      BY <1>1, <1>3, <1>4, <2>1, <3>1 DEF IsSum
  <2>5. sum[j] = (x \div 2) % p
    BY <1>6, <2>3
  <2> HIDE DEF x, p, d
  <2>6. x % (2 * p) = 2 * ((x \div 2) % p) + (x % 2)
    BY <2>2, <2>3, LowBit
  <2>7. sum[j + 1] = x % Power[j + 1]
    BY <2>2, <2>4, <2>5, <2>6
  <2> QED
    BY <1>1, <2>7 DEF x
<1>7. n \in S
  <2>1. 0 .. n \subseteq S
    <3> HIDE DEF S
    <3> QED
      BY <1>1, <1>5, <1>6, UpTo
  <2> QED
    BY <1>1, <2>1
<1>8. v \div Power[n - n] = v
  BY <1>1, PowerDefined
<1> QED
  BY <1>1, <1>4, <1>7, <1>8 DEF IsSum, bits

-----------------------------------------------------------------------------
(***************************************************************************)
(* Reading and writing bits.                                               *)
(***************************************************************************)

(* n bits hold a number below 2^n.                                         *)
LEMMA NumberBelow ==
  ASSUME NEW bits \in Message, Len(bits) \in Widths
  PROVE  Number(bits) \in Nat /\ Number(bits) < Power[Len(bits)]
<1> DEFINE n == Len(bits)
<1>1. n \in Nat /\ (\A k \in 1 .. n : bits[k] \in {0, 1}) /\ \A j \in 0 .. n : j \in Widths
  BY MessageFacts, WordFacts DEF Widths
<1>2. PICK sum : IsSum(sum, bits)
  BY NumberFacts
<1>3. /\ sum \in [0 .. n -> Nat] /\ sum[0] = 0 /\ Number(bits) = sum[n]
      /\ \A j \in 1 .. n : sum[j] = 2 * sum[j - 1] + bits[j]
  BY <1>2 DEF IsSum
<1> HIDE DEF n
<1> DEFINE S == {j \in 0 .. n : sum[j] < Power[j]}
<1>4. 0 \in S
  BY <1>1, <1>3, PowerDefined
<1>5. ASSUME NEW j \in 0 .. n - 1, j \in S
      PROVE  j + 1 \in S
  <2>1. j \in 0 .. n /\ j + 1 \in 1 .. n /\ j + 1 \in 0 .. n /\ (j + 1) - 1 = j /\ j + 1 > 0
    BY <1>1
  <2>2. sum[j + 1] = 2 * sum[j] + bits[j + 1] /\ sum[j] \in Nat /\ bits[j + 1] \in {0, 1}
    BY <1>1, <1>3, <2>1
  <2>3. Power[j + 1] = 2 * Power[j] /\ Power[j] \in Nat
    BY <1>1, <2>1, PowerDefined
  <2>4. sum[j] < Power[j]
    BY <1>5
  <2> QED
    BY <2>1, <2>2, <2>3, <2>4
<1>6. 0 .. n \subseteq S
  <2> HIDE DEF S
  <2> QED
    BY <1>1, <1>4, <1>5, UpTo
<1>7. n \in S
  BY <1>1, <1>6
<1> QED
  BY <1>1, <1>3, <1>7 DEF n

(* Reading.                                                                *)

(* A reader moves onward, by n bits when there are as many.                *)
LEMMA AfterFacts ==
  ASSUME NEW msg \in Message, NEW pos \in 0 .. Len(msg), NEW n \in Nat
  PROVE  /\ After(msg, pos, n) \in pos .. Len(msg)
         /\ After(msg, pos, n) <= pos + n
         /\ pos + n <= Len(msg) => After(msg, pos, n) = pos + n
BY MessageFacts DEF After

(* What is left of a message, or the next bits of it.                      *)
LEMMA PartFacts ==
  ASSUME NEW msg \in Message, NEW pos \in 0 .. Len(msg), NEW end \in pos .. Len(msg)
  PROVE  /\ SubSeq(msg, pos + 1, end) \in Message
         /\ Len(SubSeq(msg, pos + 1, end)) = end - pos
         /\ \A j \in 1 .. end - pos : SubSeq(msg, pos + 1, end)[j] = msg[pos + j]
<1>1. Len(msg) \in Nat /\ (\A k \in 1 .. Len(msg) : msg[k] \in {0, 1}) /\ end - pos \in Nat
  BY MessageFacts
<1>2. SubSeq(msg, pos + 1, end) = [j \in 1 .. end - pos |-> msg[pos + j]]
  <2>1. (end - (pos + 1)) + 1 = end - pos
    BY <1>1
  <2>2. \A j \in 1 .. end - pos : (j + (pos + 1)) - 1 = pos + j
    BY <1>1
  <2> QED
    BY <1>1, <2>1, <2>2
<1>3. [j \in 1 .. end - pos |-> msg[pos + j]] \in [1 .. end - pos -> {0, 1}]
  BY <1>1
<1> QED
  BY <1>1, <1>2, <1>3, MessageIs

(* Bits read are a number of their width, even at the end of a message.    *)
LEMMA GetBitsFacts ==
  ASSUME NEW msg \in Message, NEW pos \in 0 .. Len(msg), NEW n \in Nat
  PROVE  /\ GetBits(msg, pos, n) = Read(GetBits(msg, pos, n).value, After(msg, pos, n))
         /\ GetBits(msg, pos, n).value \in Nat
         /\ n \in Widths => GetBits(msg, pos, n).value < Power[n]
<1> DEFINE end == After(msg, pos, n)
           bits == SubSeq(msg, pos + 1, end)
<1>1. end \in pos .. Len(msg) /\ end <= pos + n
  BY AfterFacts
<1>2. GetBits(msg, pos, n) = Read(Number(bits), end)
  BY DEF GetBits, Then, Read
<1>3. bits \in Message /\ Len(bits) = end - pos
  <2> HIDE DEF end
  <2> QED
    BY <1>1, PartFacts
<1> HIDE DEF bits
<1>4. Number(bits) \in Nat
  BY <1>3, NumberFacts
<1>5. n \in Widths => Number(bits) < Power[n]
  <2> HAVE n \in Widths
  <2> HIDE DEF end
  <2>1. Len(bits) \in Widths /\ Len(bits) <= n
    BY <1>1, <1>3, WordFacts DEF Widths
  <2>2. Number(bits) < Power[Len(bits)] /\ Power[Len(bits)] \in Nat /\ Power[n] \in Nat
    BY <1>3, <2>1, NumberBelow, PowerPositive
  <2>3. Len(bits) < n => Power[Len(bits)] < Power[n]
    BY <2>1, PowerGrows
  <2>4. Len(bits) \in Nat /\ n \in Nat
    BY <1>3, MessageFacts
  <2> QED
    BY <1>4, <2>1, <2>2, <2>3, <2>4
<1> QED
  BY <1>2, <1>4, <1>5 DEF Read

(* What was written behind w is read from where it begins.                 *)
LEMMA PartTrip ==
  ASSUME NEW w \in Message, NEW x \in Message, NEW msg \in Message, Extends(w \o x, msg)
  PROVE  /\ Len(w) \in 0 .. Len(msg)
         /\ Extends(w, msg)
         /\ After(msg, Len(w), Len(x)) = Len(w \o x)
         /\ Len(w \o x) \in Len(w) .. Len(msg)
         /\ SubSeq(msg, Len(w) + 1, Len(w \o x)) = x
<1>1. /\ w \o x \in Message /\ Len(w \o x) = Len(w) + Len(x)
      /\ Extends(w, w \o x) /\ \A j \in 1 .. Len(x) : (w \o x)[Len(w) + j] = x[j]
  BY Longer
<1>2. Extends(w, msg)
  BY <1>1, ExtendsOnward
<1>3. Len(w) \in Nat /\ Len(x) \in Nat /\ Len(msg) \in Nat
  BY MessageFacts
<1>4. Len(w) + Len(x) <= Len(msg) /\ \A j \in 1 .. Len(w) + Len(x) : msg[j] = (w \o x)[j]
  BY <1>1 DEF Extends
<1>5. Len(w) \in 0 .. Len(msg) /\ Len(w \o x) \in Len(w) .. Len(msg) /\ After(msg, Len(w), Len(x)) = Len(w \o x)
  BY <1>1, <1>3, <1>4 DEF After
<1>6. SubSeq(msg, Len(w) + 1, Len(w \o x)) = x
  <2> DEFINE y == SubSeq(msg, Len(w) + 1, Len(w \o x))
             a == Len(w)
             e == Len(w \o x)
  <2>1. y \in Message /\ Len(y) = e - a /\ \A j \in 1 .. e - a : y[j] = msg[a + j]
    <3>1. a \in 0 .. Len(msg) /\ e \in a .. Len(msg)
      BY <1>5
    <3> HIDE DEF a, e
    <3>2. SubSeq(msg, a + 1, e) \in Message
      BY <3>1, PartFacts
    <3>3. Len(SubSeq(msg, a + 1, e)) = e - a /\ \A j \in 1 .. e - a : SubSeq(msg, a + 1, e)[j] = msg[a + j]
      BY <3>1, PartFacts
    <3> QED
      BY <3>2, <3>3 DEF a, e
  <2>2. e - a = Len(x)
    BY <1>1, <1>3
  <2>3. \A j \in 1 .. Len(x) : y[j] = x[j]
    <3> HIDE DEF y
    <3> TAKE j \in 1 .. Len(x)
    <3>1. a + j \in 1 .. Len(w) + Len(x)
      BY <1>3
    <3>2. y[j] = msg[a + j] /\ msg[a + j] = (w \o x)[a + j] /\ (w \o x)[Len(w) + j] = x[j]
      BY <1>1, <1>4, <2>1, <2>2, <3>1
    <3> QED
      BY <3>2
  <2>4. y = x
    <3> HIDE DEF y
    <3> QED
      BY <2>1, <2>2, <2>3, <1>3 DEF Message
  <2> QED
    BY <2>4
<1> QED
  BY <1>2, <1>5, <1>6

(* Bits read where x was written are the number x makes.                   *)
LEMMA GetBitsTrip ==
  ASSUME NEW w \in Message, NEW x \in Message, NEW msg \in Message, Extends(w \o x, msg)
  PROVE  GetBits(msg, Len(w), Len(x)) = Read(Number(x), Len(w \o x))
<1>1. /\ After(msg, Len(w), Len(x)) = Len(w \o x)
      /\ SubSeq(msg, Len(w) + 1, Len(w \o x)) = x
  BY PartTrip
<1> QED
  BY <1>1 DEF GetBits, Then, Read

(* n bits written for v are read as v modulo 2^n.                          *)
LEMMA BitsTrip ==
  ASSUME NEW w \in Message, NEW v \in Int, NEW n \in Widths, NEW msg \in Message,
         Extends(w \o Bits(v, n), msg)
  PROVE  GetBits(msg, Len(w), n) = Read(v % Power[n], Len(w \o Bits(v, n)))
<1>1. Bits(v, n) \in Message /\ Len(Bits(v, n)) = n
  BY BitsFacts
<1>2. Number(Bits(v, n)) = v % Power[n]
  BY NumberOfBits
<1> QED
  BY <1>1, <1>2, GetBitsTrip

(* A single bit is read as it was written.                                 *)
LEMMA FlagTrip ==
  ASSUME NEW w \in Message, NEW b \in {0, 1}, NEW msg \in Message, Extends(Append(w, b), msg)
  PROVE  /\ GetBits(msg, Len(w), 1) = Read(b, Len(w) + 1)
         /\ After(msg, Len(w), 1) = Len(w) + 1
         /\ Len(Append(w, b)) = Len(w) + 1
<1> DEFINE x == <<b>>
<1>1. x \in Message /\ Len(x) = 1 /\ x[1] = b
  BY DEF Message
<1>2. w \o x = Append(w, b)
  BY DEF Message
<1>3. Number(x) = b
  <2>1. PICK sum : IsSum(sum, x)
    BY <1>1, NumberFacts
  <2> HIDE DEF x
  <2>2. sum[1] = 2 * sum[1 - 1] + x[1] /\ sum[0] = 0 /\ Number(x) = sum[1]
    BY <1>1, <2>1 DEF IsSum
  <2> QED
    BY <1>1, <2>2
<1> HIDE DEF x
<1>4. GetBits(msg, Len(w), Len(x)) = Read(Number(x), Len(w \o x)) /\ After(msg, Len(w), Len(x)) = Len(w \o x)
  <2>1. Extends(w \o x, msg)
    BY <1>2
  <2> QED
    BY <1>1, <2>1, GetBitsTrip, PartTrip
<1>5. Len(w \o x) = Len(w) + 1
  <2>1. Len(w \o x) = Len(w) + Len(x)
    BY <1>1, Longer
  <2> QED
    BY <1>1, <2>1
<1> QED
  BY <1>1, <1>2, <1>3, <1>4, <1>5

(* Sequences of bits are the same when they have the same bits.            *)
LEMMA SameBits ==
  ASSUME NEW u \in Message, NEW v \in Message, Len(u) = Len(v), \A j \in 1 .. Len(u) : u[j] = v[j]
  PROVE  u = v
BY DEF Message

(* Joining messages is associative.                                        *)
LEMMA JoinAgain ==
  ASSUME NEW w \in Message, NEW x \in Message, NEW y \in Message
  PROVE  w \o (x \o y) = (w \o x) \o y
BY DEF Message

(* A field of a + b bits is a field of a bits and one of b.                *)
LEMMA BitsSplit ==
  ASSUME NEW v \in Int, NEW a \in Nat, NEW b \in Nat, a + b \in Widths
  PROVE  /\ a \in Widths /\ b \in Widths /\ v \div Power[b] \in Int
         /\ Bits(v, a + b) = Bits(v \div Power[b], a) \o Bits(v, b)
<1>1. a \in Widths /\ b \in Widths /\ Power[b] \in Nat /\ Power[b] >= 1
  BY PowerSum
<1>2. v \div Power[b] \in Int
  BY <1>1, Quotient
<1> DEFINE x == Bits(v \div Power[b], a)
           y == Bits(v, b)
           z == Bits(v, a + b)
<1>3. x \in Message /\ Len(x) = a /\ y \in Message /\ Len(y) = b /\ z \in Message /\ Len(z) = a + b
  BY <1>1, <1>2, BitsFacts
<1>4. /\ \A j \in 1 .. a : x[j] = ((v \div Power[b]) \div Power[a - j]) % 2
      /\ \A j \in 1 .. b : y[j] = (v \div Power[b - j]) % 2
      /\ \A j \in 1 .. a + b : z[j] = (v \div Power[(a + b) - j]) % 2
  BY DEF Bits
<1> HIDE DEF x, y, z
<1>5. x \o y \in Message /\ Len(x \o y) = a + b
  BY <1>3, Longer
<1>6. (\A j \in 1 .. a : (x \o y)[j] = x[j]) /\ \A j \in 1 .. b : (x \o y)[a + j] = y[j]
  <2>1. Extends(x, x \o y) /\ \A j \in 1 .. Len(y) : (x \o y)[Len(x) + j] = y[j]
    BY <1>3, Longer
  <2> QED
    BY <1>3, <2>1 DEF Extends
<1>7. ASSUME NEW j \in 1 .. a + b
      PROVE  z[j] = (x \o y)[j]
  <2>1. CASE j <= a
    <3>1. /\ a - j \in Nat /\ b + (a - j) \in Widths /\ b + (a - j) = (a + b) - j
      BY <2>1, WordFacts DEF Widths
    <3>2. Power[b + (a - j)] = Power[b] * Power[a - j] /\ Power[a - j] \in Nat /\ Power[a - j] >= 1
      BY <3>1, PowerSum
    <3> DEFINE p == Power[b]
               q == Power[a - j]
    <3>3. (v \div p) \div q = v \div (p * q)
      <4> HIDE DEF p, q
      <4>1. p \in Nat /\ p >= 1 /\ q \in Nat /\ q >= 1
        BY <1>1, <3>2 DEF p, q
      <4> QED
        BY <4>1, QuotientTwice
    <3>4. j \in 1 .. a
      BY <2>1
    <3> QED
      BY <2>1, <1>4, <1>6, <3>1, <3>2, <3>3, <3>4
  <2>2. CASE j > a
    <3>1. j - a \in 1 .. b /\ b - (j - a) = (a + b) - j /\ a + (j - a) = j
      BY <2>2
    <3>2. (x \o y)[j] = y[j - a]
      BY <1>6, <3>1
    <3>3. y[j - a] = (v \div Power[(a + b) - j]) % 2
      BY <1>4, <3>1
    <3> QED
      BY <1>4, <3>2, <3>3
  <2>3. j <= a \/ j > a
    OBVIOUS
  <2> QED
    BY <2>1, <2>2, <2>3
<1>8. z = x \o y
  BY <1>3, <1>5, <1>7, SameBits
<1> QED
  BY <1>1, <1>2, <1>8 DEF x, y, z

(* Two's complement.                                                       *)

(* Sign extension gives back any number that the signed width holds.       *)
LEMMA SignedFacts ==
  ASSUME NEW v \in Int, NEW n \in Widths, n > 0
  PROVE  /\ Signed(v, n) \in Int
         /\ -Power[n - 1] <= Signed(v, n) /\ Signed(v, n) < Power[n - 1]
         /\ -Power[n - 1] <= v /\ v < Power[n - 1] =>
              Signed(v, n) = v /\ Signed(v % Power[n], n) = v
<1>1. n - 1 \in Widths
  BY WordFacts DEF Widths
<1> DEFINE h == Power[n - 1]
<1>2. h \in Nat /\ h >= 1 /\ Power[n] = 2 * h
  BY <1>1, PowerPositive, PowerDefined
<1>3. \A x : Signed(x, n) = ((x + h) % (2 * h)) - h
  BY <1>2 DEF Signed
<1> HIDE DEF h
<1>4. Signed(v, n) \in Int /\ -h <= Signed(v, n) /\ Signed(v, n) < h
  <2>1. (v + h) % (2 * h) \in Nat /\ (v + h) % (2 * h) < 2 * h
    BY <1>2, Quotient
  <2> QED
    BY <1>2, <1>3, <2>1
<1>5. ASSUME -h <= v, v < h
      PROVE  Signed(v, n) = v
  <2>1. (v + h) % (2 * h) = v + h
    BY <1>2, <1>5, Quotient
  <2> QED
    BY <1>2, <1>3, <2>1
<1>6. ASSUME -h <= v, v < h
      PROVE  Signed(v % (2 * h), n) = v
  <2>1. CASE v >= 0
    <3>1. v % (2 * h) = v
      BY <1>2, <1>6, <2>1, Quotient
    <3> QED
      BY <1>5, <1>6, <3>1
  <2>2. CASE v < 0
    <3> DEFINE m == 2 * h
    <3>1. m \in Nat /\ m >= 1 /\ v = m * (-1) + (v + m) /\ v + m \in Nat /\ v + m < m /\ -1 \in Int
      BY <1>2, <1>6, <2>2
    <3>2. v % m = v + m
      <4> HIDE DEF m
      <4> QED
        BY <3>1, QuotientIs
    <3>3. (v + m) + h = m * 1 + (v + h) /\ v + h \in Nat /\ v + h < m /\ (v + m) + h \in Int /\ 1 \in Int
      BY <1>2, <1>6, <2>2
    <3>4. ((v + m) + h) % m = v + h
      <4> DEFINE x == (v + m) + h
                 r == v + h
      <4>1. x \in Int /\ x = m * 1 + r /\ r \in Nat /\ r < m
        BY <3>3
      <4>2. x % m = r
        <5> HIDE DEF x, r, m
        <5> QED
          BY <3>1, <3>3, <4>1, QuotientIs
      <4> QED
        BY <4>2
    <3> QED
      BY <1>2, <1>3, <3>1, <3>2, <3>4
  <2> QED
    BY <2>1, <2>2
<1> QED
  BY <1>2, <1>4, <1>5, <1>6 DEF h

(* The extent of a range is exact unless it overflows.                     *)
LEMMA ExtentFacts ==
  ASSUME NEW lo \in Int, NEW hi \in Int
  PROVE  /\ Extent(lo, hi) \in Int
         /\ Extent(lo, hi) < Power[Octet * Word - 1]
         /\ lo <= hi /\ hi - lo + 1 < Power[Octet * Word - 1] => Extent(lo, hi) = hi - lo + 1
         /\ lo \in Int64 /\ hi \in Int64 /\ lo <= hi /\ Extent(lo, hi) > 0
              => Extent(lo, hi) = hi - lo + 1
<1> DEFINE n == Octet * Word
           h == Power[n - 1]
           x == hi - lo + 1
<1>1. n \in Widths /\ n > 0 /\ n - 1 \in Widths
  BY PowerNames, WordFacts, WidthAssumption
<1>2. h \in Nat /\ h >= 1 /\ Power[n] = 2 * h
  BY <1>1, PowerPositive, PowerDefined
<1>3. x \in Int
  OBVIOUS
<1>4. Extent(lo, hi) = Signed(x, n)
  BY DEF Extent
<1>5. Signed(x, n) = ((x + h) % (2 * h)) - h
  BY <1>2 DEF Signed
<1> HIDE DEF x, n
<1>6. /\ Signed(x, n) \in Int /\ Signed(x, n) < h
      /\ -h <= x /\ x < h => Signed(x, n) = x
  BY <1>1, <1>3, SignedFacts
<1> HIDE DEF h
<1>7. lo <= hi /\ x < h => Signed(x, n) = x
  <2>1. lo <= hi => x > 0
    BY DEF x
  <2> QED
    BY <1>2, <1>3, <1>6, <2>1
<1>8. ASSUME lo \in Int64, hi \in Int64, lo <= hi, Signed(x, n) > 0
      PROVE  Signed(x, n) = x
  <2>1. x > 0 /\ x <= 2 * h
    <3>1. -h <= lo /\ hi < h
      BY <1>8, <1>2 DEF Int64, h, n
    <3> QED
      BY <1>2, <1>8, <3>1 DEF x
  <2>2. CASE x < h
    BY <1>7, <1>8, <2>2
  <2>3. CASE x >= h
    <3> DEFINE m == 2 * h
    <3>1. m \in Nat /\ m >= 1 /\ x + h \in Int /\ x - h \in Nat /\ x + h = m * 1 + (x - h) /\ 1 \in Int
      BY <1>2, <1>3, <2>3
    <3>2. x - h < m
      BY <1>2, <1>3, <2>1
    <3>3. (x + h) % m = x - h
      <4> DEFINE y == x + h
                 r == x - h
      <4>1. y \in Int /\ r \in Nat /\ y = m * 1 + r /\ r < m
        BY <3>1, <3>2
      <4>2. y % m = r
        <5> HIDE DEF y, r, m
        <5> QED
          BY <3>1, <4>1, QuotientIs
      <4> QED
        BY <4>2
    <3>4. Signed(x, n) = x - h - h
      BY <1>5, <3>3
    <3> QED
      BY <1>2, <1>3, <1>8, <2>1, <3>4
  <2> QED
    BY <1>2, <1>3, <2>2, <2>3
<1> QED
  BY <1>4, <1>6, <1>7, <1>8 DEF x, h, n

-----------------------------------------------------------------------------
(***************************************************************************)
(* Constrained integers of unaligned PER.                                  *)
(***************************************************************************)

(* No rounding is seen in ranges of less than 2^32 values.                 *)
LEMMA SlackFacts ==
  ASSUME NEW lang
  PROVE  \A k \in Widths :
           /\ Power[k] \in Nat
           /\ (IF lang = "cpp" THEN Unseen(k) ELSE 0) \in Nat
           /\ k <= 4 * Octet => (IF lang = "cpp" THEN Unseen(k) ELSE 0) = 0
<1> TAKE k \in Widths
<1>1. Power[k] \in Nat
  BY PowerPositive
<1>2. Unseen(k) \in 0 .. Power[k] - 1 /\ (k <= 4 * Octet => Unseen(k) = 0)
  BY UnseenAssumption DEF Widths
<1>3. Unseen(k) \in Nat
  BY <1>1, <1>2
<1> QED
  BY <1>1, <1>2, <1>3

(* The width of a range is the first that holds it, in C++ up to the       *)
(* rounding of a logarithm.                                                *)
LEMMA RangeBitsFacts ==
  ASSUME NEW lang, NEW lo \in Int, NEW hi \in Int
  PROVE  RangeBits(lang, lo, hi) \in Widths
<1> DEFINE values == Extent(lo, hi)
           Slack(k) == IF lang = "cpp" THEN Unseen(k) ELSE 0
           S == {k \in Widths : values <= Power[k] + Slack(k)}
           Is(k) == values <= Power[k] + Slack(k) /\ (k > 0 => values > Power[k - 1] + Slack(k - 1))
<1>1. RangeBits(lang, lo, hi) = IF lo >= hi \/ values <= 0 THEN 0 ELSE CHOOSE k \in Widths : Is(k)
  BY DEF RangeBits, Widths
<1>2. \A k \in Widths : Power[k] \in Nat /\ Slack(k) \in Nat
  BY SlackFacts
<1>3. values \in Int /\ values < Power[Octet * Word - 1] /\ Octet * Word - 1 \in Widths /\ 0 \in Widths
  <2>1. values \in Int /\ values < Power[Octet * Word - 1]
    BY ExtentFacts
  <2>2. Octet * Word - 1 \in Widths /\ 0 \in Widths
    BY PowerNames, WordFacts DEF Widths
  <2> QED
    BY <2>1, <2>2
<1>4. \E k \in Widths : Is(k)
  <2> HIDE DEF values, Slack
  <2>1. Octet * Word - 1 \in S
    BY <1>2, <1>3
  <2>2. S \in SUBSET Nat
    BY DEF Widths
  <2> HIDE DEF S
  <2>3. PICK k \in S : \A j \in S : k <= j
    BY <2>1, <2>2, FirstExists
  <2>4. k \in Widths /\ values <= Power[k] + Slack(k)
    BY DEF S
  <2>5. k > 0 => k - 1 \in Widths /\ k - 1 \notin S
    BY <2>3, <2>4, WordFacts DEF Widths
  <2>6. k > 0 => values > Power[k - 1] + Slack(k - 1)
    BY <1>2, <1>3, <2>5 DEF S
  <2> QED
    BY <2>4, <2>6
<1> HIDE DEF Is, values
<1>5. (CHOOSE k \in Widths : Is(k)) \in Widths
  BY <1>4
<1> QED
  BY <1>1, <1>3, <1>5

(* A range of less than 2^31 values has the same width in both languages,  *)
(* and the width is enough.                                                *)
LEMMA RangeBitsExact ==
  ASSUME NEW lang, NEW lo \in Int, NEW hi \in Int, lo < hi, hi - lo + 1 <= MaxCount,
         NEW k \in 0 .. 4 * Octet - 1,
         hi - lo + 1 <= Power[k], k > 0 => hi - lo + 1 > Power[k - 1]
  PROVE  RangeBits(lang, lo, hi) = k
<1> DEFINE values == Extent(lo, hi)
           Slack(j) == IF lang = "cpp" THEN Unseen(j) ELSE 0
           Is(j) == values <= Power[j] + Slack(j) /\ (j > 0 => values > Power[j - 1] + Slack(j - 1))
           n == Octet * Word
<1>1. RangeBits(lang, lo, hi) = IF lo >= hi \/ values <= 0 THEN 0 ELSE CHOOSE j \in Widths : Is(j)
  BY DEF RangeBits, Widths
<1>2. \A j \in Widths : Power[j] \in Nat /\ Slack(j) \in Nat /\ (j <= 4 * Octet => Slack(j) = 0)
  BY SlackFacts
<1>3. 4 * Octet \in Nat /\ 4 * Octet - 1 \in Widths /\ Octet * Word - 1 \in Widths /\ 4 * Octet <= Octet * Word /\ Octet * Word \in Nat
  BY WordFacts, WidthAssumption, PowerNames
<1>4. values = hi - lo + 1 /\ values > 0
  <2>1. MaxCount < Power[Octet * Word - 1]
    BY <1>2, <1>3, PowerNames DEF MaxCount
  <2>2. MaxCount \in Int /\ Power[Octet * Word - 1] \in Nat
    BY <1>2, <1>3 DEF MaxCount
  <2>3. hi - lo + 1 < Power[Octet * Word - 1] /\ lo <= hi /\ hi - lo + 1 > 0
    BY <2>1, <2>2
  <2> QED
    BY <2>3, ExtentFacts
<1>5. k \in Widths /\ k < 4 * Octet
  BY <1>3 DEF Widths
<1>6. k > 0 => k - 1 \in Widths
  BY <1>5, WordFacts DEF Widths
<1> HIDE DEF values, Slack
<1>7. Is(k)
  <2>1. values <= Power[k] + Slack(k)
    BY <1>2, <1>4, <1>5
  <2>2. k > 0 => values > Power[k - 1] + Slack(k - 1)
    <3> HAVE k > 0
    <3>1. Slack(k - 1) = 0 /\ Power[k - 1] \in Nat
      BY <1>2, <1>3, <1>5, <1>6
    <3> QED
      BY <1>4, <3>1
  <2> QED
    BY <2>1, <2>2
<1>8. ASSUME NEW j \in Widths, Is(j)
      PROVE  j = k
  <2>1. j \in Nat /\ k \in Nat
    BY WordFacts DEF Widths
  <2>2. ASSUME j < k
        PROVE  FALSE
    <3>1. Power[j] <= Power[k - 1]
      <4>1. j < k - 1 => Power[j] < Power[k - 1]
        BY <1>6, <2>1, <2>2, PowerGrows
      <4>2. j = k - 1 \/ j < k - 1
        BY <2>1, <2>2
      <4>3. Power[j] \in Nat /\ Power[k - 1] \in Nat
        BY <1>2, <1>6, <2>1, <2>2
      <4> QED
        BY <4>1, <4>2, <4>3
    <3>2. Slack(j) = 0 /\ values <= Power[j]
      BY <1>2, <1>3, <1>5, <1>8, <2>1, <2>2
    <3>3. values > Power[k - 1]
      BY <1>4, <2>1, <2>2
    <3>4. Power[j] \in Nat /\ Power[k - 1] \in Nat /\ values \in Int
      BY <1>2, <1>4, <1>6, <2>1, <2>2
    <3> QED
      BY <3>1, <3>2, <3>3, <3>4
  <2>3. ASSUME j > k
        PROVE  FALSE
    <3>1. j - 1 \in Widths /\ j > 0
      BY <2>1, <2>3, WordFacts DEF Widths
    <3>2. Power[k] <= Power[j - 1]
      <4>1. k < j - 1 => Power[k] < Power[j - 1]
        BY <1>5, <3>1, <2>1, PowerGrows
      <4>2. k = j - 1 \/ k < j - 1
        BY <2>1, <2>3
      <4>3. Power[k] \in Nat /\ Power[j - 1] \in Nat
        BY <1>2, <1>5, <3>1
      <4> QED
        BY <4>1, <4>2, <4>3
    <3>3. values > Power[j - 1] + Slack(j - 1) /\ Slack(j - 1) \in Nat /\ Power[j - 1] \in Nat /\ Power[k] \in Nat
      BY <1>2, <1>5, <1>8, <3>1
    <3> QED
      BY <1>4, <3>2, <3>3
  <2> QED
    BY <2>1, <2>2, <2>3
<1> HIDE DEF Is
<1>9. (CHOOSE j \in Widths : Is(j)) = k
  BY <1>5, <1>7, <1>8
<1> QED
  BY <1>1, <1>4, <1>9

(* Up to 2^31 values, both languages take one width, and it is enough.     *)
LEMMA RangeBitsCover ==
  ASSUME NEW lang, NEW other, NEW lo \in Int, NEW hi \in Int, lo <= hi, hi - lo + 1 <= MaxCount
  PROVE  /\ RangeBits(lang, lo, hi) = RangeBits(other, lo, hi)
         /\ hi - lo + 1 <= Power[RangeBits(lang, lo, hi)]
<1>1. CASE lo = hi
  <2>1. RangeBits(lang, lo, hi) = 0 /\ RangeBits(other, lo, hi) = 0
    BY <1>1 DEF RangeBits
  <2> QED
    BY <1>1, <2>1, PowerDefined
<1>2. CASE lo < hi
  <2> DEFINE S == {k \in 0 .. 4 * Octet - 1 : hi - lo + 1 <= Power[k]}
  <2>1. 4 * Octet - 1 \in 0 .. 4 * Octet - 1 /\ Power[4 * Octet - 1] \in Nat /\ 4 * Octet \in Nat
    BY WidthAssumption, PowerNames, PowerPositive
  <2>2. 4 * Octet - 1 \in S
    BY <2>1 DEF MaxCount
  <2>3. S \in SUBSET Nat
    BY <2>1
  <2> HIDE DEF S
  <2>4. PICK k \in S : \A j \in S : k <= j
    BY <2>2, <2>3, FirstExists
  <2>5. k \in 0 .. 4 * Octet - 1 /\ hi - lo + 1 <= Power[k]
    BY <2>4 DEF S
  <2>6. k > 0 => hi - lo + 1 > Power[k - 1]
    <3> HAVE k > 0
    <3>1. k - 1 \in 0 .. 4 * Octet - 1 /\ k - 1 \notin S
      BY <2>1, <2>4, <2>5
    <3>2. Power[k - 1] \in Nat
      BY <2>1, <3>1, PowerPositive, WordFacts DEF Widths
    <3> QED
      BY <3>1, <3>2 DEF S
  <2>7. \A l : RangeBits(l, lo, hi) = k
    BY <1>2, <2>5, <2>6, RangeBitsExact
  <2> QED
    BY <2>5, <2>7
<1> QED
  BY <1>1, <1>2

(* Constrained fields.                                                     *)

(* What a field that counts from lo in n bits has of a value that is not   *)
(* below lo.                                                               *)
LEMMA Wrapped ==
  ASSUME NEW lo \in Int, NEW v \in Int, lo <= v, NEW n \in Widths
  PROVE  /\ lo + ((v - lo) % Power[n]) \in lo .. v
         /\ v - lo < Power[n] => lo + ((v - lo) % Power[n]) = v
<1> DEFINE x == v - lo
           p == Power[n]
<1>1. x \in Nat /\ p \in Nat /\ p >= 1 /\ v = lo + x /\ x \in Int
  BY PowerPositive
<1> HIDE DEF x, p
<1>2. x % p \in Nat /\ x % p <= x /\ (x < p => x % p = x)
  BY <1>1, Quotient
<1>3. lo + (x % p) \in lo .. v /\ (x < p => lo + (x % p) = v)
  BY <1>1, <1>2
<1> QED
  BY <1>3 DEF x, p

(* A constrained integer is written after what is there.                   *)
LEMMA PutConstrainedFacts ==
  ASSUME NEW lang, NEW w \in Message, NEW v \in Int, NEW lo \in Int, NEW hi \in Int
  PROVE  /\ PutConstrained(lang, w, v, lo, hi) \in Message
         /\ Extends(w, PutConstrained(lang, w, v, lo, hi))
<1> DEFINE n == RangeBits(lang, lo, hi)
<1>1. n \in Widths /\ v - lo \in Int
  BY RangeBitsFacts
<1>2. PutConstrained(lang, w, v, lo, hi) = w \o Bits(v - lo, n)
  BY DEF PutConstrained
<1> HIDE DEF n
<1>3. Bits(v - lo, n) \in Message
  BY <1>1, BitsFacts
<1> QED
  BY <1>2, <1>3, Longer

(* A constrained integer returns modulo the width of its range.            *)
LEMMA ConstrainedTrip ==
  ASSUME NEW lang, NEW other, NEW w \in Message, NEW v \in Int, NEW lo \in Int, NEW hi \in Int,
         RangeBits(other, lo, hi) = RangeBits(lang, lo, hi),
         NEW msg \in Message, Extends(PutConstrained(lang, w, v, lo, hi), msg)
  PROVE  GetConstrained(other, msg, Len(w), lo, hi)
           = Read(lo + ((v - lo) % Power[RangeBits(lang, lo, hi)]),
                  Len(PutConstrained(lang, w, v, lo, hi)))
<1> DEFINE n == RangeBits(lang, lo, hi)
           x == v - lo
<1>1. n \in Widths /\ x \in Int
  BY RangeBitsFacts
<1>2. PutConstrained(lang, w, v, lo, hi) = w \o Bits(x, n)
  BY DEF PutConstrained
<1>3. GetBits(msg, Len(w), n) = Read(x % Power[n], Len(w \o Bits(x, n)))
  <2>1. Extends(w \o Bits(x, n), msg)
    BY <1>2
  <2> HIDE DEF n, x
  <2> QED
    BY <1>1, <2>1, BitsTrip
<1>4. GetConstrained(other, msg, Len(w), lo, hi) = Then(GetBits(msg, Len(w), n), LAMBDA a, b : Read(lo + a, b))
  BY DEF GetConstrained
<1> QED
  BY <1>2, <1>3, <1>4 DEF Then, Read

(* A constrained integer read is not below its lower bound.                *)
LEMMA GetConstrainedFacts ==
  ASSUME NEW lang, NEW msg \in Message, NEW pos \in 0 .. Len(msg), NEW lo \in Int, NEW hi \in Int
  PROVE  /\ GetConstrained(lang, msg, pos, lo, hi)
              = Read(GetConstrained(lang, msg, pos, lo, hi).value, GetConstrained(lang, msg, pos, lo, hi).at)
         /\ GetConstrained(lang, msg, pos, lo, hi).value \in Int
         /\ GetConstrained(lang, msg, pos, lo, hi).value >= lo
         /\ GetConstrained(lang, msg, pos, lo, hi).at \in pos .. Len(msg)
<1> DEFINE n == RangeBits(lang, lo, hi)
           x == GetBits(msg, pos, n)
<1>1. n \in Nat
  BY RangeBitsFacts, WordFacts DEF Widths
<1>2. x.value \in Nat /\ x.at \in pos .. Len(msg)
  <2> HIDE DEF n
  <2>1. x = Read(x.value, After(msg, pos, n)) /\ x.value \in Nat
    BY <1>1, GetBitsFacts
  <2>2. After(msg, pos, n) \in pos .. Len(msg)
    BY <1>1, AfterFacts
  <2>3. x.at = After(msg, pos, n)
    BY <2>1 DEF Read
  <2> QED
    BY <2>1, <2>2, <2>3
<1>3. GetConstrained(lang, msg, pos, lo, hi) = Read(lo + x.value, x.at)
  BY DEF GetConstrained, Then, Read
<1> HIDE DEF x
<1> QED
  BY <1>2, <1>3 DEF Read

-----------------------------------------------------------------------------
(***************************************************************************)
(* Lengths.                                                                *)
(***************************************************************************)

(* Lengths.                                                                *)
LEMMA LongFacts ==
  /\ MaxFragments \in Nat /\ MaxFragments >= 4
  /\ Power[Octet] = 4 * MaxFragments /\ Power[Octet] \in Nat
  /\ Short = 2 * MaxFragments /\ Short \in Nat
  /\ Long = Power[Octet] * MaxFragments /\ Long \in Nat /\ Long >= 16
  /\ Octet \in Widths /\ Octet \in Nat /\ 2 * Octet \in Widths
<1>1. /\ MaxFragments = 4 * Power[Octet - 4] /\ Power[Octet - 4] \in Nat /\ Power[Octet - 4] >= 1
      /\ Power[Octet] = 4 * MaxFragments /\ Short = 2 * MaxFragments
      /\ Long = Power[Octet] * MaxFragments
      /\ Octet \in Widths /\ 2 * Octet \in Widths
  BY PowerNames
<1>2. MaxFragments \in Nat /\ MaxFragments >= 4
  BY <1>1
<1>3. ASSUME NEW p \in Nat, p >= 4
      PROVE  (4 * p) * p \in Nat /\ (4 * p) * p >= 16
  BY <1>3
<1> QED
  BY <1>1, <1>2, <1>3, WidthAssumption

(* A length determinant is written after what is there.                    *)
LEMMA PutLengthFacts ==
  ASSUME NEW w \in Message, NEW n \in Nat
  PROVE  PutLength(w, n) \in Message /\ Extends(w, PutLength(w, n))
<1> DEFINE x == IF n < Short THEN Bits(n, Octet)
                ELSE IF n < Long THEN Bits(2 * Long + n, 2 * Octet)
                ELSE Bits(3 * MaxFragments + ((Fragments(n) - 1) % MaxFragments), Octet)
<1>1. Bits(n, Octet) \in Message
  BY LongFacts, BitsFacts
<1>2. Bits(2 * Long + n, 2 * Octet) \in Message
  <2>1. 2 * Long + n \in Int
    BY LongFacts
  <2> QED
    BY <2>1, LongFacts, BitsFacts
<1>3. Bits(3 * MaxFragments + ((Fragments(n) - 1) % MaxFragments), Octet) \in Message
  <2>1. n + Long - 1 \in Int /\ Long >= 1
    BY LongFacts
  <2>2. Fragments(n) - 1 \in Int
    <3>1. (n + Long - 1) \div Long \in Int
      BY <2>1, LongFacts, Quotient
    <3> QED
      BY <3>1 DEF Fragments
  <2>3. (Fragments(n) - 1) % MaxFragments \in Nat
    BY <2>2, LongFacts, Quotient
  <2>4. 3 * MaxFragments + ((Fragments(n) - 1) % MaxFragments) \in Int
    BY <2>3, LongFacts
  <2> QED
    BY <2>4, LongFacts, BitsFacts
<1>4. x \in Message
  BY <1>1, <1>2, <1>3
<1>5. PutLength(w, n) = w \o x
  BY DEF PutLength
<1> HIDE DEF x
<1> QED
  BY <1>4, <1>5, Longer

(* Lengths below 128 take one octet.                                       *)
LEMMA ShortTrip ==
  ASSUME NEW w \in Message, NEW n \in Nat, n < Short,
         NEW msg \in Message, Extends(PutLength(w, n), msg)
  PROVE  GetLength(msg, Len(w)) = Read(n, Len(PutLength(w, n)))
<1>1. PutLength(w, n) = w \o Bits(n, Octet)
  BY DEF PutLength
<1>2. n % Power[Octet] = n
  <2>1. n < Power[Octet] /\ n \in Int /\ Power[Octet] >= 1
    BY LongFacts
  <2> QED
    BY <2>1, LongFacts, Quotient
<1>3. GetBits(msg, Len(w), Octet) = Read(n, Len(w \o Bits(n, Octet)))
  BY <1>1, <1>2, LongFacts, BitsTrip
<1>4. GetBits(msg, Len(w), Octet).value = n /\ GetBits(msg, Len(w), Octet).at = Len(w \o Bits(n, Octet))
  BY <1>3 DEF Read
<1> QED
  BY <1>1, <1>4 DEF GetLength, Then

(* Lengths below 16K take two octets.                                      *)
LEMMA LongTrip ==
  ASSUME NEW w \in Message, NEW n \in Nat, n >= Short, n < Long,
         NEW msg \in Message, Extends(PutLength(w, n), msg)
  PROVE  GetLength(msg, Len(w)) = Read(n, Len(PutLength(w, n)))
<1> DEFINE f == MaxFragments
           p == Power[Octet]
           q == n \div p
           r == n % p
           v == 2 * Long + n
           first == v \div p
           x == Bits(first, Octet)
           y == Bits(v, Octet)
<1>1. /\ f \in Nat /\ f >= 4 /\ p = 4 * f /\ p \in Nat /\ Short = 2 * f /\ Long = p * f
      /\ Octet \in Widths /\ Octet \in Nat /\ Octet + Octet \in Widths /\ 2 * Octet = Octet + Octet
  BY LongFacts
<1>2. q \in Nat /\ r \in Nat /\ r < p /\ n = p * q + r
  <2> HIDE DEF p
  <2>1. p >= 1 /\ n \in Int /\ n >= 0
    BY <1>1
  <2>2. q \in Nat
    BY <1>1, <2>1, Quotient
  <2> QED
    BY <1>1, <2>1, <2>2, Quotient
<1> HIDE DEF q, r
<1>3. q < f
  <2>1. ASSUME q >= f
        PROVE  FALSE
    <3> HIDE DEF p
    <3>1. \A a, b, c \in Nat : a >= b => c * a >= c * b
      OBVIOUS
    <3>2. p * q >= p * f /\ p * q \in Nat /\ p * f \in Nat
      BY <1>1, <1>2, <2>1, <3>1
    <3> QED
      BY <1>1, <1>2, <3>2
  <2> QED
    BY <1>1, <1>2, <2>1
<1>4. v = p * (2 * f + q) + r /\ 2 * f + q \in Int /\ v \in Int
  <2> HIDE DEF p, f
  <2>1. 2 * (p * f) + (p * q + r) = p * (2 * f + q) + r
    BY <1>1, <1>2
  <2> QED
    BY <1>1, <1>2, <2>1
<1>5. first = 2 * f + q /\ v % p = r
  <2> HIDE DEF v, p, f
  <2> DEFINE s == 2 * f + q
  <2>1. s \in Int /\ v = p * s + r /\ v \in Int /\ p >= 1
    BY <1>1, <1>4
  <2> HIDE DEF s
  <2>2. v \div p = s /\ v % p = r
    BY <1>1, <1>2, <2>1, QuotientIs
  <2> QED
    BY <2>2 DEF s
<1>6. PutLength(w, n) = w \o Bits(v, Octet + Octet)
  BY <1>1 DEF PutLength
<1>7. Bits(v, Octet + Octet) = x \o y
  <2> HIDE DEF v
  <2> QED
    BY <1>1, <1>4, BitsSplit
<1> HIDE DEF v
<1>8. first \in Int /\ first \in Nat /\ first < p /\ first >= 2 * f /\ first < 3 * f
  <2> HIDE DEF p, f, first
  <2> QED
    BY <1>1, <1>2, <1>3, <1>5
<1> HIDE DEF first
<1>9. x \in Message /\ y \in Message
  BY <1>1, <1>4, <1>8, BitsFacts
<1>10. w \o x \in Message /\ (w \o x) \o y = PutLength(w, n)
  <2> HIDE DEF x, y
  <2>1. w \o x \in Message
    BY <1>9, Longer
  <2>2. w \o (x \o y) = (w \o x) \o y
    BY <1>9, JoinAgain
  <2> QED
    BY <1>6, <1>7, <2>1, <2>2
<1>11. Extends(w \o x, msg)
  <2>1. Extends(w \o x, (w \o x) \o y) /\ (w \o x) \o y \in Message
    BY <1>9, <1>10, Longer
  <2> QED
    BY <1>10, <2>1, ExtendsOnward
<1>12. GetBits(msg, Len(w), Octet) = Read(first, Len(w \o x))
  <2>1. first % Power[Octet] = first
    BY <1>1, <1>8, Quotient
  <2> QED
    BY <1>1, <1>8, <1>11, <2>1, BitsTrip
<1>13. GetBits(msg, Len(w \o x), Octet) = Read(r, Len(PutLength(w, n)))
  <2>1. Extends((w \o x) \o y, msg)
    BY <1>10
  <2>2. GetBits(msg, Len(w \o x), Octet) = Read(v % Power[Octet], Len((w \o x) \o y))
    <3> DEFINE u == w \o x
    <3>1. u \in Message /\ Extends(u \o Bits(v, Octet), msg)
      BY <1>10, <2>1
    <3>2. GetBits(msg, Len(u), Octet) = Read(v % Power[Octet], Len(u \o Bits(v, Octet)))
      <4> HIDE DEF u
      <4> QED
        BY <1>1, <1>4, <3>1, BitsTrip
    <3> QED
      BY <3>2
  <2> QED
    BY <1>5, <1>10, <2>2
<1>14. first % f = q
  <2> HIDE DEF f, p
  <2>1. first = f * 2 + q /\ first \in Int /\ f >= 1 /\ 2 \in Int
    BY <1>1, <1>2, <1>5
  <2> QED
    BY <1>1, <1>2, <1>3, <2>1, QuotientIs
<1>15. q * p + r = n
  <2> HIDE DEF p
  <2>1. p * q = q * p
    BY <1>1, <1>2
  <2> QED
    BY <1>2, <2>1
<1>16. /\ GetBits(msg, Len(w), Octet).value = first /\ GetBits(msg, Len(w), Octet).at = Len(w \o x)
       /\ GetBits(msg, Len(w \o x), Octet).value = r
       /\ GetBits(msg, Len(w \o x), Octet).at = Len(PutLength(w, n))
  BY <1>12, <1>13 DEF Read
<1>17. GetLength(msg, Len(w)) = Read((first % f) * p + r, Len(PutLength(w, n)))
  <2>1. ~ (first < Short) /\ first < 3 * MaxFragments
    BY <1>1, <1>8
  <2> QED
    BY <1>16, <2>1 DEF GetLength, Then
<1> QED
  BY <1>14, <1>15, <1>17

(* A length of one to four whole fragments returns.                        *)
LEMMA FragmentedTrip ==
  ASSUME NEW w \in Message, NEW n \in Nat, n >= Long, n % Long = 0, Fragments(n) <= MaxFragments,
         NEW msg \in Message, Extends(PutLength(w, n), msg)
  PROVE  GetLength(msg, Len(w)) = Read(n, Len(PutLength(w, n)))
<1> DEFINE f == MaxFragments
           p == Power[Octet]
           m == n \div Long
           first == 3 * f + ((Fragments(n) - 1) % f)
<1>1. /\ f \in Nat /\ f >= 4 /\ p = 4 * f /\ p \in Nat /\ Short = 2 * f
      /\ Long \in Nat /\ Long >= 16
      /\ Octet \in Widths
  BY LongFacts
<1>2. m \in Nat /\ n = Long * m
  BY <1>1, Quotient
<1> HIDE DEF m
<1>3. m >= 1 /\ Fragments(n) = m
  <2>1. m # 0
    BY <1>1, <1>2
  <2>2. (n + Long - 1) = Long * m + (Long - 1) /\ Long - 1 \in Nat /\ n + Long - 1 \in Int
    BY <1>1, <1>2
  <2>3. (n + Long - 1) \div Long = m
    <3> DEFINE y == n + Long - 1
               r == Long - 1
    <3>1. y \in Int /\ r \in Nat /\ y = Long * m + r /\ r < Long /\ Long >= 1 /\ m \in Int
      BY <1>1, <1>2, <2>2
    <3>2. y \div Long = m
      <4> HIDE DEF y, r
      <4> QED
        BY <1>1, <3>1, QuotientIs
    <3> QED
      BY <3>2
  <2> QED
    BY <1>2, <2>1, <2>3 DEF Fragments
<1>4. (Fragments(n) - 1) % f = m - 1
  <2>1. m - 1 \in Int /\ 0 <= m - 1 /\ m - 1 < f /\ f >= 1
    BY <1>1, <1>2, <1>3
  <2>2. (m - 1) % f = m - 1
    <3> HIDE DEF f
    <3> QED
      BY <1>1, <2>1, Quotient
  <2> QED
    BY <1>3, <2>2
<1>5. first = 3 * f + (m - 1) /\ first \in Nat /\ first < p /\ first >= 3 * f /\ first \in Int
  <2> HIDE DEF f, p
  <2> QED
    BY <1>1, <1>2, <1>3, <1>4
<1>6. PutLength(w, n) = w \o Bits(first, Octet)
  <2>1. Long = Power[Octet] * MaxFragments
    BY LongFacts
  <2>2. \A a, b \in Nat : a >= 4 /\ b >= 4 => a * b >= 2 * b
    OBVIOUS
  <2>3. Long >= Short
    BY <1>1, <2>1, <2>2
  <2>4. ~ (n < Short) /\ ~ (n < Long)
    BY <1>1, <2>3
  <2> QED
    BY <2>4 DEF PutLength
<1> HIDE DEF first
<1>7. GetBits(msg, Len(w), Octet) = Read(first, Len(PutLength(w, n)))
  <2>1. first % Power[Octet] = first
    BY <1>1, <1>5, Quotient
  <2>2. first \in Int /\ Octet \in Widths /\ Extends(w \o Bits(first, Octet), msg)
    BY <1>1, <1>5, <1>6
  <2>3. GetBits(msg, Len(w), Octet) = Read(first % Power[Octet], Len(w \o Bits(first, Octet)))
    BY <2>2, BitsTrip
  <2> QED
    BY <1>6, <2>1, <2>3
<1>8. first % f = m - 1
  <2> HIDE DEF f, p
  <2>1. first = f * 3 + (m - 1) /\ f >= 1 /\ 3 \in Int /\ m - 1 \in Nat /\ m - 1 < f
    BY <1>1, <1>2, <1>3, <1>5
  <2> DEFINE r == m - 1
  <2>2. r \in Nat /\ r < f /\ first = f * 3 + r
    BY <2>1
  <2> HIDE DEF r
  <2>3. first % f = r
    <3>1. first \in Int /\ f \in Nat /\ f >= 1
      BY <1>1, <1>5
    <3> QED
      BY ONLY <2>1, <2>2, <3>1, QuotientIs
  <2> QED
    BY <2>3 DEF r
<1>9. ((first % f) + 1) * Long = n
  <2>1. (m - 1) + 1 = m /\ m * Long = Long * m
    BY <1>1, <1>2
  <2> QED
    BY <1>2, <1>8, <2>1
<1>10. GetBits(msg, Len(w), Octet).value = first /\ GetBits(msg, Len(w), Octet).at = Len(PutLength(w, n))
  BY <1>7 DEF Read
<1>11. ~ (first < Short) /\ ~ (first < 3 * MaxFragments)
  BY <1>1, <1>5
<1> QED
  BY <1>9, <1>10, <1>11 DEF GetLength, Then

(* Every length that a determinant can hold is read as it was written.     *)
LEMMA LengthTrip ==
  ASSUME NEW w \in Message, NEW n \in Nat, Countable(n),
         NEW msg \in Message, Extends(PutLength(w, n), msg)
  PROVE  GetLength(msg, Len(w)) = Read(n, Len(PutLength(w, n)))
<1>1. CASE n < Short
  BY <1>1, ShortTrip
<1>2. CASE n >= Short /\ n < Long
  BY <1>2, LongTrip
<1>3. CASE n >= Long
  BY <1>3, LongFacts, FragmentedTrip DEF Countable
<1> QED
  BY <1>1, <1>2, <1>3, LongFacts

(* Whatever the message is, a length is one that C++ writes.               *)
LEMMA GetLengthFacts ==
  ASSUME NEW msg \in Message, NEW pos \in 0 .. Len(msg)
  PROVE  /\ GetLength(msg, pos).value \in Nat
         /\ GetLength(msg, pos).at \in pos .. Len(msg)
         /\ \A lang : ~ LengthRefused(lang, GetLength(msg, pos).value)
<1> DEFINE f == MaxFragments
           p == Power[Octet]
           x == GetBits(msg, pos, Octet)
           y == GetBits(msg, x.at, Octet)
<1>1. /\ f \in Nat /\ f >= 4 /\ p = 4 * f /\ p \in Nat /\ Short = 2 * f
      /\ Long \in Nat /\ Long >= 16 /\ Long = p * f
      /\ Octet \in Widths /\ Octet \in Nat
  BY LongFacts
<1>2. ASSUME NEW k \in 0 .. Len(msg)
      PROVE  LET z == GetBits(msg, k, Octet)
             IN  z.value \in Nat /\ z.value < p /\ z.at \in k .. Len(msg)
  <2>1. /\ GetBits(msg, k, Octet) = Read(GetBits(msg, k, Octet).value, After(msg, k, Octet))
        /\ GetBits(msg, k, Octet).value \in Nat
        /\ GetBits(msg, k, Octet).value < Power[Octet]
    BY <1>1, GetBitsFacts
  <2>2. After(msg, k, Octet) \in k .. Len(msg)
    BY <1>1, AfterFacts
  <2>3. GetBits(msg, k, Octet).at = After(msg, k, Octet)
    BY <2>1 DEF Read
  <2> QED
    BY <2>1, <2>2, <2>3
<1>3. x.value \in Nat /\ x.value < p /\ x.at \in pos .. Len(msg)
  BY <1>2
<1>4. y.value \in Nat /\ y.value < p /\ y.at \in x.at .. Len(msg)
  <2>1. x.at \in 0 .. Len(msg)
    BY <1>3, MessageFacts
  <2> QED
    BY <1>2, <2>1
<1>5. GetLength(msg, pos) = IF x.value < Short THEN Read(x.value, x.at)
                           ELSE IF x.value < 3 * f THEN Read((x.value % f) * p + y.value, y.at)
                           ELSE Read(((x.value % f) + 1) * Long, x.at)
  BY DEF GetLength, Then, Read
<1> HIDE DEF x, y, f, p
<1>6. ASSUME NEW n \in Nat, n <= f * Long
      PROVE  \A lang : ~ LengthRefused(lang, n)
  <2>1. n + Long - 1 \in Nat /\ n + Long - 1 < (f + 1) * Long
    <3>1. (f + 1) * Long = f * Long + Long
      BY <1>1
    <3> QED
      BY <1>1, <1>6, <3>1
  <2> DEFINE s == n + Long - 1
             q == s \div Long
  <2>2. q \in Nat /\ s = Long * q + (s % Long) /\ s % Long \in Nat
    <3> HIDE DEF s
    <3>1. s \in Int /\ s >= 0
      BY <2>1 DEF s
    <3>2. Long >= 1
      BY <1>1
    <3>3. q \in Nat
      BY <1>1, <3>1, <3>2, Quotient
    <3> QED
      BY <1>1, <3>1, <3>2, <3>3, Quotient
  <2>3. Fragments(n) = q
    BY DEF Fragments
  <2>4. q <= f
    <3> HIDE DEF q
    <3> SUFFICES ASSUME q >= f + 1
                 PROVE  FALSE
      BY <1>1, <2>2
    <3>1. \A a, b, c \in Nat : a >= b => c * a >= b * c
      OBVIOUS
    <3>2. Long * q >= (f + 1) * Long
      BY <1>1, <2>2, <3>1
    <3> QED
      BY <1>1, <2>1, <2>2, <3>2
  <2> QED
    BY <2>3, <2>4, <2>2, <1>1 DEF LengthRefused, f
<1>7. x.value % f \in Nat /\ x.value % f < f
  BY <1>1, <1>3, Quotient
<1>8. /\ x.value < Short => x.value <= f * Long
      /\ (x.value % f) * p + y.value \in Nat /\ (x.value % f) * p + y.value <= f * Long
      /\ ((x.value % f) + 1) * Long \in Nat /\ ((x.value % f) + 1) * Long <= f * Long
  <2> DEFINE r == x.value % f
             b == y.value
  <2>1. r \in Nat /\ r + 1 <= f /\ b \in Nat /\ b < p
    BY <1>1, <1>4, <1>7
  <2> HIDE DEF r, b
  <2>2. \A i1, j1, k1 \in Nat : i1 <= j1 => i1 * k1 <= j1 * k1 /\ i1 * k1 \in Nat
    OBVIOUS
  <2>3. (r + 1) * p = r * p + p /\ r * p \in Nat /\ (r + 1) * p <= f * p /\ f * p \in Nat /\ f * p = Long
    <3>1. (r + 1) * p = r * p + p /\ r * p \in Nat /\ f * p \in Nat /\ f * p = p * f
      BY <1>1, <2>1
    <3> QED
      BY <1>1, <2>1, <2>2, <3>1
  <2>4. Long <= f * Long /\ f * Long \in Nat
    <3>1. 1 * Long <= f * Long
      BY <1>1, <2>2
    <3> QED
      BY <1>1, <3>1
  <2>5. r * p + b \in Nat /\ r * p + b <= f * Long
    BY <1>1, <2>1, <2>3, <2>4
  <2>6. (r + 1) * Long \in Nat /\ (r + 1) * Long <= f * Long
    BY <1>1, <2>1, <2>2
  <2>7. x.value < Short => x.value <= f * Long
    <3>1. 2 * f <= p * f
      <4>1. \A a, c \in Nat : a >= 4 => 2 * c <= a * c
        OBVIOUS
      <4> QED
        BY <1>1, <4>1
    <3> QED
      BY <1>1, <1>3, <2>4, <3>1
  <2> QED
    BY <2>5, <2>6, <2>7 DEF r, b
<1>9. CASE x.value < Short
  <2>1. GetLength(msg, pos).value = x.value /\ GetLength(msg, pos).at = x.at
    BY <1>5, <1>9 DEF Read
  <2> QED
    BY <1>3, <1>6, <1>8, <1>9, <2>1
<1>10. CASE ~ (x.value < Short) /\ x.value < 3 * f
  <2>1. GetLength(msg, pos).value = (x.value % f) * p + y.value /\ GetLength(msg, pos).at = y.at
    BY <1>5, <1>10 DEF Read
  <2>2. y.at \in pos .. Len(msg)
    BY <1>3, <1>4
  <2> QED
    BY <1>6, <1>8, <2>1, <2>2
<1>11. CASE ~ (x.value < Short) /\ ~ (x.value < 3 * f)
  <2>1. GetLength(msg, pos).value = ((x.value % f) + 1) * Long /\ GetLength(msg, pos).at = x.at
    BY <1>5, <1>11 DEF Read
  <2> QED
    BY <1>3, <1>6, <1>8, <2>1
<1> QED
  BY <1>9, <1>10, <1>11

-----------------------------------------------------------------------------
(***************************************************************************)
(* Unconstrained integers.                                                 *)
(***************************************************************************)

(* Unconstrained integers.                                                 *)

(* Widths of the octets of an unconstrained integer.                       *)
LEMMA OctetWidths ==
  ASSUME NEW k \in 1 .. Word
  PROVE  /\ Octet * k \in Widths /\ k * Octet \in Widths /\ Octet * k = k * Octet
         /\ Octet * k - 1 \in Widths /\ Octet * k > 0
         /\ k < Short /\ k < Power[Octet] /\ k \in Nat
<1>1. Octet * k \in Widths /\ k * Octet \in Widths /\ k \in Nat
  BY WordFacts, WidthAssumption
<1>2. Octet * k = k * Octet /\ Octet * k >= 4 /\ Octet * k > 0
  BY WidthAssumption
<1>3. Octet * k - 1 \in Widths
  BY <1>1, <1>2, WordFacts DEF Widths
<1>4. k < Short /\ k < Power[Octet]
  BY WordAssumption, WidthAssumption, LongFacts DEF Short
<1> QED
  BY <1>1, <1>2, <1>3, <1>4

(* The octets counted by the encoder are enough for a 64-bit integer.      *)
LEMMA SignedOctetsFacts ==
  ASSUME NEW v \in Int64
  PROVE  SignedOctets(v) \in 1 .. Word /\ Needs(v, SignedOctets(v))
<1> DEFINE S == {k \in 1 .. Word : Needs(v, k)}
<1>1. Word \in S
  <2>1. Word \in 1 .. Word /\ Word * Octet = Octet * Word
    BY WidthAssumption
  <2>2. Needs(v, Word)
    BY <2>1, PowerNames, PowerPositive DEF Needs, Int64
  <2> QED
    BY <2>1, <2>2
<1>2. S \in SUBSET Nat
  BY WidthAssumption
<1> HIDE DEF S
<1>3. PICK k \in S : \A j \in S : k <= j
  BY <1>1, <1>2, FirstExists
<1>4. k \in 1 .. Word /\ Needs(v, k) /\ \A j \in 1 .. k - 1 : ~ Needs(v, j)
  <2>1. k \in 1 .. Word /\ Needs(v, k) /\ Word \in Nat
    BY WidthAssumption DEF S
  <2>2. \A j \in 1 .. k - 1 : j \in 1 .. Word /\ ~ (k <= j)
    BY <2>1
  <2> QED
    BY <1>3, <2>1, <2>2 DEF S
<1> DEFINE Is(j) == Needs(v, j) /\ \A l \in 1 .. j - 1 : ~ Needs(v, l)
<1>5. \E j \in 1 .. Word : Is(j)
  BY <1>4
<1>6. SignedOctets(v) = CHOOSE j \in 1 .. Word : Is(j)
  BY DEF SignedOctets
<1>7. SignedOctets(v) \in 1 .. Word /\ Is(SignedOctets(v))
  <2> HIDE DEF Is
  <2> QED
    BY <1>5, <1>6
<1> QED
  BY <1>7

(* An unconstrained integer is written after what is there.                *)
LEMMA PutUnconstrainedFacts ==
  ASSUME NEW w \in Message, NEW v \in Int64
  PROVE  PutUnconstrained(w, v) \in Message /\ Extends(w, PutUnconstrained(w, v))
<1> DEFINE k == SignedOctets(v)
           u == PutLength(w, k)
           x == Bits(v, Octet * k)
<1>1. k \in 1 .. Word /\ k \in Nat /\ Octet * k \in Widths /\ v \in Int
  BY SignedOctetsFacts, OctetWidths DEF Int64
<1> HIDE DEF k
<1>2. u \in Message /\ Extends(w, u) /\ x \in Message
  BY <1>1, PutLengthFacts, BitsFacts
<1>3. PutUnconstrained(w, v) = u \o x
  BY DEF PutUnconstrained, k
<1> HIDE DEF u, x
<1>4. u \o x \in Message /\ Extends(u, u \o x)
  BY <1>2, Longer
<1> QED
  BY <1>2, <1>3, <1>4, ExtendsOnward

(* An integer of k octets that needs no more of them.                      *)
LEMMA OctetsTrip ==
  ASSUME NEW w \in Message, NEW v \in Int, NEW k \in 1 .. Word, Needs(v, k),
         NEW msg \in Message, Extends(w \o Bits(v, Octet * k), msg)
  PROVE  GetOctets(msg, Len(w), k) = Read(v, Len(w \o Bits(v, Octet * k)))
<1> DEFINE n == Octet * k
<1>1. n \in Widths /\ n > 0 /\ n = k * Octet
  BY OctetWidths
<1>2. -Power[n - 1] <= v /\ v < Power[n - 1]
  BY <1>1 DEF Needs
<1>3. GetOctets(msg, Len(w), k) = Then(GetBits(msg, Len(w), n), LAMBDA a, b : Read(Signed(a, n), b))
  <2>1. k # 0 /\ ~ (k > Word)
    BY WidthAssumption
  <2> QED
    BY <2>1 DEF GetOctets
<1> HIDE DEF n
<1>4. Signed(v % Power[n], n) = v
  BY <1>1, <1>2, SignedFacts
<1>5. GetBits(msg, Len(w), n) = Read(v % Power[n], Len(w \o Bits(v, n)))
  BY <1>1, BitsTrip DEF n
<1>6. GetBits(msg, Len(w), n).value = v % Power[n] /\ GetBits(msg, Len(w), n).at = Len(w \o Bits(v, n))
  BY <1>5 DEF Read
<1> QED
  BY <1>3, <1>4, <1>6 DEF Then, n

(* Every 64-bit integer returns from unaligned PER.                        *)
LEMMA UnconstrainedTrip ==
  ASSUME NEW w \in Message, NEW v \in Int64,
         NEW msg \in Message, Extends(PutUnconstrained(w, v), msg)
  PROVE  GetUnconstrained(msg, Len(w)) = Read(v, Len(PutUnconstrained(w, v)))
<1> DEFINE k == SignedOctets(v)
           u == PutLength(w, k)
           x == Bits(v, Octet * k)
<1>1. k \in 1 .. Word /\ Needs(v, k) /\ k \in Nat /\ k < Short /\ Octet * k \in Widths /\ v \in Int
  BY SignedOctetsFacts, OctetWidths DEF Int64
<1>2. PutUnconstrained(w, v) = u \o x
  BY DEF PutUnconstrained
<1> HIDE DEF k
<1>3. u \in Message /\ x \in Message
  BY <1>1, PutLengthFacts, BitsFacts
<1>4. Extends(u, msg)
  <2> HIDE DEF u, x
  <2> QED
    BY <1>2, <1>3, PartTrip
<1>5. GetLength(msg, Len(w)) = Read(k, Len(u))
  BY <1>1, <1>4, ShortTrip
<1>6. GetOctets(msg, Len(u), k) = Read(v, Len(u \o x))
  BY <1>1, <1>2, <1>3, OctetsTrip
<1>7. GetLength(msg, Len(w)).value = k /\ GetLength(msg, Len(w)).at = Len(u)
  BY <1>5 DEF Read
<1> HIDE DEF u, x
<1> QED
  BY <1>2, <1>6, <1>7 DEF GetUnconstrained, Then

(* Octets read end in the message.                                         *)
LEMMA GetOctetsFacts ==
  ASSUME NEW msg \in Message, NEW pos \in 0 .. Len(msg), NEW n \in Nat
  PROVE  GetOctets(msg, pos, n).at \in pos .. Len(msg)
<1>1. pos \in pos .. Len(msg)
  BY MessageFacts
<1>2. CASE n = 0
  BY <1>1, <1>2 DEF GetOctets, Read
<1>3. CASE n # 0 /\ n > Word
  BY <1>1, <1>3 DEF GetOctets, Read
<1>4. CASE n # 0 /\ ~ (n > Word)
  <2>1. GetOctets(msg, pos, n).at = GetBits(msg, pos, Octet * n).at
    BY <1>4 DEF GetOctets, Then, Read
  <2>2. Octet * n \in Nat
    BY WidthAssumption
  <2> DEFINE m == Octet * n
  <2>3. GetBits(msg, pos, m) = Read(GetBits(msg, pos, m).value, After(msg, pos, m))
        /\ After(msg, pos, m) \in pos .. Len(msg)
    <3> HIDE DEF m
    <3>1. m \in Nat
      BY <2>2 DEF m
    <3> QED
      BY <3>1, GetBitsFacts, AfterFacts
  <2>4. GetBits(msg, pos, m).at = After(msg, pos, m)
    BY <2>3 DEF Read
  <2> QED
    BY <2>1, <2>3, <2>4
<1> QED
  BY <1>2, <1>3, <1>4

(* An unconstrained integer read ends in the message.                      *)
LEMMA GetUnconstrainedFacts ==
  ASSUME NEW msg \in Message, NEW pos \in 0 .. Len(msg)
  PROVE  GetUnconstrained(msg, pos).at \in pos .. Len(msg)
<1> DEFINE x == GetLength(msg, pos)
<1>1. x.value \in Nat /\ x.at \in pos .. Len(msg) /\ x.at \in 0 .. Len(msg)
  <2>1. x.value \in Nat /\ x.at \in pos .. Len(msg)
    BY GetLengthFacts
  <2> QED
    BY <2>1, MessageFacts
<1>2. GetUnconstrained(msg, pos) = GetOctets(msg, x.at, x.value)
  BY DEF GetUnconstrained, Then
<1> HIDE DEF x
<1>3. GetOctets(msg, x.at, x.value).at \in x.at .. Len(msg)
  BY <1>1, GetOctetsFacts
<1> QED
  BY <1>1, <1>2, <1>3

(* Aligned PER.                                                            *)

(* The octets counted by aligned PER are enough for a 64-bit integer.      *)
LEMMA AperOctetsFacts ==
  ASSUME NEW v \in Int64
  PROVE  AperOctets(v) \in 1 .. Word /\ Needs(v, AperOctets(v))
<1>1. SignedOctets(v) \in 1 .. Word /\ Needs(v, SignedOctets(v))
  BY SignedOctetsFacts
<1>2. Word \in 1 .. Word /\ Needs(v, Word)
  <2>1. Word \in 1 .. Word /\ Word * Octet = Octet * Word
    BY WidthAssumption
  <2> QED
    BY <2>1, PowerNames, PowerPositive DEF Needs, Int64
<1> QED
  BY <1>1, <1>2 DEF AperOctets

(* An unconstrained integer of aligned PER is written after what is there. *)
LEMMA PutAperUnconstrainedFacts ==
  ASSUME NEW w \in Message, NEW v \in Int64
  PROVE  PutAperUnconstrained(w, v) \in Message /\ Extends(w, PutAperUnconstrained(w, v))
<1> DEFINE k == AperOctets(v)
           a == Align(w)
           x == Bits(k, Octet)
           y == Bits(v, Octet * k)
<1>1. k \in 1 .. Word /\ k \in Int /\ Octet * k \in Widths /\ v \in Int /\ Octet \in Widths
  BY AperOctetsFacts, OctetWidths, LongFacts DEF Int64
<1>2. PutAperUnconstrained(w, v) = (a \o x) \o y
  BY DEF PutAperUnconstrained
<1> HIDE DEF k
<1>3. a \in Message /\ Extends(w, a) /\ x \in Message /\ y \in Message
  BY <1>1, AlignFacts, BitsFacts
<1> HIDE DEF a, x, y
<1>4. a \o x \in Message /\ Extends(a, a \o x)
  BY <1>3, Longer
<1> DEFINE u == a \o x
<1>5. u \in Message /\ Extends(w, u)
  BY <1>3, <1>4, ExtendsOnward
<1> HIDE DEF u
<1>6. u \o y \in Message /\ Extends(u, u \o y)
  BY <1>3, <1>5, Longer
<1> QED
  BY <1>2, <1>5, <1>6, ExtendsOnward DEF u

(* Every 64-bit integer returns from aligned PER.                          *)
LEMMA AperUnconstrainedTrip ==
  ASSUME NEW w \in Message, NEW v \in Int64,
         NEW msg \in Message, Extends(PutAperUnconstrained(w, v), msg)
  PROVE  GetAperUnconstrained(msg, Len(w)) = Read(v, Len(PutAperUnconstrained(w, v)))
<1> DEFINE k == AperOctets(v)
           a == Align(w)
           x == Bits(k, Octet)
           y == Bits(v, Octet * k)
           u == a \o x
<1>1. /\ k \in 1 .. Word /\ Needs(v, k) /\ k \in Int /\ k \in Nat /\ k < Power[Octet]
      /\ Octet * k \in Widths /\ v \in Int /\ Octet \in Widths
  BY AperOctetsFacts, OctetWidths, LongFacts DEF Int64
<1>2. PutAperUnconstrained(w, v) = u \o y
  BY DEF PutAperUnconstrained
<1> HIDE DEF k
<1>3. a \in Message /\ Len(a) = Aligned(Len(w)) /\ x \in Message /\ y \in Message
  BY <1>1, AlignFacts, BitsFacts
<1>4. u \in Message
  <2> HIDE DEF a, x
  <2> QED
    BY <1>3, Longer
<1>5. Extends(u, msg)
  <2> HIDE DEF u, y
  <2> QED
    BY <1>2, <1>3, <1>4, PartTrip
<1>6. GetBits(msg, Len(a), Octet) = Read(k, Len(u))
  <2>1. k % Power[Octet] = k
    BY <1>1, LongFacts, Quotient
  <2>2. GetBits(msg, Len(a), Octet) = Read(k % Power[Octet], Len(a \o Bits(k, Octet)))
    <3> HIDE DEF a
    <3> QED
      BY <1>1, <1>3, <1>5, BitsTrip
  <2> QED
    BY <2>1, <2>2
<1>7. GetOctets(msg, Len(u), k) = Read(v, Len(u \o y))
  <2> HIDE DEF u
  <2> QED
    BY <1>1, <1>2, <1>4, OctetsTrip
<1>8. /\ GetBits(msg, Aligned(Len(w)), Octet).value = k
      /\ GetBits(msg, Aligned(Len(w)), Octet).at = Len(u)
      /\ k <= Word
  BY <1>1, <1>3, <1>6, WidthAssumption DEF Read
<1> HIDE DEF u, y
<1> QED
  BY <1>2, <1>7, <1>8 DEF GetAperUnconstrained, Then

(* In a message of whole octets the next boundary is inside.               *)
LEMMA AlignedOnward ==
  ASSUME NEW msg \in Message, Len(msg) % Octet = 0, NEW pos \in 0 .. Len(msg)
  PROVE  Aligned(pos) \in pos .. Len(msg) /\ Aligned(pos) \in 0 .. Len(msg)
<1>1. Len(msg) \in Nat /\ pos \in Nat /\ pos <= Len(msg)
  BY MessageFacts
<1>2. Aligned(pos) \in Nat /\ Aligned(pos) >= pos /\ Aligned(pos) <= Len(msg)
  BY <1>1, AlignedFacts
<1> QED
  BY <1>1, <1>2

(* A read of n bits goes on, and has a number.                             *)
LEMMA BitsOnward ==
  ASSUME NEW msg \in Message, NEW pos \in 0 .. Len(msg), NEW n \in Nat
  PROVE  /\ GetBits(msg, pos, n).value \in Nat
         /\ GetBits(msg, pos, n).at \in pos .. Len(msg)
         /\ GetBits(msg, pos, n).at \in 0 .. Len(msg)
<1>1. /\ GetBits(msg, pos, n) = Read(GetBits(msg, pos, n).value, After(msg, pos, n))
      /\ GetBits(msg, pos, n).value \in Nat
  BY GetBitsFacts
<1>2. After(msg, pos, n) \in pos .. Len(msg)
  BY AfterFacts
<1>3. GetBits(msg, pos, n).at = After(msg, pos, n)
  BY <1>1 DEF Read
<1> QED
  BY <1>1, <1>2, <1>3, MessageFacts

(* An unconstrained integer of aligned PER ends in the message.            *)
LEMMA GetAperUnconstrainedFacts ==
  ASSUME NEW msg \in Message, Len(msg) % Octet = 0, NEW pos \in 0 .. Len(msg)
  PROVE  GetAperUnconstrained(msg, pos).at \in pos .. Len(msg)
<1> DEFINE a == Aligned(pos)
           x == GetBits(msg, a, Octet)
           z == After(msg, x.at, Octet * (x.value - Word))
<1>1. a \in pos .. Len(msg) /\ a \in 0 .. Len(msg)
  BY AlignedOnward
<1>2. x.value \in Nat /\ x.at \in a .. Len(msg) /\ x.at \in 0 .. Len(msg)
  <2> HIDE DEF a
  <2> QED
    BY <1>1, LongFacts, BitsOnward
<1>3. GetAperUnconstrained(msg, pos) = IF x.value <= Word THEN GetOctets(msg, x.at, x.value)
                                      ELSE GetOctets(msg, z, Word)
  BY DEF GetAperUnconstrained, Then
<1> HIDE DEF x, a
<1>4. CASE x.value <= Word
  <2>1. GetOctets(msg, x.at, x.value).at \in x.at .. Len(msg)
    BY <1>2, GetOctetsFacts
  <2> QED
    BY <1>1, <1>2, <1>3, <1>4, <2>1
<1>5. CASE x.value > Word
  <2>1. Octet * (x.value - Word) \in Nat
    <3>1. x.value - Word \in Nat
      BY <1>2, <1>5, WidthAssumption
    <3>2. \A i1, j1 \in Nat : i1 * j1 \in Nat
      OBVIOUS
    <3> QED
      BY <3>1, <3>2, WidthAssumption
  <2>2. z \in x.at .. Len(msg) /\ z \in 0 .. Len(msg)
    <3> DEFINE n == Octet * (x.value - Word)
    <3>1. n \in Nat
      BY <2>1
    <3> HIDE DEF n
    <3>2. After(msg, x.at, n) \in x.at .. Len(msg)
      BY <1>2, <3>1, AfterFacts
    <3> QED
      BY <1>2, <3>2 DEF n
  <2> HIDE DEF z
  <2>3. GetOctets(msg, z, Word).at \in z .. Len(msg)
    BY <2>2, GetOctetsFacts, WidthAssumption
  <2>4. ~ (x.value <= Word)
    BY <1>2, <1>5, WidthAssumption
  <2> QED
    BY <1>1, <1>2, <1>3, <2>2, <2>3, <2>4
<1> QED
  BY <1>2, <1>4, <1>5, WidthAssumption

-----------------------------------------------------------------------------
(***************************************************************************)
(* Constrained integers of aligned PER.                                    *)
(***************************************************************************)

(* Ranges of one octet or two.                                             *)

(* One octet or two.                                                       *)
LEMMA MediumWidth ==
  ASSUME NEW lo, NEW hi
  PROVE  MediumBits(lo, hi) \in Widths /\ MediumBits(lo, hi) \in Nat
<1>1. MediumBits(lo, hi) \in {Octet, 2 * Octet}
  BY DEF MediumBits
<1> QED
  BY <1>1, LongFacts

(* One octet or two are written after what is there.                       *)
LEMMA PutMediumFacts ==
  ASSUME NEW w \in Message, NEW v \in Int, NEW lo \in Int, NEW hi
  PROVE  PutMedium(w, v, lo, hi) \in Message /\ Extends(w, PutMedium(w, v, lo, hi))
<1> DEFINE a == Align(w)
           x == Bits(v - lo, MediumBits(lo, hi))
<1>1. v - lo \in Int
  OBVIOUS
<1>2. a \in Message /\ Extends(w, a) /\ x \in Message
  BY <1>1, MediumWidth, AlignFacts, BitsFacts
<1>3. PutMedium(w, v, lo, hi) = a \o x
  BY DEF PutMedium
<1> HIDE DEF a, x
<1>4. a \o x \in Message /\ Extends(a, a \o x)
  BY <1>2, Longer
<1> QED
  BY <1>2, <1>3, <1>4, ExtendsOnward

(* One octet or two return modulo their width.                             *)
LEMMA MediumTrip ==
  ASSUME NEW w \in Message, NEW v \in Int, NEW lo \in Int, NEW hi,
         NEW msg \in Message, Extends(PutMedium(w, v, lo, hi), msg)
  PROVE  GetMedium(msg, Len(w), lo, hi)
           = Read(lo + ((v - lo) % Power[MediumBits(lo, hi)]), Len(PutMedium(w, v, lo, hi)))
<1> DEFINE n == MediumBits(lo, hi)
           y == v - lo
           a == Align(w)
<1>1. n \in Widths /\ y \in Int /\ a \in Message /\ Len(a) = Aligned(Len(w))
  BY MediumWidth, AlignFacts
<1>2. PutMedium(w, v, lo, hi) = a \o Bits(y, n)
  BY DEF PutMedium
<1>3. GetMedium(msg, Len(w), lo, hi) = Then(GetBits(msg, Aligned(Len(w)), n), LAMBDA b, c : Read(lo + b, c))
  BY DEF GetMedium
<1> HIDE DEF n, y, a
<1>4. GetBits(msg, Len(a), n) = Read(y % Power[n], Len(a \o Bits(y, n)))
  BY <1>1, <1>2, BitsTrip
<1> QED
  BY <1>1, <1>2, <1>3, <1>4 DEF Then, Read, n, y

(* One octet or two read are not below the lower bound.                    *)
LEMMA GetMediumFacts ==
  ASSUME NEW msg \in Message, Len(msg) % Octet = 0, NEW pos \in 0 .. Len(msg), NEW lo \in Int, NEW hi
  PROVE  /\ GetMedium(msg, pos, lo, hi).value \in Int /\ GetMedium(msg, pos, lo, hi).value >= lo
         /\ GetMedium(msg, pos, lo, hi).at \in pos .. Len(msg)
<1> DEFINE n == MediumBits(lo, hi)
           a == Aligned(pos)
           x == GetBits(msg, a, n)
<1>1. n \in Nat /\ a \in pos .. Len(msg) /\ a \in 0 .. Len(msg)
  BY MediumWidth, AlignedOnward
<1>2. x.value \in Nat /\ x.at \in a .. Len(msg)
  <2> HIDE DEF a, n
  <2> QED
    BY <1>1, BitsOnward
<1>3. GetMedium(msg, pos, lo, hi).value = lo + x.value /\ GetMedium(msg, pos, lo, hi).at = x.at
  BY DEF GetMedium, Then, Read
<1> HIDE DEF x, a
<1> QED
  BY <1>1, <1>2, <1>3

(* Large ranges.                                                           *)

(* One to four octets, as many as a 32-bit offset needs.                   *)
LEMMA LargeOctetsFacts ==
  ASSUME NEW v \in Nat
  PROVE  LargeOctets(v) \in 1 .. 4 /\ (v < Power[4 * Octet] => v < Power[LargeOctets(v) * Octet])
<1> DEFINE S == {k \in 1 .. 4 : v < Power[k * Octet] \/ k = 4}
           Is(k) == (v < Power[k * Octet] \/ k = 4) /\ (k > 1 => v >= Power[(k - 1) * Octet])
<1>1. 4 \in S /\ S \in SUBSET Nat
  OBVIOUS
<1>2. \A k \in 1 .. 4 : Power[k * Octet] \in Nat
  <2> TAKE k \in 1 .. 4
  <2>1. k \in 1 .. Word
    BY WidthAssumption
  <2>2. k * Octet \in Widths
    BY <2>1, OctetWidths
  <2> QED
    BY <2>2, PowerPositive
<1> HIDE DEF S
<1>3. PICK k \in S : \A j \in S : k <= j
  BY <1>1, FirstExists
<1>4. k \in 1 .. 4 /\ Is(k)
  <2>1. k \in 1 .. 4 /\ (v < Power[k * Octet] \/ k = 4)
    BY DEF S
  <2>2. ASSUME k > 1
        PROVE  v >= Power[(k - 1) * Octet]
    <3>1. k - 1 \in 1 .. 4 /\ k - 1 \notin S
      BY <1>3, <2>1, <2>2
    <3>2. Power[(k - 1) * Octet] \in Nat
      BY <1>2, <3>1
    <3> QED
      BY <3>1, <3>2 DEF S
  <2> QED
    BY <2>1, <2>2
<1>5. LargeOctets(v) = CHOOSE j \in 1 .. 4 : Is(j)
  BY DEF LargeOctets
<1>6. LargeOctets(v) \in 1 .. 4 /\ Is(LargeOctets(v))
  <2> HIDE DEF Is
  <2> QED
    BY <1>4, <1>5
<1> QED
  BY <1>6

(* The number of octets in a header, of one to four.                       *)
IsPlace(place, limit) ==
  \/ place = MaxFragments /\ limit = 4
  \/ place = Power[Octet - 4] /\ limit = 8

(* The number of octets returns from its place in the header octet.        *)
LEMMA PlaceFacts ==
  ASSUME NEW k \in 1 .. 4, NEW place, NEW limit, IsPlace(place, limit)
  PROVE  /\ (k - 1) * place \in Nat /\ (k - 1) * place < Power[Octet]
         /\ ((((k - 1) * place) \div place) % limit) + 1 = k
         /\ place = Power[Octet - 4] => (k - 1) * place < Short
<1> DEFINE h == Power[Octet - 4]
<1>1. h \in Nat /\ h >= 1 /\ Power[Octet] = 16 * h /\ Short = 8 * h /\ MaxFragments = 4 * h
  BY PowerNames
<1> HIDE DEF h
<1>2. place \in Nat /\ place >= 1 /\ limit \in {4, 8} /\ (place = 4 * h \/ place = h)
  BY <1>1 DEF IsPlace, h
<1>3. (k - 1) * place \in Nat /\ (k - 1) * place < 16 * h /\ (place = h => (k - 1) * place < 8 * h)
  <2>1. (k - 1) * place <= 3 * place /\ (k - 1) * place \in Nat
    BY <1>2
  <2> QED
    BY <1>1, <1>2, <2>1
<1>4. ((k - 1) * place) \div place = k - 1
  <2>1. (k - 1) * place = place * (k - 1) /\ k - 1 \in Int
    BY <1>2
  <2> DEFINE j == k - 1
  <2>2. j \in Int
    BY <2>1
  <2> HIDE DEF j
  <2>3. (place * j) \div place = j
    BY <1>2, <2>2, Multiple
  <2> QED
    BY <2>1, <2>3 DEF j
<1>5. (k - 1) % limit = k - 1
  BY <1>2
<1>6. place = Power[Octet - 4] <=> place = h
  BY DEF h
<1>7. ((((k - 1) * place) \div place) % limit) + 1 = k
  BY <1>4, <1>5
<1> QED
  BY <1>1, <1>3, <1>6, <1>7

(* A header octet and the offset are written after what is there.          *)
LEMMA PutLargeFacts ==
  ASSUME NEW w \in Message, NEW v \in Nat, NEW k \in 1 .. 4, NEW place, NEW limit, IsPlace(place, limit)
  PROVE  /\ PutLarge(w, v, k, place) \in Message /\ Extends(w, PutLarge(w, v, k, place))
         /\ w \o Bits((k - 1) * place, Octet) \in Message
         /\ PutLarge(w, v, k, place) = (w \o Bits((k - 1) * place, Octet)) \o Bits(v, k * Octet)
         /\ Bits((k - 1) * place, Octet) \in Message /\ Bits(v, k * Octet) \in Message
         /\ k * Octet \in Widths /\ v \in Int
<1> DEFINE x == Bits((k - 1) * place, Octet)
           y == Bits(v, k * Octet)
           u == w \o x
<1>1. (k - 1) * place \in Int /\ k * Octet \in Widths /\ v \in Int
  <2>1. k \in 1 .. Word
    BY WidthAssumption
  <2> QED
    BY <2>1, OctetWidths, PlaceFacts
<1>2. x \in Message /\ y \in Message
  BY <1>1, LongFacts, BitsFacts
<1>3. PutLarge(w, v, k, place) = u \o y
  BY DEF PutLarge
<1> HIDE DEF x, y
<1>4. u \in Message /\ Extends(w, u)
  BY <1>2, Longer
<1> HIDE DEF u
<1>5. u \o y \in Message /\ Extends(u, u \o y)
  BY <1>2, <1>4, Longer
<1>6. Extends(w, u \o y)
  BY <1>4, <1>5, ExtendsOnward
<1> QED
  BY <1>1, <1>2, <1>3, <1>4, <1>5, <1>6 DEF u, x, y

(* The offset returns modulo the octets the header counts.                 *)
LEMMA LargeTrip ==
  ASSUME NEW w \in Message, NEW v \in Nat, NEW k \in 1 .. 4, NEW place, NEW limit, IsPlace(place, limit),
         NEW lo \in Int, NEW msg \in Message, Extends(PutLarge(w, v, k, place), msg)
  PROVE  GetLarge(msg, Len(w), lo, place, limit)
           = Read(lo + (v % Power[k * Octet]), Len(PutLarge(w, v, k, place)))
<1> DEFINE h == (k - 1) * place
           n == k * Octet
           u == w \o Bits(h, Octet)
<1>1. /\ u \in Message /\ PutLarge(w, v, k, place) = u \o Bits(v, n)
      /\ Bits(v, n) \in Message /\ n \in Widths /\ v \in Int
  BY PutLargeFacts
<1>2. h \in Int /\ h \in Nat /\ h < Power[Octet] /\ ((h \div place) % limit) + 1 = k
  BY PlaceFacts
<1> HIDE DEF h
<1>3. Extends(u, msg)
  <2> HIDE DEF u, n
  <2> QED
    BY <1>1, PartTrip
<1>4. GetBits(msg, Len(w), Octet) = Read(h, Len(u))
  <2>1. h % Power[Octet] = h
    BY <1>2, LongFacts, Quotient
  <2> QED
    BY <1>2, <1>3, <2>1, LongFacts, BitsTrip
<1> HIDE DEF u, n
<1>5. GetBits(msg, Len(u), n) = Read(v % Power[n], Len(u \o Bits(v, n)))
  BY <1>1, BitsTrip
<1>6. GetBits(msg, Len(w), Octet).value = h /\ GetBits(msg, Len(w), Octet).at = Len(u)
  BY <1>4 DEF Read
<1>7. GetLarge(msg, Len(w), lo, place, limit)
        = Then(GetBits(msg, Len(u), n), LAMBDA a, b : Read(lo + a, b))
  BY <1>2, <1>6 DEF GetLarge, Then, n
<1> QED
  BY <1>1, <1>5, <1>7 DEF Then, Read, n

(* A large offset read ends in the message and is not below the lower      *)
(* bound.                                                                  *)
LEMMA GetLargeFacts ==
  ASSUME NEW msg \in Message, NEW pos \in 0 .. Len(msg), NEW lo \in Int, NEW place, NEW limit, IsPlace(place, limit)
  PROVE  /\ GetLarge(msg, pos, lo, place, limit).value \in Int
         /\ GetLarge(msg, pos, lo, place, limit).value >= lo
         /\ GetLarge(msg, pos, lo, place, limit).at \in pos .. Len(msg)
<1> DEFINE x == GetBits(msg, pos, Octet)
           n == (((x.value \div place) % limit) + 1) * Octet
           y == GetBits(msg, x.at, n)
<1>1. x.value \in Nat /\ x.at \in pos .. Len(msg) /\ x.at \in 0 .. Len(msg)
  BY LongFacts, BitsOnward
<1>2. GetLarge(msg, pos, lo, place, limit).value = lo + y.value
      /\ GetLarge(msg, pos, lo, place, limit).at = y.at
  BY DEF GetLarge, Then, Read
<1> HIDE DEF x
<1>3. n \in Nat
  <2>1. place \in Nat /\ place >= 1 /\ limit \in {4, 8}
    <3>1. Power[Octet - 4] \in Nat /\ Power[Octet - 4] >= 1
      BY PowerNames
    <3>2. MaxFragments \in Nat /\ MaxFragments >= 1
      BY LongFacts
    <3> QED
      BY <3>1, <3>2 DEF IsPlace
  <2>2. x.value \div place \in Int
    BY <1>1, <2>1, Quotient
  <2>3. (x.value \div place) % limit \in Nat
    BY <2>1, <2>2
  <2>4. \A i1, j1 \in Nat : i1 * j1 \in Nat
    OBVIOUS
  <2>5. ((x.value \div place) % limit) + 1 \in Nat
    BY <2>3
  <2> QED
    BY <2>4, <2>5, WidthAssumption
<1> HIDE DEF n
<1>4. y.value \in Nat /\ y.at \in x.at .. Len(msg)
  BY <1>1, <1>3, BitsOnward
<1> HIDE DEF y
<1> QED
  BY <1>1, <1>2, <1>4

(* A constrained integer in aligned PER: v is one of the range.            *)

(* Where aligned PER is exact.                                             *)
AperExact(v, lo, hi) ==
  /\ Extent(lo, hi) > 0
  /\ IF Extent(lo, hi) > Power[2 * Octet] THEN v - lo < Power[4 * Octet]
     ELSE v - lo < Power[RangeBits("cpp", lo, hi)]

(* One octet or two hold the offsets of the ranges they are used for.      *)
LEMMA MediumExact ==
  ASSUME NEW lo \in Int64, NEW hi \in Int64, NEW v \in lo .. hi,
         Extent(lo, hi) >= Power[Octet], Extent(lo, hi) <= Power[2 * Octet]
  PROVE  v - lo < Power[MediumBits(lo, hi)]
<1>1. Power[Octet] \in Nat /\ Power[Octet] >= 1 /\ Power[2 * Octet] \in Nat
  BY LongFacts, PowerPositive
<1>2. lo \in Int /\ hi \in Int
  BY DEF Int64
<1>3. Extent(lo, hi) \in Int
  BY <1>2, ExtentFacts
<1>4. Extent(lo, hi) = hi - lo + 1
  <2>1. lo <= hi /\ Extent(lo, hi) > 0
    BY <1>1, <1>2, <1>3
  <2> QED
    BY <1>2, <2>1, ExtentFacts
<1> QED
  BY <1>1, <1>2, <1>4 DEF MediumBits

(* The four forms, of the field and of what is read.                       *)
LEMMA PutAperFacts ==
  ASSUME NEW w \in Message, NEW lo \in Int, NEW hi \in Int, NEW v \in lo .. hi
  PROVE  PutAper(w, v, lo, hi) \in Message /\ Extends(w, PutAper(w, v, lo, hi))
<1> DEFINE e == Extent(lo, hi)
           a == Align(w)
           x == v - lo
           c == PutConstrained("cpp", w, v, lo, hi)
           l == PutLarge(a, x, LargeOctets(x), MaxFragments)
<1>1. v \in Int /\ x \in Nat
  OBVIOUS
<1>2. PutAper(w, v, lo, hi) \in {w, Align(c), PutMedium(w, v, lo, hi), l}
  BY DEF PutAper
<1>3. a \in Message /\ Extends(w, a)
  BY AlignFacts
<1>4. PutMedium(w, v, lo, hi) \in Message /\ Extends(w, PutMedium(w, v, lo, hi))
  BY <1>1, PutMediumFacts
<1>5. c \in Message /\ Extends(w, c)
  BY <1>1, PutConstrainedFacts
<1> HIDE DEF a, x, c
<1>6. Align(c) \in Message /\ Extends(w, Align(c))
  <2>1. Align(c) \in Message /\ Extends(c, Align(c))
    BY <1>5, AlignFacts
  <2> QED
    BY <1>5, <2>1, ExtendsOnward
<1>7. l \in Message /\ Extends(w, l)
  <2>1. LargeOctets(x) \in 1 .. 4
    BY <1>1, LargeOctetsFacts
  <2>2. IsPlace(MaxFragments, 4)
    BY DEF IsPlace
  <2>3. l \in Message /\ Extends(a, l)
    BY <1>1, <1>3, <2>1, <2>2, PutLargeFacts
  <2> QED
    BY <1>3, <2>3, ExtendsOnward
<1>8. Extends(w, w)
  BY ExtendsSelf
<1> HIDE DEF l
<1> QED
  BY <1>2, <1>4, <1>6, <1>7, <1>8

(* A constrained integer returns from aligned PER, exact where AperExact   *)
(* says.                                                                   *)
LEMMA AperTrip ==
  ASSUME NEW w \in Message, NEW lo \in Int64, NEW hi \in Int64, NEW v \in lo .. hi,
         NEW msg \in Message, Extends(PutAper(w, v, lo, hi), msg)
  PROVE  \E y \in lo .. v :
           /\ GetAper(msg, Len(w), lo, hi) = Read(y, Len(PutAper(w, v, lo, hi)))
           /\ AperExact(v, lo, hi) => y = v
<1> DEFINE e == Extent(lo, hi)
           a == Align(w)
           x == v - lo
           n == RangeBits("cpp", lo, hi)
           c == PutConstrained("cpp", w, v, lo, hi)
<1>1. /\ v \in Int /\ x \in Nat /\ x \in Int /\ lo \in Int /\ hi \in Int /\ lo <= v /\ lo <= hi
  BY DEF Int64
<1>2. e \in Int
  BY <1>1, ExtentFacts
<1>3. Power[Octet] \in Nat /\ Power[Octet] > 1 /\ Power[2 * Octet] \in Nat /\ Power[2 * Octet] >= Power[Octet]
  <2>1. Power[Octet] \in Nat /\ Power[Octet] > 1 /\ Power[2 * Octet] \in Nat /\ Power[2 * Octet] = Power[Octet] * Power[Octet]
    BY LongFacts, PowerPositive, PowerNames
  <2>2. \A p \in Nat : p > 1 => p * p >= p
    OBVIOUS
  <2> QED
    BY <2>1, <2>2
<1>4. CASE e = 1
  <2>1. hi = lo
    <3>1. e = hi - lo + 1
      <4>1. Extent(lo, hi) > 0
        BY <1>4
      <4> QED
        BY <1>1, <4>1, ExtentFacts
    <3> QED
      BY <1>1, <1>4, <3>1
  <2>2. PutAper(w, v, lo, hi) = w /\ GetAper(msg, Len(w), lo, hi) = Read(lo, Len(w))
    BY <1>4 DEF PutAper, GetAper
  <2>3. lo \in lo .. v /\ v = lo
    BY <1>1, <2>1
  <2> QED
    BY <2>2, <2>3
<1>5. CASE e # 1 /\ e < Power[Octet]
  <2> DEFINE y == lo + ((v - lo) % Power[n])
  <2>1. c \in Message
    BY <1>1, PutConstrainedFacts
  <2>2. PutAper(w, v, lo, hi) = Align(c)
    BY <1>5 DEF PutAper
  <2>3. Len(Align(c)) = Aligned(Len(c)) /\ Extends(c, Align(c)) /\ Align(c) \in Message
    <3> HIDE DEF c
    <3> QED
      BY <2>1, AlignFacts
  <2>4. Extends(c, msg)
    <3> HIDE DEF c
    <3> QED
      BY <2>1, <2>2, <2>3, ExtendsOnward
  <2>5. GetConstrained("cpp", msg, Len(w), lo, hi) = Read(y, Len(c))
    BY <1>1, <2>4, ConstrainedTrip
  <2>6. y \in lo .. v /\ (v - lo < Power[n] => y = v)
    <3>1. n \in Widths
      BY <1>1, RangeBitsFacts
    <3> HIDE DEF n
    <3> QED
      BY <1>1, <3>1, Wrapped
  <2> HIDE DEF c, y
  <2>7. GetAper(msg, Len(w), lo, hi) = Read(y, Aligned(Len(c)))
    <3>1. GetConstrained("cpp", msg, Len(w), lo, hi).value = y /\ GetConstrained("cpp", msg, Len(w), lo, hi).at = Len(c)
      BY <2>5 DEF Read
    <3> QED
      BY <1>5, <3>1 DEF GetAper, Then
  <2>8. AperExact(v, lo, hi) => v - lo < Power[n]
    BY <1>2, <1>3, <1>5 DEF AperExact
  <2> QED
    BY <2>2, <2>3, <2>6, <2>7, <2>8
<1>6. CASE e >= Power[Octet] /\ e <= Power[2 * Octet]
  <2> DEFINE m == MediumBits(lo, hi)
             y == lo + ((v - lo) % Power[m])
  <2>1. ~ (e = 1) /\ ~ (e < Power[Octet])
    BY <1>2, <1>3, <1>6
  <2>2. PutAper(w, v, lo, hi) = PutMedium(w, v, lo, hi) /\ GetAper(msg, Len(w), lo, hi) = GetMedium(msg, Len(w), lo, hi)
    BY <1>6, <2>1 DEF PutAper, GetAper
  <2>3. GetMedium(msg, Len(w), lo, hi) = Read(y, Len(PutMedium(w, v, lo, hi)))
    BY <1>1, <2>2, MediumTrip
  <2>4. v - lo < Power[m]
    BY <1>6, MediumExact
  <2>5. y \in lo .. v /\ y = v
    <3>1. m \in Widths
      BY MediumWidth
    <3> HIDE DEF m
    <3> QED
      BY <1>1, <2>4, <3>1, Wrapped
  <2> HIDE DEF y
  <2> QED
    BY <2>2, <2>3, <2>5
<1>7. CASE e > Power[2 * Octet]
  <2> DEFINE k == LargeOctets(x)
             y == lo + (x % Power[k * Octet])
             l == PutLarge(a, x, k, MaxFragments)
  <2>1. ~ (e = 1) /\ ~ (e < Power[Octet]) /\ ~ (e <= Power[2 * Octet])
    BY <1>2, <1>3, <1>7
  <2>2. PutAper(w, v, lo, hi) = l
        /\ GetAper(msg, Len(w), lo, hi) = GetLarge(msg, Aligned(Len(w)), lo, MaxFragments, 4)
    BY <2>1 DEF PutAper, GetAper
  <2>3. k \in 1 .. 4 /\ (x < Power[4 * Octet] => x < Power[k * Octet]) /\ IsPlace(MaxFragments, 4)
    <3> HIDE DEF x
    <3> QED
      BY <1>1, LargeOctetsFacts DEF IsPlace
  <2>4. a \in Message /\ Len(a) = Aligned(Len(w))
    BY AlignFacts
  <2>5. k * Octet \in Widths
    <3>1. k \in 1 .. Word
      BY <2>3, WidthAssumption
    <3> QED
      BY <3>1, OctetWidths
  <2> HIDE DEF k, a
  <2>6. GetLarge(msg, Len(a), lo, MaxFragments, 4) = Read(y, Len(l))
    <3> HIDE DEF x
    <3> QED
      BY <1>1, <2>2, <2>3, <2>4, LargeTrip
  <2>7. y \in lo .. v /\ (v - lo < Power[k * Octet] => y = v)
    BY <1>1, <2>5, Wrapped
  <2>8. AperExact(v, lo, hi) => v - lo < Power[k * Octet]
    BY <1>7, <2>3 DEF AperExact
  <2> HIDE DEF y, l
  <2> QED
    BY <2>2, <2>4, <2>6, <2>7, <2>8
<1> QED
  BY <1>2, <1>3, <1>4, <1>5, <1>6, <1>7

(* A constrained integer of aligned PER is not below its lower bound.      *)
LEMMA GetAperFacts ==
  ASSUME NEW msg \in Message, Len(msg) % Octet = 0, NEW pos \in 0 .. Len(msg), NEW lo \in Int, NEW hi \in Int
  PROVE  /\ GetAper(msg, pos, lo, hi).value \in Int /\ GetAper(msg, pos, lo, hi).value >= lo
         /\ GetAper(msg, pos, lo, hi).at \in pos .. Len(msg)
<1> DEFINE e == Extent(lo, hi)
           c == GetConstrained("cpp", msg, pos, lo, hi)
           a == Aligned(pos)
           l == GetLarge(msg, a, lo, MaxFragments, 4)
           m == GetMedium(msg, pos, lo, hi)
<1>1. pos \in pos .. Len(msg)
  BY MessageFacts
<1>2. c.value \in Int /\ c.value >= lo /\ c.at \in pos .. Len(msg) /\ c.at \in 0 .. Len(msg)
  <2>1. c.value \in Int /\ c.value >= lo /\ c.at \in pos .. Len(msg)
    BY GetConstrainedFacts
  <2> QED
    BY <2>1, MessageFacts
<1>3. a \in pos .. Len(msg) /\ a \in 0 .. Len(msg)
  BY AlignedOnward
<1>4. l.value \in Int /\ l.value >= lo /\ l.at \in pos .. Len(msg)
  <2>1. IsPlace(MaxFragments, 4)
    BY DEF IsPlace
  <2> HIDE DEF a
  <2>2. l.value \in Int /\ l.value >= lo /\ l.at \in a .. Len(msg)
    BY <1>3, <2>1, GetLargeFacts
  <2> QED
    BY <1>3, <2>2
<1>5. m.value \in Int /\ m.value >= lo /\ m.at \in pos .. Len(msg)
  BY GetMediumFacts
<1>6. Aligned(c.at) \in pos .. Len(msg)
  <2> HIDE DEF c
  <2>1. Aligned(c.at) \in c.at .. Len(msg)
    BY <1>2, AlignedOnward
  <2> QED
    BY <1>2, <2>1
<1>7. GetAper(msg, pos, lo, hi) \in {Read(lo, pos), Read(c.value, Aligned(c.at)), m, l}
  BY DEF GetAper, Then
<1> HIDE DEF c, m, l
<1>8. /\ Read(lo, pos).value = lo /\ Read(lo, pos).at = pos
      /\ Read(c.value, Aligned(c.at)).value = c.value /\ Read(c.value, Aligned(c.at)).at = Aligned(c.at)
  BY DEF Read
<1>9. CASE GetAper(msg, pos, lo, hi) = Read(lo, pos)
  BY <1>1, <1>8, <1>9
<1>10. CASE GetAper(msg, pos, lo, hi) = Read(c.value, Aligned(c.at))
  BY <1>2, <1>6, <1>8, <1>10
<1> QED
  BY <1>4, <1>5, <1>7, <1>9, <1>10

(* The extensible variant: its first bit is 0.                             *)

(* The first bit of the header of an extensible integer is 0.              *)
LEMMA FirstBit ==
  ASSUME NEW w \in Message, NEW h \in Nat, h < Short
  PROVE  /\ Bits(h, Octet) \in Message /\ w \o Bits(h, Octet) \in Message
         /\ Extends(Append(w, 0), w \o Bits(h, Octet))
<1> DEFINE x == Bits(h, Octet)
<1>1. x \in Message /\ Len(x) = Octet /\ Octet \in Nat /\ Octet >= 4
  BY LongFacts, BitsFacts, WidthAssumption
<1>2. x[1] = (h \div Power[Octet - 1]) % 2
  <2>1. 1 \in 1 .. Octet
    BY <1>1
  <2> QED
    BY <2>1 DEF Bits
<1>3. x[1] = 0
  <2>1. Power[Octet - 1] = Short
    BY DEF Short
  <2>2. h \div Short = 0
    <3>1. h \in Int /\ 0 <= h /\ Short \in Nat /\ Short >= 1
      BY LongFacts
    <3> QED
      BY <3>1, Quotient
  <2> QED
    BY <1>2, <2>1, <2>2
<1> HIDE DEF x
<1>4. /\ w \o x \in Message /\ Len(w \o x) = Len(w) + Octet /\ Extends(w, w \o x)
      /\ (w \o x)[Len(w) + 1] = 0
  <2>1. /\ w \o x \in Message /\ Len(w \o x) = Len(w) + Len(x) /\ Extends(w, w \o x)
        /\ \A j \in 1 .. Len(x) : (w \o x)[Len(w) + j] = x[j]
    BY <1>1, Longer
  <2> QED
    BY <1>1, <1>3, <2>1
<1>5. /\ Append(w, 0) \in Message /\ Len(Append(w, 0)) = Len(w) + 1 /\ Extends(w, Append(w, 0))
      /\ Append(w, 0)[Len(w) + 1] = 0
  <2>1. 0 \in {0, 1}
    OBVIOUS
  <2> QED
    BY <2>1, Appended
<1>6. Extends(Append(w, 0), w \o x)
  <2>1. Len(w) \in Nat
    BY MessageFacts
  <2>2. ASSUME NEW j \in 1 .. Len(w) + 1
        PROVE  (w \o x)[j] = Append(w, 0)[j]
    <3>1. CASE j = Len(w) + 1
      BY <1>4, <1>5, <3>1
    <3>2. CASE j # Len(w) + 1
      <4>1. j \in 1 .. Len(w)
        BY <2>1, <3>2
      <4> QED
        BY <1>4, <1>5, <4>1 DEF Extends
    <3> QED
      BY <3>1, <3>2
  <2>3. Len(w) + 1 <= Len(w) + Octet
    BY <1>1, <2>1
  <2> QED
    BY <1>4, <1>5, <2>2, <2>3 DEF Extends
<1> QED
  BY <1>1, <1>4, <1>6 DEF x

(* The extensible variant is written after what is there.                  *)
LEMMA PutAperExtFacts ==
  ASSUME NEW w \in Message, NEW lo \in Int, NEW hi \in Int, NEW v \in lo .. hi
  PROVE  /\ PutAperExt(w, v, lo, hi) \in Message /\ Extends(w, PutAperExt(w, v, lo, hi))
         /\ Append(w, 0) \in Message /\ Extends(Append(w, 0), PutAperExt(w, v, lo, hi))
<1> DEFINE m == Append(w, 0)
           x == v - lo
           k == LargeOctets(x)
           c == PutConstrained("cpp", m, v, lo, hi)
           d == PutMedium(m, v, lo, hi)
           l == PutLarge(w, x, k, Power[Octet - 4])
<1>1. v \in Int /\ x \in Nat
  OBVIOUS
<1>2. PutAperExt(w, v, lo, hi) \in {Align(m), c, d, l}
  BY DEF PutAperExt
<1>3. m \in Message /\ Extends(w, m)
  <2>1. 0 \in {0, 1}
    OBVIOUS
  <2> QED
    BY <2>1, Appended
<1> HIDE DEF m
<1>4. Align(m) \in Message /\ Extends(m, Align(m))
  BY <1>3, AlignFacts
<1>5. c \in Message /\ Extends(m, c)
  BY <1>1, <1>3, PutConstrainedFacts
<1>6. d \in Message /\ Extends(m, d)
  BY <1>1, <1>3, PutMediumFacts
<1>7. l \in Message /\ Extends(m, l)
  <2> DEFINE place == Power[Octet - 4]
             h == (k - 1) * place
  <2>1. k \in 1 .. 4
    <3> HIDE DEF x
    <3> QED
      BY <1>1, LargeOctetsFacts
  <2>2. IsPlace(place, 8)
    BY DEF IsPlace
  <2> HIDE DEF x, k
  <2>3. h \in Nat /\ h < Short
    BY <2>1, <2>2, PlaceFacts
  <2>4. /\ l \in Message /\ l = (w \o Bits(h, Octet)) \o Bits(x, k * Octet) /\ Bits(x, k * Octet) \in Message
    <3> DEFINE large == PutLarge(w, x, k, place)
    <3>1. l = large
      OBVIOUS
    <3> HIDE DEF place, l
    <3>2. large \in Message
      BY <1>1, <2>1, <2>2, PutLargeFacts
    <3>3. large = (w \o Bits((k - 1) * place, Octet)) \o Bits(x, k * Octet)
      BY <1>1, <2>1, <2>2, PutLargeFacts
    <3>4. Bits(x, k * Octet) \in Message
      <4>1. k \in 1 .. Word /\ x \in Int
        BY <1>1, <2>1, WidthAssumption
      <4>2. k * Octet \in Widths
        BY <4>1, OctetWidths
      <4> QED
        BY <4>1, <4>2, BitsFacts
    <3> QED
      BY <3>1, <3>2, <3>3, <3>4
  <2> HIDE DEF h, l
  <2>5. w \o Bits(h, Octet) \in Message /\ Extends(m, w \o Bits(h, Octet))
    BY <2>3, FirstBit DEF m
  <2>6. Extends(w \o Bits(h, Octet), l)
    BY <2>4, <2>5, Longer
  <2> QED
    BY <1>3, <2>4, <2>5, <2>6, ExtendsOnward
<1> DEFINE u == PutAperExt(w, v, lo, hi)
<1>8. u \in Message /\ Extends(m, u)
  BY <1>2, <1>4, <1>5, <1>6, <1>7
<1>9. Extends(w, u)
  <2> HIDE DEF u
  <2> QED
    BY <1>3, <1>8, ExtendsOnward
<1> QED
  BY <1>3, <1>8, <1>9 DEF m

(* The extensible variant returns like the plain one, and says it is not   *)
(* extended.                                                               *)
LEMMA AperExtTrip ==
  ASSUME NEW w \in Message, NEW lo \in Int64, NEW hi \in Int64, NEW v \in lo .. hi,
         NEW msg \in Message, Extends(PutAperExt(w, v, lo, hi), msg)
  PROVE  /\ GetBits(msg, Len(w), 1).value = 0
         /\ \E y \in lo .. v :
              /\ GetAperExt(msg, Len(w), lo, hi) = Read(y, Len(PutAperExt(w, v, lo, hi)))
              /\ AperExact(v, lo, hi) => y = v
<1> DEFINE e == Extent(lo, hi)
           m == Append(w, 0)
           x == v - lo
           n == RangeBits("cpp", lo, hi)
           u == PutAperExt(w, v, lo, hi)
<1>1. /\ v \in Int /\ x \in Nat /\ x \in Int /\ lo \in Int /\ hi \in Int /\ lo <= v /\ lo <= hi
  BY DEF Int64
<1>2. e \in Int
  BY <1>1, ExtentFacts
<1>3. Power[Octet] \in Nat /\ Power[Octet] > 1 /\ Power[2 * Octet] \in Nat /\ Power[2 * Octet] >= Power[Octet]
  <2>1. Power[Octet] \in Nat /\ Power[Octet] > 1 /\ Power[2 * Octet] \in Nat /\ Power[2 * Octet] = Power[Octet] * Power[Octet]
    BY LongFacts, PowerPositive, PowerNames
  <2>2. \A p \in Nat : p > 1 => p * p >= p
    OBVIOUS
  <2> QED
    BY <2>1, <2>2
<1>4. m \in Message /\ Len(m) = Len(w) + 1 /\ u \in Message /\ Extends(m, u)
  <2>1. 0 \in {0, 1}
    OBVIOUS
  <2>2. m \in Message /\ Len(m) = Len(w) + 1
    BY <2>1, Appended
  <2> QED
    BY <1>1, <2>2, PutAperExtFacts
<1>5. GetBits(msg, Len(w), 1) = Read(0, Len(m)) /\ After(msg, Len(w), 1) = Len(m)
  <2>1. 0 \in {0, 1}
    OBVIOUS
  <2>2. Extends(Append(w, 0), msg)
    <3> HIDE DEF u, m
    <3>1. Extends(m, msg)
      BY <1>4, ExtendsOnward DEF u
    <3> QED
      BY <3>1 DEF m
  <2> QED
    BY <2>1, <2>2, FlagTrip
<1>6. GetBits(msg, Len(w), 1).value = 0
  BY <1>5 DEF Read
<1> HIDE DEF m
<1>7. CASE e = 1
  <2>1. hi = lo
    <3>1. e = hi - lo + 1
      <4>1. Extent(lo, hi) > 0
        BY <1>7
      <4> QED
        BY <1>1, <4>1, ExtentFacts
    <3> QED
      BY <1>1, <1>7, <3>1
  <2>2. u = Align(m) /\ GetAperExt(msg, Len(w), lo, hi) = Read(lo, Aligned(Len(m)))
    BY <1>5, <1>7 DEF PutAperExt, GetAperExt, m
  <2>3. Len(Align(m)) = Aligned(Len(m))
    BY <1>4, AlignFacts
  <2>4. lo \in lo .. v /\ v = lo
    BY <1>1, <2>1
  <2> QED
    BY <1>6, <2>2, <2>3, <2>4
<1>8. CASE e # 1 /\ e < Power[Octet]
  <2> DEFINE y == lo + ((v - lo) % Power[n])
  <2>1. u = PutConstrained("cpp", m, v, lo, hi)
        /\ GetAperExt(msg, Len(w), lo, hi) = GetConstrained("cpp", msg, Len(m), lo, hi)
    BY <1>5, <1>8 DEF PutAperExt, GetAperExt, m
  <2>2. GetConstrained("cpp", msg, Len(m), lo, hi) = Read(y, Len(PutConstrained("cpp", m, v, lo, hi)))
    <3>1. Extends(PutConstrained("cpp", m, v, lo, hi), msg)
      BY <2>1
    <3> QED
      BY <1>1, <1>4, <3>1, ConstrainedTrip
  <2>3. y \in lo .. v /\ (v - lo < Power[n] => y = v)
    <3>1. n \in Widths
      BY <1>1, RangeBitsFacts
    <3> HIDE DEF n
    <3> QED
      BY <1>1, <3>1, Wrapped
  <2>4. AperExact(v, lo, hi) => v - lo < Power[n]
    BY <1>2, <1>3, <1>8 DEF AperExact
  <2> HIDE DEF y
  <2> QED
    BY <1>6, <2>1, <2>2, <2>3, <2>4
<1>9. CASE e >= Power[Octet] /\ e <= Power[2 * Octet]
  <2> DEFINE b == MediumBits(lo, hi)
             y == lo + ((v - lo) % Power[b])
  <2>1. ~ (e = 1) /\ ~ (e < Power[Octet])
    BY <1>2, <1>3, <1>9
  <2>2. u = PutMedium(m, v, lo, hi) /\ GetAperExt(msg, Len(w), lo, hi) = GetMedium(msg, Len(m), lo, hi)
    BY <1>5, <1>9, <2>1 DEF PutAperExt, GetAperExt, m
  <2>3. GetMedium(msg, Len(m), lo, hi) = Read(y, Len(PutMedium(m, v, lo, hi)))
    <3>1. Extends(PutMedium(m, v, lo, hi), msg)
      BY <2>2
    <3> QED
      BY <1>1, <1>4, <3>1, MediumTrip
  <2>4. v - lo < Power[b]
    BY <1>9, MediumExact
  <2>5. y \in lo .. v /\ y = v
    <3>1. b \in Widths
      BY MediumWidth
    <3> HIDE DEF b
    <3> QED
      BY <1>1, <2>4, <3>1, Wrapped
  <2> HIDE DEF y
  <2> QED
    BY <1>6, <2>2, <2>3, <2>5
<1>10. CASE e > Power[2 * Octet]
  <2> DEFINE k == LargeOctets(x)
             place == Power[Octet - 4]
             y == lo + (x % Power[k * Octet])
             l == PutLarge(w, x, k, place)
  <2>1. ~ (e = 1) /\ ~ (e < Power[Octet]) /\ ~ (e <= Power[2 * Octet])
    BY <1>2, <1>3, <1>10
  <2>2. u = l /\ GetAperExt(msg, Len(w), lo, hi) = GetLarge(msg, Len(w), lo, place, 8)
    BY <2>1 DEF PutAperExt, GetAperExt
  <2>3. k \in 1 .. 4 /\ (x < Power[4 * Octet] => x < Power[k * Octet]) /\ IsPlace(place, 8)
    <3> HIDE DEF x
    <3> QED
      BY <1>1, LargeOctetsFacts DEF IsPlace
  <2>4. k * Octet \in Widths
    <3>1. k \in 1 .. Word
      BY <2>3, WidthAssumption
    <3> QED
      BY <3>1, OctetWidths
  <2> HIDE DEF k
  <2>5. GetLarge(msg, Len(w), lo, place, 8) = Read(y, Len(l))
    <3>1. Extends(l, msg)
      BY <2>2
    <3> HIDE DEF x, place
    <3> QED
      BY <1>1, <2>3, <3>1, LargeTrip
  <2>6. y \in lo .. v /\ (v - lo < Power[k * Octet] => y = v)
    BY <1>1, <2>4, Wrapped
  <2>7. AperExact(v, lo, hi) => v - lo < Power[k * Octet]
    BY <1>10, <2>3 DEF AperExact
  <2> HIDE DEF y, l
  <2> QED
    BY <1>6, <2>2, <2>5, <2>6, <2>7
<1> QED
  BY <1>2, <1>3, <1>7, <1>8, <1>9, <1>10

(* The extensible variant is not below its lower bound.                    *)
LEMMA GetAperExtFacts ==
  ASSUME NEW msg \in Message, Len(msg) % Octet = 0, NEW pos \in 0 .. Len(msg), NEW lo \in Int, NEW hi \in Int
  PROVE  /\ GetAperExt(msg, pos, lo, hi).value \in Int /\ GetAperExt(msg, pos, lo, hi).value >= lo
         /\ GetAperExt(msg, pos, lo, hi).at \in pos .. Len(msg)
<1> DEFINE b == After(msg, pos, 1)
           c == GetConstrained("cpp", msg, b, lo, hi)
           m == GetMedium(msg, b, lo, hi)
           l == GetLarge(msg, pos, lo, Power[Octet - 4], 8)
<1>1. b \in pos .. Len(msg) /\ b \in 0 .. Len(msg)
  <2>1. 1 \in Nat
    OBVIOUS
  <2>2. b \in pos .. Len(msg)
    BY <2>1, AfterFacts
  <2> QED
    BY <2>2, MessageFacts
<1>2. GetAperExt(msg, pos, lo, hi) \in {Read(lo, Aligned(b)), c, m, l}
  BY DEF GetAperExt
<1> HIDE DEF b
<1>3. c.value \in Int /\ c.value >= lo /\ c.at \in b .. Len(msg)
  BY <1>1, GetConstrainedFacts
<1>4. m.value \in Int /\ m.value >= lo /\ m.at \in b .. Len(msg)
  BY <1>1, GetMediumFacts
<1>5. l.value \in Int /\ l.value >= lo /\ l.at \in pos .. Len(msg)
  <2>1. IsPlace(Power[Octet - 4], 8)
    BY DEF IsPlace
  <2> QED
    BY <2>1, GetLargeFacts
<1>6. Aligned(b) \in b .. Len(msg)
  BY <1>1, AlignedOnward
<1> HIDE DEF c, m, l
<1>7. Read(lo, Aligned(b)).value = lo /\ Read(lo, Aligned(b)).at = Aligned(b)
  BY DEF Read
<1>8. CASE GetAperExt(msg, pos, lo, hi) = Read(lo, Aligned(b))
  BY <1>1, <1>6, <1>7, <1>8
<1>9. CASE GetAperExt(msg, pos, lo, hi) = c
  BY <1>1, <1>3, <1>9
<1>10. CASE GetAperExt(msg, pos, lo, hi) = m
  BY <1>1, <1>4, <1>10
<1> QED
  BY <1>2, <1>5, <1>8, <1>9, <1>10

-----------------------------------------------------------------------------
(***************************************************************************)
(* Open types and REAL.                                                    *)
(***************************************************************************)

(* Open types.                                                             *)

(* An open type is written after what is there.                            *)
LEMMA PutOpenFacts ==
  ASSUME NEW w \in Message, NEW content \in Message
  PROVE  PutOpen(w, content) \in Message /\ Extends(w, PutOpen(w, content))
<1> DEFINE u == PutLength(w, OctetsOf(Len(content)))
           a == Align(u)
<1>1. OctetsOf(Len(content)) \in Nat
  BY MessageFacts, AlignedFacts
<1>2. u \in Message /\ Extends(w, u)
  BY <1>1, PutLengthFacts
<1> HIDE DEF u
<1>3. a \in Message /\ Extends(u, a)
  BY <1>2, AlignFacts
<1>4. PutOpen(w, content) = a \o content
  BY DEF PutOpen, u
<1> HIDE DEF a
<1>5. a \o content \in Message /\ Extends(a, a \o content)
  BY <1>3, Longer
<1>6. Extends(w, a)
  BY <1>2, <1>3, ExtendsOnward
<1> QED
  BY <1>2, <1>3, <1>4, <1>5, <1>6, ExtendsOnward

(* The content of an open type has the length asked for, whatever there    *)
(* is.                                                                     *)
LEMMA TakenFacts ==
  ASSUME NEW msg \in Message, NEW pos \in 0 .. Len(msg), NEW n \in Nat
  PROVE  /\ Taken(msg, pos, n).value \in Message /\ Len(Taken(msg, pos, n).value) = n
         /\ Taken(msg, pos, n).at \in pos .. Len(msg)
<1> DEFINE end == After(msg, pos, n)
           bits == SubSeq(msg, pos + 1, end)
           z == Zeros(n - Len(bits))
<1>1. end \in pos .. Len(msg) /\ end <= pos + n
  BY AfterFacts
<1>2. Taken(msg, pos, n).value = bits \o z /\ Taken(msg, pos, n).at = end
  BY DEF Taken, Then, Read
<1> HIDE DEF end
<1>3. bits \in Message /\ Len(bits) = end - pos
  BY <1>1, PartFacts
<1> HIDE DEF bits
<1>4. z \in Message /\ Len(z) = n - Len(bits)
  <2>1. n - Len(bits) \in Nat
    BY <1>1, <1>3
  <2> QED
    BY <2>1, ZerosFacts
<1> HIDE DEF z
<1>5. bits \o z \in Message /\ Len(bits \o z) = Len(bits) + Len(z)
  BY <1>3, <1>4, Longer
<1>6. Len(bits \o z) = n
  BY <1>1, <1>3, <1>4, <1>5
<1> QED
  BY <1>1, <1>2, <1>5, <1>6

(* An open type of whole octets returns as it was written.                 *)
LEMMA OpenTrip ==
  ASSUME NEW w \in Message, NEW content \in Message, Len(content) % Octet = 0,
         Countable(OctetsOf(Len(content))),
         NEW msg \in Message, Extends(PutOpen(w, content), msg)
  PROVE  GetOpen(msg, Len(w)) = Read(content, Len(PutOpen(w, content)))
<1> DEFINE n == OctetsOf(Len(content))
           u == PutLength(w, n)
           a == Align(u)
<1>1. n \in Nat /\ Octet * n = Len(content)
  <2>1. Len(content) \in Nat
    BY MessageFacts
  <2> DEFINE l == Len(content)
  <2>2. OctetsOf(l) \in Nat /\ Aligned(l) = l
    <3> HIDE DEF l
    <3>1. l \in Nat /\ l % Octet = 0
      BY <2>1 DEF l
    <3> QED
      BY <3>1, AlignedFacts
  <2> QED
    BY <2>2 DEF Aligned
<1>2. Countable(n)
  OBVIOUS
<1> HIDE DEF n
<1>3. u \in Message
  BY <1>1, PutLengthFacts
<1>4. a \in Message /\ Extends(u, a) /\ Len(a) = Aligned(Len(u))
  <2> HIDE DEF u
  <2> QED
    BY <1>3, AlignFacts
<1>5. PutOpen(w, content) = a \o content
  BY DEF PutOpen, n
<1>6. /\ Extends(a, msg) /\ After(msg, Len(a), Len(content)) = Len(a \o content)
      /\ SubSeq(msg, Len(a) + 1, Len(a \o content)) = content
  <2> HIDE DEF a
  <2> QED
    BY <1>4, <1>5, PartTrip
<1>7. GetLength(msg, Len(w)) = Read(n, Len(u))
  <2>1. Extends(u, msg)
    <3> HIDE DEF u, a
    <3> QED
      BY <1>3, <1>4, <1>6, ExtendsOnward
  <2> QED
    BY <1>1, <1>2, <2>1, LengthTrip
<1>8. GetLength(msg, Len(w)).value = n /\ GetLength(msg, Len(w)).at = Len(u)
  BY <1>7 DEF Read
<1> HIDE DEF a, u
<1>9. GetOpen(msg, Len(w)) = Taken(msg, Len(a), Len(content))
  BY <1>1, <1>4, <1>8 DEF GetOpen, Then
<1>10. Taken(msg, Len(a), Len(content)) = Read(content \o Zeros(Len(content) - Len(content)), Len(a \o content))
  BY <1>6 DEF Taken, Then, Read
<1>11. content \o Zeros(Len(content) - Len(content)) = content
  <2>1. Zeros(0) \in Message /\ Len(Zeros(0)) = 0
    <3>1. 0 \in Nat
      OBVIOUS
    <3> QED
      BY <3>1, ZerosFacts
  <2>2. Len(content) \in Nat /\ Len(content) - Len(content) = 0
    BY MessageFacts
  <2> DEFINE z == Zeros(0)
  <2> HIDE DEF z
  <2>3. content \o z \in Message /\ Len(content \o z) = Len(content) + Len(z) /\ Extends(content, content \o z)
    BY <2>1, Longer DEF z
  <2>4. content \o z = content
    <3>1. Len(content \o z) = Len(content)
      BY <2>1, <2>2, <2>3 DEF z
    <3>2. \A j \in 1 .. Len(content) : (content \o z)[j] = content[j]
      BY <2>3 DEF Extends
    <3> DEFINE y == content \o z
    <3>3. y \in Message /\ Len(y) = Len(content) /\ \A j \in 1 .. Len(y) : y[j] = content[j]
      BY <2>3, <3>1, <3>2
    <3> HIDE DEF y
    <3>4. y = content
      BY <3>3, SameBits
    <3> QED
      BY <3>4 DEF y
  <2> QED
    BY <2>2, <2>4 DEF z
<1> QED
  BY <1>5, <1>9, <1>10, <1>11

(* An open type read is of whole octets and ends in the message.           *)
LEMMA GetOpenFacts ==
  ASSUME NEW msg \in Message, Len(msg) % Octet = 0, NEW pos \in 0 .. Len(msg)
  PROVE  /\ GetOpen(msg, pos).value \in Message /\ Len(GetOpen(msg, pos).value) % Octet = 0
         /\ GetOpen(msg, pos).at \in pos .. Len(msg)
<1> DEFINE x == GetLength(msg, pos)
           a == Aligned(x.at)
           n == Octet * x.value
<1>1. x.value \in Nat /\ x.at \in pos .. Len(msg)
  BY GetLengthFacts
<1>2. GetOpen(msg, pos) = Taken(msg, a, n)
  BY DEF GetOpen, Then
<1> HIDE DEF x
<1>3. a \in x.at .. Len(msg) /\ a \in 0 .. Len(msg)
  <2>1. x.at \in 0 .. Len(msg)
    BY <1>1, MessageFacts
  <2> QED
    BY <2>1, AlignedOnward
<1>4. n \in Nat /\ n % Octet = 0
  <2>1. \A i1, j1 \in Nat : i1 * j1 \in Nat
    OBVIOUS
  <2>2. Octet \in Nat /\ Octet >= 1 /\ x.value \in Int
    BY <1>1, WidthAssumption
  <2> QED
    BY <1>1, <2>1, <2>2, Multiple
<1> HIDE DEF a, n
<1>5. Taken(msg, a, n).value \in Message /\ Len(Taken(msg, a, n).value) = n /\ Taken(msg, a, n).at \in a .. Len(msg)
  BY <1>3, <1>4, TakenFacts
<1> QED
  BY <1>1, <1>2, <1>3, <1>4, <1>5

(* REAL.                                                                   *)

(* A REAL is written after what is there.                                  *)
LEMMA PutRealFacts ==
  ASSUME NEW w \in Message, NEW v \in Int
  PROVE  PutReal(w, v) \in Message /\ Extends(w, PutReal(w, v))
<1> DEFINE u == PutLength(w, Word)
           x == Bits(v, Octet * Word)
<1>1. u \in Message /\ Extends(w, u) /\ x \in Message
  BY PutLengthFacts, BitsFacts, PowerNames, WidthAssumption
<1>2. PutReal(w, v) = u \o x
  BY DEF PutReal
<1> HIDE DEF u, x
<1>3. u \o x \in Message /\ Extends(u, u \o x)
  BY <1>1, Longer
<1> QED
  BY <1>1, <1>2, <1>3, ExtendsOnward

(* Every 64-bit pattern of a REAL returns.                                 *)
LEMMA RealTrip ==
  ASSUME NEW w \in Message, NEW v \in 0 .. Power[Octet * Word] - 1,
         NEW msg \in Message, Extends(PutReal(w, v), msg)
  PROVE  GetReal(msg, Len(w)) = Read(v, Len(PutReal(w, v)))
<1> DEFINE n == Octet * Word
           u == PutLength(w, Word)
           x == Bits(v, n)
<1>1. n \in Widths /\ Word \in Nat /\ Word < Short /\ v \in Int /\ 0 <= v /\ v < Power[n] /\ Power[n] \in Nat /\ Power[n] >= 1
  <2>1. n \in Widths /\ Power[n] \in Nat /\ Power[n] >= 1
    BY PowerNames, PowerPositive
  <2>2. Word \in Nat /\ Word < Short
    BY WidthAssumption, WordAssumption DEF Short
  <2> QED
    BY <2>1, <2>2
<1>2. PutReal(w, v) = u \o x
  BY DEF PutReal
<1> HIDE DEF n
<1>3. u \in Message /\ x \in Message
  BY <1>1, PutLengthFacts, BitsFacts
<1>4. Extends(u, msg)
  <2> HIDE DEF u, x
  <2> QED
    BY <1>2, <1>3, PartTrip
<1>5. GetLength(msg, Len(w)) = Read(Word, Len(u))
  BY <1>1, <1>4, ShortTrip
<1>6. GetBits(msg, Len(u), n) = Read(v, Len(u \o x))
  <2>1. v % Power[n] = v
    BY <1>1, Quotient
  <2>2. GetBits(msg, Len(u), n) = Read(v % Power[n], Len(u \o Bits(v, n)))
    <3> HIDE DEF u
    <3> QED
      BY <1>1, <1>2, <1>3, BitsTrip
  <2> QED
    BY <2>1, <2>2
<1>7. GetLength(msg, Len(w)).value = Word /\ GetLength(msg, Len(w)).at = Len(u)
  BY <1>5 DEF Read
<1> HIDE DEF u, x
<1> QED
  BY <1>2, <1>6, <1>7 DEF GetReal, Then, n

(* A REAL read ends in the message.                                        *)
LEMMA GetRealFacts ==
  ASSUME NEW msg \in Message, NEW pos \in 0 .. Len(msg)
  PROVE  GetReal(msg, pos).at \in pos .. Len(msg)
<1> DEFINE x == GetLength(msg, pos)
<1>1. x.value \in Nat /\ x.at \in pos .. Len(msg) /\ x.at \in 0 .. Len(msg)
  <2>1. x.value \in Nat /\ x.at \in pos .. Len(msg)
    BY GetLengthFacts
  <2> QED
    BY <2>1, MessageFacts
<1>2. GetReal(msg, pos) \in {GetBits(msg, x.at, Octet * Word), Read(Bad, x.at)}
  BY DEF GetReal, Then
<1> HIDE DEF x
<1>3. GetBits(msg, x.at, Octet * Word).at \in x.at .. Len(msg)
  BY <1>1, WordFacts, BitsOnward
<1>4. Read(Bad, x.at).at = x.at
  BY DEF Read
<1> QED
  BY <1>1, <1>2, <1>3, <1>4

-----------------------------------------------------------------------------
(***************************************************************************)
(* OBJECT IDENTIFIER.                                                      *)
(***************************************************************************)

(* OBJECT IDENTIFIER: the octets of a component.                           *)

(* The contents octets of an OBJECT IDENTIFIER.                            *)
Octets == Seq(Nat)

(* Octets after octets.                                                    *)
LEMMA OctetsJoin ==
  ASSUME NEW s \in Octets, NEW x \in Octets
  PROVE  /\ s \o x \in Octets /\ Len(s \o x) = Len(s) + Len(x)
         /\ Len(s) \in Nat /\ Len(x) \in Nat
         /\ \A j \in 1 .. Len(s) : (s \o x)[j] = s[j]
         /\ \A j \in 1 .. Len(x) : (s \o x)[Len(s) + j] = x[j]
BY DEF Octets

(* Octets are numbers.                                                     *)
LEMMA OctetsFacts ==
  ASSUME NEW s \in Octets
  PROVE  Len(s) \in Nat /\ \A j \in 1 .. Len(s) : s[j] \in Nat
BY DEF Octets

(* One octet more.                                                         *)
LEMMA OctetsAppend ==
  ASSUME NEW s \in Octets, NEW o \in Nat
  PROVE  /\ Append(s, o) \in Octets /\ Len(Append(s, o)) = Len(s) + 1
         /\ Append(s, o)[Len(s) + 1] = o
         /\ \A j \in 1 .. Len(s) : Append(s, o)[j] = s[j]
BY DEF Octets

(* Sequences of octets are the same when they have the same octets.        *)
LEMMA SameOctets ==
  ASSUME NEW u \in Octets, NEW v \in Octets, Len(u) = Len(v), \A j \in 1 .. Len(u) : u[j] = v[j]
  PROVE  u = v
BY DEF Octets

(* The groups of Octet - 1 bits.                                           *)
Group(k) == (Octet - 1) * k

(* The groups of seven bits cover a word.                                  *)
LEMMA GroupFacts ==
  /\ Groups \in Nat /\ Groups >= 1
  /\ \A k \in 0 .. Groups - 1 : Group(k) \in Widths
  /\ \A k \in 1 .. Groups - 1 : Power[Group(k)] = Power[Group(k - 1)] * Short
  /\ Group(0) = 0
  /\ Power[Octet * Word] <= Power[Group(Groups - 1)] * Short
<1> DEFINE d == Octet - 1
           n == Octet * Word
           q == n \div d
           r == n % d
<1>1. d \in Nat /\ d >= 3 /\ n \in Nat /\ n \in Int /\ n >= 0
  BY WordFacts, WidthAssumption
<1> HIDE DEF d, n
<1>2. q \in Nat /\ r \in Nat /\ r < d /\ n = d * q + r
  BY <1>1, Quotient
<1>3. Groups = q + 1
  BY DEF Groups, q, n, d
<1> HIDE DEF q, r
<1>4. \A k \in 0 .. q : d * k \in Nat /\ d * k <= n
  <2> TAKE k \in 0 .. q
  <2>1. \A i1, j1, k1 \in Nat : i1 <= j1 => k1 * i1 <= k1 * j1 /\ k1 * i1 \in Nat /\ k1 * j1 \in Nat
    OBVIOUS
  <2>2. k \in Nat /\ k <= q
    BY <1>2
  <2>3. d * k <= d * q /\ d * k \in Nat /\ d * q \in Nat
    BY <1>1, <1>2, <2>1, <2>2
  <2> QED
    BY <1>1, <1>2, <2>3
<1>5. \A k \in 0 .. q : Group(k) \in Widths /\ Group(k) = d * k
  BY <1>1, <1>4 DEF Group, Widths, n, d
<1>6. ASSUME NEW k \in 1 .. q
      PROVE  Power[Group(k)] = Power[Group(k - 1)] * Short
  <2>1. k \in 0 .. q /\ k - 1 \in 0 .. q
    BY <1>2
  <2>2. Group(k - 1) \in Nat /\ Group(k - 1) + d = Group(k)
    BY <1>1, <1>4, <1>5, <2>1
  <2>3. Power[Group(k - 1) + d] = Power[Group(k - 1)] * Power[d]
    BY <1>1, <1>5, <2>1, <2>2, PowerSum
  <2> QED
    BY <2>2, <2>3 DEF Short, d
<1>7. Group(0) = 0
  BY <1>1, <1>5, <1>2
<1>8. Power[n] <= Power[Group(q)] * Short
  <2>1. Group(q) + r = n /\ Group(q) \in Nat
    BY <1>1, <1>2, <1>4, <1>5
  <2>2. n \in Widths
    BY PowerNames DEF n
  <2>3. Power[n] = Power[Group(q)] * Power[r] /\ Power[Group(q)] \in Nat /\ r \in Widths /\ Power[r] \in Nat
    BY <1>2, <2>1, <2>2, PowerSum
  <2>4. d \in Widths /\ Power[d] = Short /\ Short \in Nat
    BY PowerNames, LongFacts DEF d, Short
  <2>5. Power[r] <= Short
    BY <1>2, <2>3, <2>4, PowerGrows
  <2>6. \A i1, j1, k1 \in Nat : i1 <= j1 => k1 * i1 <= k1 * j1
    OBVIOUS
  <2> QED
    BY <2>3, <2>4, <2>5, <2>6
<1>9. Groups - 1 = q
  BY <1>2, <1>3
<1> QED
  BY <1>2, <1>3, <1>5, <1>6, <1>7, <1>8, <1>9 DEF n

(* What is left of a component after k groups.                             *)
LEMMA ShiftedFacts ==
  ASSUME NEW n \in 0 .. Power[Octet * Word] - 1
  PROVE  /\ \A k \in 0 .. Groups - 1 : Shifted(n, k) \in Nat /\ Shifted(n, k) <= n
         /\ Shifted(n, 0) = n
         /\ \A k \in 1 .. Groups - 1 :
              Shifted(n, k - 1) = Shifted(n, k) * Short + (Shifted(n, k - 1) % Short)
         /\ Shifted(n, Groups - 1) < Short
<1>1. Power[Octet * Word] \in Nat /\ Short \in Nat /\ Short >= 1
  <2>1. Power[Octet * Word] \in Nat
    BY PowerNames, PowerPositive
  <2> QED
    BY <2>1, LongFacts
<1>2. n \in Nat /\ n \in Int /\ n < Power[Octet * Word]
  BY <1>1
<1>3. \A k \in 0 .. Groups - 1 : Power[Group(k)] \in Nat /\ Power[Group(k)] >= 1 /\ Shifted(n, k) = n \div Power[Group(k)]
  BY GroupFacts, PowerPositive DEF Shifted, Group
<1>4. ASSUME NEW k \in 0 .. Groups - 1
      PROVE  Shifted(n, k) \in Nat /\ Shifted(n, k) <= n
  <2> DEFINE p == Power[Group(k)]
  <2>1. p \in Nat /\ p >= 1 /\ Shifted(n, k) = n \div p
    BY <1>3
  <2> HIDE DEF p
  <2> DEFINE s == n \div p
  <2>2. s \in Nat /\ n = p * s + (n % p) /\ n % p \in Nat
    BY <1>2, <2>1, Quotient
  <2>3. s <= n
    <3> HIDE DEF s
    <3>1. \A i1, j1 \in Nat : i1 >= 1 => j1 <= i1 * j1 /\ i1 * j1 \in Nat
      OBVIOUS
    <3>2. s <= p * s /\ p * s \in Nat
      BY <2>1, <2>2, <3>1
    <3> QED
      BY <1>2, <2>2, <3>2
  <2> QED
    BY <2>1, <2>2, <2>3
<1>5. Shifted(n, 0) = n
  <2>1. 0 \in 0 .. Groups - 1 /\ Power[Group(0)] = 1
    BY GroupFacts, PowerDefined
  <2> QED
    BY <1>2, <1>3, <2>1
<1>6. ASSUME NEW k \in 1 .. Groups - 1
      PROVE  Shifted(n, k - 1) = Shifted(n, k) * Short + (Shifted(n, k - 1) % Short)
  <2>1. k \in 0 .. Groups - 1 /\ k - 1 \in 0 .. Groups - 1
    BY GroupFacts
  <2> DEFINE p == Power[Group(k - 1)]
             s == Shifted(n, k - 1)
  <2>2. p \in Nat /\ p >= 1 /\ s = n \div p /\ s \in Nat
    BY <1>3, <1>4, <2>1
  <2>3. Shifted(n, k) = n \div (p * Short)
    BY <1>3, <2>1, GroupFacts
  <2> HIDE DEF p
  <2>4. (n \div p) \div Short = n \div (p * Short)
    BY <1>1, <1>2, <2>2, QuotientTwice
  <2>5. s = Short * (s \div Short) + (s % Short) /\ s \div Short \in Int
    <3> HIDE DEF s
    <3>1. s \in Int
      BY <2>2
    <3> QED
      BY <1>1, <3>1, Quotient
  <2>6. s \div Short = Shifted(n, k)
    BY <2>2, <2>3, <2>4
  <2> HIDE DEF s
  <2>7. Short * (s \div Short) = (s \div Short) * Short
    BY <1>1, <2>5
  <2> QED
    BY <2>5, <2>6, <2>7 DEF s
<1>7. Shifted(n, Groups - 1) < Short
  <2>1. Groups - 1 \in 0 .. Groups - 1
    BY GroupFacts
  <2> DEFINE p == Power[Group(Groups - 1)]
             s == n \div p
  <2>2. p \in Nat /\ p >= 1 /\ Shifted(n, Groups - 1) = s /\ Power[Octet * Word] <= p * Short
    BY <1>3, <2>1, GroupFacts
  <2> HIDE DEF p
  <2>3. s \in Nat /\ n = p * s + (n % p) /\ n % p \in Nat
    BY <1>2, <2>2, Quotient
  <2> HIDE DEF s
  <2>4. ASSUME s >= Short
        PROVE  FALSE
    <3>1. \A i1, j1, k1 \in Nat : i1 >= j1 => k1 * i1 >= k1 * j1 /\ k1 * i1 \in Nat /\ k1 * j1 \in Nat
      OBVIOUS
    <3>2. p * s >= p * Short /\ p * s \in Nat /\ p * Short \in Nat
      BY <1>1, <2>2, <2>3, <2>4, <3>1
    <3> QED
      BY <1>1, <1>2, <2>2, <2>3, <3>2
  <2> QED
    BY <1>1, <2>2, <2>3, <2>4
<1> QED
  BY <1>4, <1>5, <1>6, <1>7

(* The octets of n: their number, and what the i-th one has.               *)
LEMMA ComponentOctetsFacts ==
  ASSUME NEW n \in 0 .. Power[Octet * Word] - 1
  PROVE  \E size \in 1 .. Groups :
           /\ Shifted(n, size - 1) < Short
           /\ ComponentOctets(n) \in Octets /\ Len(ComponentOctets(n)) = size
           /\ \A i1 \in 1 .. size :
                /\ Shifted(n, size - i1) \in Nat
                /\ ComponentOctets(n)[i1] < Power[Octet]
                /\ ComponentOctets(n)[i1] % Short = Shifted(n, size - i1) % Short
                /\ ComponentOctets(n)[i1] >= Short <=> i1 < size
<1> DEFINE Is(k) == Shifted(n, k - 1) < Short /\ (k > 1 => Shifted(n, k - 1) > 0)
           S == {k \in 1 .. Groups : Shifted(n, k - 1) < Short}
           size == CHOOSE k \in 1 .. Groups : Is(k)
           list == [i1 \in 1 .. size |-> (IF i1 < size THEN Short ELSE 0) + (Shifted(n, size - i1) % Short)]
<1>1. Short \in Nat /\ Short >= 1 /\ Groups \in Nat /\ Groups >= 1 /\ Power[Octet] = 2 * Short
  BY LongFacts, GroupFacts
<1>2. \A k \in 1 .. Groups : Shifted(n, k - 1) \in Nat
  <2> TAKE k \in 1 .. Groups
  <2>1. k - 1 \in 0 .. Groups - 1
    BY <1>1
  <2> QED
    BY <2>1, ShiftedFacts
<1>3. \E k \in 1 .. Groups : Is(k)
  <2>1. Groups \in S /\ S \in SUBSET Nat
    BY <1>1, ShiftedFacts
  <2> HIDE DEF S
  <2>2. PICK k \in S : \A j \in S : k <= j
    BY <2>1, FirstExists
  <2>3. k \in 1 .. Groups /\ Shifted(n, k - 1) < Short
    BY DEF S
  <2>4. ASSUME k > 1
        PROVE  Shifted(n, k - 1) > 0
    <3>1. k - 1 \in 1 .. Groups /\ k - 1 \notin S /\ k - 1 \in 1 .. Groups - 1
      BY <1>1, <2>2, <2>3, <2>4
    <3>2. ~ (Shifted(n, (k - 1) - 1) < Short) /\ Shifted(n, (k - 1) - 1) \in Nat
      BY <1>2, <3>1 DEF S
    <3>3. Shifted(n, (k - 1) - 1) = Shifted(n, k - 1) * Short + (Shifted(n, (k - 1) - 1) % Short)
      BY <3>1, ShiftedFacts
    <3> DEFINE a == Shifted(n, (k - 1) - 1)
               b == Shifted(n, k - 1)
    <3>4. a \in Nat /\ a >= Short /\ b \in Nat /\ a = b * Short + (a % Short)
      BY <1>1, <1>2, <2>3, <3>2, <3>3
    <3> HIDE DEF a, b
    <3>5. a % Short < Short /\ a % Short \in Nat
      <4>1. a \in Int
        BY <3>4
      <4> QED
        BY <1>1, <4>1, Quotient
    <3>6. b # 0
      BY <1>1, <3>4, <3>5
    <3> QED
      BY <3>4, <3>6 DEF b
  <2> QED
    BY <2>3, <2>4
<1>4. size \in 1 .. Groups /\ Is(size)
  <2> HIDE DEF Is
  <2> QED
    BY <1>3
<1>5. ComponentOctets(n) = list
  BY DEF ComponentOctets
<1> HIDE DEF size
<1>6. \A i1 \in 1 .. size : Shifted(n, size - i1) \in Nat /\ Shifted(n, size - i1) % Short \in Nat /\ Shifted(n, size - i1) % Short < Short
  <2> TAKE i1 \in 1 .. size
  <2>1. size - i1 \in 0 .. Groups - 1
    BY <1>1, <1>4
  <2>2. Shifted(n, size - i1) \in Nat
    BY <2>1, ShiftedFacts
  <2> DEFINE a == Shifted(n, size - i1)
  <2>3. a \in Int
    BY <2>2
  <2> HIDE DEF a
  <2>4. a % Short \in Nat /\ a % Short < Short
    BY <1>1, <2>3, Quotient
  <2> QED
    BY <2>2, <2>4 DEF a
<1>7. ASSUME NEW i1 \in 1 .. size
      PROVE  /\ list[i1] \in Nat /\ list[i1] < Power[Octet]
             /\ list[i1] % Short = Shifted(n, size - i1) % Short
             /\ list[i1] >= Short <=> i1 < size
  <2> DEFINE r == Shifted(n, size - i1) % Short
  <2>1. list[i1] = (IF i1 < size THEN Short ELSE 0) + r /\ r \in Nat /\ r < Short
    BY <1>6
  <2> DEFINE o == list[i1]
  <2> HIDE DEF r, list
  <2>2. o % Short = r
    <3>1. CASE i1 < size
      <4>1. o = Short * 1 + r /\ o \in Int /\ 1 \in Int
        BY <1>1, <2>1, <3>1
      <4> HIDE DEF o
      <4> QED
        BY <1>1, <2>1, <4>1, QuotientIs
    <3>2. CASE ~ (i1 < size)
      <4>1. o = r /\ o \in Int /\ 0 <= o /\ o < Short
        BY <1>1, <2>1, <3>2
      <4> HIDE DEF o
      <4> QED
        BY <1>1, <4>1, Quotient
    <3> QED
      BY <3>1, <3>2
  <2> QED
    BY <1>1, <1>4, <2>1, <2>2 DEF r
<1>8. list \in Octets /\ Len(list) = size
  <2>1. list \in [1 .. size -> Nat] /\ size \in Nat
    <3>1. \A i1 \in 1 .. size : list[i1] \in Nat
      BY <1>7
    <3> QED
      BY <1>1, <1>4, <3>1
  <2> HIDE DEF list
  <2> QED
    BY <2>1 DEF Octets
<1> HIDE DEF list
<1> QED
  BY <1>4, <1>5, <1>6, <1>7, <1>8

(* What is made of octets, one after the other.                            *)

(* What the decoder of components has met so far.                          *)
Collected == [done : Seq(Nat), rest : Nat, open : BOOLEAN]

(* Before the first octet.                                                 *)
Start == [done |-> <<>>, rest |-> 0, open |-> FALSE]

(* What is met after each octet.                                           *)
IsCollection(f, octets) ==
  /\ f \in [0 .. Len(octets) -> Collected] /\ f[0] = Start
  /\ \A j \in 1 .. Len(octets) : f[j] = NextOctet(f[j - 1], octets[j])
  /\ Components(octets) = f[Len(octets)]

(* An octet more leaves components and a rest.                             *)
LEMMA NextOctetType ==
  ASSUME NEW s \in Collected, NEW o \in Nat
  PROVE  NextOctet(s, o) \in Collected
<1> DEFINE p == Power[Octet * Word]
           x == s.rest * Short + (o % Short)
           sum == x % p
<1>1. p \in Nat /\ p >= 1 /\ Short \in Nat /\ Short >= 1
  <2>1. p \in Nat /\ p >= 1
    BY PowerNames, PowerPositive
  <2> QED
    BY <2>1, LongFacts
<1>2. s.rest \in Nat /\ s.done \in Seq(Nat)
  BY DEF Collected
<1>3. x \in Int
  <2>1. o % Short \in Nat
    BY <1>1
  <2>2. \A i1, j1 \in Nat : i1 * j1 \in Nat
    OBVIOUS
  <2> QED
    BY <1>1, <1>2, <2>1, <2>2
<1>4. sum \in Nat
  <2> HIDE DEF x, p
  <2> QED
    BY <1>1, <1>3, Quotient
<1>5. NextOctet(s, o) = IF o >= Short THEN [done |-> s.done, rest |-> sum, open |-> TRUE]
                        ELSE [done |-> Append(s.done, sum), rest |-> 0, open |-> FALSE]
  BY DEF NextOctet
<1> HIDE DEF sum
<1>6. Append(s.done, sum) \in Seq(Nat)
  BY <1>2, <1>4
<1> QED
  BY <1>2, <1>4, <1>5, <1>6 DEF Collected

(* The recursive definition of Components has a value for all octets.      *)
LEMMA CollectionExists ==
  ASSUME NEW octets \in Octets
  PROVE  \E f : IsCollection(f, octets)
<1> DEFINE n == Len(octets)
           step == [k \in 1 .. n |-> [s \in Collected |-> NextOctet(s, octets[k])]]
           After1(f) == f = [j \in 0 .. Len(octets) |->
                               IF j = 0 THEN [done |-> <<>>, rest |-> 0, open |-> FALSE]
                               ELSE NextOctet(f[j - 1], octets[j])]
           after == CHOOSE f : After1(f)
<1>1. n \in Nat /\ \A k \in 1 .. n : octets[k] \in Nat
  BY DEF Octets
<1>2. step \in [1 .. n -> [Collected -> Collected]]
  BY <1>1, NextOctetType
<1>3. Start \in Collected
  BY DEF Collected, Start
<1>4. PICK f : IsCourse(f, n, Collected, Start, step)
  <2> HIDE DEF step, n
  <2> QED
    BY <1>1, <1>2, <1>3, Iterated
<1>5. After1(f)
  <2>1. \A k \in 1 .. n : step[k][f[k - 1]] = NextOctet(f[k - 1], octets[k])
    <3>1. \A k \in 1 .. n : f[k - 1] \in Collected
      <4> HIDE DEF n, step
      <4> QED
        BY <1>1, <1>4 DEF IsCourse
    <3> QED
      BY <3>1
  <2>2. [k \in 0 .. n |-> IF k = 0 THEN Start ELSE step[k][f[k - 1]]] = [k \in 0 .. n |-> IF k = 0 THEN Start ELSE NextOctet(f[k - 1], octets[k])]
    <3> HIDE DEF step
    <3> QED
      BY <1>1, <2>1
  <2> QED
    BY <1>4, <2>2 DEF IsCourse, Start
<1>6. After1(after)
  BY <1>5
<1>7. Components(octets) = after[n]
  BY DEF Components
<1> HIDE DEF after
<1>8. after[0] = Start /\ \A k \in 1 .. n : after[k] = NextOctet(after[k - 1], octets[k])
  <2>1. after = [j \in 0 .. n |-> IF j = 0 THEN Start ELSE NextOctet(after[j - 1], octets[j])]
    BY <1>6 DEF Start
  <2>2. after[0] = Start
    BY <1>1, <2>1
  <2>3. ASSUME NEW k \in 1 .. n
        PROVE  after[k] = NextOctet(after[k - 1], octets[k])
    <3>1. k \in 0 .. n /\ k # 0
      BY <1>1
    <3> QED
      BY <2>1, <3>1
  <2> QED
    BY <2>2, <2>3
<1> DEFINE S == {j \in 0 .. n : after[j] \in Collected}
<1>9. 0 .. n \subseteq S
  <2>1. 0 \in S
    BY <1>1, <1>3, <1>8
  <2>2. ASSUME NEW j \in 0 .. n - 1, j \in S
        PROVE  j + 1 \in S
    <3>1. j + 1 \in 1 .. n /\ (j + 1) - 1 = j
      BY <1>1
    <3>2. after[j + 1] = NextOctet(after[j], octets[j + 1])
      BY <1>8, <3>1
    <3> QED
      BY <1>1, <2>2, <3>1, <3>2, NextOctetType
  <2> HIDE DEF S, n
  <2> QED
    BY <1>1, <2>1, <2>2, UpTo
<1>10. after = [j \in 0 .. n |-> after[j]]
  BY <1>6
<1>11. after \in [0 .. n -> Collected]
  BY <1>9, <1>10
<1> QED
  BY <1>7, <1>8, <1>11 DEF IsCollection

(* One more octet is one more step.                                        *)
LEMMA ComponentsAppend ==
  ASSUME NEW s \in Octets, NEW o \in Nat
  PROVE  Components(Append(s, o)) = NextOctet(Components(s), o)
<1> DEFINE t == Append(s, o)
           n == Len(s)
<1>1. /\ t \in Octets /\ Len(t) = n + 1 /\ t[n + 1] = o /\ n \in Nat
      /\ \A j \in 1 .. n : t[j] = s[j]
  <2>1. n \in Nat
    BY DEF Octets
  <2> QED
    BY <2>1, OctetsAppend
<1> HIDE DEF t
<1>2. PICK f : IsCollection(f, s)
  BY CollectionExists
<1>3. PICK g : IsCollection(g, t)
  BY <1>1, CollectionExists
<1>4. f[0] = Start /\ Components(s) = f[n] /\ \A j \in 1 .. n : f[j] = NextOctet(f[j - 1], s[j])
  BY <1>2 DEF IsCollection
<1>5. g[0] = Start /\ Components(t) = g[n + 1] /\ \A j \in 1 .. n + 1 : g[j] = NextOctet(g[j - 1], t[j])
  BY <1>1, <1>3 DEF IsCollection
<1> HIDE DEF n
<1> DEFINE S == {j \in 0 .. n : g[j] = f[j]}
<1>6. 0 .. n \subseteq S
  <2>1. 0 \in S
    BY <1>1, <1>4, <1>5
  <2>2. ASSUME NEW j \in 0 .. n - 1, j \in S
        PROVE  j + 1 \in S
    <3>1. j + 1 \in 1 .. n /\ (j + 1) - 1 = j /\ j + 1 \in 1 .. n + 1 /\ j + 1 \in 0 .. n
      BY <1>1
    <3> QED
      BY <1>1, <1>4, <1>5, <2>2, <3>1
  <2> HIDE DEF S
  <2> QED
    BY <1>1, <2>1, <2>2, UpTo
<1>7. g[n] = f[n]
  BY <1>1, <1>6
<1>8. g[n + 1] = NextOctet(g[n], t[n + 1])
  <2>1. n + 1 \in 1 .. n + 1 /\ (n + 1) - 1 = n
    BY <1>1
  <2> QED
    BY <1>5, <2>1
<1> QED
  BY <1>1, <1>4, <1>5, <1>7, <1>8 DEF t

(* The octets of a component are collected to the component.               *)
LEMMA ComponentCollected ==
  ASSUME NEW s \in Octets, NEW n \in 0 .. Power[Octet * Word] - 1, NEW done \in Seq(Nat),
         Components(s) = [done |-> done, rest |-> 0, open |-> FALSE]
  PROVE  Components(s \o ComponentOctets(n)) = [done |-> Append(done, n), rest |-> 0, open |-> FALSE]
<1> DEFINE c == ComponentOctets(n)
           p == Power[Octet * Word]
<1>1. Short \in Nat /\ Short >= 1 /\ Groups \in Nat /\ p \in Nat /\ p >= 1
  <2>1. p \in Nat /\ p >= 1
    BY PowerNames, PowerPositive
  <2> QED
    BY <2>1, LongFacts, GroupFacts
<1>2. PICK size \in 1 .. Groups :
        /\ Shifted(n, size - 1) < Short
        /\ c \in Octets /\ Len(c) = size
        /\ \A i1 \in 1 .. size :
             /\ Shifted(n, size - i1) \in Nat
             /\ c[i1] < Power[Octet]
             /\ c[i1] % Short = Shifted(n, size - i1) % Short
             /\ c[i1] >= Short <=> i1 < size
  BY ComponentOctetsFacts
<1> HIDE DEF c
<1>3. size \in Nat /\ size >= 1 /\ \A i1 \in 1 .. size : c[i1] \in Nat
  <2>1. size \in Nat /\ size >= 1
    BY <1>1
  <2>2. c \in Octets /\ Len(c) = size
    BY <1>2
  <2>3. \A i1 \in 1 .. Len(c) : c[i1] \in Nat
    BY <2>2, OctetsFacts
  <2> QED
    BY <2>1, <2>2, <2>3
<1> DEFINE Rest(i1) == IF i1 = 0 THEN 0 ELSE Shifted(n, size - i1)
           Prefix(i1) == s \o [j \in 1 .. i1 |-> c[j]]
           S == {i1 \in 0 .. size - 1 :
                   Components(Prefix(i1)) = [done |-> done, rest |-> Rest(i1), open |-> i1 > 0]}
<1>4. \A i1 \in 0 .. size : [j \in 1 .. i1 |-> c[j]] \in Octets /\ Len([j \in 1 .. i1 |-> c[j]]) = i1
  <2> TAKE i1 \in 0 .. size
  <2> DEFINE f == [j \in 1 .. i1 |-> c[j]]
  <2>1. f \in [1 .. i1 -> Nat] /\ i1 \in Nat
    BY <1>3
  <2> HIDE DEF f
  <2>2. f \in Octets /\ Len(f) = i1
    BY <2>1 DEF Octets
  <2> QED
    BY <2>2 DEF f
<1>5. ASSUME NEW i1 \in 0 .. size - 1
      PROVE  Prefix(i1) \in Octets /\ Prefix(i1 + 1) = Append(Prefix(i1), c[i1 + 1])
  <2> DEFINE f == [j \in 1 .. i1 |-> c[j]]
             g == [j \in 1 .. i1 + 1 |-> c[j]]
  <2>1. f \in Octets /\ Len(f) = i1 /\ g \in Octets /\ Len(g) = i1 + 1 /\ c[i1 + 1] \in Nat
    <3>1. i1 \in 0 .. size /\ i1 + 1 \in 0 .. size /\ i1 + 1 \in 1 .. size
      BY <1>3
    <3> HIDE DEF f, g
    <3>2. f \in Octets /\ Len(f) = i1
      BY <1>4, <3>1 DEF f
    <3>3. g \in Octets /\ Len(g) = i1 + 1
      BY <1>4, <3>1 DEF g
    <3> QED
      BY <1>3, <3>1, <3>2, <3>3
  <2>2. /\ \A j \in 1 .. i1 : f[j] = c[j] /\ g[j] = c[j]
        /\ g[i1 + 1] = c[i1 + 1]
    BY <1>3
  <2> HIDE DEF f, g
  <2> DEFINE u == s \o f
             v == s \o g
             l == Len(s)
  <2>3. /\ u \in Octets /\ Len(u) = l + i1 /\ l \in Nat
        /\ (\A j \in 1 .. l : u[j] = s[j]) /\ \A j \in 1 .. i1 : u[l + j] = c[j]
    BY <2>1, <2>2, OctetsJoin
  <2>4. /\ v \in Octets /\ Len(v) = l + (i1 + 1)
        /\ (\A j \in 1 .. l : v[j] = s[j]) /\ \A j \in 1 .. i1 + 1 : v[l + j] = g[j]
    <3>1. g \in Octets /\ Len(g) = i1 + 1
      BY <2>1
    <3>2. v \in Octets /\ Len(v) = l + Len(g)
      BY <3>1, OctetsJoin
    <3>3. \A j \in 1 .. l : v[j] = s[j]
      BY <3>1, OctetsJoin
    <3>4. \A j \in 1 .. Len(g) : v[l + j] = g[j]
      BY <3>1, OctetsJoin
    <3> HIDE DEF v, l
    <3> QED
      BY <3>1, <3>2, <3>3, <3>4
  <2> HIDE DEF u, v, l
  <2> DEFINE t == Append(u, c[i1 + 1])
  <2>5. /\ t \in Octets /\ Len(t) = (l + i1) + 1 /\ t[(l + i1) + 1] = c[i1 + 1]
        /\ \A j \in 1 .. l + i1 : t[j] = u[j]
    <3> DEFINE o == c[i1 + 1]
    <3>1. u \in Octets /\ o \in Nat
      BY <2>1, <2>3
    <3> HIDE DEF o
    <3>2. Append(u, o) \in Octets
      BY <3>1, OctetsAppend
    <3>3. Len(Append(u, o)) = Len(u) + 1
      BY <3>1, OctetsAppend
    <3>4. Append(u, o)[Len(u) + 1] = o
      BY <3>1, OctetsAppend
    <3>5. \A j \in 1 .. Len(u) : Append(u, o)[j] = u[j]
      BY <3>1, OctetsAppend
    <3> QED
      BY <2>3, <3>2, <3>3, <3>4, <3>5 DEF o
  <2> HIDE DEF t
  <2>6. ASSUME NEW j \in 1 .. l + (i1 + 1)
        PROVE  v[j] = t[j]
    <3>1. CASE j <= l
      <4>1. j \in 1 .. l /\ j \in 1 .. l + i1
        BY <2>3, <3>1
      <4> QED
        BY <2>3, <2>4, <2>5, <4>1
    <3>2. CASE j > l /\ j <= l + i1
      <4>1. j - l \in 1 .. i1 /\ j \in 1 .. l + i1 /\ l + (j - l) = j /\ j - l \in 1 .. i1 + 1
        BY <2>3, <3>2
      <4>2. v[j] = g[j - l] /\ u[j] = c[j - l] /\ t[j] = u[j]
        BY <2>3, <2>4, <2>5, <4>1
      <4> QED
        BY <2>2, <4>1, <4>2
    <3>3. CASE j = l + (i1 + 1)
      <4>1. i1 + 1 \in 1 .. i1 + 1 /\ (l + i1) + 1 = j
        BY <2>3, <3>3
      <4> QED
        BY <2>2, <2>4, <2>5, <3>3, <4>1
    <3>4. j <= l \/ (j > l /\ j <= l + i1) \/ j = l + (i1 + 1)
      BY <2>3
    <3> QED
      BY <3>1, <3>2, <3>3, <3>4
  <2>7. v = t
    <3>1. Len(v) = Len(t) /\ \A j \in 1 .. Len(v) : v[j] = t[j]
      BY <2>3, <2>4, <2>5, <2>6
    <3> QED
      BY <2>4, <2>5, <3>1, SameOctets
  <2> QED
    BY <2>3, <2>7 DEF u, v, t, f, g
<1>6. Prefix(size) = s \o c
  <2> DEFINE f == [j \in 1 .. size |-> c[j]]
  <2>1. f \in Octets /\ Len(f) = size
    BY <1>3, <1>4
  <2>2. \A j \in 1 .. size : f[j] = c[j]
    OBVIOUS
  <2> HIDE DEF f
  <2>3. f = c
    BY <1>2, <2>1, <2>2, SameOctets
  <2> QED
    BY <2>3 DEF f
<1> HIDE DEF Prefix
<1>7. Prefix(0) = s
  <2> DEFINE e == [j \in 1 .. 0 |-> c[j]]
  <2>1. e \in Octets /\ Len(e) = 0
    <3>1. 0 \in 0 .. size
      BY <1>3
    <3> QED
      BY <1>4, <3>1
  <2> HIDE DEF e
  <2>2. s \o e \in Octets /\ Len(s \o e) = Len(s) + Len(e) /\ Len(s) \in Nat /\ \A j \in 1 .. Len(s) : (s \o e)[j] = s[j]
    BY <2>1, OctetsJoin
  <2> DEFINE u == s \o e
  <2>3. u = s
    <3>1. u \in Octets /\ Len(u) = Len(s) /\ \A j \in 1 .. Len(u) : u[j] = s[j]
      BY <2>1, <2>2
    <3> HIDE DEF u
    <3> QED
      BY <3>1, SameOctets
  <2> QED
    BY <2>3 DEF u, e, Prefix
<1>8. 0 \in S
  <2>1. 0 \in 0 .. size - 1 /\ ~ (0 > 0) /\ Rest(0) = 0
    BY <1>3
  <2> HIDE DEF Rest
  <2>2. Components(Prefix(0)) = [done |-> done, rest |-> Rest(0), open |-> 0 > 0]
    <3>1. (0 > 0) = FALSE
      OBVIOUS
    <3>2. Components(s) = [done |-> done, rest |-> 0, open |-> FALSE]
      OBVIOUS
    <3> QED
      BY <1>7, <2>1, <3>1, <3>2, Zenon
  <2> QED
    BY <2>1, <2>2
(* A step within the component, and the last.                              *)
<1>9. ASSUME NEW i1 \in 0 .. size - 1, i1 \in S
      PROVE  /\ (Rest(i1) * Short + (c[i1 + 1] % Short)) % p = Shifted(n, size - (i1 + 1))
             /\ Components(Prefix(i1 + 1)) = NextOctet([done |-> done, rest |-> Rest(i1), open |-> i1 > 0], c[i1 + 1])
             /\ c[i1 + 1] >= Short <=> i1 + 1 < size
             /\ c[i1 + 1] \in Nat
  <2>1. i1 + 1 \in 1 .. size /\ c[i1 + 1] \in Nat
    BY <1>3
  <2>2. Components(Prefix(i1 + 1)) = NextOctet(Components(Prefix(i1)), c[i1 + 1])
    <3>1. Prefix(i1) \in Octets /\ Prefix(i1 + 1) = Append(Prefix(i1), c[i1 + 1])
      BY <1>5 DEF Prefix
    <3> DEFINE o == c[i1 + 1]
               u == Prefix(i1)
    <3>2. u \in Octets /\ o \in Nat /\ Prefix(i1 + 1) = Append(u, o)
      BY <2>1, <3>1
    <3> HIDE DEF o, u
    <3> QED
      BY <3>2, ComponentsAppend DEF o, u
  <2>3. c[i1 + 1] % Short = Shifted(n, size - (i1 + 1)) % Short /\ (c[i1 + 1] >= Short <=> i1 + 1 < size)
    BY <1>2, <2>1
  <2> DEFINE a == Shifted(n, size - (i1 + 1))
  <2>4. a \in Nat /\ a < p
    <3>1. size - (i1 + 1) \in 0 .. Groups - 1
      BY <1>1, <1>2, <1>3
    <3>2. a \in Nat /\ a <= n
      BY <3>1, ShiftedFacts
    <3> QED
      BY <1>1, <3>2
  <2>5. Rest(i1) * Short + (a % Short) = a
    <3>1. CASE i1 = 0
      <4>1. a < Short
        BY <1>2, <3>1
      <4>2. a % Short = a
        <5> HIDE DEF a
        <5>1. a \in Int /\ 0 <= a
          BY <2>4
        <5> QED
          BY <1>1, <4>1, <5>1, Quotient
      <4>3. Rest(i1) = 0
        BY <3>1
      <4> HIDE DEF a, Rest
      <4> QED
        BY <1>1, <2>4, <4>2, <4>3
    <3>2. CASE i1 # 0
      <4>1. size - i1 \in 1 .. Groups - 1 /\ (size - i1) - 1 = size - (i1 + 1)
        BY <1>1, <1>2, <1>3, <3>2
      <4>2. a = Shifted(n, size - i1) * Short + (a % Short)
        BY <4>1, ShiftedFacts
      <4> QED
        BY <3>2, <4>2
    <3> QED
      BY <3>1, <3>2
  <2>6. a % p = a
    <3> HIDE DEF a, p
    <3>1. a \in Int /\ 0 <= a
      BY <2>4
    <3> QED
      BY <1>1, <2>4, <3>1, Quotient
  <2>7. Components(Prefix(i1)) = [done |-> done, rest |-> Rest(i1), open |-> i1 > 0]
    BY <1>9
  <2> HIDE DEF Prefix, Rest
  <2> QED
    BY <2>1, <2>2, <2>3, <2>5, <2>6, <2>7
<1>10. ASSUME NEW i1 \in 0 .. (size - 1) - 1, i1 \in S
       PROVE  i1 + 1 \in S
  <2>1. i1 \in 0 .. size - 1 /\ i1 + 1 \in 0 .. size - 1 /\ i1 + 1 > 0 /\ i1 + 1 < size /\ i1 + 1 # 0
    BY <1>3
  <2>2. /\ (Rest(i1) * Short + (c[i1 + 1] % Short)) % p = Rest(i1 + 1)
        /\ Components(Prefix(i1 + 1)) = NextOctet([done |-> done, rest |-> Rest(i1), open |-> i1 > 0], c[i1 + 1])
        /\ c[i1 + 1] >= Short
    BY <1>9, <1>10, <2>1
  <2> HIDE DEF Rest
  <2>3. NextOctet([done |-> done, rest |-> Rest(i1), open |-> i1 > 0], c[i1 + 1])
          = [done |-> done, rest |-> Rest(i1 + 1), open |-> TRUE]
    BY <2>2 DEF NextOctet
  <2> QED
    BY <2>1, <2>2, <2>3
<1>11. size - 1 \in S
  <2>1. 0 .. size - 1 \subseteq S
    <3>1. size - 1 \in Nat
      BY <1>3
    <3> HIDE DEF S
    <3> QED
      BY <1>8, <1>10, <3>1, UpTo
  <2> QED
    BY <1>3, <2>1
<1>12. /\ (Rest(size - 1) * Short + (c[size] % Short)) % p = n
       /\ Components(Prefix(size)) = NextOctet([done |-> done, rest |-> Rest(size - 1), open |-> size - 1 > 0], c[size])
       /\ ~ (c[size] >= Short)
  <2>1. size - 1 \in 0 .. size - 1 /\ (size - 1) + 1 = size /\ size - size = 0 /\ ~ (size < size)
    BY <1>3
  <2>2. Shifted(n, 0) = n
    BY ShiftedFacts
  <2> HIDE DEF Rest, S
  <2> QED
    BY <1>9, <1>11, <2>1, <2>2
<1> HIDE DEF Rest
<1>13. NextOctet([done |-> done, rest |-> Rest(size - 1), open |-> size - 1 > 0], c[size])
         = [done |-> Append(done, n), rest |-> 0, open |-> FALSE]
  BY <1>12 DEF NextOctet
<1> QED
  BY <1>6, <1>12, <1>13 DEF c

(* The octets of all components.                                           *)

(* What an unsigned word holds.                                            *)
Numbers64 == 0 .. Power[Octet * Word] - 1

(* Octets are numbers of eight bits.                                       *)
Small(octets) == \A j \in 1 .. Len(octets) : octets[j] < Power[Octet]

(* The recursive definition of OidOctets has a value.                      *)
LEMMA OidCourse ==
  ASSUME NEW arcs, ComponentsOf(arcs) \in Seq(Numbers64)
  PROVE  \E f : /\ f \in [0 .. Len(ComponentsOf(arcs)) -> Octets] /\ f[0] = <<>>
                /\ \A j \in 1 .. Len(ComponentsOf(arcs)) :
                     f[j] = f[j - 1] \o ComponentOctets(ComponentsOf(arcs)[j])
                /\ OidOctets(arcs) = f[Len(ComponentsOf(arcs))]
<1> DEFINE list == ComponentsOf(arcs)
           n == Len(list)
           step == [k \in 1 .. n |-> [s \in Octets |-> s \o ComponentOctets(list[k])]]
           Course(f) == f = [j \in 0 .. Len(list) |->
                               IF j = 0 THEN <<>> ELSE f[j - 1] \o ComponentOctets(list[j])]
           octets == CHOOSE f : Course(f)
<1>1. n \in Nat /\ \A k \in 1 .. n : list[k] \in Numbers64
  <2> HIDE DEF list
  <2>1. list \in Seq(Numbers64)
    BY DEF list
  <2> HIDE DEF Numbers64
  <2> QED
    BY <2>1
<1>2. OidOctets(arcs) = octets[n]
  BY DEF OidOctets
<1>3. \A k \in 1 .. n : ComponentOctets(list[k]) \in Octets
  <2> TAKE k \in 1 .. n
  <2>1. list[k] \in 0 .. Power[Octet * Word] - 1
    BY <1>1 DEF Numbers64
  <2> QED
    BY <2>1, ComponentOctetsFacts
<1> HIDE DEF list
<1>4. step \in [1 .. n -> [Octets -> Octets]]
  BY <1>3, OctetsJoin
<1>5. <<>> \in Octets
  BY DEF Octets
<1>6. PICK f : IsCourse(f, n, Octets, <<>>, step)
  <2> HIDE DEF step, n
  <2> QED
    BY <1>1, <1>4, <1>5, Iterated
<1>7. Course(f)
  <2>1. f = [k \in 0 .. n |-> IF k = 0 THEN <<>> ELSE step[k][f[k - 1]]] /\ f \in [0 .. n -> Octets]
    BY <1>6 DEF IsCourse
  <2>2. ASSUME NEW k \in 0 .. n
        PROVE  f[k] = IF k = 0 THEN <<>> ELSE f[k - 1] \o ComponentOctets(list[k])
    <3>1. f[k] = IF k = 0 THEN <<>> ELSE step[k][f[k - 1]]
      <4> HIDE DEF step, n
      <4> QED
        BY <2>1
    <3>2. CASE k = 0
      <4> HIDE DEF step
      <4> QED
        BY <3>1, <3>2
    <3>3. CASE k # 0
      <4>1. k \in 1 .. n /\ k - 1 \in 0 .. n
        BY <1>1, <3>3
      <4>2. f[k - 1] \in Octets
        <5> HIDE DEF n, step
        <5> QED
          BY <2>1, <4>1
      <4>3. step[k][f[k - 1]] = f[k - 1] \o ComponentOctets(list[k])
        BY <4>1, <4>2
      <4> HIDE DEF step
      <4> QED
        BY <3>1, <3>3, <4>3
    <3> QED
      BY <3>2, <3>3
  <2>3. f = [k \in 0 .. n |-> f[k]]
    <3> HIDE DEF n, step
    <3> QED
      BY <2>1
  <2>4. [k \in 0 .. n |-> f[k]] = [k \in 0 .. n |-> IF k = 0 THEN <<>> ELSE f[k - 1] \o ComponentOctets(list[k])]
    BY <2>2
  <2>5. f = [k \in 0 .. n |-> IF k = 0 THEN <<>> ELSE f[k - 1] \o ComponentOctets(list[k])]
    <3> HIDE DEF n, step
    <3> QED
      BY <2>3, <2>4
  <2> QED
    BY <2>5
<1>8. Course(octets)
  BY <1>7
<1> HIDE DEF octets
<1>9. octets[0] = <<>>
  BY <1>1, <1>8
<1>10. ASSUME NEW k \in 1 .. n
       PROVE  octets[k] = octets[k - 1] \o ComponentOctets(list[k])
  <2>1. k \in 0 .. n /\ k # 0
    BY <1>1
  <2> QED
    BY <1>8, <2>1
<1> DEFINE S == {j \in 0 .. n : octets[j] \in Octets}
<1>11. 0 .. n \subseteq S
  <2>1. 0 \in S
    BY <1>1, <1>5, <1>9
  <2>2. ASSUME NEW j \in 0 .. n - 1, j \in S
        PROVE  j + 1 \in S
    <3>1. j + 1 \in 1 .. n /\ (j + 1) - 1 = j
      BY <1>1
    <3>2. octets[j + 1] = octets[j] \o ComponentOctets(list[j + 1])
      BY <1>10, <3>1
    <3>3. octets[j] \in Octets /\ ComponentOctets(list[j + 1]) \in Octets /\ j + 1 \in 0 .. n
      BY <1>1, <1>3, <2>2, <3>1
    <3>4. octets[j] \o ComponentOctets(list[j + 1]) \in Octets
      BY <3>3, OctetsJoin
    <3> QED
      BY <3>2, <3>3, <3>4
  <2> HIDE DEF S, n
  <2> QED
    BY <1>1, <2>1, <2>2, UpTo
<1>12. octets = [j \in 0 .. n |-> octets[j]]
  BY <1>8
<1>13. octets \in [0 .. n -> Octets]
  BY <1>11, <1>12
<1> QED
  BY <1>2, <1>9, <1>10, <1>13 DEF list

(* The octets of all components are collected into the same components.    *)
LEMMA OidOctetsFacts ==
  ASSUME NEW arcs, ComponentsOf(arcs) \in Seq(Numbers64)
  PROVE  /\ OidOctets(arcs) \in Octets /\ Small(OidOctets(arcs))
         /\ Components(OidOctets(arcs)) = [done |-> ComponentsOf(arcs), rest |-> 0, open |-> FALSE]
<1> DEFINE list == ComponentsOf(arcs)
           n == Len(list)
<1>1. PICK f : /\ f \in [0 .. n -> Octets] /\ f[0] = <<>>
               /\ \A j \in 1 .. n : f[j] = f[j - 1] \o ComponentOctets(list[j])
               /\ OidOctets(arcs) = f[n]
  BY OidCourse
<1>2. list \in Seq(Numbers64)
  OBVIOUS
<1> HIDE DEF list
<1>3. n \in Nat /\ list \in [1 .. n -> Numbers64] /\ Numbers64 \subseteq Nat
  <2>1. Numbers64 \subseteq Nat
    BY DEF Numbers64
  <2> HIDE DEF Numbers64
  <2> QED
    BY <1>2, <2>1
<1> HIDE DEF n
<1> DEFINE done(j) == [i1 \in 1 .. j |-> list[i1]]
           S == {j \in 0 .. n : /\ Small(f[j])
                                /\ Components(f[j]) = [done |-> done(j), rest |-> 0, open |-> FALSE]}
<1>4. \A j \in 0 .. n : done(j) \in Seq(Nat)
  <2> TAKE j \in 0 .. n
  <2>1. \A i1 \in 1 .. j : list[i1] \in Nat
    <3>1. \A i1 \in 1 .. n : list[i1] \in Nat
      BY <1>3
    <3> QED
      BY <1>3, <3>1
  <2>2. done(j) \in [1 .. j -> Nat] /\ j \in Nat
    BY <1>3, <2>1
  <2> QED
    BY <2>2
<1>5. 0 \in S
  <2>1. 0 \in 0 .. n /\ f[0] = <<>> /\ <<>> \in Octets /\ Len(<<>>) = 0
    BY <1>1, <1>3 DEF Octets
  <2>2. Small(<<>>)
    BY DEF Small
  <2>3. Components(<<>>) = Start
    <3>1. PICK g : IsCollection(g, <<>>)
      BY <2>1, CollectionExists
    <3> QED
      BY <2>1, <3>1 DEF IsCollection
  <2>4. done(0) = <<>>
    OBVIOUS
  <2> QED
    BY <2>1, <2>2, <2>3, <2>4 DEF Start
<1>6. ASSUME NEW j \in 0 .. n - 1, j \in S
      PROVE  j + 1 \in S
  <2> DEFINE o == list[j + 1]
             c == ComponentOctets(o)
             s == f[j]
             d == done(j)
             e == done(j + 1)
  <2>1. j + 1 \in 1 .. n /\ j + 1 \in 0 .. n /\ j \in 0 .. n /\ (j + 1) - 1 = j /\ j \in Nat
    BY <1>3
  <2>2. f[j + 1] = s \o c /\ s \in Octets
    BY <1>1, <2>1
  <2>3. o \in Numbers64 /\ o \in 0 .. Power[Octet * Word] - 1 /\ o \in Nat
    BY <1>3, <2>1 DEF Numbers64
  <2>4. c \in Octets /\ Small(c)
    <3> HIDE DEF o
    <3> QED
      BY <2>3, ComponentOctetsFacts DEF Small
  <2>5. d \in Seq(Nat) /\ Components(s) = [done |-> d, rest |-> 0, open |-> FALSE] /\ Small(s)
    BY <1>4, <1>6, <2>1
  <2>6. Append(d, o) = e
    <3>1. Len(d) = j /\ e \in Seq(Nat) /\ Len(e) = j + 1
      <4>0. \A i1 \in 1 .. n : list[i1] \in Nat
        BY <1>3
      <4>5. (\A i1 \in 1 .. j : list[i1] \in Nat) /\ \A i1 \in 1 .. j + 1 : list[i1] \in Nat
        BY <1>3, <2>1, <4>0
      <4>1. d \in [1 .. j -> Nat] /\ e \in [1 .. j + 1 -> Nat]
        BY <2>1, <4>5
      <4>2. Len(d) = j
        BY <2>1, <4>1
      <4>3. Len(e) = j + 1
        BY <2>1, <4>1
      <4> QED
        BY <1>4, <2>1, <4>2, <4>3
    <3>2. \A k \in 1 .. j : d[k] = list[k] /\ e[k] = list[k]
      BY <2>1
    <3>3. e[j + 1] = o
      BY <2>1
    <3> HIDE DEF d, e, o
    <3>4. /\ Append(d, o) \in Octets /\ Len(Append(d, o)) = Len(d) + 1
          /\ Append(d, o)[Len(d) + 1] = o /\ \A k \in 1 .. Len(d) : Append(d, o)[k] = d[k]
      BY <2>3, <2>5, OctetsAppend DEF Octets
    <3> DEFINE a == Append(d, o)
    <3> HIDE DEF a
    <3>5. a \in Octets /\ Len(a) = j + 1 /\ a[j + 1] = o /\ \A k \in 1 .. j : a[k] = d[k]
      BY <3>1, <3>4 DEF a
    <3>6. \A k \in 1 .. j + 1 : a[k] = e[k]
      <4> TAKE k \in 1 .. j + 1
      <4>1. CASE k = j + 1
        BY <3>3, <3>5, <4>1
      <4>2. CASE k # j + 1
        <5>1. k \in 1 .. j
          BY <2>1, <4>2
        <5> QED
          BY <3>2, <3>5, <5>1
      <4> QED
        BY <4>1, <4>2
    <3>7. e \in Octets
      BY <3>1 DEF Octets
    <3> QED
      BY <3>1, <3>5, <3>6, <3>7, SameOctets DEF a
  <2> HIDE DEF c, o, s, d, e
  <2>7. Components(s \o c) = [done |-> Append(d, o), rest |-> 0, open |-> FALSE]
    BY <2>2, <2>3, <2>5, ComponentCollected DEF c
  <2>8. Small(s \o c)
    <3>1. /\ Len(s \o c) = Len(s) + Len(c) /\ Len(s) \in Nat /\ Len(c) \in Nat
          /\ (\A k \in 1 .. Len(s) : (s \o c)[k] = s[k])
          /\ \A k \in 1 .. Len(c) : (s \o c)[Len(s) + k] = c[k]
      BY <2>2, <2>4, OctetsJoin
    <3> SUFFICES ASSUME NEW k \in 1 .. Len(s) + Len(c)
                 PROVE  (s \o c)[k] < Power[Octet]
      BY <3>1 DEF Small
    <3>2. CASE k <= Len(s)
      <4>1. k \in 1 .. Len(s)
        BY <3>1, <3>2
      <4> QED
        BY <2>5, <3>1, <4>1 DEF Small
    <3>3. CASE k > Len(s)
      <4>1. k - Len(s) \in 1 .. Len(c) /\ Len(s) + (k - Len(s)) = k
        BY <3>1, <3>3
      <4>2. (s \o c)[k] = c[k - Len(s)]
        BY <3>1, <4>1
      <4> QED
        BY <2>4, <4>1, <4>2 DEF Small
    <3>4. k <= Len(s) \/ k > Len(s)
      BY <3>1
    <3> QED
      BY <3>2, <3>3, <3>4
  <2> QED
    BY <2>1, <2>2, <2>6, <2>7, <2>8 DEF e
<1>7. n \in S
  <2>1. 0 .. n \subseteq S
    <3> HIDE DEF S
    <3> QED
      BY <1>3, <1>5, <1>6, UpTo
  <2> QED
    BY <1>3, <2>1
<1>8. done(n) = list
  BY <1>3
<1> QED
  BY <1>1, <1>3, <1>7, <1>8 DEF list

(* Octets in a message.                                                    *)

(* Each octet takes eight bits after the one before.                       *)
LEMMA PutOctetsFacts ==
  ASSUME NEW w \in Message, NEW octets \in Octets
  PROVE  \E x \in Message :
           /\ PutOctets(w, octets) = w \o x /\ Len(x) = Octet * Len(octets)
           /\ \A i1 \in 1 .. Len(octets) : \A j \in 1 .. Octet :
                x[Octet * (i1 - 1) + j] = Bits(octets[i1], Octet)[j]
<1> DEFINE n == Octet * Len(octets)
           x == [b \in 1 .. n |-> Bits(octets[((b - 1) \div Octet) + 1], Octet)[((b - 1) % Octet) + 1]]
<1>1. Octet \in Nat /\ Octet >= 1 /\ Len(octets) \in Nat /\ n \in Nat /\ \A j \in 1 .. Len(octets) : octets[j] \in Nat
  <2>1. Octet \in Nat /\ Octet >= 1 /\ Len(octets) \in Nat /\ \A j \in 1 .. Len(octets) : octets[j] \in Nat
    BY WidthAssumption, OctetsFacts
  <2>2. \A i1, j1 \in Nat : i1 * j1 \in Nat
    OBVIOUS
  <2> QED
    BY <2>1, <2>2
<1>2. \A j \in 1 .. Len(octets) : /\ Bits(octets[j], Octet) \in Message /\ Len(Bits(octets[j], Octet)) = Octet
                                  /\ \A k \in 1 .. Octet : Bits(octets[j], Octet)[k] \in {0, 1}
  <2> TAKE j \in 1 .. Len(octets)
  <2>1. octets[j] \in Int
    BY <1>1
  <2>2. Bits(octets[j], Octet) \in Message /\ Len(Bits(octets[j], Octet)) = Octet
    BY <2>1, LongFacts, BitsFacts
  <2> QED
    BY <2>2, MessageFacts
<1> DEFINE l == Len(octets)
<1> HIDE DEF n, l
<1>3. ASSUME NEW b \in 1 .. n
      PROVE  /\ ((b - 1) \div Octet) + 1 \in 1 .. l
             /\ ((b - 1) % Octet) + 1 \in 1 .. Octet
  <2> DEFINE c == b - 1
             q == c \div Octet
             r == c % Octet
  <2>1. c \in Int /\ c >= 0
    BY <1>1
  <2>2. q \in Nat /\ r \in Nat /\ r < Octet /\ c = Octet * q + r
    <3> HIDE DEF c
    <3> QED
      BY <1>1, <2>1, Quotient
  <2> HIDE DEF q, r
  <2>3. q < l
    <3>1. l \in Nat /\ n = Octet * l
      BY <1>1 DEF l, n
    <3>2. ASSUME q >= l
          PROVE  FALSE
      <4>1. \A i1, j1, k1 \in Nat : i1 >= j1 => k1 * i1 >= k1 * j1 /\ k1 * i1 \in Nat /\ k1 * j1 \in Nat
        OBVIOUS
      <4>2. Octet * q >= Octet * l /\ Octet * q \in Nat /\ Octet * l \in Nat
        BY <1>1, <2>2, <3>1, <3>2, <4>1
      <4> QED
        BY <1>1, <2>2, <3>1, <4>2
    <3> QED
      BY <2>2, <3>1, <3>2
  <2>4. q + 1 \in 1 .. l /\ r + 1 \in 1 .. Octet
    BY <1>1, <2>2, <2>3 DEF l
  <2> QED
    BY <2>4 DEF q, r
<1>4. x \in [1 .. n -> {0, 1}]
  BY <1>2, <1>3 DEF l
<1>5. x \in Message /\ Len(x) = n
  <2> HIDE DEF x
  <2> QED
    BY <1>1, <1>4, MessageIs
<1>6. PutOctets(w, octets) = w \o x
  BY DEF PutOctets, n
<1>7. ASSUME NEW i1 \in 1 .. Len(octets), NEW j \in 1 .. Octet
      PROVE  x[Octet * (i1 - 1) + j] = Bits(octets[i1], Octet)[j]
  <2> DEFINE q == i1 - 1
             r == j - 1
             b == Octet * q + j
  <2>1. q \in Nat /\ r \in Nat /\ r < Octet /\ q + 1 <= Len(octets) /\ j = r + 1 /\ i1 = q + 1 /\ q \in Int
    BY <1>1
  <2> HIDE DEF q, r
  <2>2. Octet * q \in Nat /\ Octet * q + Octet <= n
    <3>1. \A u1, v1, k1 \in Nat : u1 <= v1 => k1 * u1 <= k1 * v1 /\ k1 * u1 \in Nat /\ k1 * v1 \in Nat
      OBVIOUS
    <3>2. Octet * (q + 1) <= Octet * Len(octets)
      BY <1>1, <2>1, <3>1
    <3>3. Octet * (q + 1) = Octet * q + Octet /\ Octet * q \in Nat
      BY <1>1, <2>1, <3>1
    <3> QED
      BY <3>2, <3>3 DEF n
  <2>3. b \in 1 .. n /\ b - 1 = Octet * q + r
    BY <1>1, <2>1, <2>2
  <2>4. (b - 1) \div Octet = q /\ (b - 1) % Octet = r
    <3> DEFINE c == b - 1
    <3>1. c \in Int /\ c = Octet * q + r
      BY <2>3
    <3> HIDE DEF c
    <3>2. c \div Octet = q /\ c % Octet = r
      BY <1>1, <2>1, <3>1, QuotientIs
    <3> QED
      BY <3>2 DEF c
  <2> HIDE DEF b
  <2>5. x[b] = Bits(octets[i1], Octet)[j]
    BY <2>1, <2>3, <2>4
  <2> QED
    BY <2>5 DEF b, q
<1> HIDE DEF x
<1> QED
  BY <1>5, <1>6, <1>7 DEF n

(* Octets written are read where they were written.                        *)
LEMMA OctetsRead ==
  ASSUME NEW w \in Message, NEW octets \in Octets, Small(octets),
         NEW msg \in Message, Extends(PutOctets(w, octets), msg)
  PROVE  /\ PutOctets(w, octets) \in Message
         /\ Extends(w, PutOctets(w, octets)) /\ Extends(w, msg)
         /\ After(msg, Len(w), Octet * Len(octets)) = Len(PutOctets(w, octets))
         /\ \A i1 \in 1 .. Len(octets) :
              GetBits(msg, Len(w) + Octet * (i1 - 1), Octet).value = octets[i1]
<1>1. PICK x \in Message :
        /\ PutOctets(w, octets) = w \o x /\ Len(x) = Octet * Len(octets)
        /\ \A i1 \in 1 .. Len(octets) : \A j \in 1 .. Octet :
             x[Octet * (i1 - 1) + j] = Bits(octets[i1], Octet)[j]
  BY PutOctetsFacts
<1>2. /\ w \o x \in Message /\ Extends(w, w \o x) /\ Len(w \o x) = Len(w) + Len(x)
      /\ \A j \in 1 .. Len(x) : (w \o x)[Len(w) + j] = x[j]
  BY Longer
<1>3. Extends(w, msg) /\ After(msg, Len(w), Len(x)) = Len(w \o x)
  BY <1>1, PartTrip
<1>4. Len(w) \in Nat /\ Len(x) \in Nat /\ Len(msg) \in Nat /\ Len(octets) \in Nat /\ Octet \in Nat /\ Octet >= 1 /\ Octet \in Widths
  BY MessageFacts, OctetsFacts, LongFacts, WidthAssumption
<1>5. ASSUME NEW i1 \in 1 .. Len(octets)
      PROVE  GetBits(msg, Len(w) + Octet * (i1 - 1), Octet).value = octets[i1]
  <2> DEFINE q == i1 - 1
             m == Len(w) + Octet * q
             o == octets[i1]
             y == Bits(o, Octet)
             p == [j \in 1 .. m |-> msg[j]]
  <2>1. o \in Nat /\ o \in Int /\ o < Power[Octet] /\ 0 <= o
    BY OctetsFacts DEF Small
  <2>2. q \in Nat /\ q + 1 <= Len(octets)
    BY <1>4
  <2> HIDE DEF q, o
  <2>3. Octet * q \in Nat /\ Octet * q + Octet <= Len(x)
    <3>1. \A u1, v1, k1 \in Nat : u1 <= v1 => k1 * u1 <= k1 * v1 /\ k1 * u1 \in Nat /\ k1 * v1 \in Nat
      OBVIOUS
    <3>2. Octet * (q + 1) <= Octet * Len(octets)
      BY <1>4, <2>2, <3>1
    <3>3. Octet * (q + 1) = Octet * q + Octet /\ Octet * q \in Nat
      BY <1>4, <2>2, <3>1
    <3> QED
      BY <1>1, <3>2, <3>3
  <2>4. m \in Nat /\ m + Octet <= Len(msg)
    <3>1. Len(w) + Len(x) <= Len(msg)
      BY <1>1, <1>2 DEF Extends
    <3> QED
      BY <1>4, <2>3, <3>1
  <2>5. p \in Message /\ Len(p) = m
    <3>1. \A j \in 1 .. m : msg[j] \in {0, 1}
      BY <1>4, <2>4, MessageFacts
    <3> HIDE DEF m
    <3>2. p \in [1 .. m -> {0, 1}]
      BY <3>1
    <3> HIDE DEF p
    <3> QED
      BY <2>4, <3>2, MessageIs
  <2>6. \A j \in 1 .. m : p[j] = msg[j]
    OBVIOUS
  <2>7. y \in Message /\ Len(y) = Octet
    BY <1>4, <2>1, BitsFacts
  <2>8. \A j \in 1 .. Octet : msg[m + j] = y[j]
    <3> TAKE j \in 1 .. Octet
    <3>1. x[Octet * q + j] = y[j]
      BY <1>1 DEF q, o
    <3>2. Octet * q + j \in 1 .. Len(x) /\ Len(w) + (Octet * q + j) = m + j
      BY <1>4, <2>3
    <3>3. (w \o x)[m + j] = x[Octet * q + j]
      BY <1>2, <3>2
    <3>4. msg[m + j] = (w \o x)[m + j]
      <4>1. m + j \in 1 .. Len(w) + Len(x)
        BY <1>4, <2>3, <3>2
      <4> QED
        BY <1>1, <1>2, <4>1 DEF Extends
    <3> QED
      BY <3>1, <3>3, <3>4
  <2> HIDE DEF p, y, m
  <2>9. Extends(p \o y, msg)
    <3>1. /\ Len(p \o y) = m + Octet /\ Extends(p, p \o y)
          /\ \A j \in 1 .. Octet : (p \o y)[m + j] = y[j]
      <4>1. /\ Len(p \o y) = Len(p) + Len(y) /\ Extends(p, p \o y)
            /\ \A j \in 1 .. Len(y) : (p \o y)[Len(p) + j] = y[j]
        BY <2>5, <2>7, Longer
      <4> QED
        BY <2>5, <2>7, <4>1
    <3>2. ASSUME NEW j \in 1 .. m + Octet
          PROVE  msg[j] = (p \o y)[j]
      <4>1. CASE j <= m
        <5>1. j \in 1 .. m
          BY <2>4, <4>1
        <5> QED
          BY <2>5, <2>6, <3>1, <5>1 DEF Extends
      <4>2. CASE j > m
        <5>1. j - m \in 1 .. Octet /\ m + (j - m) = j
          BY <1>4, <2>4, <4>2
        <5>2. msg[m + (j - m)] = y[j - m] /\ (p \o y)[m + (j - m)] = y[j - m]
          BY <2>8, <3>1, <5>1
        <5> QED
          BY <5>1, <5>2
      <4>3. j <= m \/ j > m
        BY <1>4, <2>4
      <4> QED
        BY <4>1, <4>2, <4>3
    <3> QED
      BY <2>4, <3>1, <3>2 DEF Extends
  <2>10. GetBits(msg, Len(p), Octet) = Read(o % Power[Octet], Len(p \o y))
    BY <1>4, <2>1, <2>5, <2>9, BitsTrip DEF y
  <2>11. o % Power[Octet] = o
    BY <2>1, LongFacts, Quotient
  <2>12. GetBits(msg, m, Octet).value = o
    BY <2>5, <2>10, <2>11 DEF Read
  <2> QED
    BY <2>12 DEF m, q, o
<1> QED
  BY <1>1, <1>2, <1>3, <1>5

(* OBJECT IDENTIFIER.                                                      *)

(* Identifiers have at least two arcs.                                     *)
Identifier(arcs) == arcs \in Seq(Numbers64) /\ Len(arcs) >= 2

(* What an unsigned word holds, as a range.                                *)
LEMMA Numbers64Facts ==
  /\ Power[Octet * Word] \in Nat /\ Power[Octet * Word] > 120
  /\ Numbers64 \subseteq Nat /\ Numbers64 = 0 .. Power[Octet * Word] - 1
<1>1. Power[Octet * Word] > 120
  <2>1. 2 * Octet \in Widths /\ Octet * Word \in Widths /\ 2 * Octet < Octet * Word
    BY WordFacts, WidthAssumption, PowerNames
  <2>2. Power[2 * Octet] < Power[Octet * Word] /\ Power[2 * Octet] \in Nat /\ Power[Octet * Word] \in Nat
    BY <2>1, PowerGrows, PowerPositive
  <2>3. Power[Octet] >= 16 /\ Power[Octet] \in Nat /\ Power[2 * Octet] = Power[Octet] * Power[Octet]
    BY LongFacts, PowerNames
  <2>4. Power[Octet] * Power[Octet] >= 256
    <3>1. \A m \in Nat : m >= 16 => m * m >= 256
      OBVIOUS
    <3> QED
      BY <2>3, <3>1
  <2> QED
    BY <2>2, <2>3, <2>4
<1>2. Power[Octet * Word] \in Nat
  BY PowerNames, PowerPositive
<1> QED
  BY <1>1, <1>2 DEF Numbers64

(* The first two arcs are joined into one component, modulo the word.      *)
LEMMA ComponentsOfFacts ==
  ASSUME NEW arcs, Identifier(arcs)
  PROVE  /\ ComponentsOf(arcs) \in Seq(Numbers64) /\ Len(ComponentsOf(arcs)) = Len(arcs) - 1
         /\ ComponentsOf(arcs)[1] = (40 * arcs[1] + arcs[2]) % Power[Octet * Word]
         /\ \A j \in 2 .. Len(arcs) - 1 : ComponentsOf(arcs)[j] = arcs[j + 1]
         /\ Len(arcs) \in Nat /\ \A j \in 1 .. Len(arcs) : arcs[j] \in Numbers64
<1> DEFINE n == Len(arcs) - 1
           all == Power[Octet * Word]
<1>1. Len(arcs) \in Nat /\ \A j \in 1 .. Len(arcs) : arcs[j] \in Numbers64
  <2>1. arcs \in Seq(Numbers64)
    BY DEF Identifier
  <2> QED
    BY <2>1
<1>2. n \in Nat /\ n >= 1 /\ Len(arcs) >= 2
  BY <1>1 DEF Identifier
<1>3. (40 * arcs[1] + arcs[2]) % all \in Numbers64
  <2> DEFINE x == 40 * arcs[1] + arcs[2]
  <2>1. arcs[1] \in Nat /\ arcs[2] \in Nat
    BY <1>1, <1>2, Numbers64Facts
  <2>2. x \in Int
    BY <2>1
  <2>3. all \in Nat /\ all >= 1
    BY Numbers64Facts
  <2> HIDE DEF x, all
  <2>4. x % all \in Nat /\ x % all < all
    BY <2>2, <2>3, Quotient
  <2>5. x % all \in 0 .. all - 1
    BY <2>3, <2>4
  <2> QED
    BY <2>5, Numbers64Facts DEF x, all
<1>4. ComponentsOf(arcs) = [j \in 1 .. n |-> IF j = 1 THEN (40 * arcs[1] + arcs[2]) % all ELSE arcs[j + 1]]
  BY DEF ComponentsOf
<1> HIDE DEF all
<1>5. ComponentsOf(arcs) \in [1 .. n -> Numbers64]
  <2>1. \A j \in 1 .. n : j # 1 => arcs[j + 1] \in Numbers64
    BY <1>1
  <2> QED
    BY <1>3, <1>4, <2>1
<1>6. ComponentsOf(arcs) \in Seq(Numbers64) /\ Len(ComponentsOf(arcs)) = n
  <2> HIDE DEF n
  <2> QED
    BY <1>2, <1>5
<1>7. ComponentsOf(arcs)[1] = (40 * arcs[1] + arcs[2]) % all
  BY <1>2, <1>4
<1>8. \A j \in 2 .. n : ComponentsOf(arcs)[j] = arcs[j + 1]
  BY <1>4
<1> QED
  BY <1>1, <1>6, <1>7, <1>8 DEF all

(* An OBJECT IDENTIFIER is written after what is there.                    *)
LEMMA PutOidFacts ==
  ASSUME NEW w \in Message, NEW arcs, Identifier(arcs)
  PROVE  PutOid(w, arcs) \in Message /\ Extends(w, PutOid(w, arcs))
<1> DEFINE o == OidOctets(arcs)
           h == PutLength(w, Len(o))
<1>1. o \in Octets /\ Len(o) \in Nat
  BY ComponentsOfFacts, OidOctetsFacts, OctetsFacts
<1> HIDE DEF o
<1>2. h \in Message /\ Extends(w, h)
  BY <1>1, PutLengthFacts
<1> HIDE DEF h
<1>3. PICK x \in Message : PutOctets(h, o) = h \o x
  BY <1>1, <1>2, PutOctetsFacts
<1>4. h \o x \in Message /\ Extends(h, h \o x)
  BY <1>2, Longer
<1>5. Extends(w, h \o x)
  BY <1>2, <1>4, ExtendsOnward
<1> QED
  BY <1>3, <1>4, <1>5 DEF PutOid, h, o

(* The first two arcs of an identifier are apart again in its first        *)
(* component when they are within their limits.                            *)
LEMMA ArcsOf ==
  ASSUME NEW arcs, Identifier(arcs), NEW c, c = [done |-> ComponentsOf(arcs), rest |-> 0, open |-> FALSE]
  PROVE  /\ Arcs(c) \in Octets
         /\ arcs[1] < 2 /\ arcs[2] < 40 => Arcs(c) = arcs
<1> DEFINE list == ComponentsOf(arcs)
           all == Power[Octet * Word]
           two == <<list[1] \div 40, list[1] % 40>>
<1>1. /\ list \in Seq(Numbers64) /\ Len(list) = Len(arcs) - 1
      /\ list[1] = (40 * arcs[1] + arcs[2]) % all
      /\ \A j \in 2 .. Len(arcs) - 1 : list[j] = arcs[j + 1]
      /\ Len(arcs) \in Nat /\ \A j \in 1 .. Len(arcs) : arcs[j] \in Numbers64
  BY ComponentsOfFacts
<1>2. Len(arcs) >= 2 /\ arcs \in Octets
  <2>1. arcs \in Seq(Numbers64) /\ Len(arcs) >= 2
    BY DEF Identifier
  <2>2. Seq(Numbers64) \subseteq Seq(Nat)
    BY Numbers64Facts
  <2> QED
    BY <2>1, <2>2 DEF Octets
<1>3. c.done = list /\ c.open = FALSE
  OBVIOUS
<1> HIDE DEF list
<1>4. list \in Seq(Nat) /\ list # <<>> /\ 1 \in 1 .. Len(list) /\ list[1] \in Nat
  <2>1. Seq(Numbers64) \subseteq Seq(Nat)
    BY Numbers64Facts
  <2>2. list \in Seq(Nat)
    BY <1>1, <2>1
  <2> QED
    BY <1>1, <1>2, <2>2
<1>5. Arcs(c) = two \o Tail(list)
  BY <1>3, <1>4 DEF Arcs
<1>6. Tail(list) \in Seq(Nat) /\ Len(Tail(list)) = Len(list) - 1
      /\ \A j \in 1 .. Len(Tail(list)) : Tail(list)[j] = list[j + 1]
  BY <1>4, HeadTailProperties
<1> DEFINE tail == Tail(list)
<1> HIDE DEF tail
<1>7. list[1] \div 40 \in Nat /\ list[1] % 40 \in Nat
  <2>1. list[1] \in Int /\ list[1] >= 0 /\ 40 \in Nat /\ 40 >= 1
    BY <1>4
  <2> QED
    BY <2>1, Quotient
<1>8. two \in Octets /\ Len(two) = 2 /\ two[1] = list[1] \div 40 /\ two[2] = list[1] % 40
  BY <1>7 DEF Octets
<1> HIDE DEF two
<1>9. tail \in Octets
  BY <1>6 DEF tail, Octets
<1>10. /\ two \o tail \in Octets /\ Len(two \o tail) = 2 + Len(tail)
       /\ \A j \in 1 .. 2 : (two \o tail)[j] = two[j]
       /\ \A j \in 1 .. Len(tail) : (two \o tail)[2 + j] = tail[j]
  <2>1. two \in Octets
    BY <1>8
  <2>2. /\ two \o tail \in Octets /\ Len(two \o tail) = Len(two) + Len(tail)
        /\ \A j \in 1 .. Len(two) : (two \o tail)[j] = two[j]
        /\ \A j \in 1 .. Len(tail) : (two \o tail)[Len(two) + j] = tail[j]
    BY <1>9, <2>1, OctetsJoin
  <2> QED
    BY <1>8, <2>2
<1>11. ASSUME arcs[1] < 2, arcs[2] < 40
       PROVE  two \o tail = arcs
  <2>1. arcs[1] \in Nat /\ arcs[2] \in Nat
    BY <1>1, <1>2, Numbers64Facts
  <2>2. list[1] = 40 * arcs[1] + arcs[2]
    <3> DEFINE x == 40 * arcs[1] + arcs[2]
    <3>1. x \in Int /\ 0 <= x /\ x < all /\ all \in Nat /\ all >= 1
      BY <1>11, <2>1, Numbers64Facts
    <3> HIDE DEF x, all
    <3>2. x % all = x
      BY <3>1, Quotient
    <3> QED
      BY <1>1, <3>2 DEF x, all
  <2>3. list[1] \div 40 = arcs[1] /\ list[1] % 40 = arcs[2]
    <3>1. list[1] \in Int /\ 40 \in Nat /\ 40 >= 1 /\ arcs[1] \in Int
      BY <1>4, <2>1
    <3> QED
      BY <1>11, <2>1, <2>2, <3>1, QuotientIs
  <2>4. Len(two \o tail) = Len(arcs)
    BY <1>1, <1>6, <1>10 DEF tail
  <2>5. ASSUME NEW j \in 1 .. Len(arcs)
        PROVE  (two \o tail)[j] = arcs[j]
    <3>1. CASE j <= 2
      <4>1. j = 1 \/ j = 2
        BY <1>1, <3>1
      <4> QED
        BY <1>8, <1>10, <2>3, <4>1
    <3>2. CASE j > 2
      <4>1. j - 2 \in 1 .. Len(tail) /\ 2 + (j - 2) = j /\ (j - 2) + 1 = j - 1
        BY <1>1, <1>6, <3>2 DEF tail
      <4>2. (two \o tail)[j] = tail[j - 2]
        BY <1>10, <4>1
      <4>3. tail[j - 2] = list[j - 1]
        BY <1>6, <4>1 DEF tail
      <4>4. j - 1 \in 2 .. Len(arcs) - 1 /\ (j - 1) + 1 = j
        BY <1>1, <3>2
      <4>5. list[j - 1] = arcs[j]
        BY <1>1, <4>4
      <4> QED
        BY <4>2, <4>3, <4>5
    <3>3. j <= 2 \/ j > 2
      BY <1>1
    <3> QED
      BY <3>1, <3>2, <3>3
  <2> QED
    BY <1>2, <1>10, <2>4, <2>5, SameOctets
<1> QED
  BY <1>5, <1>10, <1>11 DEF tail

(* An OBJECT IDENTIFIER returns when its first arcs are below 2 and 40.    *)
LEMMA OidTrip ==
  ASSUME NEW w \in Message, NEW arcs, Identifier(arcs), Countable(Len(OidOctets(arcs))),
         NEW msg \in Message, Extends(PutOid(w, arcs), msg)
  PROVE  \E y \in Octets :
           /\ GetOid(msg, Len(w)) = Read(y, Len(PutOid(w, arcs)))
           /\ arcs[1] < 2 /\ arcs[2] < 40 => y = arcs
<1> DEFINE o == OidOctets(arcs)
           n == Len(o)
           h == PutLength(w, n)
           p == PutOctets(h, o)
           c == Components(o)
<1>1. o \in Octets /\ Small(o) /\ c = [done |-> ComponentsOf(arcs), rest |-> 0, open |-> FALSE]
  BY ComponentsOfFacts, OidOctetsFacts
<1>2. Arcs(c) \in Octets /\ (arcs[1] < 2 /\ arcs[2] < 40 => Arcs(c) = arcs)
  BY <1>1, ArcsOf
<1>3. n \in Nat /\ \A j \in 1 .. n : o[j] \in Nat
  BY <1>1, OctetsFacts
<1>4. PutOid(w, arcs) = p
  BY DEF PutOid
<1>5. Countable(n)
  OBVIOUS
<1> HIDE DEF o
<1> HIDE DEF n
<1>6. h \in Message /\ Extends(w, h)
  BY <1>3, PutLengthFacts
<1>7. Extends(p, msg)
  BY <1>4
<1> HIDE DEF h
<1>8. /\ Extends(h, msg)
      /\ After(msg, Len(h), Octet * n) = Len(p)
      /\ \A i1 \in 1 .. n : GetBits(msg, Len(h) + Octet * (i1 - 1), Octet).value = o[i1]
  BY <1>1, <1>6, <1>7, OctetsRead DEF n
<1>9. GetLength(msg, Len(w)) = Read(n, Len(h))
  BY <1>3, <1>5, <1>8, LengthTrip DEF h
<1>10. [i1 \in 1 .. n |-> GetBits(msg, Len(h) + Octet * (i1 - 1), Octet).value] = o
  <2>1. [i1 \in 1 .. n |-> GetBits(msg, Len(h) + Octet * (i1 - 1), Octet).value] = [i1 \in 1 .. n |-> o[i1]]
    BY <1>8
  <2>2. o = [i1 \in 1 .. n |-> o[i1]]
    BY <1>1 DEF Octets, n
  <2> QED
    BY <2>1, <2>2
<1>11. GetOid(msg, Len(w)) = Read(Arcs(c), Len(p))
  <2>1. GetOid(msg, Len(w)) =
          Read(Arcs(Components([i1 \in 1 .. n |-> GetBits(msg, Len(h) + Octet * (i1 - 1), Octet).value])),
               After(msg, Len(h), Octet * n))
    BY <1>9 DEF GetOid, Then, Read
  <2> QED
    BY <1>8, <1>10, <2>1
<1> QED
  BY <1>2, <1>4, <1>11

(* An OBJECT IDENTIFIER read ends in the message.                          *)
LEMMA GetOidFacts ==
  ASSUME NEW msg \in Message, NEW pos \in 0 .. Len(msg)
  PROVE  GetOid(msg, pos).at \in pos .. Len(msg)
<1> DEFINE n == GetLength(msg, pos).value
           next == GetLength(msg, pos).at
<1>1. n \in Nat /\ next \in pos .. Len(msg)
  BY GetLengthFacts
<1>2. GetOid(msg, pos).at = After(msg, next, Octet * n)
  BY DEF GetOid, Then, Read
<1> HIDE DEF n, next
<1>3. Octet * n \in Nat /\ next \in 0 .. Len(msg) /\ Len(msg) \in Nat
  <2>1. \A i1, j1 \in Nat : i1 * j1 \in Nat
    OBVIOUS
  <2> QED
    BY <1>1, <2>1, WidthAssumption, MessageFacts
<1> DEFINE m == Octet * n
<1> HIDE DEF m
<1>4. m \in Nat
  BY <1>3 DEF m
<1>5. After(msg, next, m) \in next .. Len(msg)
  BY <1>3, <1>4, AfterFacts
<1> QED
  BY <1>1, <1>2, <1>3, <1>5 DEF m

-----------------------------------------------------------------------------
(***************************************************************************)
(* ENUMERATED.                                                             *)
(***************************************************************************)

(* The codecs there are: C has no aligned variant.                         *)
IsCodec(c) == c.lang \in {"c", "cpp"} /\ c.aper \in BOOLEAN /\ (c.lang = "c" => ~ c.aper)

(* ENUMERATED types.                                                       *)
IsEnumeration(t) == t.kind = "enumerated" /\ ScalarType(t)

(* An ENUMERATED has at least one root value and less than a word of       *)
(* values.                                                                 *)
LEMMA EnumerationFacts ==
  ASSUME NEW t, IsEnumeration(t)
  PROVE  /\ IsFiniteSet(Roots(t)) /\ Cardinality(Roots(t)) = Len(t.numbers)
         /\ Roots(t) = 1 .. Len(t.numbers) /\ Len(t.numbers) \in Nat /\ Len(t.numbers) >= 1
         /\ t.more \in Nat /\ t.ext \in BOOLEAN
         /\ Len(t.numbers) + t.more <= MaxCount
         /\ MaxCount \in Nat /\ MaxCount < Power[4 * Octet - 1]
<1>1. /\ t.numbers \in Seq(Int) /\ t.numbers # <<>>
      /\ t.more \in Nat /\ Len(t.numbers) + t.more <= MaxCount
      /\ t.ext \in BOOLEAN
  BY DEF IsEnumeration, ScalarType
<1> DEFINE s == t.numbers
           m == t.more
<1> HIDE DEF s, m
<1>2. s \in Seq(Int) /\ s # <<>>
  BY <1>1 DEF s
<1>3. Len(s) \in Nat /\ DOMAIN s = 1 .. Len(s) /\ Len(s) >= 1
  BY <1>2
<1>4. IsFiniteSet(1 .. Len(s)) /\ Cardinality(1 .. Len(s)) = Len(s)
  <2> DEFINE l == Len(s)
  <2>1. l \in Nat /\ 1 \in Nat
    BY <1>3
  <2> HIDE DEF l
  <2>2. IsFiniteSet(1 .. l) /\ Cardinality(1 .. l) = l
    BY <2>1, FS_Interval
  <2> QED
    BY <2>2 DEF l
<1>5. MaxCount \in Nat /\ MaxCount < Power[4 * Octet - 1]
  <2>1. Power[4 * Octet - 1] \in Nat /\ Power[4 * Octet - 1] >= 1
    BY PowerNames, PowerPositive
  <2> QED
    BY <2>1 DEF MaxCount
<1> QED
  BY <1>1, <1>3, <1>4, <1>5 DEF s, Roots

(* The ranks of the root enumerators are 0 .. n - 1, one each.             *)
LEMMA RankFacts ==
  ASSUME NEW t, IsEnumeration(t)
  PROVE  /\ \A v \in Roots(t) :
              RankCpp(t, v) \in 0 .. Len(t.numbers) - 1 /\ OfRank(t, RankCpp(t, v)) = v
         /\ \A r \in 0 .. Len(t.numbers) - 1 : OfRank(t, r) \in Roots(t)
<1> DEFINE S == Roots(t)
           before == {p \in S \X S : t.numbers[p[1]] < t.numbers[p[2]]}
           n == Len(t.numbers)
<1>1. IsFiniteSet(S) /\ Cardinality(S) = n
  BY EnumerationFacts
<1>2. \A e \in S : t.numbers[e] \in Int
  <2>1. t.numbers \in Seq(Int)
    BY DEF IsEnumeration, ScalarType
  <2> DEFINE s == t.numbers
  <2> HIDE DEF s
  <2>2. s \in Seq(Int)
    BY <2>1 DEF s
  <2>3. \A e \in DOMAIN s : s[e] \in Int
    BY <2>2
  <2> QED
    BY <2>3 DEF s, Roots
<1>3. \A e, f \in S : t.numbers[e] = t.numbers[f] => e = f
  BY DEF IsEnumeration, ScalarType
<1>4. \A v \in S : RankCpp(t, v) = Cardinality(Earlier(S, before, v))
  <2> TAKE v \in S
  <2>1. {e \in S : t.numbers[e] < t.numbers[v]} = Earlier(S, before, v)
    BY DEF Earlier
  <2> QED
    BY <2>1 DEF RankCpp
<1>5. IsOrder(S, before)
  <2>1. \A x \in S : <<x, x>> \notin before
    BY <1>2
  <2>2. \A x, y, z \in S : <<x, y>> \in before /\ <<y, z>> \in before => <<x, z>> \in before
    BY <1>2
  <2>3. \A x, y \in S : x = y \/ <<x, y>> \in before \/ <<y, x>> \in before
    BY <1>2, <1>3
  <2> HIDE DEF before, S
  <2> QED
    BY <2>1, <2>2, <2>3 DEF IsOrder
<1> HIDE DEF S, before, n
<1>6. /\ \A x \in S : Cardinality(Earlier(S, before, x)) \in 0 .. Cardinality(S) - 1
      /\ \A x, y \in S :
           Cardinality(Earlier(S, before, x)) = Cardinality(Earlier(S, before, y)) => x = y
      /\ \A r \in 0 .. Cardinality(S) - 1 :
           \E x \in S : Cardinality(Earlier(S, before, x)) = r
  BY <1>1, <1>5, EarlierIsPlace
<1>7. \A v \in S : OfRank(t, RankCpp(t, v)) = v
  <2> TAKE v \in S
  <2>1. \A e \in S : RankCpp(t, e) = RankCpp(t, v) => e = v
    BY <1>4, <1>6
  <2>2. OfRank(t, RankCpp(t, v)) = CHOOSE e \in S : RankCpp(t, e) = RankCpp(t, v)
    BY DEF OfRank, S
  <2> QED
    BY <2>1, <2>2
<1>8. \A r \in 0 .. n - 1 : OfRank(t, r) \in S
  <2> TAKE r \in 0 .. n - 1
  <2>1. \E e \in S : RankCpp(t, e) = r
    BY <1>1, <1>4, <1>6
  <2> QED
    BY <2>1 DEF OfRank, S
<1>9. \A v \in S : RankCpp(t, v) \in 0 .. n - 1
  BY <1>1, <1>4, <1>6
<1> QED
  BY <1>7, <1>8, <1>9 DEF S, n

(* An index below its count is the same for both languages, and comes back.*)
LEMMA IndexTrip ==
  ASSUME NEW lang, NEW other, NEW w \in Message, NEW n \in Nat, n <= MaxCount,
         NEW v \in 0 .. n - 1,
         NEW msg \in Message, Extends(PutIndex(lang, w, v, n), msg)
  PROVE  GetIndex(other, msg, Len(w), n) = Read(v, Len(PutIndex(lang, w, v, n)))
<1> DEFINE hi == n - 1
           k == RangeBits(lang, 0, hi)
<1>1. MaxCount \in Nat
  BY PowerNames, PowerPositive DEF MaxCount
<1>2. 0 \in Int /\ hi \in Int /\ 0 <= hi /\ hi - 0 + 1 <= MaxCount /\ hi - 0 + 1 = n /\ v \in Int /\ v < n /\ 0 <= v
  BY <1>1
<1>3. PutIndex(lang, w, v, n) = PutConstrained(lang, w, v, 0, hi)
      /\ GetIndex(other, msg, Len(w), n) = GetConstrained(other, msg, Len(w), 0, hi)
  BY DEF PutIndex, GetIndex
<1> HIDE DEF hi
<1>4. k = RangeBits(other, 0, hi) /\ n <= Power[k] /\ k \in Widths
  BY <1>2, RangeBitsCover, RangeBitsFacts
<1>5. GetConstrained(other, msg, Len(w), 0, hi)
        = Read(0 + ((v - 0) % Power[k]), Len(PutConstrained(lang, w, v, 0, hi)))
  BY <1>2, <1>3, <1>4, ConstrainedTrip
<1> HIDE DEF k
<1>6. Power[k] \in Nat
  BY <1>4, PowerPositive
<1>7. 0 + ((v - 0) % Power[k]) = v
  <2>1. v % Power[k] = v
    <3> DEFINE m == Power[k]
    <3>1. m \in Nat /\ m >= 1 /\ v < m
      BY <1>2, <1>4, <1>6
    <3> HIDE DEF m
    <3>2. v % m = v
      BY <1>2, <3>1, Quotient
    <3> QED
      BY <3>2 DEF m
  <2>2. v - 0 = v /\ 0 + v = v
    BY <1>2
  <2> QED
    BY <2>1, <2>2
<1> QED
  BY <1>3, <1>5, <1>7

(* Indices are exact in aligned PER.                                       *)
LEMMA IndexAperExact ==
  ASSUME NEW n \in Nat, n <= MaxCount, NEW v \in 0 .. n - 1
  PROVE  AperExact(v, 0, n - 1) /\ 0 \in Int64 /\ n - 1 \in Int64 /\ 0 \in Int /\ n - 1 \in Int
<1> DEFINE hi == n - 1
           k == RangeBits("cpp", 0, hi)
           big == Power[Octet * Word - 1]
<1>1. MaxCount \in Nat /\ MaxCount < big /\ MaxCount < Power[4 * Octet] /\ big \in Nat /\ Power[4 * Octet] \in Nat /\ big >= 1
  <2>1. Power[4 * Octet - 1] \in Nat /\ Power[4 * Octet] \in Nat /\ Power[Octet * Word - 1] \in Nat /\ Power[4 * Octet - 1] >= 1
    BY PowerNames, PowerPositive
  <2>2. Power[4 * Octet - 1] <= Power[Octet * Word - 1] /\ Power[4 * Octet] = 2 * Power[4 * Octet - 1]
    BY PowerNames
  <2> QED
    BY <2>1, <2>2 DEF MaxCount
<1>2. 0 \in Int /\ hi \in Int /\ 0 <= hi /\ hi - 0 + 1 <= MaxCount /\ hi - 0 + 1 = n /\ v \in Int /\ v < n /\ 0 <= v /\ n >= 1
  BY <1>1
<1>3. 0 \in Int64 /\ hi \in Int64
  BY <1>1, <1>2 DEF Int64
<1> HIDE DEF hi
<1>4. Extent(0, hi) = n
  <2>1. hi - 0 + 1 < Power[Octet * Word - 1]
    BY <1>1, <1>2
  <2>2. Extent(0, hi) = hi - 0 + 1
    BY <1>2, <2>1, ExtentFacts
  <2> QED
    BY <1>2, <2>2
<1>5. n <= Power[k] /\ k \in Widths
  BY <1>2, RangeBitsCover, RangeBitsFacts
<1> HIDE DEF k
<1>6. Power[k] \in Nat
  BY <1>5, PowerPositive
<1>7. v - 0 < Power[k] /\ v - 0 < Power[4 * Octet]
  BY <1>1, <1>2, <1>5, <1>6
<1>8. AperExact(v, 0, hi)
  BY <1>2, <1>4, <1>7 DEF AperExact, k
<1> QED
  BY <1>2, <1>3, <1>8 DEF hi

(* An extension marker is one bit.                                         *)
LEMMA MarkedFacts ==
  ASSUME NEW w \in Message, NEW ext \in BOOLEAN
  PROVE  (IF ext THEN Append(w, 0) ELSE w) \in Message /\ Extends(w, IF ext THEN Append(w, 0) ELSE w)
BY Appended, ExtendsSelf

(* An ENUMERATED is written after what is there.                           *)
LEMMA PutEnumeratedFacts ==
  ASSUME NEW c, IsCodec(c), NEW w \in Message, NEW t, IsEnumeration(t),
         NEW v \in 1 .. Len(t.numbers) + t.more, Cpp(c) => v \in Roots(t)
  PROVE  PutEnumerated(c, w, t, v) \in Message /\ Extends(w, PutEnumerated(c, w, t, v))
<1> DEFINE n == Len(t.numbers)
           m == IF t.ext THEN Append(w, 0) ELSE w
           p == PutEnumerated(c, w, t, v)
           r == RankCpp(t, v)
<1>1. n \in Nat /\ Cardinality(Roots(t)) = n /\ t.more \in Nat /\ t.ext \in BOOLEAN
  BY EnumerationFacts
<1>2. m \in Message /\ Extends(w, m)
  BY <1>1, MarkedFacts
<1>3. ASSUME ~ Cpp(c)
      PROVE  p \in Message /\ Extends(w, p)
  <2> DEFINE hi == (n + t.more) - 1
             i1 == v - 1
             q == PutConstrained("c", m, i1, 0, hi)
  <2>1. p = q
    BY <1>1, <1>3 DEF PutEnumerated, PutIndex
  <2>2. i1 \in Int /\ hi \in Int /\ 0 \in Int
    BY <1>1
  <2> HIDE DEF i1, hi, m
  <2>3. q \in Message /\ Extends(m, q)
    BY <1>2, <2>2, PutConstrainedFacts
  <2> QED
    BY <1>2, <2>1, <2>3, ExtendsOnward
<1>4. ASSUME Cpp(c)
      PROVE  r \in 0 .. n - 1 /\ r \in Int /\ 0 \in Int /\ n - 1 \in Int
  BY <1>1, <1>4, RankFacts
<1>5. ASSUME Cpp(c), ~ c.aper
      PROVE  p \in Message /\ Extends(w, p)
  <2> DEFINE hi == n - 1
             q == PutConstrained("cpp", m, r, 0, hi)
  <2>1. p = q
    BY <1>1, <1>5 DEF PutEnumerated, PutIndex
  <2>2. r \in Int /\ hi \in Int /\ 0 \in Int
    BY <1>4, <1>5
  <2> HIDE DEF hi, r, m
  <2>3. q \in Message /\ Extends(m, q)
    BY <1>2, <2>2, PutConstrainedFacts
  <2> QED
    BY <1>2, <2>1, <2>3, ExtendsOnward
<1>6. ASSUME Cpp(c), c.aper
      PROVE  p \in Message /\ Extends(w, p)
  <2> DEFINE hi == n - 1
  <2>1. p = IF t.ext THEN PutAperExt(w, r, 0, hi) ELSE PutAper(w, r, 0, hi)
    BY <1>1, <1>6 DEF PutEnumerated
  <2>2. r \in 0 .. hi /\ hi \in Int /\ 0 \in Int
    BY <1>4, <1>6
  <2> HIDE DEF hi, r
  <2>3. PutAper(w, r, 0, hi) \in Message /\ Extends(w, PutAper(w, r, 0, hi))
    BY <2>2, PutAperFacts
  <2>4. PutAperExt(w, r, 0, hi) \in Message /\ Extends(w, PutAperExt(w, r, 0, hi))
    BY <2>2, PutAperExtFacts
  <2> QED
    BY <2>1, <2>3, <2>4
<1> QED
  BY <1>3, <1>5, <1>6 DEF IsCodec

(* What both ends must have in common for an ENUMERATED.                   *)
LEMMA EnumeratedTrip ==
  ASSUME NEW c, IsCodec(c), NEW d, IsCodec(d), c.aper = d.aper,
         NEW w \in Message, NEW t, IsEnumeration(t),
         NEW v \in 1 .. Len(t.numbers) + t.more, Cpp(c) => v \in Roots(t),
         c.lang # d.lang => t.more = 0,
         NEW msg \in Message, Extends(PutEnumerated(c, w, t, v), msg)
  PROVE  \E y \in Int :
           /\ GetEnumerated(d, t, msg, Len(w)) = Read(y, Len(PutEnumerated(c, w, t, v)))
           /\ (c.lang # d.lang => \A e \in Roots(t) : RankCpp(t, e) = e - 1) => y = v
<1> DEFINE n == Len(t.numbers)
           m == IF t.ext THEN Append(w, 0) ELSE w
           p == PutEnumerated(c, w, t, v)
           r == RankCpp(t, v)
           next == IF t.ext THEN After(msg, Len(w), 1) ELSE Len(w)
           beyond == t.ext /\ GetBits(msg, Len(w), 1).value = 1
           x == IF Cpp(c) THEN r ELSE v - 1
           k == IF Cpp(c) THEN n ELSE n + t.more
           Back(u) == IF ~ Cpp(d) THEN u + 1 ELSE OfRank(t, u)
<1>1. /\ n \in Nat /\ Cardinality(Roots(t)) = n /\ Roots(t) = 1 .. n
      /\ t.more \in Nat /\ t.ext \in BOOLEAN /\ n + t.more <= MaxCount /\ n >= 1
  BY EnumerationFacts
<1>2. m \in Message /\ Extends(w, m)
  BY <1>1, MarkedFacts
<1>3. k \in Nat /\ k <= MaxCount /\ x \in 0 .. k - 1
  <2>1. Cpp(c) => r \in 0 .. n - 1
    BY RankFacts
  <2>2. MaxCount \in Nat
    BY EnumerationFacts
  <2> QED
    BY <1>1, <2>1, <2>2
<1>4. k = IF Cpp(d) THEN n ELSE n + t.more
  BY <1>1 DEF IsCodec, Cpp
<1>5. /\ Cpp(d) => x \in 0 .. n - 1
      /\ Back(x) \in Int
      /\ (c.lang # d.lang => \A e \in Roots(t) : RankCpp(t, e) = e - 1) => Back(x) = v
  <2>1. (\A u \in Roots(t) : RankCpp(t, u) \in 0 .. n - 1 /\ OfRank(t, RankCpp(t, u)) = u)
        /\ \A u \in 0 .. n - 1 : OfRank(t, u) \in Roots(t)
    BY RankFacts
  <2>2. Cpp(d) => x \in 0 .. n - 1
    BY <1>3, <1>4
  <2>3. Back(x) \in Int
    BY <1>1, <1>3, <2>1, <2>2
  <2>4. ASSUME c.lang # d.lang => \A e \in Roots(t) : RankCpp(t, e) = e - 1
        PROVE  Back(x) = v
    <3>1. CASE Cpp(c) /\ Cpp(d)
      BY <2>1, <3>1
    <3>2. CASE ~ Cpp(c) /\ ~ Cpp(d)
      BY <3>2
    <3>3. CASE Cpp(c) /\ ~ Cpp(d)
      <4>1. r = v - 1
        BY <2>4, <3>3 DEF Cpp
      <4> QED
        BY <3>3, <4>1
    <3>4. CASE ~ Cpp(c) /\ Cpp(d)
      <4>1. v \in Roots(t)
        BY <1>1, <3>4 DEF Cpp
      <4>2. r = v - 1
        BY <2>4, <3>4, <4>1 DEF Cpp
      <4> QED
        BY <2>1, <3>4, <4>1, <4>2
    <3> QED
      BY <3>1, <3>2, <3>3, <3>4
  <2> QED
    BY <2>2, <2>3, <2>4
<1>6. ASSUME Extends(m, msg)
      PROVE  next = Len(m) /\ beyond = FALSE
  <2>1. CASE t.ext
    <3>1. m = Append(w, 0) /\ 0 \in {0, 1}
      BY <2>1
    <3>2. Extends(Append(w, 0), msg)
      BY <1>6, <3>1
    <3>3. /\ GetBits(msg, Len(w), 1) = Read(0, Len(w) + 1)
          /\ After(msg, Len(w), 1) = Len(w) + 1 /\ Len(Append(w, 0)) = Len(w) + 1
      BY <3>1, <3>2, FlagTrip
    <3> QED
      BY <2>1, <3>1, <3>3 DEF Read
  <2>2. CASE ~ t.ext
    BY <2>2
  <2> QED
    BY <2>1, <2>2
<1>7. ASSUME ~ c.aper
      PROVE  GetEnumerated(d, t, msg, Len(w)) = Read(Back(x), Len(p))
  <2> DEFINE lang == IF Cpp(c) THEN "cpp" ELSE "c"
             other == IF Cpp(d) THEN "cpp" ELSE "c"
             q == PutIndex(lang, m, x, k)
  <2>1. p = q
    BY <1>1, <1>7 DEF PutEnumerated
  <2> HIDE DEF lang, other, x, k, m
  <2>2. q \in Message /\ Extends(m, q)
    <3>1. x \in Int /\ 0 \in Int /\ k - 1 \in Int
      BY <1>3
    <3>2. q = PutConstrained(lang, m, x, 0, k - 1)
      BY DEF PutIndex
    <3> DEFINE hi == k - 1
    <3>3. hi \in Int
      BY <3>1
    <3> HIDE DEF hi
    <3>4. PutConstrained(lang, m, x, 0, hi) \in Message /\ Extends(m, PutConstrained(lang, m, x, 0, hi))
      BY <1>2, <3>1, <3>3, PutConstrainedFacts
    <3> QED
      BY <3>2, <3>4 DEF hi
  <2>3. Extends(q, msg)
    BY <2>1
  <2>4. Extends(m, msg)
    BY <1>2, <2>2, <2>3, ExtendsOnward
  <2>5. next = Len(m) /\ beyond = FALSE
    BY <1>6, <2>4
  <2>6. GetIndex(other, msg, Len(m), k) = Read(x, Len(q))
    BY <1>2, <1>3, <2>3, IndexTrip
  <2> HIDE DEF q, next, beyond
  <2>7. CASE ~ Cpp(d)
    <3>1. k = n + t.more /\ other = "c"
      BY <1>4, <2>7 DEF other
    <3>2. GetEnumerated(d, t, msg, Len(w)) = Then(GetIndex("c", msg, next, n + t.more), LAMBDA u, end : Read(u + 1, end))
      BY <1>1, <2>5, <2>7 DEF GetEnumerated, next, beyond
    <3> QED
      BY <2>1, <2>5, <2>6, <2>7, <3>1, <3>2 DEF Then, Read
  <2>8. CASE Cpp(d)
    <3>1. k = n /\ other = "cpp"
      BY <1>4, <2>8 DEF other
    <3>2. x \in 0 .. n - 1 /\ ~ d.aper
      BY <1>5, <1>7, <2>8
    <3>3. GetEnumerated(d, t, msg, Len(w)) =
            Then(GetIndex("cpp", msg, next, n),
                 LAMBDA u, end : Read(IF beyond \/ u >= n THEN Bad ELSE OfRank(t, u), end))
      BY <1>1, <2>8, <3>2 DEF GetEnumerated, next, beyond
    <3>4. ~ (x >= n)
      BY <1>1, <3>2
    <3> QED
      BY <2>1, <2>5, <2>6, <2>8, <3>1, <3>3, <3>4 DEF Then, Read
  <2> QED
    BY <2>7, <2>8
<1>8. ASSUME c.aper
      PROVE  GetEnumerated(d, t, msg, Len(w)) = Read(Back(x), Len(p))
  <2> DEFINE hi == n - 1
  <2>1. Cpp(c) /\ Cpp(d) /\ d.aper
    BY <1>8 DEF IsCodec, Cpp
  <2>2. p = IF t.ext THEN PutAperExt(w, r, 0, hi) ELSE PutAper(w, r, 0, hi)
    BY <1>1, <1>8, <2>1 DEF PutEnumerated
  <2>3. r \in 0 .. hi /\ r \in Int /\ n <= MaxCount /\ x = r
    BY <1>1, <1>3, <2>1
  <2> HIDE DEF x
  <2>4. AperExact(r, 0, hi) /\ 0 \in Int64 /\ hi \in Int64 /\ 0 \in Int /\ hi \in Int
    BY <1>1, <2>3, IndexAperExact
  <2> HIDE DEF hi, r
  <2>5. GetEnumerated(d, t, msg, Len(w)) =
          Then(IF t.ext THEN GetAperExt(msg, Len(w), 0, hi) ELSE GetAper(msg, Len(w), 0, hi),
               LAMBDA u, end : Read(IF beyond \/ u >= n THEN Bad ELSE OfRank(t, u), end))
    BY <1>1, <2>1 DEF GetEnumerated, hi
  <2>6. (IF t.ext THEN GetAperExt(msg, Len(w), 0, hi) ELSE GetAper(msg, Len(w), 0, hi)) = Read(r, Len(p))
        /\ beyond = FALSE
    <3>1. CASE t.ext
      <4>1. Extends(PutAperExt(w, r, 0, hi), msg)
        BY <2>2, <3>1
      <4>2. /\ GetBits(msg, Len(w), 1).value = 0
            /\ \E y \in 0 .. r :
                 /\ GetAperExt(msg, Len(w), 0, hi) = Read(y, Len(PutAperExt(w, r, 0, hi)))
                 /\ AperExact(r, 0, hi) => y = r
        BY <2>3, <2>4, <4>1, AperExtTrip
      <4>3. GetAperExt(msg, Len(w), 0, hi) = Read(r, Len(PutAperExt(w, r, 0, hi)))
        BY <2>4, <4>2
      <4> HIDE DEF p
      <4> QED
        BY <2>2, <3>1, <4>2, <4>3
    <3>2. CASE ~ t.ext
      <4>1. Extends(PutAper(w, r, 0, hi), msg)
        BY <2>2, <3>2
      <4>2. \E y \in 0 .. r :
              /\ GetAper(msg, Len(w), 0, hi) = Read(y, Len(PutAper(w, r, 0, hi)))
              /\ AperExact(r, 0, hi) => y = r
        BY <2>3, <2>4, <4>1, AperTrip
      <4>3. GetAper(msg, Len(w), 0, hi) = Read(r, Len(PutAper(w, r, 0, hi)))
        BY <2>4, <4>2
      <4> HIDE DEF p
      <4> QED
        BY <2>2, <3>2, <4>3
    <3> QED
      BY <3>1, <3>2
  <2>7. ~ (r >= n)
    BY <1>1, <2>3 DEF hi
  <2> HIDE DEF p, beyond
  <2> QED
    BY <2>1, <2>3, <2>5, <2>6, <2>7 DEF Then, Read
<1>9. GetEnumerated(d, t, msg, Len(w)) = Read(Back(x), Len(p))
  BY <1>7, <1>8
<1> HIDE DEF x, p
<1> QED
  BY <1>5, <1>9 DEF p

(* The C++ decoder reads a root value or fails.                            *)
LEMMA GetEnumeratedFacts ==
  ASSUME NEW d, IsCodec(d), NEW t, IsEnumeration(t),
         NEW msg \in Message, Len(msg) % Octet = 0, NEW pos \in 0 .. Len(msg)
  PROVE  /\ GetEnumerated(d, t, msg, pos).at \in pos .. Len(msg)
         /\ Cpp(d) => GetEnumerated(d, t, msg, pos).value \in Roots(t) \cup {Bad}
<1> DEFINE n == Len(t.numbers)
           next == IF t.ext THEN After(msg, pos, 1) ELSE pos
           beyond == t.ext /\ GetBits(msg, pos, 1).value = 1
           x == IF ~ d.aper THEN GetIndex("cpp", msg, next, n)
                ELSE IF t.ext THEN GetAperExt(msg, pos, 0, n - 1)
                ELSE GetAper(msg, pos, 0, n - 1)
           y == GetIndex("c", msg, next, n + t.more)
<1>1. n \in Nat /\ Cardinality(Roots(t)) = n /\ t.more \in Nat /\ t.ext \in BOOLEAN
  BY EnumerationFacts
<1>2. next \in pos .. Len(msg) /\ next \in 0 .. Len(msg) /\ Len(msg) \in Nat /\ pos \in Nat
  BY AfterFacts, MessageFacts
<1> HIDE DEF next
<1>3. ASSUME ~ Cpp(d)
      PROVE  GetEnumerated(d, t, msg, pos).at \in pos .. Len(msg)
  <2> DEFINE hi == (n + t.more) - 1
  <2>1. hi \in Int /\ 0 \in Int
    BY <1>1
  <2>2. y = GetConstrained("c", msg, next, 0, hi)
    BY DEF GetIndex
  <2> HIDE DEF hi, y
  <2>3. y.at \in next .. Len(msg)
    BY <1>2, <2>1, <2>2, GetConstrainedFacts
  <2>4. GetEnumerated(d, t, msg, pos) = IF beyond THEN Read(0, next) ELSE Read(y.value + 1, y.at)
    BY <1>1, <1>3 DEF GetEnumerated, Then, next, y
  <2>5. GetEnumerated(d, t, msg, pos).at = IF beyond THEN next ELSE y.at
    BY <2>4 DEF Read
  <2> QED
    BY <1>2, <2>3, <2>5
<1>4. ASSUME Cpp(d)
      PROVE  /\ GetEnumerated(d, t, msg, pos).at \in pos .. Len(msg)
             /\ GetEnumerated(d, t, msg, pos).value \in Roots(t) \cup {Bad}
  <2> DEFINE hi == n - 1
  <2>1. hi \in Int /\ 0 \in Int
    BY <1>1
  <2>2. x = IF ~ d.aper THEN GetConstrained("cpp", msg, next, 0, hi)
            ELSE IF t.ext THEN GetAperExt(msg, pos, 0, hi)
            ELSE GetAper(msg, pos, 0, hi)
    BY DEF GetIndex
  <2> HIDE DEF hi, x
  <2>3. /\ GetConstrained("cpp", msg, next, 0, hi).value \in Int
        /\ GetConstrained("cpp", msg, next, 0, hi).value >= 0
        /\ GetConstrained("cpp", msg, next, 0, hi).at \in next .. Len(msg)
    BY <1>2, <2>1, GetConstrainedFacts
  <2>4. /\ GetAperExt(msg, pos, 0, hi).value \in Int
        /\ GetAperExt(msg, pos, 0, hi).value >= 0
        /\ GetAperExt(msg, pos, 0, hi).at \in pos .. Len(msg)
    BY <2>1, GetAperExtFacts
  <2>5. /\ GetAper(msg, pos, 0, hi).value \in Int
        /\ GetAper(msg, pos, 0, hi).value >= 0
        /\ GetAper(msg, pos, 0, hi).at \in pos .. Len(msg)
    BY <2>1, GetAperFacts
  <2>6. x.value \in Int /\ x.value >= 0 /\ x.at \in pos .. Len(msg)
    BY <1>2, <2>2, <2>3, <2>4, <2>5
  <2>7. GetEnumerated(d, t, msg, pos) =
          Read(IF beyond \/ x.value >= n THEN Bad ELSE OfRank(t, x.value), x.at)
    BY <1>1, <1>4 DEF GetEnumerated, Then, next, x
  <2>8. ~ (x.value >= n) => OfRank(t, x.value) \in Roots(t)
    <3>1. ~ (x.value >= n) => x.value \in 0 .. n - 1
      BY <1>1, <2>6
    <3> QED
      BY <3>1, RankFacts
  <2> HIDE DEF beyond
  <2> QED
    BY <2>6, <2>7, <2>8 DEF Read
<1> QED
  BY <1>3, <1>4

-----------------------------------------------------------------------------
(***************************************************************************)
(* Scalars.                                                                *)
(***************************************************************************)

(* A scalar that the encoder takes.                                        *)
ScalarGiven(c, t, v) ==
  ScalarType(t) /\ ScalarValue(t, v) /\ ScalarAccepted(c, t, v)

(* An INTEGER is written after what is there.                              *)
LEMMA PutIntegerFacts ==
  ASSUME NEW c, NEW w \in Message, NEW t, t.lo \in Int, t.hi \in Int, NEW v \in t.lo .. t.hi
  PROVE  PutInteger(c, w, t, v) \in Message /\ Extends(w, PutInteger(c, w, t, v))
<1> DEFINE lo == t.lo
           hi == t.hi
<1>1. lo \in Int /\ hi \in Int /\ v \in lo .. hi /\ v \in Int
  OBVIOUS
<1>2. PutInteger(c, w, t, v) =
        IF ~ c.aper THEN PutConstrained(c.lang, w, v, lo, hi)
        ELSE IF t.ext THEN PutAperExt(w, v, lo, hi) ELSE PutAper(w, v, lo, hi)
  BY DEF PutInteger
<1> HIDE DEF lo, hi
<1>3. PutConstrained(c.lang, w, v, lo, hi) \in Message /\ Extends(w, PutConstrained(c.lang, w, v, lo, hi))
  BY <1>1, PutConstrainedFacts
<1>4. PutAperExt(w, v, lo, hi) \in Message /\ Extends(w, PutAperExt(w, v, lo, hi))
  BY <1>1, PutAperExtFacts
<1>5. PutAper(w, v, lo, hi) \in Message /\ Extends(w, PutAper(w, v, lo, hi))
  BY <1>1, PutAperFacts
<1> QED
  BY <1>2, <1>3, <1>4, <1>5

(* Every scalar is written after what is there.                            *)
LEMMA PutScalarFacts ==
  ASSUME NEW c, IsCodec(c), NEW w \in Message, NEW t, NEW v, ScalarGiven(c, t, v)
  PROVE  PutScalar(c, w, t, v) \in Message /\ Extends(w, PutScalar(c, w, t, v))
<1> DEFINE p == PutScalar(c, w, t, v)
<1>1. ScalarType(t) /\ ScalarValue(t, v) /\ ScalarAccepted(c, t, v)
  BY DEF ScalarGiven
<1>2. CASE Unwritten(c, t)
  BY <1>2, ExtendsSelf DEF PutScalar
<1>3. CASE ~ Unwritten(c, t) /\ t.kind = "integer"
  <2>1. t.lo \in Int /\ t.hi \in Int /\ v \in t.lo .. t.hi
    BY <1>1, <1>3 DEF ScalarType, ScalarAccepted, ScalarFits, Int64
  <2>2. p = PutInteger(c, w, t, v)
    BY <1>3 DEF PutScalar
  <2> QED
    BY <2>1, <2>2, PutIntegerFacts
<1>4. CASE ~ Unwritten(c, t) /\ t.kind = "unbounded"
  <2>1. v \in Int64
    BY <1>1, <1>4 DEF ScalarValue
  <2>2. p = PutUnbounded(c, w, v)
    BY <1>4 DEF PutScalar
  <2> QED
    BY <2>1, <2>2, PutUnconstrainedFacts, PutAperUnconstrainedFacts DEF PutUnbounded
<1>5. CASE ~ Unwritten(c, t) /\ t.kind = "boolean"
  <2>1. v \in {0, 1}
    BY <1>1, <1>5 DEF ScalarValue
  <2>2. p = Append(w, v)
    BY <1>5 DEF PutScalar
  <2> QED
    BY <2>1, <2>2, Appended
<1>6. CASE ~ Unwritten(c, t) /\ t.kind = "enumerated"
  <2>1. /\ IsEnumeration(t) /\ v \in 1 .. Len(t.numbers) + t.more
        /\ Cpp(c) => v \in Roots(t)
    BY <1>1, <1>6 DEF ScalarValue, ScalarAccepted, ScalarFits, IsEnumeration
  <2>2. p = PutEnumerated(c, w, t, v)
    BY <1>6 DEF PutScalar
  <2> QED
    BY <2>1, <2>2, PutEnumeratedFacts
<1>7. CASE ~ Unwritten(c, t) /\ t.kind = "oid"
  <2>2. Identifier(v)
    BY <1>1, <1>7 DEF ScalarValue, ScalarAccepted, Identifier, Numbers64
  <2>3. p = PutOid(w, v)
    BY <1>7 DEF PutScalar
  <2> QED
    BY <2>2, <2>3, PutOidFacts
<1>8. CASE ~ Unwritten(c, t) /\ t.kind = "real"
  <2>1. v \in Int
    BY <1>1, <1>8, Numbers64Facts DEF ScalarValue
  <2>2. p = PutReal(w, v)
    BY <1>8 DEF PutScalar
  <2> QED
    BY <2>1, <2>2, PutRealFacts
<1>9. CASE ~ Unwritten(c, t) /\ t.kind = "any"
  <2>1. v \in Message
    BY <1>1, <1>9 DEF ScalarValue, Message
  <2>2. p = PutOpen(w, v)
    BY <1>9 DEF PutScalar
  <2> QED
    BY <2>1, <2>2, PutOpenFacts
<1>10. t.kind = "null" => Unwritten(c, t)
  BY DEF Unwritten
<1> QED
  BY <1>1, <1>2, <1>3, <1>4, <1>5, <1>6, <1>7, <1>8, <1>9, <1>10 DEF ScalarType

(* Both ends.                                                              *)

(* Two ends of the same encoding rules.                                    *)
Ends == IsCodec(from) /\ IsCodec(to) /\ from.aper = to.aper

(* An INTEGER is read where it was written; the same, when its range is    *)
(* faithful.                                                               *)
LEMMA IntegerTrip ==
  ASSUME Ends, NEW w \in Message, NEW t, t.lo \in Int64, t.hi \in Int64, t.ext \in BOOLEAN,
         NEW v \in t.lo .. t.hi, SameWidth(t.lo, t.hi),
         NEW msg \in Message, Extends(PutInteger(from, w, t, v), msg)
  PROVE  \E y \in Int :
           /\ GetInteger(to, t, msg, Len(w)) = Read(y, Len(PutInteger(from, w, t, v)))
           /\ /\ Extent(t.lo, t.hi) > 0
              /\ IF from.aper /\ Extent(t.lo, t.hi) > Power[2 * Octet]
                 THEN v - t.lo < Power[4 * Octet] ELSE InWidth(v, t.lo, t.hi)
              => y = v
<1> DEFINE lo == t.lo
           hi == t.hi
           p == PutInteger(from, w, t, v)
           exact == /\ Extent(lo, hi) > 0
                    /\ IF from.aper /\ Extent(lo, hi) > Power[2 * Octet]
                       THEN v - lo < Power[4 * Octet] ELSE InWidth(v, lo, hi)
           x == IF ~ to.aper THEN GetConstrained(to.lang, msg, Len(w), lo, hi)
                ELSE IF t.ext THEN GetAperExt(msg, Len(w), lo, hi)
                ELSE GetAper(msg, Len(w), lo, hi)
<1>1. lo \in Int64 /\ hi \in Int64 /\ lo \in Int /\ hi \in Int /\ v \in lo .. hi /\ v \in Int /\ lo <= v
  <2>1. t.lo \in Int /\ t.hi \in Int
    BY DEF Int64
  <2> QED
    BY <2>1
<1>2. p = IF ~ from.aper THEN PutConstrained(from.lang, w, v, lo, hi)
          ELSE IF t.ext THEN PutAperExt(w, v, lo, hi) ELSE PutAper(w, v, lo, hi)
  BY DEF PutInteger
<1>3. GetInteger(to, t, msg, Len(w)) = Then(x, LAMBDA u, end : Read(IF u \in lo .. hi THEN u ELSE Bad, end))
  BY DEF GetInteger
<1>4. SameWidth(lo, hi) /\ Extends(p, msg)
  OBVIOUS
<1>5. SUFFICES \E y \in lo .. v : x = Read(y, Len(p)) /\ (exact => y = v)
  <2>1. PICK y \in lo .. v : x = Read(y, Len(p)) /\ (exact => y = v)
    BY <1>5
  <2> HIDE DEF x, p, exact, lo, hi
  <2>2. y \in lo .. hi /\ y \in Int
    BY <1>1
  <2>3. GetInteger(to, t, msg, Len(w)) = Read(y, Len(p))
    BY <1>3, <2>1, <2>2 DEF Then, Read
  <2>4. y \in Int /\ GetInteger(to, t, msg, Len(w)) = Read(y, Len(p)) /\ (exact => y = v)
    BY <2>1, <2>2, <2>3
  <2> QED
    BY <2>4 DEF p, exact, lo, hi
<1> HIDE DEF lo, hi, p
<1>6. CASE ~ from.aper
  <2> DEFINE k == RangeBits(from.lang, lo, hi)
             q == PutConstrained(from.lang, w, v, lo, hi)
             y == lo + ((v - lo) % Power[k])
  <2>1. RangeBits(to.lang, lo, hi) = k
    BY <1>4 DEF SameWidth, Ends, IsCodec
  <2>2. p = q /\ x = GetConstrained(to.lang, msg, Len(w), lo, hi)
    BY <1>2, <1>6 DEF Ends
  <2>3. x = Read(y, Len(q))
    BY <1>1, <1>4, <2>1, <2>2, ConstrainedTrip
  <2>4. k \in Widths
    BY <1>1, RangeBitsFacts
  <2> HIDE DEF k, q, x
  <2>5. y \in lo .. v /\ (v - lo < Power[k] => y = v)
    BY <1>1, <2>4, Wrapped
  <2>6. exact => v - lo < Power[k]
    BY <1>6 DEF InWidth, k
  <2> HIDE DEF y, exact
  <2> QED
    BY <2>2, <2>3, <2>5, <2>6
<1>7. CASE from.aper
  <2>1. to.aper /\ from.lang = "cpp"
    BY <1>7 DEF Ends, IsCodec
  <2>2. exact => AperExact(v, lo, hi)
    BY <1>7, <2>1 DEF AperExact, InWidth
  <2> HIDE DEF exact
  <2>3. CASE t.ext
    <3>1. p = PutAperExt(w, v, lo, hi) /\ x = GetAperExt(msg, Len(w), lo, hi)
      BY <1>2, <1>7, <2>1, <2>3
    <3> HIDE DEF x
    <3>2. \E y \in lo .. v :
            /\ GetAperExt(msg, Len(w), lo, hi) = Read(y, Len(PutAperExt(w, v, lo, hi)))
            /\ AperExact(v, lo, hi) => y = v
      BY <1>1, <1>4, <3>1, AperExtTrip
    <3> QED
      BY <2>2, <3>1, <3>2
  <2>4. CASE ~ t.ext
    <3>1. p = PutAper(w, v, lo, hi) /\ x = GetAper(msg, Len(w), lo, hi)
      BY <1>2, <1>7, <2>1, <2>4
    <3> HIDE DEF x
    <3>2. \E y \in lo .. v :
            /\ GetAper(msg, Len(w), lo, hi) = Read(y, Len(PutAper(w, v, lo, hi)))
            /\ AperExact(v, lo, hi) => y = v
      BY <1>1, <1>4, <3>1, AperTrip
    <3> QED
      BY <2>2, <3>1, <3>2
  <2> QED
    BY <2>3, <2>4
<1> QED
  BY <1>6, <1>7

(* Numbers, strings and identifiers are scalars.                           *)
LEMMA SequencesAreScalars == Seq(Nat) \subseteq Scalars /\ Message \subseteq Scalars /\ Int \subseteq Scalars
<1>1. Seq({0, 1}) \subseteq Seq(Nat)
  <2>1. {0, 1} \subseteq Nat
    OBVIOUS
  <2> QED
    BY <2>1
<1> QED
  BY <1>1 DEF Scalars, Message

(* What is there when no scalar or list is read.                           *)
LEMMA UnreadPlain ==
  ASSUME NEW c, NEW t, PlainType(t)
  PROVE  NewPlain(t) \in Scalars /\ Unread(c, t) \in Scalars
<1>1. t.kind = "enumerated" => t.numbers \in Seq(Int)
  BY DEF PlainType, ScalarType, Lists
<1>2. ASSUME t.kind = "enumerated", 0 \in ToSet(t.numbers)
      PROVE  (CHOOSE e \in DOMAIN t.numbers : t.numbers[e] = 0) \in Int
  <2>1. \E e \in DOMAIN t.numbers : t.numbers[e] = 0
    BY <1>2 DEF ToSet
  <2>2. DOMAIN t.numbers \subseteq Int
    BY <1>1, <1>2
  <2> QED
    BY <2>1, <2>2
<1>3. <<>> \in Seq(Nat)
  OBVIOUS
<1>4. NewPlain(t) \in Scalars
  BY <1>2, <1>3 DEF NewPlain, Scalars
<1> QED
  BY <1>4 DEF Unread, New, Scalars, PlainType, ScalarType, Lists

(* What the two ends have in common is enough for the decoder to stop      *)
(* where the encoder did; a faithful scalar comes out as it went in.       *)
LEMMA ScalarTrip ==
  ASSUME Ends, NEW w \in Message, NEW t, NEW v, ScalarGiven(from, t, v), FramedScalar(t, v),
         NEW msg \in Message, Extends(PutScalar(from, w, t, v), msg)
  PROVE  \E y \in Scalars :
           /\ GetScalar(to, t, msg, Len(w)) = Read(y, Len(PutScalar(from, w, t, v)))
           /\ FaithfulScalar(t, v) => y = v
<1> DEFINE p == PutScalar(from, w, t, v)
           g == GetScalar(to, t, msg, Len(w))
           done == \E y \in Scalars : g = Read(y, Len(p)) /\ (FaithfulScalar(t, v) => y = v)
<1>1. ScalarType(t) /\ ScalarValue(t, v) /\ ScalarAccepted(from, t, v)
  BY DEF ScalarGiven
<1>2. Unwritten(from, t) <=> Unwritten(to, t)
  BY DEF FramedScalar, Silent, Spoken
<1>3. CASE Unwritten(from, t)
  <2>1. p = w /\ g = Read(Unread(to, t), Len(w))
    BY <1>2, <1>3 DEF PutScalar, GetScalar
  <2>2. Unread(to, t) \in Scalars
    BY <1>1, UnreadPlain DEF ScalarType, PlainType, Lists
  <2>3. FaithfulScalar(t, v) => Unread(to, t) = v
    BY <1>1, <1>3 DEF FaithfulScalar, Unread, New, NewPlain, ScalarValue
  <2> QED
    BY <2>1, <2>2, <2>3
<1>4. CASE ~ Unwritten(from, t) /\ t.kind = "integer"
  <2>1. /\ t.lo \in Int64 /\ t.hi \in Int64 /\ t.ext \in BOOLEAN
        /\ v \in t.lo .. t.hi /\ SameWidth(t.lo, t.hi)
    BY <1>1, <1>4 DEF ScalarType, ScalarAccepted, ScalarFits, FramedScalar, Silent
  <2>2. p = PutInteger(from, w, t, v) /\ g = GetInteger(to, t, msg, Len(w))
    BY <1>2, <1>4 DEF PutScalar, GetScalar
  <2> DEFINE exact == /\ Extent(t.lo, t.hi) > 0
                      /\ IF from.aper /\ Extent(t.lo, t.hi) > Power[2 * Octet]
                         THEN v - t.lo < Power[4 * Octet] ELSE InWidth(v, t.lo, t.hi)
  <2>3. \E y \in Int : g = Read(y, Len(p)) /\ (exact => y = v)
    BY <2>1, <2>2, IntegerTrip
  <2>4. FaithfulScalar(t, v) => exact
    BY <1>4 DEF FaithfulScalar
  <2> HIDE DEF exact, p, g
  <2>9. \E y \in Scalars : g = Read(y, Len(p)) /\ (FaithfulScalar(t, v) => y = v)
    BY <2>3, <2>4, SequencesAreScalars
  <2> QED
    BY <2>9 DEF p, g
<1>5. CASE ~ Unwritten(from, t) /\ t.kind = "unbounded"
  <2>1. v \in Int64 /\ v \in Int
    BY <1>1, <1>5 DEF ScalarValue, Int64
  <2>2. p = (IF from.aper THEN PutAperUnconstrained(w, v) ELSE PutUnconstrained(w, v))
        /\ g = (IF from.aper THEN GetAperUnconstrained(msg, Len(w)) ELSE GetUnconstrained(msg, Len(w)))
    BY <1>2, <1>5 DEF PutScalar, GetScalar, PutUnbounded, GetUnbounded, Ends
  <2>3. g = Read(v, Len(p))
    <3>1. CASE from.aper
      BY <2>1, <2>2, <3>1, AperUnconstrainedTrip
    <3>2. CASE ~ from.aper
      BY <2>1, <2>2, <3>2, UnconstrainedTrip
    <3> QED
      BY <3>1, <3>2
  <2> QED
    BY <2>1, <2>3, SequencesAreScalars
<1>6. CASE ~ Unwritten(from, t) /\ t.kind = "boolean"
  <2>1. v \in {0, 1}
    BY <1>1, <1>6 DEF ScalarValue
  <2>2. p = Append(w, v) /\ g = GetBits(msg, Len(w), 1)
    BY <1>2, <1>6 DEF PutScalar, GetScalar
  <2>3. g = Read(v, Len(p))
    <3>1. /\ GetBits(msg, Len(w), 1) = Read(v, Len(w) + 1)
          /\ Len(Append(w, v)) = Len(w) + 1
      BY <2>1, <2>2, FlagTrip
    <3> QED
      BY <2>2, <3>1
  <2>4. v \in Int
    BY <2>1
  <2> QED
    BY <2>3, <2>4, SequencesAreScalars
<1>7. CASE ~ Unwritten(from, t) /\ t.kind = "enumerated"
  <2>1. /\ IsEnumeration(t) /\ v \in 1 .. Len(t.numbers) + t.more
        /\ Cpp(from) => v \in Roots(t)
        /\ from.lang # to.lang => t.more = 0
    BY <1>1, <1>7 DEF ScalarValue, ScalarAccepted, ScalarFits, IsEnumeration, FramedScalar, Silent
  <2>2. p = PutEnumerated(from, w, t, v) /\ g = GetEnumerated(to, t, msg, Len(w))
    BY <1>2, <1>7 DEF PutScalar, GetScalar
  <2>3. IsCodec(from) /\ IsCodec(to) /\ from.aper = to.aper /\ Extends(PutEnumerated(from, w, t, v), msg)
    BY <2>2 DEF Ends
  <2>4. \E y \in Int : g = Read(y, Len(p))
           /\ ((from.lang # to.lang => \A e \in Roots(t) : RankCpp(t, e) = e - 1) => y = v)
    BY <2>1, <2>2, <2>3, EnumeratedTrip
  <2>5. FaithfulScalar(t, v) => (from.lang # to.lang => \A e \in Roots(t) : RankCpp(t, e) = e - 1)
    BY <1>7 DEF FaithfulScalar
  <2> HIDE DEF p, g
  <2>9. \E y \in Scalars : g = Read(y, Len(p)) /\ (FaithfulScalar(t, v) => y = v)
    BY <2>4, <2>5, SequencesAreScalars
  <2> QED
    BY <2>9 DEF p, g
<1>8. CASE ~ Unwritten(from, t) /\ t.kind = "oid"
  <2>2. Identifier(v) /\ Countable(Len(OidOctets(v)))
    BY <1>1, <1>8 DEF ScalarValue, ScalarAccepted, Identifier, Numbers64, FramedScalar, Silent
  <2>3. p = PutOid(w, v) /\ g = GetOid(msg, Len(w))
    BY <1>2, <1>8 DEF PutScalar, GetScalar
  <2>4. \E y \in Octets : g = Read(y, Len(p)) /\ (v[1] < 2 /\ v[2] < 40 => y = v)
    BY <2>2, <2>3, OidTrip
  <2>5. FaithfulScalar(t, v) => v[1] < 2 /\ v[2] < 40
    BY <1>8 DEF FaithfulScalar
  <2> HIDE DEF p, g
  <2>9. \E y \in Scalars : g = Read(y, Len(p)) /\ (FaithfulScalar(t, v) => y = v)
    BY <2>4, <2>5, SequencesAreScalars DEF Octets
  <2> QED
    BY <2>9 DEF p, g
<1>9. CASE ~ Unwritten(from, t) /\ t.kind = "real"
  <2>1. v \in 0 .. Power[Octet * Word] - 1 /\ v \in Int
    BY <1>1, <1>9, Numbers64Facts DEF ScalarValue
  <2>2. p = PutReal(w, v) /\ g = GetReal(msg, Len(w))
    BY <1>2, <1>9 DEF PutScalar, GetScalar
  <2>3. g = Read(v, Len(p))
    BY <2>1, <2>2, RealTrip
  <2> QED
    BY <2>1, <2>3, SequencesAreScalars
<1>10. CASE ~ Unwritten(from, t) /\ t.kind = "any"
  <2>1. v \in Message
    BY <1>1, <1>10 DEF ScalarValue, Message
  <2>2. Len(v) % Octet = 0 /\ Countable(OctetsOf(Len(v)))
    BY <1>10 DEF FramedScalar, Silent
  <2>3. p = PutOpen(w, v) /\ g = GetOpen(msg, Len(w))
    BY <1>2, <1>10 DEF PutScalar, GetScalar
  <2>4. g = Read(v, Len(p))
    BY <2>1, <2>2, <2>3, OpenTrip
  <2> QED
    BY <2>1, <2>4, SequencesAreScalars
<1>11. t.kind = "null" => Unwritten(from, t)
  BY DEF Unwritten
<1> QED
  BY <1>1, <1>3, <1>4, <1>5, <1>6, <1>7, <1>8, <1>9, <1>10, <1>11 DEF ScalarType

(* From any message a C++ decoder gets a scalar that fits its type, the    *)
(* new one where nothing is read, or fails; the reader goes on, within the *)
(* message.                                                                *)
LEMMA GetScalarFacts ==
  ASSUME NEW d, IsCodec(d), NEW t, ScalarType(t),
         NEW msg \in Message, Len(msg) % Octet = 0, NEW pos \in 0 .. Len(msg)
  PROVE  /\ GetScalar(d, t, msg, pos).at \in pos .. Len(msg)
         /\ Cpp(d) => \/ GetScalar(d, t, msg, pos).value = Bad
                      \/ ScalarSound(d, t, GetScalar(d, t, msg, pos).value)
<1> DEFINE g == GetScalar(d, t, msg, pos)
           done == g.at \in pos .. Len(msg) /\ (Cpp(d) => g.value = Bad \/ ScalarSound(d, t, g.value))
<1>1. Len(msg) \in Nat /\ pos \in Nat
  BY MessageFacts
<1>2. ~ Unwritten(d, t) /\ t.kind \notin {"integer", "enumerated"} => ScalarSound(d, t, g.value)
  BY DEF ScalarSound, ScalarFits
<1>3. CASE Unwritten(d, t)
  <2>1. g.at = pos /\ g.value = Unread(d, t)
    BY <1>3 DEF GetScalar, Read
  <2> QED
    BY <1>1, <1>3, <2>1 DEF ScalarSound
<1>4. CASE ~ Unwritten(d, t) /\ t.kind = "integer"
  <2> DEFINE lo == t.lo
             hi == t.hi
             x == IF ~ d.aper THEN GetConstrained(d.lang, msg, pos, lo, hi)
                  ELSE IF t.ext THEN GetAperExt(msg, pos, lo, hi)
                  ELSE GetAper(msg, pos, lo, hi)
  <2>1. lo \in Int /\ hi \in Int
    BY <1>4 DEF ScalarType, Int64
  <2>2. g = Read(IF x.value \in lo .. hi THEN x.value ELSE Bad, x.at)
    BY <1>4 DEF GetScalar, GetInteger, Then
  <2>3. g.value = Bad \/ g.value \in t.lo .. t.hi
    BY <2>2 DEF Read
  <2>4. g.at = x.at
    BY <2>2 DEF Read
  <2> HIDE DEF lo, hi, g
  <2>5. x.at \in pos .. Len(msg)
    <3>1. GetConstrained(d.lang, msg, pos, lo, hi).at \in pos .. Len(msg)
      BY <2>1, GetConstrainedFacts
    <3>2. GetAperExt(msg, pos, lo, hi).at \in pos .. Len(msg)
      BY <2>1, GetAperExtFacts
    <3>3. GetAper(msg, pos, lo, hi).at \in pos .. Len(msg)
      BY <2>1, GetAperFacts
    <3> QED
      BY <3>1, <3>2, <3>3
  <2> QED
    BY <1>4, <2>3, <2>4, <2>5 DEF ScalarSound, ScalarFits, g
<1>5. CASE ~ Unwritten(d, t) /\ t.kind = "unbounded"
  <2>1. g = IF d.aper THEN GetAperUnconstrained(msg, pos) ELSE GetUnconstrained(msg, pos)
    BY <1>5 DEF GetScalar, GetUnbounded
  <2>2. g.at \in pos .. Len(msg)
    BY <2>1, GetAperUnconstrainedFacts, GetUnconstrainedFacts
  <2> QED
    BY <1>2, <1>5, <2>2
<1>6. CASE ~ Unwritten(d, t) /\ t.kind = "boolean"
  <2>1. g = GetBits(msg, pos, 1)
    BY <1>6 DEF GetScalar
  <2>2. g.at \in pos .. Len(msg)
    BY <2>1, BitsOnward
  <2> QED
    BY <1>2, <1>6, <2>2
<1>7. CASE ~ Unwritten(d, t) /\ t.kind = "enumerated"
  <2>1. g = GetEnumerated(d, t, msg, pos) /\ IsEnumeration(t)
    BY <1>7 DEF GetScalar, IsEnumeration
  <2>2. g.at \in pos .. Len(msg) /\ (Cpp(d) => g.value \in Roots(t) \cup {Bad})
    BY <2>1, GetEnumeratedFacts
  <2> QED
    BY <1>7, <2>2 DEF ScalarSound, ScalarFits
<1>8. CASE ~ Unwritten(d, t) /\ t.kind = "oid"
  <2>1. g = GetOid(msg, pos)
    BY <1>8 DEF GetScalar
  <2>2. g.at \in pos .. Len(msg)
    BY <2>1, GetOidFacts
  <2> QED
    BY <1>2, <1>8, <2>2
<1>9. CASE ~ Unwritten(d, t) /\ t.kind = "real"
  <2>1. g = GetReal(msg, pos)
    BY <1>9 DEF GetScalar
  <2>2. g.at \in pos .. Len(msg)
    BY <2>1, GetRealFacts
  <2> QED
    BY <1>2, <1>9, <2>2
<1>10. CASE ~ Unwritten(d, t) /\ t.kind = "any"
  <2>1. g = GetOpen(msg, pos)
    BY <1>10 DEF GetScalar
  <2>2. g.at \in pos .. Len(msg)
    BY <2>1, GetOpenFacts
  <2> QED
    BY <1>2, <1>10, <2>2
<1>11. t.kind = "null" => Unwritten(d, t)
  BY DEF Unwritten
<1> QED
  BY <1>3, <1>4, <1>5, <1>6, <1>7, <1>8, <1>9, <1>10, <1>11 DEF ScalarType

-----------------------------------------------------------------------------
(***************************************************************************)
(* Sizes.                                                                  *)
(***************************************************************************)

(* Sizes.                                                                  *)

(* A size constraint, or none.                                             *)
IsSize(t) ==
  /\ t.size = <<>> \/ (t.size \in Nat \X Nat /\ t.size[1] <= t.size[2])
  /\ t.kind = "bits" => t.ext \in BOOLEAN

(* The bounds of a size are numbers.                                       *)
LEMMA SizeIs ==
  ASSUME NEW t, IsSize(t)
  PROVE  Sized(t) => t.size[1] \in Nat /\ t.size[2] \in Nat /\ t.size[1] \in Int /\ t.size[2] \in Int
BY DEF IsSize, Sized

(* Where the size begins in the message.                                   *)
SizeFrom(c, w, t) ==
  IF BitFirst(c, t) THEN Append(w, 0) ELSE IF AlignsFirst(c, t) THEN Align(w) ELSE w

(* The size written, before its padding.                                   *)
SizeSent(c, w, t, n) ==
  IF Sized(t) THEN PutConstrained(c.lang, SizeFrom(c, w, t), n, t.size[1], t.size[2])
  ELSE PutLength(SizeFrom(c, w, t), n)

(* A size is written between its bit or padding and its padding.           *)
LEMMA PutSizeIs ==
  ASSUME NEW c, NEW w, NEW t, NEW n
  PROVE  PutSize(c, w, t, n) = IF BitFirst(c, t) THEN Align(SizeSent(c, w, t, n)) ELSE SizeSent(c, w, t, n)
BY DEF PutSize, SizeSent, SizeFrom

(* A size is written after what is there.                                  *)
LEMMA SizeSentFacts ==
  ASSUME NEW c, NEW w \in Message, NEW t, IsSize(t), NEW n \in Nat
  PROVE  /\ SizeFrom(c, w, t) \in Message /\ Extends(w, SizeFrom(c, w, t))
         /\ SizeSent(c, w, t, n) \in Message /\ Extends(SizeFrom(c, w, t), SizeSent(c, w, t, n))
         /\ PutSize(c, w, t, n) \in Message /\ Extends(SizeSent(c, w, t, n), PutSize(c, w, t, n))
         /\ Extends(w, PutSize(c, w, t, n))
<1> DEFINE f == SizeFrom(c, w, t)
           s == SizeSent(c, w, t, n)
           p == PutSize(c, w, t, n)
<1>1. f \in Message /\ Extends(w, f)
  <2>1. Append(w, 0) \in Message /\ Extends(w, Append(w, 0))
    BY Appended
  <2>2. Align(w) \in Message /\ Extends(w, Align(w))
    BY AlignFacts
  <2>3. Extends(w, w)
    BY ExtendsSelf
  <2> QED
    BY <2>1, <2>2, <2>3 DEF SizeFrom
<1>2. s \in Message /\ Extends(f, s)
  <2>1. s = IF Sized(t) THEN PutConstrained(c.lang, f, n, t.size[1], t.size[2]) ELSE PutLength(f, n)
    BY DEF SizeSent
  <2> HIDE DEF f, s
  <2>2. PutLength(f, n) \in Message /\ Extends(f, PutLength(f, n))
    BY <1>1, PutLengthFacts
  <2>3. CASE Sized(t)
    <3> DEFINE lo == t.size[1]
               hi == t.size[2]
    <3>1. lo \in Int /\ hi \in Int /\ n \in Int
      BY <2>3, SizeIs
    <3>2. s = PutConstrained(c.lang, f, n, lo, hi)
      BY <2>1, <2>3
    <3> HIDE DEF lo, hi
    <3> QED
      BY <1>1, <3>1, <3>2, PutConstrainedFacts
  <2> QED
    BY <2>1, <2>2, <2>3
<1>3. p = IF BitFirst(c, t) THEN Align(s) ELSE s
  BY PutSizeIs
<1> HIDE DEF f, s, p
<1>4. p \in Message /\ Extends(s, p)
  BY <1>2, <1>3, AlignFacts, ExtendsSelf
<1>5. Extends(w, p)
  BY <1>1, <1>2, <1>4, ExtendsOnward
<1> QED
  BY <1>1, <1>2, <1>4, <1>5 DEF f, s, p

(* A size that fits its constraint returns.                                *)
LEMMA SizeTrip ==
  ASSUME Ends, NEW w \in Message, NEW t, IsSize(t), NEW n \in Nat, SizeFits(t, n),
         ~ Sized(t) => Countable(n),
         Sized(t) => SameWidth(t.size[1], t.size[2]) /\ InWidth(n, t.size[1], t.size[2]),
         NEW msg \in Message, Extends(PutSize(from, w, t, n), msg)
  PROVE  GetSize(to, t, msg, Len(w)) = Read(n, Len(PutSize(from, w, t, n)))
<1> DEFINE f == SizeFrom(from, w, t)
           s == SizeSent(from, w, t, n)
           p == PutSize(from, w, t, n)
           start == IF BitFirst(to, t) THEN After(msg, Len(w), 1)
                    ELSE IF AlignsFirst(to, t) THEN Aligned(Len(w)) ELSE Len(w)
           x == IF Sized(t) THEN GetConstrained(to.lang, msg, start, t.size[1], t.size[2])
                ELSE GetLength(msg, start)
<1>1. /\ f \in Message /\ Extends(w, f) /\ s \in Message /\ Extends(f, s)
      /\ p \in Message /\ Extends(s, p)
  BY SizeSentFacts
<1>2. (BitFirst(from, t) <=> BitFirst(to, t)) /\ (AlignsFirst(from, t) <=> AlignsFirst(to, t))
  BY DEF Ends, BitFirst, AlignsFirst
<1>3. p = IF BitFirst(from, t) THEN Align(s) ELSE s
  BY PutSizeIs
<1>4. /\ f = IF BitFirst(from, t) THEN Append(w, 0) ELSE IF AlignsFirst(from, t) THEN Align(w) ELSE w
      /\ s = IF Sized(t) THEN PutConstrained(from.lang, f, n, t.size[1], t.size[2]) ELSE PutLength(f, n)
  BY DEF SizeFrom, SizeSent
<1>5. GetSize(to, t, msg, Len(w)) =
        Read(IF Cpp(to) /\ ~ SizeFits(t, x.value) THEN Bad ELSE x.value,
             IF BitFirst(to, t) THEN Aligned(x.at) ELSE x.at)
  BY DEF GetSize, Then
<1>6. Extends(p, msg)
  OBVIOUS
<1> HIDE DEF f, s, p
<1>7. Extends(s, msg) /\ Extends(f, msg)
  <2>1. Extends(s, msg)
    BY <1>1, <1>6, ExtendsOnward
  <2> QED
    BY <1>1, <2>1, ExtendsOnward
<1>8. start = Len(f)
  <2>1. CASE BitFirst(from, t)
    <3>1. f = Append(w, 0) /\ Extends(Append(w, 0), msg) /\ 0 \in {0, 1}
      BY <1>4, <1>7, <2>1
    <3>2. After(msg, Len(w), 1) = Len(w) + 1 /\ Len(Append(w, 0)) = Len(w) + 1
      BY <3>1, FlagTrip
    <3> QED
      BY <1>2, <2>1, <3>1, <3>2
  <2>2. CASE ~ BitFirst(from, t) /\ AlignsFirst(from, t)
    <3>1. f = Align(w) /\ Len(Align(w)) = Aligned(Len(w))
      BY <1>4, <2>2, AlignFacts
    <3> QED
      BY <1>2, <2>2, <3>1
  <2>3. CASE ~ BitFirst(from, t) /\ ~ AlignsFirst(from, t)
    BY <1>2, <1>4, <2>3
  <2> QED
    BY <2>1, <2>2, <2>3
<1> HIDE DEF start
<1>9. x = Read(n, Len(s))
  <2>1. CASE Sized(t)
    <3> DEFINE lo == t.size[1]
               hi == t.size[2]
               k == RangeBits(from.lang, lo, hi)
    <3>1. lo \in Int /\ hi \in Int /\ n \in Int
      BY <2>1, SizeIs
    <3>2. lo <= n
      BY <2>1 DEF SizeFits
    <3>3. RangeBits(to.lang, lo, hi) = k
      BY <2>1 DEF SameWidth, Ends, IsCodec
    <3>4. n - lo < Power[k]
      BY <2>1 DEF InWidth
    <3>5. s = PutConstrained(from.lang, f, n, lo, hi) /\ x = GetConstrained(to.lang, msg, Len(f), lo, hi)
      BY <1>4, <1>8, <2>1
    <3>6. k \in Widths
      BY <3>1, RangeBitsFacts
    <3> HIDE DEF lo, hi, x
    <3>7. x = Read(lo + ((n - lo) % Power[k]), Len(s))
      BY <1>1, <1>7, <3>1, <3>3, <3>5, ConstrainedTrip
    <3> HIDE DEF k
    <3>8. lo + ((n - lo) % Power[k]) = n
      BY <3>1, <3>2, <3>4, <3>6, Wrapped
    <3> QED
      BY <3>7, <3>8
  <2>2. CASE ~ Sized(t)
    <3>1. s = PutLength(f, n) /\ x = GetLength(msg, Len(f)) /\ Countable(n)
      BY <1>4, <1>8, <2>2
    <3> HIDE DEF x
    <3>2. GetLength(msg, Len(f)) = Read(n, Len(PutLength(f, n)))
      BY <1>1, <1>7, <3>1, LengthTrip
    <3> QED
      BY <3>1, <3>2
  <2> QED
    BY <2>1, <2>2
<1> HIDE DEF x
<1>10. x.value = n /\ x.at = Len(s)
  BY <1>9 DEF Read
<1>11. (IF BitFirst(to, t) THEN Aligned(Len(s)) ELSE Len(s)) = Len(p)
  BY <1>1, <1>2, <1>3, AlignFacts
<1>12. GetSize(to, t, msg, Len(w)) = Read(n, Len(p))
  BY <1>5, <1>10, <1>11
<1> QED
  BY <1>12 DEF p

(* The C++ decoder reads a size that fits, or fails.                       *)
LEMMA GetSizeFacts ==
  ASSUME NEW d, NEW t, IsSize(t),
         NEW msg \in Message, Len(msg) % Octet = 0, NEW pos \in 0 .. Len(msg)
  PROVE  /\ GetSize(d, t, msg, pos).at \in pos .. Len(msg)
         /\ GetSize(d, t, msg, pos).value = Bad \/ GetSize(d, t, msg, pos).value \in Nat
         /\ Cpp(d) => \/ GetSize(d, t, msg, pos).value = Bad
                      \/ /\ SizeFits(t, GetSize(d, t, msg, pos).value)
                         /\ ~ Sized(t) => ~ LengthRefused(d.lang, GetSize(d, t, msg, pos).value)
<1> DEFINE start == IF BitFirst(d, t) THEN After(msg, pos, 1)
                    ELSE IF AlignsFirst(d, t) THEN Aligned(pos) ELSE pos
           x == IF Sized(t) THEN GetConstrained(d.lang, msg, start, t.size[1], t.size[2])
                ELSE GetLength(msg, start)
           g == GetSize(d, t, msg, pos)
<1>1. g = Read(IF Cpp(d) /\ ~ SizeFits(t, x.value) THEN Bad ELSE x.value,
               IF BitFirst(d, t) THEN Aligned(x.at) ELSE x.at)
  BY DEF GetSize, Then
<1>2. Len(msg) \in Nat /\ pos \in Nat
  BY MessageFacts
<1>3. start \in pos .. Len(msg) /\ start \in 0 .. Len(msg)
  <2>1. After(msg, pos, 1) \in pos .. Len(msg)
    BY AfterFacts
  <2>2. Aligned(pos) \in pos .. Len(msg)
    BY AlignedOnward
  <2> QED
    BY <1>2, <2>1, <2>2
<1> HIDE DEF g, start
<1>4. /\ x.value \in Nat /\ x.at \in start .. Len(msg)
      /\ ~ Sized(t) => ~ LengthRefused(d.lang, x.value)
  <2>1. CASE Sized(t)
    <3> DEFINE lo == t.size[1]
               hi == t.size[2]
    <3>1. lo \in Nat /\ lo \in Int /\ hi \in Int
      BY <2>1, SizeIs
    <3>2. x = GetConstrained(d.lang, msg, start, lo, hi)
      BY <2>1
    <3> HIDE DEF lo, hi, x
    <3>3. x.value \in Int /\ x.value >= lo /\ x.at \in start .. Len(msg)
      BY <1>3, <3>1, <3>2, GetConstrainedFacts
    <3> QED
      BY <2>1, <3>1, <3>3
  <2>2. CASE ~ Sized(t)
    <3>1. x = GetLength(msg, start)
      BY <2>2
    <3> HIDE DEF x
    <3> QED
      BY <1>3, <3>1, GetLengthFacts
  <2> QED
    BY <2>1, <2>2
<1> HIDE DEF x
<1>5. x.at \in 0 .. Len(msg) /\ x.at \in pos .. Len(msg)
  BY <1>2, <1>3, <1>4
<1>6. Aligned(x.at) \in x.at .. Len(msg)
  BY <1>5, AlignedOnward
<1>7. g.at \in pos .. Len(msg)
  BY <1>1, <1>2, <1>5, <1>6 DEF Read
<1>8. g.value = IF Cpp(d) /\ ~ SizeFits(t, x.value) THEN Bad ELSE x.value
  BY <1>1 DEF Read
<1> QED
  BY <1>4, <1>7, <1>8 DEF g

-----------------------------------------------------------------------------
(***************************************************************************)
(* SET OF in order.                                                        *)
(***************************************************************************)

(* The order in which C++ sends a SET OF numbers.                          *)

(* Smaller first, and the earlier of two equal ones.                       *)
Before(v) == {p \in (DOMAIN v) \X (DOMAIN v) :
                v[p[1]] < v[p[2]] \/ (v[p[1]] = v[p[2]] /\ p[1] < p[2])}

(* The order of the places of a list.                                      *)
Interval(n) == {p \in (1 .. n) \X (1 .. n) : p[1] < p[2]}

(* The places of a list of numbers.                                        *)
LEMMA NumbersFacts ==
  ASSUME NEW v \in Seq(Int)
  PROVE  /\ Len(v) \in Nat /\ DOMAIN v = 1 .. Len(v) /\ \A j \in 1 .. Len(v) : v[j] \in Int
         /\ IsFiniteSet(1 .. Len(v)) /\ Cardinality(1 .. Len(v)) = Len(v)
<1>1. Len(v) \in Nat /\ DOMAIN v = 1 .. Len(v) /\ \A j \in 1 .. Len(v) : v[j] \in Int
  OBVIOUS
<1> DEFINE n == Len(v)
<1> HIDE DEF n
<1>2. n \in Nat
  BY <1>1 DEF n
<1>3. IsFiniteSet(1 .. n) /\ Cardinality(1 .. n) = n
  BY <1>2, FS_Interval
<1> QED
  BY <1>1, <1>3 DEF n

(* It is a strict total order on the places.                               *)
LEMMA BeforeIsOrder ==
  ASSUME NEW v \in Seq(Int)
  PROVE  IsOrder(1 .. Len(v), Before(v))
<1> DEFINE S == 1 .. Len(v)
<1>1. DOMAIN v = S /\ \A j \in S : v[j] \in Int /\ j \in Int
  BY NumbersFacts
<1> HIDE DEF S
<1>2. \A x, y \in S : <<x, y>> \in Before(v) <=> v[x] < v[y] \/ (v[x] = v[y] /\ x < y)
  BY <1>1 DEF Before
<1>3. \A x \in S : <<x, x>> \notin Before(v)
  BY <1>1, <1>2
<1>4. \A x, y, z \in S : <<x, y>> \in Before(v) /\ <<y, z>> \in Before(v) => <<x, z>> \in Before(v)
  <2> TAKE x, y, z \in S
  <2>1. v[x] \in Int /\ v[y] \in Int /\ v[z] \in Int /\ x \in Int /\ y \in Int /\ z \in Int
    BY <1>1
  <2>2. /\ <<x, y>> \in Before(v) <=> v[x] < v[y] \/ (v[x] = v[y] /\ x < y)
        /\ <<y, z>> \in Before(v) <=> v[y] < v[z] \/ (v[y] = v[z] /\ y < z)
        /\ <<x, z>> \in Before(v) <=> v[x] < v[z] \/ (v[x] = v[z] /\ x < z)
    BY <1>2
  <2> QED
    BY <2>1, <2>2
<1>5. \A x, y \in S : x = y \/ <<x, y>> \in Before(v) \/ <<y, x>> \in Before(v)
  <2> TAKE x, y \in S
  <2>1. v[x] \in Int /\ v[y] \in Int /\ x \in Int /\ y \in Int
    BY <1>1
  <2>2. /\ <<x, y>> \in Before(v) <=> v[x] < v[y] \/ (v[x] = v[y] /\ x < y)
        /\ <<y, x>> \in Before(v) <=> v[y] < v[x] \/ (v[y] = v[x] /\ y < x)
    BY <1>2
  <2> QED
    BY <2>1, <2>2
<1>6. IsOrder(S, Before(v))
  BY <1>3, <1>4, <1>5 DEF IsOrder
<1> QED
  BY <1>6 DEF S

(* An order on the first n numbers that is their own lists them in turn.   *)
LEMMA InTurn ==
  ASSUME NEW n \in Nat
  PROVE  \A k \in 1 .. n : InOrder(1 .. n, Interval(n))[k] = k
<1> DEFINE S == 1 .. n
           before == Interval(n)
<1>1. IsFiniteSet(S) /\ Cardinality(S) = n
  BY FS_Interval
<1>2. \A x \in S : Cardinality(Earlier(S, before, x)) = x - 1
  <2> TAKE x \in S
  <2> DEFINE m == x - 1
  <2>1. Earlier(S, before, x) = 1 .. m
    BY DEF Earlier, Interval
  <2>2. m \in Nat
    OBVIOUS
  <2> HIDE DEF m
  <2>3. Cardinality(1 .. m) = m
    BY <2>2, FS_Interval
  <2> QED
    BY <2>1, <2>3 DEF m
<1> SUFFICES ASSUME NEW k \in 1 .. n
             PROVE  InOrder(S, before)[k] = k
  OBVIOUS
<1>3. InOrder(S, before)[k] = CHOOSE x \in S : Cardinality(Earlier(S, before, x)) = k - 1
  BY <1>1 DEF InOrder
<1>4. \A x \in S : Cardinality(Earlier(S, before, x)) = k - 1 <=> x = k
  BY <1>2
<1>5. (CHOOSE x \in S : Cardinality(Earlier(S, before, x)) = k - 1) = k
  <2> HIDE DEF before
  <2> QED
    BY <1>4
<1> QED
  BY <1>3, <1>5

(* Sorting gives the same numbers, none before a smaller one.              *)
LEMMA SortedFacts ==
  ASSUME NEW v \in Seq(Int)
  PROVE  /\ Sorted(v) \in Seq(Int) /\ Len(Sorted(v)) = Len(v)
         /\ \A j \in 1 .. Len(v) : \E k \in 1 .. Len(v) : Sorted(v)[j] = v[k]
         /\ \A j, k \in 1 .. Len(v) : j < k => Sorted(v)[j] <= Sorted(v)[k]
<1> DEFINE n == Len(v)
           S == 1 .. n
           before == Before(v)
           order == InOrder(S, before)
<1>1. /\ n \in Nat /\ DOMAIN v = S /\ (\A j \in S : v[j] \in Int)
      /\ IsFiniteSet(S) /\ Cardinality(S) = n
  BY NumbersFacts
<1>2. IsOrder(S, before)
  BY BeforeIsOrder
<1>3. Sorted(v) = [j \in S |-> v[order[j]]]
  BY <1>1 DEF Sorted, Before
<1>4. order = [k \in 1 .. n |-> CHOOSE x \in S : Cardinality(Earlier(S, before, x)) = k - 1]
  BY <1>1 DEF InOrder
<1> HIDE DEF before, order, S, n
<1>5. /\ \A x \in S : Cardinality(Earlier(S, before, x)) \in 0 .. Cardinality(S) - 1
      /\ \A k \in 0 .. Cardinality(S) - 1 : \E x \in S : Cardinality(Earlier(S, before, x)) = k
  <2>1. \A x \in S : Cardinality(Earlier(S, before, x)) \in 0 .. Cardinality(S) - 1
    BY <1>1, <1>2, EarlierIsPlace
  <2>2. \A k \in 0 .. Cardinality(S) - 1 : \E x \in S : Cardinality(Earlier(S, before, x)) = k
    <3>1. IsFiniteSet(S) /\ IsOrder(S, before)
      BY <1>1, <1>2
    <3> QED
      BY <3>1, EarlierIsPlace
  <2> QED
    BY <2>1, <2>2
<1>6. \A k \in 1 .. n : order[k] \in S /\ Cardinality(Earlier(S, before, order[k])) = k - 1
  <2> TAKE k \in 1 .. n
  <2>1. k - 1 \in 0 .. Cardinality(S) - 1
    BY <1>1
  <2>2. \E x \in S : Cardinality(Earlier(S, before, x)) = k - 1
    BY <1>5, <2>1
  <2>3. order[k] = CHOOSE x \in S : Cardinality(Earlier(S, before, x)) = k - 1
    BY <1>4
  <2> QED
    BY <2>2, <2>3
<1>7. \A j, k \in 1 .. n : j < k => <<order[j], order[k]>> \in before
  <2> TAKE j, k \in 1 .. n
  <2> HAVE j < k
  <2>1. order[j] # order[k]
    BY <1>6
  <2>2. ASSUME <<order[k], order[j]>> \in before
        PROVE  FALSE
    <3>1. Cardinality(Earlier(S, before, order[k])) < Cardinality(Earlier(S, before, order[j]))
      BY <1>1, <1>2, <1>6, <2>2, EarlierCounts
    <3>2. Cardinality(Earlier(S, before, order[k])) = k - 1 /\ Cardinality(Earlier(S, before, order[j])) = j - 1
      BY <1>6
    <3> QED
      BY <3>1, <3>2
  <2> QED
    BY <1>2, <1>6, <2>1, <2>2 DEF IsOrder
<1>8. \A j \in 1 .. n : Sorted(v)[j] = v[order[j]] /\ v[order[j]] \in Int
  BY <1>1, <1>3, <1>6 DEF S
<1>9. Sorted(v) \in [1 .. n -> Int]
  BY <1>3, <1>8 DEF S
<1>10. Sorted(v) \in Seq(Int) /\ Len(Sorted(v)) = n
  <2> DEFINE u == Sorted(v)
  <2> HIDE DEF u
  <2>1. u \in [1 .. n -> Int]
    BY <1>9 DEF u
  <2>2. u \in Seq(Int) /\ Len(u) = n
    BY <1>1, <2>1
  <2> QED
    BY <2>2 DEF u
<1>11. \A j \in 1 .. n : \E k \in 1 .. n : Sorted(v)[j] = v[k]
  BY <1>6, <1>8 DEF S
<1>12. \A j, k \in 1 .. n : j < k => Sorted(v)[j] <= Sorted(v)[k]
  <2> TAKE j, k \in 1 .. n
  <2> HAVE j < k
  <2>1. <<order[j], order[k]>> \in before
    BY <1>7
  <2>2. v[order[j]] < v[order[k]] \/ v[order[j]] = v[order[k]]
    BY <2>1 DEF before, Before
  <2> QED
    BY <1>8, <2>2
<1> QED
  BY <1>10, <1>11, <1>12 DEF n

(* What is sorted stays as it is when it is sorted again.                  *)
LEMMA SortedTwice ==
  ASSUME NEW v \in Seq(Int)
  PROVE  Sorted(Sorted(v)) = Sorted(v)
<1> DEFINE u == Sorted(v)
           n == Len(v)
<1>1. /\ u \in Seq(Int) /\ Len(u) = n
      /\ \A j, k \in 1 .. n : j < k => u[j] <= u[k]
  BY SortedFacts
<1> HIDE DEF u
<1>2. n \in Nat /\ DOMAIN u = 1 .. n /\ \A j \in 1 .. n : u[j] \in Int
  BY <1>1, NumbersFacts
<1>3. Before(u) = Interval(n)
  <2>1. \A x, y \in 1 .. n : (u[x] < u[y] \/ (u[x] = u[y] /\ x < y)) <=> x < y
    <3> TAKE x, y \in 1 .. n
    <3>1. x < y \/ x = y \/ y < x
      BY <1>2
    <3>2. u[x] \in Int /\ u[y] \in Int /\ x \in Int /\ y \in Int
      BY <1>2
    <3>3. (x < y => u[x] <= u[y]) /\ (y < x => u[y] <= u[x])
      BY <1>1
    <3> QED
      BY <3>1, <3>2, <3>3
  <2>2. Before(u) = {p \in (1 .. n) \X (1 .. n) : u[p[1]] < u[p[2]] \/ (u[p[1]] = u[p[2]] /\ p[1] < p[2])}
    BY <1>2 DEF Before
  <2> QED
    BY <2>1, <2>2 DEF Interval
<1>4. \A k \in 1 .. n : InOrder(1 .. n, Before(u))[k] = k
  BY <1>2, <1>3, InTurn
<1>5. Sorted(u) = [j \in 1 .. n |-> u[InOrder(1 .. n, Before(u))[j]]]
  BY <1>2 DEF Sorted, Before
<1>6. Sorted(u) = [j \in 1 .. n |-> u[j]]
  BY <1>4, <1>5
<1>7. u = [j \in 1 .. n |-> u[j]]
  BY <1>1, <1>2
<1> QED
  BY <1>6, <1>7 DEF u

-----------------------------------------------------------------------------
(***************************************************************************)
(* Lists.                                                                  *)
(***************************************************************************)

(* Elements of lists.                                                      *)

(* The types of lists: octets, bits and items.                             *)
ListType(t) == t.kind \in Lists /\ PlainType(t)

(* What is known of a list type.                                           *)
LEMMA ListTypeFacts ==
  ASSUME NEW t, ListType(t)
  PROVE  /\ t.kind \in {"octets", "bits", "items"} /\ IsSize(t)
         /\ t.kind = "items" =>
              /\ ScalarType(t.of) /\ t.set \in BOOLEAN
              /\ t.set => t.of.kind \in {"integer", "unbounded", "boolean"}
BY DEF ListType, PlainType, IsSize, Lists

(* An element that the encoder takes.                                      *)
ElementGiven(c, t, x) ==
  /\ t.kind = "octets" => x \in 0 .. Power[Octet] - 1
  /\ t.kind = "bits" => x \in {0, 1}
  /\ t.kind = "items" => ScalarGiven(c, t.of, x)

(* An element whose bits both ends count alike.                            *)
ElementFramed(t, x) == t.kind = "items" => FramedScalar(t.of, x)

(* An element that keeps its value.                                        *)
ElementFaithful(t, x) == t.kind = "items" => FaithfulScalar(t.of, x)

(* An element is written after what is there.                              *)
LEMMA PutElementFacts ==
  ASSUME NEW c, IsCodec(c), NEW w \in Message, NEW t, ListType(t), NEW x, ElementGiven(c, t, x)
  PROVE  PutElement(c, w, t, x) \in Message /\ Extends(w, PutElement(c, w, t, x))
<1>1. CASE t.kind = "octets"
  <2>1. x \in Int /\ Octet \in Widths
    BY <1>1, LongFacts DEF ElementGiven
  <2>2. Bits(x, Octet) \in Message
    BY <2>1, BitsFacts
  <2>3. PutElement(c, w, t, x) = w \o Bits(x, Octet)
    BY <1>1 DEF PutElement
  <2> QED
    BY <2>2, <2>3, Longer
<1>2. CASE t.kind = "bits"
  <2>1. PutElement(c, w, t, x) = Append(w, x) /\ x \in {0, 1}
    BY <1>2 DEF PutElement, ElementGiven
  <2> QED
    BY <2>1, Appended
<1>3. CASE t.kind = "items"
  <2>1. PutElement(c, w, t, x) = PutScalar(c, w, t.of, x) /\ ScalarGiven(c, t.of, x)
    BY <1>3 DEF PutElement, ElementGiven
  <2> QED
    BY <2>1, PutScalarFacts
<1> QED
  BY <1>1, <1>2, <1>3, ListTypeFacts

(* An element is read where it was written; the same, when it is faithful. *)
LEMMA ElementTrip ==
  ASSUME Ends, NEW w \in Message, NEW t, ListType(t), NEW x, ElementGiven(from, t, x), ElementFramed(t, x),
         NEW msg \in Message, Extends(PutElement(from, w, t, x), msg)
  PROVE  \E y \in Scalars :
           /\ GetElement(to, t, msg, Len(w)) = Read(y, Len(PutElement(from, w, t, x)))
           /\ ElementFaithful(t, x) => y = x
<1>1. CASE t.kind = "octets"
  <2>1. x \in Int /\ Octet \in Widths /\ 0 <= x /\ x < Power[Octet] /\ Power[Octet] \in Nat /\ Power[Octet] >= 1
    BY <1>1, LongFacts DEF ElementGiven
  <2> DEFINE p == w \o Bits(x, Octet)
  <2>2. PutElement(from, w, t, x) = p /\ GetElement(to, t, msg, Len(w)) = GetBits(msg, Len(w), Octet)
    BY <1>1 DEF PutElement, GetElement
  <2>3. GetBits(msg, Len(w), Octet) = Read(x % Power[Octet], Len(p))
    BY <2>1, <2>2, BitsTrip
  <2>4. x % Power[Octet] = x
    BY <2>1, Quotient
  <2>5. x \in Scalars
    BY <2>1, SequencesAreScalars
  <2> HIDE DEF p
  <2> QED
    BY <2>2, <2>3, <2>4, <2>5
<1>2. CASE t.kind = "bits"
  <2>1. /\ PutElement(from, w, t, x) = Append(w, x) /\ x \in {0, 1}
        /\ GetElement(to, t, msg, Len(w)) = GetBits(msg, Len(w), 1)
    BY <1>2 DEF PutElement, ElementGiven, GetElement
  <2>2. GetBits(msg, Len(w), 1) = Read(x, Len(w) + 1) /\ Len(Append(w, x)) = Len(w) + 1
    BY <2>1, FlagTrip
  <2>3. x \in Int
    BY <2>1
  <2>4. GetElement(to, t, msg, Len(w)) = Read(x, Len(PutElement(from, w, t, x)))
    BY <2>1, <2>2
  <2> QED
    BY <2>3, <2>4, SequencesAreScalars
<1>3. CASE t.kind = "items"
  <2>1. /\ PutElement(from, w, t, x) = PutScalar(from, w, t.of, x) /\ ScalarGiven(from, t.of, x)
        /\ GetElement(to, t, msg, Len(w)) = GetScalar(to, t.of, msg, Len(w))
        /\ FramedScalar(t.of, x)
    BY <1>3 DEF PutElement, ElementGiven, GetElement, ElementFramed
  <2>2. \E y \in Scalars :
           /\ GetScalar(to, t.of, msg, Len(w)) = Read(y, Len(PutScalar(from, w, t.of, x)))
           /\ FaithfulScalar(t.of, x) => y = x
    BY <2>1, ScalarTrip
  <2> QED
    BY <1>3, <2>1, <2>2 DEF ElementFaithful
<1> QED
  BY <1>1, <1>2, <1>3, ListTypeFacts

(* The C++ decoder reads an element that is sound, or fails.               *)
LEMMA GetElementFacts ==
  ASSUME NEW d, IsCodec(d), NEW t, ListType(t),
         NEW msg \in Message, Len(msg) % Octet = 0, NEW pos \in 0 .. Len(msg)
  PROVE  /\ GetElement(d, t, msg, pos).at \in pos .. Len(msg)
         /\ GetElement(d, t, msg, pos).at \in 0 .. Len(msg)
         /\ t.kind = "items" /\ Cpp(d) =>
              \/ GetElement(d, t, msg, pos).value = Bad
              \/ ScalarSound(d, t.of, GetElement(d, t, msg, pos).value)
<1>1. Len(msg) \in Nat /\ pos \in Nat /\ Octet \in Nat /\ 1 \in Nat
  BY MessageFacts, LongFacts
<1>2. \A n \in Nat : GetBits(msg, pos, n).at \in pos .. Len(msg)
  BY BitsOnward
<1>3. CASE t.kind = "octets"
  <2>1. GetElement(d, t, msg, pos) = GetBits(msg, pos, Octet)
    BY <1>3 DEF GetElement
  <2> QED
    BY <1>1, <1>2, <1>3, <2>1
<1>4. CASE t.kind = "bits"
  <2>1. GetElement(d, t, msg, pos) = GetBits(msg, pos, 1)
    BY <1>4 DEF GetElement
  <2> QED
    BY <1>1, <1>2, <1>4, <2>1
<1>5. CASE t.kind = "items"
  <2>1. GetElement(d, t, msg, pos) = GetScalar(d, t.of, msg, pos) /\ ScalarType(t.of)
    BY <1>5, ListTypeFacts DEF GetElement
  <2>2. /\ GetScalar(d, t.of, msg, pos).at \in pos .. Len(msg)
        /\ Cpp(d) => \/ GetScalar(d, t.of, msg, pos).value = Bad
                     \/ ScalarSound(d, t.of, GetScalar(d, t.of, msg, pos).value)
    BY <2>1, GetScalarFacts
  <2> QED
    BY <1>1, <2>1, <2>2
<1> QED
  BY <1>3, <1>4, <1>5, ListTypeFacts

(* Writing the elements in turn.                                           *)

(* The messages after each element.                                        *)
IsWriting(f, c, w, t, v) ==
  /\ f \in [0 .. Len(v) -> Message] /\ f[0] = w
  /\ \A j \in 1 .. Len(v) : f[j] = PutElement(c, f[j - 1], t, v[j])
  /\ PutElements(c, w, t, v) = f[Len(v)]

(* The recursive definition of PutElements has a value.                    *)
LEMMA WritingExists ==
  ASSUME NEW c, IsCodec(c), NEW w \in Message, NEW t, ListType(t),
         NEW v, Len(v) \in Nat, \A j \in 1 .. Len(v) : ElementGiven(c, t, v[j])
  PROVE  \E f : IsWriting(f, c, w, t, v)
<1> DEFINE n == Len(v)
           step == [k \in 1 .. n |-> [s \in Message |-> PutElement(c, s, t, v[k])]]
           Course(f) == f = [j \in 0 .. Len(v) |-> IF j = 0 THEN w ELSE PutElement(c, f[j - 1], t, v[j])]
           g == CHOOSE f : Course(f)
<1>1. n \in Nat
  OBVIOUS
<1>2. PutElements(c, w, t, v) = g[n]
  BY DEF PutElements
<1>3. step \in [1 .. n -> [Message -> Message]]
  BY PutElementFacts
<1>4. PICK f : IsCourse(f, n, Message, w, step)
  <2> HIDE DEF step, n
  <2> QED
    BY <1>1, <1>3, Iterated
<1>5. Course(f)
  <2>1. f = [k \in 0 .. n |-> IF k = 0 THEN w ELSE step[k][f[k - 1]]] /\ f \in [0 .. n -> Message]
    BY <1>4 DEF IsCourse
  <2>2. ASSUME NEW k \in 0 .. n
        PROVE  f[k] = IF k = 0 THEN w ELSE PutElement(c, f[k - 1], t, v[k])
    <3>1. f[k] = IF k = 0 THEN w ELSE step[k][f[k - 1]]
      <4> HIDE DEF step, n
      <4> QED
        BY <2>1
    <3>2. CASE k = 0
      <4> HIDE DEF step
      <4> QED
        BY <3>1, <3>2
    <3>3. CASE k # 0
      <4>1. k \in 1 .. n /\ k - 1 \in 0 .. n
        BY <1>1, <3>3
      <4>2. f[k - 1] \in Message
        <5> HIDE DEF n, step
        <5> QED
          BY <2>1, <4>1
      <4>3. step[k][f[k - 1]] = PutElement(c, f[k - 1], t, v[k])
        BY <4>1, <4>2
      <4> HIDE DEF step
      <4> QED
        BY <3>1, <3>3, <4>3
    <3> QED
      BY <3>2, <3>3
  <2>3. f = [k \in 0 .. n |-> f[k]]
    <3> HIDE DEF n, step
    <3> QED
      BY <2>1
  <2>4. [k \in 0 .. n |-> f[k]] = [k \in 0 .. n |-> IF k = 0 THEN w ELSE PutElement(c, f[k - 1], t, v[k])]
    BY <2>2
  <2>5. f = [k \in 0 .. n |-> IF k = 0 THEN w ELSE PutElement(c, f[k - 1], t, v[k])]
    <3> HIDE DEF n, step
    <3> QED
      BY <2>3, <2>4
  <2> QED
    BY <2>5
<1>6. Course(g)
  BY <1>5
<1> HIDE DEF g
<1>7. g[0] = w
  BY <1>1, <1>6
<1>8. ASSUME NEW k \in 1 .. n
      PROVE  g[k] = PutElement(c, g[k - 1], t, v[k])
  <2>1. k \in 0 .. n /\ k # 0
    BY <1>1
  <2> QED
    BY <1>6, <2>1
<1> DEFINE S == {j \in 0 .. n : g[j] \in Message}
<1>9. 0 .. n \subseteq S
  <2>1. 0 \in S
    BY <1>1, <1>7
  <2>2. ASSUME NEW j \in 0 .. n - 1, j \in S
        PROVE  j + 1 \in S
    <3>1. j + 1 \in 1 .. n /\ j + 1 \in 0 .. n /\ (j + 1) - 1 = j /\ g[j] \in Message
      BY <1>1, <2>2
    <3>2. g[j + 1] = PutElement(c, g[j], t, v[j + 1])
      BY <1>8, <3>1
    <3>3. ElementGiven(c, t, v[j + 1])
      BY <3>1
    <3>4. PutElement(c, g[j], t, v[j + 1]) \in Message
      BY <3>1, <3>3, PutElementFacts
    <3> QED
      BY <3>1, <3>2, <3>4
  <2> HIDE DEF S, n
  <2> QED
    BY <1>1, <2>1, <2>2, UpTo
<1>10. g = [j \in 0 .. n |-> g[j]]
  BY <1>6
<1>11. g \in [0 .. n -> Message]
  BY <1>9, <1>10
<1> QED
  BY <1>2, <1>7, <1>8, <1>11 DEF IsWriting

(* Each element leaves those before as they are.                           *)
LEMMA WritingExtends ==
  ASSUME NEW c, IsCodec(c), NEW w \in Message, NEW t, ListType(t),
         NEW v, Len(v) \in Nat, \A j \in 1 .. Len(v) : ElementGiven(c, t, v[j]),
         NEW f, IsWriting(f, c, w, t, v)
  PROVE  \A j \in 0 .. Len(v) : Extends(f[j], f[Len(v)])
<1> DEFINE n == Len(v)
           S == {m \in 0 .. n : Extends(f[n - m], f[n])}
<1>1. n \in Nat /\ f \in [0 .. n -> Message]
      /\ \A j \in 1 .. n : f[j] = PutElement(c, f[j - 1], t, v[j]) /\ ElementGiven(c, t, v[j])
  BY DEF IsWriting
<1> HIDE DEF n
<1>2. 0 \in S
  <2>1. n - 0 = n /\ f[n] \in Message /\ 0 \in 0 .. n
    BY <1>1
  <2>2. Extends(f[n], f[n])
    BY <2>1, ExtendsSelf
  <2> QED
    BY <2>1, <2>2
<1>3. ASSUME NEW m \in 0 .. n - 1, m \in S
      PROVE  m + 1 \in S
  <2> DEFINE j == n - m
             u == f[j - 1]
  <2>1. j \in 1 .. n /\ j \in 0 .. n /\ j - 1 \in 0 .. n /\ n \in 0 .. n /\ n - (m + 1) = j - 1 /\ m + 1 \in 0 .. n
    BY <1>1
  <2>2. Extends(f[j], f[n])
    BY <1>3
  <2> HIDE DEF j
  <2>3. u \in Message /\ f[j] \in Message /\ f[n] \in Message
    BY <1>1, <2>1
  <2>4. f[j] = PutElement(c, u, t, v[j]) /\ ElementGiven(c, t, v[j])
    BY <1>1, <2>1
  <2> HIDE DEF u
  <2>5. Extends(u, f[j])
    BY <2>3, <2>4, PutElementFacts
  <2>6. Extends(u, f[n])
    BY <2>2, <2>3, <2>5, ExtendsOnward
  <2> QED
    BY <2>1, <2>6 DEF u
<1>4. 0 .. n \subseteq S
  <2> HIDE DEF S
  <2> QED
    BY <1>1, <1>2, <1>3, UpTo
<1> SUFFICES ASSUME NEW j \in 0 .. n
             PROVE  Extends(f[j], f[n])
  BY DEF n
<1>5. n - j \in 0 .. n /\ n - (n - j) = j
  BY <1>1
<1>6. n - j \in S
  BY <1>4, <1>5
<1> QED
  BY <1>5, <1>6

(* Elements are written after what is there.                               *)
LEMMA PutElementsFacts ==
  ASSUME NEW c, IsCodec(c), NEW w \in Message, NEW t, ListType(t),
         NEW v, Len(v) \in Nat, \A j \in 1 .. Len(v) : ElementGiven(c, t, v[j])
  PROVE  PutElements(c, w, t, v) \in Message /\ Extends(w, PutElements(c, w, t, v))
<1>1. PICK f : IsWriting(f, c, w, t, v)
  BY WritingExists
<1>2. \A j \in 0 .. Len(v) : Extends(f[j], f[Len(v)])
  BY <1>1, WritingExtends
<1>3. 0 \in 0 .. Len(v) /\ Len(v) \in 0 .. Len(v)
  OBVIOUS
<1> QED
  BY <1>1, <1>2, <1>3 DEF IsWriting

(* Reading elements in turn.                                               *)

(* What elements of a message may be.                                      *)
Elements(d, t, msg) == {GetElement(d, t, msg, a).value : a \in 0 .. Len(msg)}

(* What is read after each element.                                        *)
IsReading(f, d, t, msg, pos, n) ==
  /\ f \in [0 .. n -> [value : Seq(Elements(d, t, msg)), at : 0 .. Len(msg)]]
  /\ f[0] = Read(<<>>, pos)
  /\ \A j \in 1 .. n :
       f[j] = Read(Append(f[j - 1].value, GetElement(d, t, msg, f[j - 1].at).value),
                   GetElement(d, t, msg, f[j - 1].at).at)
  /\ GetElements(d, t, msg, pos, n) = f[n]

(* The recursive definition of GetElements has a value.                    *)
LEMMA ReadingExists ==
  ASSUME NEW d, IsCodec(d), NEW t, ListType(t),
         NEW msg \in Message, Len(msg) % Octet = 0, NEW pos \in 0 .. Len(msg), NEW n \in Nat
  PROVE  \E f : IsReading(f, d, t, msg, pos, n)
<1> DEFINE V == Elements(d, t, msg)
           D == [value : Seq(V), at : 0 .. Len(msg)]
           One(s) == Read(Append(s.value, GetElement(d, t, msg, s.at).value),
                          GetElement(d, t, msg, s.at).at)
           step == [k \in 1 .. n |-> [s \in D |-> One(s)]]
           Course(f) == f = [j \in 0 .. n |-> IF j = 0 THEN Read(<<>>, pos) ELSE
                               Then(f[j - 1], LAMBDA v, next :
                                 Then(GetElement(d, t, msg, next), LAMBDA x, end : Read(Append(v, x), end)))]
           g == CHOOSE f : Course(f)
<1>1. GetElements(d, t, msg, pos, n) = g[n]
  BY DEF GetElements
<1>2. \A s : Then(s, LAMBDA v, next :
               Then(GetElement(d, t, msg, next), LAMBDA x, end : Read(Append(v, x), end))) = One(s)
  BY DEF Then
<1>3. \A s \in D : One(s) \in D
  <2> TAKE s \in D
  <2> DEFINE x == GetElement(d, t, msg, s.at).value
             end == GetElement(d, t, msg, s.at).at
  <2>1. s.value \in Seq(V) /\ s.at \in 0 .. Len(msg)
    OBVIOUS
  <2>2. x \in V
    BY <2>1 DEF Elements
  <2>3. end \in 0 .. Len(msg)
    BY <2>1, GetElementFacts
  <2> HIDE DEF x, end, V
  <2>4. Append(s.value, x) \in Seq(V)
    BY <2>1, <2>2
  <2>5. Read(Append(s.value, x), end) \in D
    BY <2>3, <2>4 DEF Read
  <2> QED
    BY <2>5 DEF x, end
<1>4. Read(<<>>, pos) \in D
  <2>1. <<>> \in Seq(V)
    OBVIOUS
  <2> QED
    BY <2>1 DEF Read
<1> HIDE DEF D, One
<1>5. step \in [1 .. n -> [D -> D]]
  BY <1>3
<1>6. PICK f : IsCourse(f, n, D, Read(<<>>, pos), step)
  <2> HIDE DEF step
  <2> QED
    BY <1>4, <1>5, Iterated
<1>7. Course(f)
  <2>1. f = [k \in 0 .. n |-> IF k = 0 THEN Read(<<>>, pos) ELSE step[k][f[k - 1]]] /\ f \in [0 .. n -> D]
    BY <1>6 DEF IsCourse
  <2>2. ASSUME NEW k \in 0 .. n
        PROVE  f[k] = IF k = 0 THEN Read(<<>>, pos) ELSE One(f[k - 1])
    <3>1. f[k] = IF k = 0 THEN Read(<<>>, pos) ELSE step[k][f[k - 1]]
      <4> HIDE DEF step
      <4> QED
        BY <2>1
    <3>2. CASE k = 0
      <4> HIDE DEF step
      <4> QED
        BY <3>1, <3>2
    <3>3. CASE k # 0
      <4>1. k \in 1 .. n /\ k - 1 \in 0 .. n
        BY <3>3
      <4>2. f[k - 1] \in D
        <5> HIDE DEF step
        <5> QED
          BY <2>1, <4>1
      <4>3. step[k][f[k - 1]] = One(f[k - 1])
        BY <4>1, <4>2
      <4> HIDE DEF step
      <4> QED
        BY <3>1, <3>3, <4>3
    <3> QED
      BY <3>2, <3>3
  <2>3. f = [k \in 0 .. n |-> f[k]]
    <3> HIDE DEF step
    <3> QED
      BY <2>1
  <2>4. [k \in 0 .. n |-> f[k]] = [k \in 0 .. n |-> IF k = 0 THEN Read(<<>>, pos) ELSE One(f[k - 1])]
    BY <2>2
  <2>5. [j \in 0 .. n |-> IF j = 0 THEN Read(<<>>, pos) ELSE
           Then(f[j - 1], LAMBDA v, next :
             Then(GetElement(d, t, msg, next), LAMBDA x, end : Read(Append(v, x), end)))]
        = [k \in 0 .. n |-> IF k = 0 THEN Read(<<>>, pos) ELSE One(f[k - 1])]
    BY <1>2
  <2> HIDE DEF step
  <2> QED
    BY <2>3, <2>4, <2>5
<1>8. Course(g)
  <2> HIDE DEF Course
  <2> QED
    BY <1>7
<1> HIDE DEF g
<1>9. g[0] = Read(<<>>, pos)
  <2>1. 0 \in 0 .. n
    OBVIOUS
  <2>2. g = [j \in 0 .. n |-> IF j = 0 THEN Read(<<>>, pos) ELSE One(g[j - 1])]
    BY <1>2, <1>8
  <2> QED
    BY <2>1, <2>2
<1>10. ASSUME NEW k \in 1 .. n
       PROVE  g[k] = One(g[k - 1])
  <2>1. k \in 0 .. n /\ k # 0
    OBVIOUS
  <2>2. g[k] = Then(g[k - 1], LAMBDA v, next :
                 Then(GetElement(d, t, msg, next), LAMBDA x, end : Read(Append(v, x), end)))
    BY <1>8, <2>1
  <2> QED
    BY <1>2, <2>2
<1> DEFINE S == {j \in 0 .. n : g[j] \in D}
<1>11. 0 .. n \subseteq S
  <2>1. 0 \in S
    BY <1>4, <1>9
  <2>2. ASSUME NEW j \in 0 .. n - 1, j \in S
        PROVE  j + 1 \in S
    <3>1. j + 1 \in 1 .. n /\ j + 1 \in 0 .. n /\ (j + 1) - 1 = j /\ g[j] \in D
      BY <2>2
    <3>2. g[j + 1] = One(g[j])
      BY <1>10, <3>1
    <3> QED
      BY <1>3, <3>1, <3>2
  <2> HIDE DEF S
  <2> QED
    BY <2>1, <2>2, UpTo
<1>12. g = [j \in 0 .. n |-> g[j]]
  BY <1>8
<1>13. g \in [0 .. n -> D]
  BY <1>11, <1>12
<1> HIDE DEF V
<1> QED
  BY <1>1, <1>9, <1>10, <1>13 DEF IsReading, D, One, V

(* One more of a sequence.                                                 *)
LEMMA PrefixGrows ==
  ASSUME NEW S, NEW n \in Nat, NEW y \in [1 .. n -> S], NEW j \in 0 .. n - 1
  PROVE  Append([k \in 1 .. j |-> y[k]], y[j + 1]) = [k \in 1 .. j + 1 |-> y[k]]
<1> DEFINE a == [k \in 1 .. j |-> y[k]]
           b == [k \in 1 .. j + 1 |-> y[k]]
           o == y[j + 1]
<1>1. j \in Nat /\ j + 1 \in Nat /\ o \in S
  OBVIOUS
<1>2. a \in [1 .. j -> S] /\ b \in [1 .. j + 1 -> S]
  OBVIOUS
<1>3. \A k \in 1 .. j : a[k] = y[k]
  OBVIOUS
<1>4. \A k \in 1 .. j + 1 : b[k] = y[k]
  OBVIOUS
<1> HIDE DEF a, b
<1>5. a \in Seq(S) /\ Len(a) = j /\ b \in Seq(S) /\ Len(b) = j + 1
  BY <1>1, <1>2
<1>6. /\ Append(a, o) \in Seq(S) /\ Len(Append(a, o)) = j + 1
      /\ Append(a, o)[j + 1] = o /\ \A k \in 1 .. j : Append(a, o)[k] = a[k]
  <2> HIDE DEF o
  <2> QED
    BY <1>1, <1>5
<1> DEFINE c == Append(a, o)
<1> HIDE DEF c
<1>7. c \in Seq(S) /\ Len(c) = j + 1 /\ c[j + 1] = o /\ \A k \in 1 .. j : c[k] = a[k]
  BY <1>6 DEF c
<1>8. \A k \in 1 .. j + 1 : c[k] = b[k]
  <2> TAKE k \in 1 .. j + 1
  <2>1. CASE k = j + 1
    BY <1>4, <1>7, <2>1
  <2>2. CASE k # j + 1
    <3>1. k \in 1 .. j
      BY <1>1, <2>2
    <3> QED
      BY <1>3, <1>4, <1>7, <3>1
  <2> QED
    BY <2>1, <2>2
<1>9. c = [k \in 1 .. j + 1 |-> c[k]] /\ b = [k \in 1 .. j + 1 |-> b[k]]
  BY <1>1, <1>2, <1>7
<1>10. c = b
  BY <1>8, <1>9
<1> QED
  BY <1>10 DEF a, b, c

(* All elements are read where they were written.                          *)
LEMMA ElementsTrip ==
  ASSUME Ends, NEW w \in Message, NEW t, ListType(t), NEW v, Len(v) \in Nat,
         \A j \in 1 .. Len(v) : ElementGiven(from, t, v[j]) /\ ElementFramed(t, v[j]),
         NEW msg \in Message, Len(msg) % Octet = 0, Extends(PutElements(from, w, t, v), msg)
  PROVE  \E y \in Seq(Scalars) :
           /\ GetElements(to, t, msg, Len(w), Len(v)) = Read(y, Len(PutElements(from, w, t, v)))
           /\ Len(y) = Len(v)
           /\ \A j \in 1 .. Len(v) : ElementFaithful(t, v[j]) => y[j] = v[j]
<1> DEFINE n == Len(v)
<1>1. IsCodec(from) /\ IsCodec(to)
  BY DEF Ends
<1>2. PICK f : IsWriting(f, from, w, t, v)
  BY <1>1, WritingExists
<1>3. \A j \in 0 .. n : Extends(f[j], f[n])
  BY <1>1, <1>2, WritingExtends
<1>4. /\ n \in Nat /\ f \in [0 .. n -> Message] /\ f[0] = w
      /\ \A j \in 1 .. n : f[j] = PutElement(from, f[j - 1], t, v[j])
      /\ PutElements(from, w, t, v) = f[n]
  BY <1>2 DEF IsWriting
<1>5. \A j \in 1 .. n : ElementGiven(from, t, v[j]) /\ ElementFramed(t, v[j])
  OBVIOUS
<1> HIDE DEF n
<1>6. \A j \in 0 .. n : f[j] \in Message /\ Extends(f[j], msg)
  <2> TAKE j \in 0 .. n
  <2>1. f[j] \in Message /\ f[n] \in Message
    BY <1>4
  <2> QED
    BY <1>3, <1>4, <2>1, ExtendsOnward
<1>7. Len(w) \in 0 .. Len(msg)
  <2>1. 0 \in 0 .. n
    BY <1>4
  <2>2. Extends(w, msg)
    BY <1>4, <1>6, <2>1
  <2> QED
    BY <2>2, MessageFacts DEF Extends
<1>8. PICK g : IsReading(g, to, t, msg, Len(w), n)
  BY <1>1, <1>4, <1>7, ReadingExists
<1> DEFINE y == [j \in 1 .. n |-> GetElement(to, t, msg, Len(f[j - 1])).value]
<1>9. ASSUME NEW j \in 1 .. n
      PROVE  /\ y[j] \in Scalars
             /\ GetElement(to, t, msg, Len(f[j - 1])).value = y[j]
             /\ GetElement(to, t, msg, Len(f[j - 1])).at = Len(f[j])
             /\ ElementFaithful(t, v[j]) => y[j] = v[j]
  <2> DEFINE u == f[j - 1]
             x == v[j]
  <2>1. j - 1 \in 0 .. n /\ j \in 0 .. n
    BY <1>4
  <2>2. u \in Message /\ f[j] = PutElement(from, u, t, x) /\ Extends(PutElement(from, u, t, x), msg)
    BY <1>4, <1>6, <2>1
  <2>3. ElementGiven(from, t, x) /\ ElementFramed(t, x)
    BY <1>5
  <2>4. y[j] = GetElement(to, t, msg, Len(u)).value
    OBVIOUS
  <2> HIDE DEF u, x, y
  <2>5. PICK z \in Scalars :
           /\ GetElement(to, t, msg, Len(u)) = Read(z, Len(PutElement(from, u, t, x)))
           /\ ElementFaithful(t, x) => z = x
    BY <2>2, <2>3, ElementTrip
  <2>6. GetElement(to, t, msg, Len(u)).value = z /\ GetElement(to, t, msg, Len(u)).at = Len(f[j])
    BY <2>2, <2>5 DEF Read
  <2> QED
    BY <2>4, <2>5, <2>6 DEF u, x
<1> DEFINE part(j) == [k \in 1 .. j |-> y[k]]
           S == {j \in 0 .. n : g[j] = Read(part(j), Len(f[j]))}
<1>10. y \in [1 .. n -> Scalars]
  BY <1>9
<1> HIDE DEF y
<1>11. 0 \in S
  <2>1. 0 \in 0 .. n /\ part(0) = <<>>
    BY <1>4
  <2> QED
    BY <1>4, <1>8, <2>1 DEF IsReading
<1>12. ASSUME NEW j \in 0 .. n - 1, j \in S
       PROVE  j + 1 \in S
  <2>1. j + 1 \in 1 .. n /\ j + 1 \in 0 .. n /\ (j + 1) - 1 = j
    BY <1>4
  <2>2. g[j].value = part(j) /\ g[j].at = Len(f[j])
    BY <1>12 DEF Read
  <2>3. g[j + 1] = Read(Append(g[j].value, GetElement(to, t, msg, g[j].at).value),
                        GetElement(to, t, msg, g[j].at).at)
    BY <1>8, <2>1 DEF IsReading
  <2>4. GetElement(to, t, msg, Len(f[j])).value = y[j + 1] /\ GetElement(to, t, msg, Len(f[j])).at = Len(f[j + 1])
    BY <1>9, <2>1
  <2>5. g[j + 1] = Read(Append(part(j), y[j + 1]), Len(f[j + 1]))
    BY <2>2, <2>3, <2>4
  <2>6. Append(part(j), y[j + 1]) = part(j + 1)
    <3>1. n \in Nat /\ j \in 0 .. n - 1
      BY <1>4
    <3>2. Append([k \in 1 .. j |-> y[k]], y[j + 1]) = [k \in 1 .. j + 1 |-> y[k]]
      BY <1>10, <3>1, PrefixGrows
    <3> QED
      BY <3>2
  <2> HIDE DEF part
  <2> QED
    BY <2>1, <2>5, <2>6
<1>13. n \in S
  <2>1. 0 .. n \subseteq S
    <3> HIDE DEF S
    <3> QED
      BY <1>4, <1>11, <1>12, UpTo
  <2> QED
    BY <1>4, <2>1
<1>14. part(n) = y
  BY <1>10
<1>15. GetElements(to, t, msg, Len(w), n) = Read(y, Len(f[n]))
  BY <1>8, <1>13, <1>14 DEF IsReading
<1>16. y \in Seq(Scalars) /\ Len(y) = n
  BY <1>4, <1>10
<1> QED
  BY <1>4, <1>9, <1>15, <1>16 DEF n

(* Lists.                                                                  *)

(* A list that the encoder takes and writes.                               *)
ListGiven(c, t, v) ==
  ListType(t) /\ PlainValue(t, v) /\ PlainAccepted(c, t, v) /\ ~ Unwritten(c, t)

(* The elements of a list that the encoder takes.                          *)
LEMMA ListGivenFacts ==
  ASSUME NEW c, IsCodec(c), NEW t, NEW v, ListGiven(c, t, v)
  PROVE  /\ Len(v) \in Nat /\ SizeFits(t, Len(v))
         /\ \A j \in 1 .. Len(v) : v[j] \in ToSet(v)
         /\ ~ ElementsLeftOut(c, t) => \A j \in 1 .. Len(v) : ElementGiven(c, t, v[j])
         /\ t.kind = "items" /\ t.set => v \in Seq(Int)
         /\ v = [j \in 1 .. Len(v) |-> v[j]]
<1>1. /\ ListType(t) /\ PlainValue(t, v) /\ PlainAccepted(c, t, v) /\ ~ Unwritten(c, t)
      /\ t.kind \in Lists /\ t.kind \in {"octets", "bits", "items"}
  BY ListTypeFacts DEF ListGiven, ListType
<1>2. v \in Seq(ToSet(v))
  <2>1. \A A : v \in Seq(A) => v \in Seq(ToSet(v))
    <3> TAKE A
    <3> HAVE v \in Seq(A)
    <3>1. Len(v) \in Nat /\ DOMAIN v = 1 .. Len(v) /\ v = [j \in 1 .. Len(v) |-> v[j]]
      OBVIOUS
    <3>2. \A j \in 1 .. Len(v) : v[j] \in ToSet(v)
      BY <3>1 DEF ToSet
    <3>3. v \in [1 .. Len(v) -> ToSet(v)]
      BY <3>1, <3>2
    <3> QED
      BY <3>1, <3>3
  <2> QED
    BY <1>1, <2>1 DEF PlainValue
<1>3. Len(v) \in Nat /\ DOMAIN v = 1 .. Len(v) /\ \A j \in 1 .. Len(v) : v[j] \in ToSet(v)
  BY <1>2
<1>4. SizeFits(t, Len(v))
  BY <1>1 DEF PlainAccepted, ListFits
<1>5. ASSUME ~ ElementsLeftOut(c, t), NEW j \in 1 .. Len(v)
      PROVE  ElementGiven(c, t, v[j])
  <2>1. CASE t.kind = "octets"
    <3>1. v \in Seq(0 .. Power[Octet] - 1)
      BY <1>1, <2>1 DEF PlainValue
    <3> DEFINE A == 0 .. Power[Octet] - 1
    <3> HIDE DEF A
    <3>2. v \in Seq(A)
      BY <3>1 DEF A
    <3>3. v[j] \in A
      BY <3>2
    <3> QED
      BY <2>1, <3>3 DEF ElementGiven, A
  <2>2. CASE t.kind = "bits"
    <3>1. v \in Seq({0, 1})
      BY <1>1, <2>2 DEF PlainValue
    <3>2. v[j] \in {0, 1}
      BY <3>1
    <3> QED
      BY <2>2, <3>2 DEF ElementGiven
  <2>3. CASE t.kind = "items"
    <3>1. v[j] \in ToSet(v)
      BY <1>3
    <3>2. ScalarType(t.of)
      BY <1>1, <2>3, ListTypeFacts
    <3>3. ScalarValue(t.of, v[j])
      BY <1>1, <2>3, <3>1 DEF PlainValue
    <3>4. ScalarAccepted(c, t.of, v[j])
      BY <1>1, <1>5, <2>3, <3>1 DEF PlainAccepted
    <3> QED
      BY <2>3, <3>2, <3>3, <3>4 DEF ElementGiven, ScalarGiven
  <2> QED
    BY <1>1, <2>1, <2>2, <2>3
<1>6. ASSUME t.kind = "items", t.set
      PROVE  v \in Seq(Int)
  <2>1. t.of.kind \in {"integer", "unbounded", "boolean"}
    BY <1>1, <1>6, ListTypeFacts
  <2>2. \A x \in ToSet(v) : ScalarValue(t.of, x)
    BY <1>1, <1>6 DEF PlainValue
  <2>3. \A x \in ToSet(v) : x \in Int
    BY <2>1, <2>2 DEF ScalarValue, Int64
  <2>4. ToSet(v) \subseteq Int
    BY <2>3
  <2> DEFINE A == ToSet(v)
  <2> HIDE DEF A
  <2>5. A \subseteq Int /\ v \in Seq(A)
    BY <1>2, <2>4 DEF A
  <2>6. v \in [1 .. Len(v) -> Int] /\ Len(v) \in Nat
    <3>1. Len(v) \in Nat /\ v = [j \in 1 .. Len(v) |-> v[j]] /\ \A j \in 1 .. Len(v) : v[j] \in A
      BY <2>5
    <3>2. \A j \in 1 .. Len(v) : v[j] \in Int
      BY <2>5, <3>1
    <3> QED
      BY <3>1, <3>2
  <2> QED
    BY <2>6
<1>7. v = [j \in 1 .. Len(v) |-> v[j]]
  BY <1>2
<1> QED
  BY <1>3, <1>4, <1>5, <1>6, <1>7

(* A list in the order sent has the same meaning.                          *)
LEMMA SentOrderFacts ==
  ASSUME NEW c, IsCodec(c), NEW t, NEW v, ListGiven(c, t, v)
  PROVE  /\ Len(SentOrder(c, t, v)) = Len(v)
         /\ \A j \in 1 .. Len(v) : \E k \in 1 .. Len(v) : SentOrder(c, t, v)[j] = v[k]
         /\ PlainMeaning(t, SentOrder(c, t, v)) = PlainMeaning(t, v)
         /\ SentOrder(c, t, v) = [j \in 1 .. Len(v) |-> SentOrder(c, t, v)[j]]
         /\ SentOrder(c, t, v) = v \/ SentOrder(c, t, v) \in Seq(Int)
<1>1. CASE t.kind = "items" /\ t.set /\ Cpp(c)
  <2>1. v \in Seq(Int)
    BY <1>1, ListGivenFacts
  <2>2. SentOrder(c, t, v) = Sorted(v)
    BY <1>1 DEF SentOrder
  <2>3. Sorted(Sorted(v)) = Sorted(v)
    BY <2>1, SortedTwice
  <2>4. /\ Len(Sorted(v)) = Len(v) /\ Sorted(v) \in Seq(Int)
        /\ \A j \in 1 .. Len(v) : \E k \in 1 .. Len(v) : Sorted(v)[j] = v[k]
    BY <2>1, SortedFacts
  <2>5. Sorted(v) = [j \in 1 .. Len(v) |-> Sorted(v)[j]]
    BY <2>1, NumbersFacts DEF Sorted
  <2> QED
    BY <1>1, <2>2, <2>3, <2>4, <2>5 DEF PlainMeaning
<1>2. CASE ~ (t.kind = "items" /\ t.set /\ Cpp(c))
  <2>1. SentOrder(c, t, v) = v
    BY <1>2 DEF SentOrder
  <2>2. v = [j \in 1 .. Len(v) |-> v[j]]
    BY ListGivenFacts
  <2> QED
    BY <2>1, <2>2
<1> QED
  BY <1>1, <1>2

(* A list is written after what is there.                                  *)
LEMMA PutListFacts ==
  ASSUME NEW c, IsCodec(c), NEW w \in Message, NEW t, NEW v, ListGiven(c, t, v)
  PROVE  PutList(c, w, t, v) \in Message /\ Extends(w, PutList(c, w, t, v))
<1> DEFINE n == Len(v)
           s == PutSize(c, w, t, n)
           u == SentOrder(c, t, v)
           p == PutElements(c, s, t, u)
<1>1. n \in Nat /\ ListType(t) /\ IsSize(t)
  BY ListGivenFacts, ListTypeFacts DEF ListGiven
<1>2. s \in Message /\ Extends(w, s)
  BY <1>1, SizeSentFacts
<1>3. CASE ElementsLeftOut(c, t)
  BY <1>2, <1>3 DEF PutList, ListGiven
<1>4. CASE ~ ElementsLeftOut(c, t)
  <2>1. Len(u) = n /\ \A j \in 1 .. n : \E k \in 1 .. n : u[j] = v[k]
    BY SentOrderFacts
  <2>2. \A k \in 1 .. n : ElementGiven(c, t, v[k])
    BY <1>4, ListGivenFacts
  <2>3. PutList(c, w, t, v) = p
    BY <1>4 DEF PutList, ListGiven
  <2> HIDE DEF s, u
  <2>4. Len(u) \in Nat /\ \A j \in 1 .. Len(u) : ElementGiven(c, t, u[j])
    BY <1>1, <2>1, <2>2
  <2>5. p \in Message /\ Extends(s, p)
    BY <1>1, <1>2, <2>4, PutElementsFacts
  <2>6. Extends(w, p)
    BY <1>2, <2>5, ExtendsOnward
  <2> QED
    BY <2>3, <2>5, <2>6
<1> QED
  BY <1>3, <1>4

(* A list is read where it was written, and means the same when it is      *)
(* faithful.                                                               *)
LEMMA ListTrip ==
  ASSUME Ends, NEW w \in Message, NEW t, NEW v, ListGiven(from, t, v), FramedPlain(t, v),
         NEW msg \in Message, Len(msg) % Octet = 0, Extends(PutList(from, w, t, v), msg)
  PROVE  \E y \in Seq(Scalars) :
           /\ GetList(to, t, msg, Len(w)) = Read(y, Len(PutList(from, w, t, v)))
           /\ FaithfulPlain(t, v) =>
                (y = v \/ y \in Seq(Int)) /\ PlainMeaning(t, y) = PlainMeaning(t, v)
<1> DEFINE n == Len(v)
           s == PutSize(from, w, t, n)
           u == SentOrder(from, t, v)
           p == PutList(from, w, t, v)
<1>1. IsCodec(from) /\ IsCodec(to) /\ ListType(t) /\ IsSize(t) /\ t.kind \in Lists
  BY ListTypeFacts DEF Ends, ListGiven, ListType
<1>2. /\ n \in Nat /\ SizeFits(t, n)
      /\ \A j \in 1 .. n : v[j] \in ToSet(v)
      /\ ~ ElementsLeftOut(from, t) => \A j \in 1 .. n : ElementGiven(from, t, v[j])
  BY <1>1, ListGivenFacts
<1>3. /\ Len(u) = n /\ (\A j \in 1 .. n : \E k \in 1 .. n : u[j] = v[k])
      /\ PlainMeaning(t, u) = PlainMeaning(t, v)
      /\ u = [j \in 1 .. n |-> u[j]]
      /\ u = v \/ u \in Seq(Int)
  BY <1>1, SentOrderFacts
<1>4. /\ ~ Sized(t) => Countable(n)
      /\ Sized(t) => SameWidth(t.size[1], t.size[2]) /\ InWidth(n, t.size[1], t.size[2])
      /\ t.kind = "items" => /\ ElementsLeftOut(from, t) = ElementsLeftOut(to, t)
                             /\ \A x \in ToSet(v) : FramedScalar(t.of, x)
      /\ ~ Unwritten(from, t) /\ ~ Unwritten(to, t)
  BY <1>1 DEF FramedPlain, ListGiven, Silent, Spoken
<1>5. ElementsLeftOut(from, t) <=> ElementsLeftOut(to, t)
  BY <1>4 DEF ElementsLeftOut
<1>6. \A j \in 1 .. n : ElementFramed(t, v[j])
  BY <1>2, <1>4 DEF ElementFramed
<1>7. s \in Message /\ Extends(w, s)
  BY <1>1, <1>2, SizeSentFacts
<1>8. p = IF ElementsLeftOut(from, t) THEN s ELSE PutElements(from, s, t, u)
  BY <1>4 DEF PutList
<1>9. Extends(p, msg)
  OBVIOUS
<1> HIDE DEF s, u, p
<1>10. ASSUME Extends(s, msg)
       PROVE  GetSize(to, t, msg, Len(w)) = Read(n, Len(s))
  <2> HIDE DEF n
  <2>1. Extends(PutSize(from, w, t, n), msg)
    BY <1>10 DEF s
  <2> QED
    BY <1>1, <1>2, <1>4, <2>1, SizeTrip DEF s
<1>11. n # Bad
  BY <1>2, SequencesAreScalars, BadAssumption
<1>12. ASSUME ElementsLeftOut(from, t)
       PROVE  \E y \in Seq(Scalars) : GetList(to, t, msg, Len(w)) = Read(y, Len(p)) /\ ~ FaithfulPlain(t, v)
  <2> DEFINE y == [k \in 1 .. n |-> Absent]
  <2>1. GetSize(to, t, msg, Len(w)) = Read(n, Len(s))
    BY <1>8, <1>9, <1>10, <1>12
  <2>2. GetList(to, t, msg, Len(w)) = Read(y, Len(s))
    BY <1>4, <1>5, <1>11, <1>12, <2>1 DEF GetList, Then, Read
  <2>3. y \in [1 .. n -> Scalars]
    BY DEF Scalars
  <2>4. y \in Seq(Scalars)
    <3> HIDE DEF y
    <3> QED
      BY <1>2, <2>3
  <2>5. ~ FaithfulPlain(t, v)
    BY <1>1, <1>12 DEF FaithfulPlain, ElementsLeftOut
  <2> HIDE DEF y
  <2> QED
    BY <1>8, <1>12, <2>2, <2>4, <2>5
<1>13. ASSUME ~ ElementsLeftOut(from, t)
       PROVE  \E y \in Seq(Scalars) :
                /\ GetList(to, t, msg, Len(w)) = Read(y, Len(p))
                /\ FaithfulPlain(t, v) => y = u
  <2>1. p = PutElements(from, s, t, u)
    BY <1>8, <1>13
  <2>2. Len(u) \in Nat /\ \A j \in 1 .. Len(u) : ElementGiven(from, t, u[j]) /\ ElementFramed(t, u[j])
    BY <1>2, <1>3, <1>6, <1>13
  <2>3. p \in Message /\ Extends(s, p)
    BY <1>1, <1>7, <2>1, <2>2, PutElementsFacts
  <2>4. Extends(s, msg)
    BY <1>7, <1>9, <2>3, ExtendsOnward
  <2>5. GetSize(to, t, msg, Len(w)) = Read(n, Len(s))
    BY <1>10, <2>4
  <2>6. PICK y \in Seq(Scalars) :
          /\ GetElements(to, t, msg, Len(s), Len(u)) = Read(y, Len(PutElements(from, s, t, u)))
          /\ Len(y) = Len(u)
          /\ \A j \in 1 .. Len(u) : ElementFaithful(t, u[j]) => y[j] = u[j]
    BY <1>1, <1>7, <1>9, <2>1, <2>2, ElementsTrip
  <2>7. Bad \notin ToSet(y)
    <3>1. \A j \in DOMAIN y : y[j] \in Scalars
      BY <2>6
    <3> QED
      BY <3>1, BadAssumption DEF ToSet
  <2>8. GetList(to, t, msg, Len(w)) = Read(y, Len(p))
    <3>1. GetElements(to, t, msg, Len(s), n) = Read(y, Len(p))
      BY <1>3, <2>1, <2>6
    <3> QED
      BY <1>4, <1>5, <1>11, <1>13, <2>5, <2>7, <3>1 DEF GetList, Then, Read
  <2>9. ASSUME FaithfulPlain(t, v)
        PROVE  y = u
    <3>1. \A j \in 1 .. n : ElementFaithful(t, v[j])
      BY <1>1, <1>2, <2>9 DEF FaithfulPlain, ElementFaithful
    <3>2. \A j \in 1 .. n : y[j] = u[j]
      BY <1>3, <2>6, <3>1
    <3>3. y = [j \in 1 .. n |-> y[j]]
      BY <1>3, <2>6
    <3> QED
      BY <1>3, <3>2, <3>3
  <2> QED
    BY <2>6, <2>8, <2>9
<1> HIDE DEF n
<1>14. \E y \in Seq(Scalars) :
         /\ GetList(to, t, msg, Len(w)) = Read(y, Len(p))
         /\ FaithfulPlain(t, v) =>
              (y = v \/ y \in Seq(Int)) /\ PlainMeaning(t, y) = PlainMeaning(t, v)
  <2>1. CASE ElementsLeftOut(from, t)
    BY <1>12, <2>1
  <2>2. CASE ~ ElementsLeftOut(from, t)
    <3>1. PICK y \in Seq(Scalars) :
                /\ GetList(to, t, msg, Len(w)) = Read(y, Len(p))
                /\ FaithfulPlain(t, v) => y = u
      BY <1>13, <2>2
    <3> QED
      BY <1>3, <3>1
  <2> QED
    BY <2>1, <2>2
<1> QED
  BY <1>14 DEF p

(* From any message a C++ decoder gets a sound list, or fails.             *)
LEMMA GetListFacts ==
  ASSUME NEW d, IsCodec(d), NEW t, ListType(t), ~ Unwritten(d, t),
         NEW msg \in Message, Len(msg) % Octet = 0, NEW pos \in 0 .. Len(msg)
  PROVE  /\ GetList(d, t, msg, pos).at \in pos .. Len(msg)
         /\ Cpp(d) => \/ GetList(d, t, msg, pos).value = Bad
                      \/ PlainSound(d, t, GetList(d, t, msg, pos).value)
<1> DEFINE n == GetSize(d, t, msg, pos).value
           next == GetSize(d, t, msg, pos).at
           g == GetList(d, t, msg, pos)
           x == GetElements(d, t, msg, next, n)
<1>1. t.kind \in Lists /\ IsSize(t)
  BY ListTypeFacts DEF ListType
<1>2. /\ next \in pos .. Len(msg) /\ (n = Bad \/ n \in Nat)
      /\ Cpp(d) => n = Bad \/ (SizeFits(t, n) /\ (~ Sized(t) => ~ LengthRefused(d.lang, n)))
  BY <1>1, GetSizeFacts
<1>3. g = IF n = Bad THEN Read(Bad, next)
          ELSE IF ElementsLeftOut(d, t) THEN Read([k \in 1 .. n |-> Absent], next)
          ELSE Read(IF Bad \in ToSet(x.value) THEN Bad ELSE x.value, x.at)
  BY DEF GetList, Then
<1>4. Len(msg) \in Nat /\ pos \in Nat /\ next \in 0 .. Len(msg)
  BY <1>2, MessageFacts
<1> HIDE DEF n, next, g
<1>5. CASE n = Bad
  <2>1. g.at = next /\ g.value = Bad
    BY <1>3, <1>5 DEF Read
  <2> QED
    BY <1>2, <2>1 DEF g
<1>6. CASE n # Bad /\ ElementsLeftOut(d, t)
  <2>1. g.at = next /\ ~ Cpp(d)
    BY <1>3, <1>6 DEF Read, ElementsLeftOut
  <2> QED
    BY <1>2, <2>1 DEF g
<1>7. CASE n # Bad /\ ~ ElementsLeftOut(d, t)
  <2>1. n \in Nat
    BY <1>2, <1>7
  <2>2. PICK f : IsReading(f, d, t, msg, next, n)
    BY <1>4, <2>1, ReadingExists
  <2> DEFINE V == Elements(d, t, msg)
             S == {j \in 0 .. n : Len(f[j].value) = j /\ f[j].at \in next .. Len(msg)}
  <2>3. /\ f \in [0 .. n -> [value : Seq(V), at : 0 .. Len(msg)]]
        /\ f[0] = Read(<<>>, next)
        /\ \A j \in 1 .. n :
             f[j] = Read(Append(f[j - 1].value, GetElement(d, t, msg, f[j - 1].at).value),
                         GetElement(d, t, msg, f[j - 1].at).at)
        /\ x = f[n]
    BY <2>2 DEF IsReading
  <2>4. \A j \in 0 .. n : f[j].value \in Seq(V) /\ f[j].at \in 0 .. Len(msg)
    <3> HIDE DEF V
    <3> TAKE j \in 0 .. n
    <3>1. f[j] \in [value : Seq(V), at : 0 .. Len(msg)]
      BY <2>3
    <3> QED
      BY <3>1
  <2> HIDE DEF V
  <2>5. 0 \in S
    <3>1. f[0].value = <<>> /\ f[0].at = next
      BY <2>3 DEF Read
    <3> QED
      BY <1>4, <2>1, <3>1
  <2>6. ASSUME NEW j \in 0 .. n - 1, j \in S
        PROVE  j + 1 \in S
    <3> DEFINE e == GetElement(d, t, msg, f[j].at)
    <3>1. j + 1 \in 1 .. n /\ j + 1 \in 0 .. n /\ j \in 0 .. n /\ (j + 1) - 1 = j
      BY <2>1
    <3>2. f[j].value \in Seq(V) /\ f[j].at \in 0 .. Len(msg) /\ f[j].at \in next .. Len(msg) /\ Len(f[j].value) = j
      BY <2>4, <2>6, <3>1
    <3>3. e.at \in f[j].at .. Len(msg)
      BY <3>2, GetElementFacts
    <3>4. f[j + 1] = Read(Append(f[j].value, e.value), e.at)
      BY <2>3, <3>1
    <3> HIDE DEF e
    <3>5. f[j + 1].value = Append(f[j].value, e.value) /\ f[j + 1].at = e.at
      BY <3>4 DEF Read
    <3>6. Len(Append(f[j].value, e.value)) = j + 1
      BY <3>2
    <3>7. e.at \in next .. Len(msg)
      BY <1>4, <3>2, <3>3
    <3> QED
      BY <3>1, <3>5, <3>6, <3>7
  <2>7. n \in S
    <3>1. 0 .. n \subseteq S
      <4> HIDE DEF S
      <4> QED
        BY <2>1, <2>5, <2>6, UpTo
    <3> QED
      BY <2>1, <3>1
  <2>8. Len(x.value) = n /\ x.at \in next .. Len(msg) /\ x.value \in Seq(V)
    BY <2>1, <2>3, <2>4, <2>7
  <2>9. g.value = (IF Bad \in ToSet(x.value) THEN Bad ELSE x.value) /\ g.at = x.at
    BY <1>3, <1>7 DEF Read
  <2> DEFINE y == x.value
  <2> HIDE DEF x
  <2>10. g.at \in pos .. Len(msg)
    BY <1>2, <1>4, <2>8, <2>9
  <2>11. ASSUME Cpp(d), g.value # Bad
         PROVE  PlainSound(d, t, g.value)
    <3>1. g.value = y /\ Bad \notin ToSet(y) /\ Len(y) = n /\ y \in Seq(V)
      BY <2>8, <2>9, <2>11
    <3> HIDE DEF y
    <3>2. SizeFits(t, Len(y)) /\ (~ Sized(t) => ~ LengthRefused(d.lang, Len(y)))
      BY <1>2, <1>7, <2>11, <3>1
    <3>3. ASSUME t.kind = "items", NEW z \in ToSet(y)
          PROVE  ScalarSound(d, t.of, z)
      <4>1. z \in V /\ z # Bad
        BY <3>1, <3>3 DEF ToSet
      <4>2. PICK a \in 0 .. Len(msg) : z = GetElement(d, t, msg, a).value
        BY <4>1 DEF V, Elements
      <4> QED
        BY <2>11, <3>3, <4>1, <4>2, GetElementFacts
    <3> QED
      BY <1>1, <3>1, <3>2, <3>3 DEF PlainSound, ListFits
  <2> QED
    BY <2>10, <2>11 DEF g
<1> QED
  BY <1>5, <1>6, <1>7

(* Scalars and lists.                                                      *)

(* A member without alternatives that the encoder takes.                   *)
PlainGiven(c, t, v) ==
  PlainType(t) /\ PlainValue(t, v) /\ PlainAccepted(c, t, v)

(* It is a list or a scalar.                                               *)
LEMMA PlainGivenFacts ==
  ASSUME NEW c, NEW t, NEW v, PlainGiven(c, t, v)
  PROVE  /\ t.kind \in Lists /\ ~ Unwritten(c, t) => ListGiven(c, t, v)
         /\ t.kind \notin Lists => ScalarGiven(c, t, v)
BY DEF PlainGiven, ListGiven, ListType, ScalarGiven, PlainType, PlainValue, PlainAccepted

(* A list that is not written has no bits.                                 *)
LEMMA UnwrittenPlain ==
  ASSUME NEW c, NEW t, Unwritten(c, t), NEW w, NEW v, NEW msg, NEW pos
  PROVE  PutPlain(c, w, t, v) = w /\ GetPlain(c, t, msg, pos) = Read(Unread(c, t), pos)
BY DEF PutPlain, PutList, PutScalar, GetPlain, GetList, GetScalar

(* It is written after what is there.                                      *)
LEMMA PutPlainFacts ==
  ASSUME NEW c, IsCodec(c), NEW w \in Message, NEW t, NEW v, PlainGiven(c, t, v)
  PROVE  PutPlain(c, w, t, v) \in Message /\ Extends(w, PutPlain(c, w, t, v))
BY PlainGivenFacts, PutListFacts, PutScalarFacts, UnwrittenPlain, ExtendsSelf DEF PutPlain

(* The values of members without alternatives.                             *)
Plains == Scalars \cup Seq(Scalars)

(* It is read where it was written, and means the same when it is          *)
(* faithful.                                                               *)
LEMMA PlainTrip ==
  ASSUME Ends, NEW w \in Message, NEW t, NEW v, PlainGiven(from, t, v), FramedPlain(t, v),
         NEW msg \in Message, Len(msg) % Octet = 0, Extends(PutPlain(from, w, t, v), msg)
  PROVE  \E y \in Plains :
           /\ GetPlain(to, t, msg, Len(w)) = Read(y, Len(PutPlain(from, w, t, v)))
           /\ FaithfulPlain(t, v) =>
                (y = v \/ y \in Seq(Int)) /\ PlainMeaning(t, y) = PlainMeaning(t, v)
<1>0. CASE t.kind \in Lists /\ Unwritten(from, t)
  <2>1. Unwritten(to, t) /\ ~ FaithfulPlain(t, v)
    BY <1>0 DEF FramedPlain, FaithfulPlain, Silent, Spoken
  <2>2. /\ PutPlain(from, w, t, v) = w
        /\ GetPlain(to, t, msg, Len(w)) = Read(Unread(to, t), Len(w))
    BY <1>0, <2>1, UnwrittenPlain
  <2>3. Unread(to, t) \in Plains
    BY UnreadPlain DEF PlainGiven, Plains
  <2> QED
    BY <2>1, <2>2, <2>3
<1>1. CASE t.kind \in Lists /\ ~ Unwritten(from, t)
  <2>1. ListGiven(from, t, v) /\ PutPlain(from, w, t, v) = PutList(from, w, t, v)
        /\ GetPlain(to, t, msg, Len(w)) = GetList(to, t, msg, Len(w))
    BY <1>1, PlainGivenFacts DEF PutPlain, GetPlain
  <2>2. \E y \in Seq(Scalars) :
           /\ GetList(to, t, msg, Len(w)) = Read(y, Len(PutList(from, w, t, v)))
           /\ FaithfulPlain(t, v) =>
                (y = v \/ y \in Seq(Int)) /\ PlainMeaning(t, y) = PlainMeaning(t, v)
    BY <2>1, ListTrip
  <2> QED
    BY <2>1, <2>2 DEF Plains
<1>2. CASE t.kind \notin Lists
  <2>1. /\ ScalarGiven(from, t, v) /\ PutPlain(from, w, t, v) = PutScalar(from, w, t, v)
        /\ GetPlain(to, t, msg, Len(w)) = GetScalar(to, t, msg, Len(w))
        /\ FramedScalar(t, v)
        /\ FaithfulPlain(t, v) => FaithfulScalar(t, v)
    BY <1>2, PlainGivenFacts DEF PutPlain, GetPlain, FramedPlain, FaithfulPlain
  <2>2. \E y \in Scalars :
           /\ GetScalar(to, t, msg, Len(w)) = Read(y, Len(PutScalar(from, w, t, v)))
           /\ FaithfulScalar(t, v) => y = v
    BY <2>1, ScalarTrip
  <2> QED
    BY <2>1, <2>2 DEF Plains
<1> QED
  BY <1>0, <1>1, <1>2

(* The C++ decoder reads one that is sound, or fails.                      *)
LEMMA GetPlainFacts ==
  ASSUME NEW d, IsCodec(d), NEW t, PlainType(t),
         NEW msg \in Message, Len(msg) % Octet = 0, NEW pos \in 0 .. Len(msg)
  PROVE  /\ GetPlain(d, t, msg, pos).at \in pos .. Len(msg)
         /\ Cpp(d) => \/ GetPlain(d, t, msg, pos).value = Bad
                      \/ PlainSound(d, t, GetPlain(d, t, msg, pos).value)
<1>0. CASE Unwritten(d, t)
  <2>1. GetPlain(d, t, msg, pos) = Read(Unread(d, t), pos)
    BY <1>0, UnwrittenPlain
  <2> QED
    BY <1>0, <2>1, MessageFacts DEF Read, PlainSound, ScalarSound
<1>1. CASE t.kind \in Lists /\ ~ Unwritten(d, t)
  <2>1. GetPlain(d, t, msg, pos) = GetList(d, t, msg, pos) /\ ListType(t)
    BY <1>1 DEF GetPlain, ListType
  <2> QED
    BY <1>1, <2>1, GetListFacts
<1>2. CASE t.kind \notin Lists
  <2>1. GetPlain(d, t, msg, pos) = GetScalar(d, t, msg, pos) /\ ScalarType(t)
    BY <1>2 DEF GetPlain, PlainType
  <2>2. /\ GetScalar(d, t, msg, pos).at \in pos .. Len(msg)
        /\ Cpp(d) => \/ GetScalar(d, t, msg, pos).value = Bad
                     \/ ScalarSound(d, t, GetScalar(d, t, msg, pos).value)
    BY <2>1, GetScalarFacts
  <2> QED
    BY <1>2, <2>1, <2>2 DEF PlainSound
<1> QED
  BY <1>0, <1>1, <1>2

-----------------------------------------------------------------------------
(***************************************************************************)
(* CHOICE, and members of any type.                                        *)
(***************************************************************************)

(* CHOICE.                                                                 *)

(* A member that the encoder takes.                                        *)
MemberGiven(c, t, v) == MemberType(t) /\ MemberValue(c, t, v) /\ Accepts(c, t, v)

(* The alternatives of a CHOICE and those the encoder numbers.             *)
LEMMA ChoiceFacts ==
  ASSUME NEW c, IsCodec(c), NEW t, t.kind = "choice", MemberType(t)
  PROVE  /\ Numbered(c, t) \in Nat /\ Numbered(c, t) >= 1 /\ Numbered(c, t) <= MaxCount
         /\ Numbered(c, t) <= Len(t.alts) /\ Len(t.alts) \in Nat
         /\ t.ext \in BOOLEAN /\ MaxCount \in Nat
         /\ \A a \in 1 .. Len(t.alts) : PlainType(t.alts[a])
<1>1. /\ Len(t.alts) \in 1 .. MaxCount /\ t.roots \in 1 .. Len(t.alts)
      /\ t.ext \in BOOLEAN
      /\ \A a \in 1 .. Len(t.alts) : PlainType(t.alts[a])
  BY DEF MemberType
<1>2. MaxCount \in Nat
  <2>1. Power[4 * Octet - 1] \in Nat /\ Power[4 * Octet - 1] >= 1
    BY PowerNames, PowerPositive
  <2> QED
    BY <2>1 DEF MaxCount
<1> HIDE DEF MaxCount
<1> DEFINE n == Len(t.alts)
<1> HIDE DEF n
<1>3. n \in Nat /\ n <= MaxCount /\ n >= 1 /\ t.roots \in 1 .. n
  BY <1>1, <1>2 DEF n
<1>4. Numbered(c, t) = t.roots \/ Numbered(c, t) = n
  BY DEF Numbered, n
<1>5. /\ Numbered(c, t) \in Nat /\ Numbered(c, t) >= 1 /\ Numbered(c, t) <= MaxCount
      /\ Numbered(c, t) <= n
  BY <1>2, <1>3, <1>4
<1> QED
  BY <1>1, <1>2, <1>3, <1>5 DEF n

(* An index is written after what is there.                                *)
LEMMA PutIndexFacts ==
  ASSUME NEW lang, NEW w \in Message, NEW v \in Int, NEW n \in Int
  PROVE  PutIndex(lang, w, v, n) \in Message /\ Extends(w, PutIndex(lang, w, v, n))
<1> DEFINE hi == n - 1
<1>1. hi \in Int /\ 0 \in Int
  OBVIOUS
<1>2. PutIndex(lang, w, v, n) = PutConstrained(lang, w, v, 0, hi)
  BY DEF PutIndex
<1> HIDE DEF hi
<1> QED
  BY <1>1, <1>2, PutConstrainedFacts

(* An alternative of the type, not the ExtensionValue.                     *)
LEMMA AlternativeGiven ==
  ASSUME NEW c, IsCodec(c), NEW t, t.kind = "choice", NEW v, MemberGiven(c, t, v),
         ~ Unwritten(c, t), v.alt \in 1 .. Numbered(c, t)
  PROVE  PlainGiven(c, t.alts[v.alt], v.content) /\ v.alt # 0 /\ v.alt \in 1 .. Len(t.alts)
<1>1. MemberType(t) /\ MemberValue(c, t, v) /\ Accepts(c, t, v)
  BY DEF MemberGiven
<1>2. /\ Numbered(c, t) \in Nat /\ Numbered(c, t) <= Len(t.alts) /\ Len(t.alts) \in Nat
      /\ \A a \in 1 .. Len(t.alts) : PlainType(t.alts[a])
  BY <1>1, ChoiceFacts
<1> DEFINE a == v.alt
           s == t.alts[a]
<1> HIDE DEF s
<1>3. a # 0 /\ a \in 1 .. Len(t.alts) /\ a <= Numbered(c, t)
  BY <1>2
<1>4. PlainType(s)
  BY <1>2, <1>3 DEF s
<1>5. PlainValue(s, v.content)
  BY <1>1, <1>3 DEF MemberValue, s
<1>6. PlainAccepted(c, s, v.content)
  BY <1>1, <1>3 DEF Accepts, s
<1> QED
  BY <1>3, <1>4, <1>5, <1>6 DEF PlainGiven, s

(* A CHOICE is written after what is there.                                *)
LEMMA PutChoiceFacts ==
  ASSUME NEW c, IsCodec(c), NEW w \in Message, NEW t, t.kind = "choice", NEW v, MemberGiven(c, t, v),
         ~ Unwritten(c, t)
  PROVE  PutChoice(c, w, t, v) \in Message /\ Extends(w, PutChoice(c, w, t, v))
<1> DEFINE b == IF v.alt = 0 THEN 1 ELSE 0
           m == IF t.ext THEN Append(w, b) ELSE w
           n == Numbered(c, t)
           x == PutIndex(c.lang, m, v.alt - 1, n)
           p == PutChoice(c, w, t, v)
<1>1. MemberType(t) /\ MemberValue(c, t, v)
  BY DEF MemberGiven
<1>2. n \in Nat /\ n <= Len(t.alts) /\ Len(t.alts) \in Nat
  BY <1>1, ChoiceFacts
<1>3. m \in Message /\ Extends(w, m)
  <2>1. b \in {0, 1}
    OBVIOUS
  <2> HIDE DEF b
  <2> QED
    BY <2>1, Appended, ExtendsSelf
<1>4. p = IF v.alt = 0 THEN PutOpen(PutLength(m, v.index), v.content)
          ELSE IF v.alt > n THEN x
          ELSE PutPlain(c, x, t.alts[v.alt], v.content)
  BY DEF PutChoice
<1>5. v.alt \in 1 .. Len(t.alts) \/ (v.alt = 0 /\ v.index \in Nat /\ v.content \in Message)
  BY <1>1 DEF MemberValue, Message
<1> HIDE DEF m, n, p
<1>6. CASE v.alt = 0
  <2> DEFINE h == PutLength(m, v.index)
             o == v.content
  <2>1. v.index \in Nat /\ o \in Message
    BY <1>2, <1>5, <1>6
  <2>2. h \in Message /\ Extends(m, h)
    BY <1>3, <2>1, PutLengthFacts
  <2>3. p = PutOpen(h, o)
    BY <1>4, <1>6
  <2> HIDE DEF h, o
  <2>4. p \in Message /\ Extends(h, p)
    BY <2>1, <2>2, <2>3, PutOpenFacts
  <2>5. Extends(m, p)
    BY <1>3, <2>2, <2>4, ExtendsOnward
  <2>6. Extends(w, p)
    BY <1>3, <2>4, <2>5, ExtendsOnward
  <2> QED
    BY <2>4, <2>6 DEF p
<1>7. CASE v.alt # 0
  <2> DEFINE k == v.alt - 1
  <2>1. v.alt \in Nat /\ k \in Int /\ n \in Int
    BY <1>2, <1>5, <1>7
  <2>2. x = PutIndex(c.lang, m, k, n)
    OBVIOUS
  <2> HIDE DEF k, x
  <2>3. x \in Message /\ Extends(m, x)
    BY <1>3, <2>1, <2>2, PutIndexFacts
  <2>4. Extends(w, x)
    BY <1>3, <2>3, ExtendsOnward
  <2>5. CASE v.alt > n
    BY <1>4, <1>7, <2>3, <2>4, <2>5 DEF p
  <2>6. CASE ~ (v.alt > n)
    <3> DEFINE s == t.alts[v.alt]
               o == v.content
    <3>1. v.alt \in 1 .. n
      BY <1>2, <1>5, <1>7, <2>1, <2>6
    <3>2. PlainGiven(c, s, o)
      BY <3>1, AlternativeGiven DEF n
    <3>3. p = PutPlain(c, x, s, o)
      BY <1>4, <1>7, <2>6
    <3> HIDE DEF s, o
    <3>4. p \in Message /\ Extends(x, p)
      BY <2>3, <3>2, <3>3, PutPlainFacts
    <3>5. Extends(w, p)
      BY <2>3, <2>4, <3>4, ExtendsOnward
    <3> QED
      BY <3>4, <3>5 DEF p
  <2> QED
    BY <2>5, <2>6
<1> QED
  BY <1>6, <1>7

(* The values of a CHOICE.                                                 *)
ChoiceValues == [alt : Int, content : Plains]

(* A CHOICE is read where it was written, and means the same when it is    *)
(* faithful.                                                               *)
LEMMA ChoiceTrip ==
  ASSUME Ends, NEW w \in Message, NEW t, t.kind = "choice", NEW v, MemberGiven(from, t, v), Framed(t, v),
         ~ Unwritten(from, t),
         NEW msg \in Message, Len(msg) % Octet = 0, Extends(PutChoice(from, w, t, v), msg)
  PROVE  \E y \in ChoiceValues :
           /\ GetChoice(to, t, msg, Len(w)) = Read(y, Len(PutChoice(from, w, t, v)))
           /\ Faithful(t, v) => MemberMeaning(t, y) = MemberMeaning(t, v)
<1> DEFINE m == IF t.ext THEN Append(w, 0) ELSE w
           n == Numbered(from, t)
           k == v.alt - 1
           x == PutIndex(from.lang, m, k, n)
           a == t.alts[v.alt]
           o == v.content
           p == PutChoice(from, w, t, v)
           next == IF t.ext THEN After(msg, Len(w), 1) ELSE Len(w)
           beyond == t.ext /\ GetBits(msg, Len(w), 1).value = 1
<1>1. IsCodec(from) /\ IsCodec(to) /\ MemberType(t) /\ MemberValue(from, t, v)
  BY DEF Ends, MemberGiven
<1>2. /\ n \in Nat /\ n <= MaxCount /\ n <= Len(t.alts) /\ Len(t.alts) \in Nat /\ t.ext \in BOOLEAN
  BY <1>1, ChoiceFacts
<1>3. v.alt \in 1 .. n /\ n = Numbered(to, t) /\ FramedPlain(a, o) /\ ~ Unwritten(to, t)
  BY DEF Framed, Silent, Spoken
<1>4. PlainGiven(from, a, o) /\ v.alt # 0 /\ v.alt \in 1 .. Len(t.alts)
  BY <1>1, <1>3, AlternativeGiven
<1>5. m \in Message /\ Extends(w, m)
  BY <1>2, MarkedFacts
<1>6. k \in 0 .. n - 1 /\ k \in Int /\ n \in Int /\ k + 1 = v.alt /\ ~ (v.alt > n) /\ v.alt \in Int
  BY <1>2, <1>3
<1>7. p = PutPlain(from, x, a, o)
  BY <1>4, <1>6 DEF PutChoice
<1>8. /\ FaithfulPlain(a, o) <=> Faithful(t, v)
      /\ \A u : u.alt = v.alt => MemberMeaning(t, u) = [alt |-> v.alt, content |-> PlainMeaning(a, u.content)]
  BY <1>4 DEF Faithful, MemberMeaning
<1>9. Extends(p, msg)
  OBVIOUS
<1> HIDE DEF m, n, k, a, o, p
<1>10. x \in Message /\ Extends(m, x)
  BY <1>5, <1>6, PutIndexFacts
<1> HIDE DEF x
<1>11. p \in Message /\ Extends(x, p)
  BY <1>1, <1>4, <1>7, <1>10, PutPlainFacts
<1>12. Extends(x, msg)
  BY <1>9, <1>10, <1>11, ExtendsOnward
<1>13. Extends(m, msg)
  BY <1>5, <1>10, <1>12, ExtendsOnward
<1>14. next = Len(m) /\ beyond = FALSE
  <2>1. CASE t.ext
    <3>1. m = Append(w, 0) /\ 0 \in {0, 1}
      BY <2>1 DEF m
    <3>2. Extends(Append(w, 0), msg)
      BY <1>13, <3>1
    <3>3. /\ GetBits(msg, Len(w), 1) = Read(0, Len(w) + 1)
          /\ After(msg, Len(w), 1) = Len(w) + 1 /\ Len(Append(w, 0)) = Len(w) + 1
      BY <3>1, <3>2, FlagTrip
    <3> QED
      BY <2>1, <3>1, <3>3 DEF Read
  <2>2. CASE ~ t.ext
    BY <2>2 DEF m
  <2> QED
    BY <2>1, <2>2
<1>15. GetIndex(to.lang, msg, Len(m), n) = Read(k, Len(x))
  BY <1>2, <1>5, <1>6, <1>12, IndexTrip DEF x
<1>16. PICK z \in Plains :
         /\ GetPlain(to, a, msg, Len(x)) = Read(z, Len(PutPlain(from, x, a, o)))
         /\ FaithfulPlain(a, o) =>
              (z = o \/ z \in Seq(Int)) /\ PlainMeaning(a, z) = PlainMeaning(a, o)
  BY <1>3, <1>4, <1>7, <1>9, <1>10, PlainTrip
<1> DEFINE y == [alt |-> v.alt, content |-> z]
<1>17. z # Bad
  BY <1>16, BadAssumption DEF Plains
<1>18. GetAlternative(to, t, msg, Len(x), v.alt) = Read(y, Len(p))
  <2>1. v.alt <= Numbered(to, t)
    BY <1>2, <1>3
  <2>2. GetPlain(to, t.alts[v.alt], msg, Len(x)) = Read(z, Len(p))
    BY <1>7, <1>16 DEF a
  <2> QED
    BY <1>17, <2>1, <2>2 DEF GetAlternative, Then, Read
<1>19. GetChoice(to, t, msg, Len(w)) = Read(y, Len(p))
  <2>1. GetChoice(to, t, msg, Len(w)) =
          IF beyond /\ ~ Cpp(to) THEN Beyond(GetOpen(msg, next))
          ELSE Then(IF ~ beyond THEN GetIndex(to.lang, msg, next, Numbered(to, t))
                    ELSE Read(0, GetOpen(msg, GetLength(msg, next).at).at),
                    LAMBDA index, end : GetAlternative(to, t, msg, end, index + 1))
    BY <1>3 DEF GetChoice
  <2>2. GetChoice(to, t, msg, Len(w)) =
          Then(GetIndex(to.lang, msg, Len(m), n),
               LAMBDA index, end : GetAlternative(to, t, msg, end, index + 1))
    <3> HIDE DEF next, beyond
    <3> QED
      BY <1>3, <1>14, <2>1
  <2>3. GetChoice(to, t, msg, Len(w)) = GetAlternative(to, t, msg, Len(x), k + 1)
    BY <1>15, <2>2 DEF Then, Read
  <2> QED
    BY <1>6, <1>18, <2>3
<1>20. y \in ChoiceValues
  BY <1>6, <1>16 DEF ChoiceValues
<1>21. Faithful(t, v) => MemberMeaning(t, y) = MemberMeaning(t, v)
  BY <1>8, <1>16 DEF o
<1> HIDE DEF y
<1> QED
  BY <1>19, <1>20, <1>21 DEF p

(* The C++ decoder reads an alternative that is sound, or fails.           *)
LEMMA GetChoiceFacts ==
  ASSUME NEW d, IsCodec(d), NEW t, t.kind = "choice", MemberType(t), ~ Unwritten(d, t),
         NEW msg \in Message, Len(msg) % Octet = 0, NEW pos \in 0 .. Len(msg)
  PROVE  /\ GetChoice(d, t, msg, pos).at \in pos .. Len(msg)
         /\ Cpp(d) => \/ GetChoice(d, t, msg, pos).value = Bad
                      \/ Sound(d, t, GetChoice(d, t, msg, pos).value)
<1> DEFINE n == Numbered(d, t)
           next == IF t.ext THEN After(msg, pos, 1) ELSE pos
           beyond == t.ext /\ GetBits(msg, pos, 1).value = 1
           x == IF ~ beyond THEN GetIndex(d.lang, msg, next, n)
                ELSE Read(0, GetOpen(msg, GetLength(msg, next).at).at)
           g == GetChoice(d, t, msg, pos)
           Onward(u) == u \in pos .. Len(msg) /\ u \in 0 .. Len(msg)
           a == x.value + 1
           h == GetAlternative(d, t, msg, x.at, a)
<1>1. /\ n \in Nat /\ n <= Len(t.alts) /\ Len(t.alts) \in Nat
      /\ \A j \in 1 .. Len(t.alts) : PlainType(t.alts[j])
  BY ChoiceFacts
<1>2. Len(msg) \in Nat /\ pos \in Nat
  BY MessageFacts
<1>3. Onward(next)
  <2>1. After(msg, pos, 1) \in pos .. Len(msg)
    BY AfterFacts
  <2> QED
    BY <1>2, <2>1
<1>4. g = IF beyond /\ ~ Cpp(d) THEN Beyond(GetOpen(msg, next)) ELSE h
  BY DEF GetChoice, Then
<1> HIDE DEF g, n, next, beyond
<1>5. \A u : Onward(u) => Onward(GetOpen(msg, u).at)
  <2> TAKE u
  <2> HAVE Onward(u)
  <2>1. GetOpen(msg, u).at \in u .. Len(msg)
    BY GetOpenFacts
  <2> QED
    BY <1>2, <2>1
<1>6. x.value \in Int /\ x.value >= 0 /\ Onward(x.at)
  <2>1. CASE beyond
    <3>1. x = Read(0, GetOpen(msg, GetLength(msg, next).at).at)
      BY <2>1
    <3>2. GetLength(msg, next).at \in next .. Len(msg)
      BY <1>3, GetLengthFacts
    <3>3. Onward(GetLength(msg, next).at)
      BY <1>2, <1>3, <3>2
    <3>4. Onward(GetOpen(msg, GetLength(msg, next).at).at)
      BY <1>5, <3>3
    <3>5. x.value = 0 /\ x.at = GetOpen(msg, GetLength(msg, next).at).at
      BY <3>1 DEF Read
    <3> QED
      BY <3>4, <3>5
  <2>2. CASE ~ beyond
    <3> DEFINE hi == n - 1
    <3>1. hi \in Int /\ 0 \in Int
      BY <1>1
    <3>2. x = GetConstrained(d.lang, msg, next, 0, hi)
      BY <2>2 DEF GetIndex
    <3> HIDE DEF hi, x
    <3>3. x.value \in Int /\ x.value >= 0 /\ x.at \in next .. Len(msg)
      BY <1>3, <3>1, <3>2, GetConstrainedFacts
    <3> QED
      BY <1>2, <1>3, <3>3
  <2> QED
    BY <2>1, <2>2
<1> HIDE DEF x
<1>7. a \in Nat /\ a >= 1
  BY <1>6
<1>8. CASE beyond /\ ~ Cpp(d)
  <2>1. g = Beyond(GetOpen(msg, next))
    BY <1>4, <1>8
  <2>2. g.at = GetOpen(msg, next).at
    BY <2>1 DEF Beyond, Then, Read
  <2> QED
    BY <1>3, <1>5, <1>8, <2>2 DEF g
<1>9. CASE ~ (beyond /\ ~ Cpp(d))
  <2>1. g = h
    BY <1>4, <1>9
  <2> HIDE DEF a
  <2>2. CASE a <= n
    <3> DEFINE q == GetPlain(d, t.alts[a], msg, x.at)
    <3>1. a \in 1 .. Len(t.alts) /\ a \in 1 .. n
      BY <1>1, <1>7, <2>2
    <3>2. PlainType(t.alts[a])
      BY <1>1, <3>1
    <3>3. /\ q.at \in x.at .. Len(msg)
          /\ Cpp(d) => q.value = Bad \/ PlainSound(d, t.alts[a], q.value)
      BY <1>6, <3>2, GetPlainFacts
    <3>4. h = Read(IF q.value = Bad THEN Bad ELSE [alt |-> a, content |-> q.value], q.at)
      BY <2>2 DEF GetAlternative, Then, n
    <3> HIDE DEF q
    <3>5. g.at = q.at /\ g.value = IF q.value = Bad THEN Bad ELSE [alt |-> a, content |-> q.value]
      BY <2>1, <3>4 DEF Read
    <3>6. g.at \in pos .. Len(msg)
      BY <1>2, <1>6, <3>3, <3>5
    <3>7. ASSUME Cpp(d), q.value # Bad
          PROVE  Sound(d, t, g.value)
      <4>1. g.value = [alt |-> a, content |-> q.value] /\ PlainSound(d, t.alts[a], q.value)
        BY <3>3, <3>5, <3>7
      <4> QED
        BY <3>1, <4>1 DEF Sound, n
    <3> QED
      BY <3>5, <3>6, <3>7 DEF g
  <2>3. CASE ~ (a <= n) /\ Cpp(d)
    <3>1. h = Read(Bad, x.at)
      BY <2>3 DEF GetAlternative, n
    <3>2. g.at = x.at /\ g.value = Bad
      BY <2>1, <3>1 DEF Read
    <3> QED
      BY <1>6, <3>2 DEF g
  <2>4. CASE ~ (a <= n) /\ ~ Cpp(d)
    <3>1. h.at = GetOpen(msg, x.at).at \/ h.at = x.at
      BY <2>4 DEF GetAlternative, n, Beyond, Then, Read
    <3>2. Onward(g.at)
      BY <1>5, <1>6, <2>1, <3>1
    <3> QED
      BY <2>4, <3>2 DEF g
  <2> QED
    BY <2>2, <2>3, <2>4
<1> QED
  BY <1>8, <1>9

(* A member of any type.                                                   *)

(* Members of other types are plain.                                       *)
LEMMA MemberGivenFacts ==
  ASSUME NEW c, NEW t, t.kind # "choice", NEW v, MemberGiven(c, t, v)
  PROVE  PlainGiven(c, t, v)
BY DEF MemberGiven, PlainGiven, MemberType, MemberValue, Accepts

(* A CHOICE that is not written has no bits.                               *)
LEMMA UnwrittenChoice ==
  ASSUME NEW c, NEW t, t.kind = "choice", Unwritten(c, t)
  PROVE  /\ \A w, v : PutMember(c, w, t, v) = w
         /\ \A msg, pos : GetMember(c, t, msg, pos) = Read(Unread(c, t), pos)
         /\ MemberType(t) => Unread(c, t) # Bad
<1>1. ASSUME MemberType(t)
      PROVE  Unread(c, t) # Bad
  <2>1. PlainType(t.alts[1])
    BY <1>1 DEF MemberType
  <2>2. NewPlain(t.alts[1]) \in Scalars
    BY <2>1, UnreadPlain
  <2>3. Unread(c, t) \in [alt : Int, content : Scalars \cup Seq(Scalars)] \/ Unread(c, t) \in Scalars
    BY <2>2 DEF Unread, New, Scalars
  <2> QED
    BY <2>3, BadAssumption
<1> QED
  BY <1>1 DEF PutMember, GetMember, PutChoice, GetChoice

(* Every member is written after what is there.                            *)
LEMMA PutMemberFacts ==
  ASSUME NEW c, IsCodec(c), NEW w \in Message, NEW t, NEW v, MemberGiven(c, t, v)
  PROVE  PutMember(c, w, t, v) \in Message /\ Extends(w, PutMember(c, w, t, v))
BY MemberGivenFacts, PutChoiceFacts, PutPlainFacts, UnwrittenChoice, ExtendsSelf DEF PutMember

(* What the ends have in common is enough for a member of any type: the    *)
(* decoder ends where the encoder did, and what is faithful keeps its      *)
(* meaning.                                                                *)
LEMMA MemberTrip ==
  ASSUME Ends, NEW w \in Message, NEW t, NEW v, MemberGiven(from, t, v), Framed(t, v),
         NEW msg \in Message, Len(msg) % Octet = 0, Extends(PutMember(from, w, t, v), msg)
  PROVE  /\ GetMember(to, t, msg, Len(w)).at = Len(PutMember(from, w, t, v))
         /\ GetMember(to, t, msg, Len(w)).value # Bad
         /\ Faithful(t, v) =>
              LET y == GetMember(to, t, msg, Len(w)).value
              IN  (y = v \/ y # Absent) /\ MemberMeaning(t, y) = MemberMeaning(t, v)
<1> DEFINE g == GetMember(to, t, msg, Len(w))
           p == PutMember(from, w, t, v)
<1>0. CASE t.kind = "choice" /\ Unwritten(from, t)
  <2>1. Unwritten(to, t) /\ ~ Faithful(t, v) /\ MemberType(t)
    BY <1>0 DEF Framed, Faithful, Silent, Spoken, MemberGiven
  <2>2. p = w /\ g = Read(Unread(to, t), Len(w)) /\ Unread(to, t) # Bad
    BY <1>0, <2>1, UnwrittenChoice
  <2> QED
    BY <2>1, <2>2 DEF Read
<1>1. CASE t.kind = "choice" /\ ~ Unwritten(from, t)
  <2>1. g = GetChoice(to, t, msg, Len(w)) /\ p = PutChoice(from, w, t, v)
    BY <1>1 DEF GetMember, PutMember
  <2>2. PICK y \in ChoiceValues :
           /\ GetChoice(to, t, msg, Len(w)) = Read(y, Len(PutChoice(from, w, t, v)))
           /\ Faithful(t, v) => MemberMeaning(t, y) = MemberMeaning(t, v)
    BY <1>1, <2>1, ChoiceTrip
  <2>3. y # Bad /\ y # Absent
    BY <2>2, BadAssumption, AbsentAssumption DEF ChoiceValues, Plains
  <2>4. g.value = y /\ g.at = Len(p)
    BY <2>1, <2>2 DEF Read
  <2> QED
    BY <2>2, <2>3, <2>4
<1>2. CASE t.kind # "choice"
  <2>1. g = GetPlain(to, t, msg, Len(w)) /\ p = PutPlain(from, w, t, v)
    BY <1>2 DEF GetMember, PutMember
  <2>2. PlainGiven(from, t, v)
    BY <1>2, MemberGivenFacts
  <2>3. /\ FramedPlain(t, v) /\ (Faithful(t, v) => FaithfulPlain(t, v))
        /\ \A u : MemberMeaning(t, u) = PlainMeaning(t, u)
    BY <1>2 DEF Framed, Faithful, MemberMeaning
  <2>4. PICK y \in Plains :
           /\ GetPlain(to, t, msg, Len(w)) = Read(y, Len(PutPlain(from, w, t, v)))
           /\ FaithfulPlain(t, v) =>
                (y = v \/ y \in Seq(Int)) /\ PlainMeaning(t, y) = PlainMeaning(t, v)
    BY <2>1, <2>2, <2>3, PlainTrip
  <2>5. y # Bad
    BY <2>4, BadAssumption DEF Plains
  <2>6. g.value = y /\ g.at = Len(p)
    BY <2>1, <2>4 DEF Read
  <2>7. y \in Seq(Int) => y # Absent
    BY AbsentAssumption
  <2> QED
    BY <2>3, <2>4, <2>5, <2>6, <2>7
<1> QED
  BY <1>0, <1>1, <1>2

(* The C++ decoder of a member gives a value that fits its type, the new   *)
(* one where nothing is read, or fails.                                    *)
LEMMA GetMemberFacts ==
  ASSUME NEW d, IsCodec(d), NEW t, MemberType(t),
         NEW msg \in Message, Len(msg) % Octet = 0, NEW pos \in 0 .. Len(msg)
  PROVE  /\ GetMember(d, t, msg, pos).at \in pos .. Len(msg)
         /\ Cpp(d) => \/ GetMember(d, t, msg, pos).value = Bad
                      \/ Sound(d, t, GetMember(d, t, msg, pos).value)
<1>0. CASE t.kind = "choice" /\ Unwritten(d, t)
  BY <1>0, UnwrittenChoice, MessageFacts DEF Read, Sound
<1>1. CASE t.kind = "choice" /\ ~ Unwritten(d, t)
  BY <1>1, GetChoiceFacts DEF GetMember
<1>2. CASE t.kind # "choice"
  <2>1. GetMember(d, t, msg, pos) = GetPlain(d, t, msg, pos) /\ PlainType(t)
    BY <1>2 DEF GetMember, MemberType
  <2>2. /\ GetPlain(d, t, msg, pos).at \in pos .. Len(msg)
        /\ Cpp(d) => \/ GetPlain(d, t, msg, pos).value = Bad
                     \/ PlainSound(d, t, GetPlain(d, t, msg, pos).value)
    BY <2>1, GetPlainFacts
  <2> QED
    BY <1>2, <2>1, <2>2 DEF Sound
<1> QED
  BY <1>0, <1>1, <1>2

-----------------------------------------------------------------------------
(***************************************************************************)
(* Members, orders and exchanges.                                          *)
(***************************************************************************)

(* The members of a type are numbered, the root members first.             *)
LEMMA MembersFacts ==
  ASSUME NEW c, NEW st, SequenceType(c, st)
  PROVE  /\ Len(st.root) \in Nat /\ Len(st.additions) \in Nat
         /\ DOMAIN st.root = 1 .. Len(st.root) /\ DOMAIN st.additions = 1 .. Len(st.additions)
         /\ DOMAIN Members(st) = 1 .. Len(st.root) + Len(st.additions)
         /\ \A k \in DOMAIN st.root : Members(st)[k] = st.root[k]
         /\ \A k \in DOMAIN st.additions : Members(st)[Len(st.root) + k] = st.additions[k]
<1>1. st.root \in Seq(ToSet(st.root)) /\ st.additions \in Seq(ToSet(st.additions))
  BY DEF SequenceType
<1> DEFINE A == ToSet(st.root)
           B == ToSet(st.additions)
           x == st.root
           y == st.additions
<1>2. x \in Seq(A) /\ y \in Seq(B)
  BY <1>1
<1> HIDE DEF A, B, x, y
<1>3. x \in Seq(A \cup B) /\ y \in Seq(A \cup B)
  BY <1>2
<1>4. /\ Len(x) \in Nat /\ Len(y) \in Nat /\ DOMAIN x = 1 .. Len(x) /\ DOMAIN y = 1 .. Len(y)
      /\ DOMAIN (x \o y) = 1 .. Len(x) + Len(y)
      /\ \A k \in 1 .. Len(x) : (x \o y)[k] = x[k]
      /\ \A k \in 1 .. Len(y) : (x \o y)[Len(x) + k] = y[k]
  BY <1>3
<1> QED
  BY <1>4 DEF Members, x, y

(* A sequence without repetition of all of S.                              *)
IsListing(order, S) ==
  /\ order \in Seq(S)
  /\ \A j, k \in DOMAIN order : order[j] = order[k] => j = k

(* The members of a SET by tag are all its members, once.                  *)
LEMMA ByTagFacts ==
  ASSUME NEW c, NEW st, SequenceType(c, st), st.set
  PROVE  IsListing(ByTag(st), DOMAIN Members(st))
<1> DEFINE places == DOMAIN Members(st)
           before == {p \in places \X places : Members(st)[p[1]].tag < Members(st)[p[2]].tag}
<1>1. \A j \in places : Members(st)[j].tag \in Int
  BY DEF SequenceType
<1>2. \A j, k \in places : Members(st)[j].tag = Members(st)[k].tag => j = k
  BY DEF SequenceType
<1>3. places = 1 .. (Len(st.root) + Len(st.additions)) /\ (Len(st.root) + Len(st.additions)) \in Nat
  <2>1. /\ Len(st.root) \in Nat /\ Len(st.additions) \in Nat
        /\ DOMAIN Members(st) = 1 .. Len(st.root) + Len(st.additions)
    BY MembersFacts
  <2> DEFINE m == Len(st.root)
             n == Len(st.additions)
  <2>2. m \in Nat /\ n \in Nat
    BY <2>1
  <2>3. places = 1 .. m + n
    BY <2>1
  <2> HIDE DEF m, n, places
  <2>4. m + n \in Nat
    BY <2>2
  <2> QED
    BY <2>3, <2>4 DEF m, n
<1>4. \A j, k \in places : <<j, k>> \in before <=> Members(st)[j].tag < Members(st)[k].tag
  OBVIOUS
<1>5. IsFiniteSet(places)
  <2> DEFINE n == Len(st.root) + Len(st.additions)
  <2>1. places = 1 .. n /\ n \in Nat
    BY <1>3
  <2> HIDE DEF n, places
  <2> QED
    BY <2>1, FS_Interval
<1>6. ByTag(st) = InOrder(places, before)
  BY DEF ByTag
<1> HIDE DEF places, before
<1>7. IsOrder(places, before)
  <2>1. \A x \in places : <<x, x>> \notin before
    BY <1>1, <1>4
  <2>2. \A x, y, z \in places : <<x, y>> \in before /\ <<y, z>> \in before => <<x, z>> \in before
    BY <1>1, <1>4
  <2>3. \A x, y \in places : x = y \/ <<x, y>> \in before \/ <<y, x>> \in before
    <3> TAKE x, y \in places
    <3>1. /\ Members(st)[x].tag \in Int /\ Members(st)[y].tag \in Int
          /\ (<<x, y>> \in before <=> Members(st)[x].tag < Members(st)[y].tag)
          /\ (<<y, x>> \in before <=> Members(st)[y].tag < Members(st)[x].tag)
      BY <1>1, <1>4
    <3>2. Members(st)[x].tag = Members(st)[y].tag => x = y
      BY <1>2
    <3> QED
      BY <3>1, <3>2
  <2> QED
    BY <2>1, <2>2, <2>3 DEF IsOrder
<1>8. /\ InOrder(places, before) \in Seq(places)
      /\ Len(InOrder(places, before)) = Cardinality(places)
      /\ \A j, k \in 1 .. Cardinality(places) :
           InOrder(places, before)[j] = InOrder(places, before)[k] => j = k
  BY <1>5, <1>7, InOrderFacts
<1>9. IsListing(InOrder(places, before), places)
  BY <1>8 DEF IsListing
<1> QED
  BY <1>6, <1>9 DEF places

(* A codec meets every root member once, and then the additions.           *)
LEMMA OrdersFacts ==
  ASSUME NEW c, NEW st, SequenceType(c, st)
  PROVE  /\ IsListing(RootOrder(c, st), DOMAIN Members(st))
         /\ AdditionOrder(c, st) \in Seq(DOMAIN Members(st))
         /\ \A j \in DOMAIN RootOrder(c, st), k \in DOMAIN AdditionOrder(c, st) :
              RootOrder(c, st)[j] # AdditionOrder(c, st)[k]
         /\ \A k \in DOMAIN AdditionOrder(c, st) :
              Members(st)[AdditionOrder(c, st)[k]].presence = "optional"
<1>1. /\ Len(st.root) \in Nat /\ Len(st.additions) \in Nat
      /\ DOMAIN st.root = 1 .. Len(st.root) /\ DOMAIN st.additions = 1 .. Len(st.additions)
      /\ DOMAIN Members(st) = 1 .. Len(st.root) + Len(st.additions)
      /\ \A k \in DOMAIN st.additions : Members(st)[Len(st.root) + k] = st.additions[k]
  BY MembersFacts
<1>2. \A k \in DOMAIN st.additions : st.additions[k].presence = "optional"
  BY DEF SequenceType
<1>3. CASE st.set /\ Cpp(c)
  <2>1. RootOrder(c, st) = ByTag(st) /\ AdditionOrder(c, st) = <<>>
    BY <1>3 DEF RootOrder, AdditionOrder
  <2>2. IsListing(ByTag(st), DOMAIN Members(st))
    BY <1>3, ByTagFacts
  <2> QED
    BY <2>1, <2>2
<1>4. CASE ~ (st.set /\ Cpp(c))
  <2> DEFINE m == Len(st.root)
             n == Len(st.additions)
             M == DOMAIN Members(st)
             r == [k \in 1 .. m |-> k]
             a == [k \in 1 .. n |-> m + k]
  <2>1. m \in Nat /\ n \in Nat /\ M = 1 .. m + n
    BY <1>1
  <2>2. RootOrder(c, st) = r /\ AdditionOrder(c, st) = a
    BY <1>1, <1>4 DEF RootOrder, AdditionOrder
  <2>3. r \in Seq(M) /\ a \in Seq(M)
    <3> HIDE DEF m, n, M
    <3> QED
      BY <2>1
  <2>4. IsListing(r, M)
    BY <2>3 DEF IsListing
  <2>5. \A j \in 1 .. m, k \in 1 .. n : j # m + k
    BY <2>1
  <2>6. \A k \in 1 .. n : Members(st)[m + k].presence = "optional"
    BY <1>1, <1>2
  <2> QED
    BY <2>2, <2>3, <2>4, <2>5, <2>6
<1> QED
  BY <1>3, <1>4

(* The count of the members of S up to x is the place of x in the list.    *)
LEMMA PlaceInAscending ==
  ASSUME NEW S \in SUBSET Nat, 0 \notin S, IsFiniteSet(S), NEW x \in S
  PROVE  /\ Cardinality(S \cap 1 .. x) \in 1 .. Cardinality(S)
         /\ Ascending(S)[Cardinality(S \cap 1 .. x)] = x
<1> DEFINE before == {p \in S \X S : p[1] < p[2]}
           E == Earlier(S, before, x)
<1>1. \A y, z \in S : <<y, z>> \in before <=> y < z
  OBVIOUS
<1>2. E = {y \in S : y < x}
  BY <1>1 DEF Earlier
<1>3. S \cap 1 .. x = E \cup {x} /\ x \notin E /\ E \subseteq S
  <2>1. x \in Nat /\ x >= 1 /\ \A y \in S : y \in Nat /\ y >= 1
    OBVIOUS
  <2>2. \A y \in S : y \in 1 .. x <=> y < x \/ y = x
    BY <2>1
  <2>3. x \notin E /\ E \subseteq S
    BY <1>2, <2>1
  <2>4. S \cap 1 .. x = E \cup {x}
    BY <1>2, <2>2
  <2> QED
    BY <2>3, <2>4
<1>4. Ascending(S) = InOrder(S, before)
  BY DEF Ascending
<1>5. IsOrder(S, before)
  <2> HIDE DEF before
  <2> QED
    BY <1>1 DEF IsOrder
<1> HIDE DEF before
<1>6. /\ Cardinality(S) \in Nat
      /\ Cardinality(E) \in 0 .. Cardinality(S) - 1
      /\ \A y, z \in S :
           Cardinality(Earlier(S, before, y)) = Cardinality(Earlier(S, before, z)) => y = z
  BY <1>5, EarlierIsPlace
<1>7. IsFiniteSet(E)
  BY <1>3, FS_Subset
<1>8. Cardinality(S \cap 1 .. x) = Cardinality(E) + 1
  BY <1>3, <1>7, FS_AddElement
<1>9. Cardinality(E) + 1 \in 1 .. Cardinality(S)
  BY <1>6
<1>10. InOrder(S, before)[Cardinality(E) + 1] = x
  <2> DEFINE b == Cardinality(E) + 1
             y == CHOOSE y \in S : Cardinality(Earlier(S, before, y)) = b - 1
  <2>1. b - 1 = Cardinality(E)
    BY <1>6
  <2>2. InOrder(S, before)[b] = y
    BY <1>9 DEF InOrder
  <2>3. y \in S /\ Cardinality(Earlier(S, before, y)) = Cardinality(E)
    BY <2>1
  <2> QED
    BY <1>6, <2>2, <2>3
<1> QED
  BY <1>4, <1>8, <1>9, <1>10

(* The optional root members, in the order of the root.                    *)
LEMMA OptionalPlacesFacts ==
  ASSUME NEW c, NEW st, SequenceType(c, st)
  PROVE  /\ OptionalPlaces(c, st) \in SUBSET Nat /\ 0 \notin OptionalPlaces(c, st)
         /\ IsFiniteSet(OptionalPlaces(c, st))
         /\ OptionalPlaces(c, st) \subseteq DOMAIN RootOrder(c, st)
         /\ Optionals(c, st) \in Seq(DOMAIN Members(st))
         /\ Len(Optionals(c, st)) = Cardinality(OptionalPlaces(c, st))
         /\ \A j \in OptionalPlaces(c, st) :
              LET b == Cardinality(OptionalPlaces(c, st) \cap 1 .. j)
              IN  b \in 1 .. Len(Optionals(c, st)) /\ Optionals(c, st)[b] = RootOrder(c, st)[j]
<1> DEFINE S == OptionalPlaces(c, st)
           order == RootOrder(c, st)
           n == Len(order)
           M == DOMAIN Members(st)
<1>1. order \in Seq(M)
  BY OrdersFacts DEF IsListing
<1>2. n \in Nat /\ DOMAIN order = 1 .. n
  BY <1>1
<1>3. S \subseteq DOMAIN order
  BY DEF OptionalPlaces
<1>4. Optionals(c, st) = [b \in DOMAIN Ascending(S) |-> order[Ascending(S)[b]]]
  BY DEF Optionals
<1> HIDE DEF S, n, order, M
<1>5. IsFiniteSet(S)
  BY <1>2, <1>3, FS_Interval, FS_Subset
<1>6. S \in SUBSET Nat /\ 0 \notin S
  BY <1>2, <1>3
<1>7. Ascending(S) \in Seq(S) /\ Len(Ascending(S)) = Cardinality(S) /\ Cardinality(S) \in Nat
  BY <1>5, <1>6, AscendingFacts, FS_CardinalityType
<1>8. DOMAIN Ascending(S) = 1 .. Cardinality(S) /\ \A b \in 1 .. Cardinality(S) : Ascending(S)[b] \in S
  BY <1>7
<1>9. Optionals(c, st) \in Seq(M) /\ Len(Optionals(c, st)) = Cardinality(S)
  <2> DEFINE m == Cardinality(S)
             f == [b \in 1 .. m |-> order[Ascending(S)[b]]]
  <2>1. \A b \in 1 .. m : order[Ascending(S)[b]] \in M
    BY <1>1, <1>3, <1>8
  <2>2. m \in Nat
    BY <1>7
  <2>3. Optionals(c, st) = f
    BY <1>4, <1>8
  <2> HIDE DEF m
  <2> QED
    BY <2>1, <2>2, <2>3 DEF m
<1>10. \A j \in S : LET b == Cardinality(S \cap 1 .. j)
                    IN  b \in 1 .. Len(Optionals(c, st)) /\ Optionals(c, st)[b] = order[j]
  <2> TAKE j \in S
  <2> DEFINE b == Cardinality(S \cap 1 .. j)
  <2>1. b \in 1 .. Cardinality(S) /\ Ascending(S)[b] = j
    BY <1>5, <1>6, PlaceInAscending
  <2> HIDE DEF b
  <2> QED
    BY <1>4, <1>8, <1>9, <2>1 DEF b
<1> QED
  BY <1>3, <1>5, <1>6, <1>9, <1>10 DEF S, order, M

(* What is assumed of the exchange that takes place.                       *)
LEMMA ExchangeFacts ==
  ASSUME exchange \in Names
  PROVE  /\ Ends /\ IsCodec(from) /\ IsCodec(to)
         /\ SequenceType(from, sent) /\ SequenceType(to, read)
         /\ sent.marker = read.marker
         /\ \A k \in DOMAIN Members(sent) \cap DOMAIN Members(read) : Members(sent)[k] = Members(read)[k]
         /\ \A k \in DOMAIN Members(sent) : Given(from, Members(sent)[k], given[k])
<1> DEFINE e == Exchange(exchange)
<1>1. /\ e.sent.marker = e.read.marker
      /\ \A k \in DOMAIN Members(e.sent) \cap DOMAIN Members(e.read) : Members(e.sent)[k] = Members(e.read)[k]
      /\ SequenceType(e.from, e.sent) /\ SequenceType(e.to, e.read)
      /\ \A c \in {e.from, e.to} :
           c.lang \in {"c", "cpp"} /\ c.aper \in BOOLEAN /\ (c.lang = "c" => ~ c.aper)
      /\ e.from.aper = e.to.aper
      /\ DOMAIN e.given = DOMAIN Members(e.sent)
      /\ \A k \in DOMAIN e.given : Given(e.from, Members(e.sent)[k], e.given[k])
  BY ExchangesAssumption
<1>2. IsCodec(e.from) /\ IsCodec(e.to)
  BY <1>1 DEF IsCodec
<1>3. from = e.from /\ to = e.to /\ sent = e.sent /\ read = e.read /\ given = e.given
  BY DEF from, to, sent, read, given
<1> HIDE DEF e
<1> QED
  BY <1>1, <1>2, <1>3 DEF Ends

(* A default is a scalar, which a decoder leaves as it is.                 *)
LEMMA DefaultFacts ==
  ASSUME NEW c, NEW m, Presence(c, m), m.presence = "default"
  PROVE  m.default # Bad
         /\ MemberMeaning(m.type, m.default) = m.default
<1> DEFINE t == m.type
           v == m.default
<1>1. /\ t.kind \in {"integer", "unbounded", "boolean", "enumerated", "octets", "real"}
      /\ MemberValue(c, t, v)
  BY DEF Presence
<1>2. PlainValue(t, v)
  BY <1>1 DEF MemberValue
<1>3. MemberMeaning(t, v) = v
  BY <1>1 DEF MemberMeaning, PlainMeaning
<1>4. v \in Scalars
  <2>1. CASE t.kind = "octets"
    <3>1. v \in Seq(0 .. Power[Octet] - 1)
      BY <1>2, <2>1 DEF PlainValue
    <3>2. Power[Octet] \in Nat
      BY PowerNames, PowerPositive
    <3>3. v \in Seq(Nat)
      BY <3>1, <3>2
    <3> QED
      BY <3>3 DEF Scalars
  <2>2. CASE t.kind # "octets"
    <3>1. ScalarValue(t, v)
      BY <1>1, <1>2, <2>2 DEF PlainValue, Lists
    <3>2. v \in Int
      BY <1>1, <2>2, <3>1 DEF ScalarValue, Int64
    <3> QED
      BY <3>2 DEF Scalars
  <2> QED
    BY <2>1, <2>2
<1> QED
  BY <1>1, <1>3, <1>4, BadAssumption DEF t, v

(* A fresh struct has nothing but the defaults of its type.                *)
LEMMA FreshFacts ==
  ASSUME NEW c, NEW st, SequenceType(c, st), NEW k \in DOMAIN Members(st)
  PROVE  /\ DOMAIN Fresh(c, st) = DOMAIN Members(st)
         /\ Fresh(c, st)[k] # Bad
         /\ Fresh(c, st)[k] = Absent
              \/ (Members(st)[k].presence = "default" /\ Fresh(c, st)[k] = Members(st)[k].default)
         /\ MemberType(Members(st)[k].type)
<1> DEFINE m == Members(st)[k]
<1>1. Presence(c, m) /\ MemberType(m.type)
  BY DEF SequenceType
<1>2. Fresh(c, st)[k] = IF m.presence = "default" /\ Cpp(c) THEN m.default ELSE Absent
  BY DEF Fresh
<1>3. DOMAIN Fresh(c, st) = DOMAIN Members(st)
  BY DEF Fresh
<1>4. Absent # Bad
  BY BadAssumption DEF Scalars
<1>5. m.presence = "default" => m.default # Bad
  BY <1>1, DefaultFacts
<1> HIDE DEF m
<1> QED
  BY <1>1, <1>2, <1>3, <1>4, <1>5 DEF m

(* A member that is sent has a value, and one that is accepted can be      *)
(* encoded.                                                                *)
LEMMA SentFacts ==
  ASSUME exchange \in Names, NEW k \in DOMAIN Members(sent), IsSent(k)
  PROVE  /\ given[k] # Absent
         /\ MemberType(Members(sent)[k].type)
         /\ Accepts(from, Members(sent)[k].type, given[k]) =>
              MemberGiven(from, Members(sent)[k].type, given[k])
<1> DEFINE m == Members(sent)[k]
           v == given[k]
<1>1. MemberType(m.type) /\ Presence(from, m)
  BY ExchangeFacts DEF SequenceType
<1>2. Given(from, m, v)
  BY ExchangeFacts
<1>3. v # Absent
  <2>1. CASE m.presence = "default" /\ Cpp(from)
    BY <1>2, <2>1 DEF Given
  <2>2. CASE ~ (m.presence = "default" /\ Cpp(from))
    BY <2>2 DEF IsSent, Has
  <2> QED
    BY <2>1, <2>2
<1>4. MemberValue(from, m.type, v)
  BY <1>2, <1>3 DEF Given
<1> QED
  BY <1>1, <1>3, <1>4 DEF MemberGiven

(* A root member that is not sent has no value, or its default.            *)
LEMMA UnsentFacts ==
  ASSUME exchange \in Names, NEW k \in DOMAIN Members(sent), ~ IsSent(k)
  PROVE  /\ Members(sent)[k].presence # "mandatory"
         /\ Meaning(k, given[k]) =
              IF Members(sent)[k].presence = "default" THEN Members(sent)[k].default ELSE Absent
<1> DEFINE m == Members(sent)[k]
           v == given[k]
<1>1. Presence(from, m)
  BY ExchangeFacts DEF SequenceType
<1>2. Given(from, m, v)
  BY ExchangeFacts
<1>3. CASE m.presence = "default" /\ Cpp(from) /\ k \in ToSet(RootOrder(from, sent))
  <2>1. v = m.default
    BY <1>3 DEF IsSent, Has
  <2>2. MemberMeaning(m.type, m.default) = m.default
    BY <1>1, <1>3, DefaultFacts
  <2> QED
    BY <1>3, <2>1, <2>2 DEF Meaning
<1>4. CASE ~ (m.presence = "default" /\ Cpp(from) /\ k \in ToSet(RootOrder(from, sent)))
  <2>1. v = Absent
    BY <1>4 DEF IsSent, Has
  <2>2. m.presence # "mandatory"
    BY <1>2, <2>1 DEF Given
  <2> QED
    BY <2>1, <2>2 DEF Meaning
<1> QED
  BY <1>3, <1>4

(* Where both ends order the root members alike they have the same bits in *)
(* the preamble.                                                           *)
LEMMA AgreedFacts ==
  ASSUME exchange \in Names, SameOrder
  PROVE  /\ \A j \in DOMAIN RootOrder(from, sent) :
              /\ RootOrder(from, sent)[j] \in DOMAIN Members(sent) \cap DOMAIN Members(read)
              /\ Members(read)[RootOrder(from, sent)[j]] = Members(sent)[RootOrder(from, sent)[j]]
         /\ OptionalPlaces(to, read) = OptionalPlaces(from, sent)
         /\ Optionals(to, read) = Optionals(from, sent)
<1> DEFINE order == RootOrder(from, sent)
<1>1. RootOrder(to, read) = order
  BY DEF SameOrder
<1>2. order \in Seq(DOMAIN Members(sent)) /\ order \in Seq(DOMAIN Members(read))
  BY <1>1, ExchangeFacts, OrdersFacts DEF IsListing
<1>3. \A k \in DOMAIN Members(sent) \cap DOMAIN Members(read) : Members(sent)[k] = Members(read)[k]
  BY ExchangeFacts
<1> HIDE DEF order
<1>4. \A j \in DOMAIN order : order[j] \in DOMAIN Members(sent) /\ order[j] \in DOMAIN Members(read)
  BY <1>2
<1>5. \A j \in DOMAIN order : Members(read)[order[j]] = Members(sent)[order[j]]
  BY <1>3, <1>4
<1>6. OptionalPlaces(to, read) = OptionalPlaces(from, sent)
  BY <1>1, <1>5 DEF OptionalPlaces, order
<1>7. Optionals(to, read) = Optionals(from, sent)
  BY <1>1, <1>6 DEF Optionals, order
<1> QED
  BY <1>4, <1>5, <1>6, <1>7 DEF order

(* One flag for each member, 1 where it is sent.                           *)
LEMMA GivenFlagsFacts ==
  ASSUME NEW S, NEW order \in Seq(S)
  PROVE  /\ GivenFlags(order) \in Message /\ Len(GivenFlags(order)) = Len(order)
         /\ \A j \in 1 .. Len(order) : GivenFlags(order)[j] = 1 <=> IsSent(order[j])
<1> DEFINE f == [j \in 1 .. Len(order) |-> IF IsSent(order[j]) THEN 1 ELSE 0]
<1>1. GivenFlags(order) = f
  BY DEF GivenFlags
<1>2. f \in [1 .. Len(order) -> {0, 1}] /\ Len(order) \in Nat
  OBVIOUS
<1>3. f \in Message /\ Len(f) = Len(order)
  BY <1>2, MessageIs
<1>4. \A j \in 1 .. Len(order) : f[j] = 1 <=> IsSent(order[j])
  OBVIOUS
<1> QED
  BY <1>1, <1>3, <1>4

(* The decoder finds the bit that the encoder has put for a member.        *)
LEMMA PresenceTrip ==
  ASSUME exchange \in Names, SameOrder, flags = GivenFlags(Optionals(from, sent)),
         i \in DOMAIN RootOrder(from, sent)
  PROVE  IsRead(RootOrder(to, read)[i]) <=> IsSent(RootOrder(from, sent)[i])
<1> DEFINE k == RootOrder(from, sent)[i]
           S == OptionalPlaces(from, sent)
           b == Cardinality(S \cap 1 .. i)
<1>1. /\ k \in DOMAIN Members(sent) \cap DOMAIN Members(read) /\ Members(read)[k] = Members(sent)[k]
      /\ OptionalPlaces(to, read) = S
  BY AgreedFacts
<1>2. RootOrder(to, read)[i] = k
  BY DEF SameOrder
<1>3. IsRead(k) <=> (Members(sent)[k].presence # "mandatory" => flags[b] = 1)
  BY <1>1 DEF IsRead
<1>4. CASE i \in S
  <2>1. b \in 1 .. Len(Optionals(from, sent)) /\ Optionals(from, sent)[b] = k
    BY <1>4, ExchangeFacts, OptionalPlacesFacts
  <2>2. Optionals(from, sent) \in Seq(DOMAIN Members(sent))
    BY ExchangeFacts, OptionalPlacesFacts
  <2>3. flags[b] = 1 <=> IsSent(k)
    <3> HIDE DEF b, k
    <3> QED
      BY <2>1, <2>2, GivenFlagsFacts
  <2>4. Members(sent)[k].presence # "mandatory"
    BY <1>4 DEF OptionalPlaces
  <2> QED
    BY <1>2, <1>3, <2>3, <2>4
<1>5. CASE i \notin S
  <2>1. Members(sent)[k].presence = "mandatory"
    BY <1>5 DEF OptionalPlaces
  <2>2. IsSent(k)
    BY <1>1, <2>1, UnsentFacts
  <2> QED
    BY <1>2, <1>3, <2>1, <2>2
<1> QED
  BY <1>4, <1>5

-----------------------------------------------------------------------------
(***************************************************************************)
(* What the encoder lays.                                                  *)
(***************************************************************************)

(* The first n bits.                                                       *)
Upto(w, n) == [b \in 1 .. n |-> w[b]]

(* The extension bit, when the type has one.                               *)
MarkerBits == IF sent.marker THEN <<IF Announced THEN 1 ELSE 0>> ELSE <<>>

(* The extension bit and the presence flags of what is given.              *)
Preamble == MarkerBits \o GivenFlags(Optionals(from, sent))

(* What the encoder makes of w at root member j.                           *)
WithMember(w, j) ==
  LET k == RootOrder(from, sent)[j]
  IN  IF IsSent(k) THEN PutMember(from, w, Members(sent)[k].type, given[k]) ELSE w

(* The head and the members up to each mark, one after the other, are in w. *)
IsLaid(marks, w) ==
  /\ marks \in Seq(0 .. Len(w)) /\ Len(marks) \in 1 .. Len(RootOrder(from, sent)) + 1
  /\ Upto(w, marks[1]) = Preamble
  /\ \A j \in 1 .. Len(marks) - 1 : Upto(w, marks[j + 1]) = WithMember(Upto(w, marks[j]), j)

(* The first n bits are a message.                                         *)
LEMMA UptoFacts ==
  ASSUME NEW w \in Message, NEW n \in 0 .. Len(w)
  PROVE  Upto(w, n) \in Message /\ Len(Upto(w, n)) = n /\ Extends(Upto(w, n), w)
<1>1. n \in Nat /\ Len(w) \in Nat /\ \A b \in 1 .. Len(w) : w[b] \in {0, 1}
  BY MessageFacts
<1> DEFINE f == [b \in 1 .. n |-> w[b]]
<1>2. Upto(w, n) = f
  BY DEF Upto
<1>3. f \in [1 .. n -> {0, 1}]
  BY <1>1
<1>4. f \in Message /\ Len(f) = n
  BY <1>1, <1>3, MessageIs
<1>5. \A b \in 1 .. n : w[b] = f[b]
  OBVIOUS
<1> HIDE DEF f
<1>6. Extends(f, w)
  BY <1>1, <1>4, <1>5 DEF Extends
<1> QED
  BY <1>2, <1>4, <1>6

(* A message begins with u exactly when its first bits are u.              *)
LEMMA UptoIs ==
  ASSUME NEW u \in Message, NEW w \in Message, Extends(u, w)
  PROVE  Upto(w, Len(u)) = u /\ Len(u) \in 0 .. Len(w)
<1>1. /\ Len(u) \in Nat /\ Len(w) \in Nat /\ Len(u) <= Len(w)
      /\ \A b \in 1 .. Len(u) : w[b] = u[b]
  BY MessageFacts DEF Extends
<1>2. Len(u) \in 0 .. Len(w)
  BY <1>1
<1> DEFINE x == Upto(w, Len(u))
<1>3. x \in Message /\ Len(x) = Len(u) /\ Extends(x, w)
  BY <1>2, UptoFacts
<1>4. \A b \in 1 .. Len(x) : x[b] = u[b]
  <2> HIDE DEF x
  <2> QED
    BY <1>1, <1>3 DEF Extends
<1> HIDE DEF x
<1>5. x = u
  BY <1>3, <1>4, SameBits
<1> QED
  BY <1>2, <1>5 DEF x

(* What is written later leaves the first bits as they are.                *)
LEMMA UptoOnward ==
  ASSUME NEW w \in Message, NEW x \in Message, Extends(w, x), NEW n \in 0 .. Len(w)
  PROVE  Upto(x, n) = Upto(w, n) /\ n \in 0 .. Len(x)
<1> DEFINE u == Upto(w, n)
<1>1. u \in Message /\ Len(u) = n /\ Extends(u, w)
  BY UptoFacts
<1> HIDE DEF u
<1>2. Extends(u, x)
  BY <1>1, ExtendsOnward
<1>3. Upto(x, Len(u)) = u /\ Len(u) \in 0 .. Len(x)
  BY <1>1, <1>2, UptoIs
<1> QED
  BY <1>1, <1>3 DEF u

(* What is laid stays where it is when more is written.                    *)
LEMMA LaidOnward ==
  ASSUME NEW w \in Message, NEW x \in Message, Extends(w, x), NEW marks, IsLaid(marks, w)
  PROVE  IsLaid(marks, x)
<1> DEFINE n == Len(marks)
<1>1. /\ marks \in Seq(0 .. Len(w)) /\ n \in 1 .. Len(RootOrder(from, sent)) + 1
      /\ Upto(w, marks[1]) = Preamble
      /\ \A j \in 1 .. n - 1 : Upto(w, marks[j + 1]) = WithMember(Upto(w, marks[j]), j)
  BY DEF IsLaid
<1>2. n \in Nat /\ n >= 1 /\ \A j \in 1 .. n : marks[j] \in 0 .. Len(w)
  BY <1>1
<1>3. \A j \in 1 .. n : Upto(x, marks[j]) = Upto(w, marks[j]) /\ marks[j] \in 0 .. Len(x)
  BY <1>2, UptoOnward
<1>4. marks \in Seq(0 .. Len(x))
  <2>1. 0 .. Len(w) \subseteq 0 .. Len(x)
    BY MessageFacts DEF Extends
  <2> DEFINE A == 0 .. Len(w)
             B == 0 .. Len(x)
  <2>2. marks \in Seq(A) /\ A \subseteq B
    BY <1>1, <2>1
  <2> HIDE DEF A, B
  <2>3. marks \in Seq(B)
    BY <2>2
  <2> QED
    BY <2>3 DEF B
<1> HIDE DEF n
<1>5. Upto(x, marks[1]) = Preamble
  BY <1>1, <1>2, <1>3
<1>6. \A j \in 1 .. n - 1 : Upto(x, marks[j + 1]) = WithMember(Upto(x, marks[j]), j)
  <2> TAKE j \in 1 .. n - 1
  <2>1. j \in 1 .. n /\ j + 1 \in 1 .. n
    BY <1>2
  <2> QED
    BY <1>1, <1>3, <2>1
<1> QED
  BY <1>1, <1>4, <1>5, <1>6 DEF IsLaid, n

(* The next member begins where the last one ended.                        *)
LEMMA LaidFurther ==
  ASSUME NEW w \in Message, NEW marks, IsLaid(marks, w), marks[Len(marks)] = Len(w),
         Len(marks) <= Len(RootOrder(from, sent)), Len(RootOrder(from, sent)) \in Nat,
         WithMember(w, Len(marks)) \in Message, Extends(w, WithMember(w, Len(marks)))
  PROVE  IsLaid(Append(marks, Len(WithMember(w, Len(marks)))), WithMember(w, Len(marks)))
<1> DEFINE n == Len(marks)
           x == WithMember(w, n)
           more == Append(marks, Len(x))
<1>1. x \in Message /\ Extends(w, x) /\ Len(x) \in Nat /\ marks[n] = Len(w)
  BY MessageFacts
<1>2. IsLaid(marks, x)
  <2> HIDE DEF x
  <2> QED
    BY <1>1, LaidOnward
<1>3. /\ marks \in Seq(0 .. Len(x)) /\ n \in 1 .. Len(RootOrder(from, sent)) + 1
      /\ Upto(x, marks[1]) = Preamble
      /\ \A j \in 1 .. n - 1 : Upto(x, marks[j + 1]) = WithMember(Upto(x, marks[j]), j)
  BY <1>2 DEF IsLaid
<1>4. Upto(x, Len(x)) = x /\ Upto(x, Len(w)) = w
  <2> HIDE DEF x
  <2> QED
    BY <1>1, ExtendsSelf, UptoIs
<1>5. n \in Nat /\ n >= 1 /\ n <= Len(RootOrder(from, sent))
  BY <1>3
<1>6. WithMember(w, n) = x
  OBVIOUS
<1> HIDE DEF n, x
<1>7. /\ more \in Seq(0 .. Len(x)) /\ Len(more) = n + 1 /\ more[n + 1] = Len(x)
      /\ \A j \in 1 .. n : more[j] = marks[j]
  BY <1>1, <1>3, <1>5 DEF n
<1> HIDE DEF more
<1>8. Len(more) \in 1 .. Len(RootOrder(from, sent)) + 1 /\ Len(more) - 1 = n
  BY <1>5, <1>7
<1>9. Upto(x, more[1]) = Preamble
  BY <1>3, <1>5, <1>7
<1>10. \A j \in 1 .. n : Upto(x, more[j + 1]) = WithMember(Upto(x, more[j]), j)
  <2> TAKE j \in 1 .. n
  <2>1. CASE j = n
    BY <1>1, <1>4, <1>5, <1>6, <1>7, <2>1
  <2>2. CASE j # n
    <3>1. j \in 1 .. n - 1 /\ j + 1 \in 1 .. n
      BY <1>5, <2>2
    <3> QED
      BY <1>3, <1>7, <3>1
  <2> QED
    BY <2>1, <2>2
<1>11. IsLaid(more, x)
  BY <1>7, <1>8, <1>9, <1>10 DEF IsLaid
<1> QED
  BY <1>11 DEF more, x, n

(* A root member is written after what is there.                           *)
LEMMA WithMemberFacts ==
  ASSUME exchange \in Names, NEW w \in Message, NEW j \in DOMAIN RootOrder(from, sent),
         IsSent(RootOrder(from, sent)[j]) =>
           Accepts(from, Members(sent)[RootOrder(from, sent)[j]].type, given[RootOrder(from, sent)[j]])
  PROVE  WithMember(w, j) \in Message /\ Extends(w, WithMember(w, j))
<1> DEFINE k == RootOrder(from, sent)[j]
<1>1. k \in DOMAIN Members(sent)
  BY ExchangeFacts, OrdersFacts DEF IsListing
<1>2. CASE IsSent(k)
  <2>1. MemberGiven(from, Members(sent)[k].type, given[k])
    BY <1>1, <1>2, SentFacts
  <2>2. WithMember(w, j) = PutMember(from, w, Members(sent)[k].type, given[k])
    BY <1>2 DEF WithMember
  <2> QED
    BY <2>1, <2>2, ExchangeFacts, PutMemberFacts
<1>3. CASE ~ IsSent(k)
  BY <1>3, ExtendsSelf DEF WithMember
<1> QED
  BY <1>2, <1>3

(* Bitmaps.                                                                *)

(* Flags read end in the message.                                          *)
LEMMA GetFlagsFacts ==
  ASSUME NEW msg \in Message, NEW at1 \in 0 .. Len(msg), NEW n \in Nat
  PROVE  GetFlags(msg, at1, n).value \in Message /\ GetFlags(msg, at1, n).at \in at1 .. Len(msg)
<1> DEFINE end == After(msg, at1, n)
           bits == SubSeq(msg, at1 + 1, end)
<1>1. end \in at1 .. Len(msg) /\ end <= at1 + n
  BY AfterFacts
<1>2. GetFlags(msg, at1, n) = Read(Zeros(n - Len(bits)) \o bits, end)
  BY DEF GetFlags, Then, Read
<1> HIDE DEF end
<1>3. bits \in Message /\ Len(bits) = end - at1
  BY <1>1, PartFacts
<1>4. n - Len(bits) \in Nat
  BY <1>1, <1>3, MessageFacts
<1> HIDE DEF bits
<1>5. Zeros(n - Len(bits)) \o bits \in Message
  BY <1>3, <1>4, ZerosFacts, Longer
<1> QED
  BY <1>1, <1>2, <1>5 DEF Read

(* Flags are read as they were written.                                    *)
LEMMA GetFlagsTrip ==
  ASSUME NEW w \in Message, NEW x \in Message, NEW msg \in Message, Extends(w \o x, msg)
  PROVE  GetFlags(msg, Len(w), Len(x)) = Read(x, Len(w \o x))
<1> DEFINE end == After(msg, Len(w), Len(x))
           bits == SubSeq(msg, Len(w) + 1, end)
<1>1. end = Len(w \o x) /\ bits = x
  BY PartTrip
<1>2. GetFlags(msg, Len(w), Len(x)) = Read(Zeros(Len(x) - Len(bits)) \o bits, end)
  BY DEF GetFlags, Then, Read
<1> HIDE DEF bits, end
<1>3. Zeros(Len(x) - Len(x)) \o x = x
  <2> DEFINE z == Zeros(0)
  <2>1. z \in Message /\ Len(z) = 0
    BY ZerosFacts
  <2>2. Len(x) - Len(x) = 0
    BY MessageFacts
  <2> HIDE DEF z
  <2>3. z = <<>>
    BY <2>1 DEF Message
  <2>4. <<>> \o x = x
    BY DEF Message
  <2> QED
    BY <2>2, <2>3, <2>4 DEF z
<1> QED
  BY <1>1, <1>2, <1>3

(* No step changes the exchange, nor what depends on it alone.             *)
LEMMA EndsKept ==
  ASSUME exchange' = exchange
  PROVE  from' = from /\ to' = to /\ sent' = sent /\ read' = read /\ given' = given
BY DEF from, to, sent, read, given

(* Both ends go on to agree on the order.                                  *)
LEMMA SameOrderKept ==
  ASSUME exchange' = exchange
  PROVE  SameOrder' <=> SameOrder
BY EndsKept DEF SameOrder

(* What is framed stays framed: scalars,                                   *)
LEMMA FramedScalarKept ==
  ASSUME exchange' = exchange, NEW t, NEW v
  PROVE  FramedScalar(t, v)' <=> FramedScalar(t, v)
BY EndsKept DEF FramedScalar, Silent, Spoken, SameWidth, InWidth

(* members without alternatives,                                           *)
LEMMA FramedPlainKept ==
  ASSUME exchange' = exchange, NEW t, NEW v
  PROVE  FramedPlain(t, v)' <=> FramedPlain(t, v)
<1>1. \A x : FramedScalar(t.of, x)' <=> FramedScalar(t.of, x)
  BY FramedScalarKept
<1> QED
  BY EndsKept, FramedScalarKept, <1>1 DEF FramedPlain, Silent, Spoken, SameWidth, InWidth

(* all members,                                                            *)
LEMMA FramedKept ==
  ASSUME exchange' = exchange, NEW t, NEW v
  PROVE  Framed(t, v)' <=> Framed(t, v)
BY EndsKept, FramedPlainKept DEF Framed, Silent, Spoken

(* and the message.                                                        *)
LEMMA AllFramedKept ==
  ASSUME exchange' = exchange
  PROVE  AllFramed' <=> AllFramed
BY EndsKept, SameOrderKept, FramedKept
   DEF AllFramed, IsSent

(* Additions stay announced.                                               *)
LEMMA AnnouncedKept ==
  ASSUME exchange' = exchange
  PROVE  Announced' <=> Announced
BY EndsKept DEF Announced, IsSent

(* The head of the message stays.                                          *)
LEMMA PreambleKept ==
  ASSUME exchange' = exchange
  PROVE  Preamble' = Preamble /\ MarkerBits' = MarkerBits
<1>1. MarkerBits' = MarkerBits
  BY EndsKept, AnnouncedKept DEF MarkerBits
<1>2. GivenFlags(Optionals(from, sent))' = GivenFlags(Optionals(from, sent))
  BY EndsKept DEF GivenFlags, IsSent
<1> QED
  BY <1>1, <1>2 DEF Preamble

(* What is faithful stays faithful.                                        *)
LEMMA FaithfulKept ==
  ASSUME exchange' = exchange
  PROVE  /\ \A t, v : FaithfulScalar(t, v)' <=> FaithfulScalar(t, v)
         /\ \A t, v : FaithfulPlain(t, v)' <=> FaithfulPlain(t, v)
         /\ \A t, v : Faithful(t, v)' <=> Faithful(t, v)
<1>1. \A t, v : FaithfulScalar(t, v)' <=> FaithfulScalar(t, v)
  BY EndsKept DEF FaithfulScalar, InWidth
<1>2. \A t, v : FaithfulPlain(t, v)' <=> FaithfulPlain(t, v)
  BY EndsKept, <1>1 DEF FaithfulPlain
<1>3. \A t, v : Faithful(t, v)' <=> Faithful(t, v)
  BY EndsKept, <1>2 DEF Faithful
<1> QED
  BY <1>1, <1>2, <1>3

(* The members exchanged stay the same.                                    *)
LEMMA ExchangedKept ==
  ASSUME exchange' = exchange
  PROVE  Exchanged' = Exchanged
BY EndsKept, AllFramedKept, FaithfulKept DEF Exchanged, IsSent

(* What is laid for this exchange is laid for the next state's.            *)
LEMMA LaidKept ==
  ASSUME exchange' = exchange
  PROVE  /\ IsLaid(starts', wire') => IsLaid(starts, wire)'
         /\ IsLaid(Append(starts', Len(wire')), wire') => IsLaid(Append(starts, Len(wire)), wire)'
BY EndsKept, PreambleKept DEF IsLaid, WithMember, IsSent

(* Meanings stay the same.                                                 *)
LEMMA MeaningKept ==
  ASSUME exchange' = exchange
  PROVE  \A k, v : Meaning(k, v)' = Meaning(k, v)
BY EndsKept DEF Meaning

(* The encoder took the first n members of an order.                       *)
Accepted(order, n) ==
  \A j \in 1 .. n : IsSent(order[j]) => Accepts(from, Members(sent)[order[j]].type, given[order[j]])

(* The phases after the encoder handed the message over.                   *)
Reading == {"read marker", "read preamble", "read root", "read additions", "failed", "delivered"}

(* What the encoder has laid at each phase, and that it took what it       *)
(* wrote.                                                                  *)
WriterInv ==
  LET n == Len(RootOrder(from, sent))
      a == Len(AdditionOrder(from, sent))
  IN  /\ exchange \in Names /\ phase \in Phases
      /\ wire \in Message /\ starts \in Seq(0 .. Len(wire))
      /\ phase \in {"marker", "preamble"} => i = 1 /\ starts = <<>>
      /\ phase = "marker" => wire = <<>>
      /\ phase = "preamble" => wire = MarkerBits
      /\ phase = "root" =>
           /\ i \in 1 .. n + 1 /\ Len(starts) = i - 1
           /\ IsLaid(Append(starts, Len(wire)), wire) /\ Accepted(RootOrder(from, sent), i - 1)
      /\ phase \in {"additions"} \cup Reading =>
           Len(starts) = n + 1 /\ IsLaid(starts, wire) /\ Accepted(RootOrder(from, sent), n)
      /\ phase = "additions" /\ Announced =>
           i \in 1 .. a + 1 /\ Accepted(AdditionOrder(from, sent), i - 1)
      /\ phase \in Reading =>
           Len(wire) % Octet = 0 /\ (Announced => Accepted(AdditionOrder(from, sent), a))

(* What was accepted stays accepted.                                       *)
LEMMA AcceptedKept ==
  ASSUME exchange' = exchange, NEW n
  PROVE  /\ Accepted(RootOrder(from, sent), n) => Accepted(RootOrder(from, sent), n)'
         /\ Accepted(AdditionOrder(from, sent), n) => Accepted(AdditionOrder(from, sent), n)'
BY EndsKept DEF Accepted, IsSent

(* The same, up to the next place.                                         *)
LEMMA AcceptedKeptTo ==
  ASSUME exchange' = exchange
  PROVE  /\ Accepted(RootOrder(from, sent), i' - 1) => Accepted(RootOrder(from, sent), i - 1)'
         /\ Accepted(AdditionOrder(from, sent), i' - 1) => Accepted(AdditionOrder(from, sent), i - 1)'
         /\ Accepted(RootOrder(from, sent), Len(RootOrder(from, sent)))
              => Accepted(RootOrder(from, sent), Len(RootOrder(from, sent)))'
         /\ Accepted(AdditionOrder(from, sent), Len(AdditionOrder(from, sent)))
              => Accepted(AdditionOrder(from, sent), Len(AdditionOrder(from, sent)))'
BY EndsKept DEF Accepted, IsSent

(* One member more.                                                        *)
LEMMA AcceptedFurther ==
  ASSUME NEW order, NEW n \in Nat, Accepted(order, n),
         IsSent(order[n + 1]) =>
           Accepts(from, Members(sent)[order[n + 1]].type, given[order[n + 1]])
  PROVE  Accepted(order, n + 1)
<1>1. \A j \in 1 .. n + 1 : j \in 1 .. n \/ j = n + 1
  OBVIOUS
<1> QED
  BY <1>1 DEF Accepted

(* The orders the encoder takes are sequences of members.                  *)
LEMMA OrdersTyped ==
  ASSUME exchange \in Names
  PROVE  /\ RootOrder(from, sent) \in Seq(DOMAIN Members(sent))
         /\ Len(RootOrder(from, sent)) \in Nat
         /\ DOMAIN RootOrder(from, sent) = 1 .. Len(RootOrder(from, sent))
         /\ AdditionOrder(from, sent) \in Seq(DOMAIN Members(sent))
         /\ Len(AdditionOrder(from, sent)) \in Nat
         /\ DOMAIN AdditionOrder(from, sent) = 1 .. Len(AdditionOrder(from, sent))
<1>1. /\ RootOrder(from, sent) \in Seq(DOMAIN Members(sent))
      /\ AdditionOrder(from, sent) \in Seq(DOMAIN Members(sent))
  BY ExchangeFacts, OrdersFacts DEF IsListing
<1> QED
  BY <1>1

(* The head of the message, and that it lays the first mark.               *)
LEMMA PreambleFacts ==
  ASSUME exchange \in Names
  PROVE  /\ MarkerBits \in Message /\ GivenFlags(Optionals(from, sent)) \in Message
         /\ Preamble \in Message /\ Extends(MarkerBits, Preamble)
         /\ IsLaid(Append(<<>>, Len(Preamble)), Preamble)
<1>1. MarkerBits \in Message
  <2>1. MarkerBits = <<>> \/ MarkerBits = <<0>> \/ MarkerBits = <<1>>
    BY DEF MarkerBits
  <2>2. <<>> \in Message /\ <<0>> \in Message /\ <<1>> \in Message
    BY DEF Message
  <2> QED
    BY <2>1, <2>2
<1>2. GivenFlags(Optionals(from, sent)) \in Message
  BY ExchangeFacts, OptionalPlacesFacts, GivenFlagsFacts
<1>3. Preamble \in Message /\ Extends(MarkerBits, Preamble)
  <2> DEFINE x == MarkerBits
             y == GivenFlags(Optionals(from, sent))
  <2> HIDE DEF x, y
  <2>1. x \in Message /\ y \in Message /\ Preamble = x \o y
    BY <1>1, <1>2 DEF x, y, Preamble
  <2>2. x \o y \in Message /\ Extends(x, x \o y)
    BY <2>1, Longer
  <2> QED
    BY <2>1, <2>2 DEF x
<1>4. Upto(Preamble, Len(Preamble)) = Preamble /\ Len(Preamble) \in Nat
  BY <1>3, ExtendsSelf, UptoIs, MessageFacts
<1>5. IsLaid(Append(<<>>, Len(Preamble)), Preamble)
  <2> DEFINE p == Preamble
             marks == Append(<<>>, Len(p))
  <2> HIDE DEF p
  <2>1. marks \in Seq(0 .. Len(p)) /\ Len(marks) = 1 /\ marks[1] = Len(p)
    BY <1>4 DEF p
  <2> HIDE DEF marks
  <2>2. Len(marks) \in 1 .. Len(RootOrder(from, sent)) + 1
    BY <2>1, OrdersTyped
  <2>3. Upto(p, marks[1]) = Preamble
    BY <1>4, <2>1 DEF p
  <2>4. 1 .. Len(marks) - 1 = {}
    BY <2>1
  <2>5. IsLaid(marks, p)
    BY <2>1, <2>2, <2>3, <2>4 DEF IsLaid
  <2> QED
    BY <2>5 DEF marks, p
<1> QED
  BY <1>1, <1>2, <1>3, <1>5

(* The extension bit is the first of the head.                             *)
LEMMA EncodeMarkerLays ==
  ASSUME WriterInv, EncodeMarker
  PROVE  WriterInv'
<1>1. exchange \in Names /\ i = 1 /\ starts = <<>> /\ wire = <<>>
  BY DEF WriterInv, EncodeMarker
<1>2. exchange' = exchange /\ i' = i /\ starts' = starts /\ phase' = "preamble"
  BY DEF EncodeMarker
<1>3. wire' = MarkerBits
  BY <1>1 DEF EncodeMarker, MarkerBits
<1>4. MarkerBits' = MarkerBits
  BY <1>2, PreambleKept
<1>5. wire' \in Message /\ starts' \in Seq(0 .. Len(wire'))
  BY <1>1, <1>2, <1>3, PreambleFacts
<1> QED
  BY <1>1, <1>2, <1>3, <1>4, <1>5 DEF WriterInv, Reading, Phases

(* The flags complete the head.                                            *)
LEMMA EncodePreambleLays ==
  ASSUME WriterInv, EncodePreamble
  PROVE  WriterInv'
<1>1. exchange \in Names /\ i = 1 /\ starts = <<>> /\ wire = MarkerBits
  BY DEF WriterInv, EncodePreamble
<1>2. exchange' = exchange /\ i' = 1 /\ starts' = <<>> /\ phase' = "root"
  BY <1>1 DEF EncodePreamble
<1>3. wire' = Preamble
  BY <1>1 DEF EncodePreamble, Preamble
<1>4. wire' \in Message /\ starts' \in Seq(0 .. Len(wire'))
  BY <1>1, <1>2, <1>3, PreambleFacts
<1>5. IsLaid(Append(starts, Len(wire)), wire)'
  BY <1>1, <1>2, <1>3, PreambleFacts, LaidKept
<1>6. Accepted(RootOrder(from, sent), i - 1)'
  <2>1. Accepted(RootOrder(from, sent), i' - 1)
    BY <1>2 DEF Accepted
  <2> QED
    BY <1>2, <2>1, AcceptedKeptTo
<1>7. (i \in 1 .. Len(RootOrder(from, sent)) + 1)'
  <2>1. Len(RootOrder(from, sent))' = Len(RootOrder(from, sent))
    BY <1>2, EndsKept
  <2> QED
    BY <1>1, <1>2, <2>1, OrdersTyped
<1>8. (Len(starts) = i - 1)'
  BY <1>2
<1> QED
  BY <1>1, <1>2, <1>4, <1>5, <1>6, <1>7, <1>8 DEF WriterInv, Reading, Phases

(* Each root member is laid behind the one before.                         *)
LEMMA EncodeMemberLays ==
  ASSUME WriterInv, EncodeMember
  PROVE  WriterInv'
<1> DEFINE n == Len(RootOrder(from, sent))
           ends == Append(starts, Len(wire))
           x == WithMember(wire, i)
<1>1. /\ exchange \in Names /\ wire \in Message /\ starts \in Seq(0 .. Len(wire))
      /\ i \in 1 .. n + 1 /\ Len(starts) = i - 1 /\ IsLaid(ends, wire)
      /\ Accepted(RootOrder(from, sent), i - 1) /\ i <= n
  BY DEF WriterInv, EncodeMember
<1>2. exchange' = exchange /\ phase' = "root" /\ i' = i + 1 /\ starts' = ends
  BY DEF EncodeMember
<1>3. IsSent(RootOrder(from, sent)[i]) =>
        Accepts(from, Members(sent)[RootOrder(from, sent)[i]].type, given[RootOrder(from, sent)[i]])
  BY DEF EncodeMember
<1>4. wire' = x
  BY DEF EncodeMember, WithMember
<1>5. n \in Nat /\ i \in Nat /\ i \in DOMAIN RootOrder(from, sent)
  BY <1>1, OrdersTyped
<1>6. x \in Message /\ Extends(wire, x)
  BY <1>1, <1>3, <1>5, WithMemberFacts
<1>7. Len(ends) = i /\ ends[i] = Len(wire) /\ Len(wire) \in Nat
  BY <1>1, <1>5, MessageFacts
<1>8. ends \in Seq(0 .. Len(x)) /\ Len(x) \in Nat
  <2>1. IsLaid(ends, x)
    <3> HIDE DEF ends, x
    <3> QED
      BY <1>1, <1>6, LaidOnward
  <2> QED
    BY <1>6, <2>1, MessageFacts DEF IsLaid
<1>9. IsLaid(Append(ends, Len(x)), x)
  <2>1. x = WithMember(wire, Len(ends)) /\ Len(ends) <= n /\ ends[Len(ends)] = Len(wire)
    BY <1>1, <1>7
  <2> HIDE DEF ends, x
  <2> QED
    BY <1>1, <1>5, <1>6, <2>1, LaidFurther
<1>10. IsLaid(Append(starts, Len(wire)), wire)'
  BY <1>2, <1>4, <1>9, LaidKept
<1>11. Accepted(RootOrder(from, sent), i - 1)'
  <2>1. i - 1 \in Nat /\ (i - 1) + 1 = i /\ i' - 1 = i
    BY <1>1, <1>2, <1>5
  <2>2. Accepted(RootOrder(from, sent), i)
    BY <1>1, <1>3, <2>1, AcceptedFurther
  <2> QED
    BY <1>2, <2>1, <2>2, AcceptedKeptTo
<1>12. (i \in 1 .. Len(RootOrder(from, sent)) + 1)'
  <2>1. Len(RootOrder(from, sent))' = n
    BY <1>2, EndsKept
  <2> QED
    BY <1>1, <1>2, <1>5, <2>1
<1>13. (Len(starts) = i - 1)'
  BY <1>2, <1>5, <1>7
<1> QED
  BY <1>1, <1>2, <1>4, <1>6, <1>8, <1>10, <1>11, <1>12, <1>13 DEF WriterInv, Reading, Phases

(* Once the root is laid more is only written after it.                    *)
LEMMA LaidBehind ==
  ASSUME NEW w \in Message, NEW x \in Message, Extends(w, x), NEW marks, IsLaid(marks, w)
  PROVE  IsLaid(marks, x) /\ marks \in Seq(0 .. Len(x))
BY LaidOnward DEF IsLaid

(* The bitmap of additions leaves the root as it is.                       *)
LEMMA EncodeBitmapLays ==
  ASSUME WriterInv, EncodeBitmap
  PROVE  WriterInv'
<1> DEFINE n == Len(RootOrder(from, sent))
           order == AdditionOrder(from, sent)
           ends == Append(starts, Len(wire))
<1>1. /\ exchange \in Names /\ wire \in Message /\ starts \in Seq(0 .. Len(wire))
      /\ i \in 1 .. n + 1 /\ Len(starts) = i - 1 /\ IsLaid(ends, wire)
      /\ Accepted(RootOrder(from, sent), i - 1) /\ i > n
  BY DEF WriterInv, EncodeBitmap
<1>2. exchange' = exchange /\ phase' = "additions" /\ i' = 1 /\ starts' = ends
  BY DEF EncodeBitmap
<1>3. n \in Nat /\ i = n + 1 /\ i - 1 = n
  BY <1>1, OrdersTyped
<1>4. wire' \in Message /\ Extends(wire, wire')
  <2>1. CASE Announced
    <3> DEFINE x == PutLength(wire, Len(order))
               y == GivenFlags(order)
    <3>1. Len(order) \in Nat
      BY <1>1, OrdersTyped
    <3>2. x \in Message /\ Extends(wire, x)
      BY <1>1, <3>1, PutLengthFacts
    <3>3. y \in Message
      BY <1>1, OrdersTyped, GivenFlagsFacts
    <3>4. wire' = x \o y
      BY <2>1 DEF EncodeBitmap
    <3> HIDE DEF x, y
    <3>5. x \o y \in Message /\ Extends(x, x \o y)
      BY <3>2, <3>3, Longer
    <3>6. Extends(wire, x \o y)
      BY <1>1, <3>2, <3>5, ExtendsOnward
    <3> QED
      BY <3>4, <3>5, <3>6
  <2>2. CASE ~ Announced
    <3>1. wire' = wire
      BY <2>2 DEF EncodeBitmap
    <3> QED
      BY <1>1, <3>1, ExtendsSelf
  <2> QED
    BY <2>1, <2>2
<1>5. IsLaid(ends, wire') /\ ends \in Seq(0 .. Len(wire'))
  <2> HIDE DEF ends
  <2> QED
    BY <1>1, <1>4, LaidBehind
<1>6. IsLaid(starts, wire)'
  BY <1>2, <1>5, LaidKept
<1>7. (Len(starts) = Len(RootOrder(from, sent)) + 1)'
  <2>1. Len(ends) = n + 1
    BY <1>1, <1>3, MessageFacts
  <2>2. Len(RootOrder(from, sent))' = n
    BY <1>2, EndsKept
  <2> QED
    BY <1>2, <2>1, <2>2
<1>8. Accepted(RootOrder(from, sent), Len(RootOrder(from, sent)))'
  BY <1>1, <1>2, <1>3, AcceptedKeptTo
<1>9. Accepted(AdditionOrder(from, sent), i - 1)'
  <2>1. Accepted(order, i' - 1)
    BY <1>2 DEF Accepted
  <2> QED
    BY <1>2, <2>1, AcceptedKeptTo
<1>10. (i \in 1 .. Len(AdditionOrder(from, sent)) + 1)'
  <2>1. Len(AdditionOrder(from, sent))' = Len(order)
    BY <1>2, EndsKept
  <2> QED
    BY <1>1, <1>2, <2>1, OrdersTyped
<1> QED
  BY <1>1, <1>2, <1>4, <1>5, <1>6, <1>7, <1>8, <1>9, <1>10 DEF WriterInv, Reading, Phases

(* An addition leaves the root as it is.                                   *)
LEMMA EncodeAdditionLays ==
  ASSUME WriterInv, EncodeAddition
  PROVE  WriterInv'
<1> DEFINE n == Len(RootOrder(from, sent))
           order == AdditionOrder(from, sent)
           k == order[i]
           t == Members(sent)[k].type
<1>1. /\ exchange \in Names /\ wire \in Message /\ starts \in Seq(0 .. Len(wire))
      /\ Len(starts) = n + 1 /\ IsLaid(starts, wire) /\ Accepted(RootOrder(from, sent), n)
      /\ i \in 1 .. Len(order) + 1 /\ Accepted(order, i - 1) /\ i <= Len(order)
  BY DEF WriterInv, EncodeAddition
<1>2. exchange' = exchange /\ phase' = "additions" /\ i' = i + 1 /\ starts' = starts
  BY DEF EncodeAddition
<1>3. IsSent(k) => Accepts(from, t, given[k])
  BY DEF EncodeAddition
<1>4. Len(order) \in Nat /\ i \in 1 .. Len(order) /\ k \in DOMAIN Members(sent)
  BY <1>1, OrdersTyped
<1>5. wire' \in Message /\ Extends(wire, wire')
  <2>1. CASE IsSent(k)
    <3> DEFINE x == PutMember(from, wire, t, given[k])
               y == PutOpen(x, <<>>)
    <3>1. MemberGiven(from, t, given[k])
      BY <1>1, <1>3, <1>4, <2>1, SentFacts
    <3>2. x \in Message /\ Extends(wire, x)
      BY <1>1, <3>1, ExchangeFacts, PutMemberFacts
    <3>3. wire' = y
      BY <2>1 DEF EncodeAddition
    <3>4. <<>> \in Message
      BY DEF Message
    <3> HIDE DEF x
    <3>5. y \in Message /\ Extends(x, y)
      BY <3>2, <3>4, PutOpenFacts
    <3> HIDE DEF y
    <3>6. Extends(wire, y)
      BY <1>1, <3>2, <3>5, ExtendsOnward
    <3> QED
      BY <3>3, <3>5, <3>6
  <2>2. CASE ~ IsSent(k)
    <3>1. wire' = wire
      BY <2>2 DEF EncodeAddition
    <3> QED
      BY <1>1, <3>1, ExtendsSelf
  <2> QED
    BY <2>1, <2>2
<1>6. IsLaid(starts, wire') /\ starts \in Seq(0 .. Len(wire'))
  BY <1>1, <1>5, LaidBehind
<1>7. IsLaid(starts, wire)'
  BY <1>2, <1>6, LaidKept
<1>8. (Len(starts) = Len(RootOrder(from, sent)) + 1)'
  <2>1. Len(RootOrder(from, sent))' = n
    BY <1>2, EndsKept
  <2> QED
    BY <1>1, <1>2, <2>1
<1>9. Accepted(RootOrder(from, sent), Len(RootOrder(from, sent)))'
  BY <1>1, <1>2, AcceptedKeptTo
<1>10. Accepted(AdditionOrder(from, sent), i - 1)'
  <2>1. i - 1 \in Nat /\ (i - 1) + 1 = i /\ i' - 1 = i
    BY <1>2, <1>4
  <2>2. Accepted(order, i)
    BY <1>1, <1>3, <2>1, AcceptedFurther
  <2> QED
    BY <1>2, <2>1, <2>2, AcceptedKeptTo
<1>11. (i \in 1 .. Len(AdditionOrder(from, sent)) + 1)'
  <2>1. Len(AdditionOrder(from, sent))' = Len(order)
    BY <1>2, EndsKept
  <2> QED
    BY <1>2, <1>4, <2>1
<1> QED
  BY <1>1, <1>2, <1>5, <1>6, <1>7, <1>8, <1>9, <1>10, <1>11 DEF WriterInv, Reading, Phases

(* The last padding leaves the root as it is, and makes whole octets.      *)
LEMMA HandOverLays ==
  ASSUME WriterInv, HandOver
  PROVE  WriterInv'
<1> DEFINE n == Len(RootOrder(from, sent))
           order == AdditionOrder(from, sent)
<1>1. /\ exchange \in Names /\ wire \in Message /\ starts \in Seq(0 .. Len(wire))
      /\ Len(starts) = n + 1 /\ IsLaid(starts, wire) /\ Accepted(RootOrder(from, sent), n)
      /\ Announced => i \in 1 .. Len(order) + 1 /\ Accepted(order, i - 1) /\ i > Len(order)
  BY DEF WriterInv, HandOver
<1>2. exchange' = exchange /\ phase' = "read marker" /\ starts' = starts /\ wire' = Align(wire)
  BY DEF HandOver
<1>3. wire' \in Message /\ Extends(wire, wire')
  BY <1>1, <1>2, AlignFacts
<1>4. (Len(wire) % Octet = 0)'
  BY <1>1, <1>2, AlignFacts, AlignedFacts, MessageFacts
<1>5. IsLaid(starts, wire') /\ starts \in Seq(0 .. Len(wire'))
  BY <1>1, <1>3, LaidBehind
<1>6. IsLaid(starts, wire)'
  BY <1>2, <1>5, LaidKept
<1>7. (Len(starts) = Len(RootOrder(from, sent)) + 1)'
  <2>1. Len(RootOrder(from, sent))' = n
    BY <1>2, EndsKept
  <2> QED
    BY <1>1, <1>2, <2>1
<1>8. Accepted(RootOrder(from, sent), Len(RootOrder(from, sent)))'
  BY <1>1, <1>2, AcceptedKeptTo
<1>9. Announced' => Accepted(AdditionOrder(from, sent), Len(AdditionOrder(from, sent)))'
  <2> HAVE Announced'
  <2>1. Announced
    BY <1>2, AnnouncedKept
  <2>2. i - 1 = Len(order) /\ Accepted(order, i - 1)
    BY <1>1, <2>1, OrdersTyped
  <2> QED
    BY <1>2, <2>2, AcceptedKeptTo
<1> QED
  BY <1>1, <1>2, <1>3, <1>4, <1>5, <1>6, <1>7, <1>8, <1>9 DEF WriterInv, Reading, Phases

(* The decoder leaves the message alone.                                   *)
LEMMA ReadingLays ==
  ASSUME WriterInv, phase \in Reading, phase' \in Reading, UNCHANGED <<exchange, wire, starts>>
  PROVE  WriterInv'
<1> DEFINE n == Len(RootOrder(from, sent))
           order == AdditionOrder(from, sent)
<1>1. exchange' = exchange /\ wire' = wire /\ starts' = starts
  OBVIOUS
<1>2. /\ exchange \in Names /\ wire \in Message /\ starts \in Seq(0 .. Len(wire))
      /\ Len(starts) = n + 1 /\ IsLaid(starts, wire) /\ Accepted(RootOrder(from, sent), n)
      /\ Len(wire) % Octet = 0 /\ (Announced => Accepted(order, Len(order)))
  BY DEF WriterInv
<1>3. IsLaid(starts, wire)'
  BY <1>1, <1>2, LaidKept
<1>4. (Len(starts) = Len(RootOrder(from, sent)) + 1)'
  <2>1. Len(RootOrder(from, sent))' = n
    BY <1>1, EndsKept
  <2> QED
    BY <1>1, <1>2, <2>1
<1>5. Accepted(RootOrder(from, sent), Len(RootOrder(from, sent)))'
  BY <1>1, <1>2, AcceptedKeptTo
<1>6. Announced' => Accepted(AdditionOrder(from, sent), Len(AdditionOrder(from, sent)))'
  BY <1>1, <1>2, AnnouncedKept, AcceptedKeptTo
<1>7. (Len(wire) % Octet = 0)' /\ (wire \in Message)' /\ (starts \in Seq(0 .. Len(wire)))'
  BY <1>1, <1>2
<1> QED
  BY <1>1, <1>2, <1>3, <1>4, <1>5, <1>6, <1>7 DEF WriterInv, Reading, Phases

(* Every step keeps what is known of the encoder.                          *)
LEMMA WriterStep ==
  ASSUME WriterInv, [Next]_vars
  PROVE  WriterInv'
<1>1. CASE EncodeMarker
  BY <1>1, EncodeMarkerLays
<1>2. CASE EncodePreamble
  BY <1>2, EncodePreambleLays
<1>3. CASE EncodeMember
  BY <1>3, EncodeMemberLays
<1>4. CASE RefuseMember
  <2>1. /\ exchange' = exchange /\ wire' = wire /\ starts' = starts
        /\ phase' = "refused"
    BY <1>4 DEF RefuseMember, writing
  <2>2. exchange \in Names /\ wire \in Message /\ starts \in Seq(0 .. Len(wire))
    BY DEF WriterInv
  <2> QED
    BY <2>1, <2>2 DEF WriterInv, Reading, Phases
<1>5. CASE EncodeBitmap
  BY <1>5, EncodeBitmapLays
<1>6. CASE EncodeAddition
  BY <1>6, EncodeAdditionLays
<1>7. CASE HandOver
  BY <1>7, HandOverLays
<1>8. CASE DecodeMarker \/ DecodePreamble \/ DecodeMember \/ RootFails \/ DecodeBitmap
           \/ DecodeAddition \/ KeepUnknown \/ AdditionFails \/ Return
  <2>1. phase \in Reading /\ phase' \in Reading /\ UNCHANGED <<exchange, wire, starts>>
    BY <1>8
       DEF DecodeMarker, DecodePreamble, DecodeMember, RootFails, DecodeBitmap, DecodeAddition,
           KeepUnknown, AdditionFails, Return, Reading, writing
  <2> QED
    BY <2>1, ReadingLays
<1>9. CASE UNCHANGED vars
  <2>1. /\ exchange' = exchange /\ phase' = phase /\ i' = i /\ wire' = wire /\ starts' = starts
    BY <1>9 DEF vars
  <2>2. /\ Announced' <=> Announced
        /\ MarkerBits' = MarkerBits
        /\ Len(RootOrder(from, sent))' = Len(RootOrder(from, sent))
        /\ Len(AdditionOrder(from, sent))' = Len(AdditionOrder(from, sent))
    BY <2>1, AnnouncedKept, PreambleKept, EndsKept
  <2>3. /\ Accepted(RootOrder(from, sent), i - 1) => Accepted(RootOrder(from, sent), i - 1)'
        /\ Accepted(AdditionOrder(from, sent), i - 1) => Accepted(AdditionOrder(from, sent), i - 1)'
        /\ Accepted(RootOrder(from, sent), Len(RootOrder(from, sent)))
             => Accepted(RootOrder(from, sent), Len(RootOrder(from, sent)))'
        /\ Accepted(AdditionOrder(from, sent), Len(AdditionOrder(from, sent)))
             => Accepted(AdditionOrder(from, sent), Len(AdditionOrder(from, sent)))'
    BY <2>1, AcceptedKeptTo
  <2>4. /\ IsLaid(starts, wire) => IsLaid(starts, wire)'
        /\ IsLaid(Append(starts, Len(wire)), wire) => IsLaid(Append(starts, Len(wire)), wire)'
    BY <2>1, LaidKept
  <2> QED
    BY <2>1, <2>2, <2>3, <2>4 DEF WriterInv
<1> QED
  BY <1>1, <1>2, <1>3, <1>4, <1>5, <1>6, <1>7, <1>8, <1>9 DEF Next

-----------------------------------------------------------------------------
(***************************************************************************)
(* What the decoder takes.                                                 *)
(***************************************************************************)

(* A member exchanged means to the reader what it meant to the sender.     *)
Kept(k) == k \in Exchanged => Meaning(k, got[k]) = Meaning(k, given[k])

(* Where the decoder is: at the mark of its member, with the flags that    *)
(* were given, with members so far kept and members to come fresh.         *)
ReaderInv ==
  LET order == RootOrder(to, read)
  IN  /\ phase \in {"marker", "preamble", "root", "additions", "read marker", "read preamble"} =>
           got = Fresh(to, read)
      /\ phase \in {"marker", "preamble", "root", "additions", "refused", "read marker"} => at = 0
      /\ phase = "read preamble" => at = Len(MarkerBits)
      /\ phase \in {"read preamble", "read root", "read additions"} => (extended => Announced)
      /\ phase = "read root" =>
           /\ i \in 1 .. Len(order) + 1
           /\ SameOrder => flags = GivenFlags(Optionals(from, sent))
           /\ \A j \in i .. Len(order) : got[order[j]] = Fresh(to, read)[order[j]]
           /\ AllFramed => /\ at = starts[i]
                           /\ \A k \in {order[j] : j \in 1 .. i - 1} : Kept(k)
      /\ phase = "read additions" => (flags # <<>> => extended)
      /\ phase \in {"read additions", "delivered"} => \A k \in Exchanged : Kept(k)

(* A member that means the same in the next state is kept there.           *)
LEMMA KeptNext ==
  ASSUME exchange' = exchange, NEW k,
         k \in Exchanged => Meaning(k, got'[k]) = Meaning(k, given[k])
  PROVE  Kept(k)'
BY EndsKept, ExchangedKept DEF Kept, Meaning

(* The head of the message as the decoder takes it.                        *)
LEMMA PreambleThere ==
  ASSUME WriterInv, phase \in Reading
  PROVE  /\ Extends(Preamble, wire) /\ Len(Preamble) = starts[1] /\ Extends(MarkerBits, wire)
<1>1. /\ exchange \in Names /\ wire \in Message /\ starts \in Seq(0 .. Len(wire))
      /\ Len(starts) = Len(RootOrder(from, sent)) + 1 /\ IsLaid(starts, wire)
  BY DEF WriterInv
<1>2. Upto(wire, starts[1]) = Preamble
  BY <1>1 DEF IsLaid
<1>3. starts[1] \in 0 .. Len(wire)
  BY <1>1, OrdersTyped
<1>4. Extends(Preamble, wire) /\ Len(Preamble) = starts[1]
  BY <1>1, <1>2, <1>3, UptoFacts
<1>5. Extends(MarkerBits, wire)
  BY <1>1, <1>4, PreambleFacts, ExtendsOnward
<1> QED
  BY <1>4, <1>5

(* The decoder sees an extension bit only when additions were announced.   *)
LEMMA MarkerTrip ==
  ASSUME WriterInv, phase \in Reading
  PROVE  /\ GetBits(wire, 0, IF read.marker THEN 1 ELSE 0).at = Len(MarkerBits)
         /\ GetBits(wire, 0, IF read.marker THEN 1 ELSE 0).value = 1 => Announced
<1>1. exchange \in Names /\ wire \in Message /\ Extends(MarkerBits, wire) /\ read.marker = sent.marker
  BY PreambleThere, ExchangeFacts DEF WriterInv
<1>2. <<>> \in Message /\ Len(<<>>) = 0 /\ 0 \in {0, 1} /\ 1 \in {0, 1}
  BY DEF Message
<1>3. CASE sent.marker
  <2> DEFINE b == IF Announced THEN 1 ELSE 0
  <2>1. b \in {0, 1} /\ MarkerBits = <<b>> /\ (b = 1 => Announced)
    BY <1>3 DEF MarkerBits
  <2> HIDE DEF b
  <2>2. Append(<<>>, b) = <<b>>
    OBVIOUS
  <2>3. Extends(Append(<<>>, b), wire)
    BY <1>1, <2>1, <2>2
  <2>4. GetBits(wire, Len(<<>>), 1) = Read(b, Len(<<>>) + 1)
    BY <1>1, <1>2, <2>1, <2>3, FlagTrip
  <2>5. GetBits(wire, 0, 1) = Read(b, 1) /\ Len(<<b>>) = 1
    BY <1>2, <2>4
  <2> QED
    BY <1>1, <1>3, <2>1, <2>5 DEF Read
<1>4. CASE ~ sent.marker
  <2>1. 0 \in Widths /\ 0 \in 0 .. Len(wire) /\ 0 \in Nat
    BY <1>1, MessageFacts, WordFacts DEF Widths
  <2>2. /\ GetBits(wire, 0, 0) = Read(GetBits(wire, 0, 0).value, After(wire, 0, 0))
        /\ GetBits(wire, 0, 0).value \in Nat /\ GetBits(wire, 0, 0).value < Power[0]
    BY <1>1, <2>1, GetBitsFacts
  <2>3. After(wire, 0, 0) \in 0 .. Len(wire) /\ After(wire, 0, 0) <= 0 + 0
    BY <1>1, <2>1, AfterFacts
  <2>4. GetBits(wire, 0, 0).at = 0
    BY <2>2, <2>3 DEF Read
  <2>5. GetBits(wire, 0, 0).value # 1
    BY <2>2, PowerDefined
  <2>6. MarkerBits = <<>>
    BY <1>4 DEF MarkerBits
  <2> QED
    BY <1>1, <1>2, <1>4, <2>4, <2>5, <2>6
<1> QED
  BY <1>3, <1>4

(* The decoder has the flags that were given when both agree on the order. *)
LEMMA FlagsTrip ==
  ASSUME WriterInv, phase \in Reading, SameOrder
  PROVE  GetFlags(wire, Len(MarkerBits), Len(Optionals(to, read)))
           = Read(GivenFlags(Optionals(from, sent)), starts[1])
<1> DEFINE w == MarkerBits
           x == GivenFlags(Optionals(from, sent))
<1>1. exchange \in Names /\ wire \in Message /\ Extends(Preamble, wire) /\ Len(Preamble) = starts[1]
  BY PreambleThere DEF WriterInv
<1>2. w \in Message /\ x \in Message /\ Preamble = w \o x
  BY <1>1, PreambleFacts DEF Preamble
<1>3. Optionals(from, sent) \in Seq(DOMAIN Members(sent))
  BY <1>1, ExchangeFacts, OptionalPlacesFacts
<1>4. Len(x) = Len(Optionals(to, read))
  BY <1>1, <1>3, GivenFlagsFacts, AgreedFacts
<1> HIDE DEF w, x
<1>5. GetFlags(wire, Len(w), Len(x)) = Read(x, Len(w \o x))
  BY <1>1, <1>2, GetFlagsTrip
<1> QED
  BY <1>1, <1>2, <1>4, <1>5 DEF w, x

(* A root member is read where it was written, and with its meaning.       *)
LEMMA MemberReadTrip ==
  ASSUME WriterInv, phase \in Reading, AllFramed, flags = GivenFlags(Optionals(from, sent)),
         i \in 1 .. Len(RootOrder(to, read)), at = starts[i],
         got[RootOrder(to, read)[i]] = Fresh(to, read)[RootOrder(to, read)[i]]
  PROVE  /\ MemberRead.value # Bad /\ MemberRead.at = starts[i + 1]
         /\ RootOrder(to, read)[i] \in Exchanged =>
              Meaning(RootOrder(to, read)[i], MemberRead.value)
                = Meaning(RootOrder(to, read)[i], given[RootOrder(to, read)[i]])
<1> DEFINE order == RootOrder(from, sent)
           k == order[i]
           m == Members(sent)[k]
           u == Upto(wire, starts[i])
           p == WithMember(u, i)
<1>1. /\ exchange \in Names /\ wire \in Message /\ starts \in Seq(0 .. Len(wire))
      /\ Len(starts) = Len(order) + 1 /\ IsLaid(starts, wire) /\ Accepted(order, Len(order))
      /\ Len(wire) % Octet = 0
  BY DEF WriterInv
<1>2. SameOrder /\ RootOrder(to, read) = order
  BY DEF AllFramed, SameOrder
<1>3. /\ Len(order) \in Nat /\ DOMAIN order = 1 .. Len(order)
      /\ i \in 1 .. Len(order) /\ i \in DOMAIN order /\ k \in DOMAIN Members(sent)
  BY <1>1, <1>2, OrdersTyped
<1>4. k \in DOMAIN Members(read) /\ Members(read)[k] = m
  BY <1>1, <1>2, <1>3, AgreedFacts
<1>5. starts[i] \in 0 .. Len(wire) /\ starts[i + 1] \in 0 .. Len(wire)
  BY <1>1, <1>3
<1>6. u \in Message /\ Len(u) = starts[i]
  BY <1>1, <1>5, UptoFacts
<1>7. p = Upto(wire, starts[i + 1])
  <2>1. i \in 1 .. Len(starts) - 1
    BY <1>1, <1>3
  <2> QED
    BY <1>1, <2>1 DEF IsLaid
<1>8. p \in Message /\ Len(p) = starts[i + 1] /\ Extends(p, wire)
  BY <1>1, <1>5, <1>7, UptoFacts
<1>9. IsRead(k) <=> IsSent(k)
  BY <1>1, <1>2, <1>3, PresenceTrip
<1>10. MemberRead = IF IsRead(k) THEN GetMember(to, m.type, wire, starts[i])
                    ELSE Read(Fresh(to, read)[k], starts[i])
  BY <1>2, <1>4 DEF MemberRead
<1>11. CASE IsSent(k)
  <2>1. Accepts(from, m.type, given[k])
    BY <1>1, <1>3, <1>11 DEF Accepted
  <2>2. given[k] # Absent /\ MemberGiven(from, m.type, given[k])
    BY <1>1, <1>3, <1>11, <2>1, SentFacts
  <2>3. Framed(m.type, given[k])
    <3>1. k \in ToSet(order)
      BY <1>3 DEF ToSet
    <3> QED
      BY <1>11, <3>1 DEF AllFramed
  <2>4. p = PutMember(from, u, m.type, given[k])
    BY <1>11 DEF WithMember
  <2> DEFINE g == GetMember(to, m.type, wire, Len(u))
             t == m.type
             v == given[k]
  <2>5. Ends /\ Extends(PutMember(from, u, t, v), wire) /\ MemberGiven(from, t, v) /\ Framed(t, v)
    BY <1>1, <1>8, <2>2, <2>3, <2>4, ExchangeFacts
  <2> HIDE DEF t, v, u
  <2>6. /\ GetMember(to, t, wire, Len(u)).at = Len(PutMember(from, u, t, v))
        /\ GetMember(to, t, wire, Len(u)).value # Bad
        /\ Faithful(t, v) =>
             LET y == GetMember(to, t, wire, Len(u)).value
             IN  (y = v \/ y # Absent) /\ MemberMeaning(t, y) = MemberMeaning(t, v)
    BY <1>1, <1>6, <2>5, MemberTrip
  <2>7. g.at = starts[i + 1] /\ g.value # Bad
    BY <1>8, <2>4, <2>6 DEF t, v
  <2>8. MemberRead = g
    BY <1>6, <1>9, <1>10, <1>11
  <2>9. k \in Exchanged => Meaning(k, g.value) = Meaning(k, given[k])
    <3> HAVE k \in Exchanged
    <3>1. Faithful(t, v)
      BY <1>11 DEF Exchanged, t, v
    <3>2. (g.value = v \/ g.value # Absent) /\ MemberMeaning(t, g.value) = MemberMeaning(t, v)
      BY <2>6, <3>1 DEF t
    <3>3. v # Absent /\ g.value # Absent
      BY <2>2, <3>2 DEF v
    <3> HIDE DEF g
    <3> QED
      BY <3>2, <3>3 DEF Meaning, t, v
  <2> HIDE DEF g
  <2> QED
    BY <1>2, <2>7, <2>8, <2>9
<1>12. CASE ~ IsSent(k)
  <2>1. MemberRead = Read(Fresh(to, read)[k], starts[i])
    BY <1>9, <1>10, <1>12
  <2>2. p = u
    BY <1>12 DEF WithMember
  <2>3. /\ Fresh(to, read)[k] # Bad
        /\ Fresh(to, read)[k] = Absent
             \/ (m.presence = "default" /\ Fresh(to, read)[k] = m.default)
        /\ m.presence = "default" => MemberMeaning(m.type, m.default) = m.default
    <3>1. SequenceType(to, read) /\ Presence(from, m)
      BY <1>1, <1>3, ExchangeFacts DEF SequenceType
    <3>2. m.presence = "default" => MemberMeaning(m.type, m.default) = m.default
      BY <3>1, DefaultFacts
    <3> QED
      BY <1>4, <3>1, <3>2, FreshFacts
  <2>4. Meaning(k, given[k]) = IF m.presence = "default" THEN m.default ELSE Absent
    BY <1>1, <1>3, <1>12, UnsentFacts
  <2>5. Meaning(k, Fresh(to, read)[k]) = IF m.presence = "default" THEN m.default ELSE Absent
    BY <2>3 DEF Meaning
  <2> QED
    BY <1>2, <1>6, <1>8, <2>1, <2>2, <2>3, <2>4, <2>5 DEF Read
<1> QED
  BY <1>11, <1>12

(* The types of the decoder's state.                                       *)
ReaderTypes ==
  /\ i \in Nat \ {0}
  /\ at \in 0 .. Len(wire) /\ flags \in Message /\ extended \in BOOLEAN
  /\ DOMAIN got = DOMAIN Members(read)
  /\ unknown \in Seq(Message)

(* The steps of the encoder.                                               *)
Encoding ==
  EncodeMarker \/ EncodePreamble \/ EncodeMember \/ RefuseMember
    \/ EncodeBitmap \/ EncodeAddition \/ HandOver

(* A place of a sequence holds one of its members.                         *)
LEMMA PlaceOf ==
  ASSUME NEW S, NEW order \in Seq(S), NEW j \in Nat, j >= 1, j <= Len(order)
  PROVE  order[j] \in S
OBVIOUS

(* The encoder leaves the decoder's state as it is.                        *)
LEMMA EncodingLeaves ==
  ASSUME WriterInv, Encoding
  PROVE  /\ phase \in {"marker", "preamble", "root", "additions"} /\ exchange' = exchange
         /\ phase' \in {"marker", "preamble", "root", "additions", "refused", "read marker"}
         /\ UNCHANGED reading /\ i' \in {i, 1, i + 1}
BY DEF Encoding, EncodeMarker, EncodePreamble, EncodeMember, RefuseMember, EncodeBitmap,
       EncodeAddition, HandOver, WriterInv

(* The offset of the decoder is always in the message.                     *)
LEMMA ReaderTypesStep ==
  ASSUME WriterInv, WriterInv', ReaderInv, ReaderTypes, [Next]_vars
  PROVE  ReaderTypes'
<1>1. /\ exchange \in Names /\ wire \in Message /\ i \in Nat /\ i >= 1
      /\ at \in 0 .. Len(wire) /\ flags \in Message /\ extended \in BOOLEAN
      /\ DOMAIN got = DOMAIN Members(read) /\ unknown \in Seq(Message)
  BY DEF WriterInv, ReaderTypes
<1>2. phase \in Reading => Len(wire) % Octet = 0
  BY DEF WriterInv
<1>3. CASE Encoding
  <2>1. /\ phase \in {"marker", "preamble", "root", "additions"} /\ exchange' = exchange
        /\ at' = at /\ flags' = flags /\ extended' = extended /\ got' = got /\ unknown' = unknown
        /\ i' \in {i, 1, i + 1}
    BY <1>3, EncodingLeaves DEF reading
  <2>2. at = 0 /\ wire' \in Message
    BY <2>1 DEF ReaderInv, WriterInv
  <2>3. at' \in 0 .. Len(wire')
    BY <2>1, <2>2, MessageFacts
  <2>4. read' = read
    BY <2>1, EndsKept
  <2> QED
    BY <1>1, <2>1, <2>3, <2>4 DEF ReaderTypes
<1>4. CASE UNCHANGED vars
  <2>1. read' = read
    BY <1>4, EndsKept DEF vars
  <2> QED
    BY <1>1, <1>4, <2>1 DEF ReaderTypes, vars
<1>5. CASE DecodeMarker
  <2> DEFINE x == GetBits(wire, at, IF read.marker THEN 1 ELSE 0)
  <2>1. /\ at' = x.at /\ extended' = (x.value = 1) /\ exchange' = exchange /\ i' = i
        /\ wire' = wire /\ flags' = flags /\ got' = got /\ unknown' = unknown
    BY <1>5 DEF DecodeMarker, writing
  <2>2. x.at \in 0 .. Len(wire)
    BY <1>1, BitsOnward
  <2> HIDE DEF x
  <2>3. read' = read
    BY <2>1, EndsKept
  <2> QED
    BY <1>1, <2>1, <2>2, <2>3 DEF ReaderTypes
<1>6. CASE DecodePreamble
  <2> DEFINE n == Len(Optionals(to, read))
             x == GetFlags(wire, at, n)
  <2>1. /\ at' = x.at /\ flags' = x.value /\ exchange' = exchange /\ i' = 1
        /\ wire' = wire /\ extended' = extended /\ got' = got /\ unknown' = unknown
    BY <1>6 DEF DecodePreamble, writing
  <2>2. n \in Nat
    BY <1>1, ExchangeFacts, OptionalPlacesFacts
  <2> HIDE DEF n
  <2>3. x.value \in Message /\ x.at \in at .. Len(wire)
    BY <1>1, <2>2, GetFlagsFacts
  <2> HIDE DEF x
  <2>4. read' = read
    BY <2>1, EndsKept
  <2>5. at' \in 0 .. Len(wire')
    BY <1>1, <2>1, <2>3
  <2> QED
    BY <1>1, <2>1, <2>3, <2>4, <2>5 DEF ReaderTypes
<1>7. CASE DecodeMember
  <2> DEFINE k == RootOrder(to, read)[i]
             g == GetMember(to, Members(read)[k].type, wire, at)
  <2>1. /\ at' = MemberRead.at
        /\ exchange' = exchange /\ i' = i + 1 /\ phase = "read root" /\ i <= Len(RootOrder(to, read))
        /\ wire' = wire /\ extended' = extended /\ flags' = flags /\ unknown' = unknown
    BY <1>7 DEF DecodeMember, writing
  <2>2. read' = read
    BY <2>1, EndsKept
  <2>3. k \in DOMAIN Members(read)
    <3>1. RootOrder(to, read) \in Seq(DOMAIN Members(read))
      BY <1>1, ExchangeFacts, OrdersFacts DEF IsListing
    <3>2. i <= Len(RootOrder(to, read))
      BY <2>1
    <3> QED
      BY <1>1, <3>1, <3>2, PlaceOf
  <2>4. MemberType(Members(read)[k].type) /\ Len(wire) % Octet = 0 /\ IsCodec(to)
    BY <1>1, <1>2, <2>1, <2>3, ExchangeFacts DEF SequenceType, Reading
  <2>5. g.at \in at .. Len(wire)
    BY <1>1, <2>4, GetMemberFacts
  <2>6. MemberRead.at = g.at \/ MemberRead.at = at
    BY DEF MemberRead, Read
  <2> HIDE DEF g, k
  <2>7. at' \in 0 .. Len(wire')
    <3>1. at' = g.at \/ at' = at
      BY <2>1, <2>6
    <3>2. wire' = wire /\ Len(wire) \in Nat
      BY <1>1, <2>1, MessageFacts
    <3> QED
      BY <1>1, <2>5, <3>1, <3>2
  <2>8. DOMAIN got' = DOMAIN got
    BY <1>7 DEF DecodeMember
  <2> QED
    <3>0. i' = i + 1
      BY <2>1
    <3>1. i' \in Nat \ {0}
      BY <1>1, <3>0
    <3>3. (DOMAIN got = DOMAIN Members(read))'
      BY <1>1, <2>2, <2>8
    <3>2. (flags \in Message)' /\ (extended \in BOOLEAN)' /\ (unknown \in Seq(Message))'
      BY <1>1, <2>1
    <3> QED
      BY <2>7, <3>1, <3>2, <3>3 DEF ReaderTypes
<1>8. CASE DecodeBitmap
  <2> DEFINE n == GetLength(wire, at)
             x == GetFlags(wire, n.at, n.value)
  <2>1. /\ exchange' = exchange /\ i' = 1
        /\ wire' = wire /\ extended' = extended /\ got' = got /\ unknown' = unknown
        /\ (flags' = x.value /\ at' = x.at) \/ (flags' = <<>> /\ at' = at)
    BY <1>8 DEF DecodeBitmap, writing
  <2>2. n.value \in Nat /\ n.at \in at .. Len(wire)
    BY <1>1, GetLengthFacts
  <2> HIDE DEF n
  <2>3. n.at \in 0 .. Len(wire)
    BY <1>1, <2>2
  <2>4. x.value \in Message /\ x.at \in n.at .. Len(wire)
    BY <1>1, <2>2, <2>3, GetFlagsFacts
  <2> HIDE DEF x
  <2>5. flags' \in Message /\ at' \in 0 .. Len(wire')
    <3>1. <<>> \in Message
      BY DEF Message
    <3> QED
      BY <1>1, <2>1, <2>2, <2>4, <3>1
  <2>6. read' = read
    BY <2>1, EndsKept
  <2> QED
    BY <1>1, <2>1, <2>5, <2>6 DEF ReaderTypes
<1>9. CASE DecodeAddition \/ KeepUnknown
  <2> DEFINE open == GetOpen(wire, at)
  <2>1. /\ exchange' = exchange /\ i' = i + 1 /\ phase = "read additions"
        /\ wire' = wire /\ extended' = extended /\ flags' = flags
    BY <1>9 DEF DecodeAddition, KeepUnknown, writing
  <2>7. at' = at \/ at' = open.at
    BY <1>9 DEF DecodeAddition, KeepUnknown
  <2>8. unknown' = unknown \/ unknown' = Append(unknown, open.value)
    BY <1>9 DEF DecodeAddition, KeepUnknown
  <2>2. DOMAIN got' = DOMAIN got
    BY <1>9 DEF DecodeAddition, KeepUnknown
  <2>3. open.value \in Message /\ open.at \in at .. Len(wire)
    BY <1>1, <1>2, <2>1, GetOpenFacts DEF Reading
  <2> HIDE DEF open
  <2>4. at' \in 0 .. Len(wire')
    <3>1. wire' = wire /\ Len(wire) \in Nat
      BY <1>1, <2>1, MessageFacts
    <3> QED
      BY <1>1, <2>3, <2>7, <3>1
  <2>5. unknown' \in Seq(Message)
    <3> HIDE DEF Message
    <3> QED
      BY <1>1, <2>3, <2>8
  <2>6. read' = read
    BY <2>1, EndsKept
  <2> QED
    <3>0. i' = i + 1
      BY <2>1
    <3>1. i' \in Nat \ {0}
      BY <1>1, <3>0
    <3>3. (DOMAIN got = DOMAIN Members(read))'
      BY <1>1, <2>2, <2>6
    <3>2. (flags \in Message)' /\ (extended \in BOOLEAN)'
      BY <1>1, <2>1
    <3> QED
      BY <2>4, <2>5, <3>1, <3>2, <3>3 DEF ReaderTypes
<1>10. CASE RootFails \/ AdditionFails \/ Return
  <2>1. /\ exchange' = exchange /\ i' = i /\ wire' = wire
        /\ at' = at /\ flags' = flags /\ extended' = extended /\ got' = got /\ unknown' = unknown
    BY <1>10 DEF RootFails, AdditionFails, Return, reading, writing
  <2>2. read' = read
    BY <2>1, EndsKept
  <2> QED
    BY <1>1, <2>1, <2>2 DEF ReaderTypes
<1> QED
  BY <1>3, <1>4, <1>5, <1>6, <1>7, <1>8, <1>9, <1>10 DEF Next, Encoding

(* One more member is decoded, or left as it was.                          *)
LEMMA StillInType ==
  ASSUME DecodedInType, exchange' = exchange, NEW k, NEW x,
         Cpp(to) => x = Fresh(to, read)[k] \/ Sound(to, Members(read)[k].type, x),
         got' = [got EXCEPT ![k] = x]
  PROVE  DecodedInType'
<1>1. to' = to /\ read' = read /\ Fresh(to, read)' = Fresh(to, read)
  BY EndsKept
<1>2. DOMAIN got' = DOMAIN got /\ \A j \in DOMAIN got : got'[j] = IF j = k THEN x ELSE got[j]
  OBVIOUS
<1> QED
  BY <1>1, <1>2 DEF DecodedInType

(* Every step keeps what is decoded in its type.                           *)
LEMMA DecodedStep ==
  ASSUME WriterInv, ReaderTypes, DecodedInType, [Next]_vars
  PROVE  DecodedInType'
<1>1. /\ exchange \in Names /\ wire \in Message /\ i \in Nat /\ i >= 1
      /\ at \in 0 .. Len(wire) /\ DOMAIN got = DOMAIN Members(read)
  BY DEF WriterInv, ReaderTypes
<1>2. phase \in Reading => Len(wire) % Octet = 0
  BY DEF WriterInv
<1>3. /\ IsCodec(to) /\ RootOrder(to, read) \in Seq(DOMAIN Members(read))
      /\ AdditionOrder(to, read) \in Seq(DOMAIN Members(read))
      /\ \A k \in DOMAIN Members(read) : MemberType(Members(read)[k].type)
  BY <1>1, ExchangeFacts, OrdersFacts DEF IsListing, SequenceType
<1>4. CASE DecodeMember
  <2> DEFINE k == RootOrder(to, read)[i]
             t == Members(read)[k].type
             g == GetMember(to, t, wire, at)
             x == MemberRead.value
  <2>1. /\ got' = [got EXCEPT ![k] = x] /\ x # Bad
        /\ exchange' = exchange /\ phase = "read root" /\ i <= Len(RootOrder(to, read))
    BY <1>4 DEF DecodeMember
  <2>2. k \in DOMAIN Members(read)
    <3>1. i <= Len(RootOrder(to, read))
      BY <2>1
    <3> QED
      BY <1>1, <1>3, <3>1, PlaceOf
  <2>3. x = IF IsRead(k) THEN g.value ELSE got[k]
    BY DEF MemberRead, Read
  <2>4. Len(wire) % Octet = 0
    BY <1>2, <2>1 DEF Reading
  <2>5. Cpp(to) => g.value = Bad \/ Sound(to, t, g.value)
    BY <1>1, <1>3, <2>2, <2>4, GetMemberFacts
  <2>6. Cpp(to) => x = Fresh(to, read)[k] \/ Sound(to, t, x)
    <3> HIDE DEF g, x
    <3> QED
      BY <1>1, <2>1, <2>2, <2>3, <2>5 DEF DecodedInType
  <2> HIDE DEF k, x
  <2> QED
    BY <2>1, <2>6, StillInType
<1>5. CASE DecodeAddition
  <2> DEFINE k == AdditionOrder(to, read)[i]
             t == Members(read)[k].type
             open == GetOpen(wire, at)
             g == GetMember(to, t, open.value, 0)
  <2>1. /\ got' = got \/ (got' = [got EXCEPT ![k] = g.value] /\ g.value # Bad)
        /\ exchange' = exchange /\ phase = "read additions" /\ i <= Len(AdditionOrder(to, read))
    BY <1>5 DEF DecodeAddition
  <2>2. k \in DOMAIN Members(read)
    <3>1. i <= Len(AdditionOrder(to, read))
      BY <2>1
    <3> QED
      BY <1>1, <1>3, <3>1, PlaceOf
  <2>3. open.value \in Message /\ Len(open.value) % Octet = 0
    BY <1>1, <1>2, <2>1, GetOpenFacts DEF Reading
  <2>4. 0 \in 0 .. Len(open.value)
    BY <2>3, MessageFacts
  <2>5. Cpp(to) => g.value = Bad \/ Sound(to, t, g.value)
    <3> HIDE DEF open
    <3> QED
      BY <1>3, <2>2, <2>3, <2>4, GetMemberFacts
  <2> HIDE DEF g, k
  <2>6. CASE got' = got
    BY <2>1, <2>6, EndsKept DEF DecodedInType
  <2>7. CASE got' # got
    BY <2>1, <2>5, <2>7, StillInType
  <2> QED
    BY <2>6, <2>7
<1>6. CASE ~ DecodeMember /\ ~ DecodeAddition
  <2>1. got' = got /\ exchange' = exchange
    BY <1>6
       DEF Next, vars, reading, writing, EncodeMarker, EncodePreamble, EncodeMember, RefuseMember,
           EncodeBitmap, EncodeAddition, HandOver, DecodeMarker, DecodePreamble, RootFails,
           DecodeBitmap, KeepUnknown, AdditionFails, Return
  <2> QED
    BY <2>1, EndsKept DEF DecodedInType
<1> QED
  BY <1>4, <1>5, <1>6

(* A member that is not touched is kept.                                   *)
LEMMA KeptSame ==
  ASSUME exchange' = exchange, NEW k, got'[k] = got[k], Kept(k)
  PROVE  Kept(k)'
BY KeptNext DEF Kept

(* The flags that were given stay the same.                                *)
LEMMA FlagsKept ==
  ASSUME exchange' = exchange
  PROVE  GivenFlags(Optionals(from, sent))' = GivenFlags(Optionals(from, sent))
BY EndsKept DEF GivenFlags, IsSent

(* The members exchanged are root members at the same place at both ends.  *)
LEMMA ExchangedAreRoot ==
  ASSUME NEW k \in Exchanged
  PROVE  /\ AllFramed /\ RootOrder(to, read) = RootOrder(from, sent)
         /\ \E j \in DOMAIN RootOrder(to, read) : k = RootOrder(to, read)[j]
<1>1. AllFramed /\ k \in ToSet(RootOrder(from, sent))
  BY DEF Exchanged
<1>2. RootOrder(to, read) = RootOrder(from, sent)
  BY <1>1 DEF AllFramed, SameOrder
<1> QED
  BY <1>1, <1>2 DEF ToSet

(* Decoding one root member keeps those before, and comes to the next      *)
(* mark.                                                                   *)
LEMMA DecodeMemberKeeps ==
  ASSUME WriterInv, ReaderTypes, ReaderInv, DecodeMember
  PROVE  ReaderInv'
<1> DEFINE order == RootOrder(to, read)
           n == Len(order)
           k == order[i]
           x == MemberRead
<1>1. /\ exchange \in Names /\ i \in 1 .. n + 1 /\ i <= n
      /\ extended => Announced
      /\ SameOrder => flags = GivenFlags(Optionals(from, sent))
      /\ \A j \in i .. n : got[order[j]] = Fresh(to, read)[order[j]]
      /\ AllFramed => at = starts[i] /\ \A l \in {order[j] : j \in 1 .. i - 1} : Kept(l)
      /\ phase \in Reading
  BY DEF WriterInv, ReaderInv, DecodeMember, Reading
<1>2. /\ exchange' = exchange /\ phase' = "read root" /\ i' = i + 1
      /\ starts' = starts /\ flags' = flags /\ extended' = extended /\ at' = x.at
  BY DEF DecodeMember, writing
<1>3. got' = [got EXCEPT ![k] = x.value]
  BY DEF DecodeMember
<1>4. IsListing(order, DOMAIN Members(read)) /\ DOMAIN got = DOMAIN Members(read)
  BY <1>1, ExchangeFacts, OrdersFacts DEF ReaderTypes
<1>5. /\ n \in Nat /\ DOMAIN order = 1 .. n /\ i \in 1 .. n
      /\ \A j \in 1 .. n : order[j] \in DOMAIN got /\ (order[j] = k => j = i)
  <2>1. order \in Seq(DOMAIN Members(read)) /\ \A j, l \in DOMAIN order : order[j] = order[l] => j = l
    BY <1>4 DEF IsListing
  <2>2. n \in Nat /\ DOMAIN order = 1 .. n
    BY <2>1
  <2>3. i \in 1 .. n
    BY <1>1, <2>2
  <2>4. \A j \in 1 .. n : order[j] \in DOMAIN got
    BY <1>4, <2>1, <2>2
  <2> QED
    BY <2>1, <2>2, <2>3, <2>4
<1>6. \A j \in 1 .. n : j # i => got'[order[j]] = got[order[j]]
  BY <1>3, <1>5
<1>7. got'[k] = x.value
  BY <1>3, <1>5
<1>8. /\ (to' = to /\ read' = read) /\ RootOrder(to, read)' = order
      /\ (AllFramed' <=> AllFramed) /\ (SameOrder' <=> SameOrder) /\ (Announced' <=> Announced)
      /\ GivenFlags(Optionals(from, sent))' = GivenFlags(Optionals(from, sent))
  BY <1>2, EndsKept, AllFramedKept, SameOrderKept, AnnouncedKept, FlagsKept
<1>9. i' = i + 1
  BY <1>2
<1>10. AllFramed => at' = starts[i']
                    /\ \A l \in {order[j] : j \in 1 .. i' - 1} : Kept(l)'
  <2> HAVE AllFramed
  <2>1. SameOrder
    BY DEF AllFramed
  <2>2. got[order[i]] = Fresh(to, read)[order[i]]
    BY <1>1, <1>5
  <2>3. /\ x.at = starts[i + 1]
        /\ k \in Exchanged => Meaning(k, x.value) = Meaning(k, given[k])
    BY <1>1, <1>5, <2>1, <2>2, MemberReadTrip
  <2>4. at' = starts[i']
    BY <1>2, <2>3
  <2>5. ASSUME NEW l \in {order[j] : j \in 1 .. i' - 1} PROVE Kept(l)'
    <3>1. PICK j \in 1 .. i' - 1 : l = order[j]
      OBVIOUS
    <3>2. CASE j = i
      <4>1. l = k
        BY <3>1, <3>2
      <4>2. l \in Exchanged => Meaning(l, got'[l]) = Meaning(l, given[l])
        BY <1>7, <2>3, <4>1
      <4> QED
        BY <1>2, <4>2, KeptNext
    <3>3. CASE j # i
      <4>1. j \in 1 .. i - 1 /\ j \in 1 .. n
        BY <1>5, <1>9, <3>3
      <4>2. l \in {order[h] : h \in 1 .. i - 1}
        BY <3>1, <4>1
      <4>3. got'[l] = got[l] /\ Kept(l)
        BY <1>1, <1>6, <3>1, <3>3, <4>1, <4>2
      <4> QED
        BY <1>2, <4>3, KeptSame
    <3> QED
      BY <3>2, <3>3
  <2> QED
    BY <2>4, <2>5
<1>11. \A j \in i' .. n : got'[order[j]] = Fresh(to, read)[order[j]]
  <2> TAKE j \in i' .. n
  <2>1. j \in i .. n /\ j \in 1 .. n /\ j # i
    BY <1>5, <1>9
  <2> QED
    BY <1>1, <1>6, <2>1
<1>12. i' \in 1 .. n + 1
  BY <1>5, <1>9
<1> HIDE DEF x, k
<1> QED
  BY <1>1, <1>2, <1>8, <1>10, <1>11, <1>12 DEF ReaderInv

(* Decoding the flags comes to the first mark.                             *)
LEMMA DecodePreambleKeeps ==
  ASSUME WriterInv, ReaderTypes, ReaderInv, DecodePreamble
  PROVE  ReaderInv'
<1> DEFINE order == RootOrder(to, read)
           n == Len(order)
           x == GetFlags(wire, at, Len(Optionals(to, read)))
<1>1. /\ exchange \in Names /\ at = Len(MarkerBits) /\ got = Fresh(to, read)
      /\ extended => Announced
      /\ phase \in Reading
  BY DEF WriterInv, ReaderInv, DecodePreamble, Reading
<1>2. /\ exchange' = exchange /\ phase' = "read root" /\ i' = 1 /\ got' = got
      /\ starts' = starts /\ flags' = x.value /\ extended' = extended /\ at' = x.at
  BY DEF DecodePreamble, writing
<1>3. SameOrder => x = Read(GivenFlags(Optionals(from, sent)), starts[1])
  BY <1>1, FlagsTrip
<1>4. /\ (to' = to /\ read' = read) /\ RootOrder(to, read)' = order
      /\ (AllFramed' <=> AllFramed) /\ (SameOrder' <=> SameOrder) /\ (Announced' <=> Announced)
      /\ GivenFlags(Optionals(from, sent))' = GivenFlags(Optionals(from, sent))
  BY <1>2, EndsKept, AllFramedKept, SameOrderKept, AnnouncedKept, FlagsKept
<1> HIDE DEF x
<1>5. SameOrder => flags' = GivenFlags(Optionals(from, sent)) /\ at' = starts[1]
  <2>1. flags' = x.value /\ at' = x.at
    BY <1>2 DEF x
  <2> QED
    BY <1>3, <2>1 DEF Read
<1>6. AllFramed => SameOrder
  BY DEF AllFramed
<1>7. i' \in 1 .. n + 1 /\ {order[j] : j \in 1 .. i' - 1} = {}
  <2>1. order \in Seq(DOMAIN Members(read))
    BY <1>1, ExchangeFacts, OrdersFacts DEF IsListing
  <2>2. n \in Nat
    BY <2>1
  <2>3. i' = 1
    BY <1>2
  <2> HIDE DEF n, order
  <2> QED
    BY <2>2, <2>3
<1> QED
  BY <1>1, <1>2, <1>4, <1>5, <1>6, <1>7 DEF ReaderInv

(* When the root has been read the members that can be exchanged were.     *)
LEMMA DecodeBitmapKeeps ==
  ASSUME WriterInv, ReaderTypes, ReaderInv, DecodeBitmap
  PROVE  ReaderInv'
<1> DEFINE order == RootOrder(to, read)
           n == Len(order)
<1>1. /\ exchange \in Names /\ i \in 1 .. n + 1 /\ i > n
      /\ extended => Announced
      /\ AllFramed => \A l \in {order[j] : j \in 1 .. i - 1} : Kept(l)
  BY DEF WriterInv, ReaderInv, DecodeBitmap
<1>2. /\ exchange' = exchange /\ phase' = "read additions" /\ got' = got /\ extended' = extended
      /\ flags' # <<>> => extended
  BY DEF DecodeBitmap, writing
<1>3. order \in Seq(DOMAIN Members(read))
  BY <1>1, ExchangeFacts, OrdersFacts DEF IsListing
<1>4. n \in Nat /\ DOMAIN order = 1 .. n /\ i = n + 1
  BY <1>1, <1>3
<1>5. Exchanged' = Exchanged /\ (Announced' <=> Announced)
  BY <1>2, ExchangedKept, AnnouncedKept
<1>6. ASSUME NEW k \in Exchanged PROVE Kept(k)'
  <2>1. AllFramed
    BY ExchangedAreRoot
  <2>2. PICK j \in 1 .. n : k = order[j]
    BY <1>4, ExchangedAreRoot
  <2>3. Kept(k)
    BY <1>1, <1>4, <2>1, <2>2
  <2> QED
    BY <1>2, <2>3, KeptSame
<1> QED
  BY <1>1, <1>2, <1>5, <1>6 DEF ReaderInv

(* An addition is not a root member.                                       *)
LEMMA DecodeAdditionKeeps ==
  ASSUME WriterInv, ReaderTypes, ReaderInv, DecodeAddition
  PROVE  ReaderInv'
<1> DEFINE order == AdditionOrder(to, read)
           l == order[i]
<1>0. phase = "read additions" /\ i <= Len(order)
  BY DEF DecodeAddition
<1>1. /\ exchange \in Names /\ i \in Nat /\ i >= 1 /\ i <= Len(order)
      /\ extended => Announced
      /\ flags # <<>> => extended
      /\ \A k \in Exchanged : Kept(k)
  <2>1. exchange \in Names /\ i \in Nat /\ i >= 1
    BY DEF WriterInv, ReaderTypes
  <2>2. (extended => Announced) /\ (flags # <<>> => extended) /\ \A k \in Exchanged : Kept(k)
    BY <1>0 DEF ReaderInv
  <2> QED
    BY <1>0, <2>1, <2>2
<1>2. /\ exchange' = exchange /\ phase' = "read additions" /\ extended' = extended /\ flags' = flags
  BY DEF DecodeAddition, writing
<1>3. got' = got \/ \E y : got' = [got EXCEPT ![l] = y]
  BY DEF DecodeAddition
<1>4. \A k : k # l => got'[k] = got[k]
  <2> SUFFICES ASSUME NEW y, got' = [got EXCEPT ![l] = y], NEW k, k # l
               PROVE  got'[k] = got[k]
    BY <1>3
  <2>1. CASE k \in DOMAIN got
    BY <2>1
  <2>2. CASE k \notin DOMAIN got
    BY <2>2
  <2> QED
    BY <2>1, <2>2
<1>5. Exchanged' = Exchanged /\ (Announced' <=> Announced)
  BY <1>2, ExchangedKept, AnnouncedKept
<1>6. ASSUME NEW k \in Exchanged PROVE Kept(k)'
  <2>1. PICK j \in DOMAIN RootOrder(to, read) : k = RootOrder(to, read)[j]
    BY ExchangedAreRoot
  <2>2. order \in Seq(DOMAIN Members(read))
        /\ \A j1 \in DOMAIN RootOrder(to, read), k1 \in DOMAIN order : RootOrder(to, read)[j1] # order[k1]
    BY <1>1, ExchangeFacts, OrdersFacts
  <2>3. i \in DOMAIN order
    BY <1>1, <2>2
  <2>4. k # l
    BY <2>1, <2>2, <2>3
  <2>5. Kept(k) /\ got'[k] = got[k]
    BY <1>1, <1>4, <2>4
  <2> QED
    BY <1>2, <2>5, KeptSame
<1> QED
  BY <1>1, <1>2, <1>5, <1>6 DEF ReaderInv

-----------------------------------------------------------------------------
(***************************************************************************)
(* The inductive invariant, and what follows.                              *)
(***************************************************************************)

(* Every step keeps what is known of the decoder.                          *)
LEMMA ReaderStep ==
  ASSUME WriterInv, ReaderTypes, ReaderInv, [Next]_vars
  PROVE  ReaderInv'
<1>0. exchange \in Names
  BY DEF WriterInv
<1>1. CASE Encoding
  <2>1. /\ phase \in {"marker", "preamble", "root", "additions"} /\ exchange' = exchange
        /\ phase' \in {"marker", "preamble", "root", "additions", "refused", "read marker"}
        /\ at' = at /\ got' = got
    BY <1>1, EncodingLeaves DEF reading
  <2>2. at = 0 /\ got = Fresh(to, read)
    BY <2>1 DEF ReaderInv
  <2>3. to' = to /\ read' = read
    BY <2>1, EndsKept
  <2> QED
    BY <2>1, <2>2, <2>3 DEF ReaderInv
<1>2. CASE DecodeMarker
  <2> DEFINE x == GetBits(wire, at, IF read.marker THEN 1 ELSE 0)
  <2>1. /\ phase = "read marker" /\ phase' = "read preamble" /\ exchange' = exchange
        /\ at' = x.at /\ got' = got
    BY <1>2 DEF DecodeMarker, writing
  <2>2. extended' = (x.value = 1)
    BY <1>2 DEF DecodeMarker
  <2>3. at = 0 /\ got = Fresh(to, read) /\ phase \in Reading
    BY <2>1 DEF ReaderInv, Reading
  <2>4. x.at = Len(MarkerBits) /\ (x.value = 1 => Announced)
    BY <2>3, MarkerTrip
  <2>5. /\ (to' = to /\ read' = read) /\ MarkerBits' = MarkerBits /\ (Announced' <=> Announced)
    BY <2>1, EndsKept, PreambleKept, AnnouncedKept
  <2> HIDE DEF x
  <2> QED
    BY <2>1, <2>2, <2>3, <2>4, <2>5 DEF ReaderInv
<1>3. CASE DecodePreamble
  BY <1>3, DecodePreambleKeeps
<1>4. CASE DecodeMember
  BY <1>4, DecodeMemberKeeps
<1>5. CASE DecodeBitmap
  BY <1>5, DecodeBitmapKeeps
<1>6. CASE DecodeAddition
  BY <1>6, DecodeAdditionKeeps
<1>7. CASE RootFails \/ AdditionFails
  <2>1. phase' = "failed"
    BY <1>7 DEF RootFails, AdditionFails
  <2> QED
    BY <2>1 DEF ReaderInv
<1>8. CASE KeepUnknown \/ Return
  <2>1. /\ phase = "read additions" /\ phase' \in {"read additions", "delivered"}
        /\ exchange' = exchange /\ got' = got
    BY <1>8 DEF KeepUnknown, Return, writing, reading
  <2>2. flags' = flags /\ extended' = extended
    BY <1>8 DEF KeepUnknown, Return, writing, reading
  <2>3. /\ extended => Announced
        /\ flags # <<>> => extended
        /\ \A k \in Exchanged : Kept(k)
    BY <2>1 DEF ReaderInv
  <2>4. Exchanged' = Exchanged /\ (Announced' <=> Announced)
    BY <2>1, ExchangedKept, AnnouncedKept
  <2>5. ASSUME NEW k \in Exchanged PROVE Kept(k)'
    BY <2>1, <2>3, KeptSame
  <2> QED
    BY <2>1, <2>2, <2>3, <2>4, <2>5 DEF ReaderInv
<1>9. CASE UNCHANGED vars
  <2>1. /\ exchange' = exchange /\ phase' = phase /\ i' = i /\ at' = at /\ got' = got
        /\ flags' = flags /\ extended' = extended /\ starts' = starts
    BY <1>9 DEF vars
  <2>2. /\ to' = to /\ read' = read /\ MarkerBits' = MarkerBits /\ (Announced' <=> Announced)
        /\ (SameOrder' <=> SameOrder) /\ (AllFramed' <=> AllFramed) /\ Exchanged' = Exchanged
        /\ GivenFlags(Optionals(from, sent))' = GivenFlags(Optionals(from, sent))
    BY <2>1, EndsKept, PreambleKept, AnnouncedKept, SameOrderKept, AllFramedKept,
       ExchangedKept, FlagsKept
  <2>3. ASSUME NEW k, Kept(k) PROVE Kept(k)'
    BY <2>1, <2>3, KeptSame
  <2> QED
    BY <2>1, <2>2, <2>3 DEF ReaderInv
<1> QED
  BY <1>1, <1>2, <1>3, <1>4, <1>5, <1>6, <1>7, <1>8, <1>9 DEF Next, Encoding

(* The inductive invariant.                                                *)

(* The inductive invariant: what is laid, the types and the place of the   *)
(* decoder, and what it has decoded.                                       *)
IInv == WriterInv /\ ReaderTypes /\ ReaderInv /\ DecodedInType

(* It holds when an exchange begins.                                       *)
LEMMA CodecInit ==
  ASSUME Init
  PROVE  IInv
<1>1. /\ exchange \in Names /\ phase = "marker" /\ i = 1 /\ wire = <<>> /\ starts = <<>>
      /\ at = 0 /\ flags = <<>> /\ extended = FALSE /\ got = Fresh(to, read) /\ unknown = <<>>
  BY DEF Init
<1>2. <<>> \in Message /\ Len(<<>>) = 0
  BY DEF Message
<1>3. SequenceType(to, read)
  BY <1>1, ExchangeFacts
<1>4. WriterInv
  BY <1>1, <1>2 DEF WriterInv, Phases, Reading
<1>5. DOMAIN got = DOMAIN Members(read)
  BY <1>1 DEF Fresh
<1>6. ReaderTypes
  <2>1. <<>> \in Seq(Message) /\ 0 \in 0 .. Len(<<>>) /\ 1 \in Nat \ {0}
    <3> HIDE DEF Message
    <3> QED
      BY <1>2
  <2> QED
    BY <1>1, <1>2, <1>5, <2>1 DEF ReaderTypes
<1>7. ReaderInv
  BY <1>1 DEF ReaderInv
<1>8. DecodedInType
  BY <1>1, <1>3, <1>5, FreshFacts DEF DecodedInType
<1> QED
  BY <1>4, <1>6, <1>7, <1>8 DEF IInv

(* Every step keeps it.                                                    *)
LEMMA CodecStep ==
  ASSUME IInv, [Next]_vars
  PROVE  IInv'
<1>1. WriterInv /\ ReaderTypes /\ ReaderInv /\ DecodedInType
  BY DEF IInv
<1>2. WriterInv'
  BY <1>1, WriterStep
<1>3. ReaderTypes'
  BY <1>1, <1>2, ReaderTypesStep
<1>4. ReaderInv'
  BY <1>1, ReaderStep
<1>5. DecodedInType'
  BY <1>1, DecodedStep
<1> QED
  BY <1>2, <1>3, <1>4, <1>5 DEF IInv

(* So it holds always.                                                     *)
LEMMA CodecInvariant == Spec => []IInv
<1>1. Init => IInv
  BY CodecInit
<1>2. IInv /\ [Next]_vars => IInv'
  BY CodecStep
<1> QED
  BY <1>1, <1>2, PTL DEF Spec

(* Whatever is exchanged, by whichever codecs of whichever versions of the *)
(* type, the decoder never leaves the message, and fills no member that    *)
(* its type has not.                                                       *)
THEOREM CodecTypeCorrect == Spec => []TypeOK
<1>1. IInv => TypeOK
  BY DEF IInv, WriterInv, ReaderTypes, TypeOK, Message
<1> QED
  BY <1>1, CodecInvariant, PTL

(* The C++ decoder checks what it reads against the constraints of its own *)
(* version of the type, also when the message was written for another: a   *)
(* value outside of them is one that no generated code reads, the new one. *)
THEOREM DecodedValuesFit == Spec => []DecodedInType
<1>1. IInv => DecodedInType
  BY DEF IInv
<1> QED
  BY <1>1, CodecInvariant, PTL

(* Encode and decode agree on the place of every root member: when all     *)
(* given values are framed, the decoder begins each where the encoder did, *)
(* whichever members are left out, and however long the message is.        *)
THEOREM EndsInStep == Spec => []MembersInStep
<1>1. IInv => MembersInStep
  BY DEF IInv, ReaderInv, MembersInStep
<1> QED
  BY <1>1, CodecInvariant, PTL

(* What is delivered means what was given.                                 *)
LEMMA MeaningsKept ==
  ASSUME IInv, phase \in {"read additions", "delivered"}
  PROVE  Meanings(got) = Meanings(given)
<1>1. \A k \in Exchanged : Kept(k)
  BY DEF IInv, ReaderInv
<1>2. \A k \in Exchanged : Meaning(k, got[k]) = Meaning(k, given[k])
  BY <1>1 DEF Kept
<1> QED
  BY <1>2 DEF Meanings

(* What is encoded by one language, version and order of members is        *)
(* decoded by another with the meaning it had: root members arrive,        *)
(* whatever additions follow.                                              *)
THEOREM RootArrives == Spec => []RootIntact
<1>1. IInv => RootIntact
  BY MeaningsKept DEF RootIntact
<1> QED
  BY <1>1, CodecInvariant, PTL

(* The refinement of ValueTransfer.                                        *)

(* The encoder takes all that is written.                                  *)
Acceptable == \A k \in Written : Accepts(from, Members(sent)[k].type, given[k])

(* What an exchange has come to.                                           *)
Outcome == IF phase \in {"refused", "failed", "delivered"} THEN phase ELSE "pending"

(* What the receiver has of it.                                            *)
Delivered == IF phase = "delivered" THEN Meanings(got) ELSE Absent

(* What the transfer is about does not change.                             *)
LEMMA TransferKept ==
  ASSUME exchange' = exchange
  PROVE  /\ Meanings(given)' = Meanings(given)
         /\ (Announced \/ ~ AllFramed)' <=> (Announced \/ ~ AllFramed)
         /\ Acceptable' <=> Acceptable
<1>1. Meanings(given)' = Meanings(given)
  BY EndsKept, ExchangedKept DEF Meanings, Meaning
<1>2. (Announced \/ ~ AllFramed)' <=> (Announced \/ ~ AllFramed)
  BY AnnouncedKept, AllFramedKept
<1>3. Written' = Written
  BY EndsKept, AnnouncedKept DEF Written, IsSent
<1>4. Acceptable' <=> Acceptable
  BY <1>3, EndsKept DEF Acceptable
<1> QED
  BY <1>1, <1>2, <1>4

(* What the decoder has was accepted by the encoder.                       *)
LEMMA ReadingAccepted ==
  ASSUME WriterInv, phase \in Reading
  PROVE  Acceptable
<1> DEFINE order == RootOrder(from, sent)
           more == AdditionOrder(from, sent)
<1>1. /\ exchange \in Names /\ Accepted(order, Len(order))
      /\ Announced => Accepted(more, Len(more))
  BY DEF WriterInv
<1>2. DOMAIN order = 1 .. Len(order) /\ DOMAIN more = 1 .. Len(more)
  BY <1>1, OrdersTyped
<1>3. SUFFICES ASSUME NEW k \in Written
               PROVE  Accepts(from, Members(sent)[k].type, given[k])
  BY DEF Acceptable
<1>4. IsSent(k) /\ (k \in ToSet(order) \/ (Announced /\ k \in ToSet(more)))
  BY DEF Written
<1>5. CASE k \in ToSet(order)
  <2>1. PICK j \in 1 .. Len(order) : k = order[j]
    BY <1>2, <1>5 DEF ToSet
  <2> QED
    BY <1>1, <1>4, <2>1 DEF Accepted
<1>6. CASE Announced /\ k \in ToSet(more)
  <2>1. PICK j \in 1 .. Len(more) : k = more[j]
    BY <1>2, <1>6 DEF ToSet
  <2> QED
    BY <1>1, <1>4, <1>6, <2>1 DEF Accepted
<1> QED
  BY <1>4, <1>5, <1>6

(* The encoder refuses a message only for a member it does not take.       *)
LEMMA RefusedForCause ==
  ASSUME IInv, RefuseMember
  PROVE  ~ Acceptable
<1> DEFINE order == IF phase = "root" THEN RootOrder(from, sent) ELSE AdditionOrder(from, sent)
           k == order[i]
<1>1. /\ phase = "root" \/ (phase = "additions" /\ Announced)
      /\ i <= Len(order) /\ IsSent(k)
      /\ ~ Accepts(from, Members(sent)[k].type, given[k])
  BY DEF RefuseMember
<1>2. exchange \in Names /\ i \in Nat /\ i >= 1
  BY DEF IInv, WriterInv, ReaderTypes
<1>3. order \in Seq(DOMAIN Members(sent))
  BY <1>2, OrdersTyped
<1>4. k \in ToSet(order)
  <2> HIDE DEF order
  <2>1. i \in DOMAIN order
    <3>1. i <= Len(order)
      BY <1>1
    <3> QED
      BY <1>2, <1>3, <3>1
  <2> QED
    BY <2>1 DEF ToSet
<1>5. k \in Written
  <2>1. CASE phase = "root"
    BY <1>1, <1>4, <2>1 DEF Written
  <2>2. CASE phase # "root"
    BY <1>1, <1>4, <2>2 DEF Written
  <2> QED
    BY <2>1, <2>2
<1> QED
  BY <1>1, <1>5 DEF Acceptable

(* The decoder fails only on additions or on a message that is not framed. *)
LEMMA FailsForCause ==
  ASSUME IInv, RootFails \/ AdditionFails
  PROVE  Announced \/ ~ AllFramed
<1>1. CASE RootFails
  <2>1. /\ phase = "read root" /\ i <= Len(RootOrder(to, read)) /\ MemberRead.value = Bad
    BY <1>1 DEF RootFails
  <2>2. SUFFICES ASSUME AllFramed PROVE FALSE
    OBVIOUS
  <2>3. SameOrder
    BY <2>2 DEF AllFramed
  <2>4. /\ i \in 1 .. Len(RootOrder(to, read)) + 1
        /\ flags = GivenFlags(Optionals(from, sent)) /\ at = starts[i]
        /\ \A j \in i .. Len(RootOrder(to, read)) :
             got[RootOrder(to, read)[j]] = Fresh(to, read)[RootOrder(to, read)[j]]
    BY <2>1, <2>2, <2>3 DEF IInv, ReaderInv
  <2>5. exchange \in Names /\ WriterInv
    BY DEF IInv, WriterInv
  <2>6. Len(RootOrder(to, read)) \in Nat
    <3>1. RootOrder(to, read) = RootOrder(from, sent)
      BY <2>3 DEF SameOrder
    <3> QED
      BY <2>5, <3>1, OrdersTyped
  <2>7. i \in 1 .. Len(RootOrder(to, read)) /\ i \in i .. Len(RootOrder(to, read))
    <3>1. i <= Len(RootOrder(to, read))
      BY <2>1
    <3> QED
      BY <2>4, <2>6, <3>1
  <2>8. phase \in Reading
    BY <2>1 DEF Reading
  <2>9. got[RootOrder(to, read)[i]] = Fresh(to, read)[RootOrder(to, read)[i]]
    BY <2>4, <2>7
  <2>10. MemberRead.value # Bad
    BY <2>2, <2>4, <2>5, <2>7, <2>8, <2>9, MemberReadTrip
  <2> QED
    BY <2>1, <2>10
<1>2. CASE AdditionFails
  <2>1. phase = "read additions" /\ i <= Len(flags)
    BY <1>2 DEF AdditionFails
  <2>2. flags # <<>>
    <3>1. i \in Nat /\ i >= 1
      BY DEF IInv, ReaderTypes
    <3>2. Len(<<>>) = 0
      OBVIOUS
    <3>3. SUFFICES ASSUME flags = <<>> PROVE FALSE
      OBVIOUS
    <3>4. i <= Len(<<>>)
      BY <2>1, <3>3
    <3> QED
      BY <3>1, <3>2, <3>4
  <2> QED
    BY <2>1, <2>2 DEF IInv, ReaderInv
<1> QED
  BY <1>1, <1>2

(* Every step is a step of a transfer, or none of it.                      *)
LEMMA TransferStep ==
  ASSUME IInv, [Next]_vars
  PROVE  [Transfer!Next]_(Transfer!vars)
<1>1. exchange' = exchange
  BY DEF Next, vars, EncodeMarker, EncodePreamble, EncodeMember, RefuseMember,
         EncodeBitmap, EncodeAddition, HandOver, DecodeMarker, DecodePreamble, DecodeMember, RootFails,
         DecodeBitmap, DecodeAddition, KeepUnknown, AdditionFails, Return
<1>2. /\ Meanings(given)' = Meanings(given)
      /\ (Announced \/ ~ AllFramed)' = (Announced \/ ~ AllFramed)
      /\ Acceptable' = Acceptable
  BY <1>1, TransferKept DEF Acceptable
<1>3. CASE Return
  <2>1. phase = "read additions" /\ phase' = "delivered" /\ got' = got
    BY <1>3 DEF Return, reading
  <2>2. Meanings(got) = Meanings(given)
    BY <2>1, MeaningsKept
  <2>3. Meanings(got)' = Meanings(got)
    BY <1>1, <2>1, EndsKept, ExchangedKept DEF Meanings, Meaning
  <2>4. Outcome = "pending" /\ Outcome' = "delivered" /\ Delivered' = Meanings(given)
    BY <2>1, <2>2, <2>3 DEF Outcome, Delivered
  <2> QED
    BY <1>2, <2>4 DEF Transfer!Next, Transfer!Deliver, Outcome, Delivered, Acceptable
<1>4. CASE RefuseMember
  <2>1. phase \in {"root", "additions"} /\ phase' = "refused"
    BY <1>4 DEF RefuseMember
  <2>2. ~ Acceptable
    BY <1>4, RefusedForCause
  <2>3. Outcome = "pending" /\ Outcome' = "refused" /\ Delivered' = Delivered
    BY <2>1 DEF Outcome, Delivered
  <2> QED
    BY <1>2, <2>2, <2>3 DEF Transfer!Next, Transfer!Refuse, Outcome, Delivered, Acceptable
<1>5. CASE RootFails \/ AdditionFails
  <2>1. phase \in {"read root", "read additions"} /\ phase' = "failed"
    BY <1>5 DEF RootFails, AdditionFails
  <2>2. Acceptable
    BY <2>1, ReadingAccepted DEF IInv, Reading
  <2>3. Announced \/ ~ AllFramed
    BY <1>5, FailsForCause
  <2>4. Outcome = "pending" /\ Outcome' = "failed" /\ Delivered' = Delivered
    BY <2>1 DEF Outcome, Delivered
  <2> QED
    BY <1>2, <2>2, <2>3, <2>4 DEF Transfer!Next, Transfer!Fail, Outcome, Delivered, Acceptable
<1>6. CASE EncodeMarker \/ EncodePreamble \/ EncodeMember \/ EncodeBitmap \/ EncodeAddition
           \/ HandOver \/ DecodeMarker \/ DecodePreamble \/ DecodeMember \/ DecodeBitmap
           \/ DecodeAddition \/ KeepUnknown
  <2> DEFINE ongoing == {"marker", "preamble", "root", "additions", "read marker",
                         "read preamble", "read root", "read additions"}
  <2>1. phase \in ongoing /\ phase' \in ongoing
    BY <1>6 DEF EncodeMarker, EncodePreamble, EncodeMember, EncodeBitmap, EncodeAddition,
                HandOver, DecodeMarker, DecodePreamble, DecodeMember, DecodeBitmap,
                DecodeAddition, KeepUnknown
  <2>2. Outcome' = Outcome /\ Delivered' = Delivered
    BY <2>1 DEF Outcome, Delivered
  <2> QED
    BY <1>2, <2>2 DEF Transfer!vars, Outcome, Delivered, Acceptable
<1>7. CASE UNCHANGED vars
  <2>1. phase' = phase /\ got' = got
    BY <1>7 DEF vars
  <2>2. Meanings(got)' = Meanings(got)
    BY <1>1, <2>1, EndsKept, ExchangedKept DEF Meanings, Meaning
  <2>3. Outcome' = Outcome /\ Delivered' = Delivered
    BY <2>1, <2>2 DEF Outcome, Delivered
  <2> QED
    BY <1>2, <2>3 DEF Transfer!vars, Outcome, Delivered, Acceptable
<1> QED
  BY <1>3, <1>4, <1>5, <1>6, <1>7 DEF Next

(* Encoders and decoders implement the transfer of a value: encode refuses *)
(* only what has no encoding, decode fails only on additions or on values  *)
(* that the ends frame apart, and delivers the value.                      *)
THEOREM CodecTransfers == Spec => TransferSpec
<1>1. Init => Transfer!Init
  BY DEF Init, Transfer!Init
<1>2. IInv /\ [Next]_vars => [Transfer!Next]_(Transfer!vars)
  BY TransferStep
<1> QED
  BY <1>1, <1>2, CodecInvariant, PTL DEF Spec, TransferSpec, Transfer!Spec
=============================================================================
