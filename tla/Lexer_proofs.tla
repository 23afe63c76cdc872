---------------------------- MODULE Lexer_proofs ----------------------------
(***************************************************************************)
(* Proofs about Lexer, for sources of any length over any characters.      *)
(***************************************************************************)
EXTENDS Lexer, InOrder_proofs, SequenceTheorems

IsSource == source \in Seq(Range(source))

LEMMA SourceFacts ==
  ASSUME IsSource
  PROVE  /\ Len(source) \in Nat
         /\ DOMAIN source = 1 .. Len(source)
         /\ \A p \in 1 .. Len(source) : CharAt(p) = source[p]
BY DEF IsSource, CharAt

-----------------------------------------------------------------------------
(* Where lines start.                                                      *)

Ends == {p \in DOMAIN source : source[p] = Newline}

EndsBefore(p) == {q \in Ends : q < p}

LEMMA EndsAreFinite ==
  ASSUME IsSource, NEW p \in Nat
  PROVE  /\ Ends \in SUBSET Nat /\ IsFiniteSet(Ends) /\ IsFiniteSet(EndsBefore(p))
         /\ Cardinality(EndsBefore(p)) \in Nat
<1>1. Ends \in SUBSET (1 .. Len(source)) /\ EndsBefore(p) \in SUBSET (1 .. Len(source))
  BY SourceFacts DEF Ends, EndsBefore
<1>2. IsFiniteSet(1 .. Len(source))
  BY SourceFacts, FS_Interval
<1>3. IsFiniteSet(Ends) /\ IsFiniteSet(EndsBefore(p))
  BY <1>1, <1>2, FS_Subset
<1> QED
  BY <1>1, <1>3, FS_CardinalityType

(* The line that starts behind the newline at p.                           *)
LEMMA LineBehind ==
  ASSUME IsSource, NEW p \in Ends
  PROVE  LineStart(Cardinality(EndsBefore(p)) + 2) = p + 1
<1> DEFINE before == {e \in Ends \X Ends : e[1] < e[2]}
           n == Cardinality(EndsBefore(p)) + 2
<1>1. Ends \in SUBSET Nat /\ IsFiniteSet(Ends) /\ p \in Nat /\ Cardinality(EndsBefore(p)) \in Nat
  <2>1. Ends \in SUBSET Nat
    BY EndsAreFinite
  <2> QED
    BY <2>1, EndsAreFinite
<1>2. IsOrder(Ends, before)
  <2>1. \A x, y \in Ends : <<x, y>> \in before <=> x < y
    OBVIOUS
  <2> HIDE DEF before
  <2> QED
    BY <1>1, <2>1 DEF IsOrder
<1>3. \A q \in Ends : Earlier(Ends, before, q) = EndsBefore(q)
  BY DEF Earlier, EndsBefore
<1> HIDE DEF before
<1>4. \A x, y \in Ends :
        Cardinality(EndsBefore(x)) = Cardinality(EndsBefore(y)) => x = y
  <2>1. \A x, y \in Ends :
          Cardinality(Earlier(Ends, before, x)) = Cardinality(Earlier(Ends, before, y)) => x = y
    BY <1>1, <1>2, EarlierIsPlace
  <2> QED
    BY <1>3, <2>1
<1>5. n # 1 /\ n - 2 = Cardinality(EndsBefore(p))
  BY <1>1
<1> DEFINE found == CHOOSE q \in Ends : Cardinality(EndsBefore(q)) = n - 2
<1>6. LineStart(n) = 1 + found
  BY <1>5 DEF LineStart, Ends, EndsBefore
<1>7. found = p
  BY <1>4, <1>5
<1> HIDE DEF found
<1> QED
  BY <1>1, <1>6, <1>7

-----------------------------------------------------------------------------
(* At: l is the line and the column of position p.                         *)

At(l, p) ==
  /\ l \in Nat \X Nat
  /\ l[1] = Cardinality(EndsBefore(p)) + 1
  /\ LineStart(l[1]) \in 1 .. p
  /\ l[2] = (p - LineStart(l[1])) + 1
  /\ \A q \in LineStart(l[1]) .. p - 1 : source[q] # Newline

LEMMA AtFacts ==
  ASSUME NEW l, NEW p \in Nat, At(l, p)
  PROVE  Position(l) = p
BY DEF At, Position

LEMMA AdvanceOne ==
  ASSUME IsSource, NEW l, NEW p \in 1 .. Len(source), At(l, p)
  PROVE  At(Advanced(l, source[p]), p + 1)
<1> DEFINE m == Advanced(l, source[p])
           s == LineStart(l[1])
<1>0. p \in Nat /\ p \in DOMAIN source
  BY SourceFacts
<1>1. /\ l[1] \in Nat /\ l[2] \in Nat /\ l[1] = Cardinality(EndsBefore(p)) + 1
      /\ s \in 1 .. p /\ l[2] = (p - s) + 1 /\ \A q \in s .. p - 1 : source[q] # Newline
  BY DEF At
<1>2. Ends \in SUBSET Nat /\ IsFiniteSet(EndsBefore(p)) /\ Cardinality(EndsBefore(p)) \in Nat
  BY <1>0, EndsAreFinite
<1>3. CASE source[p] # Newline
  <2>1. EndsBefore(p + 1) = EndsBefore(p)
    <3>1. p \notin Ends
      BY <1>3 DEF Ends
    <3>2. \A q \in Ends : q < p + 1 <=> q < p
      BY <1>0, <1>2, <3>1
    <3> QED
      BY <3>2 DEF EndsBefore
  <2>2. m = <<l[1], l[2] + 1>>
    BY <1>3 DEF Advanced
  <2>3. m[1] = l[1] /\ m[2] = l[2] + 1 /\ m \in Nat \X Nat
    BY <1>1, <2>2
  <2> HIDE DEF m, s
  <2>4. \A q \in s .. (p + 1) - 1 : source[q] # Newline
    BY <1>0, <1>1, <1>3
  <2>5. s \in 1 .. p + 1 /\ m[2] = ((p + 1) - s) + 1
    BY <1>0, <1>1, <2>3
  <2>6. LineStart(m[1]) = s
    BY <2>3 DEF s
  <2> QED
    BY <1>1, <2>1, <2>3, <2>4, <2>5, <2>6 DEF At, m
<1>4. CASE source[p] = Newline
  <2>1. p \in Ends
    BY <1>0, <1>4 DEF Ends
  <2>2. EndsBefore(p + 1) = EndsBefore(p) \cup {p} /\ p \notin EndsBefore(p)
    <3>1. \A q \in Ends : q < p + 1 <=> q < p \/ q = p
      BY <1>0, <1>2
    <3>2. ~ (p < p)
      BY <1>0
    <3> QED
      BY <2>1, <3>1, <3>2 DEF EndsBefore
  <2>3. Cardinality(EndsBefore(p + 1)) = Cardinality(EndsBefore(p)) + 1
    BY <1>2, <2>2, FS_AddElement
  <2>4. m = <<l[1] + 1, 1>>
    BY <1>4 DEF Advanced
  <2>5. m[1] = l[1] + 1 /\ m[2] = 1 /\ m \in Nat \X Nat
    BY <1>1, <2>4
  <2>6. LineStart(Cardinality(EndsBefore(p)) + 2) = p + 1
    BY <2>1, LineBehind
  <2> HIDE DEF m, s
  <2>7. m[1] = Cardinality(EndsBefore(p)) + 2
    BY <1>1, <1>2, <2>5
  <2>8. LineStart(m[1]) = p + 1
    BY <2>6, <2>7
  <2>9. /\ p + 1 \in 1 .. p + 1 /\ 1 = ((p + 1) - (p + 1)) + 1
        /\ m[1] = Cardinality(EndsBefore(p + 1)) + 1
        /\ \A q \in p + 1 .. (p + 1) - 1 : source[q] # Newline
    BY <1>0, <1>2, <2>3, <2>7
  <2> QED
    BY <2>5, <2>8, <2>9 DEF At, m
<1> QED
  BY <1>3, <1>4

LEMMA StartsAt ==
  ASSUME IsSource
  PROVE  At(<<1, 1>>, 1)
<1>1. EndsBefore(1) = {}
  BY SourceFacts DEF EndsBefore, Ends
<1>2. Cardinality(EndsBefore(1)) = 0
  BY <1>1, FS_EmptySet
<1>3. LineStart(1) = 1
  BY DEF LineStart
<1>4. \A q \in 1 .. 1 - 1 : FALSE
  OBVIOUS
<1> QED
  BY <1>2, <1>3, <1>4 DEF At

(* LocationOf is a recursive function; it exists, by the least position    *)
(* up to which it would not.                                               *)
Course(f, p) ==
  f = [q \in current .. p |->
         IF q = current THEN location ELSE Advanced(f[q - 1], source[q - 1])]

LEMMA CourseExists ==
  ASSUME current \in Nat, NEW p \in Nat, current <= p
  PROVE  \E f : Course(f, p)
<1> DEFINE S == {n \in Nat : current <= n /\ ~ \E f : Course(f, n)}
<1> SUFFICES ASSUME S # {} PROVE FALSE
  OBVIOUS
<1>1. PICK n \in S : \A j \in S : n <= j
  <2>1. S \in SUBSET Nat
    OBVIOUS
  <2> HIDE DEF S
  <2> QED
    BY <2>1, FirstExists
<1>2. n \in Nat /\ current <= n /\ ~ \E f : Course(f, n)
  BY <1>1
<1>3. n # current
  <2> SUFFICES ASSUME n = current PROVE FALSE
    OBVIOUS
  <2> DEFINE f == [q \in current .. current |-> location]
  <2>1. \A q \in current .. current : q = current
    OBVIOUS
  <2>2. f = [q \in current .. current |->
               IF q = current THEN location ELSE Advanced(f[q - 1], source[q - 1])]
    BY <2>1
  <2>3. Course(f, current)
    BY <2>2 DEF Course
  <2> QED
    BY <1>2, <2>3
<1>4. n - 1 \in Nat /\ current <= n - 1 /\ ~ (n <= n - 1)
  BY <1>2, <1>3
<1>5. PICK f : Course(f, n - 1)
  BY <1>1, <1>4
<1> DEFINE g == [q \in current .. n |->
                   IF q = current THEN location ELSE Advanced(f[q - 1], source[q - 1])]
<1>6. ASSUME NEW q \in current .. n, q # current PROVE g[q - 1] = f[q - 1]
  <2>1. q - 1 \in current .. n - 1 /\ q - 1 \in current .. n
    BY <1>2, <1>6
  <2>2. f[q - 1] = IF q - 1 = current THEN location
                   ELSE Advanced(f[(q - 1) - 1], source[(q - 1) - 1])
    BY <1>5, <2>1 DEF Course
  <2> QED
    BY <2>1, <2>2
<1>7. g = [q \in current .. n |->
             IF q = current THEN location ELSE Advanced(g[q - 1], source[q - 1])]
  BY <1>6
<1>8. Course(g, n)
  BY <1>7 DEF Course
<1> QED
  BY <1>2, <1>8

LEMMA LocationIsTrue ==
  ASSUME IsSource, current \in Nat \ {0}, At(location, current),
         NEW p \in current .. Len(source) + 1
  PROVE  At(LocationOf(p), p)
<1> DEFINE f == CHOOSE f : Course(f, p)
<1>1. LocationOf(p) = f[p]
  BY DEF LocationOf, Course
<1>2. p \in Nat /\ current <= p /\ Len(source) \in Nat
  BY SourceFacts
<1>3. Course(f, p)
  BY <1>2, CourseExists
<1> HIDE DEF f
<1> DEFINE S == {q \in current .. p : ~ At(f[q], q)}
<1>4. S = {}
  <2> SUFFICES ASSUME S # {} PROVE FALSE
    OBVIOUS
  <2>1. PICK q \in S : \A r \in S : q <= r
    <3>1. S \in SUBSET Nat
      BY <1>2
    <3> HIDE DEF S
    <3> QED
      BY <3>1, FirstExists
  <2>2. f[q] = IF q = current THEN location ELSE Advanced(f[q - 1], source[q - 1])
    BY <1>3 DEF Course
  <2>3. q # current
    BY <2>1, <2>2
  <2>4. /\ q - 1 \in current .. p /\ ~ (q <= q - 1) /\ q - 1 \in 1 .. Len(source)
        /\ (q - 1) + 1 = q
    BY <1>2, <2>1, <2>3
  <2>5. At(f[q - 1], q - 1)
    BY <2>1, <2>4
  <2>6. At(Advanced(f[q - 1], source[q - 1]), (q - 1) + 1)
    BY <2>4, <2>5, AdvanceOne
  <2> QED
    BY <2>1, <2>2, <2>3, <2>4, <2>6
<1>5. p \in current .. p
  BY <1>2
<1> QED
  BY <1>1, <1>4, <1>5

-----------------------------------------------------------------------------
(* Where a loop over characters ends.                                      *)

LEMMA BeyondFacts ==
  ASSUME IsSource, NEW p \in 1 .. Len(source) + 1, NEW S
  PROVE  /\ Beyond(p, S) \in p .. Len(source) + 1
         /\ \A q \in p .. Beyond(p, S) - 1 : source[q] \in S
         /\ Beyond(p, S) <= Len(source) => source[Beyond(p, S)] \notin S
<1> DEFINE found == {q \in p .. Len(source) : source[q] \notin S}
           first == CHOOSE q \in found : \A r \in found : q <= r
           end == Beyond(p, S)
<1>1. Len(source) \in Nat /\ p \in Nat
  BY SourceFacts
<1>2. CASE found = {}
  <2>1. end = Len(source) + 1
    BY <1>2 DEF Beyond
  <2>2. \A q \in p .. Len(source) : source[q] \in S
    BY <1>2
  <2> HIDE DEF end
  <2> QED
    BY <1>1, <2>1, <2>2 DEF end
<1>3. CASE found # {}
  <2>1. end = first
    BY <1>3 DEF Beyond
  <2>2. found \in SUBSET Nat
    BY <1>1
  <2>3. first \in found /\ \A r \in found : first <= r
    <3> HIDE DEF found
    <3> QED
      BY <1>3, <2>2, FirstExists
  <2> HIDE DEF first, end
  <2>4. \A q \in p .. first - 1 : source[q] \in S
    <3> TAKE q \in p .. first - 1
    <3>1. q \in p .. Len(source) /\ ~ (first <= q)
      BY <1>1, <2>3
    <3> QED
      BY <2>3, <3>1
  <2> QED
    BY <1>1, <2>1, <2>3, <2>4 DEF end
<1> QED
  BY <1>2, <1>3

LEMMA UntilFacts ==
  ASSUME IsSource, NEW p \in 1 .. Len(source) + 1, NEW S
  PROVE  /\ Until(p, S) \in p .. Len(source) + 1
         /\ \A q \in p .. Until(p, S) - 1 : source[q] \notin S
<1> DEFINE found == {q \in p .. Len(source) : source[q] \in S \cup {Nul}}
           first == CHOOSE q \in found : \A r \in found : q <= r
           end == Until(p, S)
<1>1. Len(source) \in Nat /\ p \in Nat
  BY SourceFacts
<1>2. CASE found = {}
  <2>1. end = Len(source) + 1
    BY <1>2 DEF Until
  <2>2. \A q \in p .. Len(source) : source[q] \notin S
    BY <1>2
  <2> HIDE DEF end
  <2> QED
    BY <1>1, <2>1, <2>2 DEF end
<1>3. CASE found # {}
  <2>1. end = first
    BY <1>3 DEF Until
  <2>2. found \in SUBSET Nat
    BY <1>1
  <2>3. first \in found /\ \A r \in found : first <= r
    <3> HIDE DEF found
    <3> QED
      BY <1>3, <2>2, FirstExists
  <2> HIDE DEF first, end
  <2>4. \A q \in p .. first - 1 : source[q] \notin S
    <3> TAKE q \in p .. first - 1
    <3>1. q \in p .. Len(source) /\ ~ (first <= q)
      BY <1>1, <2>3
    <3> QED
      BY <2>3, <3>1
  <2> QED
    BY <1>1, <2>1, <2>3, <2>4 DEF end
<1> QED
  BY <1>2, <1>3

-----------------------------------------------------------------------------
(* What is true of one token, wherever it is on the list.                  *)

LongOperators ==
  {<<".", ".">>, <<".", ".", ".">>, <<"[", "[">>, <<"]", "]">>, <<":", ":">>, <<":", ":", "=">>,
   <<"-", "-">>}

LEMMA LongFacts ==
  ASSUME NEW w \in LongOperators
  PROVE  \/ Len(w) = 2 /\ w[1] = w[2] /\ w[1] \in {"[", "]", ".", ":", "-"}
         \/ Len(w) = 3 /\ <<w[1], w[3]>> \in {<<".", ".">>, <<":", "=">>}
BY DEF LongOperators

(* No longer token starts where t does and goes on at e.                   *)
EndsAt(t, e) ==
  e <= Len(source) =>
    /\ t.type \in {"IDENTIFIER", "keyword"} =>
         source[e] \notin Letters \cup Digits \cup {"_", "-"}
    /\ t.type = "NUMBER" => source[e] \notin Digits
    /\ t.type = "operator" =>
         t.text \o <<source[e]>> \notin LongOperators

Types == {"keyword", "IDENTIFIER", "NUMBER", "STRING", "operator", "END_OF_FILE"}

Token == [type : Types, text : Seq(Range(source)), at : Nat \X Nat]

IsToken(t) ==
  LET p == Position(t.at)
  IN  /\ t \in Token
      /\ At(t.at, p) /\ p \in 1 .. Len(source) + 1
      /\ EndOf(t) \in p .. Len(source) + 1
      /\ \A k \in DOMAIN t.text : CharAt((p + Opening(t)) + k - 1) = t.text[k]
      /\ t.type = "END_OF_FILE" => CharAt(p + Opening(t)) = Nul
      /\ EndsAt(t, EndOf(t))

(* The action reads the characters up to e as the token t.                 *)
Reads(t, e) == IsToken(t) /\ Position(t.at) = current /\ EndOf(t) = e

AtHand == IsSource /\ current \in 1 .. Len(source) + 1 /\ At(location, current)

LEMMA TextFacts ==
  ASSUME IsSource, NEW p \in 1 .. Len(source) + 1, NEW e \in p .. Len(source) + 1
  PROVE  /\ SubSeq(source, p, e - 1) \in Seq(Range(source))
         /\ Len(SubSeq(source, p, e - 1)) = e - p
         /\ DOMAIN SubSeq(source, p, e - 1) = 1 .. e - p
         /\ \A k \in 1 .. e - p : /\ SubSeq(source, p, e - 1)[k] = source[p + k - 1]
                                  /\ p + k - 1 \in 1 .. Len(source)
<1>1. Len(source) \in Nat /\ p \in Nat /\ e \in Nat
  BY SourceFacts
<1>2. source \in Seq(Range(source)) /\ p \in 1 .. Len(source) + 1 /\ e - 1 \in p - 1 .. Len(source)
  BY <1>1 DEF IsSource
<1>3. /\ SubSeq(source, p, e - 1) \in Seq(Range(source))
      /\ Len(SubSeq(source, p, e - 1)) = (e - 1) - p + 1
      /\ \A k \in 1 .. (e - 1) - p + 1 : SubSeq(source, p, e - 1)[k] = source[p + k - 1]
  BY <1>2, SubSeqProperties
<1>4. (e - 1) - p + 1 = e - p
  BY <1>1
<1>5. \A k \in 1 .. e - p : p + k - 1 \in 1 .. Len(source)
  BY <1>1
<1> QED
  BY <1>3, <1>4, <1>5

(* A token that is no string.                                              *)
LEMMA PlainToken ==
  ASSUME AtHand, NEW type \in Types \ {"STRING", "END_OF_FILE"},
         NEW e \in current .. Len(source) + 1,
         EndsAt([type |-> type, text |-> Text(e), at |-> location], e)
  PROVE  Reads([type |-> type, text |-> Text(e), at |-> location], e)
<1> DEFINE t == [type |-> type, text |-> Text(e), at |-> location]
<1>1. t.type = type /\ t.text = Text(e) /\ t.at = location
  OBVIOUS
<1>2. IsSource /\ current \in 1 .. Len(source) + 1 /\ At(location, current)
  BY DEF AtHand
<1>3. Len(source) \in Nat /\ current \in Nat /\ e \in Nat
  BY <1>2, SourceFacts
<1>4. Position(location) = current
  BY <1>2, <1>3, AtFacts
<1>5. /\ Text(e) \in Seq(Range(source))
      /\ Len(Text(e)) = e - current /\ DOMAIN Text(e) = 1 .. e - current
      /\ \A k \in 1 .. e - current : /\ Text(e)[k] = source[current + k - 1]
                                     /\ current + k - 1 \in 1 .. Len(source)
  BY <1>2, TextFacts DEF Text
<1>6. EndsAt(t, e) /\ t \in Token
  BY <1>2, <1>5 DEF Token, At
<1> HIDE DEF t
<1>7. Opening(t) = 0
  BY <1>1 DEF Opening
<1>8. EndOf(t) = e
  BY <1>1, <1>3, <1>4, <1>5, <1>7 DEF EndOf
<1>9. \A k \in DOMAIN t.text : CharAt((current + Opening(t)) + k - 1) = t.text[k]
  <2> TAKE k \in DOMAIN t.text
  <2>1. k \in 1 .. e - current /\ (current + 0) + k - 1 = current + k - 1
    BY <1>1, <1>3, <1>5
  <2>2. CharAt(current + k - 1) = source[current + k - 1]
    BY <1>2, <1>5, <2>1, SourceFacts
  <2> QED
    BY <1>1, <1>5, <1>7, <2>1, <2>2
<1> QED
  BY <1>1, <1>2, <1>4, <1>6, <1>8, <1>9 DEF Reads, IsToken, t

LEMMA StringToken ==
  ASSUME AtHand, Peek \in Quotes
  PROVE  LET end == Until(current + 1, {Peek})
             e == IF CharAt(end) = Peek THEN end + 1 ELSE end
         IN  /\ e \in current .. Len(source) + 1
             /\ Reads([type |-> "STRING", text |-> SubSeq(source, current + 1, end - 1),
                       at |-> location], e)
<1> DEFINE end == Until(current + 1, {Peek})
           e == IF CharAt(end) = Peek THEN end + 1 ELSE end
           text == SubSeq(source, current + 1, end - 1)
           t == [type |-> "STRING", text |-> text, at |-> location]
<1>1. t.type = "STRING" /\ t.text = text /\ t.at = location
  OBVIOUS
<1>2. IsSource /\ current \in 1 .. Len(source) + 1 /\ At(location, current)
  BY DEF AtHand
<1>3. Len(source) \in Nat /\ current \in Nat /\ DOMAIN source = 1 .. Len(source)
  BY <1>2, SourceFacts
<1>4. Position(location) = current
  BY <1>2, <1>3, AtFacts
<1>5. Peek # Nul
  BY DEF Quotes, Nul
<1>6. current \in 1 .. Len(source)
  BY <1>3, <1>5 DEF Peek, CharAt
<1>7. current + 1 \in 1 .. Len(source) + 1
  BY <1>3, <1>6
<1>8. end \in current + 1 .. Len(source) + 1
  BY <1>2, <1>7, UntilFacts
<1>9. CharAt(end) = Peek => end \in 1 .. Len(source)
  BY <1>3, <1>5 DEF CharAt
<1> HIDE DEF end
<1>10. e \in current + 1 .. Len(source) + 1
  BY <1>3, <1>8, <1>9
<1>11. /\ text \in Seq(Range(source))
       /\ Len(text) = end - (current + 1) /\ DOMAIN text = 1 .. end - (current + 1)
       /\ \A k \in 1 .. end - (current + 1) :
            /\ text[k] = source[(current + 1) + k - 1]
            /\ (current + 1) + k - 1 \in 1 .. Len(source)
  BY <1>2, <1>7, <1>8, TextFacts
<1>t. t \in Token
  <2> HIDE DEF text
  <2> QED
    BY <1>2, <1>11 DEF Token, Types, At
<1> HIDE DEF t, text
<1>12. Opening(t) = 1
  BY <1>1 DEF Opening
<1>13. EndOf(t) = e
  <2>1. current + 1 + Len(text) = end
    BY <1>3, <1>8, <1>11
  <2>2. CharAt(current) = Peek
    BY DEF Peek
  <2> QED
    BY <1>1, <1>4, <1>12, <2>1, <2>2 DEF EndOf
<1>14. \A k \in DOMAIN t.text : CharAt((current + Opening(t)) + k - 1) = t.text[k]
  <2> TAKE k \in DOMAIN t.text
  <2>1. k \in 1 .. end - (current + 1)
    BY <1>1, <1>11
  <2>2. CharAt((current + 1) + k - 1) = source[(current + 1) + k - 1]
    BY <1>2, <1>11, <2>1, SourceFacts
  <2> QED
    BY <1>1, <1>11, <1>12, <2>1, <2>2
<1>15. EndsAt(t, e)
  BY <1>1 DEF EndsAt
<1> HIDE DEF e
<1>16. Reads(t, e)
  <2>1. At(t.at, current) /\ Position(t.at) = current
    BY <1>1, <1>2, <1>4
  <2>2. e \in current .. Len(source) + 1
    BY <1>3, <1>10
  <2>3. t.type # "END_OF_FILE"
    BY <1>1
  <2> QED
    BY <1>2, <1>t, <1>13, <1>14, <1>15, <2>1, <2>2, <2>3 DEF Reads, IsToken
<1>17. e \in current .. Len(source) + 1
  BY <1>3, <1>10
<1> QED
  BY <1>16, <1>17 DEF t, text, e, end

LEMMA LastToken ==
  ASSUME AtHand, Peek = Nul
  PROVE  Reads([type |-> "END_OF_FILE", text |-> <<>>, at |-> location], current)
<1> DEFINE t == [type |-> "END_OF_FILE", text |-> <<>>, at |-> location]
<1>1. t.type = "END_OF_FILE" /\ t.text = <<>> /\ t.at = location
  OBVIOUS
<1>2. IsSource /\ current \in 1 .. Len(source) + 1 /\ At(location, current)
  BY DEF AtHand
<1>3. Len(source) \in Nat /\ current \in Nat
  BY <1>2, SourceFacts
<1>4. Position(location) = current
  BY <1>2, <1>3, AtFacts
<1>t. t \in Token
  BY <1>2 DEF Token, Types, At
<1> HIDE DEF t
<1>5. Opening(t) = 0 /\ Len(t.text) = 0 /\ DOMAIN t.text = {}
  BY <1>1 DEF Opening
<1>6. EndOf(t) = current
  BY <1>1, <1>3, <1>4, <1>5 DEF EndOf
<1>7. CharAt(current + Opening(t)) = Nul
  BY <1>3, <1>5 DEF Peek
<1>8. EndsAt(t, current)
  BY <1>1 DEF EndsAt
<1>9. current \in current .. Len(source) + 1
  BY <1>2, <1>3
<1> QED
  BY <1>1, <1>2, <1>4, <1>5, <1>6, <1>7, <1>8, <1>9, <1>t DEF Reads, IsToken, t

LEMMA LengthFacts ==
  LET second == CharAt(current + 1)
      third == CharAt(current + 2)
  IN  /\ OperatorLength \in 1 .. 3
      /\ OperatorLength = 1 => ~ (Peek \in {"[", "]", ".", ":"} /\ second = Peek)
      /\ OperatorLength = 2 => /\ second = Peek
                               /\ ~ (Peek = "." /\ third = ".")
                               /\ ~ (Peek = ":" /\ third = "=")
      /\ OperatorLength = 3 => second = Peek /\ third \in {".", "="}
BY DEF OperatorLength

LEMMA OperatorToken ==
  ASSUME AtHand, ~ AtComment, Peek # Nul
  PROVE  LET e == current + OperatorLength
         IN  /\ e \in current .. Len(source) + 1
             /\ Reads([type |-> "operator", text |-> Text(e), at |-> location], e)
<1> DEFINE n == OperatorLength
           e == current + n
           text == Text(e)
           t == [type |-> "operator", text |-> text, at |-> location]
<1>1. t.type = "operator" /\ t.text = text
  OBVIOUS
<1>2. IsSource /\ current \in 1 .. Len(source) + 1
  BY DEF AtHand
<1>3. Len(source) \in Nat /\ current \in Nat /\ DOMAIN source = 1 .. Len(source)
  BY <1>2, SourceFacts
<1>4. /\ n \in 1 .. 3
      /\ n = 1 => ~ (Peek \in {"[", "]", ".", ":"} /\ CharAt(current + 1) = Peek)
      /\ n = 2 => /\ CharAt(current + 1) = Peek
                  /\ ~ (Peek = "." /\ CharAt(current + 2) = ".")
                  /\ ~ (Peek = ":" /\ CharAt(current + 2) = "=")
      /\ n = 3 => CharAt(current + 1) = Peek /\ CharAt(current + 2) \in {".", "="}
  BY LengthFacts
<1> HIDE DEF n
<1>5. \A p \in Nat : CharAt(p) # Nul => p \in 1 .. Len(source)
  BY <1>3 DEF CharAt
<1>6. e \in current + 1 .. Len(source) + 1
  <2>1. current \in 1 .. Len(source)
    BY <1>3, <1>5 DEF Peek
  <2>2. n \in {2, 3} => current + 1 \in 1 .. Len(source)
    BY <1>3, <1>4, <1>5
  <2>3. n = 3 => current + 2 \in 1 .. Len(source)
    BY <1>3, <1>4, <1>5 DEF Nul
  <2> QED
    BY <1>3, <1>4, <2>1, <2>2, <2>3
<1>7. e \in current .. Len(source) + 1 /\ e - current = n
  BY <1>3, <1>4, <1>6
<1>8. /\ text \in Seq(Range(source)) /\ Len(text) = n
      /\ \A k \in 1 .. n : text[k] = CharAt(current + k - 1)
  <2>1. /\ text \in Seq(Range(source)) /\ Len(text) = e - current
        /\ \A k \in 1 .. e - current : /\ text[k] = source[current + k - 1]
                                       /\ current + k - 1 \in 1 .. Len(source)
    BY <1>2, <1>7, TextFacts DEF Text
  <2> HIDE DEF text, e
  <2> QED
    BY <1>2, <1>7, <2>1, SourceFacts
<1> HIDE DEF t, text
<1>9. EndsAt(t, e)
  <2> DEFINE w == text \o <<source[e]>>
  <2> SUFFICES ASSUME e <= Len(source), w \in LongOperators PROVE FALSE
    BY <1>1 DEF EndsAt
  <2>1. source[e] = CharAt(current + n)
    BY <1>2, <1>6, SourceFacts
  <2>2. /\ Len(w) = n + 1 /\ w[n + 1] = source[e]
        /\ \A k \in 1 .. n : w[k] = text[k]
    BY <1>4, <1>8
  <2> HIDE DEF w, e
  <2>l. \/ Len(w) = 2 /\ w[1] = w[2] /\ w[1] \in {"[", "]", ".", ":", "-"}
        \/ Len(w) = 3 /\ <<w[1], w[3]>> \in {<<".", ".">>, <<":", "=">>}
    BY LongFacts
  <2>3. CASE n = 1
    <3>1. Len(w) = 2 /\ w[1] = Peek /\ w[2] = CharAt(current + 1)
      BY <1>3, <1>8, <2>1, <2>2, <2>3 DEF Peek
    <3>2. w[1] = w[2] => w[1] \notin {"[", "]", ".", ":", "-"}
      BY <1>4, <2>3, <3>1 DEF AtComment
    <3> QED
      BY <2>l, <3>1, <3>2
  <2>4. CASE n = 2
    <3>1. Len(w) = 3 /\ w[1] = Peek /\ w[3] = CharAt(current + 2)
      BY <1>3, <1>8, <2>1, <2>2, <2>4 DEF Peek
    <3>2. ~ (w[1] = "." /\ w[3] = ".") /\ ~ (w[1] = ":" /\ w[3] = "=")
      BY <1>4, <2>4, <3>1
    <3> QED
      BY <2>l, <3>1, <3>2
  <2>5. CASE n = 3
    <3>1. Len(w) = 4
      BY <2>2, <2>5
    <3> QED
      BY <2>l, <3>1
  <2> QED
    BY <1>4, <2>3, <2>4, <2>5
<1>10. Reads(t, e)
  BY <1>7, <1>9, PlainToken DEF t, text, Types
<1> QED
  BY <1>7, <1>10 DEF t, text, e, n

-----------------------------------------------------------------------------
(* LexInv: the location is that of the character at hand, every token is   *)
(* as it is in the source, and nothing but blanks and comments lies        *)
(* between two tokens, or between the last one and the character at hand.  *)

ReadUpTo(s) == IF s = <<>> THEN 1 ELSE EndOf(s[Len(s)])

Tokens(s) == s \in Seq(Token) /\ \A i \in 1 .. Len(s) : IsToken(s[i])

Gapless(s) ==
  \A i \in 1 .. Len(s) :
    IsGap(IF i = 1 THEN 1 ELSE EndOf(s[i - 1]), Position(s[i].at))

LexInv == AtHand /\ Tokens(tokens) /\ Gapless(tokens) /\ IsGap(ReadUpTo(tokens), current)

LEMMA FrozenSource ==
  ASSUME source' = source
  PROVE  /\ \A l, p : At(l, p)' <=> At(l, p)
         /\ \A p, q : IsGap(p, q)' <=> IsGap(p, q)
         /\ \A l : Position(l)' = Position(l)
         /\ \A t : EndOf(t)' = EndOf(t)
         /\ \A t : IsToken(t)' <=> IsToken(t)
<1>1. \A l, p : At(l, p)' <=> At(l, p)
  BY DEF At, EndsBefore, Ends, LineStart
<1>2. \A p, q : IsGap(p, q)' <=> IsGap(p, q)
  BY DEF IsGap, CharAt
<1>3. \A l : Position(l)' = Position(l)
  BY DEF Position, LineStart
<1>4. \A p : CharAt(p)' = CharAt(p)
  BY DEF CharAt
<1>5. \A t : EndOf(t)' = EndOf(t)
  BY <1>3, <1>4 DEF EndOf
<1>6. \A t, e : EndsAt(t, e)' <=> EndsAt(t, e)
  BY DEF EndsAt
<1>7. \A t : IsToken(t)' <=> IsToken(t)
  <2>1. Token' = Token
    BY DEF Token
  <2> QED
    BY <1>1, <1>3, <1>4, <1>5, <1>6, <2>1 DEF IsToken
<1> QED
  BY <1>1, <1>2, <1>3, <1>5, <1>7

LEMMA FrozenLex ==
  ASSUME source' = source, IsSource, NEW s, s = tokens', NEW e \in 1 .. Len(source) + 1,
         e = current', At(location', e), Tokens(s), Gapless(s), IsGap(ReadUpTo(s), e)
  PROVE  LexInv'
<1>1. AtHand'
  BY FrozenSource DEF AtHand, IsSource
<1>2. Tokens(tokens)'
  <2>1. Token' = Token
    BY DEF Token
  <2> QED
    BY <2>1, FrozenSource DEF Tokens
<1>3. Gapless(tokens)'
  BY FrozenSource DEF Gapless
<1>4. IsGap(ReadUpTo(tokens), current)'
  BY FrozenSource DEF ReadUpTo
<1> QED
  BY <1>1, <1>2, <1>3, <1>4 DEF LexInv

(* The characters up to e are skipped.                                     *)
LEMMA Skipped ==
  ASSUME LexInv, source' = source, tokens' = tokens, NEW e \in current .. Len(source) + 1,
         current' = e, location' = LocationOf(e),
         \A r \in current .. e - 1 :
           \/ source[r] \in Blanks
           \/ \E c \in current .. r : /\ source[c] = "-" /\ CharAt(c + 1) = "-"
                                      /\ \A s \in c .. r : source[s] # Newline
  PROVE  LexInv'
<1>1. /\ IsSource /\ current \in 1 .. Len(source) + 1 /\ At(location, current)
      /\ Tokens(tokens) /\ Gapless(tokens) /\ IsGap(ReadUpTo(tokens), current)
  BY DEF LexInv, AtHand
<1>2. Len(source) \in Nat /\ current \in Nat \ {0} /\ e \in Nat
  BY <1>1, SourceFacts
<1>3. At(LocationOf(e), e)
  BY <1>1, <1>2, LocationIsTrue
<1> DEFINE a == ReadUpTo(tokens)
<1>4. a \in Nat
  <2>1. CASE tokens = <<>>
    BY <2>1 DEF ReadUpTo
  <2>2. CASE tokens # <<>>
    <3>1. Len(tokens) \in 1 .. Len(tokens)
      BY <1>1, <2>2 DEF Tokens
    <3>2. IsToken(tokens[Len(tokens)])
      BY <1>1, <3>1 DEF Tokens
    <3>3. EndOf(tokens[Len(tokens)]) \in Nat
      BY <1>2, <3>2 DEF IsToken
    <3> QED
      BY <2>2, <3>3 DEF ReadUpTo
  <2> QED
    BY <2>1, <2>2
<1> HIDE DEF a
<1>5. IsGap(a, e)
  <2>1. a <= current /\ a <= e
    BY <1>1, <1>2, <1>4 DEF IsGap, a
  <2>2. ASSUME NEW r \in a .. e - 1
        PROVE  \/ source[r] \in Blanks
               \/ \E c \in a .. r : /\ source[c] = "-" /\ CharAt(c + 1) = "-"
                                    /\ \A s \in c .. r : source[s] # Newline
    <3>1. CASE r \in a .. current - 1
      BY <1>1, <3>1 DEF IsGap, a
    <3>2. CASE r \in current .. e - 1
      <4>1. current .. r \subseteq a .. r
        BY <1>2, <1>4, <2>1
      <4> QED
        BY <3>2, <4>1
    <3> QED
      BY <1>2, <1>4, <3>1, <3>2
  <2> QED
    BY <2>1, <2>2 DEF IsGap
<1>6. e \in 1 .. Len(source) + 1
  BY <1>2
<1> QED
  BY <1>1, <1>3, <1>5, <1>6, FrozenLex DEF a

(* They are read as the token t.                                           *)
LEMMA Emitted ==
  ASSUME LexInv, source' = source, NEW t, NEW e \in current .. Len(source) + 1,
         Reads(t, e), tokens' = Append(tokens, t), current' = e, location' = LocationOf(e)
  PROVE  LexInv'
<1>1. /\ IsSource /\ current \in 1 .. Len(source) + 1 /\ At(location, current)
      /\ Tokens(tokens) /\ Gapless(tokens) /\ IsGap(ReadUpTo(tokens), current)
  BY DEF LexInv, AtHand
<1>2. Len(source) \in Nat /\ current \in Nat \ {0} /\ e \in Nat
  BY <1>1, SourceFacts
<1>3. At(LocationOf(e), e)
  BY <1>1, <1>2, LocationIsTrue
<1>4. IsToken(t) /\ t \in Token /\ Position(t.at) = current /\ EndOf(t) = e
  BY DEF Reads, IsToken
<1> DEFINE s == tokens'
           n == Len(tokens)
<1>5. tokens \in Seq(Token) /\ n \in Nat
  BY <1>1 DEF Tokens
<1>6. /\ s \in Seq(Token) /\ Len(s) = n + 1 /\ s[n + 1] = t
      /\ \A i \in 1 .. n : s[i] = tokens[i]
  BY <1>4, <1>5, AppendProperties
<1> HIDE DEF s
<1>7. Tokens(s)
  <2> SUFFICES ASSUME NEW i \in 1 .. Len(s) PROVE IsToken(s[i])
    BY <1>6 DEF Tokens
  <2>1. i \in 1 .. n \/ i = n + 1
    BY <1>5, <1>6
  <2> QED
    BY <1>1, <1>4, <1>6, <2>1 DEF Tokens
<1>8. Gapless(s)
  <2> SUFFICES ASSUME NEW i \in 1 .. Len(s)
               PROVE  IsGap(IF i = 1 THEN 1 ELSE EndOf(s[i - 1]), Position(s[i].at))
    BY DEF Gapless
  <2>1. CASE i \in 1 .. n
    <3>1. s[i] = tokens[i] /\ (i # 1 => s[i - 1] = tokens[i - 1])
      BY <1>5, <1>6, <2>1
    <3> QED
      BY <1>1, <2>1, <3>1 DEF Gapless
  <2>2. CASE i = n + 1
    <3>1. (IF i = 1 THEN 1 ELSE EndOf(s[i - 1])) = ReadUpTo(tokens)
      <4>1. i = 1 <=> tokens = <<>>
        BY <1>5, <2>2
      <4>2. i # 1 => i - 1 = n /\ s[n] = tokens[n]
        BY <1>5, <1>6, <2>2
      <4> QED
        BY <4>1, <4>2 DEF ReadUpTo
    <3> QED
      BY <1>1, <1>4, <1>6, <2>2, <3>1
  <2> QED
    BY <1>5, <1>6, <2>1, <2>2
<1>9. IsGap(ReadUpTo(s), e)
  <2>1. ReadUpTo(s) = e
    <3>1. s # <<>>
      BY <1>5, <1>6
    <3> QED
      BY <1>4, <1>6, <3>1 DEF ReadUpTo
  <2>2. e <= e /\ \A r \in e .. e - 1 : FALSE
    BY <1>2
  <2> QED
    BY <2>1, <2>2 DEF IsGap
<1>10. e \in 1 .. Len(source) + 1
  BY <1>2
<1> QED
  BY <1>1, <1>3, <1>7, <1>8, <1>9, <1>10, FrozenLex DEF s

LEMMA LexStep == LexInv /\ [Next]_vars => LexInv'
<1> SUFFICES ASSUME LexInv, [Next]_vars PROVE LexInv'
  OBVIOUS
<1>1. AtHand /\ IsSource /\ current \in 1 .. Len(source) + 1
  BY DEF LexInv, AtHand
<1>2. /\ Len(source) \in Nat /\ current \in Nat
      /\ Peek # Nul => current \in 1 .. Len(source) /\ Peek = source[current]
  BY <1>1, SourceFacts DEF Peek, CharAt
<1>3. CASE SkipWhitespace
  <2> DEFINE e == Beyond(current, Blanks)
  <2>1. /\ e \in current .. Len(source) + 1
        /\ \A r \in current .. e - 1 : source[r] \in Blanks
    BY <1>1, BeyondFacts
  <2>2. source' = source /\ tokens' = tokens /\ current' = e /\ location' = LocationOf(e)
    BY <1>3 DEF SkipWhitespace, AdvanceTo
  <2> HIDE DEF e
  <2> QED
    BY <2>1, <2>2, Skipped
<1>4. CASE SkipComment
  <2> DEFINE e == Until(current, {Newline})
  <2>1. /\ e \in current .. Len(source) + 1
        /\ \A r \in current .. e - 1 : source[r] # Newline
    BY <1>1, UntilFacts
  <2>2. source' = source /\ tokens' = tokens /\ current' = e /\ location' = LocationOf(e)
    BY <1>4 DEF SkipComment, AdvanceTo, CommentEnd
  <2>3. source[current] = "-" /\ CharAt(current + 1) = "-"
    BY <1>2, <1>4 DEF SkipComment, AtComment, Nul
  <2> HIDE DEF e
  <2>4. ASSUME NEW r \in current .. e - 1
        PROVE  \E c \in current .. r : /\ source[c] = "-" /\ CharAt(c + 1) = "-"
                                       /\ \A s \in c .. r : source[s] # Newline
    <3>1. current \in current .. r /\ \A s \in current .. r : s \in current .. e - 1
      BY <1>2, <2>1
    <3> QED
      BY <2>1, <2>3, <3>1
  <2> QED
    BY <2>1, <2>2, <2>4, Skipped
<1>5. CASE EndOfFile
  <2>1. Reads([type |-> "END_OF_FILE", text |-> <<>>, at |-> location], current)
    BY <1>1, <1>5, LastToken DEF EndOfFile
  <2>2. source' = source /\ current' = current /\ location' = location
        /\ tokens' = Append(tokens, [type |-> "END_OF_FILE", text |-> <<>>, at |-> location])
    BY <1>5 DEF EndOfFile
  <2>3. current \in current .. Len(source) + 1
    BY <1>1, <1>2
  <2>4. LocationOf(current) = location
    <3> DEFINE f == CHOOSE f : Course(f, current)
    <3>1. LocationOf(current) = f[current]
      BY DEF LocationOf, Course
    <3>2. Course(f, current)
      BY <1>2, CourseExists
    <3> HIDE DEF f
    <3>3. current \in current .. current
      BY <1>2
    <3> QED
      BY <3>1, <3>2, <3>3 DEF Course
  <2> QED
    BY <2>1, <2>2, <2>3, <2>4, Emitted
<1>6. CASE ScanIdentifier
  <2> DEFINE S == Letters \cup Digits \cup {"_", "-"}
             e == Beyond(current, S)
             type == IF Text(e) \in Keywords THEN "keyword" ELSE "IDENTIFIER"
             t == [type |-> type, text |-> Text(e), at |-> location]
  <2>1. /\ e \in current .. Len(source) + 1
        /\ e <= Len(source) => source[e] \notin S
    BY <1>1, BeyondFacts
  <2>2. /\ source' = source /\ current' = e /\ location' = LocationOf(e)
        /\ tokens' = Append(tokens, t)
    BY <1>6 DEF ScanIdentifier, Emit, AdvanceTo
  <2>3. type \in {"keyword", "IDENTIFIER"} /\ t.type = type
    OBVIOUS
  <2> HIDE DEF e
  <2>4. EndsAt(t, e)
    <3> HIDE DEF t, type
    <3> QED
      BY <2>1, <2>3 DEF EndsAt
  <2> HIDE DEF type
  <2>5. Reads(t, e)
    BY <1>1, <2>1, <2>3, <2>4, PlainToken DEF Types
  <2> QED
    BY <2>1, <2>2, <2>5, Emitted
<1>7. CASE ScanNumber
  <2> DEFINE e == Beyond(current, Digits)
             t == [type |-> "NUMBER", text |-> Text(e), at |-> location]
  <2>1. /\ e \in current .. Len(source) + 1
        /\ e <= Len(source) => source[e] \notin Digits
    BY <1>1, BeyondFacts
  <2>2. /\ source' = source /\ current' = e /\ location' = LocationOf(e)
        /\ tokens' = Append(tokens, t)
    BY <1>7 DEF ScanNumber, Emit, AdvanceTo
  <2> HIDE DEF e
  <2>3. EndsAt(t, e)
    <3>1. t.type = "NUMBER"
      OBVIOUS
    <3> HIDE DEF t
    <3> QED
      BY <2>1, <3>1 DEF EndsAt
  <2>4. Reads(t, e)
    BY <1>1, <2>1, <2>3, PlainToken DEF Types
  <2> QED
    BY <2>1, <2>2, <2>4, Emitted
<1>8. CASE ScanString
  <2> DEFINE end == Until(current + 1, {Peek})
             e == IF CharAt(end) = Peek THEN end + 1 ELSE end
             t == [type |-> "STRING", text |-> SubSeq(source, current + 1, end - 1),
                   at |-> location]
  <2>1. e \in current .. Len(source) + 1 /\ Reads(t, e)
    BY <1>1, <1>8, StringToken DEF ScanString
  <2>2. /\ source' = source /\ current' = e /\ location' = LocationOf(e)
        /\ tokens' = Append(tokens, t)
    BY <1>8 DEF ScanString, Emit, AdvanceTo
  <2> HIDE DEF t, e
  <2> QED
    BY <2>1, <2>2, Emitted
<1>9. CASE ScanOperator
  <2> DEFINE e == current + OperatorLength
             t == [type |-> "operator", text |-> Text(e), at |-> location]
  <2>1. e \in current .. Len(source) + 1 /\ Reads(t, e)
    BY <1>1, <1>9, OperatorToken DEF ScanOperator
  <2>2. /\ source' = source /\ current' = e /\ location' = LocationOf(e)
        /\ tokens' = Append(tokens, t)
    BY <1>9 DEF ScanOperator, Emit, AdvanceTo
  <2> HIDE DEF t, e
  <2> QED
    BY <2>1, <2>2, Emitted
<1>10. CASE UNCHANGED vars
  BY <1>1, <1>10, FrozenLex DEF vars, LexInv, AtHand
<1> QED
  BY <1>3, <1>4, <1>5, <1>6, <1>7, <1>8, <1>9, <1>10 DEF Next

LEMMA LexInit == Init => LexInv
<1> SUFFICES ASSUME Init PROVE LexInv
  OBVIOUS
<1>1. IsSource /\ current = 1 /\ location = <<1, 1>> /\ tokens = <<>>
  BY SourcesAssumption DEF Init, IsSource
<1>2. AtHand
  <2>1. 1 \in 1 .. Len(source) + 1
    BY <1>1, SourceFacts
  <2> QED
    BY <1>1, <2>1, StartsAt DEF AtHand
<1>3. Tokens(tokens) /\ Gapless(tokens)
  <2>1. tokens \in Seq(Token) /\ \A i \in 1 .. Len(tokens) : FALSE
    BY <1>1
  <2> QED
    BY <2>1 DEF Tokens, Gapless
<1>4. IsGap(ReadUpTo(tokens), current)
  BY <1>1 DEF ReadUpTo, IsGap
<1> QED
  BY <1>2, <1>3, <1>4 DEF LexInv

LEMMA LexInvariant == Spec => []LexInv
BY LexInit, LexStep, PTL DEF Spec

-----------------------------------------------------------------------------
(* The properties.                                                         *)

(* A token has the text that the source has at its location, however many  *)
(* lines, comments and strings came before it.                             *)
THEOREM LocationsTrue == Spec => []LocationsAreTrue
<1>1. LexInv => LocationsAreTrue
  <2> SUFFICES ASSUME LexInv, NEW i \in DOMAIN tokens
               PROVE  LET t == tokens[i]
                          p == Position(t.at) + Opening(t)
                      IN  /\ Newline \notin {CharAt(q) : q \in LineStart(t.at[1]) .. Position(t.at) - 1}
                          /\ \A k \in DOMAIN t.text : CharAt(p + k - 1) = t.text[k]
                          /\ t.type = "END_OF_FILE" => CharAt(p) = Nul
    BY DEF LocationsAreTrue
  <2> DEFINE t == tokens[i]
             n == Position(t.at)
  <2>1. IsSource /\ IsToken(t)
    BY DEF LexInv, AtHand, Tokens
  <2> HIDE DEF t
  <2>2. At(t.at, n) /\ n \in 1 .. Len(source) + 1
    BY <2>1 DEF IsToken
  <2> HIDE DEF n
  <2>3. ASSUME NEW q \in LineStart(t.at[1]) .. n - 1 PROVE CharAt(q) # Newline
    <3>1. LineStart(t.at[1]) \in 1 .. n /\ source[q] # Newline
      BY <2>2 DEF At
    <3>2. q \in 1 .. Len(source)
      BY <2>1, <2>2, <3>1, SourceFacts
    <3> QED
      BY <2>1, <3>1, <3>2, SourceFacts
  <2> QED
    BY <2>1, <2>3 DEF IsToken, n, t
<1> QED
  BY <1>1, LexInvariant, PTL

(* Nothing but blanks and comments is passed over.                         *)
THEOREM NothingIsDropped == Spec => []NothingDropped
<1>1. LexInv => NothingDropped
  <2>1. LexInv => DOMAIN tokens = 1 .. Len(tokens)
    BY DEF LexInv, Tokens
  <2> QED
    BY <2>1 DEF LexInv, Gapless, NothingDropped
<1> QED
  BY <1>1, LexInvariant, PTL

(* A token ends where none that goes on is possible.                       *)
THEOREM TokensAreLongest == Spec => []LongestTokens
<1>1. LexInv => LongestTokens
  <2> SUFFICES ASSUME LexInv, NEW i \in 2 .. Len(tokens)
               PROVE  EndOf(tokens[i - 1]) = Position(tokens[i].at) =>
                        EndsAt(tokens[i - 1], Position(tokens[i].at))
    BY DEF LongestTokens, EndsAt, LongOperators
  <2>1. i - 1 \in 1 .. Len(tokens)
    BY DEF LexInv, Tokens
  <2>2. IsToken(tokens[i - 1])
    BY <2>1 DEF LexInv, Tokens
  <2> QED
    BY <2>2 DEF IsToken
<1> QED
  BY <1>1, LexInvariant, PTL

=============================================================================
