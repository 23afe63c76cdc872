-------------------------- MODULE Resolver_proofs --------------------------
(***************************************************************************)
(* Proofs about Resolver and Constraints, for every list of modules: types *)
(* and the depth of the recursion; what references are bound to and which  *)
(* are left out, as NameBinding promises; links; errors; and the constants *)
(* that bounds stand for.                                                  *)
(***************************************************************************)
EXTENDS Constraints, SequenceTheorems, FiniteSetTheorems,
        WellFoundedInduction, TLAPS

-----------------------------------------------------------------------------
(* The work list as a sequence.                                            *)

Place == Definitions \cup Nodes

Work == [op : Operations, at : Place]

(* The items x replace the head of the list.                               *)
Pushed(x) ==
  /\ Len(todo') = Len(x) + Len(todo) - 1
  /\ \A k \in 1 .. Len(x) : todo'[k] = x[k]
  /\ \A k \in 1 .. Len(todo) - 1 : todo'[Len(x) + k] = todo[k + 1]

(* The first c items are dropped: up to the first catch, or all.           *)
Dropped(c) ==
  /\ Len(todo') = Len(todo) - c
  /\ \A k \in 1 .. Len(todo') : todo'[k] = todo[k + c]
  /\ \A k \in 1 .. c - 1 : todo[k].op # "catch"
  /\ todo[c].op = "catch" \/ c = Len(todo)

(* A set of positions that is not empty has a smallest one.                *)
LEMMA SmallestExists ==
  ASSUME NEW S, S \subseteq Nat, S # {}
  PROVE  \E k \in S : \A j \in S : k <= j
<1> DEFINE R == {ss \in Nat \X Nat : ss[1] < ss[2]}
<1>1. IsWellFoundedOn(R, Nat)
  BY NatLessThanWellFounded DEF OpToRel
<1>2. PICK k \in S : \A j \in S : ~ (<<j, k>> \in R)
  <2> HIDE DEF R
  <2> QED
    BY <1>1, WFMin
<1>3. \A j \in S : ~ (j < k)
  BY <1>2
<1> QED
  BY <1>2, <1>3

(* Two and three lists of work in a row, and where an item of them is.     *)
LEMMA TwoLists ==
  ASSUME NEW S, NEW a \in Seq(S), NEW b \in Seq(S)
  PROVE  /\ a \o b \in Seq(S) /\ Len(a \o b) = Len(a) + Len(b)
         /\ \A k \in 1 .. Len(a) : (a \o b)[k] = a[k]
         /\ \A k \in 1 .. Len(b) : (a \o b)[Len(a) + k] = b[k]
         /\ \A k \in 1 .. Len(a \o b) :
              \/ k \in 1 .. Len(a)
              \/ \E j \in 1 .. Len(b) : k = Len(a) + j
<1>1. Len(a) \in Nat /\ Len(b) \in Nat
  OBVIOUS
<1>2. /\ a \o b \in Seq(S) /\ Len(a \o b) = Len(a) + Len(b)
      /\ \A k \in 1 .. Len(a) + Len(b) :
           (a \o b)[k] = IF k <= Len(a) THEN a[k] ELSE b[k - Len(a)]
  BY ConcatProperties
<1>3. \A k \in 1 .. Len(a) : (a \o b)[k] = a[k]
  BY <1>1, <1>2
<1>4. ASSUME NEW k \in 1 .. Len(b) PROVE (a \o b)[Len(a) + k] = b[k]
  <2>1. Len(a) + k \in 1 .. Len(a) + Len(b) /\ ~ (Len(a) + k <= Len(a)) /\ Len(a) + k - Len(a) = k
    BY <1>1
  <2> QED
    BY <1>2, <2>1
<1>5. ASSUME NEW k \in 1 .. Len(a \o b), k \notin 1 .. Len(a)
      PROVE  \E j \in 1 .. Len(b) : k = Len(a) + j
  <2>1. k - Len(a) \in 1 .. Len(b) /\ k = Len(a) + (k - Len(a))
    BY <1>1, <1>2, <1>5
  <2> QED
    BY <2>1
<1> QED
  BY <1>2, <1>3, <1>4, <1>5

(* x is a, b and c, one after the other.                                   *)
Joined(x, a, b, c) ==
  /\ Len(x) = Len(a) + Len(b) + Len(c)
  /\ \A k \in 1 .. Len(a) : x[k] = a[k]
  /\ \A k \in 1 .. Len(b) : x[Len(a) + k] = b[k]
  /\ \A k \in 1 .. Len(c) : x[Len(a) + Len(b) + k] = c[k]
  /\ \A k \in 1 .. Len(x) :
       \/ k \in 1 .. Len(a)
       \/ \E j \in 1 .. Len(b) : k = Len(a) + j
       \/ \E j \in 1 .. Len(c) : k = Len(a) + Len(b) + j

LEMMA ThreeLists ==
  ASSUME NEW S, NEW a \in Seq(S), NEW b \in Seq(S), NEW c \in Seq(S)
  PROVE  a \o b \o c \in Seq(S) /\ Joined(a \o b \o c, a, b, c)
<1> DEFINE ab == a \o b
<1>1. /\ ab \in Seq(S) /\ Len(ab) = Len(a) + Len(b)
      /\ \A k \in 1 .. Len(a) : ab[k] = a[k]
      /\ \A k \in 1 .. Len(b) : ab[Len(a) + k] = b[k]
      /\ \A k \in 1 .. Len(ab) :
           \/ k \in 1 .. Len(a)
           \/ \E j \in 1 .. Len(b) : k = Len(a) + j
  BY TwoLists
<1>2. Len(a) \in Nat /\ Len(b) \in Nat /\ Len(c) \in Nat
  OBVIOUS
<1>0. ab \in Seq(S)
  BY <1>1
<1> HIDE DEF ab
<1>3. /\ ab \o c \in Seq(S) /\ Len(ab \o c) = Len(ab) + Len(c)
      /\ \A k \in 1 .. Len(ab) : (ab \o c)[k] = ab[k]
      /\ \A k \in 1 .. Len(c) : (ab \o c)[Len(ab) + k] = c[k]
      /\ \A k \in 1 .. Len(ab \o c) :
           \/ k \in 1 .. Len(ab)
           \/ \E j \in 1 .. Len(c) : k = Len(ab) + j
  BY <1>0, TwoLists
<1>4. \A k \in 1 .. Len(a) : (ab \o c)[k] = a[k]
  BY <1>1, <1>2, <1>3
<1>5. \A k \in 1 .. Len(b) : (ab \o c)[Len(a) + k] = b[k]
  <2> TAKE k \in 1 .. Len(b)
  <2>1. Len(a) + k \in 1 .. Len(ab)
    BY <1>1, <1>2
  <2> QED
    BY <1>1, <1>3, <2>1
<1>6. \A k \in 1 .. Len(c) : (ab \o c)[Len(a) + Len(b) + k] = c[k]
  BY <1>1, <1>3
<1>7. \A k \in 1 .. Len(ab \o c) :
        \/ k \in 1 .. Len(a)
        \/ \E j \in 1 .. Len(b) : k = Len(a) + j
        \/ \E j \in 1 .. Len(c) : k = Len(a) + Len(b) + j
  <2> TAKE k \in 1 .. Len(ab \o c)
  <2>1. CASE k \in 1 .. Len(ab)
    BY <1>1, <2>1
  <2>2. ASSUME NEW j \in 1 .. Len(c), k = Len(ab) + j
        PROVE  k = Len(a) + Len(b) + j
    BY <1>1, <2>2
  <2> QED
    BY <1>3, <2>1, <2>2
<1>8. Len(ab \o c) = Len(a) + Len(b) + Len(c)
  BY <1>1, <1>3
<1> QED
  BY <1>3, <1>4, <1>5, <1>6, <1>7, <1>8 DEF ab, Joined

LEMMA Frozen ==
  ASSUME schema' = schema
  PROVE  /\ Definitions' = Definitions
         /\ Nodes' = Nodes
         /\ Symbols' = Symbols
         /\ Work' = Work
BY DEF Definitions, Nodes, Symbols, BodyNodes, ArgNodes, RefOf, Assigned,
       SymbolOf, Work, Place

LEMMA ItemsType ==
  ASSUME NEW op \in Operations, NEW s \in Seq(Place)
  PROVE  /\ Items(op, s) \in Seq(Work)
         /\ Len(Items(op, s)) = Len(s)
         /\ \A k \in DOMAIN s : Items(op, s)[k] = [op |-> op, at |-> s[k]]
<1>1. DOMAIN s = 1 .. Len(s) /\ Len(s) \in Nat
  OBVIOUS
<1>2. \A k \in DOMAIN s : s[k] \in Place
  OBVIOUS
<1>3. \A k \in DOMAIN s : [op |-> op, at |-> s[k]] \in Work
  BY <1>2 DEF Work
<1>4. Items(op, s) \in [1 .. Len(s) -> Work]
  BY <1>1, <1>3 DEF Items
<1>5. Items(op, s) \in Seq(Work)
  BY <1>1, <1>4
<1> QED
  BY <1>1, <1>4, <1>5 DEF Items

LEMMA ItemType ==
  ASSUME NEW op \in Operations, NEW p \in Place
  PROVE  /\ Item(op, p) \in Seq(Work)
         /\ Len(Item(op, p)) = 1
         /\ Item(op, p)[1] = [op |-> op, at |-> p]
<1>1. <<p>> \in Seq(Place) /\ Len(<<p>>) = 1 /\ <<p>>[1] = p /\ 1 \in DOMAIN <<p>>
  OBVIOUS
<1> QED
  BY <1>1, ItemsType DEF Item

LEMMA PushFacts ==
  ASSUME NEW x \in Seq(Work), todo \in Seq(Work), todo # <<>>, todo' = x \o Rest
  PROVE  todo' \in Seq(Work) /\ Pushed(x)
<1>1. /\ Rest \in Seq(Work)
      /\ Len(Rest) = Len(todo) - 1
      /\ \A k \in 1 .. Len(Rest) : Rest[k] = todo[k + 1]
  BY HeadTailProperties DEF Rest
<1>2. /\ todo' \in Seq(Work)
      /\ Len(todo') = Len(x) + Len(Rest)
      /\ \A k \in 1 .. Len(x) + Len(Rest) :
           todo'[k] = IF k <= Len(x) THEN x[k] ELSE Rest[k - Len(x)]
  BY <1>1, ConcatProperties
<1>3. Len(x) \in Nat /\ Len(Rest) \in Nat /\ Len(todo) \in Nat
  BY <1>1, LenProperties
<1>4. \A k \in 1 .. Len(x) : todo'[k] = x[k]
  BY <1>2, <1>3
<1>5. ASSUME NEW k \in 1 .. Len(todo) - 1
      PROVE  todo'[Len(x) + k] = todo[k + 1]
  <2>1. Len(x) + k \in 1 .. Len(x) + Len(Rest) /\ ~ (Len(x) + k <= Len(x))
    BY <1>1, <1>3
  <2>2. todo'[Len(x) + k] = Rest[k]
    BY <1>2, <1>3, <2>1
  <2> QED
    BY <1>1, <1>3, <2>2
<1> QED
  BY <1>1, <1>2, <1>3, <1>4, <1>5 DEF Pushed

LEMMA DropFacts ==
  ASSUME todo \in Seq(Work), todo # <<>>, todo' = AfterCatch
  PROVE  /\ todo' \in Seq(Work)
         /\ \E c \in 1 .. Len(todo) : Dropped(c)
         /\ Catches # {} => \E c \in Catches : Dropped(c)
<1>1. DOMAIN todo = 1 .. Len(todo) /\ Len(todo) \in Nat \ {0}
  OBVIOUS
<1>2. CASE Catches = {}
  <2>1. todo' = <<>> /\ Len(todo') = 0
    BY <1>2 DEF AfterCatch
  <2>2. Dropped(Len(todo))
    BY <1>1, <1>2, <2>1 DEF Dropped, Catches
  <2> QED
    BY <1>1, <1>2, <2>1, <2>2
<1>3. CASE Catches # {}
  <2>1. \E k \in Catches : \A j \in Catches : k <= j
    <3>1. Catches \subseteq Nat
      BY <1>1 DEF Catches
    <3> QED
      BY <1>3, <3>1, SmallestExists
  <2>2. PICK c \in Catches : /\ \A j \in Catches : c <= j
                             /\ c = CHOOSE k \in Catches : \A j \in Catches : k <= j
    BY <2>1
  <2>3. todo' = SubSeq(todo, 1 + c, Len(todo))
    BY <1>3, <2>2 DEF AfterCatch
  <2>4. c \in 1 .. Len(todo) /\ todo[c].op = "catch"
    BY <1>1, <2>2 DEF Catches
  <2>5. \A i \in 1 + c .. Len(todo) : todo[i] \in Work
    BY <1>1, <2>4
  <2>6. /\ todo' \in Seq(Work)
        /\ Len(todo') = IF 1 + c <= Len(todo) THEN Len(todo) - (1 + c) + 1 ELSE 0
        /\ \A i \in 1 .. Len(todo) - (1 + c) + 1 : todo'[i] = todo[1 + c + i - 1]
    BY <1>1, <2>3, <2>4, <2>5, SubSeqProperties
  <2>7. Len(todo') = Len(todo) - c /\ \A k \in 1 .. Len(todo') : todo'[k] = todo[k + c]
    <3>0. c \in Int /\ Len(todo) \in Int /\ c <= Len(todo)
      BY <1>1, <2>4
    <3>1. Len(todo') = Len(todo) - c
      <4>1. Len(todo') = IF 1 + c <= Len(todo) THEN Len(todo) - (1 + c) + 1 ELSE 0
        BY <2>6
      <4>2. CASE c = Len(todo)
        BY <3>0, <4>1, <4>2
      <4>3. CASE 1 + c <= Len(todo)
        BY <3>0, <4>1, <4>3
      <4> QED
        BY <3>0, <4>2, <4>3
    <3>2. ASSUME NEW k \in 1 .. Len(todo') PROVE todo'[k] = todo[k + c]
      <4>1. k \in 1 .. Len(todo) - (1 + c) + 1 /\ 1 + c + k - 1 = k + c
        BY <1>1, <2>4, <3>1
      <4> QED
        BY <2>6, <4>1
    <3> QED
      BY <3>1, <3>2
  <2>8. \A k \in 1 .. c - 1 : todo[k].op # "catch"
    BY <1>1, <2>2, <2>4 DEF Catches
  <2>9. Dropped(c)
    BY <2>4, <2>7, <2>8 DEF Dropped
  <2> QED
    BY <2>2, <2>4, <2>6, <2>9
<1> QED
  BY <1>2, <1>3

-----------------------------------------------------------------------------
(* Definitions and nodes.                                                  *)

LEMMA NodesAre ==
  ASSUME NEW n
  PROVE  n \in Nodes <=>
           \E d \in Definitions : \E b \in Range(BodyNodes(d)) :
             n = b \/ n \in Range(ArgNodes(b))
BY DEF Nodes

LEMMA DefinitionFacts ==
  ASSUME schema \in Seq(Module), NEW d \in Definitions
  PROVE  /\ d = <<d[1], d[2]>>
         /\ d[1] \in DOMAIN schema /\ d[2] \in DOMAIN schema[d[1]].assigns
         /\ d[1] \in Nat /\ d[2] \in Nat
         /\ schema[d[1]] \in Module
         /\ Assigned(d) \in Assignment
         /\ SymbolOf(d) \in Symbols
         /\ BodyNodes(d) \in Seq(Nodes)
         /\ Len(BodyNodes(d)) = Len(Assigned(d).refs)
<1>1. PICK m \in DOMAIN schema : d \in {m} \X DOMAIN schema[m].assigns
  BY DEF Definitions
<1>2. /\ d = <<d[1], d[2]>> /\ d[1] \in DOMAIN schema
      /\ d[2] \in DOMAIN schema[d[1]].assigns
  BY <1>1
<1>3. schema[d[1]] \in Module
  BY <1>2
<1>4. schema[d[1]].assigns \in Seq(Assignment)
  BY <1>3 DEF Module
<1>5. Assigned(d) \in Assignment
  BY <1>2, <1>4 DEF Assigned
<1>6. d[1] \in Nat /\ d[2] \in Nat
  BY <1>2, <1>4
<1>7. SymbolOf(d) \in Symbols
  BY DEF Symbols
<1>8. Assigned(d).refs \in Seq(Reference)
  BY <1>5 DEF Assignment
<1>9. ASSUME NEW k \in DOMAIN Assigned(d).refs
      PROVE  BodyNodes(d)[k] \in Nodes
  <2>1. BodyNodes(d)[k] \in Range(BodyNodes(d))
    BY DEF Range, BodyNodes
  <2> QED
    BY <2>1, NodesAre
<1>10. BodyNodes(d) \in [1 .. Len(Assigned(d).refs) -> Nodes] /\ Len(Assigned(d).refs) \in Nat
  <2>1. DOMAIN Assigned(d).refs = 1 .. Len(Assigned(d).refs) /\ Len(Assigned(d).refs) \in Nat
    BY <1>8
  <2>2. BodyNodes(d) = [k \in 1 .. Len(Assigned(d).refs) |-> BodyNodes(d)[k]]
    BY <2>1 DEF BodyNodes
  <2> QED
    BY <1>9, <2>1, <2>2
<1>11. BodyNodes(d) \in Seq(Nodes) /\ Len(BodyNodes(d)) = Len(Assigned(d).refs)
  BY <1>10
<1> QED
  BY <1>2, <1>3, <1>5, <1>6, <1>7, <1>11

(* A node is a reference or an actual parameter of its definition.         *)
LEMMA NodeFacts ==
  ASSUME schema \in Seq(Module), NEW n \in Nodes
  PROVE  /\ n = <<n[1], n[2], n[3], n[4]>>
         /\ <<n[1], n[2]>> \in Definitions
         /\ Assigned(n) = Assigned(<<n[1], n[2]>>)
         /\ n[3] \in DOMAIN Assigned(n).refs
         /\ RefOf(n) \in Reference
         /\ n[4] = 0 \/ n[4] \in DOMAIN RefOf(n).args
         /\ NameAt(n) \in Names
<1>1. PICK d \in Definitions :
        \E c \in Range(BodyNodes(d)) : n = c \/ n \in Range(ArgNodes(c))
  BY NodesAre
<1>0. PICK b \in Range(BodyNodes(d)) : n = b \/ n \in Range(ArgNodes(b))
  BY <1>1
<1>2. PICK k \in DOMAIN Assigned(d).refs : b = <<d[1], d[2], k, 0>>
  BY DEF Range, BodyNodes
<1>3. Assigned(d) \in Assignment /\ Assigned(b) = Assigned(d) /\ d = <<d[1], d[2]>>
  BY <1>2, DefinitionFacts DEF Assigned
<1>4. Assigned(d).refs \in Seq(Reference)
  BY <1>3 DEF Assignment
<1>5. RefOf(b) = Assigned(d).refs[k] /\ RefOf(b) \in Reference
  BY <1>2, <1>3, <1>4 DEF RefOf
<1>6. RefOf(b).args \in Seq(Names) /\ RefOf(b).name \in Names
  BY <1>5 DEF Reference
<1>7. CASE n = b
  <2>1. n = <<d[1], d[2], k, 0>> /\ n[1] = d[1] /\ n[2] = d[2] /\ n[3] = k /\ n[4] = 0
    BY <1>2, <1>7
  <2>2. NameAt(n) = RefOf(b).name
    BY <1>7, <2>1 DEF NameAt
  <2> QED
    BY <1>2, <1>3, <1>5, <1>6, <1>7, <2>1, <2>2
<1>8. CASE n \in Range(ArgNodes(b))
  <2>1. PICK p \in DOMAIN RefOf(b).args : n = <<b[1], b[2], b[3], p>>
    BY <1>2, <1>8 DEF Range, ArgNodes
  <2>2. n = <<d[1], d[2], k, p>>
    BY <1>2, <2>1
  <2>3. Assigned(n) = Assigned(d) /\ RefOf(n) = RefOf(b)
    BY <1>2, <1>3, <2>2 DEF Assigned, RefOf
  <2>4. p \in Nat \ {0} /\ RefOf(b).args[p] \in Names
    BY <1>6, <2>1
  <2>5. n[1] = d[1] /\ n[2] = d[2] /\ n[3] = k /\ n[4] = p
    BY <2>2
  <2>6. NameAt(n) = RefOf(b).args[p]
    BY <2>3, <2>4, <2>5 DEF NameAt
  <2> QED
    BY <1>2, <1>3, <1>5, <2>1, <2>2, <2>3, <2>4, <2>5, <2>6
<1> QED
  BY <1>0, <1>7, <1>8

LEMMA ArgFacts ==
  ASSUME schema \in Seq(Module), NEW n \in Nodes
  PROVE  /\ ArgNodes(n) \in Seq(Nodes)
         /\ \A p \in DOMAIN ArgNodes(n) :
              ArgNodes(n)[p] = <<n[1], n[2], n[3], p>> /\ p \in Nat \ {0}
<1>1. CASE n[4] # 0
  BY <1>1 DEF ArgNodes
<1>2. CASE n[4] = 0
  <2>1. RefOf(n).args \in Seq(Names)
    BY NodeFacts DEF Reference
  <2>2. n \in Range(BodyNodes(<<n[1], n[2]>>))
    BY <1>2, NodeFacts DEF Range, BodyNodes
  <2>3. ASSUME NEW p \in DOMAIN RefOf(n).args PROVE ArgNodes(n)[p] \in Nodes
    <3>1. ArgNodes(n)[p] \in Range(ArgNodes(n))
      BY <1>2 DEF Range, ArgNodes
    <3> QED
      BY <2>2, <3>1, NodeFacts, NodesAre
  <2>4. ArgNodes(n) \in [1 .. Len(RefOf(n).args) -> Nodes] /\ Len(RefOf(n).args) \in Nat
    <3>1. DOMAIN RefOf(n).args = 1 .. Len(RefOf(n).args) /\ Len(RefOf(n).args) \in Nat
      BY <2>1
    <3>2. ArgNodes(n) = [p \in 1 .. Len(RefOf(n).args) |-> ArgNodes(n)[p]]
      BY <1>2, <3>1 DEF ArgNodes
    <3> QED
      BY <2>3, <3>1, <3>2
  <2> QED
    BY <1>2, <2>1, <2>4, SMTT(30) DEF ArgNodes
<1> QED
  BY <1>1, <1>2

(* lookupSymbol finds a definition of each symbol.                         *)
LEMMA DefinitionOfFacts ==
  ASSUME schema \in Seq(Module), NEW s \in Symbols
  PROVE  DefinitionOf(s) \in Definitions /\ SymbolOf(DefinitionOf(s)) = s
<1> DEFINE Ds == {d \in Definitions : SymbolOf(d) = s}
           First == {d[1] : d \in Ds}
<1>1. Ds # {}
  BY DEF Symbols
<1>2. \A d \in Ds : d[1] \in Nat /\ d[2] \in Nat
  BY DefinitionFacts
<1>3. PICK i \in First : \A j \in First : i <= j
  <2>1. First \subseteq Nat /\ First # {}
    BY <1>1, <1>2
  <2> HIDE DEF First
  <2> QED
    BY <2>1, SmallestExists
<1> DEFINE Second == {d[2] : d \in {e \in Ds : e[1] = i}}
<1>4. PICK k \in Second : \A j \in Second : k <= j
  <2>1. Second \subseteq Nat /\ Second # {}
    BY <1>2, <1>3
  <2> HIDE DEF Second
  <2> QED
    BY <2>1, SmallestExists
<1>5. PICK d \in Ds : d[1] = i /\ d[2] = k
  BY <1>4
<1>6. \A e \in Ds : d[1] < e[1] \/ (d[1] = e[1] /\ d[2] <= e[2])
  <2> TAKE e \in Ds
  <2>1. e[1] \in Nat /\ d[1] \in Nat /\ i <= e[1]
    BY <1>2, <1>3
  <2>2. CASE e[1] = i
    BY <1>4, <1>5, <2>2
  <2>3. CASE i < e[1]
    BY <1>5, <2>3
  <2> QED
    BY <1>5, <2>1, <2>2, <2>3
<1>7. \E c \in Definitions :
        /\ SymbolOf(c) = s
        /\ \A e \in Definitions : SymbolOf(e) = s =>
             c[1] < e[1] \/ (c[1] = e[1] /\ c[2] <= e[2])
  BY <1>5, <1>6
<1> QED
  BY <1>7 DEF DefinitionOf

(* A scope maps each name to a symbol of that name.                        *)
LEMMA ScopeFacts ==
  ASSUME schema \in Seq(Module), NEW m \in DOMAIN schema, ~ ImportsFail(m)
  PROVE  /\ DOMAIN ScopeOf(m) \subseteq Names
         /\ \A x \in DOMAIN ScopeOf(m) :
              /\ ScopeOf(m)[x] \in Symbols /\ ScopeOf(m)[x][2] = x
              /\ \/ ScopeOf(m)[x][1] = schema[m].name
                 \/ ScopeOf(m)[x] \in Range(schema[m].imports)
<1> DEFINE imported == Range(schema[m].imports)
<1>1. Symbols \subseteq Symbol
  <2>1. ASSUME NEW d \in Definitions PROVE SymbolOf(d) \in Symbol
    BY DefinitionFacts DEF SymbolOf, Symbol, Module, Assignment
  <2> QED
    BY <2>1 DEF Symbols
<1>2. imported \subseteq Symbols
  BY DEF ImportsFail, Range
<1>3. \A x \in Own(m) : x \in Names /\ <<schema[m].name, x>> \in Symbols
  BY <1>1 DEF Own, Symbol
<1>4. \A s \in imported : s[2] \in Names
  BY <1>1, <1>2 DEF Symbol
<1>5. DOMAIN ScopeOf(m) = Own(m) \cup {s[2] : s \in imported}
  BY DEF ScopeOf
<1>6. ASSUME NEW x \in DOMAIN ScopeOf(m)
      PROVE  /\ ScopeOf(m)[x] \in Symbols /\ ScopeOf(m)[x][2] = x
             /\ \/ ScopeOf(m)[x][1] = schema[m].name
                \/ ScopeOf(m)[x] \in imported
  <2>1. CASE x \in Own(m)
    BY <1>3, <1>6, <2>1 DEF ScopeOf
  <2>2. CASE x \notin Own(m)
    <3>1. \E s \in imported : s[2] = x
      BY <1>5, <1>6, <2>2
    <3>2. ScopeOf(m)[x] = CHOOSE s \in imported : s[2] = x
      BY <1>6, <2>2 DEF ScopeOf
    <3> QED
      BY <1>2, <3>1, <3>2
  <2> QED
    BY <2>1, <2>2
<1> QED
  BY <1>3, <1>4, <1>5, <1>6

-----------------------------------------------------------------------------
(* The type invariant, with what a work item stands for: a call that is to *)
(* return to a node, or a body to be copied for it, is of a node that is   *)
(* bound, and a binding is to a definition of the name.                    *)

Typed(i, bound) ==
  /\ i.op \in {"assignment", "catch"} => i.at \in Definitions
  /\ i.op = "node" => i.at \in Nodes
  /\ i.op \in {"link", "copy"} => i.at \in bound

TypedList(s, bound) ==
  /\ s \in Seq(Work)
  /\ \A k \in 1 .. Len(s) : Typed(s[k], bound)

TodoTyped == TypedList(todo, DOMAIN name)

NameTyped ==
  /\ name \in [DOMAIN name -> Symbols]
  /\ DOMAIN name \subseteq Nodes
  /\ \A n \in DOMAIN name : name[n] \in Elsewhere(NameAt(n))

ScopeTyped ==
  /\ DOMAIN scope \subseteq Names
  /\ \A x \in DOMAIN scope : scope[x] \in Elsewhere(x)
  /\ phase = "resolve" =>
       current \in DOMAIN schema /\ ~ ImportsFail(current) /\ scope = ScopeOf(current)

TypeInv ==
  /\ schema \in Seq(Module)
  /\ phase \in {"scope", "resolve", "done", "failed"}
  /\ current \in 1 .. Len(schema) + 1
  /\ path \subseteq Symbols
  /\ linked \subseteq DOMAIN name
  /\ DOMAIN copies \subseteq DOMAIN name
  /\ error \in {"none", "import", "undefined", "circular", "arity"}
  /\ TodoTyped
  /\ NameTyped
  /\ ScopeTyped

LEMMA JoinTyped ==
  ASSUME NEW bound, NEW a, TypedList(a, bound), NEW b, TypedList(b, bound)
  PROVE  TypedList(a \o b, bound)
<1>1. a \in Seq(Work) /\ b \in Seq(Work)
  BY DEF TypedList
<1>2. /\ a \o b \in Seq(Work)
      /\ \A k \in 1 .. Len(a) : (a \o b)[k] = a[k]
      /\ \A k \in 1 .. Len(b) : (a \o b)[Len(a) + k] = b[k]
      /\ \A k \in 1 .. Len(a \o b) :
           \/ k \in 1 .. Len(a)
           \/ \E j \in 1 .. Len(b) : k = Len(a) + j
  BY <1>1, TwoLists
<1>3. ASSUME NEW k \in 1 .. Len(a \o b) PROVE Typed((a \o b)[k], bound)
  <2>1. CASE k \in 1 .. Len(a)
    BY <1>2, <2>1 DEF TypedList
  <2>2. ASSUME NEW j \in 1 .. Len(b), k = Len(a) + j
        PROVE  Typed((a \o b)[k], bound)
    BY <1>2, <2>2 DEF TypedList
  <2> QED
    BY <1>2, <2>1, <2>2
<1> QED
  BY <1>2, <1>3 DEF TypedList

LEMMA TailTyped ==
  ASSUME NEW bound, TypedList(todo, bound), todo # <<>>
  PROVE  TypedList(Rest, bound)
<1>1. /\ todo \in Seq(Work) /\ Rest \in Seq(Work) /\ Len(Rest) = Len(todo) - 1
      /\ \A k \in 1 .. Len(Rest) : Rest[k] = todo[k + 1]
  BY HeadTailProperties DEF Rest, TypedList
<1>2. Len(todo) \in Nat
  BY <1>1
<1>3. ASSUME NEW k \in 1 .. Len(Rest) PROVE Typed(Rest[k], bound)
  <2>1. k + 1 \in 1 .. Len(todo) /\ Rest[k] = todo[k + 1]
    BY <1>1, <1>2
  <2> QED
    BY <2>1 DEF TypedList
<1> QED
  BY <1>1, <1>3 DEF TypedList

LEMMA MoreBound ==
  ASSUME NEW s, NEW few, NEW many, few \subseteq many, TypedList(s, few)
  PROVE  TypedList(s, many)
BY DEF TypedList, Typed

LEMMA FrozenTyped ==
  ASSUME schema' = schema, NEW s, s = todo', NEW bound, bound = DOMAIN name',
         TypedList(s, bound)
  PROVE  TodoTyped'
BY Frozen DEF TodoTyped, TypedList, Typed

(* A list of typed items takes the place of the head, or the items up to a *)
(* catch are dropped.                                                      *)
LEMMA PushTyped ==
  ASSUME TodoTyped, todo # <<>>, schema' = schema,
         NEW x, todo' = x \o Rest, TypedList(x, DOMAIN name'),
         DOMAIN name \subseteq DOMAIN name'
  PROVE  TodoTyped'
<1>1. TypedList(Rest, DOMAIN name')
  BY TailTyped, MoreBound DEF TodoTyped
<1>2. TypedList(todo', DOMAIN name')
  BY <1>1, JoinTyped
<1> QED
  BY <1>2, FrozenTyped

LEMMA PopTyped ==
  ASSUME TodoTyped, todo # <<>>, schema' = schema, todo' = Rest,
         DOMAIN name \subseteq DOMAIN name'
  PROVE  TodoTyped'
<1>1. TypedList(todo', DOMAIN name')
  BY TailTyped, MoreBound DEF TodoTyped
<1> QED
  BY <1>1, FrozenTyped

LEMMA DropTyped ==
  ASSUME TodoTyped, todo # <<>>, schema' = schema, todo' = AfterCatch,
         DOMAIN name \subseteq DOMAIN name'
  PROVE  TodoTyped'
<1>1. todo \in Seq(Work) /\ Len(todo) \in Nat
  BY DEF TodoTyped, TypedList
<1>2. todo' \in Seq(Work)
  BY <1>1, DropFacts
<1>3. PICK c \in 1 .. Len(todo) : Dropped(c)
  BY <1>1, DropFacts
<1>4. ASSUME NEW k \in 1 .. Len(todo') PROVE Typed(todo'[k], DOMAIN name)
  <2>1. todo'[k] = todo[k + c] /\ k + c \in 1 .. Len(todo)
    BY <1>1, <1>3 DEF Dropped
  <2> QED
    BY <2>1 DEF TodoTyped, TypedList
<1>5. TypedList(todo', DOMAIN name')
  BY <1>2, <1>4, MoreBound DEF TypedList
<1> QED
  BY <1>5, FrozenTyped

LEMMA BindTyped ==
  ASSUME NameTyped, schema' = schema, NEW n \in Nodes,
         NEW s \in Elsewhere(NameAt(n)), name' = Bound(name, n, s)
  PROVE  /\ NameTyped'
         /\ DOMAIN name' = DOMAIN name \cup {n}
         /\ name'[n] = s
         /\ \A m \in DOMAIN name \ {n} : name'[m] = name[m]
<1>1. /\ DOMAIN name' = DOMAIN name \cup {n}
      /\ name'[n] = s
      /\ \A m \in DOMAIN name \ {n} : name'[m] = name[m]
  BY DEF Bound
<1>2. s \in Symbols
  BY DEF Elsewhere
<1>3. name' \in [DOMAIN name' -> Symbols]
  BY <1>2 DEF Bound, NameTyped
<1>4. \A m \in DOMAIN name' : name'[m] \in Elsewhere(NameAt(m))
  BY <1>1 DEF NameTyped
<1>5. \A m \in DOMAIN name' : Elsewhere(NameAt(m))' = Elsewhere(NameAt(m))
  BY Frozen DEF Elsewhere, NameAt, RefOf, Assigned
<1> QED
  BY <1>1, <1>3, <1>4, <1>5, Frozen DEF NameTyped

LEMMA TypeInit == Init => TypeInv
<1> SUFFICES ASSUME Init PROVE TypeInv
  OBVIOUS
<1>1. schema \in Seq(Module)
  BY SchemasAssumption DEF Init
<1>2. Len(schema) \in Nat
  BY <1>1
<1>3. todo = <<>> /\ Len(todo) = 0 /\ todo \in Seq(Work)
  BY DEF Init
<1>4. TodoTyped
  BY <1>3 DEF TodoTyped, TypedList
<1>5. DOMAIN name = {} /\ DOMAIN scope = {} /\ DOMAIN copies = {}
  BY DEF Init
<1>6. name \in [{} -> Symbols]
  BY <1>5 DEF Init
<1> QED
  BY <1>1, <1>2, <1>4, <1>5, <1>6 DEF Init, TypeInv, NameTyped, ScopeTyped

LEMMA ScopeKept ==
  ASSUME ScopeTyped, schema' = schema, scope' = scope,
         phase' = "resolve" => phase = "resolve" /\ current' = current
  PROVE  ScopeTyped'
<1>1. \A x : Elsewhere(x)' = Elsewhere(x)
  BY Frozen DEF Elsewhere
<1>2. \A x \in DOMAIN scope' : scope'[x] \in Elsewhere(x)'
  BY <1>1 DEF ScopeTyped
<1>3. ASSUME phase' = "resolve"
      PROVE  /\ current' \in DOMAIN schema'
             /\ (~ ImportsFail(current))' /\ (scope = ScopeOf(current))'
  BY <1>3, Frozen DEF ScopeTyped, ImportsFail, ScopeOf, Own
<1> QED
  BY <1>2, <1>3 DEF ScopeTyped

(* The item at hand.                                                       *)
LEMMA HeadFacts ==
  ASSUME TodoTyped, NEW op, Doing(op)
  PROVE  /\ todo # <<>> /\ Len(todo) \in Nat \ {0}
         /\ todo[1] \in Work /\ todo[1].op = op /\ todo[1].at = Here
         /\ Here \in Place
         /\ op \in {"assignment", "catch"} => Here \in Definitions
         /\ op = "node" => Here \in Nodes
         /\ op \in {"link", "copy"} => Here \in DOMAIN name
<1>1. todo # <<>> /\ todo \in Seq(Work)
  BY DEF Doing, TodoTyped, TypedList
<1>2. Len(todo) \in Nat \ {0} /\ Head(todo) = todo[1] /\ todo[1] \in Work
  BY <1>1
<1>3. Typed(todo[1], DOMAIN name)
  BY <1>2 DEF TodoTyped, TypedList
<1> QED
  BY <1>1, <1>2, <1>3 DEF Doing, Here, Typed, Work

(* The actual parameters of the node at hand, as work.                     *)
LEMMA ArgsFacts ==
  ASSUME schema \in Seq(Module), Here \in Nodes
  PROVE  /\ Args \in Seq(Work)
         /\ Len(Args) \in Nat
         /\ DOMAIN ArgNodes(Here) = 1 .. Len(Args)
         /\ \A k \in 1 .. Len(Args) :
              /\ Args[k] = [op |-> "node", at |-> ArgNodes(Here)[k]]
              /\ ArgNodes(Here)[k] \in Nodes
<1>1. ArgNodes(Here) \in Seq(Nodes)
  BY ArgFacts
<1>2. ArgNodes(Here) \in Seq(Place)
  BY <1>1, SeqMonotonic DEF Place
<1>3. "node" \in Operations
  BY DEF Operations
<1> QED
  BY <1>1, <1>2, <1>3, ItemsType DEF Args

LEMMA BodyFacts ==
  ASSUME schema \in Seq(Module), NEW d \in Definitions
  PROVE  /\ Items("node", BodyNodes(d)) \in Seq(Work)
         /\ Len(Items("node", BodyNodes(d))) = Len(BodyNodes(d))
         /\ \A k \in 1 .. Len(BodyNodes(d)) :
              /\ Items("node", BodyNodes(d))[k] = [op |-> "node", at |-> BodyNodes(d)[k]]
              /\ BodyNodes(d)[k] \in Nodes
<1>1. BodyNodes(d) \in Seq(Nodes)
  BY DefinitionFacts
<1>2. BodyNodes(d) \in Seq(Place)
  BY <1>1, SeqMonotonic DEF Place
<1>3. "node" \in Operations
  BY DEF Operations
<1> QED
  BY <1>1, <1>2, <1>3, ItemsType

LEMMA ArgsTyped ==
  ASSUME schema \in Seq(Module), Here \in Nodes, NEW bound
  PROVE  TypedList(Args, bound)
<1>1. ASSUME NEW k \in 1 .. Len(Args) PROVE Typed(Args[k], bound)
  <2>1. PICK n \in Nodes : Args[k] = [op |-> "node", at |-> n]
    BY ArgsFacts
  <2> QED
    BY <2>1 DEF Typed
<1> QED
  BY <1>1, ArgsFacts DEF TypedList

LEMMA BodyTyped ==
  ASSUME schema \in Seq(Module), NEW d \in Definitions, NEW bound
  PROVE  TypedList(Items("node", BodyNodes(d)), bound)
<1> DEFINE s == Items("node", BodyNodes(d))
<1>1. ASSUME NEW k \in 1 .. Len(s) PROVE Typed(s[k], bound)
  <2>1. PICK n \in Nodes : s[k] = [op |-> "node", at |-> n]
    BY BodyFacts
  <2> QED
    BY <2>1 DEF Typed
<1>2. s \in Seq(Work)
  BY BodyFacts
<1> QED
  BY <1>1, <1>2 DEF TypedList

LEMMA ItemTyped ==
  ASSUME NEW op \in Operations, NEW p \in Place, NEW bound,
         Typed([op |-> op, at |-> p], bound)
  PROVE  TypedList(Item(op, p), bound)
BY ItemType DEF TypedList

LEMMA NothingTyped == ASSUME NEW bound PROVE TypedList(<<>>, bound)
BY DEF TypedList

(* A name in scope has a definition, and one that can be bound to it.      *)
LEMMA TargetFacts ==
  ASSUME TypeInv, NEW x \in DOMAIN scope
  PROVE  /\ scope[x] \in Symbols /\ scope[x] \in Elsewhere(x)
         /\ DefinitionOf(scope[x]) \in Definitions
         /\ SymbolOf(DefinitionOf(scope[x])) = scope[x]
<1>1. scope[x] \in Elsewhere(x) /\ scope[x] \in Symbols
  BY DEF TypeInv, ScopeTyped, Elsewhere
<1> QED
  BY <1>1, DefinitionOfFacts DEF TypeInv

LEMMA NameKept ==
  ASSUME NameTyped, schema' = schema, name' = name
  PROVE  NameTyped'
BY Frozen DEF NameTyped, Elsewhere, NameAt, RefOf, Assigned

LEMMA TodoKept ==
  ASSUME TodoTyped, schema' = schema, name' = name, todo' = todo
  PROVE  TodoTyped'
BY Frozen DEF TodoTyped, TypedList, Typed

(* What the actions that bind a name and put x on the list preserve.       *)
LEMMA PushStep ==
  ASSUME TypeInv, todo # <<>>, schema' = schema, phase' = phase,
         current' = current, scope' = scope, error' = error,
         path' \subseteq Symbols, linked' \subseteq DOMAIN name',
         DOMAIN copies' \subseteq DOMAIN name', NameTyped',
         DOMAIN name \subseteq DOMAIN name',
         NEW x, TypedList(x, DOMAIN name'), todo' = x \o Rest
  PROVE  TypeInv'
<1>1. TodoTyped'
  BY PushTyped DEF TypeInv
<1>2. ScopeTyped'
  BY ScopeKept DEF TypeInv
<1> QED
  BY <1>1, <1>2, Frozen DEF TypeInv

LEMMA PopStep ==
  ASSUME TypeInv, todo # <<>>, schema' = schema, phase' = phase,
         current' = current, scope' = scope, error' = error,
         path' \subseteq Symbols, linked' \subseteq DOMAIN name',
         DOMAIN copies' \subseteq DOMAIN name', NameTyped',
         DOMAIN name \subseteq DOMAIN name', todo' = Rest
  PROVE  TypeInv'
<1>1. TodoTyped'
  BY PopTyped DEF TypeInv
<1>2. ScopeTyped'
  BY ScopeKept DEF TypeInv
<1> QED
  BY <1>1, <1>2, Frozen DEF TypeInv

LEMMA ThrowStep ==
  ASSUME TypeInv, phase = "resolve", todo # <<>>, NEW what, Throw(what),
         what \in {"undefined", "circular", "arity"},
         UNCHANGED <<schema, current, scope, path, linked, copies>>,
         NameTyped', DOMAIN name \subseteq DOMAIN name'
  PROVE  TypeInv'
<1>1. TodoTyped'
  BY DropTyped DEF TypeInv, Throw
<1>2. ScopeTyped'
  BY ScopeKept DEF TypeInv, Throw
<1>3. phase' \in {"resolve", "failed"}
  BY DEF Throw
<1> QED
  BY <1>1, <1>2, <1>3, Frozen DEF TypeInv, Throw

(* What the actions have in common that find a name in scope.              *)
LEMMA InScopeFacts ==
  ASSUME TypeInv, InScope, schema' = schema
  PROVE  /\ todo # <<>> /\ phase = "resolve" /\ Here \in Nodes /\ Here \notin DOMAIN name
         /\ NameTyped' /\ DOMAIN name' = DOMAIN name \cup {Here}
         /\ name'[Here] = Target
         /\ \A m \in DOMAIN name : name'[m] = name[m]
         /\ Target \in Symbols /\ DefinitionOf(Target) \in Definitions
<1>1. todo # <<>> /\ phase = "resolve" /\ Here \in Nodes /\ Here \notin DOMAIN name
  BY HeadFacts DEF InScope, Unnamed, Doing, TypeInv
<1>2. /\ scope[NameAt(Here)] \in Elsewhere(NameAt(Here))
      /\ Target \in Symbols /\ DefinitionOf(Target) \in Definitions
  BY TargetFacts DEF InScope, Target
<1>3. name' = Bound(name, Here, scope[NameAt(Here)])
  BY DEF InScope
<1> QED
  BY <1>1, <1>2, <1>3, BindTyped DEF TypeInv, Target

LEMMA StartModuleType == TypeInv /\ StartModule => TypeInv'
<1> SUFFICES ASSUME TypeInv, StartModule PROVE TypeInv'
  OBVIOUS
<1>1. /\ schema' = schema /\ current' = current /\ current \in DOMAIN schema
      /\ ~ ImportsFail(current) /\ phase' = "resolve" /\ path' = {}
      /\ UNCHANGED <<name, linked, copies, error>>
      /\ scope' = ScopeOf(current)
      /\ schema \in Seq(Module)
  BY DEF StartModule, TypeInv
<1>2. ScopeTyped'
  <2>1. \A x \in DOMAIN scope' : scope'[x] \in Symbols /\ scope'[x][2] = x
    BY <1>1, ScopeFacts
  <2>2. \A x \in DOMAIN scope' : scope'[x] \in Elsewhere(x)'
    BY <1>1, <2>1, Frozen DEF Elsewhere
  <2>3. DOMAIN scope' \subseteq Names
    BY <1>1, ScopeFacts
  <2>4. (~ ImportsFail(current))' /\ (scope = ScopeOf(current))'
    BY <1>1, Frozen DEF ImportsFail, ScopeOf, Own
  <2> QED
    BY <1>1, <2>2, <2>3, <2>4 DEF ScopeTyped
<1>3. TodoTyped'
  <2> DEFINE ds == [a \in DOMAIN schema[current].assigns |-> <<current, a>>]
  <2>1. schema[current].assigns \in Seq(Assignment)
    <3>1. schema[current] \in Module
      BY <1>1
    <3> QED
      BY <3>1 DEF Module
  <2>2. \A a \in DOMAIN schema[current].assigns : <<current, a>> \in Definitions
    BY <1>1 DEF Definitions
  <2>3. ds \in Seq(Definitions)
    <3>1. /\ DOMAIN schema[current].assigns = 1 .. Len(schema[current].assigns)
          /\ Len(schema[current].assigns) \in Nat
      BY <2>1
    <3> QED
      BY <2>2, <3>1
  <2> HIDE DEF ds
  <2>4. ds \in Seq(Place) /\ \A k \in DOMAIN ds : ds[k] \in Definitions
    BY <2>3, SeqMonotonic DEF Place
  <2>5. todo' = Items("assignment", ds)
    BY DEF StartModule, ds
  <2>6. "assignment" \in Operations
    BY DEF Operations
  <2>7. /\ todo' \in Seq(Work) /\ Len(todo') = Len(ds)
        /\ \A k \in DOMAIN ds : todo'[k] = [op |-> "assignment", at |-> ds[k]]
    BY <2>4, <2>5, <2>6, ItemsType
  <2>8. TypedList(todo', DOMAIN name')
    <3>1. ASSUME NEW k \in 1 .. Len(todo') PROVE Typed(todo'[k], DOMAIN name')
      <4>1. k \in DOMAIN ds
        BY <2>3, <2>7
      <4>2. todo'[k] = [op |-> "assignment", at |-> ds[k]] /\ ds[k] \in Definitions
        BY <2>4, <2>7, <4>1
      <4> QED
        BY <4>2 DEF Typed
    <3> QED
      BY <2>7, <3>1 DEF TypedList
  <2> QED
    BY <1>1, <2>8, FrozenTyped
<1>4. NameTyped'
  BY <1>1, NameKept DEF TypeInv
<1> QED
  BY <1>1, <1>2, <1>3, <1>4, Frozen DEF TypeInv

LEMMA TypeStep == TypeInv /\ [Next]_vars => TypeInv'
<1> SUFFICES ASSUME TypeInv, [Next]_vars PROVE TypeInv'
  OBVIOUS
<1>0. TodoTyped /\ schema \in Seq(Module)
  BY DEF TypeInv
<1>1. CASE StartModule
  BY <1>1, StartModuleType
<1>2. CASE BadImport
  BY <1>2, ScopeKept, NameKept, TodoKept, Frozen DEF BadImport, TypeInv
<1>3. CASE EndModule
  <2>1. current + 1 \in 1 .. Len(schema) + 1
    BY <1>3 DEF EndModule, ScopeTyped, TypeInv
  <2> QED
    BY <1>3, <2>1, ScopeKept, NameKept, TodoKept, Frozen DEF EndModule, TypeInv
<1>4. CASE Finish
  BY <1>4, ScopeKept, NameKept, TodoKept, Frozen DEF Finish, TypeInv
<1>5. CASE EnterAssignment
  <2> DEFINE end == IF IsParameterized(Here) THEN Item("catch", Here) ELSE <<>>
             body == Items("node", BodyNodes(Here))
  <2>1. Here \in Definitions /\ todo # <<>>
    BY <1>0, <1>5, HeadFacts DEF EnterAssignment
  <2>2. TypedList(end, DOMAIN name)
    <3>1. "catch" \in Operations /\ Here \in Place
      BY <2>1 DEF Operations, Place
    <3>2. TypedList(Item("catch", Here), DOMAIN name)
      BY <2>1, <3>1, ItemTyped DEF Typed
    <3> QED
      BY <3>2, NothingTyped
  <2>3. TypedList(body, DOMAIN name)
    BY <1>0, <2>1, BodyTyped
  <2>4. /\ todo' = body \o end \o Rest
        /\ UNCHANGED <<schema, phase, current, scope, path, name, linked, copies, error>>
    BY <1>5 DEF EnterAssignment
  <2> HIDE DEF body, end
  <2>5. TypedList(body \o end, DOMAIN name')
    BY <2>2, <2>3, <2>4, JoinTyped
  <2> QED
    BY <2>1, <2>4, <2>5, PushStep, NameKept DEF TypeInv
<1>6. CASE LeaveTry
  BY <1>0, <1>6, HeadFacts, PopStep, NameKept DEF LeaveTry, TypeInv
<1>7. CASE SkipNamed
  BY <1>0, <1>7, HeadFacts, PopStep, NameKept DEF SkipNamed, TypeInv
<1>8. CASE SkipPrimitive
  <2>1. todo # <<>> /\ Here \in Nodes
    BY <1>0, <1>8, HeadFacts DEF SkipPrimitive, Unnamed
  <2>2. /\ todo' = Args \o Rest
        /\ UNCHANGED <<schema, phase, current, scope, path, name, linked, copies, error>>
    BY <1>8 DEF SkipPrimitive
  <2>3. TypedList(Args, DOMAIN name')
    BY <1>0, <2>1, ArgsTyped
  <2> QED
    BY <2>1, <2>2, <2>3, PushStep, NameKept DEF TypeInv
<1>9. CASE BindElsewhere
  <2>1. todo # <<>> /\ Here \in Nodes
    BY <1>0, <1>9, HeadFacts DEF BindElsewhere, Unnamed
  <2>2. /\ todo' = Args \o Rest
        /\ UNCHANGED <<schema, phase, current, scope, path, linked, copies, error>>
    BY <1>9 DEF BindElsewhere
  <2>3. PICK s \in Elsewhere(NameAt(Here)) : name' = Bound(name, Here, s)
    BY <1>9 DEF BindElsewhere
  <2>4. NameTyped' /\ DOMAIN name \subseteq DOMAIN name'
    BY <2>1, <2>2, <2>3, BindTyped DEF TypeInv
  <2>5. TypedList(Args, DOMAIN name')
    BY <1>0, <2>1, ArgsTyped
  <2> QED
    BY <2>1, <2>2, <2>4, <2>5, PushStep DEF TypeInv
<1>10. CASE UndefinedName
  <2>1. todo # <<>> /\ phase = "resolve"
    BY <1>0, <1>10, HeadFacts DEF UndefinedName, Unnamed, Doing
  <2>2. NameTyped'
    BY <1>10, NameKept DEF UndefinedName, TypeInv
  <2> QED
    BY <1>10, <2>1, <2>2, ThrowStep DEF UndefinedName
<1>11. CASE Follow
  <2> DEFINE d == DefinitionOf(Target)
  <2>1. /\ todo' = Item("assignment", d) \o Item("link", Here) \o Args \o Rest
        /\ path' = path \cup {Target} /\ InScope
        /\ UNCHANGED <<schema, phase, current, scope, linked, copies, error>>
    BY <1>11 DEF Follow
  <2>2. /\ todo # <<>> /\ Here \in Nodes /\ NameTyped'
        /\ DOMAIN name' = DOMAIN name \cup {Here} /\ Target \in Symbols
        /\ d \in Definitions
    BY <2>1, InScopeFacts
  <2> HIDE DEF d
  <2>3. TypedList(Item("assignment", d), DOMAIN name')
    BY <2>2, ItemTyped DEF Operations, Place, Typed
  <2>4. TypedList(Item("link", Here), DOMAIN name')
    BY <2>2, ItemTyped DEF Operations, Place, Typed
  <2>5. TypedList(Args, DOMAIN name')
    BY <1>0, <2>2, ArgsTyped
  <2>6. TypedList(Item("assignment", d) \o Item("link", Here) \o Args, DOMAIN name')
    BY <2>3, <2>4, <2>5, JoinTyped
  <2>7. path' \subseteq Symbols
    BY <2>1, <2>2 DEF TypeInv
  <2> QED
    BY <2>1, <2>2, <2>6, <2>7, PushStep DEF TypeInv
<1>12. CASE CircularName
  <2>1. /\ InScope /\ Throw("circular")
        /\ UNCHANGED <<schema, current, scope, path, linked, copies>>
    BY <1>12 DEF CircularName
  <2> QED
    BY <2>1, InScopeFacts, ThrowStep
<1>13. CASE Link
  <2>1. todo # <<>> /\ Here \in DOMAIN name
    BY <1>0, <1>13, HeadFacts DEF Link
  <2> QED
    BY <1>13, <2>1, PopStep, NameKept DEF Link, TypeInv
<1>14. CASE Instantiate
  <2>1. /\ todo' = Args \o Item("copy", Here) \o Args \o Rest /\ InScope
        /\ UNCHANGED <<schema, phase, current, scope, path, linked, copies, error>>
    BY <1>14 DEF Instantiate
  <2>2. /\ todo # <<>> /\ Here \in Nodes /\ NameTyped'
        /\ DOMAIN name' = DOMAIN name \cup {Here}
    BY <2>1, InScopeFacts
  <2>3. TypedList(Item("copy", Here), DOMAIN name')
    BY <2>2, ItemTyped DEF Operations, Place, Typed
  <2>4. TypedList(Args, DOMAIN name')
    BY <1>0, <2>2, ArgsTyped
  <2>5. TypedList(Args \o Item("copy", Here) \o Args, DOMAIN name')
    BY <2>3, <2>4, JoinTyped
  <2> QED
    BY <2>1, <2>2, <2>5, PushStep DEF TypeInv
<1>15. CASE WrongArity
  <2>1. /\ InScope /\ Throw("arity")
        /\ UNCHANGED <<schema, current, scope, path, linked, copies>>
    BY <1>15 DEF WrongArity
  <2> QED
    BY <2>1, InScopeFacts, ThrowStep
<1>16. CASE CopyBody
  <2>1. todo # <<>> /\ Here \in DOMAIN name
    BY <1>0, <1>16, HeadFacts DEF CopyBody
  <2>2. DOMAIN copies' = DOMAIN copies \cup {Here}
    BY <1>16 DEF CopyBody, Bound
  <2> QED
    BY <1>16, <2>1, <2>2, PopStep, NameKept DEF CopyBody, TypeInv
<1>17. CASE BindField
  <2>1. todo # <<>> /\ Here \in Nodes
    BY <1>0, <1>17, HeadFacts DEF BindField, FieldReference
  <2>2. scope[NameAt(Here)] \in Elsewhere(NameAt(Here))
    BY <1>17, TargetFacts DEF BindField, FieldIsKnown
  <2>3. NameTyped' /\ DOMAIN name \subseteq DOMAIN name'
    BY <1>17, <2>1, <2>2, BindTyped DEF BindField, TypeInv
  <2> QED
    BY <1>17, <2>1, <2>3, PopStep DEF BindField, TypeInv
<1>18. CASE UndefinedField
  <2>1. todo # <<>> /\ phase = "resolve"
    BY <1>0, <1>18, HeadFacts DEF UndefinedField, FieldReference, Doing
  <2>2. NameTyped'
    BY <1>18, NameKept DEF UndefinedField, TypeInv
  <2> QED
    BY <1>18, <2>1, <2>2, ThrowStep DEF UndefinedField
<1>19. CASE UNCHANGED vars
  BY <1>19, ScopeKept, NameKept, TodoKept, Frozen DEF vars, TypeInv
<1> QED
  BY <1>1, <1>2, <1>3, <1>4, <1>5, <1>6, <1>7, <1>8, <1>9, <1>10, <1>11, <1>12,
     <1>13, <1>14, <1>15, <1>16, <1>17, <1>18, <1>19 DEF Next

LEMMA TypeInvImpliesTypeOK == TypeInv => TypeOK
<1> SUFFICES ASSUME TypeInv PROVE TypeOK
  OBVIOUS
<1>1. Range(scope) \subseteq Symbols /\ Range(name) \subseteq Symbols
  BY DEF TypeInv, ScopeTyped, NameTyped, Range, Elsewhere
<1>2. \A k \in DOMAIN todo :
        /\ todo[k].op \in Operations
        /\ todo[k].at \in IF todo[k].op \in {"assignment", "catch"} THEN Definitions ELSE Nodes
  <2> TAKE k \in DOMAIN todo
  <2>1. todo \in Seq(Work) /\ k \in 1 .. Len(todo) /\ Typed(todo[k], DOMAIN name)
    BY DEF TypeInv, TodoTyped, TypedList
  <2>2. todo[k].op \in Operations
    <3>1. todo[k] \in Work
      BY <2>1
    <3> QED
      BY <3>1 DEF Work
  <2> QED
    BY <2>1, <2>2 DEF Typed, Operations, TypeInv, NameTyped
<1> QED
  BY <1>1, <1>2 DEF TypeInv, TypeOK, ScopeTyped, NameTyped

LEMMA TypeInvariant == Spec => []TypeInv
BY TypeInit, TypeStep, PTL DEF Spec

(* Every state of resolution is well typed.                                *)
THEOREM TypeCorrect == Spec => []TypeOK
BY TypeInvariant, TypeInvImpliesTypeOK, PTL

-----------------------------------------------------------------------------
(* RecursionIsBounded: the calls on the list that wait to return have      *)
(* bound different definitions, all of them in resolution_path.            *)

OpsIn(s, ops) == \A k \in 1 .. Len(s) : s[k].op \in ops

LEMMA JoinOps ==
  ASSUME NEW ops, NEW a \in Seq(Work), OpsIn(a, ops), NEW b \in Seq(Work), OpsIn(b, ops)
  PROVE  a \o b \in Seq(Work) /\ OpsIn(a \o b, ops)
<1>1. /\ a \o b \in Seq(Work)
      /\ \A k \in 1 .. Len(a) : (a \o b)[k] = a[k]
      /\ \A k \in 1 .. Len(b) : (a \o b)[Len(a) + k] = b[k]
      /\ \A k \in 1 .. Len(a \o b) :
           \/ k \in 1 .. Len(a)
           \/ \E j \in 1 .. Len(b) : k = Len(a) + j
  <2>1. a \in Seq(Work) /\ b \in Seq(Work)
    OBVIOUS
  <2>2. /\ a \o b \in Seq(Work)
        /\ \A k \in 1 .. Len(a) : (a \o b)[k] = a[k]
        /\ \A k \in 1 .. Len(b) : (a \o b)[Len(a) + k] = b[k]
    BY <2>1, TwoLists
  <2>3. \A k \in 1 .. Len(a \o b) :
           \/ k \in 1 .. Len(a)
           \/ \E j \in 1 .. Len(b) : k = Len(a) + j
    BY <2>1, TwoLists
  <2> QED
    BY <2>2, <2>3
<1>2. ASSUME NEW k \in 1 .. Len(a \o b) PROVE (a \o b)[k].op \in ops
  <2>1. CASE k \in 1 .. Len(a)
    BY <1>1, <2>1 DEF OpsIn
  <2>2. ASSUME NEW j \in 1 .. Len(b), k = Len(a) + j
        PROVE  (a \o b)[k].op \in ops
    BY <1>1, <2>2 DEF OpsIn
  <2> QED
    BY <1>1, <2>1, <2>2
<1> QED
  BY <1>1, <1>2 DEF OpsIn

LEMMA ArgsOps ==
  ASSUME schema \in Seq(Module), Here \in Nodes
  PROVE  Args \in Seq(Work) /\ OpsIn(Args, {"node"})
<1>1. ASSUME NEW k \in 1 .. Len(Args) PROVE Args[k].op = "node"
  <2>1. Args[k] = [op |-> "node", at |-> ArgNodes(Here)[k]]
    BY ArgsFacts
  <2> QED
    BY <2>1
<1>2. Args \in Seq(Work)
  BY ArgsFacts
<1> QED
  BY <1>1, <1>2 DEF OpsIn

LEMMA BodyOps ==
  ASSUME schema \in Seq(Module), NEW d \in Definitions
  PROVE  /\ Items("node", BodyNodes(d)) \in Seq(Work)
         /\ OpsIn(Items("node", BodyNodes(d)), {"node"})
<1> DEFINE s == Items("node", BodyNodes(d))
<1>1. ASSUME NEW k \in 1 .. Len(s) PROVE s[k].op = "node"
  <2>1. s[k] = [op |-> "node", at |-> BodyNodes(d)[k]]
    BY BodyFacts
  <2> QED
    BY <2>1
<1>2. s \in Seq(Work)
  BY BodyFacts
<1> HIDE DEF s
<1>3. OpsIn(s, {"node"})
  BY <1>1 DEF OpsIn
<1> QED
  BY <1>2, <1>3 DEF s

LEMMA ItemOps ==
  ASSUME NEW op \in Operations, NEW p \in Place
  PROVE  Item(op, p) \in Seq(Work) /\ OpsIn(Item(op, p), {op})
<1>1. /\ Item(op, p) \in Seq(Work) /\ Len(Item(op, p)) = 1
      /\ Item(op, p)[1] = [op |-> op, at |-> p]
  BY ItemType
<1>2. \A k \in 1 .. 1 : k = 1
  OBVIOUS
<1> QED
  BY <1>1, <1>2 DEF OpsIn

(* Steps that add no call and end none.                                    *)
Moved(c) ==
  \A k \in 1 .. Len(todo') : todo'[k].op = "link" =>
    k + c \in 1 .. Len(todo) /\ todo'[k] = todo[k + c]

LEMMA LinksKept ==
  ASSUME TypeInv, TypeInv', RecursionIsBounded, NEW c \in Int, Moved(c),
         path' = path \/ \A k \in 1 .. Len(todo') : todo'[k].op # "link",
         \A n \in DOMAIN name : name'[n] = name[n]
  PROVE  RecursionIsBounded'
<1>1. /\ DOMAIN todo = 1 .. Len(todo) /\ DOMAIN todo' = 1 .. Len(todo')
      /\ Len(todo) \in Nat /\ Len(todo') \in Nat
  BY DEF TypeInv, TodoTyped, TypedList
<1>2. ASSUME NEW k \in Pending'
      PROVE  /\ k \in Int /\ k + c \in Pending /\ todo'[k] = todo[k + c]
             /\ todo'[k].at \in DOMAIN name /\ name'[todo'[k].at] = name[todo[k + c].at]
             /\ todo'[k].at \in DOMAIN name' /\ path' = path
  <2>1. k \in 1 .. Len(todo') /\ todo'[k].op = "link"
    BY <1>1 DEF Pending
  <2>2. k + c \in 1 .. Len(todo) /\ todo'[k] = todo[k + c]
    BY <2>1 DEF Moved
  <2>3. k + c \in Pending
    BY <1>1, <2>1, <2>2 DEF Pending
  <2>4. todo[k + c].at \in DOMAIN name
    BY <2>3 DEF RecursionIsBounded
  <2>5. Typed(todo[k], DOMAIN name)'
    BY <2>1 DEF TypeInv, TodoTyped, TypedList
  <2>6. todo'[k].at \in DOMAIN name'
    BY <2>1, <2>5 DEF Typed
  <2> QED
    BY <2>1, <2>2, <2>3, <2>4, <2>6
<1>3. ASSUME NEW j \in Pending', NEW k \in Pending', name'[todo'[j].at] = name'[todo'[k].at]
      PROVE  j = k
  <2>1. j + c = k + c
    BY <1>2, <1>3 DEF RecursionIsBounded
  <2> QED
    BY <1>2, <2>1
<1>4. ASSUME NEW k \in Pending'
      PROVE  todo'[k].at \in DOMAIN name' /\ name'[todo'[k].at] \in path'
  BY <1>2 DEF RecursionIsBounded
<1> QED
  BY <1>3, <1>4 DEF RecursionIsBounded

LEMMA PushMoved ==
  ASSUME todo \in Seq(Work), todo # <<>>, NEW x \in Seq(Work), todo' = x \o Rest,
         OpsIn(x, Operations \ {"link"})
  PROVE  1 - Len(x) \in Int /\ Moved(1 - Len(x))
<1>1. todo' \in Seq(Work) /\ Pushed(x)
  BY PushFacts
<1>2. Len(x) \in Nat /\ Len(todo) \in Nat \ {0}
  OBVIOUS
<1>3. ASSUME NEW k \in 1 .. Len(todo'), todo'[k].op = "link"
      PROVE  k + (1 - Len(x)) \in 1 .. Len(todo) /\ todo'[k] = todo[k + (1 - Len(x))]
  <2>1. k > Len(x)
    BY <1>1, <1>2, <1>3 DEF Pushed, OpsIn
  <2>2. k - Len(x) \in 1 .. Len(todo) - 1 /\ k = Len(x) + (k - Len(x))
    BY <1>1, <1>2, <2>1 DEF Pushed
  <2>3. todo'[k] = todo[(k - Len(x)) + 1]
    BY <1>1, <2>2 DEF Pushed
  <2> QED
    BY <1>2, <2>2, <2>3
<1> QED
  BY <1>2, <1>3 DEF Moved

LEMMA PopMoved ==
  ASSUME todo \in Seq(Work), todo # <<>>, todo' = Rest
  PROVE  /\ Moved(1) /\ Len(todo') = Len(todo) - 1
         /\ \A k \in 1 .. Len(todo') : k + 1 \in 1 .. Len(todo) /\ todo'[k] = todo[k + 1]
<1>1. /\ todo' \in Seq(Work) /\ Len(todo') = Len(todo) - 1
      /\ \A k \in 1 .. Len(todo') : todo'[k] = todo[k + 1]
  BY HeadTailProperties DEF Rest
<1>2. Len(todo) \in Nat
  OBVIOUS
<1> QED
  BY <1>1, <1>2 DEF Moved

LEMMA DropMoved ==
  ASSUME todo \in Seq(Work), todo # <<>>, todo' = AfterCatch
  PROVE  \E c \in Int : Moved(c)
<1>1. PICK c \in 1 .. Len(todo) : Dropped(c)
  BY DropFacts
<1>2. Len(todo) \in Nat
  OBVIOUS
<1>3. ASSUME NEW k \in 1 .. Len(todo')
      PROVE  k + c \in 1 .. Len(todo) /\ todo'[k] = todo[k + c]
  BY <1>1, <1>2 DEF Dropped
<1>4. Moved(c)
  BY <1>3 DEF Moved
<1> QED
  BY <1>2, <1>4

LEMMA BoundedStep == TypeInv /\ RecursionIsBounded /\ [Next]_vars => RecursionIsBounded'
<1> SUFFICES ASSUME TypeInv, RecursionIsBounded, [Next]_vars, TypeInv'
             PROVE  RecursionIsBounded'
  BY TypeStep
<1>0. TodoTyped /\ schema \in Seq(Module) /\ todo \in Seq(Work)
  BY DEF TypeInv, TodoTyped, TypedList
<1>1. CASE StartModule
  <2> DEFINE ds == [a \in DOMAIN schema[current].assigns |-> <<current, a>>]
  <2>1. todo' = Items("assignment", ds) /\ name' = name
    BY <1>1 DEF StartModule
  <2>2. \A k \in DOMAIN todo' : todo'[k].op # "link"
    BY <2>1 DEF Items
  <2>3. \A k \in 1 .. Len(todo') : todo'[k].op # "link"
    BY <2>2 DEF TypeInv, TodoTyped, TypedList
  <2> QED
    BY <2>1, <2>3, LinksKept DEF Moved
<1>2. CASE BadImport \/ EndModule \/ Finish \/ UNCHANGED vars
  <2>1. todo' = todo /\ path' = path /\ name' = name
    BY <1>2 DEF BadImport, EndModule, Finish, vars
  <2> QED
    BY <2>1 DEF RecursionIsBounded, Pending
<1>3. CASE EnterAssignment
  <2> DEFINE end == IF IsParameterized(Here) THEN Item("catch", Here) ELSE <<>>
             body == Items("node", BodyNodes(Here))
             ops == Operations \ {"link"}
  <2>1. Here \in Definitions /\ Here \in Place /\ todo # <<>>
    BY <1>0, <1>3, HeadFacts DEF EnterAssignment
  <2>2. end \in Seq(Work) /\ OpsIn(end, ops)
    BY <2>1, ItemOps DEF OpsIn, Operations
  <2>3. body \in Seq(Work) /\ OpsIn(body, ops)
    BY <1>0, <2>1, BodyOps DEF OpsIn, Operations
  <2>4. todo' = body \o end \o Rest /\ path' = path /\ name' = name
    BY <1>3 DEF EnterAssignment
  <2> HIDE DEF body, end
  <2>5. body \o end \in Seq(Work) /\ OpsIn(body \o end, ops)
    BY <2>2, <2>3, JoinOps
  <2> QED
    BY <1>0, <2>1, <2>4, <2>5, PushMoved, LinksKept
<1>4. CASE LeaveTry \/ SkipNamed \/ CopyBody \/ BindField
  <2>1. todo # <<>> /\ todo' = Rest /\ path' = path
    BY <1>0, <1>4, HeadFacts DEF LeaveTry, SkipNamed, CopyBody, BindField, FieldReference
  <2>2. \A n \in DOMAIN name : name'[n] = name[n]
    BY <1>4 DEF LeaveTry, SkipNamed, CopyBody, BindField, FieldReference, Bound
  <2> QED
    BY <1>0, <2>1, <2>2, PopMoved, LinksKept
<1>5. CASE SkipPrimitive \/ BindElsewhere
  <2>1. todo # <<>> /\ todo' = Args \o Rest /\ path' = path /\ Here \in Nodes
    BY <1>0, <1>5, HeadFacts DEF SkipPrimitive, BindElsewhere, Unnamed
  <2>2. \A n \in DOMAIN name : name'[n] = name[n]
    BY <1>5 DEF SkipPrimitive, BindElsewhere, Unnamed, Bound
  <2>3. Args \in Seq(Work) /\ OpsIn(Args, Operations \ {"link"})
    BY <1>0, <2>1, ArgsOps DEF OpsIn, Operations
  <2> QED
    BY <1>0, <2>1, <2>2, <2>3, PushMoved, LinksKept
<1>6. CASE UndefinedName \/ UndefinedField \/ CircularName \/ WrongArity
  <2>1. todo # <<>> /\ todo' = AfterCatch /\ path' = path
    BY <1>0, <1>6, HeadFacts
    DEF UndefinedName, UndefinedField, CircularName, WrongArity, InScope, Unnamed,
        FieldReference, Throw
  <2>2. \A n \in DOMAIN name : name'[n] = name[n]
    BY <1>6 DEF UndefinedName, UndefinedField, CircularName, WrongArity, InScope,
                Unnamed, Bound
  <2> QED
    BY <1>0, <2>1, <2>2, DropMoved, LinksKept
<1>7. CASE Follow
  <2> DEFINE d == DefinitionOf(Target)
             a == Item("assignment", d)
             b == Item("link", Here)
  <2>1. /\ todo' = a \o b \o Args \o Rest /\ InScope
        /\ Target \notin path /\ path' = path \cup {Target} /\ schema' = schema
    BY <1>7 DEF Follow
  <2>2. /\ todo # <<>> /\ Here \in Nodes /\ Here \notin DOMAIN name
        /\ d \in Definitions /\ DOMAIN name' = DOMAIN name \cup {Here}
        /\ name'[Here] = Target /\ \A m \in DOMAIN name : name'[m] = name[m]
    BY <2>1, InScopeFacts
  <2>3. /\ a \in Seq(Work) /\ Len(a) = 1 /\ a[1].op = "assignment"
        /\ b \in Seq(Work) /\ Len(b) = 1 /\ b[1] = [op |-> "link", at |-> Here]
    <3> HIDE DEF d
    <3>1. {"assignment", "link"} \subseteq Operations /\ d \in Place /\ Here \in Place
      BY <2>2 DEF Operations, Place
    <3>2. /\ a \in Seq(Work) /\ Len(a) = 1 /\ a[1] = [op |-> "assignment", at |-> d]
          /\ b \in Seq(Work) /\ Len(b) = 1 /\ b[1] = [op |-> "link", at |-> Here]
      BY <3>1, ItemType
    <3> QED
      BY <3>2
  <2>4. Args \in Seq(Work) /\ Len(Args) \in Nat /\ OpsIn(Args, {"node"})
    BY <1>0, <2>2, ArgsOps
  <2> HIDE DEF a, b, d
  <2> DEFINE x == a \o b \o Args
  <2>5. /\ x \in Seq(Work) /\ Len(x) = 2 + Len(Args)
        /\ x[1].op = "assignment" /\ x[2] = [op |-> "link", at |-> Here]
        /\ \A k \in 1 .. Len(Args) : x[2 + k].op = "node"
    <3>1. /\ x \in Seq(Work) /\ Len(x) = Len(a) + Len(b) + Len(Args)
          /\ \A k \in 1 .. Len(a) : x[k] = a[k]
          /\ \A k \in 1 .. Len(b) : x[Len(a) + k] = b[k]
          /\ \A k \in 1 .. Len(Args) : x[Len(a) + Len(b) + k] = Args[k]
      <4>1. a \in Seq(Work) /\ b \in Seq(Work) /\ Args \in Seq(Work)
        BY <2>3, <2>4
      <4>2. x \in Seq(Work) /\ Joined(x, a, b, Args)
        BY <4>1, ThreeLists
      <4> QED
        BY <4>2 DEF Joined
    <3> QED
      BY <2>3, <2>4, <3>1 DEF OpsIn
  <2>6. todo' \in Seq(Work) /\ Pushed(x)
    BY <1>0, <2>1, <2>2, <2>5, PushFacts
  <2> HIDE DEF x
  <2>7. Len(todo) \in Nat \ {0} /\ DOMAIN todo = 1 .. Len(todo) /\ DOMAIN todo' = 1 .. Len(todo')
    BY <1>0, <2>2, <2>6
  <2> DEFINE c == 1 - Len(x)
  <2>8. ASSUME NEW k \in Pending', k # 2
        PROVE  k + c \in Pending /\ todo'[k] = todo[k + c]
    <3>1. k \in 1 .. Len(todo') /\ todo'[k].op = "link"
      BY <2>7, <2>8 DEF Pending
    <3>2. k > Len(x)
      <4>1. CASE k = 1
        BY <2>4, <2>5, <2>6, <3>1, <4>1 DEF Pushed
      <4>2. CASE k > 2 /\ k <= Len(x)
        <5>1. k - 2 \in 1 .. Len(Args) /\ k = 2 + (k - 2) /\ k \in 1 .. Len(x)
          BY <2>4, <2>5, <3>1, <4>2
        <5>2. x[k].op = "node" /\ todo'[k] = x[k]
          BY <2>5, <2>6, <5>1 DEF Pushed
        <5> QED
          BY <3>1, <5>2
      <4> QED
        BY <2>4, <2>5, <2>8, <3>1, <4>1, <4>2
    <3>3. k - Len(x) \in 1 .. Len(todo) - 1 /\ k = Len(x) + (k - Len(x))
      BY <2>4, <2>5, <2>6, <2>7, <3>1, <3>2 DEF Pushed
    <3>4. todo'[k] = todo[(k - Len(x)) + 1]
      BY <2>6, <3>3 DEF Pushed
    <3>5. (k - Len(x)) + 1 = k + c /\ k + c \in 1 .. Len(todo)
      BY <2>4, <2>5, <2>7, <3>1, <3>3
    <3> QED
      BY <2>7, <3>1, <3>4, <3>5 DEF Pending
  <2>9. 2 \in Pending' => todo'[2].at = Here
    BY <2>4, <2>5, <2>6 DEF Pushed
  <2>10. ASSUME NEW k \in Pending', k # 2
         PROVE  /\ todo'[k].at \in DOMAIN name /\ name'[todo'[k].at] = name[todo[k + c].at]
                /\ name'[todo'[k].at] \in path
    <3>1. todo[k + c].at \in DOMAIN name /\ name[todo[k + c].at] \in path
      BY <2>8, <2>10 DEF RecursionIsBounded
    <3> QED
      BY <2>2, <2>8, <2>10, <3>1
  <2>11. ASSUME NEW j \in Pending', NEW k \in Pending', name'[todo'[j].at] = name'[todo'[k].at]
         PROVE  j = k
    <3>1. CASE j # 2 /\ k # 2
      <4>1. j + c = k + c
        BY <2>8, <2>10, <2>11, <3>1 DEF RecursionIsBounded
      <4>2. j \in Int /\ k \in Int /\ c \in Int
        BY <2>4, <2>5, <2>7 DEF Pending
      <4> QED
        BY <4>1, <4>2
    <3>2. CASE j = 2 /\ k # 2
      BY <2>1, <2>2, <2>9, <2>10, <2>11, <3>2
    <3>3. CASE j # 2 /\ k = 2
      BY <2>1, <2>2, <2>9, <2>10, <2>11, <3>3
    <3> QED
      BY <3>1, <3>2, <3>3
  <2>12. ASSUME NEW k \in Pending'
         PROVE  todo'[k].at \in DOMAIN name' /\ name'[todo'[k].at] \in path'
    BY <2>1, <2>2, <2>9, <2>10
  <2> QED
    BY <2>11, <2>12 DEF RecursionIsBounded
<1>8. CASE Link
  <2>1. /\ todo # <<>> /\ todo[1].op = "link" /\ todo[1].at = Here /\ todo' = Rest
        /\ name' = name /\ path' = path \ {name[Here]}
    BY <1>0, <1>8, HeadFacts DEF Link
  <2>2. /\ Len(todo) \in Nat \ {0} /\ Len(todo') = Len(todo) - 1
        /\ DOMAIN todo = 1 .. Len(todo) /\ DOMAIN todo' = 1 .. Len(todo')
        /\ \A k \in 1 .. Len(todo') : k + 1 \in 1 .. Len(todo) /\ todo'[k] = todo[k + 1]
    BY <1>0, <2>1, PopMoved DEF TypeInv, TodoTyped, TypedList
  <2>3. 1 \in Pending
    BY <2>1, <2>2 DEF Pending
  <2>4. \A k \in Pending' : k \in Nat \ {0} /\ k + 1 \in Pending /\ todo'[k] = todo[k + 1]
    BY <2>2 DEF Pending
  <2>5. ASSUME NEW k \in Pending'
        PROVE  todo'[k].at \in DOMAIN name' /\ name'[todo'[k].at] \in path'
    <3>1. todo[k + 1].at \in DOMAIN name /\ name[todo[k + 1].at] \in path
      BY <2>4 DEF RecursionIsBounded
    <3>2. name[todo[k + 1].at] # name[todo[1].at]
      <4>1. k + 1 # 1
        BY <2>4
      <4> QED
        BY <2>3, <2>4, <4>1 DEF RecursionIsBounded
    <3> QED
      BY <2>1, <2>4, <3>1, <3>2
  <2>6. ASSUME NEW j \in Pending', NEW k \in Pending', name'[todo'[j].at] = name'[todo'[k].at]
        PROVE  j = k
    <3>1. j + 1 = k + 1
      BY <2>1, <2>4, <2>6 DEF RecursionIsBounded
    <3> QED
      BY <2>4, <3>1
  <2> QED
    BY <2>5, <2>6 DEF RecursionIsBounded
<1>9. CASE Instantiate
  <2> DEFINE b == Item("copy", Here)
             ops == Operations \ {"link"}
  <2>1. todo' = Args \o b \o Args \o Rest /\ InScope /\ path' = path /\ schema' = schema
    BY <1>9 DEF Instantiate
  <2>2. /\ todo # <<>> /\ Here \in Nodes /\ \A m \in DOMAIN name : name'[m] = name[m]
    BY <2>1, InScopeFacts
  <2>3. b \in Seq(Work) /\ OpsIn(b, ops)
    BY <2>2, ItemOps DEF OpsIn, Operations, Place
  <2>4. Args \in Seq(Work) /\ OpsIn(Args, ops)
    BY <1>0, <2>2, ArgsOps DEF OpsIn, Operations
  <2> HIDE DEF b, ops
  <2>5. Args \o b \o Args \in Seq(Work) /\ OpsIn(Args \o b \o Args, ops)
    BY <2>3, <2>4, JoinOps
  <2> QED
    BY <1>0, <2>1, <2>2, <2>5, PushMoved, LinksKept DEF ops
<1> QED
  BY <1>1, <1>2, <1>3, <1>4, <1>5, <1>6, <1>7, <1>8, <1>9 DEF Next

(* Whatever refers to whatever, the calls that are being made are for      *)
(* different definitions and their symbols are in resolution_path, so the  *)
(* recursion is no deeper than there are definitions.                      *)
THEOREM RecursionBounded == Spec => []RecursionIsBounded
<1>1. Init => RecursionIsBounded
  BY DEF Init, RecursionIsBounded, Pending
<1> QED
  BY <1>1, TypeInvariant, BoundedStep, PTL DEF Spec

-----------------------------------------------------------------------------
(* Where the items of the list are after a step.                           *)

LEMMA PushedAt ==
  ASSUME todo \in Seq(Work), todo # <<>>, NEW x \in Seq(Work), Pushed(x)
  PROVE  /\ \A k \in 2 .. Len(todo) :
              /\ Len(x) + (k - 1) \in 1 .. Len(todo')
              /\ todo'[Len(x) + (k - 1)] = todo[k]
         /\ \A j \in 1 .. Len(x) : j \in 1 .. Len(todo') /\ todo'[j] = x[j]
         /\ \A j \in 1 .. Len(todo') :
              \/ j \in 1 .. Len(x) /\ todo'[j] = x[j]
              \/ \E k \in 2 .. Len(todo) : j = Len(x) + (k - 1) /\ todo'[j] = todo[k]
<1>1. Len(todo) \in Nat \ {0} /\ Len(x) \in Nat
  OBVIOUS
<1>2. Len(todo') = Len(x) + Len(todo) - 1
  BY DEF Pushed
<1>3. ASSUME NEW k \in 2 .. Len(todo)
      PROVE  Len(x) + (k - 1) \in 1 .. Len(todo') /\ todo'[Len(x) + (k - 1)] = todo[k]
  <2>1. k - 1 \in 1 .. Len(todo) - 1 /\ (k - 1) + 1 = k
    BY <1>1
  <2>2. \A i \in 1 .. Len(todo) - 1 : todo'[Len(x) + i] = todo[i + 1]
    BY DEF Pushed
  <2>3. todo'[Len(x) + (k - 1)] = todo[(k - 1) + 1]
    BY <2>1, <2>2
  <2> QED
    BY <1>1, <1>2, <2>1, <2>3
<1>4. \A j \in 1 .. Len(x) : j \in 1 .. Len(todo') /\ todo'[j] = x[j]
  BY <1>1, <1>2 DEF Pushed
<1>5. ASSUME NEW j \in 1 .. Len(todo'), j \notin 1 .. Len(x)
      PROVE  \E k \in 2 .. Len(todo) : j = Len(x) + (k - 1) /\ todo'[j] = todo[k]
  <2>1. /\ (j - Len(x)) + 1 \in 2 .. Len(todo)
        /\ j = Len(x) + (((j - Len(x)) + 1) - 1)
    BY <1>1, <1>2, <1>5
  <2> QED
    BY <1>3, <2>1
<1> QED
  BY <1>3, <1>4, <1>5

LEMMA DroppedAt ==
  ASSUME todo \in Seq(Work), todo # <<>>, NEW c \in 1 .. Len(todo), Dropped(c)
  PROVE  /\ \A k \in c + 1 .. Len(todo) :
              k - c \in 1 .. Len(todo') /\ todo'[k - c] = todo[k]
         /\ \A j \in 1 .. Len(todo') :
              \E k \in c + 1 .. Len(todo) : j = k - c /\ todo'[j] = todo[k]
<1>1. Len(todo) \in Nat \ {0} /\ Len(todo') = Len(todo) - c
  BY DEF Dropped
<1>2. ASSUME NEW k \in c + 1 .. Len(todo)
      PROVE  k - c \in 1 .. Len(todo') /\ todo'[k - c] = todo[k]
  <2>1. k - c \in 1 .. Len(todo') /\ (k - c) + c = k
    BY <1>1
  <2>2. \A i \in 1 .. Len(todo') : todo'[i] = todo[i + c]
    BY DEF Dropped
  <2>3. todo'[k - c] = todo[(k - c) + c]
    BY <2>1, <2>2
  <2> QED
    BY <2>1, <2>3
<1>3. ASSUME NEW j \in 1 .. Len(todo')
      PROVE  \E k \in c + 1 .. Len(todo) : j = k - c /\ todo'[j] = todo[k]
  <2>1. j + c \in c + 1 .. Len(todo) /\ j = (j + c) - c
    BY <1>1
  <2> QED
    BY <1>2, <2>1
<1> QED
  BY <1>2, <1>3

-----------------------------------------------------------------------------
(* An item that no try block holds: it is left undone by no throw but one  *)
(* that ends the resolution.                                               *)

Awaits(s, op, place) ==
  \E k \in 1 .. Len(s) :
    /\ s[k] = [op |-> op, at |-> place]
    /\ \A j \in 1 .. Len(s) : s[j].op = "catch" => j < k

(* It stays on the list until it is its turn.                              *)
LEMMA AwaitsPushed ==
  ASSUME todo \in Seq(Work), todo # <<>>, NEW x \in Seq(Work), Pushed(x),
         NEW op, NEW p, Awaits(todo, op, p),
         ~ (todo[1] = [op |-> op, at |-> p] /\ Catches = {})
  PROVE  Awaits(todo', op, p)
<1>1. Len(todo) \in Nat \ {0} /\ Len(x) \in Nat /\ DOMAIN todo = 1 .. Len(todo)
  OBVIOUS
<1>2. PICK k \in 1 .. Len(todo) :
        /\ todo[k] = [op |-> op, at |-> p]
        /\ \A j \in 1 .. Len(todo) : todo[j].op = "catch" => j < k
  BY DEF Awaits
<1>3. k # 1
  <2> SUFFICES ASSUME k = 1 PROVE FALSE
    OBVIOUS
  <2>1. \A j \in 1 .. Len(todo) : ~ (j < 1)
    BY <1>1
  <2>2. Catches = {}
    BY <1>1, <1>2, <2>1 DEF Catches
  <2> QED
    BY <1>2, <2>2
<1>4. k \in 2 .. Len(todo)
  BY <1>1, <1>3
<1>5. todo'[Len(x) + (k - 1)] = todo[k] /\ Len(x) + (k - 1) \in 1 .. Len(todo')
  BY <1>4, PushedAt
<1>6. ASSUME NEW j \in 1 .. Len(todo'), todo'[j].op = "catch"
      PROVE  j < Len(x) + (k - 1)
  <2>1. CASE j \in 1 .. Len(x)
    BY <1>1, <1>4, <2>1
  <2>2. ASSUME NEW i \in 2 .. Len(todo), j = Len(x) + (i - 1), todo'[j] = todo[i]
        PROVE  j < Len(x) + (k - 1)
    <3>1. i < k
      BY <1>1, <1>2, <1>6, <2>2
    <3> QED
      BY <1>1, <2>2, <3>1
  <2> QED
    BY <2>1, <2>2, PushedAt
<1> QED
  BY <1>2, <1>5, <1>6 DEF Awaits

LEMMA AwaitsDropped ==
  ASSUME todo \in Seq(Work), todo # <<>>, Catches # {}, todo' = AfterCatch,
         NEW op, NEW p, Awaits(todo, op, p)
  PROVE  Awaits(todo', op, p)
<1>1. Len(todo) \in Nat \ {0} /\ DOMAIN todo = 1 .. Len(todo)
  OBVIOUS
<1>2. PICK k \in 1 .. Len(todo) :
        /\ todo[k] = [op |-> op, at |-> p]
        /\ \A j \in 1 .. Len(todo) : todo[j].op = "catch" => j < k
  BY DEF Awaits
<1>3. PICK c \in Catches : Dropped(c)
  BY DropFacts
<1>4. c \in 1 .. Len(todo) /\ k \in c + 1 .. Len(todo)
  BY <1>1, <1>2 DEF Catches
<1>5. k - c \in 1 .. Len(todo') /\ todo'[k - c] = todo[k]
  BY <1>3, <1>4, DroppedAt
<1>6. ASSUME NEW j \in 1 .. Len(todo'), todo'[j].op = "catch"
      PROVE  j < k - c
  <2>1. PICK i \in c + 1 .. Len(todo) : j = i - c /\ todo'[j] = todo[i]
    BY <1>3, <1>4, DroppedAt
  <2>2. i < k
    BY <1>2, <1>4, <1>6, <2>1
  <2> QED
    BY <1>1, <1>4, <2>1, <2>2
<1> QED
  BY <1>2, <1>5, <1>6 DEF Awaits

LEMMA AwaitsNew ==
  ASSUME todo \in Seq(Work), todo # <<>>, NEW x \in Seq(Work), Pushed(x),
         Catches = {}, \A k \in 1 .. Len(x) : x[k].op # "catch",
         NEW i \in 1 .. Len(x), NEW op, NEW p, x[i] = [op |-> op, at |-> p]
  PROVE  Awaits(todo', op, p)
<1>1. Len(todo) \in Nat \ {0} /\ DOMAIN todo = 1 .. Len(todo)
  OBVIOUS
<1>2. i \in 1 .. Len(todo') /\ todo'[i] = x[i]
  BY PushedAt
<1>3. ASSUME NEW j \in 1 .. Len(todo') PROVE todo'[j].op # "catch"
  <2>1. CASE j \in 1 .. Len(x) /\ todo'[j] = x[j]
    BY <2>1
  <2>2. ASSUME NEW k \in 2 .. Len(todo), todo'[j] = todo[k]
        PROVE  todo'[j].op # "catch"
    BY <1>1, <2>2 DEF Catches
  <2> QED
    BY <2>1, <2>2, PushedAt
<1> QED
  BY <1>2, <1>3 DEF Awaits

-----------------------------------------------------------------------------
(* What each action puts on the list.                                      *)

NodeOf(i, nodes) == i.op = "node" /\ i.at \in Range(nodes)

LEMMA ListRange ==
  ASSUME NEW S, NEW s \in Seq(S), NEW e
  PROVE  e \in Range(s) <=> \E k \in 1 .. Len(s) : s[k] = e
<1>1. DOMAIN s = 1 .. Len(s)
  OBVIOUS
<1> QED
  BY <1>1 DEF Range

LEMMA ArgsAdded ==
  ASSUME TypeInv, Doing("node")
  PROVE  /\ Args \in Seq(Work) /\ todo # <<>> /\ todo \in Seq(Work)
         /\ \A k \in 1 .. Len(Args) : NodeOf(Args[k], ArgNodes(Here))
         /\ \A a \in Range(ArgNodes(Here)) :
              \E k \in 1 .. Len(Args) : Args[k] = [op |-> "node", at |-> a]
<1>1. Here \in Nodes /\ schema \in Seq(Module) /\ todo # <<>> /\ todo \in Seq(Work)
  BY HeadFacts DEF TypeInv, TodoTyped, TypedList
<1>2. /\ Args \in Seq(Work) /\ DOMAIN ArgNodes(Here) = 1 .. Len(Args)
      /\ \A k \in 1 .. Len(Args) : Args[k] = [op |-> "node", at |-> ArgNodes(Here)[k]]
  BY <1>1, ArgsFacts
<1>3. \A k \in 1 .. Len(Args) : NodeOf(Args[k], ArgNodes(Here))
  <2> TAKE k \in 1 .. Len(Args)
  <2>1. ArgNodes(Here)[k] \in Range(ArgNodes(Here))
    BY <1>2 DEF Range
  <2>2. Args[k] = [op |-> "node", at |-> ArgNodes(Here)[k]]
    BY <1>2
  <2>3. Args[k].op = "node" /\ Args[k].at = ArgNodes(Here)[k]
    BY <2>2
  <2> QED
    BY <2>1, <2>3 DEF NodeOf
<1>4. \A a \in Range(ArgNodes(Here)) :
        \E k \in 1 .. Len(Args) : Args[k] = [op |-> "node", at |-> a]
  <2> TAKE a \in Range(ArgNodes(Here))
  <2>1. PICK k \in 1 .. Len(Args) : a = ArgNodes(Here)[k]
    BY <1>2 DEF Range
  <2> QED
    BY <1>2, <2>1
<1> QED
  BY <1>1, <1>2, <1>3, <1>4

LEMMA EnterAdded ==
  ASSUME TypeInv, EnterAssignment
  PROVE  /\ todo # <<>> /\ todo \in Seq(Work) /\ Here \in Definitions
         /\ \E x \in Seq(Work) :
              /\ todo' = x \o Rest
              /\ \A k \in 1 .. Len(x) :
                   \/ NodeOf(x[k], BodyNodes(Here))
                   \/ IsParameterized(Here) /\ x[k] = [op |-> "catch", at |-> Here]
              /\ \A b \in Range(BodyNodes(Here)) :
                   \E k \in 1 .. Len(x) : x[k] = [op |-> "node", at |-> b]
              /\ IsParameterized(Here) =>
                   Len(x) > 0 /\ x[Len(x)] = [op |-> "catch", at |-> Here]
              /\ \A k \in 1 .. Len(x) : x[k].op = "catch" => k = Len(x)
<1> DEFINE end == IF IsParameterized(Here) THEN Item("catch", Here) ELSE <<>>
           nodes == BodyNodes(Here)
           body == Items("node", nodes)
           x == body \o end
<1>1. Here \in Definitions /\ schema \in Seq(Module) /\ todo # <<>> /\ todo \in Seq(Work)
  BY HeadFacts DEF EnterAssignment, TypeInv, TodoTyped, TypedList
<1>2. /\ body \in Seq(Work) /\ Len(body) = Len(nodes) /\ nodes \in Seq(Nodes)
      /\ \A k \in 1 .. Len(nodes) : body[k] = [op |-> "node", at |-> nodes[k]]
  BY <1>1, BodyFacts, DefinitionFacts
<1>3. /\ end \in Seq(Work)
      /\ ~ IsParameterized(Here) => Len(end) = 0
      /\ IsParameterized(Here) => Len(end) = 1 /\ end[1] = [op |-> "catch", at |-> Here]
  <2>1. "catch" \in Operations /\ Here \in Place
    BY <1>1 DEF Operations, Place
  <2>2. Item("catch", Here) \in Seq(Work) /\ Len(Item("catch", Here)) = 1
        /\ Item("catch", Here)[1] = [op |-> "catch", at |-> Here]
    BY <2>1, ItemType
  <2>3. <<>> \in Seq(Work) /\ Len(<<>>) = 0
    OBVIOUS
  <2> QED
    BY <2>2, <2>3
<1>4. todo' = x \o Rest
  BY DEF EnterAssignment
<1>5. \A e : e \in Range(nodes) <=> \E k \in 1 .. Len(nodes) : nodes[k] = e
  BY <1>2, ListRange
<1>6. body \in Seq(Work) /\ end \in Seq(Work)
  BY <1>2, <1>3
<1> HIDE DEF body, end, nodes
<1>7. /\ x \in Seq(Work) /\ Len(x) = Len(body) + Len(end)
      /\ \A k \in 1 .. Len(body) : x[k] = body[k]
      /\ \A k \in 1 .. Len(end) : x[Len(body) + k] = end[k]
      /\ \A k \in 1 .. Len(x) :
           \/ k \in 1 .. Len(body)
           \/ \E j \in 1 .. Len(end) : k = Len(body) + j
  BY <1>6, TwoLists
<1> HIDE DEF x
<1>8. Len(body) \in Nat /\ Len(end) \in Nat
  BY <1>6
<1>9. ASSUME NEW k \in 1 .. Len(x)
      PROVE  \/ NodeOf(x[k], nodes)
             \/ IsParameterized(Here) /\ x[k] = [op |-> "catch", at |-> Here]
  <2>1. CASE k \in 1 .. Len(body)
    <3>1. x[k] = [op |-> "node", at |-> nodes[k]]
      BY <1>2, <1>7, <2>1
    <3>2. nodes[k] \in Range(nodes)
      BY <1>2, <1>5, <2>1
    <3> QED
      BY <3>1, <3>2 DEF NodeOf
  <2>2. ASSUME NEW j \in 1 .. Len(end), k = Len(body) + j
        PROVE  IsParameterized(Here) /\ x[k] = [op |-> "catch", at |-> Here]
    <3>0. Len(end) # 0
      BY <1>8, <2>2
    <3>1. IsParameterized(Here) /\ j = 1
      BY <1>3, <1>8, <2>2, <3>0
    <3> QED
      BY <1>3, <1>7, <2>2, <3>1
  <2> QED
    BY <1>7, <2>1, <2>2
<1>10. ASSUME NEW b \in Range(nodes)
       PROVE  \E k \in 1 .. Len(x) : x[k] = [op |-> "node", at |-> b]
  <2>1. PICK k \in 1 .. Len(nodes) : nodes[k] = b
    BY <1>5
  <2>2. k \in 1 .. Len(x) /\ x[k] = [op |-> "node", at |-> b]
    BY <1>2, <1>7, <1>8, <2>1
  <2> QED
    BY <2>2
<1>11. ASSUME IsParameterized(Here)
       PROVE  Len(x) > 0 /\ x[Len(x)] = [op |-> "catch", at |-> Here]
  <2>1. Len(end) = 1 /\ end[1] = [op |-> "catch", at |-> Here]
    BY <1>3, <1>11
  <2>2. Len(x) = Len(body) + 1 /\ x[Len(body) + 1] = end[1]
    BY <1>7, <2>1
  <2> QED
    BY <1>8, <2>1, <2>2
<1>12. ASSUME NEW k \in 1 .. Len(x), x[k].op = "catch" PROVE k = Len(x)
  <2>1. CASE k \in 1 .. Len(body)
    <3>1. x[k] = [op |-> "node", at |-> nodes[k]]
      BY <1>2, <1>7, <2>1
    <3> QED
      BY <1>12, <3>1
  <2>2. ASSUME NEW j \in 1 .. Len(end), k = Len(body) + j PROVE k = Len(x)
    <3>0. Len(end) # 0
      BY <1>8, <2>2
    <3>1. Len(end) = 1 /\ j = 1
      BY <1>3, <1>8, <2>2, <3>0
    <3> QED
      BY <1>7, <1>8, <2>2, <3>1
  <2> QED
    BY <1>7, <2>1, <2>2
<1> QED
  BY <1>1, <1>4, <1>7, <1>9, <1>10, <1>11, <1>12 DEF nodes

LEMMA FollowAdded ==
  ASSUME TypeInv, Follow
  PROVE  /\ todo # <<>> /\ todo \in Seq(Work)
         /\ \E x \in Seq(Work) :
              /\ todo' = x \o Rest
              /\ Len(x) >= 2
              /\ x[1] = [op |-> "assignment", at |-> DefinitionOf(Target)]
              /\ x[2] = [op |-> "link", at |-> Here]
              /\ \A k \in 3 .. Len(x) : NodeOf(x[k], ArgNodes(Here))
<1> DEFINE d == DefinitionOf(Target)
           a == Item("assignment", d)
           b == Item("link", Here)
           x == a \o b \o Args
<1>1. /\ todo' = a \o b \o Args \o Rest /\ InScope /\ schema' = schema /\ Doing("node")
  BY DEF Follow, InScope, Unnamed
<1>2. Here \in Nodes /\ d \in Definitions
  BY <1>1, InScopeFacts
<1>3. /\ a \in Seq(Work) /\ Len(a) = 1 /\ a[1] = [op |-> "assignment", at |-> d]
      /\ b \in Seq(Work) /\ Len(b) = 1 /\ b[1] = [op |-> "link", at |-> Here]
  <2> HIDE DEF d
  <2>1. {"assignment", "link"} \subseteq Operations /\ d \in Place /\ Here \in Place
    BY <1>2 DEF Operations, Place
  <2> QED
    BY <2>1, ItemType
<1>4. /\ Args \in Seq(Work) /\ todo # <<>> /\ todo \in Seq(Work)
      /\ \A k \in 1 .. Len(Args) : NodeOf(Args[k], ArgNodes(Here))
  BY <1>1, ArgsAdded
<1>5. a \in Seq(Work) /\ b \in Seq(Work) /\ Args \in Seq(Work)
  BY <1>3, <1>4
<1> HIDE DEF a, b, d
<1>6. /\ x \in Seq(Work)
      /\ Len(x) = Len(a) + Len(b) + Len(Args)
      /\ \A k \in 1 .. Len(a) : x[k] = a[k]
      /\ \A k \in 1 .. Len(b) : x[Len(a) + k] = b[k]
      /\ \A k \in 1 .. Len(Args) : x[Len(a) + Len(b) + k] = Args[k]
  <2>1. x \in Seq(Work) /\ Joined(x, a, b, Args)
    BY <1>5, ThreeLists
  <2> QED
    BY <2>1 DEF Joined
<1>7. todo' = x \o Rest
  BY <1>1
<1> HIDE DEF x
<1>8. Len(Args) \in Nat
  BY <1>5
<1>9. Len(x) >= 2 /\ x[1] = a[1] /\ x[2] = b[1]
  BY <1>3, <1>6, <1>8
<1>10. ASSUME NEW k \in 3 .. Len(x) PROVE NodeOf(x[k], ArgNodes(Here))
  <2>1. k - 2 \in 1 .. Len(Args) /\ k = Len(a) + Len(b) + (k - 2)
    BY <1>3, <1>6, <1>8
  <2>2. x[k] = Args[k - 2]
    BY <1>6, <2>1
  <2> QED
    BY <1>4, <2>1, <2>2
<1>11. x[1] = [op |-> "assignment", at |-> DefinitionOf(Target)]
       /\ x[2] = [op |-> "link", at |-> Here]
  BY <1>3, <1>9 DEF d
<1>12. x \in Seq(Work) /\ Len(x) >= 2
  BY <1>6, <1>9
<1>13. /\ x \in Seq(Work)
       /\ todo' = x \o Rest
       /\ Len(x) >= 2
       /\ x[1] = [op |-> "assignment", at |-> DefinitionOf(Target)]
       /\ x[2] = [op |-> "link", at |-> Here]
       /\ \A k \in 3 .. Len(x) : NodeOf(x[k], ArgNodes(Here))
  BY <1>7, <1>10, <1>11, <1>12
<1> QED
  BY <1>4, <1>13

(* The actual parameters are resolved before they are put in the copy.     *)
ArgsFirst(s, n) ==
  \A k \in 1 .. Len(s) : s[k].op = "copy" =>
    \A a \in Range(ArgNodes(n)) : \E j \in 1 .. k - 1 : s[j] = [op |-> "node", at |-> a]

LEMMA InstantiateAdded ==
  ASSUME TypeInv, Instantiate
  PROVE  /\ todo # <<>> /\ todo \in Seq(Work)
         /\ \E x \in Seq(Work) :
              /\ todo' = x \o Rest
              /\ \A k \in 1 .. Len(x) :
                   \/ NodeOf(x[k], ArgNodes(Here))
                   \/ x[k] = [op |-> "copy", at |-> Here]
              /\ \E k \in 1 .. Len(x) : x[k] = [op |-> "copy", at |-> Here]
              /\ ArgsFirst(x, Here)
<1> DEFINE b == Item("copy", Here)
           x == Args \o b \o Args
<1>1. /\ todo' = Args \o b \o Args \o Rest /\ InScope /\ schema' = schema /\ Doing("node")
  BY DEF Instantiate, InScope, Unnamed
<1>2. b \in Seq(Work) /\ Len(b) = 1 /\ b[1] = [op |-> "copy", at |-> Here]
  <2>1. "copy" \in Operations /\ Here \in Place
    BY <1>1, InScopeFacts DEF Operations, Place
  <2> QED
    BY <2>1, ItemType
<1>3. /\ Args \in Seq(Work) /\ todo # <<>> /\ todo \in Seq(Work)
      /\ \A k \in 1 .. Len(Args) : NodeOf(Args[k], ArgNodes(Here))
      /\ \A a \in Range(ArgNodes(Here)) :
           \E k \in 1 .. Len(Args) : Args[k] = [op |-> "node", at |-> a]
  BY <1>1, ArgsAdded
<1>4. b \in Seq(Work) /\ Args \in Seq(Work)
  BY <1>2, <1>3
<1> HIDE DEF b
<1>5. /\ x \in Seq(Work)
      /\ Len(x) = Len(Args) + Len(b) + Len(Args)
      /\ \A k \in 1 .. Len(Args) : x[k] = Args[k]
      /\ \A k \in 1 .. Len(b) : x[Len(Args) + k] = b[k]
      /\ \A k \in 1 .. Len(Args) : x[Len(Args) + Len(b) + k] = Args[k]
      /\ \A k \in 1 .. Len(x) :
           \/ k \in 1 .. Len(Args)
           \/ \E j \in 1 .. Len(b) : k = Len(Args) + j
           \/ \E j \in 1 .. Len(Args) : k = Len(Args) + Len(b) + j
  <2>1. x \in Seq(Work) /\ Joined(x, Args, b, Args)
    BY <1>4, ThreeLists
  <2> QED
    BY <2>1 DEF Joined
<1>6. todo' = x \o Rest
  BY <1>1
<1> HIDE DEF x
<1>7. Len(Args) \in Nat
  BY <1>4
<1>8. ASSUME NEW k \in 1 .. Len(x)
      PROVE  NodeOf(x[k], ArgNodes(Here)) \/ x[k] = [op |-> "copy", at |-> Here]
  <2>1. CASE k \in 1 .. Len(Args)
    BY <1>3, <1>5, <2>1
  <2>2. ASSUME NEW j \in 1 .. Len(b), k = Len(Args) + j
        PROVE  x[k] = [op |-> "copy", at |-> Here]
    <3>1. j = 1 /\ x[k] = b[j]
      BY <1>2, <1>5, <2>2
    <3> QED
      BY <1>2, <3>1
  <2>3. ASSUME NEW j \in 1 .. Len(Args), k = Len(Args) + Len(b) + j
        PROVE  NodeOf(x[k], ArgNodes(Here))
    <3>1. x[k] = Args[j]
      BY <1>5, <2>3
    <3> QED
      BY <1>3, <3>1
  <2> QED
    BY <1>5, <2>1, <2>2, <2>3
<1>9. Len(Args) + 1 \in 1 .. Len(x) /\ x[Len(Args) + 1] = [op |-> "copy", at |-> Here]
  BY <1>2, <1>5, <1>7
<1>10. ArgsFirst(x, Here)
  <2> SUFFICES ASSUME NEW k \in 1 .. Len(x), x[k].op = "copy", NEW a \in Range(ArgNodes(Here))
               PROVE  \E j \in 1 .. k - 1 : x[j] = [op |-> "node", at |-> a]
    BY DEF ArgsFirst
  <2>1. k \notin 1 .. Len(Args)
    BY <1>3, <1>5 DEF NodeOf
  <2>2. PICK j \in 1 .. Len(Args) : Args[j] = [op |-> "node", at |-> a]
    BY <1>3
  <2>3. j \in 1 .. k - 1 /\ x[j] = Args[j]
    BY <1>5, <1>7, <2>1, <2>2
  <2> QED
    BY <2>2, <2>3
<1> QED
  BY <1>3, <1>5, <1>6, <1>8, <1>9, <1>10

-----------------------------------------------------------------------------
(* ProgressInv: of the bodies that are not parameterized nothing is left   *)
(* out.  Each reference of a module that is finished is bound, or is to a  *)
(* primitive and its actual parameters are; each reference of the module   *)
(* at hand is too, or is on the list where no try block holds it.          *)

Passed(n, bound) == n \in bound \/ NameAt(n) \in Primitives \ Classes

Settled(n, bound) ==
  \/ n \in bound
  \/ /\ NameAt(n) \in Primitives \ Classes
     /\ \A a \in Range(ArgNodes(n)) : Passed(a, bound)

Settling(n, s, bound) ==
  \/ n \in bound
  \/ /\ NameAt(n) \in Primitives \ Classes
     /\ \A a \in Range(ArgNodes(n)) : Passed(a, bound) \/ Awaits(s, "node", a)

Underway(n, s, bound) ==
  \/ Settling(n, s, bound)
  \/ Awaits(s, "node", n)
  \/ Awaits(s, "assignment", <<n[1], n[2]>>)

Top == {n \in Nodes : n[4] = 0 /\ ~ IsParameterized(n)}

Progress(now, running, s, bound) ==
  \A n \in Top :
    /\ n[1] < now => Settled(n, bound)
    /\ n[1] = now /\ running => Underway(n, s, bound)

ProgressInv == Progress(current, phase = "resolve", todo, DOMAIN name)

LEMMA FrozenNode ==
  ASSUME schema' = schema, NEW n
  PROVE  NameAt(n)' = NameAt(n) /\ ArgNodes(n)' = ArgNodes(n)
BY DEF NameAt, ArgNodes, RefOf, Assigned

LEMMA FrozenProgress ==
  ASSUME schema' = schema, NEW now, now = current', NEW running, running = (phase' = "resolve"),
         NEW s, s = todo', NEW bound, bound = DOMAIN name',
         Progress(now, running, s, bound)
  PROVE  ProgressInv'
<1>1. ASSUME NEW n \in Top'
      PROVE  n[1] < current' => Settled(n, DOMAIN name)'
  <2>1. n \in Top
    BY Frozen DEF Top, IsParameterized, Assigned
  <2>2. n[1] < now => Settled(n, bound)
    BY <2>1 DEF Progress
  <2> QED
    BY <2>2, FrozenNode DEF Settled, Passed
<1>2. ASSUME NEW n \in Top'
      PROVE  n[1] = current' /\ phase' = "resolve" => Underway(n, todo, DOMAIN name)'
  <2>1. n \in Top
    BY Frozen DEF Top, IsParameterized, Assigned
  <2>2. n[1] = now /\ running => Underway(n, s, bound)
    BY <2>1 DEF Progress
  <2>3. Underway(n, s, bound) => Underway(n, todo, DOMAIN name)'
    <3>1. Settling(n, s, bound) => Settling(n, todo, DOMAIN name)'
      BY FrozenNode DEF Settling, Passed, Awaits
    <3>2. Awaits(s, "node", n) => Awaits(todo, "node", n)'
      BY DEF Awaits
    <3>3. Awaits(s, "assignment", <<n[1], n[2]>>) => Awaits(todo, "assignment", <<n[1], n[2]>>)'
      BY DEF Awaits
    <3> QED
      BY <3>1, <3>2, <3>3 DEF Underway
  <2> QED
    BY <2>2, <2>3
<1> QED
  BY <1>1, <1>2 DEF ProgressInv, Progress

LEMMA SettledKept ==
  ASSUME NEW few, NEW many, few \subseteq many, NEW n, Settled(n, few)
  PROVE  Settled(n, many)
BY DEF Settled, Passed

(* A node or an assignment leaves the list only when what it stands for is *)
(* under way.                                                              *)
LEMMA UnderwayKept ==
  ASSUME schema \in Seq(Module), NEW s, NEW few, NEW t, NEW many, few \subseteq many,
         \A p \in Nodes : Awaits(s, "node", p) => Awaits(t, "node", p) \/ Settling(p, t, many),
         \A d \in Definitions : Awaits(s, "assignment", d) /\ ~ IsParameterized(d) =>
           \/ Awaits(t, "assignment", d)
           \/ \A b \in Range(BodyNodes(d)) : Awaits(t, "node", b),
         NEW n \in Top, Underway(n, s, few)
  PROVE  Underway(n, t, many)
<1>1. n \in Nodes /\ n[4] = 0 /\ ~ IsParameterized(n)
  BY DEF Top
<1>2. CASE Settling(n, s, few)
  <2>1. ASSUME NEW a \in Range(ArgNodes(n)), Passed(a, few) \/ Awaits(s, "node", a)
        PROVE  Passed(a, many) \/ Awaits(t, "node", a)
    <3>1. a \in Nodes
      BY <1>1, ArgFacts DEF Range
    <3>2. Settling(a, t, many) => Passed(a, many)
      BY DEF Settling, Passed
    <3>3. Passed(a, few) => Passed(a, many)
      BY DEF Passed
    <3> QED
      BY <2>1, <3>1, <3>2, <3>3
  <2>2. Settling(n, t, many)
    BY <1>2, <2>1 DEF Settling
  <2> QED
    BY <2>2 DEF Underway
<1>3. CASE Awaits(s, "node", n)
  BY <1>1, <1>3 DEF Underway
<1>4. CASE Awaits(s, "assignment", <<n[1], n[2]>>)
  <2> DEFINE d == <<n[1], n[2]>>
  <2>1. d \in Definitions /\ ~ IsParameterized(d)
    BY <1>1, NodeFacts DEF IsParameterized
  <2>2. n \in Range(BodyNodes(d))
    BY <1>1, NodeFacts DEF Range, BodyNodes
  <2> HIDE DEF d
  <2>3. Awaits(t, "assignment", d) \/ Awaits(t, "node", n)
    BY <1>4, <2>1, <2>2 DEF d
  <2> QED
    BY <2>3 DEF Underway, d
<1> QED
  BY <1>2, <1>3, <1>4 DEF Underway

LEMMA ProgressKept ==
  ASSUME TypeInv, ProgressInv, schema' = schema, current' = current,
         phase = "resolve",
         NEW few, few = DOMAIN name, NEW many, many = DOMAIN name', few \subseteq many,
         NEW s, s = todo, NEW t, t = todo',
         phase' = "resolve" => \A p \in Nodes : Awaits(s, "node", p) =>
           Awaits(t, "node", p) \/ Settling(p, t, many),
         phase' = "resolve" =>
           \A d \in Definitions : Awaits(s, "assignment", d) /\ ~ IsParameterized(d) =>
           \/ Awaits(t, "assignment", d)
           \/ \A b \in Range(BodyNodes(d)) : Awaits(t, "node", b)
  PROVE  ProgressInv'
<1> DEFINE running == phase' = "resolve"
           now == current
<1>1. Progress(now, TRUE, s, few)
  BY DEF ProgressInv
<1>2. schema \in Seq(Module)
  BY DEF TypeInv
<1> HIDE DEF running, now
<1>3. ASSUME NEW n \in Top
      PROVE  /\ n[1] < now => Settled(n, many)
             /\ n[1] = now /\ running => Underway(n, t, many)
  <2>1. n[1] < now => Settled(n, many)
    BY <1>1, SettledKept DEF Progress
  <2>2. ASSUME n[1] = now, running PROVE Underway(n, t, many)
    <3>1. Underway(n, s, few)
      BY <1>1, <2>2 DEF Progress
    <3> QED
      BY <1>2, <2>2, <3>1, UnderwayKept DEF running
  <2> QED
    BY <2>1, <2>2
<1>4. Progress(now, running, t, many)
  BY <1>3 DEF Progress
<1> QED
  BY <1>4, FrozenProgress DEF now, running

(* A step puts items in the place of the head.                             *)
LEMMA ProgressPushed ==
  ASSUME TypeInv, ProgressInv, schema' = schema, current' = current, phase' = phase,
         phase = "resolve", todo # <<>>, DOMAIN name \subseteq DOMAIN name',
         NEW x \in Seq(Work), todo' = x \o Rest,
         todo[1].op = "node" /\ Catches = {} =>
           Settling(todo[1].at, todo', DOMAIN name'),
         todo[1].op = "assignment" /\ Catches = {} /\ ~ IsParameterized(todo[1].at) =>
           \A b \in Range(BodyNodes(todo[1].at)) : Awaits(todo', "node", b)
  PROVE  ProgressInv'
<1>1. todo \in Seq(Work)
  BY DEF TypeInv, TodoTyped, TypedList
<1>2. Pushed(x)
  BY <1>1, PushFacts
<1>3. ASSUME NEW p \in Nodes, Awaits(todo, "node", p)
      PROVE  Awaits(todo', "node", p) \/ Settling(p, todo', DOMAIN name')
  <2>1. CASE todo[1] = [op |-> "node", at |-> p] /\ Catches = {}
    <3>1. todo[1].op = "node" /\ todo[1].at = p
      BY <2>1
    <3> QED
      BY <2>1, <3>1
  <2> QED
    BY <1>1, <1>2, <1>3, <2>1, AwaitsPushed
<1>4. ASSUME NEW d \in Definitions, Awaits(todo, "assignment", d), ~ IsParameterized(d)
      PROVE  \/ Awaits(todo', "assignment", d)
             \/ \A b \in Range(BodyNodes(d)) : Awaits(todo', "node", b)
  <2>1. CASE todo[1] = [op |-> "assignment", at |-> d] /\ Catches = {}
    <3>1. todo[1].op = "assignment" /\ todo[1].at = d
      BY <2>1
    <3> QED
      BY <1>4, <2>1, <3>1
  <2> QED
    BY <1>1, <1>2, <1>4, <2>1, AwaitsPushed
<1> QED
  BY <1>3, <1>4, ProgressKept

(* A throw drops what is on the list up to the end of a try block.         *)
LEMMA ProgressThrown ==
  ASSUME TypeInv, ProgressInv, schema' = schema, current' = current,
         phase = "resolve", todo # <<>>, DOMAIN name \subseteq DOMAIN name',
         NEW what, Throw(what)
  PROVE  ProgressInv'
<1>1. todo \in Seq(Work) /\ todo' = AfterCatch
  BY DEF TypeInv, TodoTyped, TypedList, Throw
<1>2. ASSUME phase' = "resolve", NEW op, NEW p, Awaits(todo, op, p)
      PROVE  Awaits(todo', op, p)
  <2>1. Catches # {}
    BY <1>2 DEF Throw
  <2> QED
    BY <1>1, <1>2, <2>1, AwaitsDropped
<1> QED
  BY <1>2, ProgressKept

LEMMA ProgressPopped ==
  ASSUME TypeInv, ProgressInv, schema' = schema, current' = current, phase' = phase,
         phase = "resolve", todo # <<>>, DOMAIN name \subseteq DOMAIN name',
         todo' = Rest, todo[1].op # "assignment",
         todo[1].op = "node" => todo[1].at \in DOMAIN name'
  PROVE  ProgressInv'
<1>1. Rest \in Seq(Work) /\ <<>> \in Seq(Work)
  BY HeadTailProperties DEF TypeInv, TodoTyped, TypedList, Rest
<1>2. todo' = <<>> \o Rest
  BY <1>1
<1> QED
  BY <1>1, <1>2, ProgressPushed DEF Settling

LEMMA StartAdded ==
  ASSUME TypeInv, StartModule
  PROVE  /\ todo' \in Seq(Work) /\ Len(todo') = Len(schema[current].assigns)
         /\ DOMAIN schema[current].assigns = 1 .. Len(todo')
         /\ \A k \in 1 .. Len(todo') : todo'[k] = [op |-> "assignment", at |-> <<current, k>>]
<1> DEFINE list == schema[current].assigns
           ds == [a \in DOMAIN list |-> <<current, a>>]
<1>1. list \in Seq(Assignment) /\ current \in DOMAIN schema
  <2>1. schema[current] \in Module /\ current \in DOMAIN schema
    BY DEF StartModule, TypeInv
  <2> QED
    BY <2>1 DEF Module
<1>2. \A a \in DOMAIN list : <<current, a>> \in Place
  BY <1>1 DEF Definitions, Place
<1>3. todo' = Items("assignment", ds)
  BY DEF StartModule
<1> HIDE DEF list
<1>4. DOMAIN list = 1 .. Len(list) /\ Len(list) \in Nat
  BY <1>1
<1>5. ds \in Seq(Place) /\ Len(ds) = Len(list) /\ \A k \in 1 .. Len(list) : ds[k] = <<current, k>>
  BY <1>2, <1>4
<1>6. "assignment" \in Operations
  BY DEF Operations
<1>7. DOMAIN ds = 1 .. Len(list)
  BY <1>4
<1> HIDE DEF ds
<1>8. /\ todo' \in Seq(Work) /\ Len(todo') = Len(list)
      /\ \A k \in 1 .. Len(list) : todo'[k] = [op |-> "assignment", at |-> <<current, k>>]
  <2>1. ds \in Seq(Place)
    BY <1>5
  <2>2. /\ todo' \in Seq(Work) /\ Len(todo') = Len(ds)
        /\ \A k \in DOMAIN ds : todo'[k] = [op |-> "assignment", at |-> ds[k]]
    BY <1>3, <1>6, <2>1, ItemsType
  <2>3. ASSUME NEW k \in 1 .. Len(list)
        PROVE  todo'[k] = [op |-> "assignment", at |-> <<current, k>>]
    <3>1. k \in DOMAIN ds /\ ds[k] = <<current, k>>
      BY <1>5, <1>7
    <3> QED
      BY <2>2, <3>1
  <2> QED
    BY <1>5, <2>2, <2>3
<1> QED
  BY <1>4, <1>8 DEF list

LEMMA ProgressStarted == TypeInv /\ ProgressInv /\ StartModule => ProgressInv'
<1> SUFFICES ASSUME TypeInv, ProgressInv, StartModule PROVE ProgressInv'
  OBVIOUS
<1> DEFINE running == phase' = "resolve"
           now == current
           t == todo'
           bound == DOMAIN name'
<1>1. schema' = schema /\ current' = current /\ name' = name /\ phase = "scope"
  BY DEF StartModule
<1>2. /\ DOMAIN schema[current].assigns = 1 .. Len(t)
      /\ \A k \in 1 .. Len(t) : t[k] = [op |-> "assignment", at |-> <<current, k>>]
  BY StartAdded
<1>3. ASSUME NEW n \in Top
      PROVE  /\ n[1] < now => Settled(n, bound)
             /\ n[1] = now /\ running => Underway(n, t, bound)
  <2>1. n[1] < now => Settled(n, bound)
    BY <1>1 DEF ProgressInv, Progress
  <2>2. ASSUME n[1] = now PROVE Awaits(t, "assignment", <<n[1], n[2]>>)
    <3>1. n[2] \in DOMAIN schema[current].assigns
      <4>1. <<n[1], n[2]>> \in Definitions /\ schema \in Seq(Module)
        BY NodeFacts DEF Top, TypeInv
      <4> QED
        BY <2>2, <4>1, DefinitionFacts
    <3>2. n[2] \in 1 .. Len(t) /\ t[n[2]] = [op |-> "assignment", at |-> <<n[1], n[2]>>]
      BY <1>2, <2>2, <3>1
    <3>3. ASSUME NEW j \in 1 .. Len(t) PROVE t[j].op # "catch"
      <4>1. t[j] = [op |-> "assignment", at |-> <<current, j>>]
        BY <1>2
      <4> QED
        BY <4>1
    <3> QED
      BY <3>2, <3>3 DEF Awaits
  <2> QED
    BY <2>1, <2>2 DEF Underway
<1> HIDE DEF running, now, t, bound
<1>4. Progress(now, running, t, bound)
  BY <1>3 DEF Progress
<1> QED
  BY <1>1, <1>4, FrozenProgress DEF now, running, t, bound

LEMMA ProgressEnded == TypeInv /\ ProgressInv /\ EndModule => ProgressInv'
<1> SUFFICES ASSUME TypeInv, ProgressInv, EndModule PROVE ProgressInv'
  OBVIOUS
<1> DEFINE running == phase' = "resolve"
           now == current + 1
           t == todo'
           bound == DOMAIN name'
<1>1. /\ schema' = schema /\ current' = current + 1 /\ name' = name /\ todo = <<>>
      /\ phase = "resolve" /\ phase' = "scope" /\ current \in Nat
  BY DEF EndModule, TypeInv
<1>2. \A op, p : ~ Awaits(todo, op, p)
  BY <1>1 DEF Awaits
<1>3. ASSUME NEW n \in Top, n[1] < now PROVE Settled(n, bound)
  <2>1. n[1] \in Nat
    <3>1. <<n[1], n[2]>> \in Definitions /\ schema \in Seq(Module)
      BY NodeFacts DEF Top, TypeInv
    <3> QED
      BY <3>1, DefinitionFacts
  <2>2. CASE n[1] < current
    BY <1>1, <2>2 DEF ProgressInv, Progress
  <2>3. CASE n[1] = current
    <3>1. Underway(n, todo, DOMAIN name)
      BY <1>1, <2>3 DEF ProgressInv, Progress
    <3> QED
      BY <1>1, <1>2, <3>1 DEF Underway, Settling, Settled
  <2> QED
    BY <1>1, <1>3, <2>1, <2>2, <2>3
<1>4. ~ running
  BY <1>1
<1> HIDE DEF running, now, t, bound
<1>5. Progress(now, running, t, bound)
  BY <1>3, <1>4 DEF Progress
<1> QED
  BY <1>1, <1>5, FrozenProgress DEF now, running, t, bound

LEMMA ProgressStep == TypeInv /\ ProgressInv /\ [Next]_vars => ProgressInv'
<1> SUFFICES ASSUME TypeInv, ProgressInv, [Next]_vars PROVE ProgressInv'
  OBVIOUS
<1>0. TodoTyped /\ schema \in Seq(Module) /\ todo \in Seq(Work)
  BY DEF TypeInv, TodoTyped, TypedList
<1>1. CASE StartModule
  BY <1>1, ProgressStarted
<1>2. CASE EndModule
  BY <1>2, ProgressEnded
<1>3. CASE BadImport \/ Finish \/ UNCHANGED vars
  <2>1. /\ schema' = schema /\ current' = current /\ todo' = todo /\ name' = name
        /\ phase' = "resolve" => phase = "resolve"
    BY <1>3 DEF BadImport, Finish, vars
  <2>2. Progress(current, phase' = "resolve", todo, DOMAIN name)
    BY <2>1 DEF ProgressInv, Progress
  <2> QED
    BY <2>1, <2>2, FrozenProgress
<1>4. CASE LeaveTry \/ Link \/ CopyBody
  <2>1. /\ todo # <<>> /\ todo[1].op \notin {"assignment", "node"} /\ phase = "resolve"
        /\ todo' = Rest /\ UNCHANGED <<schema, phase, current, name>>
    BY <1>0, <1>4, HeadFacts DEF LeaveTry, Link, CopyBody, Doing
  <2> QED
    BY <2>1, ProgressPopped
<1>5. CASE SkipNamed \/ BindField
  <2>1. /\ todo # <<>> /\ todo[1].op = "node" /\ todo[1].at = Here /\ phase = "resolve"
        /\ todo' = Rest /\ UNCHANGED <<schema, phase, current>>
    BY <1>0, <1>5, HeadFacts DEF SkipNamed, BindField, FieldReference, Doing
  <2>2. DOMAIN name \subseteq DOMAIN name' /\ Here \in DOMAIN name'
    BY <1>5 DEF SkipNamed, BindField, Bound
  <2> QED
    BY <2>1, <2>2, ProgressPopped
<1>6. CASE UndefinedName \/ UndefinedField \/ CircularName \/ WrongArity
  <2>1. /\ todo # <<>> /\ phase = "resolve" /\ schema' = schema /\ current' = current
        /\ \E what : Throw(what)
    BY <1>0, <1>6, HeadFacts
    DEF UndefinedName, UndefinedField, CircularName, WrongArity, InScope, Unnamed,
        FieldReference, Doing
  <2>2. DOMAIN name \subseteq DOMAIN name'
    BY <1>6 DEF UndefinedName, UndefinedField, CircularName, WrongArity, InScope, Bound
  <2> QED
    BY <2>1, <2>2, ProgressThrown
<1>7. CASE SkipPrimitive
  <2>1. /\ todo # <<>> /\ todo[1].op = "node" /\ todo[1].at = Here /\ phase = "resolve"
        /\ todo' = Args \o Rest /\ UNCHANGED <<schema, phase, current, name>>
        /\ NameAt(Here) \in Primitives \ Classes /\ Doing("node")
    BY <1>0, <1>7, HeadFacts DEF SkipPrimitive, Unnamed, Doing
  <2>2. /\ Args \in Seq(Work)
        /\ \A k \in 1 .. Len(Args) : NodeOf(Args[k], ArgNodes(Here))
        /\ \A a \in Range(ArgNodes(Here)) :
             \E k \in 1 .. Len(Args) : Args[k] = [op |-> "node", at |-> a]
    BY <2>1, ArgsAdded
  <2>3. Pushed(Args) /\ \A k \in 1 .. Len(Args) : Args[k].op # "catch"
    BY <1>0, <2>1, <2>2, PushFacts DEF NodeOf
  <2>4. ASSUME Catches = {} PROVE Settling(Here, todo', DOMAIN name')
    <3>1. ASSUME NEW a \in Range(ArgNodes(Here)) PROVE Awaits(todo', "node", a)
      <4>1. PICK k \in 1 .. Len(Args) : Args[k] = [op |-> "node", at |-> a]
        BY <2>2
      <4>2. Args \in Seq(Work) /\ \A j \in 1 .. Len(Args) : Args[j].op # "catch"
        BY <2>2, <2>3
      <4> QED
        BY <1>0, <2>1, <2>3, <2>4, <4>1, <4>2, AwaitsNew
    <3> QED
      BY <2>1, <3>1 DEF Settling
  <2> QED
    BY <2>1, <2>2, <2>4, ProgressPushed
<1>8. CASE BindElsewhere
  <2>1. /\ todo # <<>> /\ todo[1].op = "node" /\ todo[1].at = Here /\ phase = "resolve"
        /\ todo' = Args \o Rest /\ UNCHANGED <<schema, phase, current>> /\ Doing("node")
    BY <1>0, <1>8, HeadFacts DEF BindElsewhere, Unnamed, Doing
  <2>2. DOMAIN name \subseteq DOMAIN name' /\ Here \in DOMAIN name'
    BY <1>8 DEF BindElsewhere, Bound
  <2>3. Args \in Seq(Work)
    BY <2>1, ArgsAdded
  <2> QED
    BY <2>1, <2>2, <2>3, ProgressPushed DEF Settling
<1>9. CASE Follow \/ Instantiate
  <2>1. InScope /\ UNCHANGED <<schema, phase, current>>
    BY <1>9 DEF Follow, Instantiate
  <2>2. /\ phase = "resolve" /\ DOMAIN name' = DOMAIN name \cup {Here}
        /\ todo # <<>> /\ todo[1].op = "node" /\ todo[1].at = Here
    <3>1. Doing("node")
      BY <2>1 DEF InScope, Unnamed
    <3> QED
      BY <1>0, <2>1, <3>1, InScopeFacts, HeadFacts
  <2>3. PICK x \in Seq(Work) : todo' = x \o Rest
    BY <1>9, FollowAdded, InstantiateAdded
  <2> QED
    BY <2>1, <2>2, <2>3, ProgressPushed DEF Settling
<1>10. CASE EnterAssignment
  <2>1. /\ todo # <<>> /\ todo[1].op = "assignment" /\ todo[1].at = Here /\ phase = "resolve"
        /\ UNCHANGED <<schema, phase, current, name>>
    BY <1>0, <1>10, HeadFacts DEF EnterAssignment, Doing
  <2>2. PICK x \in Seq(Work) :
          /\ todo' = x \o Rest
          /\ \A k \in 1 .. Len(x) :
               \/ NodeOf(x[k], BodyNodes(Here))
               \/ IsParameterized(Here) /\ x[k] = [op |-> "catch", at |-> Here]
          /\ \A b \in Range(BodyNodes(Here)) :
               \E k \in 1 .. Len(x) : x[k] = [op |-> "node", at |-> b]
    BY <1>10, EnterAdded
  <2>3. ASSUME Catches = {}, ~ IsParameterized(Here), NEW b \in Range(BodyNodes(Here))
        PROVE  Awaits(todo', "node", b)
    <3>1. Pushed(x) /\ \A k \in 1 .. Len(x) : x[k].op # "catch"
      BY <1>0, <2>1, <2>2, <2>3, PushFacts DEF NodeOf
    <3>2. PICK k \in 1 .. Len(x) : x[k] = [op |-> "node", at |-> b]
      BY <2>2, <2>3
    <3> QED
      BY <1>0, <2>1, <2>3, <3>1, <3>2, AwaitsNew
  <2> QED
    BY <2>1, <2>2, <2>3, ProgressPushed
<1> QED
  BY <1>1, <1>2, <1>3, <1>4, <1>5, <1>6, <1>7, <1>8, <1>9, <1>10 DEF Next

LEMMA ProgressInit == Init => ProgressInv
<1> SUFFICES ASSUME Init, NEW n \in Top PROVE ~ (n[1] < current)
  BY DEF ProgressInv, Progress, Init
<1>1. schema \in Seq(Module)
  BY SchemasAssumption DEF Init
<1>2. n[1] \in DOMAIN schema
  <2>1. <<n[1], n[2]>> \in Definitions
    BY <1>1, NodeFacts DEF Top
  <2> QED
    BY <1>1, <2>1, DefinitionFacts
<1> QED
  BY <1>1, <1>2 DEF Init

LEMMA ProgressInvariant == Spec => []ProgressInv
BY ProgressInit, TypeInvariant, ProgressStep, PTL DEF Spec

-----------------------------------------------------------------------------
(* The refinement of NameBinding.                                          *)

Candidates == [n \in Nodes |-> Elsewhere(NameAt(n))]

Verdict ==
  CASE phase = "done" -> "accepted" [] phase = "failed" -> "rejected" [] OTHER -> "open"

LEMMA SameQuestion ==
  ASSUME schema' = schema
  PROVE  Candidates' = Candidates /\ Required' = Required
BY Frozen DEF Candidates, Required, Elsewhere, NameAt, RefOf, Assigned, IsParameterized

(* A step that binds the node at hand.                                     *)
LEMMA BindsOne ==
  ASSUME TypeInv, schema' = schema, phase = "resolve", phase' \in {"resolve", "failed"},
         NEW n \in Nodes, n \notin DOMAIN name, NEW s \in Elsewhere(NameAt(n)),
         name' = Bound(name, n, s)
  PROVE  Binding!Next
<1>1. Verdict = "open" /\ Verdict' \in {"open", "rejected"}
  BY DEF Verdict
<1>2. DOMAIN Candidates = Nodes /\ Candidates[n] = Elsewhere(NameAt(n))
  BY DEF Candidates
<1>3. \E d \in Candidates[n] :
        name' = [x \in DOMAIN name \cup {n} |-> IF x = n THEN d ELSE name[x]]
  BY <1>2 DEF Bound
<1>4. Binding!Bind(n)
  BY <1>1, <1>2, <1>3, SameQuestion DEF Binding!Bind, Candidates, Verdict
<1> QED
  BY <1>2, <1>4 DEF Binding!Next, Candidates

LEMMA BindsNone ==
  ASSUME schema' = schema, name' = name,
         phase' = phase \/ {phase, phase'} \subseteq {"scope", "resolve"}
  PROVE  UNCHANGED Binding!vars
<1>1. Verdict' = Verdict
  BY DEF Verdict
<1> QED
  BY <1>1, SameQuestion DEF Binding!vars, Candidates, Verdict

LEMMA Fails ==
  ASSUME schema' = schema, name' = name, phase \in {"scope", "resolve"}, phase' = "failed"
  PROVE  Binding!Next
<1>1. Verdict = "open" /\ Verdict' = "rejected"
  BY DEF Verdict
<1>2. Binding!Reject
  BY <1>1, SameQuestion DEF Binding!Reject, Candidates, Verdict
<1> QED
  BY <1>2 DEF Binding!Next

(* The resolution ends well only when the last module has been finished.   *)
LEMMA FinishAccepts == TypeInv /\ ProgressInv /\ Finish => Binding!Next
<1> SUFFICES ASSUME TypeInv, ProgressInv, Finish PROVE Binding!Next
  OBVIOUS
<1>1. schema' = schema /\ name' = name /\ Verdict = "open" /\ Verdict' = "accepted"
  BY DEF Finish, Verdict
<1>2. ASSUME NEW n \in Required PROVE n \in DOMAIN name
  <2>1. n \in Top /\ NameAt(n) \notin Primitives
    BY DEF Required, Top
  <2>2. n[1] < current
    <3>1. schema \in Seq(Module) /\ current \in 1 .. Len(schema) + 1
          /\ current \notin DOMAIN schema
      BY DEF TypeInv, Finish
    <3>2. <<n[1], n[2]>> \in Definitions
      BY <2>1, <3>1, NodeFacts DEF Top
    <3>3. n[1] \in DOMAIN schema
      BY <3>1, <3>2, DefinitionFacts
    <3> QED
      BY <3>1, <3>3
  <2>3. Settled(n, DOMAIN name)
    BY <2>1, <2>2 DEF ProgressInv, Progress
  <2> QED
    BY <2>1, <2>3 DEF Settled
<1>3. Required \subseteq DOMAIN name
  BY <1>2
<1>4. Binding!Accept
  BY <1>1, <1>3, SameQuestion DEF Binding!Accept, Candidates, Verdict
<1> QED
  BY <1>4 DEF Binding!Next

LEMMA BindingStep ==
  TypeInv /\ ProgressInv /\ [Next]_vars => [Binding!Next]_(Binding!vars)
<1> SUFFICES ASSUME TypeInv, ProgressInv, [Next]_vars
             PROVE  Binding!Next \/ UNCHANGED Binding!vars
  OBVIOUS
<1>0. TodoTyped
  BY DEF TypeInv
<1>1. CASE Finish
  BY <1>1, FinishAccepts
<1>2. CASE BadImport
  BY <1>2, Fails DEF BadImport
<1>3. CASE \/ StartModule \/ EndModule \/ EnterAssignment \/ LeaveTry \/ SkipNamed
           \/ SkipPrimitive \/ Link \/ CopyBody \/ UNCHANGED vars
  <2>1. /\ schema' = schema /\ name' = name
        /\ phase' = phase \/ {phase, phase'} \subseteq {"scope", "resolve"}
    BY <1>3 DEF StartModule, EndModule, EnterAssignment, LeaveTry, SkipNamed,
                SkipPrimitive, Link, CopyBody, vars
  <2> QED
    BY <2>1, BindsNone
<1>4. CASE UndefinedName \/ UndefinedField
  <2>1. /\ schema' = schema /\ name' = name /\ phase = "resolve"
        /\ phase' \in {"resolve", "failed"}
    BY <1>4 DEF UndefinedName, UndefinedField, Unnamed, FieldReference, Doing, Throw
  <2> QED
    BY <2>1, Fails, BindsNone
<1>5. CASE BindElsewhere
  <2>1. /\ schema' = schema /\ phase' = phase /\ phase = "resolve"
        /\ Here \in Nodes /\ Here \notin DOMAIN name
    BY <1>0, <1>5, HeadFacts DEF BindElsewhere, Unnamed, Doing
  <2>2. PICK s \in Elsewhere(NameAt(Here)) : name' = Bound(name, Here, s)
    BY <1>5 DEF BindElsewhere
  <2> QED
    BY <2>1, <2>2, BindsOne
<1>6. CASE BindField
  <2>1. /\ schema' = schema /\ phase' = phase /\ phase = "resolve"
        /\ Here \in Nodes /\ Here \notin DOMAIN name
        /\ NameAt(Here) \in DOMAIN scope
        /\ name' = Bound(name, Here, scope[NameAt(Here)])
    BY <1>0, <1>6, HeadFacts DEF BindField, FieldReference, Doing, FieldIsKnown
  <2>2. scope[NameAt(Here)] \in Elsewhere(NameAt(Here))
    BY <2>1, TargetFacts
  <2> QED
    BY <2>1, <2>2, BindsOne
<1>7. CASE Follow \/ Instantiate \/ CircularName \/ WrongArity
  <2>1. /\ schema' = schema /\ InScope /\ phase = "resolve"
        /\ phase' \in {"resolve", "failed"}
    BY <1>7 DEF Follow, Instantiate, CircularName, WrongArity, InScope, Unnamed,
                Doing, Throw
  <2>2. Here \in Nodes /\ Here \notin DOMAIN name
    BY <2>1, InScopeFacts
  <2>3. /\ NameAt(Here) \in DOMAIN scope
        /\ name' = Bound(name, Here, scope[NameAt(Here)])
    BY <2>1 DEF InScope
  <2>4. scope[NameAt(Here)] \in Elsewhere(NameAt(Here))
    BY <2>3, TargetFacts
  <2> QED
    BY <2>1, <2>2, <2>3, <2>4, BindsOne
<1> QED
  BY <1>1, <1>2, <1>3, <1>4, <1>5, <1>6, <1>7 DEF Next

(* Resolution does what NameBinding promises: each reference is bound at   *)
(* most once, to a definition of the name it mentions, and the schema is   *)
(* accepted only when each reference outside a parameterized body is.      *)
THEOREM ImplementsNameBinding == Spec => BindingSpec
<1>1. Init => Binding!Init
  <2> SUFFICES ASSUME Init PROVE Binding!Init
    OBVIOUS
  <2>1. Required \subseteq DOMAIN Candidates /\ Verdict = "open" /\ name = <<>>
    BY DEF Required, Candidates, Verdict, Init
  <2> QED
    BY <2>1 DEF Binding!Init, Candidates, Verdict
<1> QED
  BY <1>1, TypeInvariant, ProgressInvariant, BindingStep, PTL
  DEF Spec, BindingSpec, Binding!Spec

-----------------------------------------------------------------------------
(* ItemsInv: what may be on the list.  The work is in the module at hand   *)
(* or in one that module leads to; a later module is led to only by one    *)
(* that imports from it or has its name, and of an earlier one nothing is  *)
(* left to be bound.  The nodes of a parameterized body are in its try     *)
(* block.                                                                  *)

Fits(i, bound) ==
  /\ i.at[1] > current => current \in Importers(i.at[1])
  /\ i.op = "assignment" => i.at[1] = current \/ ~ IsParameterized(i.at)
  /\ i.op = "node" /\ i.at[1] < current => Settled(i.at, bound)
  /\ i.op = "catch" => IsParameterized(i.at)

Held(s, k) ==
  s[k].op = "node" /\ IsParameterized(s[k].at) =>
    \E j \in k + 1 .. Len(s) : s[j].op = "catch"

FitList(s, bound) == \A k \in 1 .. Len(s) : Fits(s[k], bound) /\ Held(s, k)

ItemsInv == FitList(todo, DOMAIN name)

LEMMA FrozenItems ==
  ASSUME schema' = schema, current' = current, NEW s, s = todo', NEW bound, bound = DOMAIN name',
         FitList(s, bound)
  PROVE  ItemsInv'
<1>1. ASSUME NEW k \in 1 .. Len(todo') PROVE Fits(todo[k], DOMAIN name)'
  <2>1. Fits(s[k], bound) /\ s[k] = todo'[k]
    BY <1>1 DEF FitList
  <2>2. (todo[k].at[1] > current => current \in Importers(todo[k].at[1]))'
    BY <2>1 DEF Fits, Importers
  <2>3. /\ (todo[k].op = "assignment" =>
             todo[k].at[1] = current \/ ~ IsParameterized(todo[k].at))'
        /\ (todo[k].op = "catch" => IsParameterized(todo[k].at))'
    BY <2>1 DEF Fits, IsParameterized, Assigned
  <2>4. (todo[k].op = "node" /\ todo[k].at[1] < current =>
           Settled(todo[k].at, DOMAIN name))'
    BY <2>1 DEF Fits, Settled, Passed, NameAt, RefOf, Assigned, ArgNodes
  <2> QED
    BY <2>2, <2>3, <2>4 DEF Fits
<1>2. ASSUME NEW k \in 1 .. Len(todo') PROVE Held(todo, k)'
  BY <1>2 DEF FitList, Held, IsParameterized, Assigned
<1> QED
  BY <1>1, <1>2 DEF ItemsInv, FitList

LEMMA FitsKept ==
  ASSUME NEW few, NEW many, few \subseteq many, NEW i, Fits(i, few)
  PROVE  Fits(i, many)
BY SettledKept DEF Fits

(* A step puts items in the place of the head, each of them held by a try  *)
(* block among them or like the head.                                      *)
LEMMA ItemsPushed ==
  ASSUME TypeInv, ItemsInv, schema' = schema, current' = current, todo # <<>>,
         DOMAIN name \subseteq DOMAIN name',
         NEW x \in Seq(Work), todo' = x \o Rest,
         \A k \in 1 .. Len(x) : Fits(x[k], DOMAIN name'),
         \A k \in 1 .. Len(x) :
           \/ Held(x, k)
           \/ /\ todo[1].op = "node"
              /\ IsParameterized(x[k].at) => IsParameterized(todo[1].at)
  PROVE  ItemsInv'
<1> DEFINE t == todo'
           bound == DOMAIN name'
<1>1. todo \in Seq(Work) /\ Len(todo) \in Nat \ {0} /\ Len(x) \in Nat
  BY DEF TypeInv, TodoTyped, TypedList
<1>2. Pushed(x)
  BY <1>1, PushFacts
<1>3. /\ \A k \in 2 .. Len(todo) :
           Len(x) + (k - 1) \in 1 .. Len(t) /\ t[Len(x) + (k - 1)] = todo[k]
      /\ \A j \in 1 .. Len(x) : j \in 1 .. Len(t) /\ t[j] = x[j]
      /\ \A j \in 1 .. Len(t) :
           \/ j \in 1 .. Len(x) /\ t[j] = x[j]
           \/ \E k \in 2 .. Len(todo) : j = Len(x) + (k - 1) /\ t[j] = todo[k]
  BY <1>1, <1>2, PushedAt
<1>4. \A k \in 1 .. Len(todo) : Fits(todo[k], DOMAIN name) /\ Held(todo, k)
  BY DEF ItemsInv, FitList
<1> HIDE DEF t
<1>5. ASSUME NEW k \in 1 .. Len(todo), k >= 1, NEW j \in k + 1 .. Len(todo), todo[j].op = "catch"
      PROVE  Len(x) + (j - 1) \in 1 .. Len(t) /\ t[Len(x) + (j - 1)].op = "catch"
  <2>1. j \in 2 .. Len(todo)
    BY <1>1
  <2> QED
    BY <1>3, <1>5, <2>1
<1>6. ASSUME NEW j \in 1 .. Len(x) PROVE Fits(x[j], bound) /\ Held(t, j)
  <2>1. t[j] = x[j]
    BY <1>3
  <2>2. ASSUME x[j].op = "node", IsParameterized(x[j].at)
        PROVE  \E i \in j + 1 .. Len(t) : t[i].op = "catch"
    <3>1. CASE Held(x, j)
      <4>1. PICK i \in j + 1 .. Len(x) : x[i].op = "catch"
        BY <2>2, <3>1 DEF Held
      <4>2. i \in 1 .. Len(x) /\ i > j
        BY <1>1
      <4>3. i \in 1 .. Len(t) /\ t[i].op = "catch"
        BY <1>3, <4>1, <4>2
      <4> QED
        BY <1>1, <4>2, <4>3
    <3>2. CASE todo[1].op = "node" /\ IsParameterized(todo[1].at)
      <4>1. 1 \in 1 .. Len(todo) /\ Held(todo, 1)
        BY <1>1, <1>4
      <4>2. PICK i \in 1 + 1 .. Len(todo) : todo[i].op = "catch"
        BY <3>2, <4>1 DEF Held
      <4>3. Len(x) + (i - 1) \in 1 .. Len(t) /\ t[Len(x) + (i - 1)].op = "catch"
        BY <1>5, <4>1, <4>2
      <4>4. Len(x) + (i - 1) \in j + 1 .. Len(t)
        BY <1>1, <4>3
      <4> QED
        BY <4>3, <4>4
    <3> QED
      BY <2>2, <3>1, <3>2
  <2>3. Held(t, j)
    BY <2>1, <2>2 DEF Held
  <2> QED
    BY <2>3
<1>7. ASSUME NEW j \in 1 .. Len(t), NEW k \in 2 .. Len(todo), j = Len(x) + (k - 1), t[j] = todo[k]
      PROVE  Fits(t[j], bound) /\ Held(t, j)
  <2>1. k \in 1 .. Len(todo) /\ k >= 1
    BY <1>1
  <2>2. Fits(t[j], bound)
    BY <1>4, <1>7, <2>1, FitsKept
  <2>3. ASSUME t[j].op = "node", IsParameterized(t[j].at)
        PROVE  \E i \in j + 1 .. Len(t) : t[i].op = "catch"
    <3>1. Held(todo, k)
      BY <1>4, <2>1
    <3>2. PICK i \in k + 1 .. Len(todo) : todo[i].op = "catch"
      BY <1>7, <2>3, <3>1 DEF Held
    <3>3. Len(x) + (i - 1) \in 1 .. Len(t) /\ t[Len(x) + (i - 1)].op = "catch"
      BY <1>5, <2>1, <3>2
    <3>4. Len(x) + (i - 1) \in j + 1 .. Len(t)
      BY <1>1, <1>7, <2>1, <3>3
    <3> QED
      BY <3>3, <3>4
  <2> QED
    BY <2>2, <2>3 DEF Held
<1>8. FitList(t, bound)
  <2>1. ASSUME NEW j \in 1 .. Len(t) PROVE Fits(t[j], bound) /\ Held(t, j)
    <3>1. CASE j \in 1 .. Len(x) /\ t[j] = x[j]
      BY <1>6, <3>1
    <3> QED
      BY <1>3, <1>7, <3>1
  <2> QED
    BY <2>1 DEF FitList
<1> HIDE DEF bound
<1> QED
  BY <1>8, FrozenItems DEF t, bound

LEMMA ItemsDropped ==
  ASSUME TypeInv, ItemsInv, schema' = schema, current' = current, todo # <<>>,
         DOMAIN name \subseteq DOMAIN name', todo' = AfterCatch
  PROVE  ItemsInv'
<1> DEFINE t == todo'
           bound == DOMAIN name'
<1>1. todo \in Seq(Work) /\ Len(todo) \in Nat \ {0}
  BY DEF TypeInv, TodoTyped, TypedList
<1>2. PICK c \in 1 .. Len(todo) : Dropped(c)
  BY <1>1, DropFacts
<1>3. /\ \A k \in c + 1 .. Len(todo) : k - c \in 1 .. Len(t) /\ t[k - c] = todo[k]
      /\ \A j \in 1 .. Len(t) : \E k \in c + 1 .. Len(todo) : j = k - c /\ t[j] = todo[k]
  BY <1>1, <1>2, DroppedAt
<1>4. \A k \in 1 .. Len(todo) : Fits(todo[k], DOMAIN name) /\ Held(todo, k)
  BY DEF ItemsInv, FitList
<1> HIDE DEF t
<1>5. ASSUME NEW j \in 1 .. Len(t) PROVE Fits(t[j], bound) /\ Held(t, j)
  <2>1. PICK k \in c + 1 .. Len(todo) : j = k - c /\ t[j] = todo[k]
    BY <1>3
  <2>2. k \in 1 .. Len(todo)
    BY <1>1
  <2>3. Fits(t[j], bound)
    BY <1>4, <2>1, <2>2, FitsKept
  <2>4. ASSUME t[j].op = "node", IsParameterized(t[j].at)
        PROVE  \E i \in j + 1 .. Len(t) : t[i].op = "catch"
    <3>1. Held(todo, k)
      BY <1>4, <2>2
    <3>2. PICK i \in k + 1 .. Len(todo) : todo[i].op = "catch"
      BY <2>1, <2>4, <3>1 DEF Held
    <3>3. i \in c + 1 .. Len(todo)
      BY <1>1
    <3>4. i - c \in 1 .. Len(t) /\ t[i - c].op = "catch"
      BY <1>3, <3>2, <3>3
    <3>5. i - c \in j + 1 .. Len(t)
      BY <1>1, <2>1, <3>4
    <3> QED
      BY <3>4, <3>5
  <2> QED
    BY <2>3, <2>4 DEF Held
<1>6. FitList(t, bound)
  BY <1>5 DEF FitList
<1> HIDE DEF bound
<1> QED
  BY <1>6, FrozenItems DEF t, bound

(* An actual parameter and a reference of a body are in their definition.  *)
LEMMA ArgOf ==
  ASSUME schema \in Seq(Module), NEW n \in Nodes, NEW a \in Range(ArgNodes(n))
  PROVE  /\ a \in Nodes /\ a[1] = n[1] /\ a[2] = n[2] /\ a[4] # 0
         /\ IsParameterized(a) = IsParameterized(n)
         /\ Range(ArgNodes(a)) = {}
<1>1. PICK p \in DOMAIN ArgNodes(n) : a = ArgNodes(n)[p]
  BY DEF Range
<1>2. ArgNodes(n) \in Seq(Nodes) /\ a = <<n[1], n[2], n[3], p>> /\ p # 0
  BY <1>1, ArgFacts
<1>3. a \in Nodes /\ a[1] = n[1] /\ a[2] = n[2] /\ a[4] # 0
  <2>1. a \in Nodes
    <3> DEFINE s == ArgNodes(n)
    <3>1. s \in Seq(Nodes) /\ p \in DOMAIN s /\ a = s[p]
      BY <1>1, <1>2
    <3> HIDE DEF s
    <3> QED
      BY <3>1
  <2>2. a[1] = n[1] /\ a[2] = n[2] /\ a[4] = p
    BY <1>2
  <2> QED
    BY <1>2, <2>1, <2>2
<1>4. Range(ArgNodes(a)) = {}
  BY <1>3 DEF ArgNodes, Range
<1> QED
  BY <1>3, <1>4 DEF IsParameterized, Assigned

LEMMA BodyOf ==
  ASSUME schema \in Seq(Module), NEW d \in Definitions, NEW b \in Range(BodyNodes(d))
  PROVE  /\ b \in Nodes /\ b[1] = d[1] /\ b[2] = d[2] /\ b[4] = 0
         /\ IsParameterized(b) = IsParameterized(d)
<1>1. b \in Nodes
  BY NodesAre
<1>2. b[1] = d[1] /\ b[2] = d[2] /\ b[4] = 0
  <2>1. PICK k : b = <<d[1], d[2], k, 0>>
    BY DEF Range, BodyNodes
  <2> QED
    BY <2>1
<1> QED
  BY <1>1, <1>2 DEF IsParameterized, Assigned

(* What the scope of the module at hand leads to.                          *)
LEMMA TargetIsNear ==
  ASSUME TypeInv, phase = "resolve", NEW x \in DOMAIN scope,
         NEW d, d = DefinitionOf(scope[x]), d[1] > current
  PROVE  current \in Importers(d[1])
<1>1. /\ schema \in Seq(Module) /\ current \in DOMAIN schema /\ ~ ImportsFail(current)
      /\ scope = ScopeOf(current) /\ current \in Nat \ {0}
  BY DEF TypeInv, ScopeTyped
<1>2. d \in Definitions /\ SymbolOf(d) = scope[x]
  BY TargetFacts
<1>3. d[1] \in Nat /\ scope[x][1] = schema[d[1]].name
  BY <1>1, <1>2, DefinitionFacts DEF SymbolOf
<1>4. current \in 1 .. d[1] - 1
  BY <1>1, <1>3
<1>5. \/ scope[x][1] = schema[current].name
      \/ scope[x] \in Range(schema[current].imports)
  BY <1>1, ScopeFacts
<1> QED
  BY <1>3, <1>4, <1>5 DEF Importers

LEMMA HeadFits ==
  ASSUME TypeInv, ItemsInv, NEW op, Doing(op)
  PROVE  /\ Here[1] > current => current \in Importers(Here[1])
         /\ op = "assignment" => Here[1] = current \/ ~ IsParameterized(Here)
         /\ op = "node" /\ Here[1] < current => Settled(Here, DOMAIN name)
         /\ op = "node" /\ IsParameterized(Here) => Catches # {}
<1>1. /\ todo \in Seq(Work) /\ Len(todo) \in Nat \ {0} /\ todo[1].op = op /\ todo[1].at = Here
  BY HeadFacts DEF TypeInv, TodoTyped, TypedList
<1>2. Fits(todo[1], DOMAIN name) /\ Held(todo, 1)
  BY <1>1 DEF ItemsInv, FitList
<1>3. ASSUME op = "node", IsParameterized(Here) PROVE Catches # {}
  <2>1. PICK j \in 1 + 1 .. Len(todo) : todo[j].op = "catch"
    BY <1>1, <1>2, <1>3 DEF Held
  <2>2. j \in DOMAIN todo
    BY <1>1
  <2> QED
    BY <2>1, <2>2 DEF Catches
<1> QED
  BY <1>1, <1>2, <1>3 DEF Fits

LEMMA ArgsFit ==
  ASSUME TypeInv, ItemsInv, Doing("node"), Here \notin DOMAIN name,
         NEW bound, DOMAIN name \subseteq bound,
         NEW i, NodeOf(i, ArgNodes(Here))
  PROVE  /\ Fits(i, bound) /\ i.op = "node"
         /\ IsParameterized(i.at) => IsParameterized(Here)
<1> DEFINE a == i.at
<1>1. i.op = "node" /\ a \in Range(ArgNodes(Here)) /\ Here \in Nodes /\ schema \in Seq(Module)
  BY HeadFacts DEF NodeOf, TypeInv
<1>2. /\ a[1] = Here[1] /\ IsParameterized(a) = IsParameterized(Here)
      /\ Range(ArgNodes(a)) = {}
  BY <1>1, ArgOf
<1>3. a[1] > current => current \in Importers(a[1])
  BY <1>2, HeadFits
<1>4. ASSUME a[1] < current PROVE Settled(a, bound)
  <2>1. Settled(Here, DOMAIN name)
    BY <1>2, <1>4, HeadFits
  <2>2. Passed(a, DOMAIN name)
    BY <1>1, <2>1 DEF Settled
  <2> QED
    BY <1>2, <2>2 DEF Passed, Settled
<1> QED
  BY <1>1, <1>2, <1>3, <1>4 DEF Fits

LEMMA EnterFits ==
  ASSUME TypeInv, ProgressInv, ItemsInv, EnterAssignment
  PROVE  ItemsInv'
<1>1. /\ Here \in Definitions /\ Doing("assignment") /\ schema \in Seq(Module) /\ todo # <<>>
      /\ UNCHANGED <<schema, current, name>>
  BY HeadFacts DEF EnterAssignment, TypeInv
<1>2. PICK x \in Seq(Work) :
        /\ todo' = x \o Rest
        /\ \A k \in 1 .. Len(x) :
             \/ NodeOf(x[k], BodyNodes(Here))
             \/ IsParameterized(Here) /\ x[k] = [op |-> "catch", at |-> Here]
        /\ IsParameterized(Here) => Len(x) > 0 /\ x[Len(x)] = [op |-> "catch", at |-> Here]
  BY EnterAdded
<1>3. Here[1] > current => current \in Importers(Here[1])
  BY <1>1, HeadFits
<1>4. Here[1] = current \/ ~ IsParameterized(Here)
  BY <1>1, HeadFits
<1>5. ASSUME NEW k \in 1 .. Len(x) PROVE Fits(x[k], DOMAIN name') /\ Held(x, k)
  <2>1. CASE NodeOf(x[k], BodyNodes(Here))
    <3> DEFINE b == x[k].at
    <3>1. /\ x[k].op = "node" /\ b \in Nodes /\ b[1] = Here[1] /\ b[4] = 0
          /\ IsParameterized(b) = IsParameterized(Here)
      BY <1>1, <2>1, BodyOf DEF NodeOf
    <3>2. ASSUME b[1] < current PROVE Settled(b, DOMAIN name')
      <4>1. current \in Nat
        BY DEF TypeInv
      <4>2. ~ IsParameterized(b)
        BY <1>4, <3>1, <3>2, <4>1
      <4>3. b \in Top
        BY <3>1, <4>2 DEF Top
      <4> QED
        BY <1>1, <3>2, <4>3 DEF ProgressInv, Progress
    <3>3. Held(x, k)
      <4>1. ASSUME IsParameterized(b) PROVE \E j \in k + 1 .. Len(x) : x[j].op = "catch"
        <5>1. Len(x) \in Nat /\ x[Len(x)].op = "catch"
          BY <1>2, <3>1, <4>1
        <5>2. k # Len(x)
          BY <3>1, <5>1
        <5>3. Len(x) \in k + 1 .. Len(x)
          BY <5>1, <5>2
        <5> QED
          BY <5>1, <5>3
      <4> QED
        BY <4>1 DEF Held
    <3> QED
      BY <1>3, <3>1, <3>2, <3>3 DEF Fits
  <2>2. CASE IsParameterized(Here) /\ x[k] = [op |-> "catch", at |-> Here]
    <3>1. x[k].op = "catch" /\ x[k].at = Here
      BY <2>2
    <3> QED
      BY <1>3, <2>2, <3>1 DEF Fits, Held
  <2> QED
    BY <1>2, <2>1, <2>2
<1> QED
  BY <1>1, <1>2, <1>5, ItemsPushed

LEMMA FollowFits ==
  ASSUME TypeInv, ItemsInv, Follow
  PROVE  ItemsInv'
<1>1. InScope /\ UNCHANGED <<schema, current, phase>> /\ ~ IsParameterized(DefinitionOf(Target))
  BY DEF Follow
<1>2. /\ todo # <<>> /\ phase = "resolve" /\ Here \notin DOMAIN name
      /\ DOMAIN name' = DOMAIN name \cup {Here}
      /\ Doing("node") /\ NameAt(Here) \in DOMAIN scope
  BY <1>1, InScopeFacts DEF InScope, Unnamed
<1>3. PICK x \in Seq(Work) :
        /\ todo' = x \o Rest
        /\ Len(x) >= 2
        /\ x[1] = [op |-> "assignment", at |-> DefinitionOf(Target)]
        /\ x[2] = [op |-> "link", at |-> Here]
        /\ \A k \in 3 .. Len(x) : NodeOf(x[k], ArgNodes(Here))
  BY FollowAdded
<1>4. todo[1].op = "node" /\ todo[1].at = Here
  BY <1>2, HeadFacts DEF TypeInv
<1>5. ASSUME NEW k \in 1 .. Len(x)
      PROVE  /\ Fits(x[k], DOMAIN name')
             /\ \/ Held(x, k)
                \/ IsParameterized(x[k].at) => IsParameterized(todo[1].at)
  <2>1. CASE k = 1
    <3>1. x[k].op = "assignment" /\ x[k].at = DefinitionOf(Target)
      BY <1>3, <2>1
    <3>2. x[k].at[1] > current => current \in Importers(x[k].at[1])
      BY <1>2, <3>1, TargetIsNear DEF Target
    <3> QED
      BY <1>1, <3>1, <3>2 DEF Fits, Held
  <2>2. CASE k = 2
    <3>1. x[k].op = "link" /\ x[k].at = Here
      BY <1>3, <2>2
    <3> QED
      BY <1>2, <3>1, HeadFits DEF Fits, Held
  <2>3. CASE k \in 3 .. Len(x)
    BY <1>2, <1>3, <1>4, <2>3, ArgsFit
  <2>4. k = 1 \/ k = 2 \/ k \in 3 .. Len(x)
    BY <1>3
  <2> QED
    BY <2>1, <2>2, <2>3, <2>4
<1> QED
  BY <1>1, <1>2, <1>3, <1>4, <1>5, ItemsPushed

LEMMA InstantiateFits ==
  ASSUME TypeInv, ItemsInv, Instantiate
  PROVE  ItemsInv'
<1>1. InScope /\ UNCHANGED <<schema, current, phase>>
  BY DEF Instantiate
<1>2. /\ todo # <<>> /\ Here \notin DOMAIN name
      /\ DOMAIN name' = DOMAIN name \cup {Here} /\ Doing("node")
  BY <1>1, InScopeFacts DEF InScope, Unnamed
<1>3. PICK x \in Seq(Work) :
        /\ todo' = x \o Rest
        /\ \A k \in 1 .. Len(x) :
             \/ NodeOf(x[k], ArgNodes(Here))
             \/ x[k] = [op |-> "copy", at |-> Here]
  BY InstantiateAdded
<1>4. todo[1].op = "node" /\ todo[1].at = Here
  BY <1>2, HeadFacts DEF TypeInv
<1>5. ASSUME NEW k \in 1 .. Len(x)
      PROVE  /\ Fits(x[k], DOMAIN name')
             /\ \/ Held(x, k)
                \/ IsParameterized(x[k].at) => IsParameterized(todo[1].at)
  <2>1. CASE NodeOf(x[k], ArgNodes(Here))
    BY <1>2, <1>4, <2>1, ArgsFit
  <2>2. CASE x[k] = [op |-> "copy", at |-> Here]
    <3>1. x[k].op = "copy" /\ x[k].at = Here
      BY <2>2
    <3> QED
      BY <1>2, <3>1, HeadFits DEF Fits, Held
  <2> QED
    BY <1>3, <2>1, <2>2
<1> QED
  BY <1>1, <1>2, <1>3, <1>4, <1>5, ItemsPushed

LEMMA ItemsStep == TypeInv /\ ProgressInv /\ ItemsInv /\ [Next]_vars => ItemsInv'
<1> SUFFICES ASSUME TypeInv, ProgressInv, ItemsInv, [Next]_vars PROVE ItemsInv'
  OBVIOUS
<1>0. TodoTyped /\ schema \in Seq(Module) /\ todo \in Seq(Work)
  BY DEF TypeInv, TodoTyped, TypedList
<1>1. CASE StartModule
  <2> DEFINE t == todo'
  <2>1. \A k \in 1 .. Len(t) : t[k] = [op |-> "assignment", at |-> <<current, k>>]
    BY <1>1, StartAdded
  <2>2. current \in Nat
    BY DEF TypeInv
  <2> HIDE DEF t
  <2>3. ASSUME NEW k \in 1 .. Len(t) PROVE Fits(t[k], DOMAIN name') /\ Held(t, k)
    <3>1. t[k].op = "assignment" /\ t[k].at[1] = current
      <4>1. t[k] = [op |-> "assignment", at |-> <<current, k>>]
        BY <2>1
      <4>2. t[k].op = "assignment" /\ t[k].at = <<current, k>>
        BY <4>1
      <4> QED
        BY <4>2
    <3> QED
      BY <2>2, <3>1 DEF Fits, Held
  <2>4. FitList(t, DOMAIN name')
    BY <2>3 DEF FitList
  <2> QED
    BY <1>1, <2>4, FrozenItems DEF StartModule, t
<1>2. CASE EndModule
  <2>1. todo' = <<>> /\ Len(todo') = 0
    BY <1>2 DEF EndModule
  <2> QED
    BY <2>1 DEF ItemsInv, FitList
<1>3. CASE BadImport \/ Finish \/ UNCHANGED vars
  <2>1. schema' = schema /\ current' = current /\ todo' = todo /\ name' = name
    BY <1>3 DEF BadImport, Finish, vars
  <2> QED
    BY <2>1, FrozenItems DEF ItemsInv
<1>4. CASE LeaveTry \/ Link \/ CopyBody \/ SkipNamed \/ BindField
  <2>1. todo # <<>> /\ todo' = Rest /\ UNCHANGED <<schema, current>>
    BY <1>0, <1>4, HeadFacts DEF LeaveTry, Link, CopyBody, SkipNamed, BindField, FieldReference
  <2>2. DOMAIN name \subseteq DOMAIN name'
    BY <1>4 DEF LeaveTry, Link, CopyBody, SkipNamed, BindField, Bound
  <2>3. Rest \in Seq(Work) /\ <<>> \in Seq(Work) /\ Len(<<>>) = 0
    BY <1>0, <2>1, HeadTailProperties DEF Rest
  <2>4. todo' = <<>> \o Rest /\ \A k \in 1 .. Len(<<>>) : FALSE
    BY <2>1, <2>3
  <2> QED
    BY <2>1, <2>2, <2>3, <2>4, ItemsPushed
<1>5. CASE UndefinedName \/ UndefinedField \/ CircularName \/ WrongArity
  <2>1. todo # <<>> /\ schema' = schema /\ current' = current /\ todo' = AfterCatch
    BY <1>0, <1>5, HeadFacts
    DEF UndefinedName, UndefinedField, CircularName, WrongArity, InScope, Unnamed,
        FieldReference, Throw
  <2>2. DOMAIN name \subseteq DOMAIN name'
    BY <1>5 DEF UndefinedName, UndefinedField, CircularName, WrongArity, InScope, Bound
  <2> QED
    BY <2>1, <2>2, ItemsDropped
<1>6. CASE SkipPrimitive \/ BindElsewhere
  <2>1. /\ todo # <<>> /\ todo[1].op = "node" /\ todo[1].at = Here
        /\ todo' = Args \o Rest /\ UNCHANGED <<schema, current>>
        /\ Doing("node") /\ Here \notin DOMAIN name
    BY <1>0, <1>6, HeadFacts DEF SkipPrimitive, BindElsewhere, Unnamed
  <2>2. DOMAIN name \subseteq DOMAIN name'
    BY <1>6 DEF SkipPrimitive, BindElsewhere, Bound
  <2>3. Args \in Seq(Work) /\ \A k \in 1 .. Len(Args) : NodeOf(Args[k], ArgNodes(Here))
    BY <2>1, ArgsAdded
  <2>4. ASSUME NEW k \in 1 .. Len(Args)
        PROVE  /\ Fits(Args[k], DOMAIN name')
               /\ IsParameterized(Args[k].at) => IsParameterized(todo[1].at)
    <3>1. NodeOf(Args[k], ArgNodes(Here))
      BY <2>3
    <3> QED
      BY <2>1, <2>2, <3>1, ArgsFit
  <2> QED
    BY <2>1, <2>2, <2>3, <2>4, ItemsPushed
<1> QED
  BY <1>1, <1>2, <1>3, <1>4, <1>5, <1>6, EnterFits, FollowFits, InstantiateFits DEF Next

LEMMA ItemsInvariant == Spec => []ItemsInv
<1>1. Init => ItemsInv
  BY DEF Init, ItemsInv, FitList
<1> QED
  BY <1>1, TypeInvariant, ProgressInvariant, ItemsStep, PTL DEF Spec

-----------------------------------------------------------------------------
(* BoundByOwnOrImporter: only a module that is at hand before the module   *)
(* of a reference, or that one itself, gives the reference its meaning.    *)

LEMMA FrozenNames ==
  ASSUME schema' = schema
  PROVE  /\ \A n : NameAt(n)' = NameAt(n)
         /\ \A d : IsParameterized(d)' = IsParameterized(d)
         /\ \A n : Resolvers(n)' = Resolvers(n)
         /\ \A x : Elsewhere(x)' = Elsewhere(x)
         /\ \A i : ScopeOf(i)' = ScopeOf(i)
<1>1. \A n : NameAt(n)' = NameAt(n)
  BY DEF NameAt, RefOf, Assigned
<1>2. \A d : IsParameterized(d)' = IsParameterized(d)
  BY DEF IsParameterized, Assigned
<1>3. \A n : Resolvers(n)' = Resolvers(n)
  BY DEF Resolvers, Importers
<1>4. \A x : Elsewhere(x)' = Elsewhere(x)
  BY Frozen DEF Elsewhere
<1>5. \A i : ScopeOf(i)' = ScopeOf(i)
  BY Frozen DEF ScopeOf, Own
<1> QED
  BY <1>1, <1>2, <1>3, <1>4, <1>5

(* A step binds nothing, or the node at hand, and that as the scope says.  *)
LEMMA BindingOfStep ==
  ASSUME TypeInv, [Next]_vars
  PROVE  \/ name' = name
         \/ /\ Doing("node") /\ Here \notin DOMAIN name
            /\ schema' = schema /\ current' = current
            /\ DOMAIN name' = DOMAIN name \cup {Here}
            /\ \A m \in DOMAIN name : name'[m] = name[m]
            /\ \/ /\ NameAt(Here) \in DOMAIN scope
                  /\ name'[Here] = scope[NameAt(Here)]
               \/ /\ NameAt(Here) \notin DOMAIN scope
                  /\ name'[Here] \in Elsewhere(NameAt(Here))
<1>1. CASE BindElsewhere
  <2>1. PICK s \in Elsewhere(NameAt(Here)) : name' = Bound(name, Here, s)
    BY <1>1 DEF BindElsewhere
  <2>2. /\ Doing("node") /\ Here \notin DOMAIN name /\ NameAt(Here) \notin DOMAIN scope
        /\ schema' = schema /\ current' = current
    BY <1>1 DEF BindElsewhere, Unnamed
  <2> QED
    BY <2>1, <2>2 DEF Bound
<1>2. CASE BindField
  BY <1>2 DEF BindField, FieldReference, FieldIsKnown, Bound
<1>3. CASE Follow \/ Instantiate \/ CircularName \/ WrongArity
  <2>1. InScope /\ schema' = schema /\ current' = current
    BY <1>3 DEF Follow, Instantiate, CircularName, WrongArity
  <2> QED
    BY <2>1 DEF InScope, Unnamed, Bound
<1>4. CASE \/ StartModule \/ BadImport \/ EndModule \/ Finish \/ EnterAssignment \/ LeaveTry
           \/ SkipNamed \/ SkipPrimitive \/ UndefinedName \/ UndefinedField \/ Link
           \/ CopyBody \/ UNCHANGED vars
  BY <1>4 DEF StartModule, BadImport, EndModule, Finish, EnterAssignment, LeaveTry,
              SkipNamed, SkipPrimitive, UndefinedName, UndefinedField, Link, CopyBody, vars
<1> QED
  BY <1>1, <1>2, <1>3, <1>4 DEF Next

(* The module at hand leads to the node at hand.                           *)
LEMMA HereIsNear ==
  ASSUME TypeInv, ItemsInv, Doing("node"), Here \notin DOMAIN name,
         NameAt(Here) \notin Primitives \ Classes
  PROVE  current \in Resolvers(Here)
<1>1. ~ Settled(Here, DOMAIN name)
  BY DEF Settled
<1>2. current \in Nat /\ Here[1] \in Nat
  <2>1. Here \in Nodes /\ schema \in Seq(Module)
    BY HeadFacts DEF TypeInv
  <2>2. <<Here[1], Here[2]>> \in Definitions
    BY <2>1, NodeFacts
  <2>3. Here[1] \in Nat
    BY <2>1, <2>2, DefinitionFacts
  <2> QED
    BY <2>3 DEF TypeInv
<1>3. ~ (Here[1] < current)
  BY <1>1, HeadFits
<1>4. CASE Here[1] > current
  BY <1>4, HeadFits DEF Resolvers
<1> QED
  BY <1>2, <1>3, <1>4 DEF Resolvers

LEMMA CurrentGrows ==
  TypeInv /\ [Next]_vars =>
    /\ schema' = schema /\ current \in Nat /\ current' \in Nat /\ current <= current'
<1> SUFFICES ASSUME TypeInv, [Next]_vars
             PROVE  /\ schema' = schema /\ current \in Nat /\ current' \in Nat
                    /\ current <= current'
  OBVIOUS
<1>1. current \in Nat
  BY DEF TypeInv
<1>2. CASE EndModule
  BY <1>1, <1>2 DEF EndModule
<1>3. CASE ~ EndModule
  <2>1. schema' = schema /\ current' = current
    BY <1>3
    DEF Next, vars, StartModule, BadImport, Finish, EnterAssignment, LeaveTry, SkipNamed,
        SkipPrimitive, BindElsewhere, UndefinedName, Follow, CircularName, Link, Instantiate,
        WrongArity, CopyBody, BindField, UndefinedField
  <2> QED
    BY <1>1, <2>1
<1> QED
  BY <1>2, <1>3

LEMMA BoundStep ==
  TypeInv /\ ItemsInv /\ BoundByOwnOrImporter /\ [Next]_vars => BoundByOwnOrImporter'
<1> SUFFICES ASSUME TypeInv, ItemsInv, BoundByOwnOrImporter, [Next]_vars,
                    NEW n \in DOMAIN name', NameAt(n)' \notin Primitives
             PROVE  \E i \in Resolvers(n)' : i <= current' /\ BindsAs(n, i)'
  BY DEF BoundByOwnOrImporter
<1>1. /\ schema' = schema /\ current \in Nat /\ current' \in Nat /\ current <= current'
  BY CurrentGrows
<1>2. /\ NameAt(n)' = NameAt(n) /\ Resolvers(n)' = Resolvers(n)
      /\ \A i : ScopeOf(i)' = ScopeOf(i) /\ Elsewhere(NameAt(n))' = Elsewhere(NameAt(n))
  BY <1>1, FrozenNames
<1>3. CASE n \in DOMAIN name /\ name'[n] = name[n]
  <2>1. PICK i \in Resolvers(n) : i <= current /\ BindsAs(n, i)
    BY <1>2, <1>3 DEF BoundByOwnOrImporter
  <2>2. i \in Nat
    <3>1. n \in Nodes /\ schema \in Seq(Module)
      BY <1>3 DEF TypeInv, NameTyped
    <3>2. <<n[1], n[2]>> \in Definitions
      BY <3>1, NodeFacts
    <3>3. n[1] \in Nat
      BY <3>1, <3>2, DefinitionFacts
    <3> QED
      BY <3>3 DEF Resolvers, Importers
  <2>3. BindsAs(n, i)'
    BY <1>2, <1>3, <2>1 DEF BindsAs
  <2> QED
    BY <1>1, <1>2, <2>1, <2>2, <2>3
<1>4. CASE n \notin DOMAIN name \/ name'[n] # name[n]
  <2>1. /\ Doing("node") /\ n = Here /\ n \notin DOMAIN name /\ current' = current
        /\ \/ NameAt(n) \in DOMAIN scope /\ name'[n] = scope[NameAt(n)]
           \/ NameAt(n) \notin DOMAIN scope /\ name'[n] \in Elsewhere(NameAt(n))
    BY <1>4, BindingOfStep
  <2>2. current \in Resolvers(n)
    BY <1>2, <2>1, HereIsNear
  <2>3. scope = ScopeOf(current)
    BY <2>1 DEF TypeInv, ScopeTyped, Doing
  <2>4. BindsAs(n, current)'
    BY <1>2, <2>1, <2>3 DEF BindsAs
  <2> QED
    BY <1>1, <1>2, <2>1, <2>2, <2>4
<1> QED
  BY <1>3, <1>4

(* A reference means what its name means to its own module or to an        *)
(* importer resolved before that: no module that comes later changes it.   *)
THEOREM BindingIsNear == Spec => []BoundByOwnOrImporter
<1>1. Init => BoundByOwnOrImporter
  BY DEF Init, BoundByOwnOrImporter
<1> QED
  BY <1>1, TypeInvariant, ItemsInvariant, BoundStep, PTL DEF Spec

-----------------------------------------------------------------------------
(* LinkInv: as long as nothing was thrown, a bound reference of the module *)
(* at hand or of a later one has its link, or it is on the list, or a      *)
(* module whose scope lacks the name has bound it.                         *)

LinkedBy(n, s, done, now) ==
  \/ n \in done
  \/ \E k \in 1 .. Len(s) : s[k].op \in {"link", "copy"} /\ s[k].at = n
  \/ \E i \in Resolvers(n) : i <= now /\ NameAt(n) \notin DOMAIN ScopeOf(i)

Mine(n, now) == n[1] >= now /\ NameAt(n) \notin Classes

LinkInv ==
  /\ phase = "scope" => todo = <<>>
  /\ error = "none" =>
       \A n \in DOMAIN name : Mine(n, current) =>
         LinkedBy(n, todo, linked \cup DOMAIN copies, current)

LEMMA FrozenLinks ==
  ASSUME schema' = schema, phase' = "scope" => todo' = <<>>,
         NEW now, now = current', NEW s, s = todo',
         NEW done, done = linked' \cup DOMAIN copies',
         error' = "none" =>
           \A n \in DOMAIN name' : Mine(n, now) => LinkedBy(n, s, done, now)
  PROVE  LinkInv'
<1>1. ASSUME error' = "none", NEW n \in DOMAIN name', Mine(n, current)'
      PROVE  LinkedBy(n, todo, linked \cup DOMAIN copies, current)'
  <2>1. Mine(n, now)
    BY <1>1, FrozenNames DEF Mine
  <2>2. LinkedBy(n, s, done, now)
    BY <1>1, <2>1
  <2> QED
    BY <2>2, FrozenNames DEF LinkedBy
<1> QED
  BY <1>1 DEF LinkInv

(* A step puts items in the place of the head.                             *)
LEMMA LinksPushed ==
  ASSUME TypeInv, LinkInv, schema' = schema, current' = current, phase' = "resolve",
         todo # <<>>, NEW x \in Seq(Work), todo' = x \o Rest,
         error' = "none" => error = "none",
         NEW done, done = linked' \cup DOMAIN copies', linked \cup DOMAIN copies \subseteq done,
         todo[1].op \in {"link", "copy"} => todo[1].at \in done,
         \A n \in DOMAIN name' \ DOMAIN name : Mine(n, current) =>
           \/ \E k \in 1 .. Len(x) : x[k].op \in {"link", "copy"} /\ x[k].at = n
           \/ current \in Resolvers(n) /\ NameAt(n) \notin DOMAIN ScopeOf(current)
  PROVE  LinkInv'
<1> DEFINE t == todo'
           now == current
<1>1. todo \in Seq(Work) /\ now \in Nat
  BY DEF TypeInv, TodoTyped, TypedList
<1>2. Pushed(x)
  BY <1>1, PushFacts
<1>3. /\ \A k \in 2 .. Len(todo) :
           Len(x) + (k - 1) \in 1 .. Len(t) /\ t[Len(x) + (k - 1)] = todo[k]
      /\ \A j \in 1 .. Len(x) : j \in 1 .. Len(t) /\ t[j] = x[j]
  BY <1>1, <1>2, PushedAt
<1> HIDE DEF t
<1>4. ASSUME error' = "none", NEW n \in DOMAIN name', Mine(n, now)
      PROVE  LinkedBy(n, t, done, now)
  <2>1. CASE n \notin DOMAIN name
    <3>1. \/ \E k \in 1 .. Len(x) : x[k].op \in {"link", "copy"} /\ x[k].at = n
          \/ current \in Resolvers(n) /\ NameAt(n) \notin DOMAIN ScopeOf(current)
      BY <1>4, <2>1
    <3>2. ASSUME NEW k \in 1 .. Len(x), x[k].op \in {"link", "copy"}, x[k].at = n
          PROVE  LinkedBy(n, t, done, now)
      BY <1>3, <3>2 DEF LinkedBy
    <3> QED
      BY <1>1, <3>1, <3>2 DEF LinkedBy
  <2>2. CASE n \in DOMAIN name
    <3>1. LinkedBy(n, todo, linked \cup DOMAIN copies, now)
      BY <1>4, <2>2 DEF LinkInv
    <3>2. ASSUME NEW k \in 1 .. Len(todo), todo[k].op \in {"link", "copy"}, todo[k].at = n
          PROVE  LinkedBy(n, t, done, now)
      <4>1. CASE k = 1
        BY <3>2, <4>1 DEF LinkedBy
      <4>2. CASE k # 1
        <5>1. k \in 2 .. Len(todo)
          BY <4>2
        <5>2. Len(x) + (k - 1) \in 1 .. Len(t) /\ t[Len(x) + (k - 1)] = todo[k]
          BY <1>3, <5>1
        <5> QED
          BY <3>2, <5>2 DEF LinkedBy
      <4> QED
        BY <4>1, <4>2
    <3> QED
      BY <3>1, <3>2 DEF LinkedBy
  <2> QED
    BY <2>1, <2>2
<1> HIDE DEF now
<1> QED
  BY <1>4, FrozenLinks DEF t, now

LEMMA LinkStep == TypeInv /\ ItemsInv /\ LinkInv /\ [Next]_vars => LinkInv'
<1> SUFFICES ASSUME TypeInv, ItemsInv, LinkInv, [Next]_vars PROVE LinkInv'
  OBVIOUS
<1>0. TodoTyped /\ schema \in Seq(Module) /\ todo \in Seq(Work) /\ current \in Nat
  BY DEF TypeInv, TodoTyped, TypedList
<1>1. CASE StartModule
  <2>1. /\ UNCHANGED <<schema, current, name, linked, copies, error>> /\ phase' = "resolve"
        /\ todo = <<>>
    BY <1>1 DEF StartModule, LinkInv
  <2>2. ASSUME error = "none", NEW n \in DOMAIN name, Mine(n, current)
        PROVE  LinkedBy(n, todo', linked \cup DOMAIN copies, current)
    <3>1. LinkedBy(n, <<>>, linked \cup DOMAIN copies, current)
      BY <2>1, <2>2 DEF LinkInv
    <3>2. \A k \in 1 .. Len(<<>>) : FALSE
      OBVIOUS
    <3> QED
      BY <3>1, <3>2 DEF LinkedBy
  <2> QED
    BY <2>1, <2>2, FrozenLinks
<1>2. CASE EndModule
  <2>1. /\ UNCHANGED <<schema, todo, name, linked, copies, error>> /\ todo = <<>>
        /\ current' = current + 1
    BY <1>2 DEF EndModule
  <2>2. ASSUME error = "none", NEW n \in DOMAIN name, Mine(n, current + 1)
        PROVE  LinkedBy(n, todo, linked \cup DOMAIN copies, current + 1)
    <3>1. n[1] \in Nat
      <4>1. n \in Nodes
        BY <2>2 DEF TypeInv, NameTyped
      <4>2. <<n[1], n[2]>> \in Definitions
        BY <1>0, <4>1, NodeFacts
      <4> QED
        BY <1>0, <4>2, DefinitionFacts
    <3>2. Mine(n, current)
      BY <1>0, <2>2, <3>1 DEF Mine
    <3>3. LinkedBy(n, todo, linked \cup DOMAIN copies, current)
      BY <2>2, <3>2 DEF LinkInv
    <3>4. ASSUME NEW i \in Resolvers(n), i <= current PROVE i <= current + 1
      BY <1>0, <3>1, <3>4 DEF Resolvers, Importers
    <3> QED
      BY <3>3, <3>4 DEF LinkedBy
  <2> QED
    BY <2>1, <2>2, FrozenLinks
<1>3. CASE Finish \/ UNCHANGED vars
  <2>1. /\ UNCHANGED <<schema, current, todo, name, linked, copies, error>>
        /\ phase' = "scope" => phase = "scope"
    BY <1>3 DEF Finish, vars
  <2> QED
    BY <2>1, FrozenLinks DEF LinkInv
<1>4. CASE BadImport \/ UndefinedName \/ UndefinedField \/ CircularName \/ WrongArity
  <2>1. error' # "none" /\ phase' # "scope"
    BY <1>4 DEF BadImport, UndefinedName, UndefinedField, CircularName, WrongArity, Throw,
                InScope, Unnamed, FieldReference, Doing
  <2> QED
    BY <2>1 DEF LinkInv
<1>5. CASE LeaveTry \/ SkipNamed \/ Link \/ CopyBody \/ BindField
  <2>1. /\ todo # <<>> /\ todo' = Rest /\ todo[1].at = Here /\ phase' = "resolve"
        /\ UNCHANGED <<schema, current, error>>
    BY <1>0, <1>5, HeadFacts
    DEF LeaveTry, SkipNamed, Link, CopyBody, BindField, FieldReference, Doing
  <2>2. /\ linked \cup DOMAIN copies \subseteq linked' \cup DOMAIN copies'
        /\ todo[1].op \in {"link", "copy"} => Here \in linked' \cup DOMAIN copies'
    <3>1. CASE LeaveTry \/ SkipNamed \/ BindField
      BY <1>0, <3>1, HeadFacts DEF LeaveTry, SkipNamed, BindField, FieldReference
    <3>2. CASE Link
      BY <3>2 DEF Link
    <3>3. CASE CopyBody
      BY <3>3 DEF CopyBody, Bound
    <3> QED
      BY <1>5, <3>1, <3>2, <3>3
  <2>3. ASSUME NEW n \in DOMAIN name' \ DOMAIN name PROVE ~ Mine(n, current)
    <3>1. CASE LeaveTry \/ SkipNamed \/ Link \/ CopyBody
      BY <2>3, <3>1 DEF LeaveTry, SkipNamed, Link, CopyBody
    <3>2. CASE BindField
      BY <2>3, <3>2 DEF BindField, FieldReference, Bound, Mine
    <3> QED
      BY <1>5, <3>1, <3>2
  <2>4. Rest \in Seq(Work) /\ <<>> \in Seq(Work)
    BY <1>0, <2>1, HeadTailProperties DEF Rest
  <2>5. todo' = <<>> \o Rest
    BY <2>1, <2>4
  <2> QED
    BY <2>1, <2>2, <2>3, <2>4, <2>5, LinksPushed
<1>6. CASE EnterAssignment \/ SkipPrimitive
  <2>1. /\ todo # <<>> /\ todo[1].op \notin {"link", "copy"} /\ phase' = "resolve"
        /\ UNCHANGED <<schema, current, name, linked, copies, error>>
    BY <1>0, <1>6, HeadFacts DEF EnterAssignment, SkipPrimitive, Unnamed, Doing
  <2>2. PICK x \in Seq(Work) : todo' = x \o Rest
    <3>1. CASE EnterAssignment
      BY <3>1, EnterAdded
    <3>2. CASE SkipPrimitive
      BY <3>2, ArgsAdded DEF SkipPrimitive, Unnamed
    <3> QED
      BY <1>6, <3>1, <3>2
  <2> QED
    BY <2>1, <2>2, LinksPushed
<1>7. CASE BindElsewhere
  <2>1. /\ todo # <<>> /\ todo[1].op = "node" /\ phase' = "resolve" /\ todo' = Args \o Rest
        /\ UNCHANGED <<schema, current, linked, copies, error>> /\ Doing("node")
        /\ scope = ScopeOf(current) /\ NameAt(Here) \notin DOMAIN scope
        /\ Here \notin DOMAIN name /\ NameAt(Here) \notin Primitives
        /\ DOMAIN name' = DOMAIN name \cup {Here}
    BY <1>0, <1>7, HeadFacts
    DEF BindElsewhere, Unnamed, Doing, Bound, TypeInv, ScopeTyped
  <2>2. Args \in Seq(Work)
    BY <2>1, ArgsAdded
  <2>3. ASSUME NEW n \in DOMAIN name' \ DOMAIN name
        PROVE  current \in Resolvers(n) /\ NameAt(n) \notin DOMAIN ScopeOf(current)
    BY <2>1, <2>3, HereIsNear
  <2> QED
    BY <2>1, <2>2, <2>3, LinksPushed
<1>8. CASE Follow \/ Instantiate
  <2>1. /\ InScope /\ UNCHANGED <<schema, current, linked, copies, error, phase>>
    BY <1>8 DEF Follow, Instantiate
  <2>2. /\ phase' = "resolve" /\ DOMAIN name' = DOMAIN name \cup {Here}
        /\ todo # <<>> /\ todo[1].op = "node"
    <3>1. Doing("node")
      BY <2>1 DEF InScope, Unnamed
    <3> QED
      BY <1>0, <2>1, <3>1, InScopeFacts, HeadFacts
  <2>3. PICK x \in Seq(Work) :
          /\ todo' = x \o Rest
          /\ \E k \in 1 .. Len(x) : x[k].op \in {"link", "copy"} /\ x[k].at = Here
    <3>1. CASE Follow
      <4>1. PICK x \in Seq(Work) :
              todo' = x \o Rest /\ Len(x) >= 2 /\ x[2] = [op |-> "link", at |-> Here]
        BY <3>1, FollowAdded
      <4>2. 2 \in 1 .. Len(x) /\ x[2].op = "link" /\ x[2].at = Here
        BY <4>1
      <4> QED
        BY <4>1, <4>2
    <3>2. CASE Instantiate
      <4>0. PICK x \in Seq(Work) :
              /\ todo' = x \o Rest
              /\ \E k \in 1 .. Len(x) : x[k] = [op |-> "copy", at |-> Here]
        BY <3>2, InstantiateAdded
      <4>1. PICK k \in 1 .. Len(x) : x[k] = [op |-> "copy", at |-> Here]
        BY <4>0
      <4>2. x[k].op = "copy" /\ x[k].at = Here
        BY <4>1
      <4> QED
        BY <4>0, <4>2
    <3> QED
      BY <1>8, <3>1, <3>2
  <2>4. ASSUME NEW n \in DOMAIN name' \ DOMAIN name
        PROVE  \E k \in 1 .. Len(x) : x[k].op \in {"link", "copy"} /\ x[k].at = n
    BY <2>2, <2>3, <2>4
  <2> QED
    BY <2>1, <2>2, <2>3, <2>4, LinksPushed
<1> QED
  BY <1>1, <1>2, <1>3, <1>4, <1>5, <1>6, <1>7, <1>8 DEF Next

(* A module that is finished without an error has a link for each of its   *)
(* references that its scope names, but for those an importer that came    *)
(* before has bound without one.                                           *)
THEOREM ModulesAreLinked == Spec => []ModuleIsLinked
<1>1. Init => LinkInv
  BY DEF Init, LinkInv
<1>2. TypeInv /\ LinkInv => ModuleIsLinked
  <2> SUFFICES ASSUME TypeInv, LinkInv, phase = "resolve", todo = <<>>, error = "none",
                      NEW n \in NamedInScope
               PROVE  n \in linked \cup DOMAIN copies \/ LeftByImporter(n)
    BY DEF ModuleIsLinked
  <2>1. /\ n \in DOMAIN name /\ n[1] = current /\ NameAt(n) \in DOMAIN ScopeOf(n[1])
        /\ NameAt(n) \notin Classes
    BY DEF NamedInScope, TypeInv, ScopeTyped
  <2>2. Mine(n, current)
    BY <2>1 DEF Mine, TypeInv
  <2>3. LinkedBy(n, <<>>, linked \cup DOMAIN copies, current)
    BY <2>1, <2>2 DEF LinkInv
  <2>4. \A k \in 1 .. Len(<<>>) : FALSE
    OBVIOUS
  <2> QED
    BY <2>1, <2>3, <2>4 DEF LinkedBy, LeftByImporter, Resolvers
<1> QED
  BY <1>1, <1>2, TypeInvariant, ItemsInvariant, LinkStep, PTL DEF Spec

-----------------------------------------------------------------------------
(* ErrorsAreTrue, first part: an undefined name.                           *)

LEMMA FrozenDefinitions ==
  ASSUME schema' = schema
  PROVE  /\ \A s : DefinitionOf(s)' = DefinitionOf(s)
         /\ \A d : Assigned(d)' = Assigned(d)
         /\ Parameterless' = Parameterless
<1>1. \A s : DefinitionOf(s)' = DefinitionOf(s)
  BY Frozen DEF DefinitionOf, SymbolOf, Assigned
<1>2. \A d : Assigned(d)' = Assigned(d)
  BY DEF Assigned
<1>3. Parameterless' = Parameterless
  BY Frozen, FrozenNames DEF Parameterless
<1> QED
  BY <1>1, <1>2, <1>3

LEMMA FrozenMissing ==
  ASSUME schema' = schema, HasMissing
  PROVE  HasMissing'
<1>1. PICK n \in Nodes : Missing(n)
  BY DEF HasMissing
<1>2. \A i : MissesField(n, i)' = MissesField(n, i)
  BY FrozenNames, FrozenDefinitions DEF MissesField
<1>3. n \in Nodes' /\ Missing(n)'
  BY <1>1, <1>2, FrozenNames, Frozen DEF Missing
<1> QED
  BY <1>3 DEF HasMissing

(* Outside parameterized types what is thrown over a name is true.         *)
LEMMA UndefinedIsThere ==
  ASSUME TypeInv, ItemsInv, UndefinedName \/ UndefinedField, ~ IsParameterized(Here)
  PROVE  HasMissing
<1>1. CASE UndefinedName
  <2>1. Doing("node") /\ NameAt(Here) \notin Classes \cup Primitives /\ Elsewhere(NameAt(Here)) = {}
    BY <1>1 DEF UndefinedName, Unnamed
  <2>2. Here \in Nodes
    BY <2>1, HeadFacts DEF TypeInv
  <2>3. Missing(Here)
    BY <2>1 DEF Missing
  <2> QED
    BY <2>2, <2>3 DEF HasMissing
<1>2. CASE UndefinedField
  <2>1. /\ Doing("node") /\ Here \notin DOMAIN name
        /\ NameAt(Here) \in Classes /\ ~ FieldIsKnown(NameAt(Here))
    BY <1>2 DEF UndefinedField, FieldReference
  <2>2. Here \in Nodes /\ scope = ScopeOf(current)
    BY <2>1, HeadFacts DEF TypeInv, ScopeTyped, Doing
  <2>3. current \in Resolvers(Here)
    BY <2>1, HereIsNear
  <2>4. ASSUME NameAt(Here) \in DOMAIN scope
        PROVE  \E r \in Range(Assigned(DefinitionOf(scope[NameAt(Here)])).refs) :
                 r.name \notin DOMAIN scope \cup Primitives
    <3> DEFINE d == DefinitionOf(scope[NameAt(Here)])
    <3>1. ~ (FieldTypes(NameAt(Here)) \subseteq DOMAIN scope)
      BY <2>1, <2>4 DEF FieldIsKnown
    <3>2. PICK f \in Range(BodyNodes(d)) : RefOf(f).name \notin DOMAIN scope \cup Primitives
      BY <3>1 DEF FieldTypes
    <3>3. PICK k \in DOMAIN Assigned(d).refs : f = <<d[1], d[2], k, 0>>
      BY DEF Range, BodyNodes
    <3>4. RefOf(f) = Assigned(d).refs[k]
      BY <3>3 DEF RefOf, Assigned
    <3>5. RefOf(f) \in Range(Assigned(d).refs)
      BY <3>4 DEF Range
    <3> QED
      BY <3>2, <3>5
  <2>5. MissesField(Here, current)
    BY <2>2, <2>4 DEF MissesField
  <2>6. Missing(Here)
    BY <2>1, <2>3, <2>5 DEF Missing
  <2> QED
    BY <2>2, <2>6 DEF HasMissing
<1> QED
  BY <1>1, <1>2

LEMMA UndefinedStep ==
  TypeInv /\ ItemsInv /\ UndefinedMeansMissing /\ [Next]_vars => UndefinedMeansMissing'
<1> SUFFICES ASSUME TypeInv, ItemsInv, UndefinedMeansMissing, [Next]_vars,
                    phase' = "failed", error' = "undefined"
             PROVE  HasMissing'
  BY DEF UndefinedMeansMissing
<1>0. schema' = schema
  BY CurrentGrows
<1>1. CASE UNCHANGED vars
  BY <1>0, <1>1, FrozenMissing DEF vars, UndefinedMeansMissing
<1>2. CASE UndefinedName \/ UndefinedField
  <2>1. Doing("node") /\ Catches = {}
    BY <1>2 DEF UndefinedName, UndefinedField, Unnamed, FieldReference, Throw, Doing
  <2>2. ~ IsParameterized(Here)
    BY <2>1, HeadFits
  <2> QED
    BY <1>0, <1>2, <2>2, UndefinedIsThere, FrozenMissing
<1>3. CASE \/ StartModule \/ BadImport \/ EndModule \/ Finish \/ EnterAssignment \/ LeaveTry
           \/ SkipNamed \/ SkipPrimitive \/ BindElsewhere \/ Follow \/ CircularName \/ Link
           \/ Instantiate \/ WrongArity \/ CopyBody \/ BindField
  BY <1>3
  DEF StartModule, BadImport, EndModule, Finish, EnterAssignment, LeaveTry, SkipNamed,
      SkipPrimitive, BindElsewhere, Follow, CircularName, Link, Instantiate, WrongArity,
      CopyBody, BindField, FieldReference, InScope, Unnamed, Doing, Throw
<1> QED
  BY <1>1, <1>2, <1>3 DEF Next

LEMMA UndefinedIsMissing == Spec => []UndefinedMeansMissing
<1>1. Init => UndefinedMeansMissing
  BY DEF Init, UndefinedMeansMissing
<1> QED
  BY <1>1, TypeInvariant, ItemsInvariant, UndefinedStep, PTL DEF Spec

-----------------------------------------------------------------------------
(* ChainInv: between two calls that wait to return, the work is in the     *)
(* definition that the outer one resolves.                                 *)

DefinitionAt(i) == <<i.at[1], i.at[2]>>

Chain(s, to) ==
  \A k \in 1 .. Len(s) : s[k].op = "link" =>
    \A j \in 1 .. k - 1 :
      (\A i \in j + 1 .. k - 1 : s[i].op # "link") => DefinitionAt(s[j]) = DefinitionOf(to[s[k].at])

ChainInv == Chain(todo, name)

LEMMA FrozenChain ==
  ASSUME schema' = schema, NEW s, s = todo', NEW to, to = name', Chain(s, to)
  PROVE  ChainInv'
BY FrozenDefinitions DEF ChainInv, Chain, DefinitionAt

LEMMA ChainPushed ==
  ASSUME TypeInv, ChainInv, schema' = schema, todo # <<>>,
         \A m \in DOMAIN name : name'[m] = name[m],
         NEW x \in Seq(Work), todo' = x \o Rest, Chain(x, name'),
         \A j \in 1 .. Len(x) :
           (\A i \in j + 1 .. Len(x) : x[i].op # "link") =>
             DefinitionAt(x[j]) = DefinitionAt(todo[1])
  PROVE  ChainInv'
<1> DEFINE t == todo'
           to == name'
<1>1. todo \in Seq(Work) /\ Len(todo) \in Nat \ {0} /\ Len(x) \in Nat
  BY DEF TypeInv, TodoTyped, TypedList
<1>2. Pushed(x)
  BY <1>1, PushFacts
<1>3. /\ \A k \in 2 .. Len(todo) :
           Len(x) + (k - 1) \in 1 .. Len(t) /\ t[Len(x) + (k - 1)] = todo[k]
      /\ \A j \in 1 .. Len(x) : j \in 1 .. Len(t) /\ t[j] = x[j]
      /\ \A j \in 1 .. Len(t) :
           \/ j \in 1 .. Len(x) /\ t[j] = x[j]
           \/ \E k \in 2 .. Len(todo) : j = Len(x) + (k - 1) /\ t[j] = todo[k]
  BY <1>1, <1>2, PushedAt
<1>4. ASSUME NEW k \in 1 .. Len(todo), todo[k].op = "link"
      PROVE  to[todo[k].at] = name[todo[k].at]
  <2>1. Typed(todo[k], DOMAIN name)
    BY DEF TypeInv, TodoTyped, TypedList
  <2> QED
    BY <1>4, <2>1 DEF Typed
<1>0. Chain(x, to)
  OBVIOUS
<1> HIDE DEF t, to
<1>5. ASSUME NEW k \in 1 .. Len(t), t[k].op = "link", NEW j \in 1 .. k - 1,
             \A i \in j + 1 .. k - 1 : t[i].op # "link"
      PROVE  DefinitionAt(t[j]) = DefinitionOf(to[t[k].at])
  <2>0. k \in Int /\ j \in 1 .. Len(t)
    OBVIOUS
  <2>1. CASE k \in 1 .. Len(x)
    <3>1. j \in 1 .. Len(x) /\ t[j] = x[j] /\ t[k] = x[k]
      BY <1>1, <1>3, <2>1
    <3>2. ASSUME NEW i \in j + 1 .. k - 1 PROVE x[i].op # "link"
      <4>1. i \in 1 .. Len(x)
        BY <1>1, <2>1
      <4> QED
        BY <1>3, <1>5, <4>1
    <3> QED
      BY <1>0, <1>5, <2>1, <3>1, <3>2 DEF Chain
  <2>2. ASSUME NEW b \in 2 .. Len(todo), k = Len(x) + (b - 1), t[k] = todo[b]
        PROVE  DefinitionAt(t[j]) = DefinitionOf(to[t[k].at])
    <3>1. b \in 1 .. Len(todo) /\ todo[b].op = "link"
      BY <1>5, <2>2
    <3>2. to[t[k].at] = name[todo[b].at]
      BY <1>4, <2>2, <3>1
    <3>3. \A a \in 1 .. b - 1 :
            (\A i \in a + 1 .. b - 1 : todo[i].op # "link") =>
               DefinitionAt(todo[a]) = DefinitionOf(name[todo[b].at])
      BY <3>1 DEF ChainInv, Chain
    <3>4. ASSUME NEW i \in 2 .. b - 1, Len(x) + (i - 1) > j PROVE todo[i].op # "link"
      <4>1. i \in 2 .. Len(todo)
        BY <1>1
      <4>2. t[Len(x) + (i - 1)] = todo[i]
        BY <1>3, <4>1
      <4>3. Len(x) + (i - 1) \in j + 1 .. k - 1
        BY <1>1, <2>2, <3>4
      <4> QED
        BY <1>5, <4>2, <4>3
    <3>5. CASE j \in 1 .. Len(x) /\ t[j] = x[j]
      <4>1. \A i \in 1 + 1 .. b - 1 : todo[i].op # "link"
        <5> TAKE i \in 1 + 1 .. b - 1
        <5>1. i \in 2 .. b - 1 /\ Len(x) + (i - 1) > j
          BY <1>1, <3>5
        <5> QED
          BY <3>4, <5>1
      <4>2. 1 \in 1 .. b - 1
        BY <1>1
      <4>3. DefinitionAt(todo[1]) = DefinitionOf(name[todo[b].at])
        BY <3>3, <4>1, <4>2
      <4>4. ASSUME NEW i \in j + 1 .. Len(x) PROVE x[i].op # "link"
        <5>1. i \in 1 .. Len(x) /\ i \in j + 1 .. k - 1
          BY <1>1, <2>2, <3>5
        <5> QED
          BY <1>3, <1>5, <5>1
      <4>5. DefinitionAt(x[j]) = DefinitionAt(todo[1])
        BY <3>5, <4>4
      <4> QED
        BY <3>2, <3>5, <4>3, <4>5
    <3>6. ASSUME NEW a \in 2 .. Len(todo), j = Len(x) + (a - 1), t[j] = todo[a]
          PROVE  DefinitionAt(t[j]) = DefinitionOf(to[t[k].at])
      <4>1. a \in 1 .. b - 1
        BY <1>1, <2>2, <3>6
      <4>2. \A i \in a + 1 .. b - 1 : todo[i].op # "link"
        <5> TAKE i \in a + 1 .. b - 1
        <5>1. i \in 2 .. b - 1 /\ Len(x) + (i - 1) > j
          BY <1>1, <3>6
        <5> QED
          BY <3>4, <5>1
      <4> QED
        BY <3>2, <3>3, <3>6, <4>1, <4>2
    <3> QED
      BY <1>3, <2>0, <3>5, <3>6
  <2> QED
    BY <1>3, <2>1, <2>2
<1>6. Chain(t, to)
  BY <1>5 DEF Chain
<1> QED
  BY <1>6, FrozenChain DEF t, to

LEMMA ChainDropped ==
  ASSUME TypeInv, ChainInv, schema' = schema, todo # <<>>, todo' = AfterCatch,
         \A m \in DOMAIN name : name'[m] = name[m]
  PROVE  ChainInv'
<1> DEFINE t == todo'
           to == name'
<1>1. todo \in Seq(Work) /\ Len(todo) \in Nat \ {0}
  BY DEF TypeInv, TodoTyped, TypedList
<1>2. PICK c \in 1 .. Len(todo) : Dropped(c)
  BY <1>1, DropFacts
<1>3. /\ \A k \in c + 1 .. Len(todo) : k - c \in 1 .. Len(t) /\ t[k - c] = todo[k]
      /\ \A j \in 1 .. Len(t) : \E k \in c + 1 .. Len(todo) : j = k - c /\ t[j] = todo[k]
  BY <1>1, <1>2, DroppedAt
<1>4. ASSUME NEW k \in 1 .. Len(todo), todo[k].op = "link"
      PROVE  to[todo[k].at] = name[todo[k].at]
  <2>1. Typed(todo[k], DOMAIN name)
    BY DEF TypeInv, TodoTyped, TypedList
  <2> QED
    BY <1>4, <2>1 DEF Typed
<1> HIDE DEF t, to
<1>5. ASSUME NEW k \in 1 .. Len(t), t[k].op = "link", NEW j \in 1 .. k - 1,
             \A i \in j + 1 .. k - 1 : t[i].op # "link"
      PROVE  DefinitionAt(t[j]) = DefinitionOf(to[t[k].at])
  <2>1. PICK b \in c + 1 .. Len(todo) : k = b - c /\ t[k] = todo[b]
    BY <1>3
  <2>2. j \in 1 .. Len(t)
    OBVIOUS
  <2>3. PICK a \in c + 1 .. Len(todo) : j = a - c /\ t[j] = todo[a]
    BY <1>3, <2>2
  <2>4. b \in 1 .. Len(todo) /\ a \in 1 .. b - 1
    BY <1>1, <2>1, <2>3
  <2>5. ASSUME NEW i \in a + 1 .. b - 1 PROVE todo[i].op # "link"
    <3>1. i \in c + 1 .. Len(todo) /\ i - c \in j + 1 .. k - 1
      BY <1>1, <2>1, <2>3
    <3>2. t[i - c] = todo[i]
      BY <1>3, <3>1
    <3> QED
      BY <1>5, <3>1, <3>2
  <2>6. DefinitionAt(todo[a]) = DefinitionOf(name[todo[b].at])
    BY <1>5, <2>1, <2>4, <2>5 DEF ChainInv, Chain
  <2> QED
    BY <1>4, <1>5, <2>1, <2>3, <2>4, <2>6
<1>6. Chain(t, to)
  BY <1>5 DEF Chain
<1> QED
  BY <1>6, FrozenChain DEF t, to

(* Items that are all in one definition and make no call.                  *)
LEMMA ChainOfArgs ==
  ASSUME TypeInv, ChainInv, schema' = schema, todo # <<>>,
         \A m \in DOMAIN name : name'[m] = name[m],
         NEW x \in Seq(Work), todo' = x \o Rest,
         \A k \in 1 .. Len(x) : x[k].op # "link" /\ DefinitionAt(x[k]) = DefinitionAt(todo[1])
  PROVE  ChainInv'
<1>1. Chain(x, name')
  BY DEF Chain
<1> QED
  BY <1>1, ChainPushed

LEMMA NodeIsAt ==
  ASSUME schema \in Seq(Module), NEW n \in Nodes, NEW i, NodeOf(i, ArgNodes(n))
  PROVE  i.op = "node" /\ DefinitionAt(i) = <<n[1], n[2]>>
BY ArgOf DEF NodeOf, DefinitionAt

LEMMA ChainFollowed ==
  ASSUME TypeInv, ChainInv, Follow
  PROVE  ChainInv'
<1> DEFINE d == DefinitionOf(Target)
<1>1. InScope /\ schema' = schema /\ Doing("node") /\ schema \in Seq(Module)
  BY DEF Follow, InScope, Unnamed, TypeInv
<1>2. /\ Here \in Nodes /\ d \in Definitions /\ name'[Here] = Target
      /\ \A m \in DOMAIN name : name'[m] = name[m]
  BY <1>1, InScopeFacts
<1>3. todo[1].at = Here
  BY <1>1, HeadFacts DEF TypeInv
<1>4. /\ todo # <<>>
      /\ \E x \in Seq(Work) :
           /\ todo' = x \o Rest
           /\ Len(x) >= 2
           /\ x[1] = [op |-> "assignment", at |-> d]
           /\ x[2] = [op |-> "link", at |-> Here]
           /\ \A k \in 3 .. Len(x) : NodeOf(x[k], ArgNodes(Here))
  BY FollowAdded
<1>5. PICK x \in Seq(Work) :
           /\ todo' = x \o Rest
           /\ Len(x) >= 2
           /\ x[1] = [op |-> "assignment", at |-> d]
           /\ x[2] = [op |-> "link", at |-> Here]
           /\ \A k \in 3 .. Len(x) : NodeOf(x[k], ArgNodes(Here))
  BY <1>4
<1>6. x[1].op = "assignment" /\ x[1].at = d /\ x[2].op = "link" /\ x[2].at = Here /\ Len(x) \in Nat
  BY <1>5
<1>7. d = <<d[1], d[2]>>
  BY <1>1, <1>2, DefinitionFacts
<1> HIDE DEF d
<1>8. \A k \in 3 .. Len(x) : x[k].op = "node" /\ DefinitionAt(x[k]) = <<Here[1], Here[2]>>
  BY <1>1, <1>2, <1>5, NodeIsAt
<1>9. Chain(x, name')
  <2> SUFFICES ASSUME NEW k \in 1 .. Len(x), x[k].op = "link", NEW j \in 1 .. k - 1
               PROVE  DefinitionAt(x[j]) = DefinitionOf(name'[x[k].at])
    BY DEF Chain
  <2>1. k = 2 /\ j = 1
    <3>1. k = 1 \/ k = 2 \/ k \in 3 .. Len(x)
      BY <1>6
    <3>2. k = 2
      BY <1>6, <1>8, <3>1
    <3> QED
      BY <3>2
  <2> QED
    BY <1>2, <1>6, <1>7, <2>1 DEF DefinitionAt, d
<1>10. ASSUME NEW j \in 1 .. Len(x), \A i \in j + 1 .. Len(x) : x[i].op # "link"
       PROVE  DefinitionAt(x[j]) = DefinitionAt(todo[1])
  <2>1. j # 1
    <3>1. j = 1 => 2 \in j + 1 .. Len(x)
      BY <1>5, <1>6
    <3> QED
      BY <1>6, <1>10, <3>1
  <2>2. j = 2 \/ j \in 3 .. Len(x)
    BY <1>6, <2>1
  <2> QED
    BY <1>3, <1>6, <1>8, <2>2 DEF DefinitionAt
<1> QED
  BY <1>1, <1>2, <1>4, <1>5, <1>9, <1>10, ChainPushed

LEMMA ChainStep == TypeInv /\ ChainInv /\ [Next]_vars => ChainInv'
<1> SUFFICES ASSUME TypeInv, ChainInv, [Next]_vars PROVE ChainInv'
  OBVIOUS
<1>0. TodoTyped /\ schema \in Seq(Module) /\ todo \in Seq(Work)
  BY DEF TypeInv, TodoTyped, TypedList
<1>1. CASE StartModule
  <2> DEFINE t == todo'
  <2>1. ASSUME NEW k \in 1 .. Len(t) PROVE t[k].op # "link"
    <3>1. t[k] = [op |-> "assignment", at |-> <<current, k>>]
      BY <1>1, StartAdded
    <3> QED
      BY <3>1
  <2> HIDE DEF t
  <2>2. Chain(t, name')
    BY <2>1 DEF Chain
  <2> QED
    BY <1>1, <2>2, FrozenChain DEF StartModule, t
<1>2. CASE BadImport \/ EndModule \/ Finish \/ UNCHANGED vars
  <2>1. UNCHANGED <<schema, todo, name>>
    BY <1>2 DEF BadImport, EndModule, Finish, vars
  <2> QED
    BY <2>1, FrozenChain DEF ChainInv
<1>3. CASE LeaveTry \/ Link \/ CopyBody \/ SkipNamed \/ BindField
  <2>1. todo # <<>> /\ todo' = Rest /\ schema' = schema
    BY <1>0, <1>3, HeadFacts DEF LeaveTry, Link, CopyBody, SkipNamed, BindField, FieldReference
  <2>2. \A m \in DOMAIN name : name'[m] = name[m]
    BY <1>3 DEF LeaveTry, Link, CopyBody, SkipNamed, BindField, FieldReference, Bound
  <2>3. Rest \in Seq(Work) /\ <<>> \in Seq(Work)
    BY <1>0, <2>1, HeadTailProperties DEF Rest
  <2>4. todo' = <<>> \o Rest /\ \A k \in 1 .. Len(<<>>) : FALSE
    BY <2>1, <2>3
  <2> QED
    BY <2>1, <2>2, <2>3, <2>4, ChainOfArgs
<1>4. CASE UndefinedName \/ UndefinedField \/ CircularName \/ WrongArity
  <2>1. todo # <<>> /\ schema' = schema /\ todo' = AfterCatch
    BY <1>0, <1>4, HeadFacts
    DEF UndefinedName, UndefinedField, CircularName, WrongArity, InScope, Unnamed,
        FieldReference, Throw
  <2>2. \A m \in DOMAIN name : name'[m] = name[m]
    BY <1>4 DEF UndefinedName, UndefinedField, CircularName, WrongArity, InScope, Unnamed, Bound
  <2> QED
    BY <2>1, <2>2, ChainDropped
<1>5. CASE SkipPrimitive \/ BindElsewhere
  <2>1. /\ todo # <<>> /\ todo[1].at = Here /\ Here \in Nodes
        /\ todo' = Args \o Rest /\ schema' = schema /\ Doing("node")
    BY <1>0, <1>5, HeadFacts DEF SkipPrimitive, BindElsewhere, Unnamed
  <2>2. \A m \in DOMAIN name : name'[m] = name[m]
    BY <1>5 DEF SkipPrimitive, BindElsewhere, Unnamed, Bound
  <2>3. Args \in Seq(Work) /\ \A k \in 1 .. Len(Args) : NodeOf(Args[k], ArgNodes(Here))
    BY <2>1, ArgsAdded
  <2>4. ASSUME NEW k \in 1 .. Len(Args)
        PROVE  Args[k].op # "link" /\ DefinitionAt(Args[k]) = DefinitionAt(todo[1])
    <3>1. NodeOf(Args[k], ArgNodes(Here))
      BY <2>3
    <3>2. Args[k].op = "node" /\ DefinitionAt(Args[k]) = <<Here[1], Here[2]>>
      BY <1>0, <2>1, <3>1, NodeIsAt
    <3> QED
      BY <2>1, <3>2 DEF DefinitionAt
  <2> QED
    BY <2>1, <2>2, <2>3, <2>4, ChainOfArgs
<1>6. CASE Instantiate
  <2>1. InScope /\ schema' = schema /\ Doing("node")
    BY <1>6 DEF Instantiate, InScope, Unnamed
  <2>2. /\ todo # <<>> /\ todo[1].at = Here /\ Here \in Nodes
        /\ \A m \in DOMAIN name : name'[m] = name[m]
    BY <1>0, <2>1, InScopeFacts, HeadFacts
  <2>3. PICK x \in Seq(Work) :
          /\ todo' = x \o Rest
          /\ \A k \in 1 .. Len(x) :
               \/ NodeOf(x[k], ArgNodes(Here))
               \/ x[k] = [op |-> "copy", at |-> Here]
    BY <1>6, InstantiateAdded
  <2>4. ASSUME NEW k \in 1 .. Len(x)
        PROVE  x[k].op # "link" /\ DefinitionAt(x[k]) = DefinitionAt(todo[1])
    <3>1. CASE NodeOf(x[k], ArgNodes(Here))
      <4>1. x[k].op = "node" /\ DefinitionAt(x[k]) = <<Here[1], Here[2]>>
        BY <1>0, <2>2, <3>1, NodeIsAt
      <4> QED
        BY <2>2, <4>1 DEF DefinitionAt
    <3>2. CASE x[k] = [op |-> "copy", at |-> Here]
      <4>1. x[k].op = "copy" /\ x[k].at = Here
        BY <3>2
      <4> QED
        BY <2>2, <4>1 DEF DefinitionAt
    <3> QED
      BY <2>3, <3>1, <3>2
  <2> QED
    BY <2>1, <2>2, <2>3, <2>4, ChainOfArgs
<1>7. CASE EnterAssignment
  <2>1. /\ todo # <<>> /\ todo[1].at = Here /\ Here \in Definitions
        /\ UNCHANGED <<schema, name>>
    BY <1>0, <1>7, HeadFacts DEF EnterAssignment
  <2>2. PICK x \in Seq(Work) :
          /\ todo' = x \o Rest
          /\ \A k \in 1 .. Len(x) :
               \/ NodeOf(x[k], BodyNodes(Here))
               \/ IsParameterized(Here) /\ x[k] = [op |-> "catch", at |-> Here]
    BY <1>7, EnterAdded
  <2>3. ASSUME NEW k \in 1 .. Len(x)
        PROVE  x[k].op # "link" /\ DefinitionAt(x[k]) = DefinitionAt(todo[1])
    <3>1. CASE NodeOf(x[k], BodyNodes(Here))
      BY <1>0, <2>1, <3>1, BodyOf DEF NodeOf, DefinitionAt
    <3>2. CASE x[k] = [op |-> "catch", at |-> Here]
      <4>1. x[k].op = "catch" /\ x[k].at = Here
        BY <3>2
      <4> QED
        BY <2>1, <4>1 DEF DefinitionAt
    <3> QED
      BY <2>2, <3>1, <3>2
  <2> QED
    BY <2>1, <2>2, <2>3, ChainOfArgs
<1> QED
  BY <1>1, <1>2, <1>3, <1>4, <1>5, <1>6, <1>7, ChainFollowed DEF Next

LEMMA ChainInvariant == Spec => []ChainInv
<1>1. Init => ChainInv
  BY DEF Init, ChainInv, Chain
<1> QED
  BY <1>1, TypeInvariant, ChainStep, PTL DEF Spec

-----------------------------------------------------------------------------
(* Behind the end of a try block, and behind a body that is to be resolved *)
(* in one, there are only assignments: no call waits there to return.      *)

EndsTry(i) == i.op = "catch" \/ (i.op = "assignment" /\ IsParameterized(i.at))

Tries(s) ==
  \A j, k \in 1 .. Len(s) : EndsTry(s[j]) /\ j < k => s[k].op = "assignment"

TryInv == Tries(todo)

LEMMA FrozenTries ==
  ASSUME schema' = schema, NEW s, s = todo', Tries(s)
  PROVE  TryInv'
BY FrozenNames DEF TryInv, Tries, EndsTry

LEMMA TriesPushed ==
  ASSUME TypeInv, TryInv, schema' = schema, todo # <<>>, NEW x \in Seq(Work), todo' = x \o Rest,
         \A k \in 1 .. Len(x) : EndsTry(x[k]) => k = Len(x) /\ EndsTry(todo[1])
  PROVE  TryInv'
<1> DEFINE t == todo'
<1>1. todo \in Seq(Work) /\ Len(todo) \in Nat \ {0} /\ Len(x) \in Nat
  BY DEF TypeInv, TodoTyped, TypedList
<1>2. Pushed(x)
  BY <1>1, PushFacts
<1>3. /\ \A j \in 1 .. Len(x) : j \in 1 .. Len(t) /\ t[j] = x[j]
      /\ \A j \in 1 .. Len(t) :
           \/ j \in 1 .. Len(x) /\ t[j] = x[j]
           \/ \E k \in 2 .. Len(todo) : j = Len(x) + (k - 1) /\ t[j] = todo[k]
  BY <1>1, <1>2, PushedAt
<1> HIDE DEF t
<1>4. ASSUME NEW j \in 1 .. Len(t), NEW k \in 1 .. Len(t), EndsTry(t[j]), j < k
      PROVE  t[k].op = "assignment"
  <2>1. CASE j \in 1 .. Len(x) /\ t[j] = x[j]
    <3>1. j = Len(x) /\ EndsTry(todo[1])
      BY <1>4, <2>1
    <3>2. k \notin 1 .. Len(x)
      BY <1>1, <1>4, <3>1
    <3>3. PICK b \in 2 .. Len(todo) : t[k] = todo[b]
      BY <1>3, <3>2
    <3>4. 1 \in 1 .. Len(todo) /\ b \in 1 .. Len(todo) /\ 1 < b
      BY <1>1
    <3> QED
      BY <3>1, <3>3, <3>4 DEF TryInv, Tries
  <2>2. ASSUME NEW a \in 2 .. Len(todo), j = Len(x) + (a - 1), t[j] = todo[a]
        PROVE  t[k].op = "assignment"
    <3>1. k \notin 1 .. Len(x)
      BY <1>1, <1>4, <2>2
    <3>2. PICK b \in 2 .. Len(todo) : k = Len(x) + (b - 1) /\ t[k] = todo[b]
      BY <1>3, <3>1
    <3>3. a \in 1 .. Len(todo) /\ b \in 1 .. Len(todo)
      BY <1>1
    <3>4. a < b
      <4>1. Len(x) + (a - 1) < Len(x) + (b - 1)
        BY <1>4, <2>2, <3>2
      <4> QED
        BY <1>1, <4>1
    <3> QED
      BY <1>4, <2>2, <3>2, <3>3, <3>4 DEF TryInv, Tries
  <2> QED
    BY <1>3, <2>1, <2>2
<1>5. Tries(t)
  BY <1>4 DEF Tries
<1> QED
  BY <1>5, FrozenTries DEF t

(* What a throw leaves on the list are assignments.                        *)
LEMMA OnlyAssignmentsLeft ==
  ASSUME TypeInv, TryInv, todo # <<>>, todo' = AfterCatch
  PROVE  \A j \in 1 .. Len(todo') :
           /\ todo'[j].op = "assignment"
           /\ \E k \in 1 .. Len(todo) : todo'[j] = todo[k]
<1>1. todo \in Seq(Work) /\ Len(todo) \in Nat \ {0} /\ DOMAIN todo = 1 .. Len(todo)
  BY DEF TypeInv, TodoTyped, TypedList
<1>2. CASE Catches = {}
  <2>1. todo' = <<>> /\ Len(<<>>) = 0
    BY <1>2 DEF AfterCatch
  <2> QED
    BY <2>1
<1>3. CASE Catches # {}
  <2>1. PICK c \in Catches : Dropped(c)
    BY <1>1, <1>3, DropFacts
  <2>2. c \in 1 .. Len(todo) /\ todo[c].op = "catch"
    BY <1>1 DEF Catches
  <2> SUFFICES ASSUME NEW j \in 1 .. Len(todo')
               PROVE  /\ todo'[j].op = "assignment"
                      /\ \E k \in 1 .. Len(todo) : todo'[j] = todo[k]
    OBVIOUS
  <2>3. PICK k \in c + 1 .. Len(todo) : todo'[j] = todo[k]
    BY <1>1, <2>1, <2>2, DroppedAt
  <2>4. k \in 1 .. Len(todo) /\ c < k
    BY <1>1, <2>2
  <2>5. todo[k].op = "assignment"
    BY <2>2, <2>4 DEF TryInv, Tries, EndsTry
  <2> QED
    BY <2>3, <2>4, <2>5
<1> QED
  BY <1>2, <1>3

LEMMA TriesDropped ==
  ASSUME TypeInv, TryInv, schema' = schema, todo # <<>>, todo' = AfterCatch
  PROVE  TryInv'
<1> DEFINE t == todo'
<1>1. \A j \in 1 .. Len(t) : t[j].op = "assignment"
  BY OnlyAssignmentsLeft
<1> HIDE DEF t
<1>2. Tries(t)
  BY <1>1 DEF Tries
<1> QED
  BY <1>2, FrozenTries DEF t

LEMMA TryStep == TypeInv /\ TryInv /\ [Next]_vars => TryInv'
<1> SUFFICES ASSUME TypeInv, TryInv, [Next]_vars PROVE TryInv'
  OBVIOUS
<1>0. TodoTyped /\ schema \in Seq(Module) /\ todo \in Seq(Work)
  BY DEF TypeInv, TodoTyped, TypedList
<1>1. CASE StartModule
  <2> DEFINE t == todo'
  <2>1. ASSUME NEW k \in 1 .. Len(t) PROVE t[k].op = "assignment"
    <3>1. t[k] = [op |-> "assignment", at |-> <<current, k>>]
      BY <1>1, StartAdded
    <3> QED
      BY <3>1
  <2> HIDE DEF t
  <2>2. Tries(t)
    BY <2>1 DEF Tries
  <2> QED
    BY <1>1, <2>2, FrozenTries DEF StartModule, t
<1>2. CASE BadImport \/ EndModule \/ Finish \/ UNCHANGED vars
  <2>1. UNCHANGED <<schema, todo>>
    BY <1>2 DEF BadImport, EndModule, Finish, vars
  <2> QED
    BY <2>1, FrozenTries DEF TryInv
<1>3. CASE LeaveTry \/ Link \/ CopyBody \/ SkipNamed \/ BindField
  <2>1. todo # <<>> /\ todo' = Rest /\ schema' = schema
    BY <1>0, <1>3, HeadFacts DEF LeaveTry, Link, CopyBody, SkipNamed, BindField, FieldReference
  <2>2. Rest \in Seq(Work) /\ <<>> \in Seq(Work)
    BY <1>0, <2>1, HeadTailProperties DEF Rest
  <2>3. todo' = <<>> \o Rest /\ \A k \in 1 .. Len(<<>>) : FALSE
    BY <2>1, <2>2
  <2> QED
    BY <2>1, <2>2, <2>3, TriesPushed
<1>4. CASE UndefinedName \/ UndefinedField \/ CircularName \/ WrongArity
  <2>1. todo # <<>> /\ schema' = schema /\ todo' = AfterCatch
    BY <1>0, <1>4, HeadFacts
    DEF UndefinedName, UndefinedField, CircularName, WrongArity, InScope, Unnamed,
        FieldReference, Throw
  <2> QED
    BY <2>1, TriesDropped
<1>5. CASE SkipPrimitive \/ BindElsewhere
  <2>1. todo # <<>> /\ todo' = Args \o Rest /\ schema' = schema /\ Doing("node")
    BY <1>0, <1>5, HeadFacts DEF SkipPrimitive, BindElsewhere, Unnamed
  <2>2. Args \in Seq(Work) /\ \A k \in 1 .. Len(Args) : NodeOf(Args[k], ArgNodes(Here))
    BY <2>1, ArgsAdded
  <2>3. \A k \in 1 .. Len(Args) : ~ EndsTry(Args[k])
    BY <2>2 DEF NodeOf, EndsTry
  <2> QED
    BY <2>1, <2>2, <2>3, TriesPushed
<1>6. CASE Instantiate
  <2>1. schema' = schema
    BY <1>6 DEF Instantiate
  <2>2. todo # <<>> /\ \E x \in Seq(Work) :
          /\ todo' = x \o Rest
          /\ \A k \in 1 .. Len(x) :
               NodeOf(x[k], ArgNodes(Here)) \/ x[k] = [op |-> "copy", at |-> Here]
    BY <1>6, InstantiateAdded
  <2>3. PICK x \in Seq(Work) :
          /\ todo' = x \o Rest
          /\ \A k \in 1 .. Len(x) :
               NodeOf(x[k], ArgNodes(Here)) \/ x[k] = [op |-> "copy", at |-> Here]
    BY <2>2
  <2>4. \A k \in 1 .. Len(x) : ~ EndsTry(x[k])
    BY <2>3 DEF NodeOf, EndsTry
  <2> QED
    BY <2>1, <2>2, <2>3, <2>4, TriesPushed
<1>7. CASE Follow
  <2>1. /\ schema' = schema /\ ~ IsParameterized(DefinitionOf(Target))
    BY <1>7 DEF Follow
  <2>2. todo # <<>> /\ \E x \in Seq(Work) :
          /\ todo' = x \o Rest
          /\ Len(x) >= 2
          /\ x[1] = [op |-> "assignment", at |-> DefinitionOf(Target)]
          /\ x[2] = [op |-> "link", at |-> Here]
          /\ \A k \in 3 .. Len(x) : NodeOf(x[k], ArgNodes(Here))
    BY <1>7, FollowAdded
  <2>3. PICK x \in Seq(Work) :
          /\ todo' = x \o Rest
          /\ Len(x) >= 2
          /\ x[1] = [op |-> "assignment", at |-> DefinitionOf(Target)]
          /\ x[2] = [op |-> "link", at |-> Here]
          /\ \A k \in 3 .. Len(x) : NodeOf(x[k], ArgNodes(Here))
    BY <2>2
  <2>4. /\ ~ EndsTry(x[1]) /\ ~ EndsTry(x[2]) /\ \A k \in 3 .. Len(x) : ~ EndsTry(x[k])
    BY <2>1, <2>3 DEF NodeOf, EndsTry
  <2>5. \A k \in 1 .. Len(x) : ~ EndsTry(x[k])
    <3>1. \A k \in 1 .. Len(x) : k = 1 \/ k = 2 \/ k \in 3 .. Len(x)
      OBVIOUS
    <3> QED
      BY <2>4, <3>1
  <2> QED
    BY <2>1, <2>2, <2>3, <2>5, TriesPushed
<1>8. CASE EnterAssignment
  <2>1. /\ todo # <<>> /\ todo[1].op = "assignment" /\ todo[1].at = Here
        /\ schema' = schema
    BY <1>0, <1>8, HeadFacts DEF EnterAssignment
  <2>2. PICK x \in Seq(Work) :
          /\ todo' = x \o Rest
          /\ \A k \in 1 .. Len(x) :
               \/ NodeOf(x[k], BodyNodes(Here))
               \/ IsParameterized(Here) /\ x[k] = [op |-> "catch", at |-> Here]
          /\ \A k \in 1 .. Len(x) : x[k].op = "catch" => k = Len(x)
    BY <1>8, EnterAdded
  <2>3. ASSUME NEW k \in 1 .. Len(x), EndsTry(x[k])
        PROVE  k = Len(x) /\ EndsTry(todo[1])
    <3>1. x[k].op = "catch" /\ IsParameterized(Here)
      BY <2>2, <2>3 DEF NodeOf, EndsTry
    <3> QED
      BY <2>1, <2>2, <3>1 DEF EndsTry
  <2> QED
    BY <2>1, <2>2, <2>3, TriesPushed
<1> QED
  BY <1>1, <1>2, <1>3, <1>4, <1>5, <1>6, <1>7, <1>8 DEF Next

LEMMA TryInvariant == Spec => []TryInv
<1>1. Init => TryInv
  BY DEF Init, TryInv, Tries
<1> QED
  BY <1>1, TypeInvariant, TryStep, PTL DEF Spec

-----------------------------------------------------------------------------
(* The symbols whose calls wait to return.                                 *)

Called(s, to) == {to[s[k].at] : k \in {j \in 1 .. Len(s) : s[j].op = "link"}}

LEMMA CalledIsPending ==
  ASSUME TypeInv
  PROVE  Called(todo, name) = {name[todo[k].at] : k \in Pending}
<1>1. DOMAIN todo = 1 .. Len(todo)
  BY DEF TypeInv, TodoTyped, TypedList
<1> QED
  BY <1>1 DEF Called, Pending

LEMMA CalledPushed ==
  ASSUME TypeInv, todo # <<>>, \A m \in DOMAIN name : name'[m] = name[m],
         NEW x \in Seq(Work), todo' = x \o Rest, NEW e
  PROVE  e \in Called(todo', name') <=>
           \/ \E k \in 1 .. Len(x) : x[k].op = "link" /\ e = name'[x[k].at]
           \/ \E k \in 2 .. Len(todo) : todo[k].op = "link" /\ e = name[todo[k].at]
<1> DEFINE t == todo'
           to == name'
<1>1. todo \in Seq(Work) /\ Len(todo) \in Nat \ {0}
  BY DEF TypeInv, TodoTyped, TypedList
<1>2. Pushed(x)
  BY <1>1, PushFacts
<1>3. /\ \A k \in 2 .. Len(todo) :
           Len(x) + (k - 1) \in 1 .. Len(t) /\ t[Len(x) + (k - 1)] = todo[k]
      /\ \A j \in 1 .. Len(x) : j \in 1 .. Len(t) /\ t[j] = x[j]
      /\ \A j \in 1 .. Len(t) :
           \/ j \in 1 .. Len(x) /\ t[j] = x[j]
           \/ \E k \in 2 .. Len(todo) : j = Len(x) + (k - 1) /\ t[j] = todo[k]
  BY <1>1, <1>2, PushedAt
<1>4. ASSUME NEW k \in 2 .. Len(todo), todo[k].op = "link"
      PROVE  to[todo[k].at] = name[todo[k].at]
  <2>1. k \in 1 .. Len(todo)
    OBVIOUS
  <2>2. Typed(todo[k], DOMAIN name)
    BY <2>1 DEF TypeInv, TodoTyped, TypedList
  <2> QED
    BY <1>4, <2>2 DEF Typed
<1> HIDE DEF t, to
<1>5. e \in Called(t, to) <=> \E j \in 1 .. Len(t) : t[j].op = "link" /\ e = to[t[j].at]
  BY DEF Called
<1>6. ASSUME NEW j \in 1 .. Len(t), t[j].op = "link", e = to[t[j].at]
      PROVE  \/ \E k \in 1 .. Len(x) : x[k].op = "link" /\ e = to[x[k].at]
             \/ \E k \in 2 .. Len(todo) : todo[k].op = "link" /\ e = name[todo[k].at]
  <2>1. CASE j \in 1 .. Len(x) /\ t[j] = x[j]
    BY <1>6, <2>1
  <2>2. ASSUME NEW k \in 2 .. Len(todo), t[j] = todo[k]
        PROVE  todo[k].op = "link" /\ e = name[todo[k].at]
    BY <1>4, <1>6, <2>2
  <2> QED
    BY <1>3, <2>1, <2>2
<1>7. ASSUME NEW k \in 1 .. Len(x), x[k].op = "link", e = to[x[k].at]
      PROVE  \E j \in 1 .. Len(t) : t[j].op = "link" /\ e = to[t[j].at]
  BY <1>3, <1>7
<1>8. ASSUME NEW k \in 2 .. Len(todo), todo[k].op = "link", e = name[todo[k].at]
      PROVE  \E j \in 1 .. Len(t) : t[j].op = "link" /\ e = to[t[j].at]
  <2> DEFINE j == Len(x) + (k - 1)
  <2>1. j \in 1 .. Len(t) /\ t[j] = todo[k]
    BY <1>3
  <2>2. t[j].op = "link" /\ e = to[t[j].at]
    BY <1>4, <1>8, <2>1
  <2> HIDE DEF j
  <2> QED
    BY <2>1, <2>2
<1> QED
  BY <1>5, <1>6, <1>7, <1>8 DEF t, to

(* The calls that wait to return when the head is not one of them.         *)
LEMMA CalledTail ==
  ASSUME TypeInv, todo # <<>>, todo[1].op # "link", NEW e
  PROVE  e \in Called(todo, name) <=>
           \E k \in 2 .. Len(todo) : todo[k].op = "link" /\ e = name[todo[k].at]
<1>1. todo \in Seq(Work) /\ Len(todo) \in Nat \ {0}
  BY DEF TypeInv, TodoTyped, TypedList
<1>2. \A k \in 1 .. Len(todo) : k = 1 \/ k \in 2 .. Len(todo)
  BY <1>1
<1>3. \A k \in 2 .. Len(todo) : k \in 1 .. Len(todo)
  BY <1>1
<1> QED
  BY <1>2, <1>3 DEF Called

(* Items that make no call leave the calls as they are.                    *)
LEMMA CalledKept ==
  ASSUME TypeInv, todo # <<>>, todo[1].op # "link",
         \A m \in DOMAIN name : name'[m] = name[m],
         NEW x \in Seq(Work), todo' = x \o Rest, \A k \in 1 .. Len(x) : x[k].op # "link"
  PROVE  Called(todo', name') = Called(todo, name)
<1>1. ASSUME NEW e PROVE e \in Called(todo', name') <=> e \in Called(todo, name)
  <2>1. e \in Called(todo', name') <=>
           \/ \E k \in 1 .. Len(x) : x[k].op = "link" /\ e = name'[x[k].at]
           \/ \E k \in 2 .. Len(todo) : todo[k].op = "link" /\ e = name[todo[k].at]
    BY CalledPushed, SMTT(60)
  <2>2. e \in Called(todo, name) <=>
           \E k \in 2 .. Len(todo) : todo[k].op = "link" /\ e = name[todo[k].at]
    BY CalledTail
  <2> QED
    BY <2>1, <2>2
<1> QED
  BY <1>1

LEMMA NoTryBlocks ==
  ASSUME TypeInv, ItemsInv, Parameterless
  PROVE  Catches = {}
<1> SUFFICES ASSUME NEW k \in Catches PROVE FALSE
  OBVIOUS
<1>1. k \in 1 .. Len(todo) /\ todo[k].op = "catch"
  BY DEF Catches, TypeInv, TodoTyped, TypedList
<1>2. Fits(todo[k], DOMAIN name) /\ Typed(todo[k], DOMAIN name)
  BY <1>1 DEF ItemsInv, FitList, TypeInv, TodoTyped, TypedList
<1> QED
  BY <1>1, <1>2 DEF Fits, Typed, Parameterless

LEMMA CalledFrozen ==
  ASSUME NEW s, s = todo', NEW to, to = name'
  PROVE  Called(todo', name') = Called(s, to)
BY DEF Called

(* What a step does to the calls that wait to return and to the path: a    *)
(* throw leaves no call waiting, but what it finds in the path.            *)
Drops == UndefinedName \/ UndefinedField \/ CircularName \/ WrongArity

CallsGo ==
  \/ Called(todo', name') = {} /\ path' = {}
  \/ Called(todo', name') = Called(todo, name) /\ path' = path
  \/ Drops /\ Called(todo', name') = {} /\ path' = path
  \/ /\ ~ IsParameterized(DefinitionOf(Target))
     /\ Called(todo', name') = Called(todo, name) \cup {Target} /\ path' = path \cup {Target}
  \/ \E e : Called(todo', name') = Called(todo, name) \ {e} /\ path' = path \ {e}

LEMMA CalledStep ==
  TypeInv /\ RecursionIsBounded /\ TryInv /\ [Next]_vars => CallsGo
<1> SUFFICES ASSUME TypeInv, RecursionIsBounded, TryInv, [Next]_vars
             PROVE  CallsGo
  OBVIOUS
<1>0. TodoTyped /\ schema \in Seq(Module) /\ todo \in Seq(Work)
  BY DEF TypeInv, TodoTyped, TypedList
<1>1. CASE StartModule
  <2> DEFINE t == todo'
  <2>1. ASSUME NEW k \in 1 .. Len(t) PROVE t[k].op # "link"
    <3>1. t[k] = [op |-> "assignment", at |-> <<current, k>>]
      BY <1>1, StartAdded
    <3> QED
      BY <3>1
  <2>2. path' = {}
    BY <1>1 DEF StartModule
  <2> HIDE DEF t
  <2>3. Called(t, name') = {}
    BY <2>1 DEF Called
  <2> QED
    BY <2>2, <2>3 DEF t, CallsGo
<1>2. CASE BadImport \/ EndModule \/ Finish \/ UNCHANGED vars
  <2>1. UNCHANGED <<todo, name, path>>
    BY <1>2 DEF BadImport, EndModule, Finish, vars
  <2>2. Called(todo', name') = Called(todo, name)
    BY <2>1, CalledFrozen
  <2> QED
    BY <2>1, <2>2 DEF CallsGo
<1>4. CASE LeaveTry \/ CopyBody \/ SkipNamed \/ BindField
  <2>1. /\ todo # <<>> /\ todo' = Rest /\ path' = path /\ todo[1].op # "link"
        /\ phase = "resolve"
    BY <1>0, <1>4, HeadFacts DEF LeaveTry, CopyBody, SkipNamed, BindField, FieldReference, Doing
  <2>2. \A m \in DOMAIN name : name'[m] = name[m]
    BY <1>4 DEF LeaveTry, CopyBody, SkipNamed, BindField, FieldReference, Bound
  <2>3. Rest \in Seq(Work) /\ <<>> \in Seq(Work)
    BY <1>0, <2>1, HeadTailProperties DEF Rest
  <2>4. todo' = <<>> \o Rest /\ \A k \in 1 .. Len(<<>>) : FALSE
    BY <2>1, <2>3
  <2>5. Called(todo', name') = Called(todo, name)
    BY <2>1, <2>2, <2>3, <2>4, CalledKept
  <2> QED
    BY <2>1, <2>5 DEF CallsGo
<1>5. CASE Drops
  <2> DEFINE t == todo'
  <2>1. todo # <<>> /\ todo' = AfterCatch /\ path' = path
    BY <1>0, <1>5, HeadFacts
    DEF Drops, UndefinedName, UndefinedField, CircularName, WrongArity, InScope, Unnamed,
        FieldReference, Throw
  <2>2. \A k \in 1 .. Len(t) : t[k].op = "assignment"
    BY <2>1, OnlyAssignmentsLeft
  <2> HIDE DEF t
  <2>3. Called(t, name') = {}
    BY <2>2 DEF Called
  <2> QED
    BY <1>5, <2>1, <2>3 DEF CallsGo, t
<1>6. CASE SkipPrimitive \/ BindElsewhere
  <2>1. /\ todo # <<>> /\ todo[1].op # "link" /\ path' = path /\ phase = "resolve"
        /\ todo' = Args \o Rest /\ Doing("node")
    BY <1>0, <1>6, HeadFacts DEF SkipPrimitive, BindElsewhere, Unnamed, Doing
  <2>2. \A m \in DOMAIN name : name'[m] = name[m]
    BY <1>6 DEF SkipPrimitive, BindElsewhere, Unnamed, Bound
  <2>3. Args \in Seq(Work) /\ \A k \in 1 .. Len(Args) : Args[k].op # "link"
    BY <2>1, ArgsAdded DEF NodeOf
  <2>4. Called(todo', name') = Called(todo, name)
    BY <2>1, <2>2, <2>3, CalledKept
  <2> QED
    BY <2>1, <2>4 DEF CallsGo
<1>7. CASE Instantiate
  <2>1. InScope /\ Doing("node") /\ path' = path /\ phase = "resolve" /\ schema' = schema
    BY <1>7 DEF Instantiate, InScope, Unnamed, Doing
  <2>2. todo # <<>> /\ todo[1].op # "link" /\ \A m \in DOMAIN name : name'[m] = name[m]
    BY <1>0, <2>1, InScopeFacts, HeadFacts
  <2>3. PICK x \in Seq(Work) :
          /\ todo' = x \o Rest
          /\ \A k \in 1 .. Len(x) :
               \/ NodeOf(x[k], ArgNodes(Here))
               \/ x[k] = [op |-> "copy", at |-> Here]
    BY <1>7, InstantiateAdded
  <2>4. \A k \in 1 .. Len(x) : x[k].op # "link"
    BY <2>3 DEF NodeOf
  <2>5. Called(todo', name') = Called(todo, name)
    BY <2>2, <2>3, <2>4, CalledKept
  <2> QED
    BY <2>1, <2>5 DEF CallsGo
<1>8. CASE EnterAssignment
  <2>1. /\ todo # <<>> /\ todo[1].op # "link" /\ path' = path /\ phase = "resolve"
        /\ \A m \in DOMAIN name : name'[m] = name[m]
    BY <1>0, <1>8, HeadFacts DEF EnterAssignment, Doing
  <2>2. PICK x \in Seq(Work) :
          /\ todo' = x \o Rest
          /\ \A k \in 1 .. Len(x) :
               \/ NodeOf(x[k], BodyNodes(Here))
               \/ IsParameterized(Here) /\ x[k] = [op |-> "catch", at |-> Here]
    BY <1>8, EnterAdded
  <2>3. \A k \in 1 .. Len(x) : x[k].op # "link"
    BY <2>2 DEF NodeOf
  <2>4. Called(todo', name') = Called(todo, name)
    BY <2>1, <2>2, <2>3, CalledKept
  <2> QED
    BY <2>1, <2>4 DEF CallsGo
<1>9. CASE Follow
  <2>1. InScope /\ Doing("node") /\ path' = path \cup {Target} /\ phase = "resolve"
        /\ schema' = schema /\ ~ IsParameterized(DefinitionOf(Target))
    BY <1>9 DEF Follow, InScope, Unnamed, Doing
  <2>2. /\ todo # <<>> /\ todo[1].op # "link" /\ \A m \in DOMAIN name : name'[m] = name[m]
        /\ name'[Here] = Target
    BY <1>0, <2>1, InScopeFacts, HeadFacts
  <2>3. PICK x \in Seq(Work) :
          /\ todo' = x \o Rest
          /\ Len(x) >= 2
          /\ x[1] = [op |-> "assignment", at |-> DefinitionOf(Target)]
          /\ x[2] = [op |-> "link", at |-> Here]
          /\ \A k \in 3 .. Len(x) : NodeOf(x[k], ArgNodes(Here))
    BY <1>9, FollowAdded
  <2>4. /\ x[1].op # "link" /\ x[2].op = "link" /\ x[2].at = Here
        /\ \A k \in 3 .. Len(x) : x[k].op # "link"
        /\ 2 \in 1 .. Len(x) /\ \A k \in 1 .. Len(x) : k = 1 \/ k = 2 \/ k \in 3 .. Len(x)
    BY <2>3 DEF NodeOf
  <2>5. ASSUME NEW e
        PROVE  e \in Called(todo', name') <=> e \in Called(todo, name) \cup {Target}
    <3>1. e \in Called(todo', name') <=>
            \/ \E k \in 1 .. Len(x) : x[k].op = "link" /\ e = name'[x[k].at]
            \/ \E k \in 2 .. Len(todo) : todo[k].op = "link" /\ e = name[todo[k].at]
      <4>1. x \in Seq(Work)
        BY <2>3
      <4>2. todo' = x \o Rest
        BY <2>3
      <4>3. todo # <<>> /\ \A m \in DOMAIN name : name'[m] = name[m]
        BY <2>2
      <4> QED
        BY <4>1, <4>2, <4>3, CalledPushed
    <3>2. e \in Called(todo, name) <=>
            \E k \in 2 .. Len(todo) : todo[k].op = "link" /\ e = name[todo[k].at]
      BY <2>2, CalledTail
    <3>3. (\E k \in 1 .. Len(x) : x[k].op = "link" /\ e = name'[x[k].at]) <=> e = Target
      BY <2>2, <2>4
    <3> QED
      BY <3>1, <3>2, <3>3
  <2>6. Called(todo', name') = Called(todo, name) \cup {Target}
    BY <2>5
  <2> QED
    BY <2>1, <2>6 DEF CallsGo
<1>10. CASE Link
  <2>1. /\ todo # <<>> /\ todo[1].op = "link" /\ todo[1].at = Here /\ todo' = Rest
        /\ name' = name /\ path' = path \ {name[Here]} /\ phase = "resolve"
    BY <1>0, <1>10, HeadFacts DEF Link, Doing
  <2>2. Rest \in Seq(Work) /\ <<>> \in Seq(Work)
    BY <1>0, <2>1, HeadTailProperties DEF Rest
  <2>3. todo' = <<>> \o Rest /\ \A k \in 1 .. Len(<<>>) : FALSE
    BY <2>1, <2>2
  <2>4. Len(todo) \in Nat \ {0} /\ DOMAIN todo = 1 .. Len(todo)
    BY <1>0, <2>1
  <2>5. ASSUME NEW e
        PROVE  e \in Called(todo', name') <=> e \in Called(todo, name) \ {name[Here]}
    <3>1. e \in Called(todo', name') <=>
            \E k \in 2 .. Len(todo) : todo[k].op = "link" /\ e = name[todo[k].at]
      <4>1. PICK x \in Seq(Work) : todo' = x \o Rest /\ \A k \in 1 .. Len(x) : FALSE
        BY <2>2, <2>3
      <4>2. x \in Seq(Work)
        BY <4>1
      <4>3. todo' = x \o Rest
        BY <4>1
      <4>4. todo # <<>> /\ \A m \in DOMAIN name : name'[m] = name[m]
        BY <2>1
      <4>5. e \in Called(todo', name') <=>
              \/ \E k \in 1 .. Len(x) : x[k].op = "link" /\ e = name'[x[k].at]
              \/ \E k \in 2 .. Len(todo) : todo[k].op = "link" /\ e = name[todo[k].at]
        BY <4>2, <4>3, <4>4, CalledPushed
      <4> QED
        BY <4>1, <4>5
    <3>2. e \in Called(todo, name) <=>
            \E k \in 1 .. Len(todo) : todo[k].op = "link" /\ e = name[todo[k].at]
      BY DEF Called
    <3>3. ASSUME NEW k \in 2 .. Len(todo), todo[k].op = "link"
          PROVE  name[todo[k].at] # name[Here] /\ k \in 1 .. Len(todo)
      <4>1. 1 \in Pending /\ k \in Pending /\ k # 1
        BY <2>1, <2>4, <3>3 DEF Pending
      <4> QED
        BY <2>1, <4>1 DEF RecursionIsBounded
    <3>4. \A k \in 1 .. Len(todo) : k = 1 \/ k \in 2 .. Len(todo)
      BY <2>4
    <3>5. e \in Called(todo, name) /\ e # name[Here] <=>
            \E k \in 2 .. Len(todo) : todo[k].op = "link" /\ e = name[todo[k].at]
      BY <2>1, <3>2, <3>3, <3>4
    <3> QED
      BY <3>1, <3>5
  <2>6. Called(todo', name') = Called(todo, name) \ {name[Here]}
    BY <2>5
  <2> QED
    BY <2>1, <2>6 DEF CallsGo
<1> QED
  BY <1>1, <1>2, <1>4, <1>5, <1>6, <1>7, <1>8, <1>9, <1>10 DEF Next, Drops

(* Only calls for types that are not parameterized wait to return.         *)
PlainCalls(called) == \A e \in called : ~ IsParameterized(DefinitionOf(e))

CallsInv == PlainCalls(Called(todo, name))

LEMMA CallsStep ==
  TypeInv /\ RecursionIsBounded /\ TryInv /\ CallsInv /\ [Next]_vars => CallsInv'
<1> SUFFICES ASSUME TypeInv, RecursionIsBounded, TryInv, CallsInv, [Next]_vars
             PROVE  CallsInv'
  OBVIOUS
<1>1. schema' = schema /\ CallsGo
  BY CurrentGrows, CalledStep
<1>2. PlainCalls(Called(todo', name'))
  BY <1>1 DEF CallsGo, CallsInv, PlainCalls
<1>3. ASSUME NEW e PROVE IsParameterized(DefinitionOf(e))' = IsParameterized(DefinitionOf(e))
  <2>1. DefinitionOf(e)' = DefinitionOf(e)
    BY <1>1, FrozenDefinitions
  <2> QED
    BY <1>1, <2>1 DEF IsParameterized, Assigned
<1>4. Called(todo, name)' = Called(todo', name')
  BY DEF Called
<1> QED
  BY <1>2, <1>3, <1>4 DEF CallsInv, PlainCalls

LEMMA CallsInvariant == Spec => []CallsInv
<1>1. Init => CallsInv
  BY DEF Init, CallsInv, PlainCalls, Called
<1> QED
  BY <1>1, TypeInvariant, RecursionBounded, TryInvariant, CallsStep, PTL DEF Spec

-----------------------------------------------------------------------------
(* A circular name that is being resolved is on a circle.                  *)

(* The definitions of the calls up to the one that is met again.           *)
CircleUpTo(last) == {DefinitionOf(name[todo[k].at]) : k \in {j \in Pending : j <= last}}

LEMMA CircularNameMeansCycle ==
  ASSUME TypeInv, ChainInv, CircularName, Target \in Called(todo, name)
  PROVE  HasCycle'
<1>1. InScope /\ schema' = schema /\ Doing("node")
  BY DEF CircularName, InScope, Unnamed, Doing
<1>2. /\ Here \in Nodes /\ DOMAIN name' = DOMAIN name \cup {Here} /\ name'[Here] = Target
      /\ \A m \in DOMAIN name : name'[m] = name[m]
      /\ Len(todo) \in Nat \ {0} /\ todo[1].op = "node" /\ todo[1].at = Here
      /\ DOMAIN todo = 1 .. Len(todo)
  BY <1>1, InScopeFacts, HeadFacts DEF TypeInv, TodoTyped, TypedList
<1>3. Target \in {name[todo[k].at] : k \in Pending}
  BY CalledIsPending
<1>4. PICK last \in Pending : Target = name[todo[last].at]
  BY <1>3
<1> DEFINE S == CircleUpTo(last)
<1>5. \A k \in Pending : k \in Nat /\ k \in 2 .. Len(todo) /\ todo[k].at \in DOMAIN name
  <2> TAKE k \in Pending
  <2>1. k \in 1 .. Len(todo) /\ todo[k].op = "link" /\ k # 1
    BY <1>2 DEF Pending
  <2>2. Typed(todo[k], DOMAIN name)
    BY <2>1 DEF TypeInv, TodoTyped, TypedList
  <2> QED
    BY <2>1, <2>2 DEF Typed
<1>6. S \subseteq Definitions
  <2>1. ASSUME NEW k \in Pending PROVE DefinitionOf(name[todo[k].at]) \in Definitions
    <3>1. name[todo[k].at] \in Symbols
      BY <1>5 DEF TypeInv, NameTyped
    <3> QED
      BY <3>1, DefinitionOfFacts DEF TypeInv
  <2> QED
    BY <2>1 DEF CircleUpTo
<1>7. DefinitionOf(Target) \in S /\ S # {}
  BY <1>4, <1>5 DEF CircleUpTo
<1>8. ASSUME NEW d \in S
      PROVE  \E n \in DOMAIN name' : <<n[1], n[2]>> = d /\ DefinitionOf(name'[n]) \in S
  <2>1. PICK k \in Pending : k <= last /\ d = DefinitionOf(name[todo[k].at])
    BY DEF CircleUpTo
  <2>2. \A j \in 1 .. k - 1 :
          (\A i \in j + 1 .. k - 1 : todo[i].op # "link") => DefinitionAt(todo[j]) = d
    <3>1. k \in 1 .. Len(todo) /\ todo[k].op = "link"
      BY <1>2 DEF Pending
    <3> QED
      BY <2>1, <3>1 DEF ChainInv, Chain
  <2>3. \A i \in 1 .. k - 1 : todo[i].op = "link" => i \in Pending
    <3>1. k \in Nat /\ k \in 2 .. Len(todo)
      BY <1>5
    <3> QED
      BY <1>2, <3>1 DEF Pending
  <2>4. CASE \A i \in 1 .. k - 1 : todo[i].op # "link"
    <3>1. 1 \in 1 .. k - 1 /\ \A i \in 1 + 1 .. k - 1 : i \in 1 .. k - 1
      BY <1>5
    <3>2. DefinitionAt(todo[1]) = d
      BY <2>2, <2>4, <3>1
    <3>3. Here \in DOMAIN name' /\ <<Here[1], Here[2]>> = d
      BY <1>2, <3>2 DEF DefinitionAt
    <3> QED
      BY <1>2, <1>7, <3>3
  <2>5. CASE \E i \in 1 .. k - 1 : todo[i].op = "link"
    <3> DEFINE T == {k - i : i \in {j \in 1 .. k - 1 : todo[j].op = "link"}}
    <3>0. k \in Nat
      BY <1>5
    <3>1. T \subseteq Nat /\ T # {}
      BY <2>5, <3>0
    <3>2. PICK m \in T : \A j \in T : m <= j
      <4> HIDE DEF T
      <4> QED
        BY <3>1, SmallestExists
    <3>3. PICK i \in 1 .. k - 1 : todo[i].op = "link" /\ m = k - i
      BY <3>2
    <3>4. ASSUME NEW j \in i + 1 .. k - 1 PROVE todo[j].op # "link"
      <4>1. j \in 1 .. k - 1 /\ k - j < m
        BY <3>0, <3>3
      <4>2. k - j \notin T
        <5>1. \A x \in T : m <= x /\ x \in Nat /\ m \in Nat
          <6> HIDE DEF T
          <6> QED
            BY <3>1, <3>2
        <5>2. \A x \in Nat : m \in Nat /\ m <= x => ~ (x < m)
          OBVIOUS
        <5> HIDE DEF T
        <5> QED
          BY <4>1, <5>1, <5>2
      <4> QED
        BY <4>1, <4>2
    <3>5. DefinitionAt(todo[i]) = d
      BY <2>2, <3>3, <3>4
    <3>6. i \in Pending /\ i <= last
      <4>1. i \in Pending
        BY <2>3, <3>3
      <4>2. last \in Nat /\ i \in Nat
        BY <1>5, <4>1
      <4> QED
        BY <2>1, <3>0, <4>1, <4>2
    <3>7. todo[i].at \in DOMAIN name /\ DefinitionOf(name[todo[i].at]) \in S
      BY <1>5, <3>6 DEF CircleUpTo
    <3>8. todo[i].at \in DOMAIN name' /\ name'[todo[i].at] = name[todo[i].at]
      BY <1>2, <3>7
    <3> QED
      BY <3>5, <3>7, <3>8 DEF DefinitionAt
  <2> QED
    BY <2>4, <2>5
<1> HIDE DEF S
<1>9. PICK C \in SUBSET Definitions :
        /\ C # {}
        /\ \A d \in C : \E n \in DOMAIN name' :
             <<n[1], n[2]>> = d /\ DefinitionOf(name'[n]) \in C
  BY <1>6, <1>7, <1>8
<1>10. ASSUME NEW d \in C PROVE RefersInto(d, C)'
  <2>1. PICK n \in DOMAIN name' : <<n[1], n[2]>> = d /\ DefinitionOf(name'[n]) \in C
    BY <1>9
  <2>2. DefinitionOf(name[n])' = DefinitionOf(name'[n])
    BY <1>1, FrozenDefinitions
  <2> QED
    BY <2>1, <2>2 DEF RefersInto
<1> QED
  BY <1>1, <1>9, <1>10, Frozen DEF HasCycle

-----------------------------------------------------------------------------
(* PathInv: a symbol that stays in resolution_path although no call for it *)
(* waits to return was left there by a throw, over a fault that the schema *)
(* has, in a type that a parameterized one leads to.                       *)

Swallowed == ~ Parameterless /\ (HasCycle \/ HasMissing \/ HasMismatch)

(* The same of the names that a step leaves.                               *)
MismatchAfter(n) ==
  LET d == DefinitionOf(name'[n])
  IN  /\ n \in DOMAIN name' /\ ~ IsParameterized(n) /\ IsParameterized(d)
      /\ Len(Assigned(d).params) # Len(ArgNodes(n))

LEMMA MismatchMeans ==
  ASSUME schema' = schema, NEW n, MismatchAfter(n)
  PROVE  HasMismatch'
<1>1. \E d : d = DefinitionOf(name'[n])
  OBVIOUS
<1>2. PICK d : d = DefinitionOf(name'[n])
  BY <1>1
<1>3. DefinitionOf(name[n])' = d
  BY <1>2, FrozenDefinitions
<1>4. /\ n \in DOMAIN name' /\ ~ IsParameterized(n) /\ IsParameterized(d)
      /\ Len(Assigned(d).params) # Len(ArgNodes(n))
  BY <1>2 DEF MismatchAfter
<1>5. /\ ~ IsParameterized(n)' /\ IsParameterized(d)'
      /\ Len(Assigned(d).params)' # Len(ArgNodes(n))'
  BY <1>4 DEF IsParameterized, Assigned, ArgNodes, RefOf
<1>6. Mismatched(n)'
  BY <1>3, <1>5 DEF Mismatched, IsParameterized, Assigned
<1> QED
  BY <1>4, <1>6 DEF HasMismatch

(* A fault does not go away.                                               *)
LEMMA SwallowedStays ==
  ASSUME schema' = schema, DOMAIN name \subseteq DOMAIN name',
         \A m \in DOMAIN name : name'[m] = name[m]
  PROVE  /\ HasCycle => HasCycle'
         /\ HasMismatch => HasMismatch'
         /\ Swallowed => Swallowed'
<1>1. ASSUME HasCycle PROVE HasCycle'
  <2>1. PICK S \in SUBSET Definitions : S # {} /\ \A d \in S : RefersInto(d, S)
    BY <1>1 DEF HasCycle
  <2>2. ASSUME NEW d \in S PROVE RefersInto(d, S)'
    <3>1. PICK n \in DOMAIN name : <<n[1], n[2]>> = d /\ DefinitionOf(name[n]) \in S
      BY <2>1 DEF RefersInto
    <3>2. n \in DOMAIN name' /\ DefinitionOf(name[n])' = DefinitionOf(name[n])
      BY FrozenDefinitions
    <3> QED
      BY <3>1, <3>2 DEF RefersInto
  <2> QED
    BY <2>1, <2>2, Frozen DEF HasCycle
<1>2. ASSUME HasMismatch PROVE HasMismatch'
  <2>1. PICK n \in DOMAIN name : Mismatched(n)
    BY <1>2 DEF HasMismatch
  <2>2. MismatchAfter(n)
    BY <2>1 DEF Mismatched, MismatchAfter
  <2> QED
    BY <2>2, MismatchMeans
<1>3. Parameterless' = Parameterless
  BY FrozenDefinitions
<1> QED
  BY <1>1, <1>2, <1>3, FrozenMissing DEF Swallowed

(* The work at hand is in the type whose call waits nearest.               *)
LEMMA HereIsPlain ==
  ASSUME TypeInv, ChainInv, CallsInv, Doing("node"), Called(todo, name) # {}
  PROVE  ~ IsParameterized(Here)
<1>1. /\ Len(todo) \in Nat \ {0} /\ todo[1].op = "node" /\ todo[1].at = Here
  BY HeadFacts DEF TypeInv, TodoTyped, TypedList
<1> DEFINE T == {k \in 1 .. Len(todo) : todo[k].op = "link"}
<1>2. T \subseteq Nat /\ T # {}
  BY <1>1 DEF Called
<1>3. PICK k \in T : \A j \in T : k <= j
  <2> HIDE DEF T
  <2> QED
    BY <1>2, SmallestExists
<1>4. k \in 1 .. Len(todo) /\ todo[k].op = "link" /\ k # 1 /\ 1 \in 1 .. k - 1
  BY <1>1, <1>3
<1>5. \A i \in 1 + 1 .. k - 1 : todo[i].op # "link"
  <2> TAKE i \in 1 + 1 .. k - 1
  <2>1. i \in 1 .. Len(todo) /\ ~ (k <= i)
    BY <1>1, <1>4
  <2> QED
    BY <1>3, <2>1
<1>6. DefinitionAt(todo[1]) = DefinitionOf(name[todo[k].at])
  BY <1>4, <1>5 DEF ChainInv, Chain
<1>7. ~ IsParameterized(DefinitionOf(name[todo[k].at]))
  BY <1>4 DEF CallsInv, PlainCalls, Called
<1>8. ~ IsParameterized(<<Here[1], Here[2]>>)
  BY <1>1, <1>6, <1>7 DEF DefinitionAt
<1> QED
  BY <1>8 DEF IsParameterized, Assigned

PathInv == phase = "resolve" => path = Called(todo, name) \/ Swallowed

LEMMA NamesStay ==
  TypeInv /\ [Next]_vars =>
    /\ schema' = schema /\ DOMAIN name \subseteq DOMAIN name'
    /\ \A m \in DOMAIN name : name'[m] = name[m]
<1> SUFFICES ASSUME TypeInv, [Next]_vars
             PROVE  /\ schema' = schema /\ DOMAIN name \subseteq DOMAIN name'
                    /\ \A m \in DOMAIN name : name'[m] = name[m]
  OBVIOUS
<1>1. schema' = schema
  BY CurrentGrows
<1>2. CASE InScope \/ BindElsewhere \/ BindField
  BY <1>1, <1>2 DEF InScope, BindElsewhere, BindField, FieldReference, Unnamed, Bound
<1>3. CASE name' = name
  BY <1>1, <1>3
<1>4. InScope \/ BindElsewhere \/ BindField \/ name' = name
  BY DEF Next, vars, StartModule, BadImport, EndModule, Finish, EnterAssignment, LeaveTry,
         SkipNamed, SkipPrimitive, UndefinedName, Follow, CircularName, Link, Instantiate,
         WrongArity, CopyBody, UndefinedField
<1> QED
  BY <1>2, <1>3, <1>4

(* What is thrown while a call waits to return is true of the schema.      *)
LEMMA ThrowMeansFault ==
  ASSUME TypeInv, ItemsInv, ChainInv, CallsInv, [Next]_vars, Drops,
         path = Called(todo, name), path # {}
  PROVE  HasCycle' \/ HasMissing' \/ HasMismatch'
<1>1. Doing("node") /\ schema' = schema
  BY DEF Drops, UndefinedName, UndefinedField, CircularName, WrongArity, InScope, Unnamed,
         FieldReference
<1>2. ~ IsParameterized(Here)
  BY <1>1, HereIsPlain
<1>3. CASE UndefinedName \/ UndefinedField
  BY <1>1, <1>2, <1>3, UndefinedIsThere, FrozenMissing
<1>4. CASE CircularName
  <2>1. Target \in Called(todo, name)
    BY <1>4 DEF CircularName
  <2> QED
    BY <1>4, <2>1, CircularNameMeansCycle
<1>5. CASE WrongArity
  <2>1. /\ InScope /\ IsParameterized(DefinitionOf(Target))
        /\ Len(Assigned(DefinitionOf(Target)).params) # Len(ArgNodes(Here))
    BY <1>5 DEF WrongArity
  <2>2. Here \in DOMAIN name' /\ name'[Here] = Target
    BY <1>1, <2>1, InScopeFacts
  <2>3. MismatchAfter(Here)
    BY <1>2, <2>1, <2>2 DEF MismatchAfter
  <2> QED
    BY <1>1, <2>3, MismatchMeans
<1> QED
  BY <1>3, <1>4, <1>5 DEF Drops

LEMMA PathStep ==
  TypeInv /\ ItemsInv /\ ChainInv /\ RecursionIsBounded /\ TryInv /\ CallsInv /\ PathInv
    /\ [Next]_vars => PathInv'
<1> SUFFICES ASSUME TypeInv, ItemsInv, ChainInv, RecursionIsBounded, TryInv, CallsInv, PathInv,
                    [Next]_vars, phase' = "resolve", ~ Swallowed'
             PROVE  path' = Called(todo', name')
  <2>1. Called(todo, name)' = Called(todo', name')
    BY DEF Called
  <2> QED
    BY <2>1 DEF PathInv
<1>1. ~ Swallowed
  BY NamesStay, SwallowedStays
<1>2. CASE phase # "resolve"
  <2>1. StartModule
    BY <1>2 DEF Next, vars, StartModule, BadImport, EndModule, Finish, EnterAssignment, LeaveTry,
         SkipNamed, SkipPrimitive, BindElsewhere, UndefinedName, Follow, CircularName, Link,
         Instantiate, WrongArity, CopyBody, BindField, UndefinedField, FieldReference, InScope,
         Unnamed, Doing
  <2> DEFINE t == todo'
  <2>2. ASSUME NEW k \in 1 .. Len(t) PROVE t[k].op # "link"
    <3>1. t[k] = [op |-> "assignment", at |-> <<current, k>>]
      BY <2>1, StartAdded
    <3> QED
      BY <3>1
  <2>3. path' = {}
    BY <2>1 DEF StartModule
  <2> HIDE DEF t
  <2>4. Called(t, name') = {}
    BY <2>2 DEF Called
  <2> QED
    BY <2>3, <2>4 DEF t
<1>3. CASE phase = "resolve"
  <2>1. path = Called(todo, name)
    BY <1>1, <1>3 DEF PathInv
  <2>2. ASSUME Drops, path # {} PROVE FALSE
    <3>1. Catches # {}
      BY <2>2 DEF Drops, UndefinedName, UndefinedField, CircularName, WrongArity, Throw
    <3>2. ~ Parameterless
      BY <3>1, NoTryBlocks
    <3>3. ~ Parameterless'
      BY <3>2, NamesStay, FrozenDefinitions
    <3> QED
      BY <2>1, <2>2, <3>3, ThrowMeansFault DEF Swallowed
  <2>3. CallsGo
    BY CalledStep
  <2> QED
    BY <2>1, <2>2, <2>3 DEF CallsGo
<1> QED
  BY <1>2, <1>3

LEMMA PathInvariant == Spec => []PathInv
<1>1. Init => PathInv
  BY DEF Init, PathInv
<1> QED
  BY <1>1, TypeInvariant, ItemsInvariant, ChainInvariant, RecursionBounded, TryInvariant,
     CallsInvariant, PathStep, PTL DEF Spec

(* In a schema without parameterized types no symbol stays in              *)
(* resolution_path after its call has returned, and none is missing.       *)
THEOREM PathIsTrue == Spec => []PathIsCallChain
<1>1. TypeInv /\ PathInv => PathIsCallChain
  BY CalledIsPending DEF PathInv, PathIsCallChain, Swallowed
<1> QED
  BY <1>1, TypeInvariant, PathInvariant, PTL

-----------------------------------------------------------------------------
(* ErrorsAreTrue, second part: a circular name.                            *)

LEMMA CircularStep ==
  TypeInv /\ ItemsInv /\ ChainInv /\ PathInv /\ CircularMeansCycle /\ [Next]_vars
    => CircularMeansCycle'
<1> SUFFICES ASSUME TypeInv, ItemsInv, ChainInv, PathInv, CircularMeansCycle, [Next]_vars,
                    phase' = "failed", error' = "circular"
             PROVE  HasCycle' \/ Swallowed'
  BY DEF CircularMeansCycle, Swallowed
<1>1. (HasCycle => HasCycle') /\ (Swallowed => Swallowed')
  BY NamesStay, SwallowedStays
<1>2. CASE CircularName
  <2>1. phase = "resolve" /\ Target \in path
    BY <1>2 DEF CircularName, InScope, Unnamed, Doing
  <2>2. CASE Target \in Called(todo, name)
    BY <1>2, <2>2, CircularNameMeansCycle
  <2>3. CASE Target \notin Called(todo, name)
    BY <1>1, <2>1, <2>3 DEF PathInv
  <2> QED
    BY <2>2, <2>3
<1>3. CASE UNCHANGED vars
  <2>1. HasCycle \/ Swallowed
    BY <1>3 DEF vars, CircularMeansCycle, Swallowed
  <2> QED
    BY <1>1, <2>1
<1>4. CASE \/ StartModule \/ BadImport \/ EndModule \/ Finish \/ EnterAssignment \/ LeaveTry
           \/ SkipNamed \/ SkipPrimitive \/ BindElsewhere \/ UndefinedName \/ UndefinedField
           \/ Follow \/ Link \/ Instantiate \/ WrongArity \/ CopyBody \/ BindField
  BY <1>4
  DEF StartModule, BadImport, EndModule, Finish, EnterAssignment, LeaveTry, SkipNamed,
      SkipPrimitive, BindElsewhere, Follow, UndefinedName, UndefinedField, Link, Instantiate,
      WrongArity, CopyBody, BindField, FieldReference, InScope, Unnamed, Doing, Throw
<1> QED
  BY <1>2, <1>3, <1>4 DEF Next

(* What resolution complains of is there.  Of a schema that is refused as  *)
(* circular some definitions refer to each other in a circle; if none do   *)
(* it has parameterized types and, outside them, an undefined name or a    *)
(* wrong number of arguments that a try block has swallowed.  An undefined *)
(* name is defined nowhere, or is one of a class that the module at hand   *)
(* does not know.                                                          *)
THEOREM ComplaintsAreTrue == Spec => []ErrorsAreTrue
<1>1. Init => CircularMeansCycle
  BY DEF Init, CircularMeansCycle
<1> QED
  BY <1>1, TypeInvariant, ItemsInvariant, ChainInvariant, PathInvariant, CircularStep,
     UndefinedIsMissing, PTL DEF Spec, ErrorsAreTrue

-----------------------------------------------------------------------------
(* CopiesInv: what a copy of a parameterized body holds.                   *)

(* The node that the reference b of the body d becomes in the copy for n.  *)
Standing(n, b, d) ==
  LET formals == Assigned(d).params
      actual == {p \in DOMAIN formals : formals[p] = NameAt(b)}
  IN  IF actual = {} THEN b
      ELSE ArgNodes(n)[CHOOSE p \in actual : \A q \in actual : q <= p]

LEMMA GreatestExists ==
  ASSUME NEW s, NEW S \in SUBSET (1 .. s), s \in Nat, S # {}
  PROVE  \E k \in S : \A j \in S : j <= k
<1> DEFINE T == {s - k : k \in S}
<1>1. T \subseteq Nat /\ T # {}
  <2>1. \A k \in S : s - k \in Nat
    OBVIOUS
  <2> QED
    BY <2>1
<1>2. PICK i \in T : \A j \in T : i <= j
  <2> HIDE DEF T
  <2> QED
    BY <1>1, SmallestExists
<1>3. PICK k \in S : i = s - k
  BY <1>2
<1>4. ASSUME NEW j \in S PROVE j <= k
  <2>1. s - j \in T
    OBVIOUS
  <2>2. s - k <= s - j
    BY <1>2, <1>3, <2>1
  <2>3. j \in Nat /\ k \in Nat
    OBVIOUS
  <2> QED
    BY <2>2, <2>3
<1> QED
  BY <1>4

LEMMA StandingFacts ==
  ASSUME schema \in Seq(Module), NEW n \in Nodes, NEW d \in Definitions, NEW b,
         Len(Assigned(d).params) = Len(ArgNodes(n))
  PROVE  Standing(n, b, d) = b \/ Standing(n, b, d) \in Range(ArgNodes(n))
<1> DEFINE formals == Assigned(d).params
           actual == {p \in DOMAIN formals : formals[p] = NameAt(b)}
           last == CHOOSE p \in actual : \A q \in actual : q <= p
<1>1. formals \in Seq(Names) /\ ArgNodes(n) \in Seq(Nodes)
  BY DefinitionFacts, ArgFacts DEF Assignment
<1>2. /\ DOMAIN formals = 1 .. Len(formals) /\ Len(formals) \in Nat
      /\ DOMAIN ArgNodes(n) = 1 .. Len(formals)
  BY <1>1
<1>3. CASE actual = {}
  BY <1>3 DEF Standing
<1>4. CASE actual # {}
  <2>1. \E p \in actual : \A q \in actual : q <= p
    <3>1. actual \in SUBSET (1 .. Len(formals))
      BY <1>2
    <3> HIDE DEF actual
    <3> QED
      BY <1>2, <1>4, <3>1, GreatestExists
  <2>2. last \in actual
    BY <2>1
  <2>3. Standing(n, b, d) = ArgNodes(n)[last]
    BY <1>4 DEF Standing
  <2>4. last \in DOMAIN ArgNodes(n)
    BY <1>2, <2>2
  <2> QED
    BY <2>3, <2>4 DEF Range
<1> QED
  BY <1>3, <1>4

(* The target of n has a formal parameter for each actual one of n.        *)
Filled(n, to) ==
  /\ IsParameterized(DefinitionOf(to[n]))
  /\ Len(Assigned(DefinitionOf(to[n])).params) = Len(ArgNodes(n))

CopyItems(s, to) ==
  \A k \in 1 .. Len(s) : s[k].op = "copy" =>
    /\ Filled(s[k].at, to)
    /\ \A a \in Range(ArgNodes(s[k].at)) :
         \/ Passed(a, DOMAIN to)
         \/ \E j \in 1 .. k - 1 : s[j] = [op |-> "node", at |-> a]

ArgsFirstInv == CopyItems(todo, name)

LEMMA FrozenCopyItems ==
  ASSUME schema' = schema, NEW s, s = todo', NEW to, to = name', CopyItems(s, to)
  PROVE  ArgsFirstInv'
<1>1. ASSUME NEW n PROVE Filled(n, name)' <=> Filled(n, to)
  BY FrozenDefinitions, FrozenNames, FrozenNode DEF Filled
<1>2. ASSUME NEW a PROVE Passed(a, DOMAIN name)' <=> Passed(a, DOMAIN to)
  BY FrozenNames DEF Passed
<1>3. ASSUME NEW n PROVE ArgNodes(n)' = ArgNodes(n)
  BY FrozenNode
<1> QED
  BY <1>1, <1>2, <1>3 DEF ArgsFirstInv, CopyItems

LEMMA FilledKept ==
  ASSUME NEW n, NEW few, NEW many, n \in DOMAIN few, \A m \in DOMAIN few : many[m] = few[m],
         Filled(n, few)
  PROVE  Filled(n, many)
BY DEF Filled

LEMMA CopyItemsPushed ==
  ASSUME TypeInv, ArgsFirstInv, schema' = schema, todo # <<>>,
         DOMAIN name \subseteq DOMAIN name', \A m \in DOMAIN name : name'[m] = name[m],
         todo[1].op = "node" => Passed(todo[1].at, DOMAIN name'),
         NEW x \in Seq(Work), todo' = x \o Rest, CopyItems(x, name')
  PROVE  ArgsFirstInv'
<1> DEFINE t == todo'
           to == name'
<1>1. todo \in Seq(Work) /\ Len(todo) \in Nat \ {0} /\ Len(x) \in Nat
  BY DEF TypeInv, TodoTyped, TypedList
<1>2. Pushed(x)
  BY <1>1, PushFacts
<1>3. /\ \A k \in 2 .. Len(todo) :
           Len(x) + (k - 1) \in 1 .. Len(t) /\ t[Len(x) + (k - 1)] = todo[k]
      /\ \A j \in 1 .. Len(x) : j \in 1 .. Len(t) /\ t[j] = x[j]
      /\ \A j \in 1 .. Len(t) :
           \/ j \in 1 .. Len(x) /\ t[j] = x[j]
           \/ \E k \in 2 .. Len(todo) : j = Len(x) + (k - 1) /\ t[j] = todo[k]
  BY <1>1, <1>2, PushedAt
<1>4. ASSUME NEW k \in 1 .. Len(todo), todo[k].op = "copy"
      PROVE  Filled(todo[k].at, to)
  <2>1. Typed(todo[k], DOMAIN name)
    BY DEF TypeInv, TodoTyped, TypedList
  <2>2. todo[k].at \in DOMAIN name /\ Filled(todo[k].at, name)
    BY <1>4, <2>1 DEF Typed, ArgsFirstInv, CopyItems
  <2> QED
    BY <2>2, FilledKept
<1>5. CopyItems(x, to) /\ DOMAIN name \subseteq DOMAIN to
  OBVIOUS
<1>6. todo[1].op = "node" => Passed(todo[1].at, DOMAIN to)
  OBVIOUS
<1> HIDE DEF t, to
<1>7. ASSUME NEW k \in 1 .. Len(t), t[k].op = "copy"
      PROVE  /\ Filled(t[k].at, to)
             /\ \A a \in Range(ArgNodes(t[k].at)) :
                  \/ Passed(a, DOMAIN to)
                  \/ \E j \in 1 .. k - 1 : t[j] = [op |-> "node", at |-> a]
  <2>1. CASE k \in 1 .. Len(x) /\ t[k] = x[k]
    <3>1. /\ Filled(t[k].at, to)
          /\ \A a \in Range(ArgNodes(t[k].at)) :
               \/ Passed(a, DOMAIN to)
               \/ \E j \in 1 .. k - 1 : x[j] = [op |-> "node", at |-> a]
      BY <1>5, <1>7, <2>1 DEF CopyItems
    <3>2. \A j \in 1 .. k - 1 : t[j] = x[j]
      <4> TAKE j \in 1 .. k - 1
      <4>1. j \in 1 .. Len(x)
        BY <1>1, <2>1
      <4> QED
        BY <1>3, <4>1
    <3> QED
      BY <3>1, <3>2
  <2>2. ASSUME NEW b \in 2 .. Len(todo), k = Len(x) + (b - 1), t[k] = todo[b]
        PROVE  /\ Filled(t[k].at, to)
               /\ \A a \in Range(ArgNodes(t[k].at)) :
                    \/ Passed(a, DOMAIN to)
                    \/ \E j \in 1 .. k - 1 : t[j] = [op |-> "node", at |-> a]
    <3>1. b \in 1 .. Len(todo) /\ todo[b].op = "copy"
      BY <1>7, <2>2
    <3>2. Filled(t[k].at, to)
      BY <1>4, <2>2, <3>1
    <3>3. ASSUME NEW a \in Range(ArgNodes(t[k].at)), ~ Passed(a, DOMAIN to)
          PROVE  \E j \in 1 .. k - 1 : t[j] = [op |-> "node", at |-> a]
      <4>1. Passed(a, DOMAIN name) \/ \E i \in 1 .. b - 1 : todo[i] = [op |-> "node", at |-> a]
        BY <2>2, <3>1, <3>3 DEF ArgsFirstInv, CopyItems
      <4>2. ~ Passed(a, DOMAIN name)
        BY <1>5, <3>3 DEF Passed
      <4>3. PICK i \in 1 .. b - 1 : todo[i] = [op |-> "node", at |-> a]
        BY <4>1, <4>2
      <4>4. i # 1
        <5>1. todo[i].op = "node" /\ todo[i].at = a
          BY <4>3
        <5> QED
          BY <1>6, <3>3, <5>1
      <4>5. i \in 2 .. Len(todo) /\ Len(x) + (i - 1) \in 1 .. k - 1
        BY <1>1, <2>2, <4>4
      <4>6. t[Len(x) + (i - 1)] = todo[i]
        BY <1>3, <4>5
      <4> QED
        BY <4>3, <4>5, <4>6
    <3> QED
      BY <3>2, <3>3
  <2> QED
    BY <1>3, <2>1, <2>2
<1>8. CopyItems(t, to)
  BY <1>7 DEF CopyItems
<1> QED
  BY <1>8, FrozenCopyItems DEF t, to

LEMMA NoCopies ==
  ASSUME NEW x, NEW to, \A k \in 1 .. Len(x) : x[k].op # "copy"
  PROVE  CopyItems(x, to)
BY DEF CopyItems

LEMMA ArgsFirstStep == TypeInv /\ TryInv /\ ArgsFirstInv /\ [Next]_vars => ArgsFirstInv'
<1> SUFFICES ASSUME TypeInv, TryInv, ArgsFirstInv, [Next]_vars PROVE ArgsFirstInv'
  OBVIOUS
<1>0. TodoTyped /\ schema \in Seq(Module) /\ todo \in Seq(Work)
  BY DEF TypeInv, TodoTyped, TypedList
<1>a. DOMAIN name \subseteq DOMAIN name' /\ \A m \in DOMAIN name : name'[m] = name[m]
  BY BindingOfStep
<1>1. CASE StartModule
  <2> DEFINE t == todo'
             to == name'
  <2>1. ASSUME NEW k \in 1 .. Len(t) PROVE t[k].op # "copy"
    <3>1. t[k] = [op |-> "assignment", at |-> <<current, k>>]
      BY <1>1, StartAdded
    <3> QED
      BY <3>1
  <2> HIDE DEF t, to
  <2>2. CopyItems(t, to)
    BY <2>1, NoCopies
  <2> QED
    BY <1>1, <2>2, FrozenCopyItems DEF StartModule, t, to
<1>2. CASE BadImport \/ EndModule \/ Finish \/ UNCHANGED vars
  <2>1. UNCHANGED <<schema, todo, name>>
    BY <1>2 DEF BadImport, EndModule, Finish, vars
  <2>2. CopyItems(todo, name)
    BY DEF ArgsFirstInv
  <2> QED
    BY <2>1, <2>2, FrozenCopyItems
<1>3. CASE LeaveTry \/ Link \/ CopyBody \/ SkipNamed \/ BindField
  <2>1. /\ todo # <<>> /\ todo' = Rest /\ schema' = schema
        /\ todo[1].op = "node" => todo[1].at \in DOMAIN name'
    <3>1. CASE LeaveTry \/ Link \/ CopyBody
      BY <1>0, <3>1, HeadFacts DEF LeaveTry, Link, CopyBody
    <3>2. CASE SkipNamed \/ BindField
      <4>1. Here \in DOMAIN name'
        BY <3>2 DEF SkipNamed, BindField, Bound
      <4> QED
        BY <1>0, <3>2, <4>1, HeadFacts DEF SkipNamed, BindField, FieldReference
    <3> QED
      BY <1>3, <3>1, <3>2
  <2>2. Rest \in Seq(Work) /\ <<>> \in Seq(Work)
    BY <1>0, <2>1, HeadTailProperties DEF Rest
  <2>3. todo' = <<>> \o Rest /\ CopyItems(<<>>, name')
    <3>1. \A k \in 1 .. Len(<<>>) : FALSE
      OBVIOUS
    <3> QED
      BY <2>1, <2>2, <3>1 DEF CopyItems
  <2>4. todo[1].op = "node" => Passed(todo[1].at, DOMAIN name')
    BY <2>1 DEF Passed
  <2> QED
    BY <1>a, <2>1, <2>2, <2>3, <2>4, CopyItemsPushed
<1>4. CASE UndefinedName \/ UndefinedField \/ CircularName \/ WrongArity
  <2>1. todo # <<>> /\ schema' = schema /\ todo' = AfterCatch
    BY <1>0, <1>4, HeadFacts
    DEF UndefinedName, UndefinedField, CircularName, WrongArity, InScope, Unnamed,
        FieldReference, Throw
  <2> DEFINE t == todo'
             to == name'
  <2>2. \A k \in 1 .. Len(t) : t[k].op # "copy"
    BY <2>1, OnlyAssignmentsLeft
  <2> HIDE DEF t, to
  <2>3. CopyItems(t, to)
    BY <2>2, NoCopies
  <2> QED
    BY <2>1, <2>3, FrozenCopyItems DEF t, to
<1>5. CASE SkipPrimitive \/ BindElsewhere
  <2>1. /\ todo # <<>> /\ todo' = Args \o Rest /\ schema' = schema /\ Doing("node")
        /\ todo[1].at = Here
    BY <1>0, <1>5, HeadFacts DEF SkipPrimitive, BindElsewhere, Unnamed
  <2>2. Args \in Seq(Work) /\ \A k \in 1 .. Len(Args) : NodeOf(Args[k], ArgNodes(Here))
    BY <2>1, ArgsAdded
  <2>3. CopyItems(Args, name')
    BY <2>2, NoCopies DEF NodeOf
  <2>4. Passed(Here, DOMAIN name')
    BY <1>5 DEF SkipPrimitive, BindElsewhere, Unnamed, Passed, Bound
  <2> QED
    BY <1>a, <2>1, <2>2, <2>3, <2>4, CopyItemsPushed
<1>6. CASE Instantiate
  <2>1. /\ schema' = schema /\ InScope /\ IsParameterized(DefinitionOf(Target))
        /\ Len(Assigned(DefinitionOf(Target)).params) = Len(ArgNodes(Here))
    BY <1>6 DEF Instantiate
  <2>2. todo # <<>> /\ \E x \in Seq(Work) :
          /\ todo' = x \o Rest
          /\ \A k \in 1 .. Len(x) :
               NodeOf(x[k], ArgNodes(Here)) \/ x[k] = [op |-> "copy", at |-> Here]
          /\ ArgsFirst(x, Here)
    BY <1>6, InstantiateAdded
  <2>3. PICK x \in Seq(Work) :
          /\ todo' = x \o Rest
          /\ \A k \in 1 .. Len(x) :
               NodeOf(x[k], ArgNodes(Here)) \/ x[k] = [op |-> "copy", at |-> Here]
          /\ ArgsFirst(x, Here)
    BY <2>2
  <2>4. Here \in DOMAIN name' /\ name'[Here] = Target
    BY <2>1, InScopeFacts
  <2>5. Filled(Here, name')
    BY <2>1, <2>4 DEF Filled
  <2>6. CopyItems(x, name')
    <3> DEFINE to == name'
    <3> HIDE DEF to
    <3> SUFFICES ASSUME NEW k \in 1 .. Len(x), x[k].op = "copy"
                 PROVE  /\ Filled(x[k].at, to)
                        /\ \A a \in Range(ArgNodes(x[k].at)) :
                             \E j \in 1 .. k - 1 : x[j] = [op |-> "node", at |-> a]
      BY DEF CopyItems, to
    <3>1. x[k].at = Here
      BY <2>3 DEF NodeOf
    <3> QED
      BY <2>3, <2>5, <3>1 DEF ArgsFirst, to
  <2>7. todo[1].at = Here /\ Passed(Here, DOMAIN name')
    <3>1. Doing("node")
      BY <2>1 DEF InScope, Unnamed
    <3> QED
      BY <1>0, <2>4, <3>1, HeadFacts DEF Passed
  <2> QED
    BY <1>a, <2>1, <2>2, <2>3, <2>6, <2>7, CopyItemsPushed
<1>7. CASE Follow
  <2>1. schema' = schema /\ InScope
    BY <1>7 DEF Follow
  <2>2. todo # <<>> /\ \E x \in Seq(Work) :
          /\ todo' = x \o Rest
          /\ Len(x) >= 2
          /\ x[1] = [op |-> "assignment", at |-> DefinitionOf(Target)]
          /\ x[2] = [op |-> "link", at |-> Here]
          /\ \A k \in 3 .. Len(x) : NodeOf(x[k], ArgNodes(Here))
    BY <1>7, FollowAdded
  <2>3. PICK x \in Seq(Work) :
          /\ todo' = x \o Rest
          /\ Len(x) >= 2
          /\ x[1] = [op |-> "assignment", at |-> DefinitionOf(Target)]
          /\ x[2] = [op |-> "link", at |-> Here]
          /\ \A k \in 3 .. Len(x) : NodeOf(x[k], ArgNodes(Here))
    BY <2>2
  <2>4. \A k \in 1 .. Len(x) : x[k].op # "copy"
    <3>1. \A k \in 1 .. Len(x) : k = 1 \/ k = 2 \/ k \in 3 .. Len(x)
      OBVIOUS
    <3>2. x[1].op # "copy" /\ x[2].op # "copy"
      BY <2>3
    <3>3. \A k \in 3 .. Len(x) : x[k].op # "copy"
      BY <2>3 DEF NodeOf
    <3> QED
      BY <3>1, <3>2, <3>3
  <2>5. CopyItems(x, name')
    BY <2>4, NoCopies
  <2>6. todo[1].at = Here /\ Passed(Here, DOMAIN name')
    <3>1. Doing("node") /\ Here \in DOMAIN name'
      BY <2>1, InScopeFacts DEF InScope, Unnamed
    <3> QED
      BY <1>0, <3>1, HeadFacts DEF Passed
  <2> QED
    BY <1>a, <2>1, <2>2, <2>3, <2>5, <2>6, CopyItemsPushed
<1>8. CASE EnterAssignment
  <2>1. /\ todo # <<>> /\ todo[1].op = "assignment" /\ schema' = schema
    BY <1>0, <1>8, HeadFacts DEF EnterAssignment
  <2>2. PICK x \in Seq(Work) :
          /\ todo' = x \o Rest
          /\ \A k \in 1 .. Len(x) :
               \/ NodeOf(x[k], BodyNodes(Here))
               \/ IsParameterized(Here) /\ x[k] = [op |-> "catch", at |-> Here]
    BY <1>8, EnterAdded
  <2>3. \A k \in 1 .. Len(x) : x[k].op # "copy"
    BY <2>2 DEF NodeOf
  <2>4. CopyItems(x, name')
    BY <2>3, NoCopies
  <2> QED
    BY <1>a, <2>1, <2>2, <2>4, CopyItemsPushed
<1> QED
  BY <1>1, <1>2, <1>3, <1>4, <1>5, <1>6, <1>7, <1>8 DEF Next

LEMMA ArgsFirstInvariant == Spec => []ArgsFirstInv
<1>1. Init => ArgsFirstInv
  BY DEF Init, ArgsFirstInv, CopyItems
<1> QED
  BY <1>1, TypeInvariant, TryInvariant, ArgsFirstStep, PTL DEF Spec

(* Each reference of a copy has the symbol that the node it stands for had *)
(* and has; or none, if it was copied from the body before it was bound or *)
(* it is a primitive.                                                      *)
Copied(n, copy, to) ==
  LET d == DefinitionOf(to[n])
  IN  \A k \in DOMAIN BodyNodes(d) :
        LET x == Standing(n, BodyNodes(d)[k], d)
        IN  \/ x \in DOMAIN to /\ copy[k].to = {to[x]}
            \/ /\ copy[k].to = {}
               /\ x = BodyNodes(d)[k] \/ NameAt(x) \in Primitives \ Classes

CopiesAre(made, to) == \A n \in DOMAIN made : Filled(n, to) /\ Copied(n, made[n], to)

CopiesInv == CopiesAre(copies, name)

LEMMA FrozenCopies ==
  ASSUME schema' = schema, NEW made, made = copies', NEW to, to = name', CopiesAre(made, to)
  PROVE  CopiesInv'
<1>1. \A n : Filled(n, name)' <=> Filled(n, to)
  BY FrozenDefinitions, FrozenNames, FrozenNode DEF Filled
<1>2. /\ \A n : NameAt(n)' = NameAt(n)
      /\ \A s : DefinitionOf(s)' = DefinitionOf(s)
      /\ \A d : BodyNodes(d)' = BodyNodes(d)
      /\ \A n, b, d : Standing(n, b, d)' = Standing(n, b, d)
  <2>1. \A d : BodyNodes(d)' = BodyNodes(d)
    BY DEF BodyNodes, Assigned
  <2>2. \A n, b, d : Standing(n, b, d)' = Standing(n, b, d)
    BY DEF Standing, Assigned, NameAt, ArgNodes, RefOf
  <2> QED
    BY <2>1, <2>2, FrozenNames, FrozenDefinitions
<1>3. \A n : Copied(n, copies[n], name)' <=> Copied(n, made[n], to)
  BY <1>2 DEF Copied
<1> QED
  BY <1>1, <1>3 DEF CopiesInv, CopiesAre

LEMMA CopiedKept ==
  ASSUME NEW n, NEW copy, NEW few, NEW many, n \in DOMAIN few, DOMAIN few \subseteq DOMAIN many,
         \A m \in DOMAIN few : many[m] = few[m], Copied(n, copy, few)
  PROVE  Copied(n, copy, many)
<1>1. many[n] = few[n]
  OBVIOUS
<1> DEFINE d == DefinitionOf(few[n])
<1>2. ASSUME NEW k \in DOMAIN BodyNodes(d)
      PROVE  LET x == Standing(n, BodyNodes(d)[k], d)
             IN  \/ x \in DOMAIN many /\ copy[k].to = {many[x]}
                 \/ /\ copy[k].to = {}
                    /\ x = BodyNodes(d)[k] \/ NameAt(x) \in Primitives \ Classes
  BY <1>2 DEF Copied
<1> QED
  BY <1>1, <1>2 DEF Copied

LEMMA CopyIsCopied ==
  ASSUME TypeInv, ArgsFirstInv, CopyBody
  PROVE  Filled(Here, name) /\ Copied(Here, Instance(Here), name)
<1>1. /\ todo # <<>> /\ todo[1].op = "copy" /\ todo[1].at = Here
      /\ Here \in DOMAIN name /\ Here \in Nodes /\ schema \in Seq(Module)
      /\ 1 \in 1 .. Len(todo)
  BY HeadFacts DEF CopyBody, TypeInv, NameTyped
<1>2. Filled(Here, name) /\ \A a \in Range(ArgNodes(Here)) : Passed(a, DOMAIN name)
  <2>1. \A j : j \notin 1 .. 1 - 1
    OBVIOUS
  <2> QED
    BY <1>1, <2>1 DEF ArgsFirstInv, CopyItems
<1> DEFINE d == DefinitionOf(name[Here])
           body == BodyNodes(d)
<1>3. d \in Definitions
  BY <1>1, DefinitionOfFacts DEF TypeInv, NameTyped
<1>4. ASSUME NEW k \in DOMAIN body
      PROVE  LET x == Standing(Here, body[k], d)
             IN  \/ x \in DOMAIN name /\ Instance(Here)[k].to = {name[x]}
                 \/ /\ Instance(Here)[k].to = {}
                    /\ x = body[k] \/ NameAt(x) \in Primitives \ Classes
  <2> DEFINE x == Standing(Here, body[k], d)
  <2>1. x = Substituted(Here, body[k])
    BY DEF Standing, Substituted
  <2>2. Instance(Here)[k].to = {name[y] : y \in {x} \cap DOMAIN name}
    BY <2>1 DEF Instance
  <2>3. x = body[k] \/ x \in Range(ArgNodes(Here))
    BY <1>1, <1>2, <1>3, StandingFacts DEF Filled
  <2> HIDE DEF x
  <2>4. CASE x \in DOMAIN name
    <3>1. {name[y] : y \in {x} \cap DOMAIN name} = {name[x]}
      BY <2>4
    <3> QED
      BY <2>2, <2>4, <3>1 DEF x
  <2>5. CASE x \notin DOMAIN name
    <3>1. {name[y] : y \in {x} \cap DOMAIN name} = {}
      BY <2>5
    <3>2. x = body[k] \/ NameAt(x) \in Primitives \ Classes
      BY <1>2, <2>3, <2>5 DEF Passed
    <3> QED
      BY <2>2, <3>1, <3>2 DEF x
  <2> QED
    BY <2>4, <2>5
<1> QED
  BY <1>2, <1>4 DEF Copied

LEMMA CopiesStep == TypeInv /\ ArgsFirstInv /\ CopiesInv /\ [Next]_vars => CopiesInv'
<1> SUFFICES ASSUME TypeInv, ArgsFirstInv, CopiesInv, [Next]_vars PROVE CopiesInv'
  OBVIOUS
<1> DEFINE to == name'
<1>1. schema' = schema
  BY CurrentGrows
<1>2. DOMAIN name \subseteq DOMAIN to /\ \A m \in DOMAIN name : to[m] = name[m]
  BY BindingOfStep
<1>3. DOMAIN copies \subseteq DOMAIN name
  BY DEF TypeInv
<1> HIDE DEF to
<1>4. CopiesAre(copies, to)
  <2> SUFFICES ASSUME NEW n \in DOMAIN copies
               PROVE  Filled(n, to) /\ Copied(n, copies[n], to)
    BY DEF CopiesAre
  <2>1. Filled(n, name) /\ Copied(n, copies[n], name) /\ n \in DOMAIN name
    BY <1>3 DEF CopiesInv, CopiesAre
  <2>2. Filled(n, to)
    BY <1>2, <2>1, FilledKept
  <2>3. Copied(n, copies[n], to)
    BY <1>2, <2>1, CopiedKept
  <2> QED
    BY <2>2, <2>3
<1>5. CASE CopyBody
  <2> DEFINE made == copies'
  <2>1. name' = name /\ copies' = Bound(copies, Here, Instance(Here))
    BY <1>5 DEF CopyBody
  <2>2. Filled(Here, to) /\ Copied(Here, Instance(Here), to)
    BY <1>5, <2>1, CopyIsCopied DEF to
  <2>3. /\ DOMAIN made = DOMAIN copies \cup {Here}
        /\ made[Here] = Instance(Here)
        /\ \A n \in DOMAIN copies \ {Here} : made[n] = copies[n]
    BY <2>1 DEF Bound
  <2> HIDE DEF made
  <2>4. CopiesAre(made, to)
    BY <1>4, <2>2, <2>3 DEF CopiesAre
  <2> QED
    BY <1>1, <2>4, FrozenCopies DEF made, to
<1>6. CASE ~ CopyBody
  <2>1. copies' = copies
    BY <1>6
    DEF Next, vars, StartModule, BadImport, EndModule, Finish, EnterAssignment, LeaveTry,
        SkipNamed, SkipPrimitive, BindElsewhere, UndefinedName, Follow, CircularName, Link,
        Instantiate, WrongArity, BindField, UndefinedField
  <2> QED
    BY <1>1, <1>4, <2>1, FrozenCopies DEF to
<1> QED
  BY <1>5, <1>6

LEMMA CopiesInvariant == Spec => []CopiesInv
<1>1. Init => CopiesInv
  BY DEF Init, CopiesInv, CopiesAre
<1> QED
  BY <1>1, TypeInvariant, ArgsFirstInvariant, CopiesStep, PTL DEF Spec

-----------------------------------------------------------------------------
(* CourseInv: a schema is accepted after its last module, and no module    *)
(* that is finished has an import that fails.                              *)

CourseInv ==
  /\ phase = "done" => current \notin DOMAIN schema
  /\ \A m \in DOMAIN schema : m < current => ~ ImportsFail(m)

LEMMA CourseStep == TypeInv /\ CourseInv /\ [Next]_vars => CourseInv'
<1> SUFFICES ASSUME TypeInv, CourseInv, [Next]_vars PROVE CourseInv'
  OBVIOUS
<1>1. schema' = schema
  BY CurrentGrows
<1>2. \A m : ImportsFail(m)' <=> ImportsFail(m)
  BY <1>1, Frozen DEF ImportsFail, Own
<1>3. CASE EndModule
  <2>1. /\ current \in DOMAIN schema /\ ~ ImportsFail(current)
        /\ current' = current + 1 /\ phase' = "scope"
    BY <1>3 DEF EndModule, TypeInv, ScopeTyped
  <2>2. \A m \in DOMAIN schema : m < current + 1 => m = current \/ m < current
    <3>1. DOMAIN schema \subseteq Nat /\ current \in Nat
      BY DEF TypeInv
    <3> QED
      BY <3>1
  <2> QED
    BY <1>1, <1>2, <2>1, <2>2 DEF CourseInv
<1>4. CASE ~ EndModule
  <2>1. current' = current /\ (phase' = "done" => phase = "done" \/ current \notin DOMAIN schema)
    BY <1>4
    DEF Next, vars, StartModule, BadImport, Finish, EnterAssignment, LeaveTry, SkipNamed,
        SkipPrimitive, BindElsewhere, UndefinedName, Follow, CircularName, Link, Instantiate,
        WrongArity, CopyBody, BindField, UndefinedField, InScope, Throw
  <2> QED
    BY <1>1, <1>2, <2>1 DEF CourseInv
<1> QED
  BY <1>3, <1>4

LEMMA CourseInvariant == Spec => []CourseInv
<1>1. Init => CourseInv
  <2> SUFFICES ASSUME Init PROVE CourseInv
    OBVIOUS
  <2>1. schema \in Seq(Module) /\ current = 1 /\ phase # "done"
    BY SchemasAssumption DEF Init
  <2>2. \A m \in DOMAIN schema : ~ (m < current)
    BY <2>1
  <2> QED
    BY <2>1, <2>2 DEF CourseInv
<1> QED
  BY <1>1, TypeInvariant, CourseStep, PTL DEF Spec

-----------------------------------------------------------------------------
(* Effective: a chain of aliases leads from definition to definition.      *)

AliasWalk(f, d, n) ==
  f = [k \in 0 .. n |-> IF k = 0 THEN d ELSE AliasedBy(f[k - 1])]

LEMMA ChainExists ==
  ASSUME NEW d, NEW n \in Nat
  PROVE  \E f : AliasWalk(f, d, n)
<1> DEFINE S == {m \in Nat : ~ \E f : AliasWalk(f, d, m)}
<1> SUFFICES ASSUME S # {} PROVE FALSE
  OBVIOUS
<1>1. PICK m \in S : \A j \in S : m <= j
  <2>1. S \subseteq Nat
    OBVIOUS
  <2> HIDE DEF S
  <2> QED
    BY <2>1, SmallestExists
<1>2. m \in Nat /\ ~ \E f : AliasWalk(f, d, m)
  BY <1>1
<1>3. m # 0
  <2> SUFFICES ASSUME m = 0 PROVE FALSE
    OBVIOUS
  <2> DEFINE f == [k \in 0 .. 0 |-> d]
  <2>1. f = [k \in 0 .. 0 |-> IF k = 0 THEN d ELSE AliasedBy(f[k - 1])]
    OBVIOUS
  <2>2. AliasWalk(f, d, 0)
    BY <2>1 DEF AliasWalk
  <2> QED
    BY <1>2, <2>2
<1>4. m - 1 \in Nat /\ ~ (m <= m - 1)
  BY <1>2, <1>3
<1>5. m - 1 \notin S
  BY <1>1, <1>4
<1>6. PICK f : AliasWalk(f, d, m - 1)
  BY <1>4, <1>5
<1> DEFINE g == [k \in 0 .. m |-> IF k = 0 THEN d ELSE AliasedBy(f[k - 1])]
<1>7. ASSUME NEW k \in 0 .. m, k # 0 PROVE g[k - 1] = f[k - 1]
  <2>1. k - 1 \in 0 .. m - 1 /\ k - 1 \in 0 .. m
    BY <1>2, <1>7
  <2>2. f[k - 1] = IF k - 1 = 0 THEN d ELSE AliasedBy(f[(k - 1) - 1])
    BY <1>6, <2>1 DEF AliasWalk
  <2> QED
    BY <2>1, <2>2
<1>8. AliasWalk(g, d, m)
  <2>1. g = [k \in 0 .. m |-> IF k = 0 THEN d ELSE AliasedBy(g[k - 1])]
    BY <1>7
  <2> QED
    BY <2>1 DEF AliasWalk
<1> QED
  BY <1>2, <1>8

LEMMA AliasedFacts ==
  ASSUME TypeInv, NEW e \in Definitions
  PROVE  AliasedBy(e) \in Definitions
<1>1. schema \in Seq(Module) /\ \A n \in DOMAIN name : name[n] \in Symbols
  BY DEF TypeInv, NameTyped
<1>2. \A n \in DOMAIN name : DefinitionOf(name[n]) \in Definitions
  BY <1>1, DefinitionOfFacts
<1> QED
  BY <1>2 DEF AliasedBy

LEMMA EffectiveFacts ==
  ASSUME TypeInv, NEW d \in Definitions
  PROVE  Effective(d) \in Definitions
<1> DEFINE f == CHOOSE f : AliasWalk(f, d, AliasLinks)
<1>1. Effective(d) = f[AliasLinks]
  BY DEF Effective, AliasWalk
<1>2. AliasWalk(f, d, AliasLinks) /\ AliasLinks \in Nat
  BY ChainExists DEF AliasLinks
<1> HIDE DEF f
<1> DEFINE S == {m \in 0 .. AliasLinks : f[m] \notin Definitions}
<1>3. S = {}
  <2> SUFFICES ASSUME S # {} PROVE FALSE
    OBVIOUS
  <2>1. PICK m \in S : \A j \in S : m <= j
    <3>1. S \subseteq Nat
      BY <1>2
    <3> HIDE DEF S
    <3> QED
      BY <3>1, SmallestExists
  <2>2. f[m] = IF m = 0 THEN d ELSE AliasedBy(f[m - 1])
    BY <1>2 DEF AliasWalk
  <2>3. m # 0
    BY <2>2
  <2>4. m - 1 \in 0 .. AliasLinks /\ ~ (m <= m - 1)
    BY <1>2, <2>3
  <2>5. f[m - 1] \in Definitions
    BY <2>1, <2>4
  <2> QED
    BY <2>2, <2>3, <2>5, AliasedFacts
<1>4. AliasLinks \in 0 .. AliasLinks
  BY <1>2
<1> QED
  BY <1>1, <1>3, <1>4

-----------------------------------------------------------------------------
(* BoundsAreLexical: what is known of a bound when resolution is done.     *)

LEMMA OwnFacts ==
  ASSUME NEW m, NEW x
  PROVE  x \in Own(m) <=> <<schema[m].name, x>> \in Symbols
<1>1. \A s \in Symbols : s = <<s[1], s[2]>>
  BY DEF Symbols, SymbolOf
<1>2. ASSUME x \in Own(m) PROVE <<schema[m].name, x>> \in Symbols
  <2>1. PICK s \in Symbols : s[1] = schema[m].name /\ s[2] = x
    BY <1>2 DEF Own
  <2> QED
    BY <1>1, <2>1
<1>3. ASSUME <<schema[m].name, x>> \in Symbols PROVE x \in Own(m)
  BY <1>3 DEF Own
<1> QED
  BY <1>2, <1>3

(* A bound has the symbol of its node; or none, and then its node is in a  *)
(* parameterized body.                                                     *)
Resolved(b) ==
  \/ b.node \in DOMAIN name /\ b.to = {name[b.node]}
  \/ b.to = {} /\ IsParameterized(b.node)

LEMMA BodyNodeFacts ==
  ASSUME schema \in Seq(Module), NEW d \in Definitions, NEW k \in DOMAIN BodyNodes(d)
  PROVE  LET n == BodyNodes(d)[k]
         IN  n \in Nodes /\ n[4] = 0 /\ (IsParameterized(n) <=> IsParameterized(d))
<1> DEFINE n == BodyNodes(d)[k]
<1>1. n = <<d[1], d[2], k, 0>>
  BY DEF BodyNodes
<1>2. n \in Nodes
  BY DefinitionFacts
<1>3. IsParameterized(n) <=> IsParameterized(d)
  BY <1>1 DEF IsParameterized, Assigned
<1> QED
  BY <1>1, <1>2, <1>3

LEMMA BoundIsResolved ==
  ASSUME TypeInv, ProgressInv, CopiesInv, CourseInv, phase = "done",
         NEW e \in Definitions, NEW b \in EmittedNodes(e), NameAt(b.node) \in Values
  PROVE  b.node \in Nodes /\ Resolved(b)
<1>0. schema \in Seq(Module) /\ NameAt(b.node) \notin Primitives
  BY ValuesAssumption DEF TypeInv
<1> DEFINE a == AliasOf(e)
           d == DefinitionOf(name[a])
<1>1. CASE IsAlias(e) /\ a \in DOMAIN copies
  <2>1. a \in DOMAIN name /\ a \in Nodes /\ name[a] \in Symbols
    BY <1>1 DEF TypeInv, NameTyped
  <2>2. d \in Definitions
    BY <1>0, <2>1, DefinitionOfFacts
  <2>3. PICK k \in DOMAIN BodyNodes(d) :
          b = [node |-> Substituted(a, BodyNodes(d)[k]), to |-> copies[a][k].to]
    BY <1>1 DEF EmittedNodes
  <2> DEFINE x == Standing(a, BodyNodes(d)[k], d)
  <2>4. b.node = x /\ b.to = copies[a][k].to
    BY <2>3 DEF Standing, Substituted
  <2>5. Filled(a, name) /\ Copied(a, copies[a], name)
    BY <1>1 DEF CopiesInv, CopiesAre
  <2>6. \/ x \in DOMAIN name /\ copies[a][k].to = {name[x]}
        \/ /\ copies[a][k].to = {}
           /\ x = BodyNodes(d)[k] \/ NameAt(x) \in Primitives \ Classes
    BY <2>5 DEF Copied
  <2>7. BodyNodes(d)[k] \in Nodes /\ IsParameterized(BodyNodes(d)[k])
    BY <1>0, <2>2, <2>5, BodyNodeFacts DEF Filled
  <2> HIDE DEF a, d, x
  <2>8. CASE x \in DOMAIN name /\ copies[a][k].to = {name[x]}
    BY <2>4, <2>8 DEF Resolved, TypeInv, NameTyped
  <2>9. CASE copies[a][k].to = {} /\ x = BodyNodes(d)[k]
    BY <2>4, <2>7, <2>9 DEF Resolved
  <2> QED
    BY <1>0, <2>4, <2>6, <2>8, <2>9
<1>2. CASE ~ (IsAlias(e) /\ a \in DOMAIN copies)
  <2>1. PICK n \in Range(BodyNodes(e)) :
          b = [node |-> n, to |-> {name[x] : x \in {n} \cap DOMAIN name}]
    BY <1>2 DEF EmittedNodes
  <2>2. b.node = n /\ b.to = {name[x] : x \in {n} \cap DOMAIN name}
    BY <2>1
  <2>3. PICK k \in DOMAIN BodyNodes(e) : n = BodyNodes(e)[k]
    BY DEF Range
  <2>4. n \in Nodes /\ n[4] = 0
    BY <1>0, <2>3, BodyNodeFacts
  <2>5. CASE n \in DOMAIN name
    <3>1. {name[x] : x \in {n} \cap DOMAIN name} = {name[n]}
      BY <2>5
    <3> QED
      BY <2>2, <2>4, <2>5, <3>1 DEF Resolved
  <2>6. CASE n \notin DOMAIN name
    <3>1. {name[x] : x \in {n} \cap DOMAIN name} = {}
      BY <2>6
    <3>2. ~ Settled(n, DOMAIN name)
      BY <1>0, <2>2, <2>6 DEF Settled
    <3>3. n[1] < current
      <4>1. <<n[1], n[2]>> \in Definitions
        BY <1>0, <2>4, NodeFacts
      <4>2. n[1] \in DOMAIN schema
        BY <1>0, <4>1, DefinitionFacts
      <4>3. current \in 1 .. Len(schema) + 1 /\ current \notin DOMAIN schema
        BY DEF TypeInv, CourseInv
      <4> QED
        BY <1>0, <4>2, <4>3
    <3>4. n \notin Top
      BY <3>2, <3>3 DEF ProgressInv, Progress
    <3> QED
      BY <2>2, <2>4, <3>1, <3>4 DEF Resolved, Top
  <2> QED
    BY <2>5, <2>6
<1> QED
  BY <1>1, <1>2

LEMMA BoundIsLexical ==
  ASSUME TypeInv, ProgressInv, BoundByOwnOrImporter, CopiesInv, CourseInv, phase = "done",
         NEW d \in Emitted, NEW b \in EmittedBounds(d)
  PROVE  LET found == BoundOf(schema[d[1]].name, b)
             isOwn == NameAt(b.node) \in Own(d[1])
         IN  IF isOwn /\ b.node[1] = d[1] THEN found = Lexical(b)
             ELSE IF b.to = {}
             THEN IsParameterized(b.node) /\ (isOwn \/ Lexical(b) \subseteq found)
             ELSE isOwn \/ MayStray(b) \/ Lexical(b) \in {{}, found}
<1> DEFINE n == b.node
           x == NameAt(n)
           own == <<schema[d[1]].name, x>>
           scoped == ScopeOf(n[1])
           found == BoundOf(schema[d[1]].name, b)
<1>1. schema \in Seq(Module) /\ x \notin Primitives
  BY ValuesAssumption DEF TypeInv, EmittedBounds
<1>2. n \in Nodes /\ Resolved(b)
  <2>1. Effective(d) \in Definitions
    BY EffectiveFacts DEF Emitted
  <2> QED
    BY <2>1, BoundIsResolved DEF EmittedBounds
<1>3. x \in Own(d[1]) <=> own \in Symbols
  BY OwnFacts
<1>4. /\ x \in DOMAIN scoped => Lexical(b) = {scoped[x]}
      /\ x \notin DOMAIN scoped => Lexical(b) = {}
  BY DEF Lexical
<1>5. CASE x \in Own(d[1]) /\ n[1] = d[1]
  <2>1. x \in DOMAIN scoped /\ scoped[x] = own
    BY <1>5 DEF ScopeOf
  <2>2. found = {own}
    BY <1>3, <1>5 DEF BoundOf
  <2> QED
    BY <1>4, <1>5, <2>1, <2>2
<1>6. CASE ~ (x \in Own(d[1]) /\ n[1] = d[1]) /\ b.to = {}
  <2>1. IsParameterized(n)
    BY <1>2, <1>6 DEF Resolved
  <2>2. ASSUME x \notin Own(d[1]) PROVE Lexical(b) \subseteq found
    <3>1. found = Elsewhere(x)
      BY <1>3, <1>6, <2>2 DEF BoundOf
    <3>2. n[1] \in DOMAIN schema
      <4>1. <<n[1], n[2]>> \in Definitions
        BY <1>1, <1>2, NodeFacts
      <4> QED
        BY <1>1, <4>1, DefinitionFacts
    <3>3. ~ ImportsFail(n[1])
      <4>1. current \in 1 .. Len(schema) + 1 /\ current \notin DOMAIN schema
        BY DEF TypeInv, CourseInv
      <4>2. n[1] < current
        BY <1>1, <3>2, <4>1
      <4> QED
        BY <3>2, <4>2 DEF CourseInv
    <3>4. x \in DOMAIN scoped => scoped[x] \in Elsewhere(x)
      BY <1>1, <3>2, <3>3, ScopeFacts DEF Elsewhere
    <3> QED
      BY <1>4, <3>1, <3>4
  <2> QED
    BY <1>6, <2>1, <2>2
<1>7. CASE ~ (x \in Own(d[1]) /\ n[1] = d[1]) /\ b.to # {}
  <2>1. n \in DOMAIN name /\ b.to = {name[n]}
    BY <1>2, <1>7 DEF Resolved
  <2>2. ASSUME x \notin Own(d[1]), ~ MayStray(b) PROVE Lexical(b) \in {{}, found}
    <3>1. found = {name[n]}
      BY <1>3, <1>7, <2>1, <2>2 DEF BoundOf
    <3>2. PICK i \in Resolvers(n) : BindsAs(n, i)
      BY <1>1, <2>1 DEF BoundByOwnOrImporter
    <3>3. CASE i = n[1]
      BY <1>4, <3>1, <3>2, <3>3 DEF BindsAs
    <3>4. CASE i \in Importers(n[1])
      <4>1. x \in DOMAIN ScopeOf(i) /\ ScopeOf(i)[x] \in Lexical(b)
        BY <2>2, <3>4 DEF MayStray
      <4>2. name[n] \in Lexical(b)
        BY <3>2, <4>1 DEF BindsAs
      <4> QED
        BY <1>4, <3>1, <4>2
    <3> QED
      BY <3>2, <3>3, <3>4 DEF Resolvers
  <2> QED
    BY <1>7, <2>2
<1> QED
  BY <1>5, <1>6, <1>7

(* A bound is the constant its name means where it is written, with the    *)
(* exceptions that the property names, whatever the modules, the order of  *)
(* their parsing and the module that the code is generated for.            *)
THEOREM BoundsAreTrue == Spec => []BoundsAreLexical
<1>1. TypeInv /\ ProgressInv /\ BoundByOwnOrImporter /\ CopiesInv /\ CourseInv => BoundsAreLexical
  BY BoundIsLexical DEF BoundsAreLexical
<1> QED
  BY <1>1, TypeInvariant, ProgressInvariant, BindingIsNear, CopiesInvariant, CourseInvariant, PTL

=============================================================================
