-------------------------- MODULE Compiler_proofs --------------------------
(***************************************************************************)
(* Proofs about Compiler, for all files, include paths and options.        *)
(***************************************************************************)
EXTENDS Compiler, InOrder_proofs, SequenceTheorems

-----------------------------------------------------------------------------
(* What a file imports.                                                    *)

WorldOK ==
  /\ world.lang \in Lang /\ world.input \in Path /\ world.includes \in Seq(Places)
  /\ DOMAIN world.files \subseteq Path /\ world.broken \subseteq Path
  /\ \A p \in DOMAIN world.files : world.files[p] \in Seq(Module)
  /\ world.broken \cap DOMAIN world.files = {}

(* Places are tried in an order that has a first one.                      *)
LEMMA SearchPathFacts ==
  ASSUME WorldOK, NEW path \in Path
  PROVE  SearchPath(path) \in Seq(Places \cup {NoPlace})
<1> DEFINE P == Places \cup {NoPlace}
           own == IF path[1] = NoPlace THEN <<>> ELSE <<path[1]>>
<1>1. path[1] \in P
  BY DEF Path
<1>2. own \in Seq(P) /\ <<NoPlace>> \in Seq(P)
  <2>1. NoPlace \in P
    OBVIOUS
  <2> HIDE DEF P
  <2>2. <<>> \in Seq(P) /\ <<path[1]>> \in Seq(P) /\ <<NoPlace>> \in Seq(P)
    BY <1>1, <2>1
  <2> QED
    BY <2>2
<1>3. world.includes \in Seq(P)
  <2>1. world.includes \in Seq(Places)
    BY DEF WorldOK
  <2> QED
    BY <2>1, SeqMonotonic
<1> HIDE DEF own, P
<1>4. own \o world.includes \in Seq(P)
  BY <1>2, <1>3, ConcatProperties
<1>5. (own \o world.includes) \o <<NoPlace>> \in Seq(P)
  BY <1>2, <1>4, ConcatProperties
<1> QED
  BY <1>5 DEF SearchPath, own, P

(* A module that is found is found in a file that exists.                  *)
LEMMA FileOfFacts ==
  ASSUME WorldOK, NEW path \in Path, NEW m \in Names, Hits(m, path) # {}
  PROVE  FileOf(m, path) \in Path /\ Exists(FileOf(m, path))
<1> DEFINE k == Min(Hits(m, path))
<1>1. SearchPath(path) \in Seq(Places \cup {NoPlace})
  BY SearchPathFacts
<1>2. Hits(m, path) \in SUBSET Nat
  BY <1>1 DEF Hits
<1>3. k \in Hits(m, path)
  <2>1. \E x \in Hits(m, path) : \A y \in Hits(m, path) : x <= y
    BY <1>2, FirstExists
  <2> QED
    BY <2>1 DEF Min
<1>4. k \in DOMAIN SearchPath(path) /\ Exists(<<SearchPath(path)[k], m>>)
  BY <1>3 DEF Hits
<1>5. SearchPath(path)[k] \in Places \cup {NoPlace}
  BY <1>1, <1>4
<1>6. FileOf(m, path) = <<SearchPath(path)[k], m>>
  BY DEF FileOf
<1> QED
  BY <1>4, <1>5, <1>6 DEF Path

LEMMA ClausesFoundFinite ==
  ASSUME WorldOK, NEW path \in DOMAIN world.files
  PROVE  /\ IsFiniteSet(ClausesFound(path))
         /\ ClausesFound(path) \subseteq Nat \X Nat
         /\ \A c \in ClausesFound(path) :
              /\ world.files[path][c[1]].clauses[c[2]].from \in Names
              /\ Hits(world.files[path][c[1]].clauses[c[2]].from, path) # {}
<1> DEFINE modules == world.files[path]
           of == [i \in DOMAIN modules |-> {i} \X DOMAIN modules[i].clauses]
           T == {of[i] : i \in DOMAIN modules}
<1>1. modules \in Seq(Module)
  BY DEF WorldOK
<1> HIDE DEF modules
<1>2. Len(modules) \in Nat /\ DOMAIN modules = 1 .. Len(modules)
  BY <1>1
<1>3. IsFiniteSet(DOMAIN modules)
  BY <1>2, FS_Interval
<1>4. \A i \in DOMAIN modules : modules[i].clauses \in Seq(Clause)
  <2> TAKE i \in DOMAIN modules
  <2>1. modules[i] \in Module
    BY <1>1
  <2> QED
    BY <2>1 DEF Module
<1>5. ASSUME NEW i \in DOMAIN modules
      PROVE  /\ IsFiniteSet(of[i])
             /\ \A c \in of[i] : c[1] = i /\ c[2] \in DOMAIN modules[i].clauses
                                 /\ c \in Nat \X Nat
                                 /\ modules[i].clauses[c[2]].from \in Names
  <2>1. /\ modules[i].clauses \in Seq(Clause) /\ i \in Nat
    BY <1>2, <1>4
  <2>2. /\ Len(modules[i].clauses) \in Nat
        /\ DOMAIN modules[i].clauses = 1 .. Len(modules[i].clauses)
    BY <2>1
  <2>3. IsFiniteSet(DOMAIN modules[i].clauses) /\ IsFiniteSet({i})
    <3>1. IsFiniteSet({i})
      BY FS_Singleton
    <3>2. 1 \in Int /\ Len(modules[i].clauses) \in Int
      BY <2>2
    <3>3. IsFiniteSet(1 .. Len(modules[i].clauses))
      BY <3>2, FS_Interval
    <3> QED
      BY <2>2, <3>1, <3>3
  <2>4. IsFiniteSet({i} \X DOMAIN modules[i].clauses)
    BY <2>3, FS_Product
  <2>5. \A n \in DOMAIN modules[i].clauses : modules[i].clauses[n].from \in Names
    <3> TAKE n \in DOMAIN modules[i].clauses
    <3>1. modules[i].clauses[n] \in Clause
      BY <2>1
    <3> QED
      BY <3>1 DEF Clause
  <2> QED
    <3>1. of[i] = {i} \X DOMAIN modules[i].clauses
      OBVIOUS
    <3> HIDE DEF of
    <3>2. IsFiniteSet(of[i])
      BY <2>4, <3>1
    <3>3. ASSUME NEW c \in of[i]
          PROVE  c[1] = i /\ c[2] \in DOMAIN modules[i].clauses
      BY <3>1
    <3>4. ASSUME NEW c \in of[i]
          PROVE  c \in Nat \X Nat
      BY <2>1, <2>2, <3>1
    <3> QED
      BY <2>5, <3>2, <3>3, <3>4
<1>6. IsFiniteSet(T)
  <2>1. of \in Surjection(DOMAIN modules, T)
    BY DEF Surjection
  <2> HIDE DEF of, T
  <2> QED
    BY <1>3, <2>1, FS_Surjection
<1>7. IsFiniteSet(UNION T)
  <2> HIDE DEF of
  <2>1. \A s \in T : IsFiniteSet(s)
    BY <1>5
  <2> HIDE DEF T
  <2> QED
    BY <1>6, <2>1, FS_UNION
<1>8. ClausesFound(path) \subseteq UNION T
  BY DEF ClausesFound, modules
<1>9. \A c \in UNION T : c \in Nat \X Nat /\ modules[c[1]].clauses[c[2]].from \in Names
  <2> HIDE DEF of
  <2> QED
    BY <1>5
<1>10. \A c \in ClausesFound(path) : Hits(modules[c[1]].clauses[c[2]].from, path) # {}
  BY DEF ClausesFound, modules
<1>11. IsFiniteSet(ClausesFound(path))
  <2> HIDE DEF T
  <2> QED
    BY <1>7, <1>8, FS_Subset
<1> QED
  <2> HIDE DEF T
  <2> QED
    BY <1>8, <1>9, <1>10, <1>11 DEF modules

(* Every clause whose module is found adds its file, and nothing else does.*)
LEMMA ImportedFacts ==
  ASSUME WorldOK, NEW path \in DOMAIN world.files
  PROVE  /\ Imported(path) \in Seq(Path)
         /\ Range(Imported(path)) = {ImportOf(c, path) : c \in ClausesFound(path)}
         /\ \A q \in Range(Imported(path)) : Exists(q)
<1> DEFINE S == ClausesFound(path)
           before == TextOrder(S)
           found == InOrder(S, before)
<1>1. /\ IsFiniteSet(S) /\ S \subseteq Nat \X Nat
  BY ClausesFoundFinite
<1>2. \A c \in S : ImportOf(c, path) \in Path /\ Exists(ImportOf(c, path))
  <2>1. path \in Path
    BY DEF WorldOK
  <2> QED
    BY <2>1, ClausesFoundFinite, FileOfFacts DEF ImportOf
<1>3. IsOrder(S, before)
  <2> HIDE DEF S
  <2>1. \A x \in S : x[1] \in Nat /\ x[2] \in Nat /\ x = <<x[1], x[2]>>
    BY <1>1
  <2>2. \A x, y \in S : <<x, y>> \in before <=>
          x[1] < y[1] \/ (x[1] = y[1] /\ x[2] < y[2])
    BY DEF TextOrder
  <2> HIDE DEF before
  <2> QED
    BY <2>1, <2>2 DEF IsOrder
<1> HIDE DEF before
<1>4. /\ found \in Seq(S) /\ Len(found) = Cardinality(S)
      /\ \A x \in S : \E k \in 1 .. Cardinality(S) : found[k] = x
  <2> HIDE DEF S
  <2> QED
    BY <1>1, <1>3, InOrderFacts
<1> HIDE DEF found
<1>5. Imported(path) = [k \in DOMAIN found |-> ImportOf(found[k], path)]
  BY DEF Imported, InText, found, before
<1>6. DOMAIN found = 1 .. Len(found) /\ \A k \in DOMAIN found : found[k] \in S
  BY <1>4
<1> HIDE DEF S
<1>7. Imported(path) \in Seq(Path)
  <2>1. Len(found) \in Nat
    BY <1>4
  <2> QED
    BY <1>2, <1>5, <1>6, <2>1
<1>8. Range(Imported(path)) = {ImportOf(c, path) : c \in S}
  BY <1>4, <1>5, <1>6 DEF Range
<1> QED
  BY <1>2, <1>7, <1>8 DEF S

-----------------------------------------------------------------------------
(* The world does not change, so neither does what is derived from it.     *)

LEMMA WorldFixed ==
  ASSUME [Next]_vars
  PROVE  world' = world
BY DEF Next, vars, SkipFile, ParseFails, ParseFile, NothingParsed, EndLoad,
       ResolveFails, Resolve, GenerateModule, GenerateFails, EndGenerate,
       SaveFile, SaveFails, Succeed

LEMMA PathsFixed ==
  ASSUME world' = world
  PROVE  /\ WorldOK => WorldOK'
         /\ Outputs' = Outputs
         /\ \A p : Exists(p)' <=> Exists(p)
         /\ \A p : Imported(p)' = Imported(p)
<1>1. WorldOK => WorldOK'
  BY DEF WorldOK
<1>2. Outputs' = Outputs
  BY DEF Outputs, Extra
<1>3. \A p : Exists(p)' <=> Exists(p)
  BY DEF Exists
<1>4. ASSUME NEW p
      PROVE  Imported(p)' = Imported(p)
  <2>1. SearchPath(p)' = SearchPath(p)
    BY DEF SearchPath
  <2>2. ASSUME NEW m
        PROVE  Hits(m, p)' = Hits(m, p)
    BY <1>3, <2>1 DEF Hits
  <2>3. ASSUME NEW m
        PROVE  FileOf(m, p)' = FileOf(m, p)
    BY <2>1, <2>2 DEF FileOf
  <2>4. ASSUME NEW c
        PROVE  ImportOf(c, p)' = ImportOf(c, p)
    BY <2>3 DEF ImportOf
  <2>5. ClausesFound(p)' = ClausesFound(p)
    BY <2>2 DEF ClausesFound
  <2>6. InText(p)' = InText(p)
    BY <2>5 DEF InText
  <2> QED
    BY <2>4, <2>6 DEF Imported
<1> QED
  BY <1>1, <1>2, <1>3, <1>4

-----------------------------------------------------------------------------
(* The worklist and the outputs.                                           *)

LEMMA WorldIsOK ==
  ASSUME world \in Worlds
  PROVE  WorldOK
BY WorldsAssumption DEF WorldOK

(* Popping the back of the worklist leaves the rest.                       *)
LEMMA WorklistFacts ==
  ASSUME NEW S, NEW s \in Seq(S), s # <<>>
  PROVE  /\ Last(s) \in S /\ Front(s) \in Seq(S)
         /\ Range(s) = Range(Front(s)) \cup {Last(s)}
<1>1. Len(s) \in Nat /\ Len(s) # 0
  OBVIOUS
<1>2. \A i \in 1 .. Len(s) - 1 : s[i] \in S
  BY <1>1
<1>3. /\ Front(s) \in Seq(S) /\ Len(Front(s)) = Len(s) - 1
      /\ \A i \in 1 .. Len(s) - 1 : Front(s)[i] = s[i]
  <2>1. 1 \in Int /\ Len(s) - 1 \in Int /\ Len(s) - 1 \in Nat
    BY <1>1
  <2>2. /\ Front(s) \in Seq(S)
        /\ Len(Front(s)) = IF 1 <= Len(s) - 1 THEN Len(s) - 1 - 1 + 1 ELSE 0
        /\ \A i \in 1 .. Len(s) - 1 - 1 + 1 : Front(s)[i] = s[1 + i - 1]
    BY <1>2, <2>1, SubSeqProperties DEF Front
  <2>3. Len(Front(s)) = Len(s) - 1
    <3>1. CASE Len(s) = 1
      BY <2>2, <3>1
    <3>2. CASE Len(s) # 1
      <4>1. 1 <= Len(s) - 1 /\ Len(s) - 1 - 1 + 1 = Len(s) - 1
        <5>1. \A n \in Nat : n # 0 /\ n # 1 => 1 <= n - 1 /\ n - 1 - 1 + 1 = n - 1
          OBVIOUS
        <5> QED
          BY <1>1, <3>2, <5>1
      <4> QED
        BY <2>2, <4>1
    <3> QED
      BY <3>1, <3>2
  <2>4. ASSUME NEW i \in 1 .. Len(s) - 1
        PROVE  Front(s)[i] = s[i]
    <3>1. i \in 1 .. Len(s) - 1 - 1 + 1 /\ 1 + i - 1 = i
      BY <2>1
    <3> QED
      BY <2>2, <3>1
  <2> QED
    BY <2>2, <2>3, <2>4
<1>4. Last(s) = s[Len(s)] /\ Last(s) \in S
  BY <1>1 DEF Last
<1>5. DOMAIN Front(s) = 1 .. Len(s) - 1 /\ DOMAIN s = 1 .. Len(s)
  BY <1>3
<1> QED
  <2>1. Range(Front(s)) \cup {Last(s)} \subseteq Range(s)
    BY <1>1, <1>3, <1>4, <1>5 DEF Range
  <2>2. Range(s) \subseteq Range(Front(s)) \cup {Last(s)}
    <3>1. ASSUME NEW i \in 1 .. Len(s)
          PROVE  s[i] \in Range(Front(s)) \cup {Last(s)}
      <4>1. CASE i = Len(s)
        BY <4>1, <1>4
      <4>2. CASE i # Len(s)
        <5>1. i \in 1 .. Len(s) - 1
          BY <4>2, <1>1
        <5> QED
          BY <5>1, <1>3, <1>5 DEF Range
      <4> QED
        BY <4>1, <4>2
    <3> QED
      BY <3>1, <1>5 DEF Range
  <2> QED
    BY <2>1, <2>2, <1>3, <1>4

(* The source file is the last output, and is asked for once.              *)
OutputNames == {"json", "schema", "header", "source"}

LEMMA OutputsFacts ==
  /\ Outputs \in Seq(OutputNames) /\ Len(Outputs) \in Nat /\ Len(Outputs) # 0
  /\ Outputs[Len(Outputs)] = "source"
  /\ \A k \in 1 .. Len(Outputs) - 1 : Outputs[k] # "source"
<1> DEFINE E == Extra("json") \o Extra("schema")
           T == <<"header", "source">>
<1>1. Extra("json") \in Seq({"json", "schema"}) /\ Extra("schema") \in Seq({"json", "schema"})
  <2>1. \A f \in {"json", "schema"} : <<f>> \in Seq({"json", "schema"}) /\ <<>> \in Seq({"json", "schema"})
    OBVIOUS
  <2> QED
    BY <2>1 DEF Extra
<1>2. E \in Seq({"json", "schema"})
  BY <1>1, ConcatProperties
<1>3. Outputs = E \o T
  BY DEF Outputs
<1> HIDE DEF E
<1>4. E \in Seq(OutputNames)
  <2>1. {"json", "schema"} \subseteq OutputNames
    BY DEF OutputNames
  <2> QED
    BY <1>2, <2>1, SeqMonotonic
<1>5. T \in Seq(OutputNames) /\ Len(T) = 2 /\ T[1] = "header" /\ T[2] = "source"
  BY DEF OutputNames
<1> HIDE DEF T
<1>6. /\ Outputs \in Seq(OutputNames) /\ Len(Outputs) = Len(E) + 2
      /\ \A k \in 1 .. Len(E) + 2 :
           Outputs[k] = IF k <= Len(E) THEN E[k] ELSE T[k - Len(E)]
  <2>1. T \in Seq(OutputNames) /\ Len(T) = 2
    BY <1>5
  <2>2. E \o T \in Seq(OutputNames)
    BY <1>4, <2>1, ConcatProperties
  <2>3. Len(E \o T) = Len(E) + Len(T)
    BY <1>4, <2>1, ConcatProperties
  <2>4. \A k \in 1 .. Len(E) + Len(T) :
          (E \o T)[k] = IF k <= Len(E) THEN E[k] ELSE T[k - Len(E)]
    BY <1>4, <2>1, ConcatProperties
  <2> QED
    BY <1>3, <2>1, <2>2, <2>3, <2>4
<1>7. Len(E) \in Nat /\ \A k \in 1 .. Len(E) : E[k] \in {"json", "schema"}
  BY <1>2
<1>8. Outputs[Len(Outputs)] = "source"
  BY <1>5, <1>6, <1>7
<1>9. ASSUME NEW k \in 1 .. Len(Outputs) - 1
      PROVE  Outputs[k] # "source"
  <2>1. CASE k <= Len(E)
    BY <2>1, <1>6, <1>7
  <2>2. CASE k = Len(E) + 1
    BY <2>2, <1>5, <1>6, <1>7
  <2> QED
    BY <2>1, <2>2, <1>6, <1>7
<1> QED
  BY <1>6, <1>7, <1>8, <1>9

-----------------------------------------------------------------------------

(* A position of b that is not one of a is one of f.                       *)
Parts(b, a, f) ==
  \A i \in DOMAIN b : i \notin DOMAIN a =>
    \E k \in DOMAIN f : i = Len(a) + k /\ b[i] = f[k]

(* What is parsed is appended, so positions keep their modules.            *)
LEMMA AstsGrow ==
  ASSUME WorldOK, all_asts \in Seq(Module), NEW path \in DOMAIN world.files,
         NEW b, b = all_asts \o world.files[path]
  PROVE  /\ b \in Seq(Module)
         /\ DOMAIN all_asts \subseteq DOMAIN b
         /\ Range(b) = Range(all_asts) \cup Range(world.files[path])
         /\ Len(b) = Len(all_asts) + Len(world.files[path])
         /\ DOMAIN b = 1 .. Len(b)
         /\ \A i \in DOMAIN all_asts : b[i] = all_asts[i]
         /\ Parts(b, all_asts, world.files[path])
<1> DEFINE a == all_asts
           f == world.files[path]
<1>1. a \in Seq(Module) /\ f \in Seq(Module)
  BY DEF WorldOK
<1>2. b = a \o f
  OBVIOUS
<1> HIDE DEF a, f
<1>3. b \in Seq(Module)
  BY <1>1, <1>2, ConcatProperties
<1>4. Len(b) = Len(a) + Len(f)
  BY <1>1, <1>2, ConcatProperties
<1>5. \A i \in 1 .. Len(a) + Len(f) :
        b[i] = IF i <= Len(a) THEN a[i] ELSE f[i - Len(a)]
  BY <1>1, <1>2, ConcatProperties
<1>6. Range(b) = Range(a) \cup Range(f)
  BY <1>1, <1>2, RangeConcatenation
<1>7. /\ Len(a) \in Nat /\ Len(f) \in Nat
      /\ DOMAIN a = 1 .. Len(a) /\ DOMAIN f = 1 .. Len(f) /\ DOMAIN b = 1 .. Len(b)
  BY <1>1, <1>3
<1>8. \A i \in DOMAIN a : b[i] = a[i]
  BY <1>4, <1>5, <1>7
<1>9. ASSUME NEW i \in DOMAIN b, i \notin DOMAIN a
      PROVE  \E k \in DOMAIN f : i = Len(a) + k /\ b[i] = f[k]
  <2>1. i - Len(a) \in DOMAIN f /\ i = Len(a) + (i - Len(a))
    BY <1>4, <1>7, <1>9
  <2>2. b[i] = f[i - Len(a)]
    BY <1>4, <1>5, <1>7, <1>9
  <2> QED
    BY <2>1, <2>2
<1>10. DOMAIN a \subseteq DOMAIN b
  BY <1>4, <1>7
<1>11. Parts(b, a, f)
  BY <1>9 DEF Parts
<1> QED
  BY <1>3, <1>4, <1>6, <1>7, <1>8, <1>10, <1>11 DEF a, f

LEMMA TypeInit == Init => TypeOK
<1> SUFFICES ASSUME Init PROVE TypeOK
  OBVIOUS
<1>1. WorldOK
  BY WorldIsOK DEF Init
<1>2. filesToParse \in Seq(Path)
  BY <1>1 DEF Init, WorldOK
<1>3. all_asts \in Seq(Module) /\ saved \in Seq([file : Range(Outputs), whole : BOOLEAN])
  BY DEF Init
<1>4. emitted \in [DOMAIN emitted -> SUBSET Types]
  BY DEF Init
<1> QED
  BY <1>2, <1>3, <1>4 DEF Init, TypeOK

LEMMA TypeStep == TypeOK /\ [Next]_vars => TypeOK'
<1> SUFFICES ASSUME TypeOK, [Next]_vars
             PROVE  TypeOK'
  OBVIOUS
<1>1. world' = world
  BY WorldFixed
<1>2. WorldOK
  BY WorldIsOK DEF TypeOK
<1>3. Outputs' = Outputs
  BY <1>1, PathsFixed
<1> DEFINE Record == [file : Range(Outputs), whole : BOOLEAN]
<1>4. CASE SkipFile
  <2>1. filesToParse' \in Seq(Path)
    BY <1>4, WorklistFacts DEF TypeOK, SkipFile, Loading
  <2> QED
    BY <1>1, <1>3, <1>4, <2>1 DEF TypeOK, SkipFile, generation
<1>5. CASE ParseFails
  BY <1>1, <1>3, <1>5 DEF TypeOK, ParseFails, Fail, generation, loading
<1>6. CASE ParseFile
  <2>1. Current \in DOMAIN world.files /\ Front(filesToParse) \in Seq(Path)
    BY <1>6, WorklistFacts DEF TypeOK, ParseFile, Loading
  <2>2. filesToParse' \in Seq(Path)
    <3>1. Imported(Current) \in Seq(Path)
      BY <1>2, <2>1, ImportedFacts
    <3>2. Front(filesToParse) \o Imported(Current) \in Seq(Path)
      BY <2>1, <3>1, ConcatProperties
    <3> QED
      BY <1>6, <3>2 DEF ParseFile
  <2>3. parsedFiles' \subseteq DOMAIN world'.files
    BY <1>1, <1>6, <2>1 DEF TypeOK, ParseFile
  <2>4. all_asts' \in Seq(Module) /\ DOMAIN all_asts \subseteq DOMAIN all_asts'
    <3>1. all_asts' = all_asts \o world.files[Current] /\ all_asts \in Seq(Module)
      BY <1>6 DEF TypeOK, ParseFile
    <3> QED
      BY <1>2, <2>1, <3>1, AstsGrow
  <2>5. generated' \subseteq DOMAIN all_asts' /\ adapters' \subseteq (DOMAIN all_asts') \X Types
    BY <1>6, <2>4 DEF TypeOK, ParseFile, generation
  <2> QED
    BY <1>1, <1>3, <1>6, <2>2, <2>3, <2>4, <2>5 DEF TypeOK, ParseFile, generation
<1>7. CASE NothingParsed
  BY <1>1, <1>3, <1>7 DEF TypeOK, NothingParsed, Fail, generation, loading
<1>8. CASE EndLoad
  BY <1>1, <1>3, <1>8 DEF TypeOK, EndLoad, generation, loading
<1>9. CASE ResolveFails
  BY <1>1, <1>3, <1>9 DEF TypeOK, ResolveFails, Fail, generation, loading
<1>10. CASE Resolve
  BY <1>1, <1>3, <1>10 DEF TypeOK, Resolve, generation, loading
<1>11. ASSUME NEW i \in DOMAIN all_asts, GenerateModule(i)
       PROVE  TypeOK'
  <2>1. all_asts[i] \in Module
    BY DEF TypeOK
  <2>2. Emittable(i) \in SUBSET Types
    BY <2>1 DEF Emittable, Module
  <2>3. emitted' \in [DOMAIN emitted' -> SUBSET Types]
    <3>1. CASE world.lang = "c"
      BY <3>1, <1>11 DEF TypeOK, GenerateModule
    <3>2. CASE world.lang # "c"
      BY <3>2, <1>11, <2>2 DEF TypeOK, GenerateModule
    <3> QED
      BY <3>1, <3>2
  <2>4. generated' \subseteq DOMAIN all_asts'
    BY <1>11 DEF TypeOK, GenerateModule, Kept, loading
  <2> QED
    BY <1>1, <1>3, <1>11, <2>3, <2>4 DEF TypeOK, GenerateModule, loading
<1>12. CASE GenerateFails
  BY <1>1, <1>3, <1>12 DEF TypeOK, GenerateFails, Fail, generation, loading
<1>13. CASE EndGenerate
  <2>1. adapters' \subseteq (DOMAIN all_asts') \X Types
    BY <1>13 DEF EndGenerate, Kept, loading
  <2> QED
    BY <1>1, <1>3, <1>13, <2>1 DEF TypeOK, EndGenerate, loading
<1>14. CASE SaveFile
  <2>1. NextOutput \in Range(Outputs)
    <3>1. Len(saved) \in Nat
      BY DEF TypeOK
    <3>2. Len(saved) + 1 \in DOMAIN Outputs
      BY <1>14, <3>1, OutputsFacts DEF SaveFile
    <3> QED
      BY <3>2 DEF NextOutput, Range
  <2>2. saved' \in Seq(Record)
    <3>1. PICK whole \in BOOLEAN :
            saved' = Append(saved, [file |-> NextOutput, whole |-> whole])
      BY <1>14 DEF SaveFile
    <3>2. [file |-> NextOutput, whole |-> whole] \in Record
      BY <2>1
    <3>3. saved \in Seq(Record)
      BY DEF TypeOK
    <3> HIDE DEF Record
    <3> QED
      BY <3>1, <3>2, <3>3
  <2> QED
    BY <1>1, <1>3, <1>14, <2>2 DEF TypeOK, SaveFile, generation, loading
<1>15. CASE SaveFails
  BY <1>1, <1>3, <1>15 DEF TypeOK, SaveFails, Fail, generation, loading
<1>16. CASE Succeed
  BY <1>1, <1>3, <1>16 DEF TypeOK, Succeed, generation, loading
<1>17. CASE UNCHANGED vars
  BY <1>1, <1>3, <1>17 DEF TypeOK, vars
<1> QED
  BY <1>4, <1>5, <1>6, <1>7, <1>8, <1>9, <1>10, <1>11, <1>12, <1>13, <1>14,
     <1>15, <1>16, <1>17 DEF Next

(* The worklist and the parsed files are paths, the modules come from the  *)
(* files, and what is generated, adapted and saved is of them.             *)
THEOREM CompilerTypeCorrect == Spec => []TypeOK
BY TypeInit, TypeStep, PTL DEF Spec

-----------------------------------------------------------------------------
(* Every file that was parsed has its modules in the list, once.           *)

LEMMA OnceInit == Init => ModulesOnce
BY DEF Init, ModulesOnce, Range

LEMMA OnceStep == TypeOK /\ ModulesOnce /\ [Next]_vars => ModulesOnce'
<1> SUFFICES ASSUME TypeOK, ModulesOnce, [Next]_vars
             PROVE  ModulesOnce'
  OBVIOUS
<1>1. world' = world
  BY WorldFixed
<1>2. WorldOK
  BY WorldIsOK DEF TypeOK
<1>3. CASE ParseFile
  <2> DEFINE path == Current
             f == world.files[path]
             a == all_asts
  <2>1. path \in DOMAIN world.files /\ path \notin parsedFiles
    BY <1>3 DEF ParseFile
  <2>2. parsedFiles' = parsedFiles \cup {path}
    BY <1>3 DEF ParseFile
  <2>3. all_asts' = a \o f /\ a \in Seq(Module)
    BY <1>3 DEF ParseFile, TypeOK
  <2> HIDE DEF path
  <2>4. Range(all_asts') = Range(a) \cup Range(f)
    BY <1>2, <2>1, <2>3, AstsGrow
  <2>5. \A i \in DOMAIN a : all_asts'[i] = a[i]
    BY <1>2, <2>1, <2>3, AstsGrow
  <2>6. \A i \in DOMAIN all_asts' : i \notin DOMAIN a =>
          \E k \in DOMAIN f : i = Len(a) + k /\ all_asts'[i] = f[k]
    <3>1. all_asts' = all_asts \o world.files[path] /\ all_asts \in Seq(Module)
      BY <2>3
    <3> HIDE DEF f, a
    <3>2. Parts(all_asts', all_asts, world.files[path])
      BY <1>2, <2>1, <3>1, AstsGrow
    <3> QED
      BY <3>2 DEF Parts, f, a
  <2>7. Range(a) = UNION {Range(world.files[p]) : p \in parsedFiles}
    BY DEF ModulesOnce
  <2> HIDE DEF f, a
  <2>8. Range(all_asts') = UNION {Range(world.files[p]) : p \in parsedFiles'}
    BY <2>2, <2>4, <2>7 DEF f
  <2>9. ASSUME NamesUnambiguous',
               NEW i \in DOMAIN all_asts', NEW j \in DOMAIN all_asts',
               all_asts'[i].name = all_asts'[j].name
        PROVE  i = j
    <3>1. /\ \A p, q \in parsedFiles' : p # q =>
               \A x \in Range(world.files[p]), y \in Range(world.files[q]) :
                 x.name # y.name
          /\ \A k, l \in DOMAIN f : f[k].name = f[l].name => k = l
      BY <1>1, <2>2, <2>9 DEF NamesUnambiguous, f
    <3>2. NamesUnambiguous
      BY <1>1, <2>2, <2>9 DEF NamesUnambiguous
    <3>3. \A k, l \in DOMAIN a : a[k].name = a[l].name => k = l
      BY <3>2 DEF ModulesOnce, a
    <3>4. ASSUME NEW k \in DOMAIN a, NEW l \in DOMAIN f
          PROVE  a[k].name # f[l].name
      <4>1. a[k] \in Range(a) /\ f[l] \in Range(f)
        BY DEF Range
      <4>2. PICK p \in parsedFiles : a[k] \in Range(world.files[p])
        BY <2>7, <4>1
      <4>3. p # path /\ p \in parsedFiles' /\ path \in parsedFiles'
        BY <2>1, <2>2
      <4> QED
        BY <3>1, <4>1, <4>2, <4>3 DEF f
    <3>5. CASE i \in DOMAIN a /\ j \in DOMAIN a
      BY <2>5, <2>9, <3>3, <3>5
    <3>6. CASE i \in DOMAIN a /\ j \notin DOMAIN a
      BY <2>5, <2>6, <2>9, <3>4, <3>6
    <3>7. CASE i \notin DOMAIN a /\ j \in DOMAIN a
      <4>1. PICK k \in DOMAIN f : all_asts'[i] = f[k]
        BY <2>6, <3>7
      <4> QED
        BY <2>5, <2>9, <3>4, <3>7, <4>1
    <3>8. CASE i \notin DOMAIN a /\ j \notin DOMAIN a
      <4>1. PICK k \in DOMAIN f : i = Len(a) + k /\ all_asts'[i] = f[k]
        BY <2>6, <3>8
      <4>2. PICK l \in DOMAIN f : j = Len(a) + l /\ all_asts'[j] = f[l]
        BY <2>6, <3>8
      <4> QED
        BY <2>9, <3>1, <4>1, <4>2
    <3> QED
      BY <3>5, <3>6, <3>7, <3>8
  <2> QED
    BY <1>1, <2>8, <2>9 DEF ModulesOnce
<1>4. CASE UNCHANGED <<all_asts, parsedFiles>>
  BY <1>1, <1>4 DEF ModulesOnce, NamesUnambiguous
<1>5. ParseFile \/ UNCHANGED <<all_asts, parsedFiles>>
  BY DEF Next, vars, loading, SkipFile, ParseFails, NothingParsed, EndLoad,
         ResolveFails, Resolve, GenerateModule, GenerateFails, EndGenerate,
         SaveFile, SaveFails, Succeed
<1> QED
  BY <1>3, <1>4, <1>5

(* The compiler works on the modules of the parsed files and no others;    *)
(* when no two of them have one name, each is in the list once, however    *)
(* many clauses import it and however the files import each other.         *)
THEOREM ModulesAreCompiledOnce == Spec => []ModulesOnce
<1>1. Init => ModulesOnce
  BY OnceInit
<1>2. TypeOK /\ TypeOK' /\ ModulesOnce /\ [Next]_vars => ModulesOnce'
  BY OnceStep
<1> QED
  BY <1>1, <1>2, CompilerTypeCorrect, PTL DEF Spec

-----------------------------------------------------------------------------
(* Which files are parsed.                                                 *)

(* The input, and what is imported, has been parsed or waits; and what     *)
(* waits is as far as the imports lead.                                    *)
ReachInv ==
  /\ {world.input} \cap (DOMAIN world.files \cup world.broken)
       \subseteq parsedFiles \cup Range(filesToParse)
  /\ \A p \in parsedFiles :
       Range(Imported(p)) \cap (DOMAIN world.files \cup world.broken)
         \subseteq parsedFiles \cup Range(filesToParse)
  /\ \A S \in SUBSET DOMAIN world.files : Closed(S, DOMAIN world.files) =>
       parsedFiles \cup (Range(filesToParse) \cap DOMAIN world.files) \subseteq S
  /\ phase # "load" => filesToParse = <<>> /\ parsedFiles # {}

LEMMA ReachInit == Init => ReachInv
<1> SUFFICES ASSUME Init
             PROVE  ReachInv
  OBVIOUS
<1>1. Range(filesToParse) = {world.input}
  <2>1. filesToParse = <<world.input>>
    BY DEF Init
  <2> QED
    BY <2>1 DEF Range
<1> QED
  BY <1>1 DEF Init, ReachInv, Closed

LEMMA ReachStep ==
  TypeOK /\ ModulesOnce /\ ReachInv /\ [Next]_vars => ReachInv'
<1> SUFFICES ASSUME TypeOK, ModulesOnce, ReachInv, [Next]_vars
             PROVE  ReachInv'
  OBVIOUS
<1> DEFINE readable == DOMAIN world.files \cup world.broken
<1>1. world' = world
  BY WorldFixed
<1>2. WorldOK
  BY WorldIsOK DEF TypeOK
<1>3. \A p : Imported(p)' = Imported(p)
  BY <1>1, PathsFixed
(* The three conditions on what waits, after a step.                       *)
<1>4. ASSUME {world.input} \cap readable \subseteq parsedFiles' \cup Range(filesToParse'),
             \A p \in parsedFiles' : Range(Imported(p)) \cap readable
                                       \subseteq parsedFiles' \cup Range(filesToParse'),
             \A S \in SUBSET DOMAIN world.files : Closed(S, DOMAIN world.files) =>
               parsedFiles' \cup (Range(filesToParse') \cap DOMAIN world.files) \subseteq S,
             phase' # "load" => filesToParse' = <<>> /\ parsedFiles' # {}
      PROVE  ReachInv'
  <2>1. \A S \in SUBSET DOMAIN world.files :
          /\ {world.input} \cap DOMAIN world.files \subseteq S
          /\ \A p \in S : Range(Imported(p)) \cap DOMAIN world.files \subseteq S
          => parsedFiles' \cup (Range(filesToParse') \cap DOMAIN world.files) \subseteq S
    BY <1>4 DEF Closed
  <2> QED
    BY <1>1, <1>3, <1>4, <2>1 DEF ReachInv, Closed
<1>5. CASE SkipFile
  <2>1. /\ Range(filesToParse) = Range(filesToParse') \cup {Current}
        /\ parsedFiles' = parsedFiles /\ phase' = phase /\ phase = "load"
    BY <1>5, WorklistFacts DEF TypeOK, SkipFile, Loading, Current
  <2>2. Current \in parsedFiles \/ Current \notin readable
    BY <1>5 DEF SkipFile, Exists
  <2> QED
    BY <1>4, <2>1, <2>2 DEF ReachInv
<1>6. CASE ParseFile
  <2>1. /\ Range(filesToParse) = Range(Front(filesToParse)) \cup {Current}
        /\ Front(filesToParse) \in Seq(Path)
    BY <1>6, WorklistFacts DEF TypeOK, ParseFile, Loading, Current
  <2>2. /\ Current \in DOMAIN world.files /\ phase' = phase /\ phase = "load"
        /\ parsedFiles' = parsedFiles \cup {Current}
    BY <1>6 DEF ParseFile, Loading
  <2>3. Imported(Current) \in Seq(Path)
    BY <1>2, <2>2, ImportedFacts
  <2>4. Range(filesToParse') = Range(Front(filesToParse)) \cup Range(Imported(Current))
    BY <1>6, <2>1, <2>3, RangeConcatenation DEF ParseFile
  <2>5. {world.input} \cap readable \subseteq parsedFiles' \cup Range(filesToParse')
    BY <2>1, <2>2, <2>4 DEF ReachInv
  <2>6. ASSUME NEW p \in parsedFiles'
        PROVE  Range(Imported(p)) \cap readable \subseteq parsedFiles' \cup Range(filesToParse')
    <3>1. CASE p \in parsedFiles
      BY <2>1, <2>2, <2>4, <3>1 DEF ReachInv
    <3>2. CASE p = Current
      BY <2>4, <3>2
    <3> QED
      BY <2>2, <3>1, <3>2
  <2>7. ASSUME NEW S \in SUBSET DOMAIN world.files, Closed(S, DOMAIN world.files)
        PROVE  parsedFiles' \cup (Range(filesToParse') \cap DOMAIN world.files) \subseteq S
    <3>1. parsedFiles \cup (Range(filesToParse) \cap DOMAIN world.files) \subseteq S
      BY <2>7 DEF ReachInv
    <3>2. Current \in S
      BY <2>1, <2>2, <3>1
    <3>3. Range(Imported(Current)) \cap DOMAIN world.files \subseteq S
      BY <2>7, <3>2 DEF Closed
    <3> QED
      BY <2>1, <2>2, <2>4, <3>1, <3>2, <3>3
  <2> QED
    BY <1>4, <2>2, <2>5, <2>6, <2>7
<1>7. CASE EndLoad
  <2>1. /\ filesToParse = <<>> /\ all_asts # <<>>
        /\ filesToParse' = filesToParse /\ parsedFiles' = parsedFiles
    BY <1>7 DEF EndLoad, loading
  <2>2. parsedFiles # {}
    <3>1. Len(all_asts) \in Nat /\ Len(all_asts) # 0 /\ DOMAIN all_asts = 1 .. Len(all_asts)
      BY <2>1 DEF TypeOK
    <3>2. all_asts[1] \in Range(all_asts)
      BY <3>1 DEF Range
    <3> QED
      BY <3>2 DEF ModulesOnce
  <2> QED
    BY <1>4, <2>1, <2>2 DEF ReachInv
<1>8. CASE UNCHANGED <<filesToParse, parsedFiles>> /\ (phase' = "load" => phase = "load")
                   /\ (phase = "load" => phase' = "load")
  BY <1>4, <1>8 DEF ReachInv
<1>9. \/ SkipFile \/ ParseFile \/ EndLoad
      \/ UNCHANGED <<filesToParse, parsedFiles>> /\ (phase' = "load" => phase = "load")
                   /\ (phase = "load" => phase' = "load")
  BY DEF Next, vars, loading, ParseFails, NothingParsed,
         ResolveFails, Resolve, GenerateModule, GenerateFails, EndGenerate,
         SaveFile, SaveFails, Succeed
<1> QED
  BY <1>5, <1>6, <1>7, <1>8, <1>9

LEMMA ReachMeans == ReachInv => ParsedIsReachable
<1> SUFFICES ASSUME ReachInv
             PROVE  ParsedIsReachable
  OBVIOUS
<1>1. ASSUME NEW S \in SUBSET DOMAIN world.files, Closed(S, DOMAIN world.files)
      PROVE  parsedFiles \subseteq S
  BY <1>1 DEF ReachInv
<1>2. ASSUME phase # "load"
      PROVE  /\ world.input \in parsedFiles
             /\ Closed(parsedFiles, DOMAIN world.files \cup world.broken)
  <2>1. filesToParse = <<>> /\ parsedFiles # {}
    BY <1>2 DEF ReachInv
  <2>2. Range(filesToParse) = {}
    BY <2>1 DEF Range
  <2>3. Closed(parsedFiles, DOMAIN world.files \cup world.broken)
    BY <2>2 DEF ReachInv, Closed
  <2>4. world.input \in DOMAIN world.files
    <3> SUFFICES ASSUME world.input \notin DOMAIN world.files
                 PROVE  FALSE
      OBVIOUS
    <3>1. Closed({}, DOMAIN world.files)
      BY DEF Closed
    <3> QED
      BY <1>1, <2>1, <3>1
  <2> QED
    BY <2>3, <2>4 DEF Closed
<1> QED
  BY <1>1, <1>2 DEF ParsedIsReachable

(* Loading parses the input and what its imports lead to, through any      *)
(* cycle of imports, and leaves out nothing that can be found.             *)
THEOREM ImportsAreFollowed == Spec => []ParsedIsReachable
<1>1. Init => ReachInv
  BY ReachInit
<1>2. TypeOK /\ ModulesOnce /\ ReachInv /\ [Next]_vars => ReachInv'
  BY ReachStep
<1>3. ReachInv => ParsedIsReachable
  BY ReachMeans
<1> QED
  BY <1>1, <1>2, <1>3, CompilerTypeCorrect, ModulesAreCompiledOnce, PTL DEF Spec

-----------------------------------------------------------------------------
(* What topoSortModules returns.                                           *)

LEMMA StrandedWait == AllWait(Stranded)
<1> SUFFICES ASSUME NEW i \in Stranded
             PROVE  \E j \in Stranded : WaitsFor(i, j)
  BY DEF AllWait
<1>1. PICK S \in SUBSET DOMAIN all_asts : i \in S /\ AllWait(S)
  BY DEF Stranded
<1>2. S \subseteq Stranded
  BY <1>1 DEF Stranded
<1> QED
  BY <1>1, <1>2 DEF AllWait

(* A module is lost only to one of its name that imports otherwise: with   *)
(* the same imports that one would be stranded too.                        *)
LEMMA LostGivesWay ==
  ASSUME NEW i \in Lost
  PROVE  \E j \in Kept : all_asts[j].name = all_asts[i].name /\ FromNames(j) # FromNames(i)
<1>1. i \in Stranded
  BY DEF Lost
<1>2. PICK j \in DOMAIN all_asts \ Stranded : all_asts[j].name = all_asts[i].name
  BY DEF Lost
<1>3. j \in Kept
  BY <1>2 DEF Kept, Lost
<1>4. ASSUME FromNames(j) = FromNames(i)
      PROVE  FALSE
  <2>1. PICK k \in Stranded : WaitsFor(i, k)
    BY <1>1, StrandedWait DEF AllWait
  <2>2. all_asts[k].name \in FromNames(i)
    BY <2>1 DEF WaitsFor, FromNames
  <2>3. \E c \in Range(all_asts[j].clauses) : c.from = all_asts[k].name
    BY <1>4, <2>2 DEF FromNames
  <2>4. WaitsFor(j, k)
    BY <1>2, <2>1, <2>3 DEF WaitsFor
  <2>5. AllWait(Stranded \cup {j})
    BY <2>1, <2>4, StrandedWait DEF AllWait
  <2>6. Stranded \cup {j} \in SUBSET DOMAIN all_asts
    BY <1>2 DEF Stranded
  <2>7. j \in Stranded
    BY <2>5, <2>6 DEF Stranded
  <2> QED
    BY <1>2, <2>7
<1> QED
  BY <1>2, <1>3, <1>4

LEMMA KeptFixed ==
  ASSUME all_asts' = all_asts
  PROVE  Kept' = Kept
<1>1. \A S : AllWait(S)' <=> AllWait(S)
  BY DEF AllWait, WaitsFor
<1>2. Stranded' = Stranded
  BY <1>1 DEF Stranded
<1> QED
  BY <1>2 DEF Kept, Lost

-----------------------------------------------------------------------------
(* What is written, and when.                                              *)

(* The files are written in the order of Outputs, after the last module,   *)
(* and a run that fails has not written the last of them.                  *)
OutputInv ==
  /\ saved # <<>> => phase = "write"
  /\ phase = "write" => generated = Kept
  /\ Len(saved) <= Len(Outputs)
  /\ \A k \in DOMAIN saved : saved[k].file = Outputs[k]
  /\ exit = "1" => Len(saved) < Len(Outputs)
  /\ exit = "0" => Len(saved) = Len(Outputs) /\ phase = "write"

LEMMA OutputInit == Init => OutputInv
BY OutputsFacts DEF Init, OutputInv

LEMMA OutputStep == TypeOK /\ OutputInv /\ [Next]_vars => OutputInv'
<1> SUFFICES ASSUME TypeOK, OutputInv, [Next]_vars
             PROVE  OutputInv'
  OBVIOUS
<1>1. Outputs' = Outputs
  BY WorldFixed, PathsFixed
<1>2. /\ Len(Outputs) \in Nat /\ Len(Outputs) # 0
      /\ Len(saved) \in Nat /\ DOMAIN saved = 1 .. Len(saved)
  BY OutputsFacts DEF TypeOK
(* Before anything is written, a failure leaves nothing written.           *)
<1>9. all_asts' = all_asts => Kept' = Kept
  BY KeptFixed
<1>3. CASE /\ phase # "write" /\ saved' = saved /\ exit' \in {"running", "1"}
           /\ phase' = "write" => generated' = Kept'
  BY <1>1, <1>2, <1>3 DEF OutputInv
<1>4. CASE SaveFile
  <2>1. /\ phase = "write" /\ phase' = phase /\ exit' = exit /\ exit = "running"
        /\ generated' = generated /\ all_asts' = all_asts
        /\ Len(saved) < Len(Outputs)
    BY <1>4 DEF SaveFile, Writing, Running, generation, loading
  <2>2. PICK whole \in BOOLEAN :
          saved' = Append(saved, [file |-> NextOutput, whole |-> whole])
    BY <1>4 DEF SaveFile
  <2> DEFINE new == [file |-> NextOutput, whole |-> whole]
  <2>3. new.file = Outputs[Len(saved) + 1]
    BY DEF NextOutput
  <2> HIDE DEF new
  <2>4. saved' = Append(saved, new)
    BY <2>2 DEF new
  <2>5. /\ Len(saved') = Len(saved) + 1 /\ DOMAIN saved' = 1 .. Len(saved) + 1
        /\ \A k \in 1 .. Len(saved) : saved'[k] = saved[k]
        /\ saved'[Len(saved) + 1] = new
    BY <1>2, <2>4 DEF TypeOK
  <2>6. ASSUME NEW k \in DOMAIN saved'
        PROVE  saved'[k].file = Outputs[k]
    <3>1. CASE k = Len(saved) + 1
      BY <2>3, <2>5, <3>1
    <3>2. CASE k # Len(saved) + 1
      <4>1. k \in 1 .. Len(saved)
        BY <1>2, <2>5, <3>2
      <4> QED
        BY <1>2, <2>5, <4>1 DEF OutputInv
    <3> QED
      BY <3>1, <3>2
  <2> QED
    BY <1>1, <1>2, <1>9, <2>1, <2>5, <2>6 DEF OutputInv
<1>5. CASE SaveFails
  BY <1>1, <1>2, <1>5, <1>9 DEF OutputInv, SaveFails, Writing, Running, Fail,
                          generation, loading
<1>6. CASE Succeed
  BY <1>1, <1>2, <1>6, <1>9 DEF OutputInv, Succeed, Writing, Running, generation, loading
<1>7. CASE UNCHANGED vars
  BY <1>1, <1>7, <1>9 DEF OutputInv, vars
<1>8. \/ /\ phase # "write" /\ saved' = saved /\ exit' \in {"running", "1"}
         /\ phase' = "write" => generated' = Kept'
      \/ SaveFile \/ SaveFails \/ Succeed \/ UNCHANGED vars
  <2>1. CASE SkipFile \/ ParseFails \/ ParseFile \/ NothingParsed \/ EndLoad
    BY <2>1 DEF SkipFile, ParseFails, ParseFile, NothingParsed, EndLoad, Loading,
                Running, Fail
  <2>2. CASE ResolveFails \/ Resolve
    BY <2>2 DEF ResolveFails, Resolve, Running, Fail
  <2>3. ASSUME NEW i \in DOMAIN all_asts, GenerateModule(i)
        PROVE  /\ phase # "write" /\ saved' = saved /\ exit' \in {"running", "1"}
               /\ phase' = "write" => generated' = Kept'
    BY <2>3 DEF GenerateModule, Running
  <2>4. CASE GenerateFails \/ EndGenerate
    BY <1>9, <2>4 DEF GenerateFails, EndGenerate, Running, Fail, loading
  <2> QED
    BY <2>1, <2>2, <2>3, <2>4 DEF Next
<1> QED
  BY <1>3, <1>4, <1>5, <1>6, <1>7, <1>8

LEMMA OutputMeans == TypeOK /\ OutputInv => SourceMeansSuccess
<1> SUFFICES ASSUME TypeOK, OutputInv
             PROVE  SourceMeansSuccess
  OBVIOUS
<1> DEFINE files == [k \in DOMAIN saved |-> saved[k].file]
<1>1. /\ Len(Outputs) \in Nat /\ Len(Outputs) # 0 /\ Outputs \in Seq(OutputNames)
      /\ Outputs[Len(Outputs)] = "source"
      /\ \A k \in 1 .. Len(Outputs) - 1 : Outputs[k] # "source"
  BY OutputsFacts
<1>2. Len(saved) \in Nat /\ DOMAIN saved = 1 .. Len(saved)
  BY DEF TypeOK
<1>3. files = [k \in 1 .. Len(saved) |-> Outputs[k]]
  BY <1>2 DEF OutputInv
<1>4. Len(saved) <= Len(Outputs)
  BY DEF OutputInv
<1> HIDE DEF files
<1>5. ASSUME Len(saved) = Len(Outputs)
      PROVE  files = Outputs
  <2>1. Outputs = [k \in 1 .. Len(Outputs) |-> Outputs[k]]
    BY <1>1
  <2> QED
    BY <1>3, <1>5, <2>1
<1>6. ASSUME "source" \in Range(files)
      PROVE  Len(saved) = Len(Outputs)
  <2>1. PICK k \in 1 .. Len(saved) : Outputs[k] = "source"
    BY <1>3, <1>6 DEF Range
  <2>2. k \notin 1 .. Len(Outputs) - 1
    BY <1>1, <2>1
  <2> QED
    BY <1>1, <1>2, <1>4, <2>1, <2>2
<1>7. ASSUME "source" \in Range(files)
      PROVE  /\ files = Outputs /\ exit # "1"
             /\ \A i \in DOMAIN all_asts \ generated :
                  \E j \in generated : /\ all_asts[j].name = all_asts[i].name
                                       /\ FromNames(j) # FromNames(i)
  <2>1. Len(saved) = Len(Outputs)
    BY <1>6, <1>7
  <2>2. saved # <<>>
    BY <1>1, <2>1
  <2>3. exit # "1"
    BY <1>1, <2>1 DEF OutputInv
  <2>4. generated = Kept
    BY <2>2 DEF OutputInv
  <2>5. DOMAIN all_asts \ generated \subseteq Lost
    BY <2>4 DEF Kept
  <2> QED
    BY <1>5, <2>1, <2>3, <2>4, <2>5, LostGivesWay
<1>8. ASSUME exit = "0"
      PROVE  "source" \in Range(files)
  <2>1. Len(saved) = Len(Outputs)
    BY <1>8 DEF OutputInv
  <2>2. Len(Outputs) \in DOMAIN Outputs
    BY <1>1
  <2> QED
    BY <1>1, <1>5, <2>1, <2>2 DEF Range
<1> QED
  BY <1>7, <1>8 DEF SourceMeansSuccess, files

(* The source file is there only if every other output asked for has been  *)
(* written before it, and the run does not fail afterwards; every module's *)
(* code is in it, but for a module whose name another has that is in it    *)
(* and imports from other modules.  Exit 0 means that it is there.         *)
THEOREM SourceIsWrittenLast == Spec => []SourceMeansSuccess
<1>1. Init => OutputInv
  BY OutputInit
<1>2. TypeOK /\ OutputInv /\ [Next]_vars => OutputInv'
  BY OutputStep
<1>3. TypeOK /\ OutputInv => SourceMeansSuccess
  BY OutputMeans
<1> QED
  BY <1>1, <1>2, <1>3, CompilerTypeCorrect, PTL DEF Spec

=============================================================================
