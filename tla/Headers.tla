------------------------------ MODULE Headers ------------------------------
(***************************************************************************)
(* The part of main (CompilerMain.cpp) that writes the header of either    *)
(* back end: module by module, the types, the constants, the functions.    *)
(*                                                                         *)
(* The order of the types of a module is any that DependencyOrder allows:  *)
(* topoSortAssignments implements it.  The modules are given in the order  *)
(* that topoSortModules has put them in.                                   *)
(***************************************************************************)
EXTENDS Naturals, Sequences, FiniteSets, SequencesExt

CONSTANTS MaxDepth,
          TypeNames,
          Schemas     \* lists of modules: name, types and values

C == INSTANCE CTypes

Cpp == INSTANCE CppTypes

VARIABLES schema,     \* never changes
          lang,       \* outputLang, "c" or "cpp"; never changes
          module,     \* position of the module at hand
          order,      \* names of its types, in the order they were taken
          stranded,   \* the names that wait for each other
          emitted,    \* the types that count as emitted: module and name
          header,     \* blocks: a type and its code
          phase       \* "types", "functions", "done", "failed"

vars == <<schema, lang, module, order, stranded, emitted, header, phase>>

-----------------------------------------------------------------------------

Refers(t) == C!Refers(t)

OpenType == <<<<"TYPE">>>>

Here == schema[module]

TypesOf(m) == {m.types[i].name : i \in DOMAIN m.types}

TypeOf(m, n) == m.types[CHOOSE i \in DOMAIN m.types : m.types[i].name = n].type

Symbols == UNION {{<<m.name, n>> : n \in TypesOf(m)} : m \in Range(schema)}

ModuleOf(s) == schema[CHOOSE i \in DOMAIN schema : schema[i].name = s[1]]

Meaning(s) == TypeOf(ModuleOf(s), s[2])

(* Fault: the actual parameters of a parameterized type are not walked.    *)
RECURSIVE NamesInParts(_)
NamesInParts(t) ==
  (IF t.to # <<>> THEN {Last(t.to)} ELSE IF t.kind = "IDENTIFIER" THEN {t.name} ELSE {})
    \cup UNION {NamesInParts(t.parts[i].type) : i \in DOMAIN t.parts}

(* collect: the last part of every resolved name, and the name of every    *)
(* identifier that has none, in the tree of a type.  The copy of a body is *)
(* not looked at.                                                          *)
RECURSIVE NamesIn(_)
NamesIn(t) ==
  (IF t.to # <<>> THEN {Last(t.to)} ELSE IF t.kind = "IDENTIFIER" THEN {t.name} ELSE {})
    \cup UNION {NamesIn(t.parts[i].type) : i \in DOMAIN t.parts}
    \cup UNION {NamesIn(t.args[i]) : i \in DOMAIN t.args}

Uses ==
  [n \in TypesOf(Here) |-> (NamesIn(TypeOf(Here, n)) \cap TypesOf(Here)) \ {n}]

Sorted == INSTANCE DependencyOrder WITH
            Items <- TypeNames, uses <- Uses

(* The names of a module are distinct here: none is taken twice.           *)
Waiting == TypesOf(Here) \ Range(order)

Place(n) == Sorted!Emit(n) \/ Sorted!EmitStranded(n)

-----------------------------------------------------------------------------

Emission(m, n) ==
  IF lang = "c" THEN C!EmitAssignment(Symbols, m.name, n, TypeOf(m, n))
  ELSE Cpp!EmitAssignment(m.name, n, TypeOf(m, n))

TypeName(m, n) == IF lang = "c" THEN C!TypeName(m, n) ELSE Cpp!TypeName(m, n)

(* Fault: every type counts, also one that the dispatch skips.             *)
CountsAlways(t) == TRUE

Counts(t) == IF lang = "c" THEN C!Counts(t) ELSE Cpp!Counts(t)

EmitValue(m, v) == IF lang = "c" THEN C!EmitValueAssignment(m, v) ELSE Cpp!EmitValueAssignment(m, v)

(* stuck: whether the type had to wait for itself.                         *)
Block(m, n, code) == <<[by |-> <<m, n>>, stuck |-> n \in stranded, code |-> code]>>

Init ==
  /\ schema \in Schemas
  /\ lang \in {"c", "cpp"}
  /\ module = 1
  /\ order = <<>>
  /\ stranded = {}
  /\ emitted = {}
  /\ header = <<>>
  /\ phase = "types"

InTypes == phase = "types" /\ module \in DOMAIN schema

Failing(code) == \E k \in DOMAIN code : code[k].op = "throws"

(* The code for one type.  A type that the dispatch skips has none.        *)
EmitType(n) ==
  LET code == Emission(Here, n)
  IN  /\ InTypes /\ n \in Waiting
      /\ ~ Failing(code)
      /\ UNCHANGED <<schema, lang, module, phase>>
      /\ Place(n)
      /\ IF Counts(TypeOf(Here, n))
         THEN /\ header' = header \o Block(Here.name, n, code)
              /\ emitted' = emitted \cup {<<Here.name, n>>}
         ELSE UNCHANGED <<header, emitted>>

(* What is nested too deep throws in the C++ back end.                     *)
NestedTooDeep(n) ==
  /\ InTypes /\ n \in Waiting
  /\ Failing(Emission(Here, n))
  /\ UNCHANGED <<schema, lang, module, emitted, header>>
  /\ Place(n)
  /\ phase' = "failed"

Strand ==
  /\ InTypes
  /\ UNCHANGED <<schema, lang, module, emitted, header, phase>>
  /\ Sorted!GiveUp

(* The constants, in the order of the schema.                              *)
EmitConstants ==
  /\ InTypes
  /\ Sorted!Unemitted = {}
  /\ header' = header \o FlattenSeq([i \in DOMAIN Here.values |->
                 Block(Here.name, Here.values[i].name, EmitValue(Here.name, Here.values[i]))])
  /\ phase' = "functions"
  /\ UNCHANGED <<schema, lang, module, order, stranded, emitted>>

(* An encoder and a decoder are declared for every type that counts.       *)
DeclareFunctions ==
  LET declared == SelectSeq(order, LAMBDA n : <<Here.name, n>> \in emitted)
      op == IF lang = "c" THEN "needs" ELSE "mentions"
  IN  /\ phase = "functions"
      /\ header' = header \o FlattenSeq([i \in DOMAIN declared |->
           Block(Here.name, declared[i],
                 C!Code(op, TypeName(Here.name, declared[i]), "function"))])
      /\ module' = module + 1
      /\ order' = <<>> /\ stranded' = {}
      /\ phase' = "types"
      /\ UNCHANGED <<schema, lang, emitted>>

Finish ==
  /\ phase = "types" /\ module \notin DOMAIN schema
  /\ phase' = "done"
  /\ UNCHANGED <<schema, lang, module, order, stranded, emitted, header>>

Next ==
  \/ \E n \in TypeNames : EmitType(n) \/ NestedTooDeep(n)
  \/ Strand \/ EmitConstants \/ DeclareFunctions \/ Finish

Spec == Init /\ [][Next]_vars

-----------------------------------------------------------------------------
(* Properties.                                                             *)

Events == UNION {{<<i, j>> : j \in DOMAIN header[i].code} : i \in DOMAIN header}

At(e) == header[e[1]].code[e[2]]

User(e) == header[e[1]].by

Earlier(e) == {d \in Events : d[1] < e[1] \/ (d[1] = e[1] /\ d[2] < e[2])}

(* What a use needs has been declared; what it mentions, opened at least.  *)
Satisfied(e) ==
  \E d \in Earlier(e) :
    /\ At(d).name = At(e).name
    /\ At(d).op = "declares" \/ (At(e).op = "mentions" /\ At(d).op = "opens")

Unsatisfied(whose) ==
  {e \in Events : At(e).op \in {"needs", "mentions"} /\ At(e).whose = whose /\ ~ Satisfied(e)}

(* A type whose emitting function returns nothing, although it counts.     *)
Undeclarable(t) ==
  IF lang = "c" THEN ~ Refers(t) /\ t.kind \in {"OBJECT_IDENTIFIER", "ANY_TYPE"}
  ELSE t.to = OpenType \/ (~ Refers(t) /\ t.kind \in {"SET_OF", "ANY_TYPE"})

RECURSIVE Subtrees(_)
Subtrees(t) ==
  {t} \cup UNION {Subtrees(t.parts[i].type) : i \in DOMAIN t.parts}
      \cup UNION {Subtrees(t.body[i]) : i \in DOMAIN t.body}

(* A bare word, or a name the resolver has not bound, for which the        *)
(* generator makes up the name of a type.                                  *)
HasBareName(t) ==
  \E u \in Subtrees(t) :
    \/ Len(u.to) = 1
    \/ u.kind = "IDENTIFIER" /\ ~ Refers(u)
    \/ u.kind = "SEQUENCE_OF" /\ u.parts[1].type.kind \in {"SET", "SET_OF"}

(* No type is used before its declaration is complete, but by itself, by   *)
(* types that wait for each other, or if it never gets a declaration.      *)
TypesBeforeUses ==
  \A e \in Unsatisfied("schema") :
    \/ header[e[1]].stuck
    \/ HasBareName(Meaning(User(e)))
    \/ \E s \in Symbols :
         /\ At(e).name = TypeName(s[1], s[2])
         /\ s = User(e) \/ s \notin emitted \/ Undeclarable(Meaning(s))

(* Structures inside each other, those of copied bodies included.          *)
RECURSIVE Nesting(_)
Nesting(t) ==
  LET inner == {Nesting(t.parts[i].type) : i \in DOMAIN t.parts}
                 \cup {Nesting(t.body[i]) : i \in DOMAIN t.body}
      deepest == IF inner = {} THEN 0 ELSE CHOOSE d \in inner : \A x \in inner : x <= d
  IN  IF t.kind \in {"SEQUENCE", "SET", "CHOICE"} THEN deepest + 1 ELSE deepest

(* Every name the generator makes up for an anonymous type has its         *)
(* declaration before it, except in C: a list of octet or bit strings, the *)
(* copy of a body without members, and what is nested too deep.            *)
OwnNamesDeclared ==
  \A e \in Unsatisfied("own") :
    /\ lang = "c"
    /\ \/ Nesting(Meaning(User(e))) > MaxDepth
       \/ \E u \in Subtrees(Meaning(User(e))) :
            \/ u.kind \in {"SEQUENCE_OF", "SET_OF"} /\ u.parts[1].type.kind \in {"OCTET_STRING", "BIT_STRING"}
            \/ u.body # <<>> /\ Nesting(u.body[1]) = 0

(* The functions of exactly the types whose emitting function returns      *)
(* nothing are declared over a type that does not exist.                   *)
FunctionsHaveTypes ==
  \A e \in Events :
    At(e).whose = "function" => (Satisfied(e) <=> ~ Undeclarable(Meaning(User(e))))

(* No name is declared twice in a scope, as long as no name of the schema  *)
(* has a hyphen or is one that the generators add to others.               *)
Plain(n) == Len(n) = 1 /\ n[1] \notin {"type", "elem", "element", "enum", "TAG"}

PlainNames ==
  \A s \in Symbols : /\ Plain(s[1]) /\ Plain(s[2])
                    /\ \A u \in Subtrees(Meaning(s)) :
                         u.kind \notin {"SEQUENCE_OF", "SET_OF"} =>
                           \A i \in DOMAIN u.parts : Plain(u.parts[i].name)

DeclaredOnce ==
  PlainNames =>
    \A d, e \in Events :
      At(d).op = "declares" /\ At(e).op = "declares" /\ At(d).name = At(e).name => d = e

=============================================================================
