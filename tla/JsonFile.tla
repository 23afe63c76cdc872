------------------------------ MODULE JsonFile ------------------------------
(***************************************************************************)
(* The part of main (CompilerMain.cpp) that follows the C++ header: the    *)
(* file of JSON adapters and the JSON schema, each if it is asked for.     *)
(*                                                                         *)
(* The schema is written by functions that call themselves for the types   *)
(* of members and alternatives, references included, and count nothing;    *)
(* StackRoom stands for the calls that the stack has room for.  What it    *)
(* says of a member is left out here.                                      *)
(***************************************************************************)
EXTENDS Headers

CONSTANT StackRoom

Json == INSTANCE JsonTypes

G == INSTANCE Graphs

VARIABLES adapters,   \* blocks: a type and its adapters
          stage       \* "header", "adapters", "schema", "failed", "crashed"

jsonVars == <<adapters, stage>>

(* A node, or what its resolvedTypeNode is set to: one level of reference. *)
Effective(t) ==
  IF C!IsInstance(t) THEN t.body[1]
  ELSE IF t.linked /\ Len(t.to) = 2 THEN Meaning(t.to)
  ELSE t

Adapters(m) ==
  LET types == SelectSeq(m.types, LAMBDA p : <<m.name, p.name>> \in emitted)
  IN  [i \in DOMAIN types |->
         [by |-> <<m.name, types[i].name>>,
          code |-> Json!AdaptAssignment(m.name, types[i].name, types[i].type,
                                        Effective(types[i].type))]]

AllAdapters == FlattenSeq([i \in DOMAIN schema |-> Adapters(schema[i])])

JsonInit == Init /\ adapters = <<>> /\ stage = "header"

HeaderStep == Next /\ UNCHANGED jsonVars

HeaderDone == phase = "done" /\ lang = "cpp"

EmitAdapters ==
  /\ HeaderDone /\ stage = "header"
  /\ \A i \in DOMAIN AllAdapters : ~ Failing(AllAdapters[i].code)
  /\ adapters' = AllAdapters
  /\ stage' = "adapters"
  /\ UNCHANGED vars

AdaptersTooDeep ==
  /\ HeaderDone /\ stage = "header"
  /\ \E i \in DOMAIN AllAdapters : Failing(AllAdapters[i].code)
  /\ stage' = "failed"
  /\ UNCHANGED <<vars, adapters>>

Expanded(t) == t.kind \in {"SEQUENCE", "SET", "CHOICE"}

(* Fault: what a reference leads to is not followed.                       *)
InnerOwn(t) == {u \in {t.parts[i].type : i \in DOMAIN t.parts} : Expanded(u)}

(* emitFieldsSchema, emitChoiceAlternativesSchema: the types for which one *)
(* of them is called again; elements of lists are only named.              *)
Inner(t) == {u \in {Effective(t.parts[i].type) : i \in DOMAIN t.parts} : Expanded(u)}

RECURSIVE Exhausts(_, _)
Exhausts(t, room) ==
  Expanded(t) /\ (room = 0 \/ \E u \in Inner(t) : Exhausts(u, room - 1))

SchemaExhaustsStack ==
  \E s \in emitted : Exhausts(Effective(Meaning(s)), StackRoom)

EmitSchema ==
  /\ HeaderDone /\ stage \in {"header", "adapters"}
  /\ stage' = IF SchemaExhaustsStack THEN "crashed" ELSE "schema"
  /\ UNCHANGED <<vars, adapters>>

JsonNext == HeaderStep \/ EmitAdapters \/ AdaptersTooDeep \/ EmitSchema

JsonSpec == JsonInit /\ [][JsonNext]_<<vars, jsonVars>>

-----------------------------------------------------------------------------
(* Properties.                                                             *)

AdapterEvents ==
  UNION {{<<i, j>> : j \in DOMAIN adapters[i].code} : i \in DOMAIN adapters}

AdapterAt(e) == adapters[e[1]].code[e[2]]

(* The C++ type that a name stands for: aliases followed, as far as they   *)
(* lead anywhere.                                                          *)
RECURSIVE Follow(_, _)
Follow(n, k) ==
  LET s == SubSeq(n, 1, 2)
  IN  IF k > 0 /\ s \in Symbols /\ Len(Meaning(s).to) = 2
      THEN Follow(Meaning(s).to \o SubSeq(n, 3, Len(n)), k - 1) ELSE n

Canonical(n) == Follow(n, Cardinality(Symbols))

Declared(n) ==
  \E e \in Events : At(e).op = "declares" /\ Canonical(At(e).name) = Canonical(n)

(* The adapters convert types and wrappers that the header has.  Those     *)
(* that JsonEmitter makes up on its own are of an alias of a CHOICE or of  *)
(* a list, of a SET that is an alternative or an element, and of a SET OF. *)
MadeUpAnew(s) ==
  LET t == Effective(Meaning(s))
  IN  \/ Refers(Meaning(s)) /\ t.kind \in {"CHOICE", "SEQUENCE_OF", "SET_OF"}
      \/ t.kind = "SET_OF"
      \/ t.kind = "SEQUENCE_OF" /\ t.parts[1].type.kind = "SET"
      \/ \E u \in Subtrees(t) : u.kind = "CHOICE" /\ \E i \in DOMAIN u.parts : u.parts[i].type.kind = "SET"

AdaptersHaveTypes ==
  \A e \in AdapterEvents :
    AdapterAt(e).op \in {"adapts", "wraps"} =>
      Declared(AdapterAt(e).name) \/ MadeUpAnew(adapters[e[1]].by)

(* Every structure, variant or enumeration that a field of an adapted type *)
(* has is adapted.                                                         *)
IsAdapted(n) ==
  \E e \in AdapterEvents :
    AdapterAt(e).op = "adapts" /\ Canonical(AdapterAt(e).name) = Canonical(n)

NeedsAdapter(n) ==
  LET c == Canonical(n)
  IN  IF c \in Symbols
      THEN c \in emitted /\ Meaning(c).kind \in {"SEQUENCE", "SET", "CHOICE", "ENUMERATION"}
      ELSE Declared(c)

FieldsHaveAdapters ==
  \A e \in AdapterEvents :
    AdapterAt(e).op = "encodes" /\ NeedsAdapter(AdapterAt(e).name) =>
      IsAdapted(AdapterAt(e).name)

(* No type is adapted twice, but by an alias of a type that is no          *)
(* enumeration.                                                            *)
ByAlias(e) ==
  LET t == Meaning(adapters[e[1]].by)
  IN  Refers(t) /\ Effective(t).kind # "ENUMERATION"

NotAdaptedAgain ==
  PlainNames =>
    \A d, e \in AdapterEvents :
      /\ AdapterAt(d).op = "adapts" /\ AdapterAt(e).op = "adapts"
      /\ Canonical(AdapterAt(d).name) = Canonical(AdapterAt(e).name)
      => d = e \/ ByAlias(d) \/ ByAlias(e)

(* A field's type is adapted, and once.                                    *)
AdaptedOnce == FieldsHaveAdapters /\ NotAdaptedAgain

(* The schema is written unless the stack runs out, and that happens for   *)
(* exactly the schemas in which a type leads to one that contains itself   *)
(* other than through a list.                                              *)
RECURSIVE Contained(_)
Contained(t) ==
  CASE C!IsInstance(t) -> Contained(t.body[1])
    [] ~ C!IsInstance(t) /\ t.linked /\ Len(t.to) = 2 -> {t.to}
    [] Expanded(t) -> UNION {Contained(t.parts[i].type) : i \in DOMAIN t.parts}
    [] OTHER -> {}

Holds ==
  {e \in Symbols \X Symbols : e[2] \in Contained(Meaning(e[1])) /\ Expanded(Meaning(e[2]))}

SelfContaining ==
  LET leads == G!ConnectionsIn([node |-> Symbols, edge |-> Holds])
  IN  \E s \in emitted : \E e \in Holds :
        (s = e[1] \/ leads[s, e[1]]) /\ (e[1] = e[2] \/ leads[e[2], e[1]])

SchemaUnlessSelfContaining ==
  /\ stage = "crashed" => SelfContaining
  /\ stage = "schema" => ~ SelfContaining

=============================================================================
