----------------------------- MODULE JsonCodec -----------------------------
(***************************************************************************)
(* What the functions that JsonEmitter generates do with a value           *)
(* (JsonEmitter.cpp): to_json, from_json, the adapters of its preamble,    *)
(* and NLOHMANN_JSON_SERIALIZE_ENUM; and a JSON value written by somebody  *)
(* who goes by the schema file (CompilerMain.cpp).  nlohmann::json and the *)
(* initialization rules of C++ are external.                               *)
(***************************************************************************)
EXTENDS Naturals, Sequences, FiniteSets, SequencesExt

CONSTANTS Types,        \* types to convert values of
          Values(_),    \* values of a type
          Keywords      \* enumerators that are keywords of C++

(* parts: members, alternatives, enumerators, or the element; marker: an   *)
(* extension marker; named: the type is a reference to a type that has a   *)
(* name.  A part is optional in C++ if it is OPTIONAL or an addition, and  *)
(* may have a default value.                                               *)
Leaf(kind) == [kind |-> kind, parts |-> <<>>, marker |-> FALSE, named |-> FALSE]

Part(key, type, optional, default) ==
  [key |-> key, type |-> type, optional |-> optional, default |-> default]

(* Values, of C++ and of JSON: what they are, and what is in them.         *)
Value(is, has) == [is |-> is, has |-> has]

Absent == Value("absent", 0)
Null == Value("null", 0)
Number(n) == Value("number", n)
Garbage == Value("garbage", 0)     \* memory that was never initialized
Thrown == Value("thrown", 0)
NoAny == Value("any", "empty")
Struct(fields) == Value("struct", fields)
Alternative(i, x) == Value("alternative", <<i, x>>)
Extension == Value("extension", 0)
List(elements) == Value("list", elements)
Text(word) == Value("string", word)
Object(members) == Value("object", members)

HasKey(j, key) == j.is = "object" /\ key \in DOMAIN j.has

-----------------------------------------------------------------------------
(* Values nobody has given: T{}, and the field of `Wrapper alt;`, whose    *)
(* numbers are not initialized.  A variant begins with its first           *)
(* alternative.                                                            *)

RECURSIVE Initial(_, _)

InitialPart(p, scratch) ==
  IF p.default.is # "absent" THEN p.default
  ELSE IF p.optional THEN Absent
  ELSE Initial(p.type, scratch)

Initial(t, scratch) ==
  CASE t.kind \in {"number", "enum"} -> IF scratch THEN Garbage ELSE Number(0)
    [] t.kind = "null" -> Null
    [] t.kind = "any" -> NoAny
    [] t.kind = "list" -> List(<<>>)
    [] t.kind = "choice" -> Alternative(1, Initial(t.parts[1].type, FALSE))
    [] t.kind = "struct" -> Struct([i \in DOMAIN t.parts |-> InitialPart(t.parts[i], scratch)])

-----------------------------------------------------------------------------
(* emitEnumMacro.  An enumeration has the macro if it has a name or is the *)
(* type of a member; its numbers are 0, 1, ... here.                       *)

(* Fault: every enumerator is taken for a keyword.                         *)
SafeIdAlways(e) == <<e, "_">>

SafeId(e) == IF e \in Keywords THEN <<e, "_">> ELSE <<e>>

Enumerator(t, n) == t.parts[n + 1].key

EnumToJson(t, n, macro) == IF macro THEN Text(SafeId(Enumerator(t, n))) ELSE Number(n)

(* With the macro what is no enumerator becomes the first one.             *)
EnumFromJson(t, j, macro) ==
  LET at == {n \in 0 .. Len(t.parts) - 1 : j.is = "string" /\ j.has = SafeId(Enumerator(t, n))}
  IN  IF macro THEN Number(IF at = {} THEN 0 ELSE CHOOSE n \in at : TRUE)
      ELSE IF j.is = "number" THEN j ELSE Thrown

(* adl_serializer<std::any>: a bit string has an object to itself, other   *)
(* contents are written and not read.                                      *)
AnyToJson(x) ==
  CASE x.has = "empty" -> Null
    [] x.has = "bits" -> Value("bits", 0)
    [] OTHER -> Number(0)

AnyFromJson(j, old) == IF j.is = "bits" THEN Value("any", "bits") ELSE old

RECURSIVE ToJson(_, _, _), FromJson(_, _, _, _)

Present(t, fields) == {i \in DOMAIN t.parts : fields[i].is # "absent"}

PartAt(t, key) == CHOOSE i \in DOMAIN t.parts : t.parts[i].key = key

(* The generated to_json.                                                  *)
ToJson(t, x, macro) ==
  CASE t.kind = "number" -> x
    [] t.kind = "null" -> Null
    [] t.kind = "enum" -> EnumToJson(t, x.has, macro)
    [] t.kind = "any" -> AnyToJson(x)
    [] t.kind = "list" ->
         Value("array", [i \in DOMAIN x.has |-> ToJson(t.parts[1].type, x.has[i], t.parts[1].type.named)])
    [] t.kind = "choice" ->
         IF x.is = "extension" THEN Object([k \in {"__extension"} |-> Value("boolean", TRUE)])
         ELSE LET p == t.parts[x.has[1]]
              IN  Object([k \in {p.key} |-> ToJson(p.type, x.has[2], p.type.named)])
    [] t.kind = "struct" ->
         Object([k \in {t.parts[i].key : i \in Present(t, x.has)} |->
                   LET i == PartAt(t, k) IN ToJson(t.parts[i].type, x.has[i], TRUE)])

IsNull(t) == t.kind = "null" /\ ~ t.named

(* Faults: null is not told from a value; a missing member is reset.       *)
PartFromJsonNull(p, j, old) ==
  IF ~ HasKey(j, p.key) \/ (IsNull(p.type) /\ ~ p.optional) THEN old
  ELSE FromJson(p.type, j.has[p.key], IF p.optional THEN Initial(p.type, FALSE) ELSE old, TRUE)

PartFromJsonReset(p, j, old) ==
  IF ~ HasKey(j, p.key) /\ ~ p.optional THEN Initial(p.type, FALSE)
  ELSE IF ~ HasKey(j, p.key) \/ (p.optional /\ j.has[p.key].is = "null") \/ IsNull(p.type)
  THEN old
  ELSE FromJson(p.type, j.has[p.key], IF p.optional THEN Initial(p.type, FALSE) ELSE old, TRUE)

(* A member that is missing, or optional and null, keeps what it has.      *)
PartFromJson(p, j, old) ==
  IF ~ HasKey(j, p.key) \/ (p.optional /\ j.has[p.key].is = "null") \/ (IsNull(p.type) /\ ~ p.optional)
  THEN old
  ELSE FromJson(p.type, j.has[p.key], IF p.optional THEN Initial(p.type, FALSE) ELSE old, TRUE)

AlternativeFromJson(p, i, j) ==
  IF IsNull(p.type) THEN Alternative(i, Null)
  ELSE LET x == FromJson(p.type, j.has[p.key], Initial(p.type, TRUE), p.type.named)
       IN  IF x.is = "thrown" THEN Thrown ELSE Alternative(i, x)

(* The generated from_json: old is what the target holds.  The first       *)
(* alternative whose key is there is taken, none leaves the variant alone. *)
FromJson(t, j, old, macro) ==
  CASE t.kind = "number" -> IF j.is = "number" THEN j ELSE Thrown
    [] t.kind = "null" -> IF j.is = "null" THEN Null ELSE Thrown
    [] t.kind = "enum" -> EnumFromJson(t, j, macro)
    [] t.kind = "any" -> AnyFromJson(j, old)
    [] t.kind = "list" ->
         LET e == t.parts[1].type
             elements == [i \in DOMAIN j.has |-> FromJson(e, j.has[i], Initial(e, FALSE), e.named)]
         IN  IF j.is # "array" THEN Thrown
             ELSE IF \E i \in DOMAIN elements : elements[i].is = "thrown" THEN Thrown ELSE List(elements)
    [] t.kind = "choice" ->
         LET at == {i \in DOMAIN t.parts : HasKey(j, t.parts[i].key)}
             first == CHOOSE i \in at : \A k \in at : i <= k
         IN  IF at = {} THEN old ELSE AlternativeFromJson(t.parts[first], first, j)
    [] t.kind = "struct" ->
         LET fields == [i \in DOMAIN t.parts |-> PartFromJson(t.parts[i], j, old.has[i])]
         IN  IF \E i \in DOMAIN fields : fields[i].is = "thrown" THEN Thrown ELSE Struct(fields)

-----------------------------------------------------------------------------
(* buildSchemaJson describes the same objects, and the words for an        *)
(* enumerator wherever it is a member's or an alternative's: its mangled   *)
(* name.                                                                   *)
RECURSIVE BySchema(_, _)
BySchema(t, x) ==
  CASE t.kind = "enum" -> Text(<<Enumerator(t, x.has)>>)
    [] t.kind = "list" -> Value("array", [i \in DOMAIN x.has |-> BySchema(t.parts[1].type, x.has[i])])
    [] t.kind = "choice" /\ x.is = "alternative" ->
         LET p == t.parts[x.has[1]] IN Object([k \in {p.key} |-> BySchema(p.type, x.has[2])])
    [] t.kind = "struct" ->
         Object([k \in {t.parts[i].key : i \in Present(t, x.has)} |->
                   LET i == PartAt(t, k) IN BySchema(t.parts[i].type, x.has[i])])
    [] OTHER -> ToJson(t, x, TRUE)

(* The members of structures in a value that are in its JSON: the way to   *)
(* each, as keys and positions.                                            *)
RECURSIVE Ways(_, _)
Ways(t, x) ==
  CASE t.kind = "struct" ->
         UNION {{<<i>>} \cup {<<i>> \o w : w \in Ways(t.parts[i].type, x.has[i])} : i \in Present(t, x.has)}
    [] t.kind = "choice" /\ x.is = "alternative" ->
         {<<x.has[1]>> \o w : w \in Ways(t.parts[x.has[1]].type, x.has[2])}
    [] t.kind = "list" ->
         UNION {{<<i>> \o w : w \in Ways(t.parts[1].type, x.has[i])} : i \in DOMAIN x.has}
    [] OTHER -> {}

(* The JSON without the member at the end of a way.                        *)
RECURSIVE Without(_, _, _)
Without(t, j, way) ==
  LET i == Head(way)
  IN  CASE t.kind = "list" ->
             [j EXCEPT !.has[i] = Without(t.parts[1].type, @, Tail(way))]
        [] t.kind = "choice" ->
             [j EXCEPT !.has[t.parts[i].key] = Without(t.parts[i].type, @, Tail(way))]
        [] t.kind = "struct" /\ Len(way) > 1 ->
             [j EXCEPT !.has[t.parts[i].key] = Without(t.parts[i].type, @, Tail(way))]
        [] t.kind = "struct" /\ Len(way) = 1 ->
             Object([k \in DOMAIN j.has \ {t.parts[i].key} |-> j.has[k]])

-----------------------------------------------------------------------------

VARIABLES type, given,
          json,
          writer,    \* who wrote it: "nobody", "adapter", "schema"
          omitted,   \* the way to a member that was left out, or empty
          taken      \* the value read back, Thrown, or Absent

vars == <<type, given, json, writer, omitted, taken>>

Init ==
  /\ type \in Types
  /\ given \in Values(type)
  /\ json = Null
  /\ writer = "nobody" /\ omitted = <<>>
  /\ taken = Absent

WriteByAdapter ==
  /\ writer = "nobody"
  /\ json' = ToJson(type, given, TRUE)
  /\ writer' = "adapter"
  /\ UNCHANGED <<type, given, omitted, taken>>

WriteBySchema ==
  /\ writer = "nobody"
  /\ json' = BySchema(type, given)
  /\ writer' = "schema"
  /\ UNCHANGED <<type, given, omitted, taken>>

Omit(way) ==
  /\ writer = "adapter" /\ omitted = <<>> /\ taken.is = "absent"
  /\ json' = Without(type, json, way)
  /\ omitted' = way
  /\ UNCHANGED <<type, given, writer, taken>>

(* j.get<T>() of the registered encoders.                                  *)
Read ==
  /\ writer # "nobody" /\ taken.is = "absent"
  /\ taken' = FromJson(type, json, Initial(type, FALSE), TRUE)
  /\ UNCHANGED <<type, given, json, writer, omitted>>

Next ==
  \/ WriteByAdapter \/ WriteBySchema \/ Read
  \/ \E way \in Ways(type, given) : Omit(way)

Spec == Init /\ [][Next]_vars

-----------------------------------------------------------------------------
(* Properties.                                                             *)

IsRead == taken.is # "absent"

(* What JSON keeps of a value.  An optional NULL and an optional ANY that  *)
(* is empty are lost, other contents of an ANY than a bit string, and the  *)
(* extension of a CHOICE, which becomes its first alternative; an addition *)
(* that is absent gets its default.                                        *)
RECURSIVE Kept(_, _)

KeptPart(p, x) ==
  IF x.is = "absent" \/ (p.optional /\ (x.is = "null" \/ (x.is = "any" /\ x.has = "empty")))
  THEN InitialPart(p, FALSE)
  ELSE Kept(p.type, x)

Kept(t, x) ==
  CASE t.kind = "any" /\ x.has # "bits" -> NoAny
    [] t.kind = "list" -> List([i \in DOMAIN x.has |-> Kept(t.parts[1].type, x.has[i])])
    [] t.kind = "choice" /\ x.is = "extension" -> Initial(t, FALSE)
    [] t.kind = "choice" /\ x.is = "alternative" ->
         Alternative(x.has[1], Kept(t.parts[x.has[1]].type, x.has[2]))
    [] t.kind = "struct" -> Struct([i \in DOMAIN t.parts |-> KeptPart(t.parts[i], x.has[i])])
    [] OTHER -> x

(* from_json gives back what to_json was given, but for exactly what Kept  *)
(* leaves out, and throws nothing.                                         *)
KeptByJson ==
  IsRead /\ writer = "adapter" /\ omitted = <<>> => taken = Kept(type, given)

(* A member that the JSON lacks reads as its default, as absent, or as     *)
(* zero, whatever the type says of it, and all others read as before.  It  *)
(* is memory that was never initialized if it is a number of a structure   *)
(* that is an alternative, or is part of such a structure.                 *)
RECURSIVE DiffersOnly(_, _, _, _, _)
DiffersOnly(t, x, y, way, scratch) ==
  LET i == Head(way)
      inner(p, f, g, s) == DiffersOnly(p.type, f, g, Tail(way), s)
  IN  CASE t.kind = "choice" ->
             y.has[1] = x.has[1] /\ inner(t.parts[i], x.has[2], y.has[2], TRUE)
        [] t.kind \in {"struct", "list"} ->
             /\ DOMAIN y.has = DOMAIN x.has
             /\ \A k \in DOMAIN x.has \ {i} : y.has[k] = x.has[k]
             /\ CASE t.kind = "list" -> inner(t.parts[1], x.has[i], y.has[i], FALSE)
                  [] Len(way) > 1 ->
                       inner(t.parts[i], x.has[i], y.has[i], scratch /\ ~ t.parts[i].optional)
                  [] OTHER -> y.has[i] = InitialPart(t.parts[i], scratch)

OmissionIsLocal ==
  IsRead /\ omitted # <<>> =>
    DiffersOnly(type, Kept(type, given), taken, omitted, FALSE)

(* JSON written as the schema file describes it is read as the same value, *)
(* unless it has the word for an enumerator that is a keyword of C++, or   *)
(* for one of an anonymous enumeration that is an alternative.             *)
RECURSIVE Spoken(_, _, _)
Spoken(t, x, macro) ==
  CASE t.kind = "enum" -> macro /\ Enumerator(t, x.has) \notin Keywords
    [] t.kind = "list" ->
         \A i \in DOMAIN x.has : Spoken(t.parts[1].type, x.has[i], t.parts[1].type.named)
    [] t.kind = "choice" ->
         x.is = "alternative" =>
           LET p == t.parts[x.has[1]] IN Spoken(p.type, x.has[2], p.type.named)
    [] t.kind = "struct" ->
         \A i \in Present(t, x.has) : Spoken(t.parts[i].type, x.has[i], TRUE)
    [] OTHER -> TRUE

SchemaIsTrue ==
  IsRead /\ writer = "schema" /\ Spoken(type, given, TRUE) => taken = Kept(type, given)

=============================================================================
