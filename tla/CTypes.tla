------------------------------- MODULE CTypes -------------------------------
(***************************************************************************)
(* CEmitter (CEmitter.cpp): the typedefs of the C back end.  C has one     *)
(* namespace: a name is one identifier, with the module in front.          *)
(*                                                                         *)
(* Every operator that emits takes the symbols of the schema, the module   *)
(* at hand, the name to declare, its type and recursion_depth.  No member  *)
(* has a resolvedName or resolvedTypeNode of its own, only its type has:   *)
(* the branches on those of a member are not reached and are left out, and *)
(* so are extension markers and the escaping of keywords.                  *)
(***************************************************************************)
EXTENDS TypeTree

CName(m, n) == <<m \o n>>

(* A bare name gets the module at hand, whatever it names.                 *)
CRef(to, m) == IF Len(to) = 1 THEN CName(m, to[1]) ELSE CName(to[1], to[2])

Needs(name, whose) == Code("needs", name, whose)

(* A field: the code that has to come before the structure, and the use of *)
(* its type in it.                                                         *)
Field(pre, use) == [pre |-> pre, use |-> use]

BuiltInField == Field(<<>>, <<>>)

RefField(to, m) == Field(<<>>, Needs(CRef(to, m), "schema"))

RECURSIVE EmitStruct(_, _, _, _, _), EmitChoice(_, _, _, _, _), EmitSequenceOf(_, _, _, _, _)

EmitEnum(m, n, t) ==
  ForParts(t, LAMBDA p : Declares(CName(m, n \o p.name))) \o Declares(CName(m, n))

(* A declaration that is made for a member of an anonymous type.           *)
EmitInline(symbols, m, n, t, depth) ==
  CASE t.kind \in Structs -> EmitStruct(symbols, m, n, t, depth)
    [] t.kind = "CHOICE" -> EmitChoice(symbols, m, n, t, depth)
    [] t.kind \in Lists -> EmitSequenceOf(symbols, m, n, t, depth)
    [] OTHER -> <<>>

(* Fault: an inline type is named for its field alone.                     *)
InlineNameShort(owner, field) == field \o <<"type">>

InlineName(owner, field) == owner \o field \o <<"type">>

(* cTypeFor.  The copy of a parameterized body is declared in place.  A    *)
(* name that the resolver did not bind is a formal parameter, unless there *)
(* is a type of that name anywhere.                                        *)
CTypeFor(symbols, m, owner, field, t, depth) ==
  LET name == InlineName(owner, field)
      inline(code) == Field(code, Needs(CName(m, name), "own"))
  IN  CASE Refers(t) /\ IsInstance(t) -> inline(EmitInline(symbols, m, name, t.body[1], depth))
        [] Refers(t) /\ ~ IsInstance(t) -> IF t.linked THEN RefField(t.to, m) ELSE BuiltInField
        [] t.kind \in Strings \cup {"BIT_STRING"} ->
             Field(Declares(CName(m, owner \o field)), Needs(CName(m, owner \o field), "own"))
        [] t.kind = "ENUMERATION" -> inline(EmitEnum(m, name, t))
        [] t.kind \in Structs \cup Lists \cup {"CHOICE"} ->
             inline(EmitInline(symbols, m, name, t, depth))
        [] t.kind = "IDENTIFIER" /\ ~ Refers(t) /\ (\E s \in symbols : s[2] = t.name) ->
             RefField(<<t.name>>, m)
        [] OTHER -> BuiltInField

(* A member is declared in place only if it is an instance or anonymous.   *)
MemberField(symbols, m, n, p, depth) ==
  IF Refers(p.type) /\ ~ IsInstance(p.type)
  THEN RefField(p.type.to, m)
  ELSE CTypeFor(symbols, m, n, p.name, p.type, depth)

(* Fault: the types of the members are declared after the structure.       *)
WithFieldsLate(m, n, fields) ==
  FlattenSeq([i \in DOMAIN fields |-> fields[i].use]) \o Declares(CName(m, n))
    \o FlattenSeq([i \in DOMAIN fields |-> fields[i].pre])

WithFields(m, n, fields) ==
  FlattenSeq([i \in DOMAIN fields |-> fields[i].pre])
    \o FlattenSeq([i \in DOMAIN fields |-> fields[i].use]) \o Declares(CName(m, n))

(* What is nested too deep is left out without a word.                     *)
EmitStruct(symbols, m, n, t, depth) ==
  IF depth > MaxDepth THEN <<>>
  ELSE WithFields(m, n, [i \in DOMAIN t.parts |->
                           MemberField(symbols, m, n, t.parts[i], depth + 1)])

EmitChoice(symbols, m, n, t, depth) ==
  LET tag == CName(m, n \o <<"TAG">>)
      fields == [i \in DOMAIN t.parts |->
                   CTypeFor(symbols, m, n, t.parts[i].name, t.parts[i].type, depth + 1)]
      tags == ForParts(t, LAMBDA p : Declares(CName(m, n \o <<"TAG">> \o p.name))) \o Declares(tag)
  IN  IF depth > MaxDepth THEN <<>>
      ELSE WithFields(m, n, fields \o <<Field(tags, Needs(tag, "own"))>>)

(* The element is unwrapped as if it were a member: of an anonymous type   *)
(* only its first child is looked at.                                      *)
Unwrapped(e) ==
  IF e.parts = <<>> THEN e
  ELSE IF e.kind \in Lists \cup Strings THEN e.parts[1].type
  ELSE Leaf("ASSIGNMENT")

EmitSequenceOf(symbols, m, n, t, depth) ==
  LET e == t.parts[1].type
      elem == <<"elem">>
      field == CASE Refers(e) -> RefField(e.to, m)
                 [] ~ Refers(e) /\ e.kind \in {"OCTET_STRING", "BIT_STRING"} ->
                      Field(<<>>, Needs(CName(m, n \o elem), "own"))
                 [] OTHER -> CTypeFor(symbols, m, n, elem, Unwrapped(e), depth)
  IN  WithFields(m, n, <<field>>)

EmitTypedef(m, n, t) ==
  CASE Refers(t) -> Needs(CRef(t.to, m), "schema") \o Declares(CName(m, n))
    [] ~ Refers(t) /\ t.kind \in Strings \cup Scalars \cup {"BIT_STRING"} -> Declares(CName(m, n))
    [] OTHER -> <<>>

(* node->value is never set: the parser makes the value a child.           *)
EmitValueAssignment(m, v) == <<>>

(* The dispatch in main: whether a type counts as emitted, and its code.   *)
Counts(t) == Refers(t) \/ t.kind \in BuiltIn

EmitAssignment(symbols, m, n, t) ==
  IF t.kind = "ENUMERATION" THEN EmitEnum(m, n, t)
  ELSE IF t.kind \in Structs \cup Lists \cup {"CHOICE"} THEN EmitInline(symbols, m, n, t, 0)
  ELSE EmitTypedef(m, n, t)

TypeName(m, n) == CName(m, n)

=============================================================================
