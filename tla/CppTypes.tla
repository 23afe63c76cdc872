------------------------------ MODULE CppTypes ------------------------------
(***************************************************************************)
(* CppEmitter (CppEmitter.cpp): the types of the C++ back end.  A name is  *)
(* the path to it: the namespace of its module, the structures around it,  *)
(* its identifier.                                                         *)
(*                                                                         *)
(* Emitting operators take the scope, the identifier to declare, its type  *)
(* and recursion_depth.  What comes out as a type of the standard library, *)
(* std::any or uint8_t is no use of a name.  A bare resolvedName is mapped *)
(* to such a type; only names of types have a module in front.             *)
(***************************************************************************)
EXTENDS TypeTree

(* resolvedNameToCppRef                                                    *)
CppRef(op, to) == IF Len(to) = 2 THEN Code(op, to, "schema") ELSE <<>>

(* A use of a name that the generator has made in this scope.              *)
Own(op, scope, id) == Code(op, Append(scope, id), "own")

Inlined == {"CHOICE", "SEQUENCE"}

(* The element of a vector may be incomplete.  An anonymous element has a  *)
(* name of its own in a structure only.                                    *)
ElementUse(list) ==
  IF list.parts = <<>> THEN <<>> ELSE CppRef("mentions", list.parts[1].type.to)

RECURSIVE EmitStruct(_, _, _, _), EmitChoice(_, _, _, _, _)

EmitEnum(scope, id) == Declares(Append(scope, id))

(* The field in the wrapper of an alternative.                             *)
AlternativeUse(scope, wrapper, t) ==
  CASE Refers(t) -> CppRef("needs", t.to)
    [] ~ Refers(t) /\ t.kind \in Inlined -> Own("needs", scope, wrapper \o <<"type">>)
    [] ~ Refers(t) /\ t.kind \in Lists -> ElementUse(t)
    [] ~ Refers(t) /\ t.kind = "ENUMERATION" -> Own("needs", scope, wrapper \o <<"enum">>)
    [] OTHER -> <<>>

(* The wrapper, with the type in it.                                       *)
EmitAlternative(scope, prefix, p, depth) ==
  LET t == p.type
      wrapper == prefix \o p.name
      nested == CASE t.kind = "SEQUENCE" -> EmitStruct(scope, wrapper \o <<"type">>, t, depth)
                  [] t.kind = "CHOICE" ->
                       EmitChoice(scope, wrapper \o <<"type">>, wrapper \o <<"type">>, t, depth)
                  [] t.kind = "ENUMERATION" /\ ~ Refers(t) -> EmitEnum(scope, wrapper \o <<"enum">>)
                  [] OTHER -> <<>>
  IN  nested \o AlternativeUse(scope, wrapper, t) \o Declares(Append(scope, wrapper))

(* The variant of a choice; inside a structure it has no call of its own.  *)
EmitVariant(scope, prefix, alias, t, depth) ==
  ForParts(t, LAMBDA p : EmitAlternative(scope, prefix, p, depth))
    \o ForParts(t, LAMBDA p : Own("needs", scope, prefix \o p.name))
    \o Declares(Append(scope, alias))

EmitChoice(scope, prefix, alias, t, depth) ==
  IF depth > MaxDepth THEN Throws ELSE EmitVariant(scope, prefix, alias, t, depth + 1)

(* Fault: the element of a list gets a name without that of its member.    *)
ElementNameShort(member) == <<"element", "type">>

ElementName(member) == member \o <<"element", "type">>

IsAnonymousElement(list) ==
  ~ Refers(list.parts[1].type) /\ list.parts[1].type.kind \in Structs \cup {"CHOICE"}

(* The first pass over the members: anonymous types.                       *)
EmitNested(scope, p, depth) ==
  LET t == p.type
      id == p.name \o <<"type">>
  IN  CASE Refers(t) -> <<>>
        [] ~ Refers(t) /\ t.kind \in Structs -> EmitStruct(scope, id, t, depth)
        [] ~ Refers(t) /\ t.kind = "ENUMERATION" -> EmitEnum(scope, id)
        [] ~ Refers(t) /\ t.kind = "CHOICE" -> EmitVariant(scope, p.name, id, t, depth)
        [] ~ Refers(t) /\ t.kind \in Lists /\ IsAnonymousElement(t) ->
             LET e == t.parts[1].type
             IN  IF e.kind = "CHOICE"
                 THEN EmitChoice(scope, ElementName(p.name), ElementName(p.name), e, depth)
                 ELSE EmitStruct(scope, ElementName(p.name), e, depth)
        [] OTHER -> <<>>

(* The second pass: a field.                                               *)
FieldUse(scope, p) ==
  LET t == p.type
  IN  CASE Refers(t) -> CppRef("needs", t.to)
        [] ~ Refers(t) /\ t.kind \in Structs \cup {"ENUMERATION", "CHOICE"} ->
             Own("needs", scope, p.name \o <<"type">>)
        [] ~ Refers(t) /\ t.kind \in Lists ->
             IF IsAnonymousElement(t) THEN Own("mentions", scope, ElementName(p.name)) ELSE ElementUse(t)
        [] OTHER -> <<>>

EmitStruct(scope, id, t, depth) ==
  LET inside == Append(scope, id)
  IN  IF depth > MaxDepth THEN Throws
      ELSE Opens(inside)
             \o ForParts(t, LAMBDA p : EmitNested(inside, p, depth + 1))
             \o ForParts(t, LAMBDA p : FieldUse(inside, p))
             \o Declares(inside)

(* A SET OF is left out.  The name of an element that has none of its own, *)
(* SET among them, is taken for that of a type.                            *)
EmitSequenceOf(scope, id, t) ==
  LET e == t.parts[1].type
      name == id \o <<"element">>
      nested == CASE Refers(e) -> CppRef("mentions", e.to)
                  [] ~ Refers(e) /\ e.kind = "CHOICE" ->
                       EmitChoice(scope, name, name, e, 0) \o Own("mentions", scope, name)
                  [] ~ Refers(e) /\ e.kind = "SEQUENCE" ->
                       EmitStruct(scope, name, e, 0) \o Own("mentions", scope, name)
                  [] ~ Refers(e) /\ e.kind \in {"SET", "SET_OF", "IDENTIFIER"} ->
                       Code("mentions", Append(scope, e.name), "schema")
                  [] OTHER -> <<>>
  IN  IF t.kind = "SET_OF" THEN <<>> ELSE nested \o Declares(Append(scope, id))

(* An alias for std::any is left out; TYPE is the bare word for an open    *)
(* type.                                                                   *)
EmitTypedef(scope, id, t) ==
  CASE Refers(t) /\ t.to # <<<<"TYPE">>>> -> CppRef("mentions", t.to) \o Declares(Append(scope, id))
    [] ~ Refers(t) /\ t.kind = "IDENTIFIER" ->
         Code("mentions", Append(scope, t.name), "schema") \o Declares(Append(scope, id))
    [] ~ Refers(t) /\ t.kind \in BuiltIn \ {"ANY_TYPE"} -> Declares(Append(scope, id))
    [] OTHER -> <<>>

(* The dispatch in main: whether a type counts as emitted, and its code.   *)
Counts(t) == Refers(t) \/ t.kind \in BuiltIn \cup {"IDENTIFIER"}

EmitAssignment(m, n, t) ==
  CASE t.kind \in Structs -> EmitStruct(<<m>>, n, t, 0)
    [] t.kind = "CHOICE" -> EmitChoice(<<m>>, n, n, t, 0)
    [] t.kind = "ENUMERATION" -> EmitEnum(<<m>>, n)
    [] t.kind \in Lists -> EmitSequenceOf(<<m>>, n, t)
    [] OTHER -> EmitTypedef(<<m>>, n, t)

TypeName(m, n) == <<m, n>>

(* A constant is made of an INTEGER or an OBJECT IDENTIFIER only, not of a *)
(* type with a name.                                                       *)
EmitValueAssignment(m, v) ==
  IF v.type.kind \in {"INTEGER", "OBJECT_IDENTIFIER"} THEN Declares(<<m, v.name>>) ELSE <<>>

=============================================================================
