----------------------------- MODULE JsonTypes -----------------------------
(***************************************************************************)
(* JsonEmitter (JsonEmitter.cpp): to_json and from_json for the types of   *)
(* the C++ back end.  It makes the names of anonymous types and wrappers   *)
(* up again, and does not ask CppEmitter.                                  *)
(*                                                                         *)
(* "adapts" is a pair of functions for the C++ type of that name, "wraps"  *)
(* a use of a wrapper in them, "encodes" a call for the type of a field.   *)
(* What nlohmann::json converts by itself, also an enumeration that has no *)
(* adapter, is no call.                                                    *)
(***************************************************************************)
EXTENDS CppTypes

Adapts(scope, id) == Own("adapts", scope, id)

Encodes(uses) == [k \in DOMAIN uses |-> [uses[k] EXCEPT !.op = "encodes"]]

RECURSIVE AdaptStruct(_, _, _, _), AdaptChoice(_, _, _, _, _)

(* The anonymous type of an alternative, an empty structure excepted.      *)
AdaptAlternative(scope, prefix, p, depth) ==
  LET t == p.type
      id == prefix \o p.name \o <<"type">>
  IN  CASE ~ Refers(t) /\ t.kind = "CHOICE" -> AdaptChoice(scope, id, id, t, depth)
        [] ~ Refers(t) /\ t.kind \in Structs /\ t.parts # <<>> -> AdaptStruct(scope, id, t, depth)
        [] OTHER -> <<>>

IsEmpty(t) == t.kind = "NULL_TYPE" \/ (t.kind \in Structs /\ t.parts = <<>>)

(* Fault: the wrapper has the name of the alternative only.                *)
UseAlternativeBare(scope, prefix, p) == Own("wraps", scope, p.name)

UseAlternative(scope, prefix, p) ==
  LET t == p.type
      wrapper == prefix \o p.name
  IN  Own("wraps", scope, wrapper)
        \o (IF ~ Refers(t) /\ (IsEmpty(t) \/ t.kind = "ENUMERATION") THEN <<>>
            ELSE Encodes(AlternativeUse(scope, wrapper, t)))

(* emitChoiceAdapterImpl                                                   *)
AdaptChoice(scope, prefix, alias, t, depth) ==
  ForParts(t, LAMBDA p : AdaptAlternative(scope, prefix, p, depth))
    \o Adapts(scope, alias)
    \o ForParts(t, LAMBDA p : UseAlternative(scope, prefix, p))

(* The anonymous type of the elements of a list.                           *)
AdaptElement(scope, id, e, depth) ==
  IF e.kind = "CHOICE" THEN AdaptChoice(scope, id, id, e, depth)
  ELSE AdaptStruct(scope, id, e, depth)

(* The anonymous type of a member.                                         *)
AdaptNested(scope, p, depth) ==
  LET t == p.type
      id == p.name \o <<"type">>
  IN  CASE Refers(t) -> <<>>
        [] ~ Refers(t) /\ t.kind = "ENUMERATION" -> Adapts(scope, id)
        [] ~ Refers(t) /\ t.kind = "CHOICE" -> AdaptChoice(scope, p.name, id, t, depth)
        [] ~ Refers(t) /\ t.kind \in Structs -> AdaptStruct(scope, id, t, depth)
        [] ~ Refers(t) /\ t.kind \in Lists /\ IsAnonymousElement(t) ->
             AdaptElement(scope, ElementName(p.name), t.parts[1].type, depth)
        [] OTHER -> <<>>

(* emitStructAdapterImpl                                                   *)
AdaptStruct(scope, id, t, depth) ==
  LET inside == Append(scope, id)
  IN  IF depth > MaxDepth THEN Throws
      ELSE ForParts(t, LAMBDA p : AdaptNested(inside, p, depth + 1))
             \o Adapts(scope, id)
             \o ForParts(t, LAMBDA p : Encodes(FieldUse(inside, p)))

(* Fault: an alias of an enumeration is not left out.                      *)
AdaptAssignmentOfAlias(m, n, t, effective) ==
  CASE effective.kind \in Structs -> AdaptStruct(<<m>>, n, effective, 0)
    [] effective.kind = "CHOICE" -> AdaptChoice(<<m>>, n, n, effective, 0)
    [] effective.kind = "ENUMERATION" -> Adapts(<<m>>, n)
    [] effective.kind \in Lists /\ IsAnonymousElement(effective) ->
         AdaptElement(<<m>>, n \o <<"element">>, effective.parts[1].type, 0)
    [] OTHER -> <<>>

(* emitTypeAdapter.  effective is what resolvedTypeNode is set to, or the  *)
(* type itself.  An alias of an enumeration is left out; an alias of any   *)
(* other type is not.                                                      *)
AdaptAssignment(m, n, t, effective) ==
  CASE effective.kind \in Structs -> AdaptStruct(<<m>>, n, effective, 0)
    [] effective.kind = "CHOICE" -> AdaptChoice(<<m>>, n, n, effective, 0)
    [] effective.kind = "ENUMERATION" /\ ~ Refers(t) -> Adapts(<<m>>, n)
    [] effective.kind \in Lists /\ IsAnonymousElement(effective) ->
         AdaptElement(<<m>>, n \o <<"element">>, effective.parts[1].type, 0)
    [] OTHER -> <<>>

=============================================================================
