---------------------------- MODULE Constraints ----------------------------
(***************************************************************************)
(* ConstraintResolver::resolveBound: the constant that a bound of a size   *)
(* or range stands for in the code generated for a type.                   *)
(*                                                                         *)
(* A bound is a reference to a value, resolved with all others; while code *)
(* is generated its name is looked up once more, in the module being       *)
(* emitted.  The C generator emits for an alias, or an instance, the body  *)
(* of what it stands for, which may be another module's.                   *)
(***************************************************************************)
EXTENDS Resolver

CONSTANTS Values,   \* names of values
          Aliases   \* names of types whose body is a reference and no more

(* The parser tells values from types, and so from primitives, by the case *)
(* of the first letter.                                                    *)
ASSUME ValuesAssumption == Values \cap Primitives = {}

AliasLinks == 10    \* of a chain of aliases, followed by resolveEffectiveType

IsValue(d) == Assigned(d).name \in Values

IsAlias(d) == Assigned(d).name \in Aliases

AliasOf(d) == BodyNodes(d)[1]

(* What e stands for, if it is an alias and no instance; e if it is not.   *)
AliasedBy(e) ==
  IF IsAlias(e) /\ AliasOf(e) \in DOMAIN name \ DOMAIN copies
  THEN DefinitionOf(name[AliasOf(e)])
  ELSE e

(* The definition at the end of a chain of aliases, or the one there that  *)
(* is an instance of a parameterized type.                                 *)
Effective(d) ==
  LET reached[k \in 0 .. AliasLinks] == IF k = 0 THEN d ELSE AliasedBy(reached[k - 1])
  IN  reached[AliasLinks]

(* The nodes of the body emitted for e and the symbols they have, if any.  *)
EmittedNodes(e) ==
  LET n == AliasOf(e)
      body == BodyNodes(DefinitionOf(name[n]))
  IN  IF IsAlias(e) /\ n \in DOMAIN copies
      THEN {[node |-> Substituted(n, body[k]), to |-> copies[n][k].to] :
              k \in DOMAIN body}
      ELSE {[node |-> b, to |-> {name[x] : x \in {b} \cap DOMAIN name}] :
              b \in Range(BodyNodes(e))}

Emitted == {d \in Definitions : ~ IsParameterized(d) /\ ~ IsValue(d)}

EmittedBounds(d) ==
  {b \in EmittedNodes(Effective(d)) : NameAt(b.node) \in Values}

(* Fault: the resolvedName is tried before the module being emitted.       *)
ResolvedNameFirst(module, b) ==
  LET x == NameAt(b.node)
  IN  IF b.to # {} THEN b.to
      ELSE IF <<module, x>> \in Symbols THEN {<<module, x>>}
      ELSE Elsewhere(x)

(* The values the bound may be given in the code of a module; none if the  *)
(* bound is skipped.                                                       *)
BoundOf(module, b) ==
  LET x == NameAt(b.node)
  IN  IF <<module, x>> \in Symbols THEN {<<module, x>>}
      ELSE IF b.to # {} THEN b.to
      ELSE Elsewhere(x)

-----------------------------------------------------------------------------

(* What the name means where it is written.                                *)
Lexical(b) ==
  LET meaning == ScopeOf(b.node[1])
  IN  {meaning[x] : x \in {NameAt(b.node)} \cap DOMAIN meaning}

(* Another module before the bound's own may have bound it, to something   *)
(* else or to whatever it found.                                           *)
MayStray(b) ==
  \E i \in Importers(b.node[1]) :
    \/ NameAt(b.node) \notin DOMAIN ScopeOf(i)
    \/ ScopeOf(i)[NameAt(b.node)] \notin Lexical(b)

(* A bound is the constant its name means where it is written, except that *)
(* a module that emits another's body takes its own constant of that name, *)
(* that an importer resolved before may have bound it, and that one in a   *)
(* parameterized body, copied before it was bound, is searched in all      *)
(* modules or skipped.  None of these comes between a type and a constant  *)
(* of its own module, and no other bound is skipped.                       *)
BoundsAreLexical ==
  phase = "done" =>
    \A d \in Emitted : \A b \in EmittedBounds(d) :
      LET found == BoundOf(schema[d[1]].name, b)
          isOwn == NameAt(b.node) \in Own(d[1])
      IN  IF isOwn /\ b.node[1] = d[1] THEN found = Lexical(b)
          ELSE IF b.to = {}
          THEN IsParameterized(b.node) /\ (isOwn \/ Lexical(b) \subseteq found)
          ELSE isOwn \/ MayStray(b) \/ Lexical(b) \in {{}, found}

=============================================================================
