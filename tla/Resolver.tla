------------------------------ MODULE Resolver ------------------------------
(***************************************************************************)
(* SymbolTable::resolveReferences (SymbolTable.cpp): every type reference  *)
(* of every module is bound to a definition, module by module in the order *)
(* in which the modules were parsed.                                       *)
(*                                                                         *)
(* resolveNodeReferences is recursive and throws; todo is its call stack   *)
(* flattened into the work still to be done, nearest first.  A throw drops *)
(* the work up to the end of the innermost try block, or fails.            *)
(*                                                                         *)
(* Of a type's body only the references are kept, in the order in which    *)
(* they are visited; a class has one field.  Object sets, open types, WITH *)
(* COMPONENTS and the tags of AUTOMATIC TAGS are left out.                 *)
(***************************************************************************)
EXTENDS Naturals, Sequences, FiniteSets, SequencesExt

CONSTANTS Names,       \* of modules, types, values and formal parameters
          Primitives,  \* names that need no definition
          Classes,     \* names of classes: a reference to one is to its field
          Schemas      \* lists of modules, in the order of all_asts

(* A reference mentions a name and has actual parameters; an assignment    *)
(* has formal parameters and, in its body, references; a symbol is a type  *)
(* of a module.                                                            *)
Reference == [name : Names, args : Seq(Names)]
Assignment == [name : Names, params : Seq(Names), refs : Seq(Reference)]
Symbol == Names \X Names
Module == [name : Names, imports : Seq(Symbol), assigns : Seq(Assignment)]

ASSUME SchemasAssumption == Schemas \subseteq Seq(Module)

VARIABLES schema,      \* the argument of the call; never changes
          phase,       \* "scope", "resolve", "done", "failed"
          current,     \* position of the module being resolved
          scope,       \* resolution_scope: name -> symbol
          path,        \* resolution_path
          todo,
          name,        \* resolvedName of the nodes that have one
          linked,      \* nodes whose resolvedTypeNode is a definition's body
          copies,      \* node -> its copy of a parameterized body
          error        \* what was thrown last

vars == <<schema, phase, current, scope, path, todo, name, linked, copies,
          error>>

-----------------------------------------------------------------------------
(* A definition is the position of an assignment; a node is a reference of *)
(* it (last component 0) or an actual parameter of that reference.         *)

Definitions == UNION {{m} \X DOMAIN schema[m].assigns : m \in DOMAIN schema}

Assigned(d) == schema[d[1]].assigns[d[2]]

IsParameterized(d) == Assigned(d).params # <<>>

BodyNodes(d) == [k \in DOMAIN Assigned(d).refs |-> <<d[1], d[2], k, 0>>]

RefOf(n) == Assigned(n).refs[n[3]]

NameAt(n) == IF n[4] = 0 THEN RefOf(n).name ELSE RefOf(n).args[n[4]]

ArgNodes(n) ==
  IF n[4] # 0 THEN <<>>
  ELSE [p \in DOMAIN RefOf(n).args |-> <<n[1], n[2], n[3], p>>]

Nodes ==
  UNION {UNION {{n} \cup Range(ArgNodes(n)) : n \in Range(BodyNodes(d))} :
           d \in Definitions}

SymbolOf(d) == <<schema[d[1]].name, Assigned(d).name>>

Symbols == {SymbolOf(d) : d \in Definitions}

(* lookupSymbol: addSymbol keeps the first assignment of a symbol.         *)
DefinitionOf(s) ==
  CHOOSE d \in Definitions :
    /\ SymbolOf(d) = s
    /\ \A e \in Definitions : SymbolOf(e) = s =>
         d[1] < e[1] \/ (d[1] = e[1] /\ d[2] <= e[2])

Own(m) == {s[2] : s \in {s \in Symbols : s[1] = schema[m].name}}

(* An import fails if its symbol does not exist or its name is taken.      *)
ImportsFail(m) ==
  LET imports == schema[m].imports
  IN  \E i \in DOMAIN imports :
        \/ imports[i] \notin Symbols
        \/ imports[i][2] \in Own(m)
        \/ \E j \in 1 .. i - 1 : imports[j][2] = imports[i][2]

ScopeOf(m) ==
  LET imported == Range(schema[m].imports)
  IN  [x \in Own(m) \cup {s[2] : s \in imported} |->
         IF x \in Own(m) THEN <<schema[m].name, x>>
         ELSE CHOOSE s \in imported : s[2] = x]

-----------------------------------------------------------------------------
(* The work that is left.                                                  *)

(* Items: resolve an assignment, a node; the call that resolved a node's   *)
(* target returns; its actual parameters are resolved; a try block ends.   *)
Operations == {"assignment", "node", "link", "copy", "catch"}

Items(op, places) == [k \in DOMAIN places |-> [op |-> op, at |-> places[k]]]

Item(op, place) == Items(op, <<place>>)

Doing(op) == phase = "resolve" /\ todo # <<>> /\ Head(todo).op = op

Here == Head(todo).at

Rest == Tail(todo)

Bound(f, x, y) == [z \in DOMAIN f \cup {x} |-> IF z = x THEN y ELSE f[z]]

(* What a throw leaves to be done: nothing, or what follows the innermost  *)
(* try block.  resolution_path keeps what the calls it leaves had inserted.*)
Catches == {k \in DOMAIN todo : todo[k].op = "catch"}

AfterCatch ==
  IF Catches = {} THEN <<>>
  ELSE SubSeq(todo, 1 + CHOOSE k \in Catches : \A j \in Catches : k <= j,
              Len(todo))

Throw(what) ==
  /\ error' = what
  /\ phase' = IF Catches = {} THEN "failed" ELSE phase
  /\ todo' = AfterCatch

-----------------------------------------------------------------------------

Init ==
  /\ schema \in Schemas
  /\ phase = "scope" /\ current = 1
  /\ scope = <<>> /\ path = {} /\ todo = <<>>
  /\ name = <<>> /\ linked = {} /\ copies = <<>>
  /\ error = "none"

StartModule ==
  /\ phase = "scope"
  /\ current \in DOMAIN schema
  /\ ~ ImportsFail(current)
  /\ scope' = ScopeOf(current)
  /\ path' = {}
  /\ todo' = Items("assignment", [a \in DOMAIN schema[current].assigns |-> <<current, a>>])
  /\ phase' = "resolve"
  /\ UNCHANGED <<schema, current, name, linked, copies, error>>

BadImport ==
  /\ phase = "scope"
  /\ current \in DOMAIN schema
  /\ ImportsFail(current)
  /\ phase' = "failed" /\ error' = "import"
  /\ UNCHANGED <<schema, current, scope, path, todo, name, linked, copies>>

(* Fault: the loop over all_asts does not advance.                         *)
EndModuleStays ==
  /\ phase = "resolve" /\ todo = <<>>
  /\ phase' = "scope"
  /\ UNCHANGED <<schema, current, scope, path, todo, name, linked, copies, error>>

EndModule ==
  /\ phase = "resolve" /\ todo = <<>>
  /\ current' = current + 1
  /\ phase' = "scope"
  /\ UNCHANGED <<schema, scope, path, todo, name, linked, copies, error>>

Finish ==
  /\ phase = "scope"
  /\ current \notin DOMAIN schema
  /\ phase' = "done"
  /\ UNCHANGED <<schema, current, scope, path, todo, name, linked, copies, error>>

(* The body of a parameterized type is resolved inside a try block.        *)
EnterAssignment ==
  /\ Doing("assignment")
  /\ todo' = Items("node", BodyNodes(Here))
             \o (IF IsParameterized(Here) THEN Item("catch", Here) ELSE <<>>)
             \o Rest
  /\ UNCHANGED <<schema, phase, current, scope, path, name, linked, copies, error>>

LeaveTry ==
  /\ Doing("catch")
  /\ todo' = Rest
  /\ UNCHANGED <<schema, phase, current, scope, path, name, linked, copies, error>>

(* An identifier whose resolvedName is set is left alone, whatever else of *)
(* it is missing.                                                          *)
SkipNamed ==
  /\ Doing("node")
  /\ Here \in DOMAIN name
  /\ todo' = Rest
  /\ UNCHANGED <<schema, phase, current, scope, path, name, linked, copies, error>>

(* Fault: the early exit for resolved nodes is missing.                    *)
AnyNode == Doing("node") /\ NameAt(Here) \notin Classes

Unnamed ==
  Doing("node") /\ Here \notin DOMAIN name /\ NameAt(Here) \notin Classes

Args == Items("node", ArgNodes(Here))

SkipPrimitive ==
  /\ Unnamed
  /\ NameAt(Here) \notin DOMAIN scope
  /\ NameAt(Here) \in Primitives
  /\ todo' = Args \o Rest
  /\ UNCHANGED <<schema, phase, current, scope, path, name, linked, copies, error>>

Elsewhere(x) == {s \in Symbols : s[2] = x}

(* Fault: a name found elsewhere is qualified with the module at hand.     *)
BindElsewhereAsOwn ==
  /\ Unnamed
  /\ NameAt(Here) \notin DOMAIN scope \cup Primitives
  /\ Elsewhere(NameAt(Here)) # {}
  /\ name' = Bound(name, Here, <<schema[current].name, NameAt(Here)>>)
  /\ todo' = Args \o Rest
  /\ UNCHANGED <<schema, phase, current, scope, path, linked, copies, error>>

(* A name that is not in scope is taken from any module that defines it,   *)
(* in the order of an unordered map, and not followed.                     *)
BindElsewhere ==
  /\ Unnamed
  /\ NameAt(Here) \notin DOMAIN scope \cup Primitives
  /\ \E s \in Elsewhere(NameAt(Here)) : name' = Bound(name, Here, s)
  /\ todo' = Args \o Rest
  /\ UNCHANGED <<schema, phase, current, scope, path, linked, copies, error>>

(* Fault: a name that is defined nowhere is passed over.                   *)
UndefinedNameSkipped ==
  /\ Unnamed
  /\ NameAt(Here) \notin DOMAIN scope \cup Primitives
  /\ Elsewhere(NameAt(Here)) = {}
  /\ todo' = Args \o Rest
  /\ UNCHANGED <<schema, phase, current, scope, path, name, linked, copies, error>>

UndefinedName ==
  /\ Unnamed
  /\ NameAt(Here) \notin DOMAIN scope \cup Primitives
  /\ Elsewhere(NameAt(Here)) = {}
  /\ Throw("undefined")
  /\ UNCHANGED <<schema, current, scope, path, name, linked, copies>>

(* The class and the type of its field are names of the module at hand;    *)
(* for these there is no search elsewhere.  The node gets the field's type *)
(* and its actual parameters are left alone; name has the class.           *)
FieldTypes(x) ==
  {RefOf(f).name : f \in Range(BodyNodes(DefinitionOf(scope[x])))} \ Primitives

FieldIsKnown(x) == x \in DOMAIN scope /\ FieldTypes(x) \subseteq DOMAIN scope

FieldReference ==
  Doing("node") /\ Here \notin DOMAIN name /\ NameAt(Here) \in Classes

BindField ==
  /\ FieldReference
  /\ FieldIsKnown(NameAt(Here))
  /\ name' = Bound(name, Here, scope[NameAt(Here)])
  /\ todo' = Rest
  /\ UNCHANGED <<schema, phase, current, scope, path, linked, copies, error>>

UndefinedField ==
  /\ FieldReference
  /\ ~ FieldIsKnown(NameAt(Here))
  /\ Throw("undefined")
  /\ UNCHANGED <<schema, current, scope, path, name, linked, copies>>

(* The name is in scope; resolvedName is set before anything else.         *)
InScope ==
  /\ Unnamed
  /\ NameAt(Here) \in DOMAIN scope
  /\ name' = Bound(name, Here, scope[NameAt(Here)])

Target == scope[NameAt(Here)]

(* Faults: no check for a circle; the definition is neither resolved nor   *)
(* linked.                                                                 *)
FollowUnchecked ==
  /\ InScope
  /\ ~ IsParameterized(DefinitionOf(Target))
  /\ path' = path \cup {Target}
  /\ todo' = Item("assignment", DefinitionOf(Target)) \o Item("link", Here)
             \o Args \o Rest
  /\ UNCHANGED <<schema, phase, current, scope, linked, copies, error>>

FollowNot ==
  /\ InScope
  /\ ~ IsParameterized(DefinitionOf(Target))
  /\ todo' = Args \o Rest
  /\ UNCHANGED <<schema, phase, current, scope, path, linked, copies, error>>

(* The definition is resolved too, in the scope of the module at hand.     *)
Follow ==
  /\ InScope
  /\ ~ IsParameterized(DefinitionOf(Target))
  /\ Target \notin path
  /\ path' = path \cup {Target}
  /\ todo' = Item("assignment", DefinitionOf(Target)) \o Item("link", Here)
             \o Args \o Rest
  /\ UNCHANGED <<schema, phase, current, scope, linked, copies, error>>

CircularName ==
  /\ InScope
  /\ ~ IsParameterized(DefinitionOf(Target))
  /\ Target \in path
  /\ Throw("circular")
  /\ UNCHANGED <<schema, current, scope, path, linked, copies>>

(* Fault: the symbol stays in resolution_path.                             *)
LinkKeepsPath ==
  /\ Doing("link")
  /\ linked' = linked \cup {Here}
  /\ todo' = Rest
  /\ UNCHANGED <<schema, phase, current, scope, path, name, copies, error>>

(* The call that resolved the definition has returned.                     *)
Link ==
  /\ Doing("link")
  /\ linked' = linked \cup {Here}
  /\ path' = path \ {name[Here]}
  /\ todo' = Rest
  /\ UNCHANGED <<schema, phase, current, scope, name, copies, error>>

(* The body is copied before the actual parameters are resolved and they   *)
(* are put in afterwards; resolving them does not touch the body, so the   *)
(* copy is one step here.                                                  *)
Instantiate ==
  /\ InScope
  /\ IsParameterized(DefinitionOf(Target))
  /\ Len(Assigned(DefinitionOf(Target)).params) = Len(ArgNodes(Here))
  /\ todo' = Args \o Item("copy", Here) \o Args \o Rest
  /\ UNCHANGED <<schema, phase, current, scope, path, linked, copies, error>>

WrongArity ==
  /\ InScope
  /\ IsParameterized(DefinitionOf(Target))
  /\ Len(Assigned(DefinitionOf(Target)).params) # Len(ArgNodes(Here))
  /\ Throw("arity")
  /\ UNCHANGED <<schema, current, scope, path, linked, copies>>

(* The node a body's reference becomes in the copy made for node n: itself *)
(* or, for a formal parameter, the actual one.  A copied node keeps the    *)
(* resolvedName that its original has by now.                              *)
Substituted(n, b) ==
  LET formals == Assigned(DefinitionOf(name[n])).params
      actual == {p \in DOMAIN formals : formals[p] = NameAt(b)}
  IN  IF actual = {} THEN b
      ELSE ArgNodes(n)[CHOOSE p \in actual : \A q \in actual : q <= p]

(* The names in the copy, and the symbol of each that has a resolvedName.  *)
Instance(n) ==
  LET body == BodyNodes(DefinitionOf(name[n]))
      node == [k \in DOMAIN body |-> Substituted(n, body[k])]
  IN  [k \in DOMAIN body |->
         [name |-> NameAt(node[k]),
          to |-> {name[x] : x \in {node[k]} \cap DOMAIN name}]]

CopyBody ==
  /\ Doing("copy")
  /\ copies' = Bound(copies, Here, Instance(Here))
  /\ todo' = Rest
  /\ UNCHANGED <<schema, phase, current, scope, path, name, linked, error>>

Next ==
  \/ StartModule \/ BadImport \/ EndModule \/ Finish
  \/ EnterAssignment \/ LeaveTry
  \/ SkipNamed \/ SkipPrimitive \/ BindElsewhere \/ UndefinedName
  \/ Follow \/ CircularName \/ Link
  \/ Instantiate \/ WrongArity \/ CopyBody
  \/ BindField \/ UndefinedField

Spec == Init /\ [][Next]_vars

(* A single thread runs the recursion to its end.                          *)
FairSpec == Spec /\ WF_vars(Next)

-----------------------------------------------------------------------------

TypeOK ==
  /\ schema \in Seq(Module)
  /\ phase \in {"scope", "resolve", "done", "failed"}
  /\ current \in 1 .. Len(schema) + 1
  /\ DOMAIN scope \subseteq Names /\ Range(scope) \subseteq Symbols
  /\ path \subseteq Symbols
  /\ \A k \in DOMAIN todo :
       /\ todo[k].op \in Operations
       /\ todo[k].at \in IF todo[k].op \in {"assignment", "catch"} THEN Definitions ELSE Nodes
  /\ DOMAIN name \subseteq Nodes /\ Range(name) \subseteq Symbols
  /\ linked \subseteq DOMAIN name
  /\ DOMAIN copies \subseteq DOMAIN name
  /\ error \in {"none", "import", "undefined", "circular", "arity"}

(* The definitions that are being resolved, outermost last: all different, *)
(* and all in resolution_path, so the recursion is never deeper than there *)
(* are definitions, cyclic ones included.                                  *)
Pending == {k \in DOMAIN todo : todo[k].op = "link"}

RecursionIsBounded ==
  /\ \A k \in Pending : todo[k].at \in DOMAIN name /\ name[todo[k].at] \in path
  /\ \A j, k \in Pending : name[todo[j].at] = name[todo[k].at] => j = k

Parameterless == \A d \in Definitions : ~ IsParameterized(d)

(* Without try blocks resolution_path is exactly the chain of calls; a     *)
(* missed or a second erase would make a later check fire or fail to.      *)
PathIsCallChain ==
  Parameterless /\ phase = "resolve" =>
    path = {name[todo[k].at] : k \in Pending}

(* The modules before m whose resolution may bind references of m: those   *)
(* that import from it and so may follow a name into it, and those of the  *)
(* same name.                                                              *)
Importers(m) ==
  {i \in 1 .. m - 1 :
     \/ schema[i].name = schema[m].name
     \/ \E s \in Range(schema[i].imports) : s[1] = schema[m].name}

Resolvers(n) == Importers(n[1]) \cup {n[1]}

BindsAs(n, i) ==
  IF NameAt(n) \in DOMAIN ScopeOf(i) THEN name[n] = ScopeOf(i)[NameAt(n)]
  ELSE name[n] \in Elsewhere(NameAt(n))

(* A reference means what its name means to its own module or to an        *)
(* importer resolved before that, and never changes to what it means to a  *)
(* module that comes later.  Only a primitive's name, which its own module *)
(* passes over, may be bound by a later module that defines it.            *)
BoundByOwnOrImporter ==
  \A n \in DOMAIN name : NameAt(n) \notin Primitives =>
    \E i \in Resolvers(n) : i <= current /\ BindsAs(n, i)

(* When a module is finished each reference that its scope names is linked *)
(* to a body, unless an error was swallowed or an importer that came       *)
(* before, and whose scope lacks the name, has bound it without linking    *)
(* it: its own module then skips it.                                       *)
LeftByImporter(n) ==
  \E i \in Importers(n[1]) : NameAt(n) \notin DOMAIN ScopeOf(i)

NamedInScope ==
  {n \in DOMAIN name : n[1] = current /\ NameAt(n) \in DOMAIN scope \ Classes}

ModuleIsLinked ==
  phase = "resolve" /\ todo = <<>> /\ error = "none" =>
    \A n \in NamedInScope : n \in linked \cup DOMAIN copies \/ LeftByImporter(n)

(* Some definitions refer to each other in a circle: each of them has a    *)
(* reference that is bound to another, or to itself.                       *)
RefersInto(d, S) ==
  \E n \in DOMAIN name : <<n[1], n[2]>> = d /\ DefinitionOf(name[n]) \in S

HasCycle == \E S \in SUBSET Definitions : S # {} /\ \A d \in S : RefersInto(d, S)

(* Other faults, outside parameterized types.  A name that no module       *)
(* defines, or the class of a field, or the type of that field, that its   *)
(* module or one that imports from it before does not know: for these      *)
(* another order of the modules may be accepted.                           *)
MissesField(n, i) ==
  LET known == DOMAIN ScopeOf(i)
  IN  \/ NameAt(n) \notin known
      \/ \E r \in Range(Assigned(DefinitionOf(ScopeOf(i)[NameAt(n)])).refs) :
           r.name \notin known \cup Primitives

Missing(n) ==
  /\ ~ IsParameterized(n)
  /\ IF NameAt(n) \in Classes
     THEN \E i \in Resolvers(n) : MissesField(n, i)
     ELSE NameAt(n) \notin Primitives /\ Elsewhere(NameAt(n)) = {}

HasMissing == \E n \in Nodes : Missing(n)

(* A reference to a parameterized type with too few or too many arguments. *)
Mismatched(n) ==
  LET d == DefinitionOf(name[n])
  IN  /\ ~ IsParameterized(n) /\ IsParameterized(d)
      /\ Len(Assigned(d).params) # Len(ArgNodes(n))

HasMismatch == \E n \in DOMAIN name : Mismatched(n)

(* A circular reference is reported of a schema that has one, or of one    *)
(* with another of these faults, which a try block may have swallowed:     *)
(* resolution_path keeps what the calls that the error left had inserted.  *)
CircularMeansCycle ==
  phase = "failed" /\ error = "circular" =>
    HasCycle \/ (~ Parameterless /\ (HasMissing \/ HasMismatch))

(* An undefined name is reported of a schema that misses one.              *)
UndefinedMeansMissing ==
  phase = "failed" /\ error = "undefined" => HasMissing

ErrorsAreTrue == CircularMeansCycle /\ UndefinedMeansMissing

(* The recursion ends.                                                     *)
Termination == <>(phase \in {"done", "failed"})

-----------------------------------------------------------------------------

(* The references that an accepted schema must have bound: the bodies of   *)
(* parameterized types are resolved as far as that goes.                   *)
Required ==
  {n \in Nodes : n[4] = 0 /\ ~ IsParameterized(n) /\ NameAt(n) \notin Primitives}

Binding == INSTANCE NameBinding WITH
             candidates <- [n \in Nodes |-> Elsewhere(NameAt(n))],
             required <- Required,
             binding <- name,
             verdict <- CASE phase = "done" -> "accepted"
                          [] phase = "failed" -> "rejected"
                          [] OTHER -> "open"

BindingSpec == Binding!Spec

=============================================================================
