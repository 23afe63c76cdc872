------------------------------- MODULE Parser -------------------------------
(***************************************************************************)
(* AsnParser (AsnParser.cpp): a recursive-descent parser from the tokens   *)
(* of a file to one tree per module.                                       *)
(*                                                                         *)
(* todo is the parser's call stack flattened into the items still to be    *)
(* parsed, nearest first; made holds the nodes under construction, the     *)
(* innermost last.  Every item is an action: a function of the parser, one *)
(* turn of a loop, or an optional part.  Skipping loops are one step.  A   *)
(* token that the code does not accept makes it throw, at once and for     *)
(* the whole file.  Locations are left out.                                *)
(***************************************************************************)
EXTENDS Naturals, Sequences, SequencesExt

CONSTANTS Files,       \* lists of tokens, without the END_OF_FILE at their end
          UpperCase    \* the names that begin with an upper case letter

(* A token has a type and a text; only names, numbers and strings need it. *)
IsToken(t) == DOMAIN t = {"type", "text"}

ASSUME FilesAssumption ==
  \A f \in Files : f \in Seq(Range(f)) /\ \A k \in DOMAIN f : IsToken(f[k])

VARIABLES file,        \* tokens; never changes
          current,     \* position of the token at hand
          todo,
          made,
          phase        \* "parsing", "parsed", "refused"

vars == <<file, current, todo, made, phase>>

-----------------------------------------------------------------------------
(* Reading tokens.                                                         *)

EndOfFile == [type |-> "END_OF_FILE", text |-> ""]

Token(p) == IF p \in DOMAIN file THEN file[p] ELSE EndOfFile

TypeAt(p) == Token(p).type

Text(p) == Token(p).text

(* The tokens from current + k on have these types.                        *)
Sees(k, types) ==
  \A i \in DOMAIN types : TypeAt(current + k + i - 1) = types[i]

(* The first position from p on where the skipping stops, at the latest    *)
(* the end of the file.                                                    *)
First(p, Stops(_)) ==
  LET found == {q \in p .. Len(file) : Stops(q)}
  IN  IF p > Len(file) THEN p
      ELSE IF found = {} THEN Len(file) + 1
      ELSE CHOOSE q \in found : \A r \in found : q <= r

Find(p, S) == First(p, LAMBDA q : TypeAt(q) \in S)

(* The position after the token, one of S, that Find finds.                *)
Past(p, S) == LET q == Find(p, S) IN IF TypeAt(q) \in S THEN q + 1 ELSE q

(* Fault: the first closing brace ends the skipping.                       *)
AfterBracesFlat(p) == Past(p, {"RBRACE"})

(* The position after the braces that were opened just before p.           *)
AfterBraces(p) ==
  LET count(t, q) == Cardinality({r \in p .. q : TypeAt(r) = t})
      last == First(p, LAMBDA q : count("RBRACE", q) > count("LBRACE", q))
  IN  IF last > Len(file) THEN last ELSE last + 1

-----------------------------------------------------------------------------
(* Nodes.  A node of a built-in type has the type of its keyword.          *)

(* marks: the flags that are set (isOptional, hasDefault, hasExtension,    *)
(* isParameterized, isTypeField, ...); value: the tokens it is made of;    *)
(* tag: the tag of a type or the tagging environment of a module.          *)
Node(type, name) ==
  [type |-> type, name |-> name, value |-> <<>>, marks |-> {}, tag |-> <<>>,
   params |-> <<>>, kids |-> <<>>]

Leaf(type, p) == Node(type, Text(p))

(* The null pointer that parseAssignment may return.                       *)
Nothing == Node("nothing", "")

Valued(node, p, q) == [node EXCEPT !.value = SubSeq(file, p, q)]

Marked(node, mark) == [node EXCEPT !.marks = @ \cup {mark}]

AddChild(node, kid) == [node EXCEPT !.kids = Append(@, kid)]

Top == Last(made)

Push(node) == Append(made, node)

SetTop(node) == Append(Front(made), node)

(* The innermost node becomes part of the one around it.                   *)
Close(Into(_, _)) ==
  LET outer == Front(made) IN Append(Front(outer), Into(Last(outer), Top))

-----------------------------------------------------------------------------
(* Items.                                                                  *)

(* Consume a token of this type.                                           *)
Skip(type) == <<"token", type>>

(* Do these items if the token at hand is of this type.                    *)
Optional(type, items) == <<"if", type, items>>

Match(type) == Optional(type, <<Skip(type)>>)

Constraint(add) == Optional("LPAREN", <<<<"constraint">>, <<add>>>>)

Parameters == <<Skip("LBRACE"), <<"parameters">>, Skip("RBRACE")>>

Op == Head(todo)[1]

Ends == {"RBRACE", "END_OF_FILE"}

ClassStarts == {"APPLICATION", "UNIVERSAL", "PRIVATE"}

Strings == {"UTF8String", "PrintableString", "VisibleString", "IA5String", "NumericString"}

(* The tokens parseType does not return a null pointer for.                *)
TypeStarts ==
  {"LBRACKET", "SEQUENCE", "SET", "CHOICE", "ENUMERATED", "ANY", "INTEGER",
   "BOOLEAN", "OCTET_STRING", "BIT_STRING", "OBJECT_IDENTIFIER",
   "NULL_KEYWORD", "REAL", "IDENTIFIER"} \cup Strings

HasClass == TypeAt(current + 1) \in ClassStarts

(* The end of the arcs of an object identifier.                            *)
EndOfArcs == First(current, LAMBDA q : TypeAt(q) \notin {"NUMBER", "IDENTIFIER"})

(* The item that is next accepts the token at hand and those after it that *)
(* it takes in the same step; if not, one of its consumes or checks throws.*)
Accepts(item) ==
  LET type == TypeAt(current)
      number(k) == Sees(k, <<"NUMBER">>) \/ Sees(k, <<"MINUS", "NUMBER">>)
      name == Sees(1, <<"DOT">>) => Sees(1, <<"DOT", "AMPERSAND", "IDENTIFIER">>)
  IN  CASE item[1] = "token" -> type = item[2]
        [] item[1] = "word" -> type = "IDENTIFIER" /\ Text(current) = item[2]
        [] item[1] \in {"module", "symbol", "assignment", "member"} -> type = "IDENTIFIER"
        [] item[1] = "from" -> Sees(0, <<"FROM", "IDENTIFIER">>)
        [] item[1] = "enumerator" ->
             type = "IDENTIFIER" /\ (Sees(1, <<"LPAREN">>) => Sees(2, <<"NUMBER", "RPAREN">>))
        [] item[1] = "type" ->
             /\ type \in TypeStarts
             /\ type = "LBRACKET" => Sees(IF HasClass THEN 2 ELSE 1, <<"NUMBER", "RBRACKET">>)
             /\ type = "IDENTIFIER" => name
        [] item[1] = "integer" -> number(0)
        [] item[1] = "bound" -> number(0) \/ (type = "IDENTIFIER" /\ name)
        [] item[1] = "value" ->
             type = "ASSIGNMENT" /\ Top.kids[1].type \in {"IDENTIFIER", "INTEGER", "OBJECT_IDENTIFIER"}
        [] item[1] = "arcs" -> TypeAt(EndOfArcs) = "RBRACE"
        [] item[1] = "presence" ->
             type = "DEFAULT" => number(1) \/ TypeAt(current + 1) \in {"IDENTIFIER", "STRING"}
        [] item[1] = "defined by" -> type = "DEFINED" => Sees(1, <<"BY", "IDENTIFIER">>)
        [] item[1] = "members" -> ~ (type = "ELLIPSIS" /\ "hasExtension" \in Top.marks)
        [] item[1] = "parameters" ->
             /\ type = "AT_SIGN" => Sees(1, <<"IDENTIFIER">>)
             /\ Sees(0, <<"LBRACE", "AT_SIGN">>) => Sees(2, <<"IDENTIFIER">>)
        [] item[1] = "components" -> type \in {"IDENTIFIER", "ELLIPSIS"} \cup Ends
        [] item[1] = "fields" ->
             type \in {"RBRACE", "COMMA"} \/ Sees(0, <<"AMPERSAND", "IDENTIFIER">>)
        [] item[1] = "field end" -> type \in {"RBRACE", "COMMA"}
        [] item[1] = "syntax" -> type = "WITH" => Sees(1, <<"SYNTAX", "LBRACE">>)
        [] item[1] = "object fields" -> type = "AMPERSAND" => Sees(1, <<"IDENTIFIER">>)
        [] OTHER -> TRUE

Doing(op) ==
  phase = "parsing" /\ todo # <<>> /\ Op = op /\ Accepts(Head(todo))

(* Go on at position p with these nodes made and these items to do first.  *)
Proceed(p, nodes, items) ==
  /\ current' = p
  /\ made' = nodes
  /\ todo' = items \o Tail(todo)
  /\ UNCHANGED <<file, phase>>

(* Go on at position p, the item is done.                                  *)
Return(p, nodes) == Proceed(p, nodes, <<>>)

(* The same item again.                                                    *)
Again == <<Head(todo)>>

Init ==
  /\ file \in Files
  /\ current = 1
  /\ todo = <<<<"modules">>>>
  /\ made = <<>>
  /\ phase = "parsing"

Throw ==
  /\ phase = "parsing" /\ todo # <<>> /\ ~ Accepts(Head(todo))
  /\ phase' = "refused"
  /\ UNCHANGED <<file, current, todo, made>>

Finish ==
  /\ phase = "parsing" /\ todo = <<>>
  /\ phase' = "parsed"
  /\ UNCHANGED <<file, current, todo, made>>

Consume == (Doing("token") \/ Doing("word")) /\ Return(current + 1, made)

TakeOption ==
  /\ Doing("if")
  /\ Proceed(current, made, IF TypeAt(current) = Head(todo)[2] THEN Head(todo)[3] ELSE <<>>)

Add ==
  /\ Doing("add")
  /\ Return(current, Close(LAMBDA n, k : IF k = Nothing THEN n ELSE AddChild(n, k)))

(* The element of a list goes before its constraint.                       *)
AddElement ==
  /\ Doing("add element")
  /\ Return(current, Close(LAMBDA n, k : [n EXCEPT !.kids = <<k>> \o @]))

(* A string or an integer is extensible if its constraint is.              *)
AddConstraint ==
  /\ Doing("add constraint")
  /\ Return(current, Close(LAMBDA n, k :
       [AddChild(n, k) EXCEPT !.marks = @ \cup (k.marks \cap {"hasExtension"})]))

-----------------------------------------------------------------------------
(* Modules.                                                                *)

Modules ==
  /\ Doing("modules")
  /\ Proceed(current, made, IF TypeAt(current) = "END_OF_FILE" THEN <<>> ELSE <<<<"module">>>> \o Again)

(* The name, and the object identifier that is skipped.                    *)
Module ==
  LET named == TypeAt(current + 1) = "LBRACE"
  IN  /\ Doing("module")
      /\ Proceed(IF named THEN Find(current + 1, {"RBRACE"}) ELSE current + 1,
                 Push(Leaf("MODULE", current)),
                 (IF named THEN <<Skip("RBRACE")>> ELSE <<>>)
                   \o <<Skip("DEFINITIONS"), <<"header">>, Skip("ASSIGNMENT"), Skip("BEGIN"),
                        Optional("IMPORTS", <<<<"imports">>>>), <<"body">>, Skip("END")>>)

TaggingClause ==
  /\ Doing("header")
  /\ TypeAt(current) \in {"AUTOMATIC", "EXPLICIT", "IMPLICIT"} /\ Sees(1, <<"TAGS">>)
  /\ Proceed(current + 2, SetTop([Top EXCEPT !.tag = <<TypeAt(current)>>]), Again)

ExtensibilityClause ==
  /\ Doing("header")
  /\ Sees(0, <<"EXTENSIBILITY", "IMPLIED">>)
  /\ Proceed(current + 2, SetTop(Marked(Top, "extensibility_implied")), Again)

EndHeader ==
  /\ Doing("header")
  /\ ~ (TypeAt(current) \in {"AUTOMATIC", "EXPLICIT", "IMPLICIT"} /\ Sees(1, <<"TAGS">>))
  /\ ~ Sees(0, <<"EXTENSIBILITY", "IMPLIED">>)
  /\ Return(current, made)

Body ==
  /\ Doing("body")
  /\ Proceed(current, made, IF TypeAt(current) \in {"END", "END_OF_FILE"} THEN <<>>
                            ELSE <<<<"assignment">>, <<"add">>>> \o Again)

Imports ==
  /\ Doing("imports")
  /\ Proceed(current + 1, Push(Node("IMPORTS", "")), <<<<"clauses">>, Skip("SEMICOLON"), <<"add">>>>)

FromClause ==
  /\ Doing("clauses")
  /\ IF TypeAt(current) = "IDENTIFIER"
     THEN Proceed(current, Push(Node("ASSIGNMENT", "")),
                  <<<<"symbol">>, <<"from">>, <<"add">>>> \o Again)
     ELSE Return(current, made)

(* One imported name; braces after it are skipped.                         *)
Symbol ==
  LET next == IF Sees(1, <<"LBRACE">>) THEN Past(current + 2, {"RBRACE"}) ELSE current + 1
      more == TypeAt(next) = "COMMA"
  IN  /\ Doing("symbol")
      /\ Proceed(IF more THEN next + 1 ELSE next,
                 SetTop(AddChild(Top, Leaf("IDENTIFIER", current))),
                 IF more THEN Again ELSE <<>>)

From ==
  /\ Doing("from")
  /\ Return(current + 2, SetTop([Top EXCEPT !.name = Text(current + 1)]))

-----------------------------------------------------------------------------
(* Assignments.                                                            *)

Uppercase == Text(current) \in UpperCase

(* Of each group of formal parameters, which end at commas, the last name. *)
FormalParameters(p, q) ==
  LET last(r) == /\ TypeAt(r) = "IDENTIFIER"
                 /\ TypeAt(Find(r + 1, {"IDENTIFIER", "COMMA", "RBRACE"})) # "IDENTIFIER"
      at == SetToSortSeq({r \in p .. q : last(r)}, <)
  IN  [i \in DOMAIN at |-> Leaf("IDENTIFIER", at[i])]

ParameterizedAssignment ==
  LET close == Find(current + 2, {"RBRACE"})
      node == [Marked(Leaf("ASSIGNMENT", current), "isParameterized")
                 EXCEPT !.params = FormalParameters(current + 2, close - 1)]
  IN  /\ Doing("assignment") /\ Sees(1, <<"LBRACE">>)
      /\ Proceed(close, Push(node), <<Skip("RBRACE"), Skip("ASSIGNMENT"), <<"type">>, <<"add">>>>)

TypeAssignment ==
  /\ Doing("assignment") /\ Uppercase /\ Sees(1, <<"ASSIGNMENT">>)
  /\ Proceed(current + 2, Push(Leaf("ASSIGNMENT", current)),
             <<IF Sees(2, <<"CLASS">>) THEN <<"class">> ELSE <<"type">>, <<"add">>>>)

(* A name in upper case that is not followed by an assignment sign: a set  *)
(* of objects of a class.  Without a sign before END, nothing is returned. *)
SetAssignment ==
  LET class == IF Sees(1, <<"IDENTIFIER">>) THEN <<Leaf("IDENTIFIER", current + 1)>> ELSE <<>>
      sign == Find(current + 1, {"ASSIGNMENT", "END"})
  IN  /\ Doing("assignment") /\ Uppercase
      /\ TypeAt(current + 1) \notin {"LBRACE", "ASSIGNMENT"}
      /\ IF TypeAt(sign) = "ASSIGNMENT"
         THEN Proceed(sign + 1,
                      Push([Leaf("OBJECT_SET_ASSIGNMENT", current) EXCEPT !.kids = class]),
                      <<<<"objects">>>>)
         ELSE Return(sign, Push(Nothing))

ValueAssignment ==
  /\ Doing("assignment") /\ ~ Uppercase /\ TypeAt(current + 1) # "LBRACE"
  /\ Proceed(current + 1, Push(Leaf("VALUE_ASSIGNMENT", current)),
             <<<<"type">>, <<"add">>, <<"value">>>>)

(* Braces that begin with braces or an ellipsis are a set of objects, all  *)
(* others one object, which is skipped.                                    *)
Objects ==
  /\ Doing("objects")
  /\ IF Sees(0, <<"LBRACE">>) /\ TypeAt(current + 1) \in {"LBRACE", "ELLIPSIS"}
     THEN Proceed(current + 1, Push(Node("VALUE_NODE", "OBJECT_SET")),
                  <<<<"object">>, Skip("RBRACE"), <<"add">>>>)
     ELSE Return(IF Sees(0, <<"LBRACE">>) THEN AfterBraces(current + 1) ELSE current, made)

(* The value of a type that is a name is an object, a set or a number.     *)
Value ==
  LET type == Top.kids[1].type
  IN  /\ Doing("value")
      /\ IF type = "IDENTIFIER" /\ Sees(1, <<"LBRACE">>)
         THEN Proceed(current + 1, SetTop([Top EXCEPT !.type = "OBJECT_SET_ASSIGNMENT"]), <<<<"objects">>>>)
         ELSE Proceed(current + 1, made,
                      (IF type = "OBJECT_IDENTIFIER" THEN <<Skip("LBRACE"), <<"arcs">>, Skip("RBRACE")>>
                       ELSE <<<<"integer">>>>) \o <<<<"add">>>>)

NumberEnd == IF TypeAt(current) = "MINUS" THEN current + 1 ELSE current

IntegerValue ==
  /\ Doing("integer")
  /\ Return(NumberEnd + 1, Push(Valued(Node("VALUE_NODE", "INTEGER_VALUE"), current, NumberEnd)))

Arcs ==
  /\ Doing("arcs")
  /\ Return(EndOfArcs, Push(Valued(Node("VALUE_NODE", "OID_VALUE"), current, EndOfArcs - 1)))

-----------------------------------------------------------------------------
(* Types.                                                                  *)

(* The tag outside replaces a tag inside.                                  *)
TaggedType ==
  LET number == IF HasClass THEN current + 2 ELSE current + 1
      class == IF HasClass THEN TypeAt(current + 1) ELSE "CONTEXT_SPECIFIC"
      hasMode == TypeAt(number + 2) \in {"IMPLICIT", "EXPLICIT"}
      mode == IF hasMode THEN TypeAt(number + 2) ELSE "IMPLICIT"
  IN  /\ Doing("type") /\ TypeAt(current) = "LBRACKET"
      /\ Proceed(number + (IF hasMode THEN 3 ELSE 2),
                 Push([Node("TAG", "") EXCEPT !.tag = <<class, Text(number), mode>>]),
                 <<<<"type">>, <<"tag">>>>)

SetTag ==
  /\ Doing("tag")
  /\ Return(current, Close(LAMBDA n, k : [k EXCEPT !.tag = n.tag]))

(* What follows the keyword of a built-in type.                            *)
AfterKeyword(type) ==
  CASE type \in {"SEQUENCE_OF", "SET_OF"} ->
         <<Constraint("add"), Skip("OF"), <<"type">>, <<"add element">>>>
    [] type \in {"SEQUENCE", "SET", "CHOICE"} ->
         <<Skip("LBRACE"), <<"members", "member">>, Skip("RBRACE")>>
    [] type = "ENUMERATED" ->
         <<Skip("LBRACE"), <<"members", "enumerator">>, Skip("RBRACE")>>
    [] type \in {"OCTET_STRING", "BIT_STRING"} ->
         <<<<"word", "STRING">>, Constraint("add constraint")>>
    [] type = "INTEGER" -> <<Optional("LBRACE", <<<<"named numbers">>>>), Constraint("add constraint")>>
    [] type = "OBJECT_IDENTIFIER" -> <<<<"word", "IDENTIFIER">>>>
    [] type = "ANY" -> <<<<"defined by">>>>
    [] type \in Strings -> <<Constraint("add")>>
    [] OTHER -> <<>>

BuiltInType ==
  LET keyword == TypeAt(current)
      type == IF keyword \in {"SEQUENCE", "SET"} /\ ~ Sees(1, <<"LBRACE">>)
              THEN keyword \o "_OF" ELSE keyword
  IN  /\ Doing("type") /\ keyword \notin {"LBRACKET", "IDENTIFIER"}
      /\ Proceed(current + 1, Push(Node(type, "")), AfterKeyword(type))

(* The names of numbers are skipped.                                       *)
NamedNumbers ==
  Doing("named numbers") /\ Return(AfterBraces(current + 1), made)

DefinedBy ==
  /\ Doing("defined by")
  /\ IF TypeAt(current) = "DEFINED"
     THEN Return(current + 3, SetTop(Valued(Top, current + 2, current + 2)))
     ELSE Return(current, made)

(* A name, or a field of an information object class.                      *)
Reference(p) ==
  IF TypeAt(p + 1) = "DOT" THEN Valued(Leaf("FIELD_REFERENCE", p), p + 3, p + 3)
  ELSE Leaf("IDENTIFIER", p)

AfterReference(p) == IF TypeAt(p + 1) = "DOT" THEN p + 4 ELSE p + 1

ReferencedType ==
  LET node == Reference(current)
  IN  /\ Doing("type") /\ TypeAt(current) = "IDENTIFIER"
      /\ Proceed(AfterReference(current), Push(node),
                 <<Optional("LBRACE", Parameters),
                   IF node.type = "FIELD_REFERENCE"
                   THEN Optional("LPAREN", <<Skip("LPAREN"), <<"table">>, Skip("RPAREN")>>)
                   ELSE Constraint("add")>>)

(* A table constraint: braces with the parameters.                         *)
Table ==
  /\ Doing("table")
  /\ Proceed(current, made, IF TypeAt(current) = "LBRACE" THEN Parameters \o Again ELSE <<>>)

(* The parameter that begins at p, if one does.                            *)
ParameterAt(p) ==
  CASE TypeAt(p) = "AT_SIGN" -> <<Leaf("RELATIVE_REFERENCE", p + 1)>>
    [] TypeAt(p) = "IDENTIFIER" -> <<Leaf("IDENTIFIER", p)>>
    [] OTHER -> <<>>

(* Fault: what is no parameter is not skipped.                             *)
AfterParameterStuck(p) ==
  CASE TypeAt(p) = "LBRACE" -> Past(p + 1, {"RBRACE"})
    [] TypeAt(p) = "AT_SIGN" -> p + 2
    [] TypeAt(p) = "IDENTIFIER" -> p + 1
    [] OTHER -> p

AfterParameter(p) ==
  CASE TypeAt(p) = "LBRACE" -> Past(p + 1, {"RBRACE"})
    [] TypeAt(p) = "AT_SIGN" -> p + 2
    [] OTHER -> p + 1

(* Of braces within braces only the beginning is a parameter.              *)
Parameter ==
  LET first == IF TypeAt(current) = "LBRACE" THEN current + 1 ELSE current
  IN  /\ Doing("parameters") /\ TypeAt(current) \notin Ends
      /\ Proceed(AfterParameter(current), SetTop([Top EXCEPT !.params = @ \o ParameterAt(first)]), Again)

EndParameters == Doing("parameters") /\ TypeAt(current) \in Ends /\ Return(current, made)

-----------------------------------------------------------------------------
(* Members of SEQUENCE, SET and CHOICE, and enumerators.                   *)

AfterComma(p) == IF TypeAt(p) = "COMMA" THEN p + 1 ELSE p

(* Version brackets leave no trace.                                        *)
VersionBracket ==
  /\ Doing("members") /\ TypeAt(current) \in {"LDBRACKET", "RDBRACKET"}
  /\ Proceed(AfterComma(current + 1), made, Again)

ExtensionMarker ==
  /\ Doing("members") /\ TypeAt(current) = "ELLIPSIS"
  /\ Proceed(AfterComma(current + 1),
             SetTop(Marked(AddChild(Top, Node("EXTENSION_MARKER", "")), "hasExtension")), Again)

(* A comma after a member may be left out.                                 *)
NextMember ==
  /\ Doing("members")
  /\ TypeAt(current) \notin {"LDBRACKET", "RDBRACKET", "ELLIPSIS"} \cup Ends
  /\ Proceed(current, made, <<<<Head(todo)[2]>>, <<"add">>, Match("COMMA")>> \o Again)

EndMembers == Doing("members") /\ TypeAt(current) \in Ends /\ Return(current, made)

Member ==
  /\ Doing("member")
  /\ Proceed(current + 1, Push(Leaf("ASSIGNMENT", current)),
             <<<<"type">>, <<"add">>, <<"presence">>>>)

Presence ==
  /\ Doing("presence")
  /\ LET last == IF Sees(1, <<"MINUS">>) THEN current + 2 ELSE current + 1
     IN  CASE TypeAt(current) = "OPTIONAL" -> Return(current + 1, SetTop(Marked(Top, "isOptional")))
           [] TypeAt(current) = "DEFAULT" ->
                Return(last + 1, SetTop(Marked(Valued(Top, current + 1, last), "hasDefault")))
           [] OTHER -> Return(current, made)

Enumerator ==
  /\ Doing("enumerator")
  /\ IF Sees(1, <<"LPAREN">>)
     THEN Return(current + 4, Push(Valued(Leaf("ASSIGNMENT", current), current + 2, current + 2)))
     ELSE Return(current + 1, Push(Leaf("ASSIGNMENT", current)))

-----------------------------------------------------------------------------
(* Constraints.                                                            *)

(* The kind of the constraint in parentheses, and what they contain.  A    *)
(* field that no range follows is a table constraint.                      *)
ConstraintAt(p) ==
  LET range == <<<<"bound">>, <<"to">>>>
      table == TypeAt(p + 2) = "DOT" /\ TypeAt(p + 5) # "DOTDOT"
  IN  CASE TypeAt(p + 1) = "SIZE" ->
             <<"SizeRange", <<Skip("SIZE"), Skip("LPAREN")>> \o range \o <<<<"marker">>, Skip("RPAREN")>>>>
        [] TypeAt(p + 1) = "WITH" ->
             <<"WithComponents", <<Skip("WITH"), Skip("COMPONENTS"), Skip("LBRACE"), <<"components">>, Skip("RBRACE")>>>>
        [] TypeAt(p + 1) = "CONTAINING" ->
             <<"Containing", <<Skip("CONTAINING"), <<"type">>, <<"add">>>>>>
        [] TypeAt(p + 1) = "IDENTIFIER" /\ table -> <<"TableConstraint", <<<<"bound">>>>>>
        [] OTHER -> <<"ValueRange", range>>

BeginConstraint ==
  /\ Doing("constraint")
  /\ LET c == ConstraintAt(current)
     IN  Proceed(current + 1, Push(Node("CONSTRAINT", c[1])), c[2] \o <<<<"marker">>, Skip("RPAREN")>>)

BoundNode ==
  IF TypeAt(current) = "IDENTIFIER" THEN Reference(current)
  ELSE Valued(Node("VALUE_NODE", "NUMBER_LITERAL"), current, NumberEnd)

AfterBound == IF TypeAt(current) = "IDENTIFIER" THEN AfterReference(current) ELSE NumberEnd + 1

(* Fault: the bound that was read to look ahead stays in the constraint.   *)
BoundTwice ==
  Doing("bound") /\ Return(AfterBound, SetTop(AddChild(AddChild(Top, BoundNode), BoundNode)))

Bound == Doing("bound") /\ Return(AfterBound, SetTop(AddChild(Top, BoundNode)))

UpperBound ==
  /\ Doing("to")
  /\ Proceed(current, made, IF TypeAt(current) = "DOTDOT" THEN <<Skip("DOTDOT"), <<"bound">>>> ELSE <<>>)

(* ", ..." before the closing parenthesis.                                 *)
Marker ==
  /\ Doing("marker")
  /\ IF Sees(0, <<"COMMA", "ELLIPSIS">>)
     THEN Return(current + 2, SetTop(Marked(Top, "hasExtension")))
     ELSE Return(AfterComma(current), made)

Component ==
  /\ Doing("components")
  /\ TypeAt(current) \notin Ends
  /\ Proceed(AfterComma(current + 1),
             SetTop(IF TypeAt(current) = "ELLIPSIS" THEN Marked(Top, "hasExtension")
                    ELSE AddChild(Top, Leaf("IDENTIFIER", current))),
             IF Sees(1, <<"COMMA">>) THEN Again ELSE <<>>)

EndComponents == Doing("components") /\ TypeAt(current) \in Ends /\ Return(current, made)

-----------------------------------------------------------------------------
(* Information object classes and object sets.                             *)

Class ==
  /\ Doing("class")
  /\ Proceed(current + 1, Push(Node("CLASS_DEFINITION", "")),
             <<Skip("LBRACE"), <<"fields">>, Skip("RBRACE"), <<"syntax">>>>)

TypeField == AddChild(Marked(Leaf("ASSIGNMENT", current + 1), "isTypeField"), Node("IDENTIFIER", "TYPE"))

(* A field without a type is an open type.                                 *)
Field ==
  LET bare == TypeAt(current + 2) \notin TypeStarts
      modifiers == <<<<"modifiers">>, <<"add">>, <<"field end">>>>
  IN  /\ Doing("fields") /\ TypeAt(current) = "AMPERSAND"
      /\ Proceed(current + 2,
                 Push(IF bare THEN TypeField ELSE Leaf("ASSIGNMENT", current + 1)),
                 (IF bare THEN <<>> ELSE <<<<"type">>, <<"add field type">>>>) \o modifiers \o Again)

AddFieldType ==
  /\ Doing("add field type")
  /\ Return(current, Close(LAMBDA n, k :
       IF k.type = "IDENTIFIER" /\ k.name = "TYPE" THEN Marked(AddChild(n, k), "isTypeField")
       ELSE AddChild(n, k)))

(* UNIQUE and the one token of a default leave no trace.                   *)
Modifiers ==
  LET p == IF Sees(0, <<"UNIQUE">>) THEN current + 1 ELSE current
      optional == TypeAt(p) = "OPTIONAL"
      q == IF optional THEN p + 1 ELSE p
      next == CASE TypeAt(q) # "DEFAULT" -> q
                [] TypeAt(q + 1) \in {"COMMA", "RBRACE"} -> q + 1
                [] OTHER -> q + 2
  IN  /\ Doing("modifiers")
      /\ Return(next, IF optional THEN SetTop(Marked(Top, "isOptional")) ELSE made)

FieldEnd == Doing("field end") /\ Return(AfterComma(current), made)

EmptyField ==
  /\ Doing("fields") /\ TypeAt(current) = "COMMA"
  /\ Proceed(current + 1, made, Again)

EndFields == Doing("fields") /\ TypeAt(current) = "RBRACE" /\ Return(current, made)

(* WITH SYNTAX is skipped.                                                 *)
Syntax ==
  /\ Doing("syntax")
  /\ Return(IF Sees(0, <<"WITH">>) THEN AfterBraces(current + 3) ELSE current, made)

IsId(p) == TypeAt(p) = "IDENTIFIER" /\ Text(p) = "ID"

(* One element of an object set.  An object is given by its fields, or     *)
(* with the keywords ID, CRITICALITY, TYPE and PRESENCE; other braces, and *)
(* what is no name, are skipped.                                           *)
ObjectInSet ==
  LET object(items) ==
        Proceed(current + 1, Push(Node("OBJECT_DEFINITION", "OBJECT")),
                items \o <<Match("RBRACE"), <<"add">>, <<"separator">>>> \o Again)
      skipTo(p, nodes) == Proceed(p, nodes, <<<<"separator">>>> \o Again)
      type == TypeAt(current)
  IN  /\ Doing("object") /\ type \notin Ends
      /\ CASE Sees(0, <<"LBRACE", "AMPERSAND">>) -> object(<<<<"object fields">>>>)
           [] type = "LBRACE" /\ IsId(current + 1) -> object(<<<<"syntax fields", "">>>>)
           [] type = "LBRACE" /\ ~ Sees(1, <<"AMPERSAND">>) /\ ~ IsId(current + 1) ->
                skipTo(AfterBraces(current + 1), made)
           [] type = "IDENTIFIER" ->
                skipTo(current + 1, SetTop(AddChild(Top, Leaf("IDENTIFIER", current))))
           [] OTHER -> skipTo(current + 1, made)

EndObjects == Doing("object") /\ TypeAt(current) \in Ends /\ Return(current, made)

Separator ==
  /\ Doing("separator")
  /\ Return(IF TypeAt(current) \in {"COMMA", "PIPE"} THEN current + 1 ELSE current, made)

(* "& name value"; the fields end where no comma follows.                  *)
ObjectField ==
  /\ Doing("object fields") /\ TypeAt(current) = "AMPERSAND"
  /\ Proceed(current + 2, Push(Leaf("ASSIGNMENT", current + 1)),
             <<IF TypeAt(current + 2) \in TypeStarts THEN <<"type">> ELSE <<"integer">>,
               <<"add">>, <<"add">>, Optional("COMMA", <<Skip("COMMA"), <<"object fields">>>>)>>)

NoObjectField ==
  /\ Doing("object fields") /\ TypeAt(current) # "AMPERSAND"
  /\ Proceed(current, made, <<Optional("COMMA", <<Skip("COMMA"), <<"object fields">>>>)>>)

SyntaxFields == [ID |-> "id", CRITICALITY |-> "criticality", TYPE |-> "Value", PRESENCE |-> "presence"]

IsSyntaxWord(p) == TypeAt(p) = "IDENTIFIER" /\ Text(p) \in DOMAIN SyntaxFields

SyntaxWord ==
  /\ Doing("syntax fields") /\ IsSyntaxWord(current)
  /\ Proceed(current + 1, made, <<<<"syntax fields", Text(current)>>>>)

(* The value of a field is one name; after a type, everything up to the    *)
(* next keyword is skipped.                                                *)
SyntaxValue ==
  LET field == Head(todo)[2]
      next == IF field = "TYPE" THEN First(current + 1, LAMBDA q : TypeAt(q) = "RBRACE" \/ IsSyntaxWord(q))
              ELSE current + 1
  IN  /\ Doing("syntax fields")
      /\ TypeAt(current) = "IDENTIFIER" /\ ~ IsSyntaxWord(current) /\ field # ""
      /\ Proceed(next,
                 SetTop(AddChild(Top, AddChild(Node("ASSIGNMENT", SyntaxFields[field]),
                                               Leaf("VALUE_NODE", current)))),
                 <<<<"syntax fields", "">>>>)

SkipInSyntax ==
  /\ Doing("syntax fields") /\ TypeAt(current) \notin Ends
  /\ ~ IsSyntaxWord(current) /\ ~ (TypeAt(current) = "IDENTIFIER" /\ Head(todo)[2] # "")
  /\ Proceed(current + 1, made, Again)

EndSyntaxFields == Doing("syntax fields") /\ TypeAt(current) \in Ends /\ Return(current, made)

-----------------------------------------------------------------------------

Next ==
  \/ Throw \/ Finish \/ Consume \/ TakeOption \/ Add \/ AddElement \/ AddConstraint
  \/ Modules \/ Module \/ TaggingClause \/ ExtensibilityClause \/ EndHeader \/ Body
  \/ Imports \/ FromClause \/ Symbol \/ From
  \/ ParameterizedAssignment \/ TypeAssignment \/ SetAssignment \/ ValueAssignment
  \/ Objects \/ Value \/ IntegerValue \/ Arcs
  \/ TaggedType \/ SetTag \/ BuiltInType \/ NamedNumbers \/ DefinedBy \/ ReferencedType
  \/ Table \/ Parameter \/ EndParameters
  \/ VersionBracket \/ ExtensionMarker \/ NextMember \/ EndMembers
  \/ Member \/ Presence \/ Enumerator
  \/ BeginConstraint \/ Bound \/ UpperBound \/ Marker \/ Component \/ EndComponents
  \/ Class \/ Field \/ AddFieldType \/ Modifiers \/ FieldEnd \/ EmptyField \/ EndFields \/ Syntax
  \/ ObjectInSet \/ EndObjects \/ Separator \/ ObjectField \/ NoObjectField
  \/ SyntaxWord \/ SyntaxValue \/ SkipInSyntax \/ EndSyntaxFields

Spec == Init /\ [][Next]_vars

(* The parser is called once and runs until it returns or throws.          *)
FairSpec == Spec /\ WF_vars(Next)

-----------------------------------------------------------------------------
(* Properties.                                                             *)

(* Every list of tokens is parsed or refused: no loop waits for a token    *)
(* that the file does not have.                                            *)
Termination == <>(phase \in {"parsed", "refused"})

=============================================================================
