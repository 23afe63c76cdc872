------------------------------ MODULE MCParser ------------------------------
(***************************************************************************)
(* Instances of Parser for TLC.  Files are made in three ways: trees are   *)
(* written as text, text is damaged, and tokens are put together at will.  *)
(***************************************************************************)
EXTENDS Parser, TLC

(***************************************************************************)
(* The text of a tree, in two styles: plainly, or with everything that the *)
(* parser skips or ignores (loose).                                        *)
(***************************************************************************)
K(type) == <<[type |-> type, text |-> ""]>>

Nm(s) == <<[type |-> "IDENTIFIER", text |-> s]>>

Number(s) == [type |-> "NUMBER", text |-> s]

Within(open, s, close) == K(open) \o s \o K(close)

Braces(s) == Within("LBRACE", s, "RBRACE")

When(c, s) == IF c THEN s ELSE <<>>

Joined(ss, sep) ==
  FlattenSeq([i \in DOMAIN ss |-> IF i = 1 THEN ss[i] ELSE sep \o ss[i]])

Has(n, mark) == mark \in n.marks

Param(p) == When(p.type = "RELATIVE_REFERENCE", K("AT_SIGN")) \o Nm(p.name)

(* A bound, or a name without parameters.                                  *)
Atom(n) ==
  CASE n.type = "IDENTIFIER" -> Nm(n.name)
    [] n.type = "FIELD_REFERENCE" -> Nm(n.name) \o K("DOT") \o K("AMPERSAND") \o n.value
    [] OTHER -> n.value

Presences(m) ==
  When(Has(m, "isOptional"), K("OPTIONAL")) \o When(Has(m, "hasDefault"), K("DEFAULT") \o m.value)

RECURSIVE Shown(_, _)

ConstraintShown(n, loose) ==
  LET bounds == Joined([k \in DOMAIN n.kids |-> Atom(n.kids[k])], K("DOTDOT"))
      marker == When(Has(n, "hasExtension"), K("COMMA") \o K("ELLIPSIS"))
      names == [k \in DOMAIN n.kids |-> Nm(n.kids[k].name)]
      dots == When(Has(n, "hasExtension"), <<K("ELLIPSIS")>>)
  IN  Within("LPAREN",
        CASE n.name = "SizeRange" ->
               K("SIZE") \o Within("LPAREN", bounds \o When(~ loose, marker), "RPAREN") \o When(loose, marker)
          [] n.name = "WithComponents" ->
               K("WITH") \o K("COMPONENTS")
                 \o Braces(Joined(IF loose THEN dots \o names ELSE names \o dots, K("COMMA")))
          [] n.name = "Containing" -> K("CONTAINING") \o Shown(n.kids[1], loose) \o marker
          [] OTHER -> bounds \o marker,
        "RPAREN")

(* Members; what follows the marker is an addition.  In the loose style    *)
(* members have no commas and additions have version brackets.             *)
MembersShown(n, loose, Member1(_)) ==
  LET comma == When(~ loose, K("COMMA"))
      show(m) == IF m.type = "EXTENSION_MARKER" THEN K("ELLIPSIS")
                 ELSE When(loose /\ Has(n, "hasExtension"), K("LDBRACKET"))
                        \o Member1(m) \o When(loose /\ Has(n, "hasExtension"), K("RDBRACKET"))
  IN  Braces(Joined([k \in DOMAIN n.kids |-> show(n.kids[k])], comma))

TagShown(n, loose) ==
  IF n.tag = <<>> THEN <<>>
  ELSE Within("LBRACKET",
              When(n.tag[1] # "CONTEXT_SPECIFIC", K(n.tag[1])) \o <<Number(n.tag[2])>>, "RBRACKET")
         \o When(loose \/ n.tag[3] # "IMPLICIT", K(n.tag[3]))

Shown(n, loose) ==
  LET kid(k) == When(k \in DOMAIN n.kids, Shown(n.kids[k], loose))
      member(m) == Nm(m.name) \o Shown(m.kids[1], loose) \o Presences(m)
      enumerator(m) == Nm(m.name) \o When(m.value # <<>>, Within("LPAREN", m.value, "RPAREN"))
      params == [k \in DOMAIN n.params |-> Param(n.params[k])]
      groups == FlattenSeq([k \in DOMAIN n.params |-> Braces(params[k])])
  IN  TagShown(n, loose) \o
      CASE n.type = "CONSTRAINT" -> ConstraintShown(n, loose)
        [] n.type \in {"SEQUENCE", "SET", "CHOICE"} -> K(n.type) \o MembersShown(n, loose, member)
        [] n.type = "ENUMERATED" -> K(n.type) \o MembersShown(n, loose, enumerator)
        [] n.type = "SEQUENCE_OF" -> K("SEQUENCE") \o kid(2) \o K("OF") \o kid(1)
        [] n.type = "SET_OF" -> K("SET") \o kid(2) \o K("OF") \o kid(1)
        [] n.type \in {"OCTET_STRING", "BIT_STRING"} -> K(n.type) \o Nm("STRING") \o kid(1)
        [] n.type = "OBJECT_IDENTIFIER" -> K(n.type) \o Nm("IDENTIFIER")
        [] n.type = "ANY" -> K(n.type) \o When(n.value # <<>>, K("DEFINED") \o K("BY") \o n.value)
        [] n.type = "INTEGER" ->
             K(n.type) \o When(loose, Braces(Nm("zero") \o Within("LPAREN", <<Number("0")>>, "RPAREN"))) \o kid(1)
        [] n.type = "FIELD_REFERENCE" ->
             Atom(n) \o When(params # <<>>, Within("LPAREN", groups, "RPAREN"))
        [] n.type = "IDENTIFIER" ->
             Nm(n.name)
               \o When(params # <<>>, Braces(IF loose THEN groups ELSE Joined(params, K("COMMA"))))
               \o kid(1)
        [] OTHER -> K(n.type) \o kid(1)

FieldShown(f, loose) ==
  K("AMPERSAND") \o Nm(f.name)
    \o When(loose \/ ~ Has(f, "isTypeField"), Shown(f.kids[1], FALSE))
    \o When(loose, K("UNIQUE")) \o Presences(f) \o When(loose, K("DEFAULT") \o Nm("ignore"))

ClassShown(n, loose) ==
  K("CLASS") \o Braces(Joined([k \in DOMAIN n.kids |-> FieldShown(n.kids[k], loose)], K("COMMA")))
    \o When(loose, K("WITH") \o K("SYNTAX") \o Braces(Nm("ID") \o Braces(K("AMPERSAND") \o Nm("id"))))

SyntaxName(field) == CHOOSE w \in DOMAIN SyntaxFields : SyntaxFields[w] = field

(* An object with its fields, or with keywords if the values are names.    *)
ObjectShown(n, loose) ==
  LET value(f) == f.kids[1]
      isName(f) == value(f).type = "VALUE_NODE" /\ value(f).value = <<>>
      words(f) == Nm(SyntaxName(f.name)) \o Nm(value(f).name)
                    \o When(loose /\ f.name = "Value", Within("LPAREN", K("CONTAINING") \o Nm("x"), "RPAREN"))
      field(f) == K("AMPERSAND") \o Nm(f.name)
                    \o (IF value(f).type = "VALUE_NODE" THEN value(f).value ELSE Shown(value(f), FALSE))
  IN  IF n.type = "IDENTIFIER" THEN Nm(n.name)
      ELSE IF n.kids # <<>> /\ isName(n.kids[1])
      THEN Braces(FlattenSeq([k \in DOMAIN n.kids |-> words(n.kids[k])]))
      ELSE Braces(Joined([k \in DOMAIN n.kids |-> field(n.kids[k])], K("COMMA")))

ObjectsShown(n, loose) ==
  Braces(When(loose, K("ELLIPSIS") \o K("COMMA"))
           \o Joined([k \in DOMAIN n.kids |-> ObjectShown(n.kids[k], loose)],
                     IF loose THEN K("PIPE") ELSE K("COMMA")))

FromShown(n, loose) ==
  Joined([k \in DOMAIN n.kids |-> Nm(n.kids[k].name) \o When(loose, Braces(<<>>))], K("COMMA"))
    \o K("FROM") \o Nm(n.name)

AssignmentShown(n, loose) ==
  LET sign == K("ASSIGNMENT")
      formals == [k \in DOMAIN n.params |-> When(loose, Nm("Class")) \o Param(n.params[k])]
      body == IF n.kids # <<>> /\ Last(n.kids).name = "OBJECT_SET" THEN ObjectsShown(Last(n.kids), loose)
              ELSE Braces(When(loose, Nm("INITIATING") \o Braces(Nm("x"))))
  IN  CASE n.type = "IMPORTS" ->
             K("IMPORTS") \o FlattenSeq([k \in DOMAIN n.kids |-> FromShown(n.kids[k], loose)]) \o K("SEMICOLON")
        [] n.type = "VALUE_ASSIGNMENT" ->
             Nm(n.name) \o Shown(n.kids[1], FALSE) \o sign
               \o (IF n.kids[2].name = "OID_VALUE" THEN Braces(n.kids[2].value) ELSE n.kids[2].value)
        [] n.type = "OBJECT_SET_ASSIGNMENT" ->
             Nm(n.name) \o When(n.kids # <<>> /\ n.kids[1].name # "OBJECT_SET", Shown(n.kids[1], FALSE)) \o sign \o body
        [] n.kids[1].type = "CLASS_DEFINITION" -> Nm(n.name) \o sign \o ClassShown(n.kids[1], loose)
        [] OTHER ->
             Nm(n.name) \o When(Has(n, "isParameterized"), Braces(Joined(formals, K("COMMA"))))
               \o sign \o Shown(n.kids[1], loose)

ModuleShown(n, loose) ==
  LET tags == When(n.tag # <<>>, K(n.tag[1]) \o K("TAGS"))
      implied == When(Has(n, "extensibility_implied"), K("EXTENSIBILITY") \o K("IMPLIED"))
  IN  Nm(n.name) \o When(loose, Braces(Nm("iso") \o <<Number("1")>>)) \o K("DEFINITIONS")
        \o (IF loose THEN implied \o tags ELSE tags \o implied) \o K("ASSIGNMENT") \o K("BEGIN")
        \o FlattenSeq([k \in DOMAIN n.kids |-> AssignmentShown(n.kids[k], loose)]) \o K("END")

FileShown(ms, loose) == FlattenSeq([k \in DOMAIN ms |-> ModuleShown(ms[k], loose)])

-----------------------------------------------------------------------------
(* Trees.                                                                  *)

Of(type, kids) == [Node(type, "") EXCEPT !.kids = kids]

Named(type, name, kids) == [Node(type, name) EXCEPT !.kids = kids]

Digit(s) == [Node("VALUE_NODE", "NUMBER_LITERAL") EXCEPT !.value = <<Number(s)>>]

Minus(n) == [n EXCEPT !.value = K("MINUS") \o @]

Ref(x) == Node("IDENTIFIER", x)

AnyField == [Node("FIELD_REFERENCE", "C") EXCEPT !.value = Nm("id")]

(* Constraints, and the types that take them.                              *)
Ranges == {<<Digit("1")>>, <<Minus(Digit("1")), Digit("2")>>, <<Ref("lb"), AnyField>>, <<AnyField, Digit("2")>>}

Sizes == {Named("CONSTRAINT", "SizeRange", r) : r \in Ranges}

Values == {Named("CONSTRAINT", "ValueRange", r) : r \in Ranges}

Extensible(cs) == cs \cup {Marked(c, "hasExtension") : c \in cs}

Inherits(t) == IF Has(t.kids[1], "hasExtension") THEN Marked(t, "hasExtension") ELSE t

Others ==
  {Named("CONSTRAINT", "WithComponents", <<Ref("a"), Ref("b")>>),
   Named("CONSTRAINT", "WithComponents", <<>>),
   Named("CONSTRAINT", "Containing", <<Of("SEQUENCE_OF", <<Of("NULL_KEYWORD", <<>>)>>)>>),
   Named("CONSTRAINT", "TableConstraint", <<AnyField>>)}

Constrained ==
  {Inherits(Of(t, <<c>>)) : t \in {"OCTET_STRING", "BIT_STRING"}, c \in Extensible(Sizes)}
    \cup {Inherits(Of("INTEGER", <<c>>)) : c \in Extensible(Values)}
    \cup {Of("UTF8String", <<c>>) : c \in Extensible(Sizes)}
    \cup {Of("IDENTIFIER", <<c>>) : c \in Extensible(Others)}
    \cup {Of(t, <<Of("BOOLEAN", <<>>), c>>) : t \in {"SEQUENCE_OF", "SET_OF"}, c \in Extensible(Sizes)}

Name(t) == IF t.type = "IDENTIFIER" THEN [t EXCEPT !.name = "T"] ELSE t

Formal(ts) == {[t EXCEPT !.params = p] : t \in ts, p \in {<<>>, <<Ref("x")>>, <<Ref("x"), Node("RELATIVE_REFERENCE", "f")>>}}

Simple ==
  {Of(t, <<>>) : t \in {"BOOLEAN", "INTEGER", "NULL_KEYWORD", "REAL", "IA5String",
                        "OCTET_STRING", "OBJECT_IDENTIFIER", "ANY"}}
    \cup {[Node("ANY", "") EXCEPT !.value = Nm("a")]}
    \cup Formal({Ref("T"), AnyField})

Tags == {<<>>} \cup ({"CONTEXT_SPECIFIC", "APPLICATION"} \X {"1"} \X {"IMPLICIT", "EXPLICIT"})

Tagged == {[t EXCEPT !.tag = g] : t \in {Of("BOOLEAN", <<>>), Ref("T")}, g \in Tags}

Leaves == Simple \cup Tagged \cup {Name(t) : t \in Constrained}

(* Members.                                                                *)
Dots == Node("EXTENSION_MARKER", "")

MemberOf(x, t) == Named("ASSIGNMENT", x, <<t>>)

Defaults == {<<Number("1")>>, K("MINUS") \o <<Number("1")>>, Nm("lb"), <<[type |-> "STRING", text |-> "s"]>>}

WithPresence(m) ==
  {m, Marked(m, "isOptional")} \cup {[Marked(m, "hasDefault") EXCEPT !.value = v] : v \in Defaults}

Extended(n) == IF Dots \in Range(n.kids) THEN Marked(n, "hasExtension") ELSE n

MemberLists ==
  LET as == WithPresence(MemberOf("a", Of("INTEGER", <<>>)))
      bs == {MemberOf("b", Ref("T"))}
  IN  {<<>>, <<Dots>>} \cup {<<a>> : a \in as}
        \cup UNION {{<<a, b>>, <<a, Dots, b>>, <<a, b, Dots>>} : a \in as, b \in bs}

Enumerators ==
  {<<Node("ASSIGNMENT", "e")>>,
   <<[Node("ASSIGNMENT", "e") EXCEPT !.value = <<Number("1")>>], Dots, Node("ASSIGNMENT", "f")>>}

Composite ==
  {Extended(Of(t, ms)) : t \in {"SEQUENCE", "SET", "CHOICE"}, ms \in MemberLists}
    \cup {Extended(Of("ENUMERATED", es)) : es \in Enumerators}
    \cup {Of("SEQUENCE", <<MemberOf("a", Of("CHOICE", <<MemberOf("b", Of("SET_OF", <<t>>))>>)), MemberOf("c", t)>>) :
            t \in Leaves}

Integer(s) == [Node("VALUE_NODE", "INTEGER_VALUE") EXCEPT !.value = <<Number(s)>>]

(* Classes, objects and values.                                            *)
FieldsOf ==
  LET field(n, t, marks) == [MemberOf(n, t) EXCEPT !.marks = marks]
      ids == {field("id", Of("INTEGER", <<>>), marks) : marks \in SUBSET {"isOptional"}}
      types == {field("Type", Ref("TYPE"), {"isTypeField"} \cup marks) : marks \in SUBSET {"isOptional"}}
  IN  {<<i, t>> : i \in ids, t \in types} \cup {<<t, i>> : i \in ids, t \in types}

InSyntax(fields) ==
  Named("OBJECT_DEFINITION", "OBJECT",
        [k \in DOMAIN fields |-> MemberOf(fields[k][1], Node("VALUE_NODE", fields[k][2]))])

InFields(vs) ==
  Named("OBJECT_DEFINITION", "OBJECT",
        [k \in DOMAIN vs |-> MemberOf(IF k = 1 THEN "id" ELSE "Type", vs[k])])

AnObject ==
  {InSyntax(<<<<"id", "a">>, <<"criticality", "b">>, <<"Value", "T">>, <<"presence", "c">>>>),
   InSyntax(<<<<"id", "a">>, <<"Value", "T">>>>),
   InFields(<<Integer("1"), Of("INTEGER", <<>>)>>), InFields(<<Minus(Integer("1"))>>), InFields(<<Ref("T")>>)}

Bodies(firsts) == {Named("VALUE_NODE", "OBJECT_SET", <<a>>) : a \in firsts}
                    \cup {Named("VALUE_NODE", "OBJECT_SET", <<a, b>>) : a \in firsts, b \in AnObject \cup {Ref("S")}}

SetsOf(bodies) ==
  {Named("OBJECT_SET_ASSIGNMENT", x, <<Ref("C"), b>>) : x \in {"S", "s"}, b \in bodies}

Assignments ==
  {MemberOf("A", t) : t \in Leaves \cup Composite \cup {Of("CLASS_DEFINITION", fs) : fs \in FieldsOf}}
    \cup {[Marked(MemberOf("P", t), "isParameterized") EXCEPT !.params = p] :
             t \in {Ref("x"), Of("SEQUENCE", <<MemberOf("a", Ref("x"))>>)}, p \in {<<Ref("x")>>, <<Ref("x"), Ref("y")>>}}
    \cup {Named("VALUE_ASSIGNMENT", "v", <<t, v>>) : t \in {Of("INTEGER", <<>>), Ref("T")}, v \in {Integer("1"), Minus(Integer("1"))}}
    \cup {Named("VALUE_ASSIGNMENT", "v",
             <<Of("OBJECT_IDENTIFIER", <<>>), [Node("VALUE_NODE", "OID_VALUE") EXCEPT !.value = Nm("iso") \o <<Number("1")>>]>>)}
    \cup SetsOf(Bodies(AnObject))
    \cup {Named("OBJECT_SET_ASSIGNMENT", x, <<Ref("C")>>) : x \in {"S", "s"}}

(* Modules.                                                                *)
Importing ==
  LET from(m, xs) == Named("ASSIGNMENT", m, [k \in DOMAIN xs |-> Ref(xs[k])])
  IN  {Of("IMPORTS", <<>>), Of("IMPORTS", <<from("M", <<"T", "lb">>)>>),
       Of("IMPORTS", <<from("M", <<"T">>), from("N", <<"S">>)>>)}

Headers ==
  {[Node("MODULE", "M") EXCEPT !.tag = g, !.marks = marks] :
     g \in {<<>>, <<"AUTOMATIC">>, <<"IMPLICIT">>}, marks \in SUBSET {"extensibility_implied"}}

AModule(kids) == [Node("MODULE", "M") EXCEPT !.kids = kids]

Alias == MemberOf("B", Ref("T"))

Trees ==
  {<<AModule(<<a>>)>> : a \in Assignments}
    \cup {<<AModule(<<a, Alias>>), [AModule(<<Alias>>) EXCEPT !.name = "N"]>> :
             a \in {MemberOf("A", t) : t \in Simple} \cup SetsOf(Bodies(AnObject))}
    \cup {<<[h EXCEPT !.kids = kids]>> : h \in Headers, kids \in {<<>>} \cup {<<i>> : i \in Importing} \cup {<<i, Alias>> : i \in Importing}}

Uppers == {"A", "B", "C", "M", "N", "P", "S", "T", "TYPE"}

Whole == {FileShown(t, loose) : t \in Trees, loose \in BOOLEAN}

(* A file that lacks one token.                                            *)
Lacking(f) == {RemoveAt(f, k) : k \in DOMAIN f}

Damaged ==
  UNION {Lacking(FileShown(<<AModule(<<a, Alias>>)>>, FALSE)) :
           a \in {MemberOf("A", t) : t \in Constrained \cup Tagged}
                   \cup {MemberOf("A", Of("CLASS_DEFINITION", fs)) : fs \in FieldsOf}
                   \cup SetsOf(Bodies(AnObject)) \cup Importing}

(* Up to three tokens at will: in a module, a class, an object set, an     *)
(* object, a type that is constructed and a type that has parameters.      *)
Alphabet ==
  {[type |-> t, text |-> ""] : t \in {"LBRACE", "RBRACE", "LPAREN", "RPAREN", "COMMA", "ELLIPSIS", "AMPERSAND",
                                      "AT_SIGN", "DOT", "ASSIGNMENT", "INTEGER", "SEQUENCE"}}
    \cup {Number("1"), Nm("A")[1], Nm("a")[1], Nm("ID")[1], Nm("TYPE")[1]}

Frames ==
  {<<<<>>, <<>>>>, <<Nm("A") \o K("ASSIGNMENT") \o K("CLASS") \o K("LBRACE"), K("RBRACE")>>,
   <<Nm("S") \o Nm("C") \o K("ASSIGNMENT") \o K("LBRACE") \o K("LBRACE"), K("RBRACE") \o K("RBRACE")>>,
   <<Nm("A") \o K("ASSIGNMENT") \o K("CHOICE") \o K("LBRACE"), K("RBRACE")>>,
   <<Nm("A") \o K("ASSIGNMENT") \o Nm("T") \o K("LBRACE"), K("RBRACE")>>}

AtWill ==
  {Nm("M") \o K("DEFINITIONS") \o K("ASSIGNMENT") \o K("BEGIN") \o fr[1] \o s \o fr[2] \o K("END") :
     fr \in Frames, s \in UNION {[1 .. n -> Alphabet] : n \in 0 .. 3}}

AllFiles == Whole \cup Damaged \cup AtWill

(* Sets of objects that begin with the name of another set.                *)
OfReferences ==
  {FileShown(<<AModule(<<a>>)>>, FALSE) : a \in SetsOf(Bodies({Ref("S")}))}

-----------------------------------------------------------------------------
(* Properties.                                                             *)

(* The text of a tree, in either style, is accepted and gives the tree:    *)
(* commas, version brackets and what is skipped make no difference, and no *)
(* skipping goes too far.                                                  *)
RoundTrip ==
  file \in Whole =>
    /\ phase # "refused"
    /\ phase = "parsed" => made \in Trees /\ \E loose \in BOOLEAN : FileShown(made, loose) = file

Punctuation ==
  {"LBRACE", "RBRACE", "LPAREN", "RPAREN", "LBRACKET", "RBRACKET", "COMMA", "ELLIPSIS", "SEMICOLON"}

Words(f) == SelectSeq(f, LAMBDA t : t.type \notin Punctuation)

(* s is f without some of its elements.                                    *)
IsWithin(s, f) ==
  Len(s) = FoldLeft(LAMBDA k, t : IF k < Len(s) /\ s[k + 1] = t THEN k + 1 ELSE k, 0, f)

(* Whatever the tokens, what the parser accepts it has read: all names,    *)
(* numbers and keywords of the tree are in the file, each once and in this *)
(* order.  No error is mended with a token that is not there.  (The styles *)
(* differ in the order of the clauses of the header.)                      *)
NothingInvented ==
  phase = "parsed" =>
    \E loose \in BOOLEAN : IsWithin(Words(FileShown(made, loose)), Words(file))

(* The names in an object set are elements of it: "Object set reference    *)
(* (e.g., E1AP-ELEMENTARY-PROCEDURES-CLASS-1)" (AsnParser.cpp:743), as in  *)
(* schemas/e1ap_15.4.asn1:147-150.                                         *)
ReferencesKept ==
  phase = "parsed" /\ file \in OfReferences => FileShown(made, FALSE) = file

=============================================================================
