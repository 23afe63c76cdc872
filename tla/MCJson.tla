------------------------------- MODULE MCJson -------------------------------
(***************************************************************************)
(* An instance of JsonCodec for TLC: structures, choices and lists around  *)
(* every kind of type, up to three layers.                                 *)
(***************************************************************************)
EXTENDS JsonCodec

OneKeyword == {"new"}

Of(kind, parts) == [Leaf(kind) EXCEPT !.parts = parts]

Named(t) == [t EXCEPT !.named = TRUE]

Mandatory(key, t) == Part(key, t, FALSE, Absent)
Optional(key, t) == Part(key, t, TRUE, Absent)

Enum == Of("enum", [i \in 1 .. 3 |-> Mandatory(<<"red", "new", "blue">>[i], Leaf("null"))])

ListOf(t) == Of("list", <<Mandatory("element", t)>>)

Simple ==
  {Leaf("number"), Leaf("null"), Named(Leaf("null")), Enum, Named(Enum), Leaf("any"),
   ListOf(Leaf("number")), ListOf(Named(Enum))}

(* A member a, optional or not, by itself or after a number; a member with *)
(* a default; an addition with a default.                                  *)
Single(S) ==
  {Of("struct", <<Mandatory("a", t)>>) : t \in S}
    \cup {Of("struct", <<Mandatory("n", Leaf("number")), Optional("a", t)>>) : t \in S}

WithDefault ==
  {Of("struct", <<Part("a", t, o, Number(1)), Optional("b", Leaf("null"))>>) :
     t \in {Leaf("number"), Enum}, o \in BOOLEAN}

ChoiceOf(S) ==
  {[Of("choice", <<Mandatory("x", t), Mandatory("y", Leaf("number"))>>) EXCEPT !.marker = m] :
     t \in S, m \in BOOLEAN}

Inner == Single(Simple) \cup WithDefault \cup ChoiceOf(Simple)

AllTypes ==
  Inner \cup Single(Inner) \cup ChoiceOf(Inner) \cup {ListOf(t) : t \in Inner}
    \cup ChoiceOf(Single(Single({Leaf("number"), Enum})) \cup ChoiceOf(Single({Leaf("number")})))

RECURSIVE AllValues(_)
AllValues(t) ==
  CASE t.kind = "number" -> {Number(0), Number(1)}
    [] t.kind = "enum" -> {Number(n) : n \in 0 .. 2}
    [] t.kind = "null" -> {Null}
    [] t.kind = "any" -> {Value("any", v) : v \in {"empty", "bits", "other"}}
    [] t.kind = "list" ->
         {List(s) : s \in UNION {[1 .. n -> AllValues(t.parts[1].type)] : n \in 0 .. 2}}
    [] t.kind = "choice" ->
         UNION {{Alternative(i, x) : x \in AllValues(t.parts[i].type)} : i \in DOMAIN t.parts}
           \cup (IF t.marker THEN {Extension} ELSE {})
    [] t.kind = "struct" ->
         LET of(p) == AllValues(p.type) \cup (IF p.optional THEN {Absent} ELSE {})
         IN  IF Len(t.parts) = 1 THEN {Struct(<<x>>) : x \in of(t.parts[1])}
             ELSE {Struct(<<x, y>>) : x \in of(t.parts[1]), y \in of(t.parts[2])}

=============================================================================
