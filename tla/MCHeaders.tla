----------------------------- MODULE MCHeaders -----------------------------
(***************************************************************************)
(* Instances of Headers for TLC: a module M with two types after a module  *)
(* L that it imports from.                                                 *)
(***************************************************************************)
EXTENDS JsonFile

Tree(kind, name, parts) == C!Tree(kind, name, parts)

Leaf(kind) == C!Leaf(kind)

Part(name, type) == C!Part(name, type)

L == <<"L">>
M == <<"M">>
X == <<"X">>
A == <<"A">>
B == <<"B">>
AB == <<"A", "b">>
P == <<"P">>
T == <<"T">>
a == <<"a">>
b == <<"b">>

(* References: within the schema, bound but not linked, of a class field,  *)
(* and of an instance of the parameterized type T with this body.          *)
Ref(m, n) == [Tree("IDENTIFIER", n, <<>>) EXCEPT !.to = <<m, n>>, !.linked = TRUE]

Unlinked(m, n) == [Ref(m, n) EXCEPT !.linked = FALSE]

OpenField == [Tree("FIELD_REFERENCE", <<"CLASS">>, <<>>) EXCEPT !.to = OpenType, !.linked = TRUE]

Instance(body, arg) == [Ref(L, T) EXCEPT !.body = <<body>>, !.args = <<arg>>]

Formal == Tree("IDENTIFIER", P, <<>>)

One(kind, name, type) == Tree(kind, <<kind>>, <<Part(name, type)>>)

ListOf(kind, type) == One(kind, <<>>, type)

Enum == One("ENUMERATION", b, Leaf("ASSIGNMENT"))

Sized == ListOf("OCTET_STRING", Leaf("CONSTRAINT"))

Leaves ==
  {Leaf(k) : k \in {"INTEGER", "IA5_STRING", "BIT_STRING", "OBJECT_IDENTIFIER", "ANY_TYPE"}}
    \cup {Enum, Sized}

TypeRefs == {Ref(M, A), Ref(M, B), Ref(L, X)}

Refs ==
  TypeRefs \cup {OpenField, Unlinked(M, B)}
    \cup {Instance(One("SEQUENCE", a, r), r) : r \in TypeRefs}
    \cup {Instance(One("CHOICE", a, r), r) : r \in {Unlinked(M, B)}}
    \cup {Instance(r, r) : r \in {Leaf("INTEGER")}}

Around(S) ==
  {One(k, b, t) : k \in {"SEQUENCE", "SET", "CHOICE"}, t \in S}
    \cup {ListOf(k, t) : k \in {"SEQUENCE_OF", "SET_OF"}, t \in S}

(* The types of M: two layers of structure at most, or four of one kind.   *)
Small == Leaves \cup Refs

Middle == Around(Small)

RECURSIVE Deep(_, _)
Deep(kind, n) == IF n = 0 THEN Enum ELSE One(kind, b, Deep(kind, n - 1))

Pairs ==
  {Tree(k, <<k>>, <<Part(a, s), Part(b, t)>>) :
     k \in {"SEQUENCE", "CHOICE"}, s \in {Enum, ListOf("SEQUENCE_OF", One("SEQUENCE", a, Enum))},
     t \in {Enum, ListOf("SET_OF", One("CHOICE", a, Leaf("IA5_STRING"))), One("CHOICE", <<"type">>, Enum)}}

Large == Around(Around({Enum, Leaf("IA5_STRING"), Sized, Ref(M, B), Ref(M, A)})) \cup Pairs
           \cup {Deep(k, 4) : k \in {"SEQUENCE", "CHOICE", "SEQUENCE_OF"}}
           \cup {One("CHOICE", b, Deep("SET", 4))}

Mod(name, types, values) == [name |-> name, types |-> types, values |-> values]

Constant(name, type) == Part(name, type)

Template(body) == Part(T, body)

Imported(x, body) == Mod(L, <<Part(X, x), Template(body)>>, <<>>)

Importing(n, s, m, t) ==
  Mod(M, <<Part(n, s), Part(m, t)>>,
      <<Constant(<<"c">>, Leaf("INTEGER")), Constant(<<"d">>, Ref(M, n))>>)

Plainly == Imported(Leaf("INTEGER"), One("SEQUENCE", a, Formal))

Back == {Leaf("INTEGER"), Ref(M, A), One("SEQUENCE", b, Ref(M, A)), ListOf("SEQUENCE_OF", Ref(M, A))}

AllSchemas ==
  {<<Plainly, Importing(A, s, B, t)>> : s \in Small, t \in Small}
    \cup {<<Plainly, Importing(A, s, B, t)>> : s \in Middle \cup Large, t \in Back}
    \cup {<<Imported(x, y), Importing(AB, s, A, t)>> :
            x \in {Leaf("OBJECT_IDENTIFIER"), ListOf("SET_OF", Enum)},
            y \in {Formal, ListOf("SEQUENCE_OF", Formal), Tree("CLASS_DEFINITION", T, <<>>)},
            s \in {Ref(M, A), Ref(L, X), Enum}, t \in {One("CHOICE", b, Ref(L, X)), Ref(L, X)}}

Names == {L, M, X, A, B, AB, T}
=============================================================================
