-------------------------- MODULE MCSequenceCodec ---------------------------
(***************************************************************************)
(* Instances of SequenceCodec for TLC.  Octets have 4 bits and integers 6  *)
(* octets, so that every form of a length and of an integer occurs.        *)
(***************************************************************************)
EXTENDS SequenceCodec

(* The logarithm of 2^20 + 1 is rounded to 20.                             *)
UnseenFrom20(k) == IF k < 20 THEN 0 ELSE Power[k - 20]

Uper == [lang |-> "cpp", aper |-> FALSE]
Aper == [lang |-> "cpp", aper |-> TRUE]
C99 == [lang |-> "c", aper |-> FALSE]

Ends == <<<<Uper, Uper>>, <<Aper, Aper>>, <<C99, C99>>, <<Uper, C99>>, <<C99, Uper>>>>

-----------------------------------------------------------------------------
(* Types, each with values; the first of them serves as a DEFAULT.         *)

Inline(type) == [ref |-> "inline"] @@ type
Named(type) == [type EXCEPT !.ref = "name"]
Alias(type) == [type EXCEPT !.ref = "alias"]

Integer(lo, hi, ext) == Inline([kind |-> "integer", lo |-> lo, hi |-> hi, ext |-> ext])
Scalar(kind) == Inline([kind |-> kind])
Boolean == Scalar("boolean")
Enumerated(numbers, more, ext) ==
  Inline([kind |-> "enumerated", numbers |-> numbers, more |-> more, ext |-> ext])
Octets(size) == Inline([kind |-> "octets", size |-> size])
BitString(size, ext) == Inline([kind |-> "bits", size |-> size, ext |-> ext])
Items(of, size, set) ==
  Inline([kind |-> "items", of |-> of, size |-> size, set |-> set])
Choice(alts, roots, ext) ==
  Inline([kind |-> "choice", alts |-> alts, roots |-> roots, ext |-> ext])

(* A BIT STRING of n bits.                                                 *)
Pattern(n) == [k \in 1 .. n |-> IF k % 3 = 0 THEN 1 ELSE 0]

Alternative(alt, content) == [alt |-> alt, content |-> content]

Small == Integer(3, 9, FALSE)
Color == Enumerated(<<5, 2, 7>>, 0, FALSE)

Catalogue == <<
  <<Small, <<9, 3, 2>>>>,
  <<Integer(3, 9, TRUE), <<4, 9>>>>,
  <<Integer(5, 5, FALSE), <<5>>>>,
  <<Integer(5, 5, TRUE), <<5>>>>,
  <<Integer(-8, 7, FALSE), <<-8, 7>>>>,
  <<Integer(-8, 7, TRUE), <<7, -1>>>>,
  <<Integer(0, 99, FALSE), <<0, 99>>>>,
  <<Integer(0, 99, TRUE), <<99, 17>>>>,
  <<Integer(-1, 5000, FALSE), <<-1, 14, 15, 4999>>>>,
  <<Integer(-1, 5000, TRUE), <<5000, 300>>>>,
  <<Integer(0, 2^20, FALSE), <<0, 2^20>>>>,
  <<Integer(-(2^23), 2^23 - 1, FALSE), <<0, -(2^23)>>>>,
  <<Scalar("unbounded"), <<0, -8, 8, -9, 2^20>>>>,
  <<Boolean, <<0, 1>>>>,
  <<Named(Boolean), <<0, 1>>>>,
  <<Named(Small), <<9, 3, 2>>>>,
  <<Alias(Small), <<9, 3, 2>>>>,
  <<Alias(Color), <<1, 2>>>>,
  <<Alias(Enumerated(<<4, 0>>, 1, FALSE)), <<1, 2, 3>>>>,
  <<Alias(Octets(<<1, 3>>)), <<<<9, 3>>, <<>>>>>>,
  <<Color, <<1, 2, 3>>>>,
  <<Enumerated(<<0, 4>>, 1, TRUE), <<1, 2, 3>>>>,
  <<Enumerated(<<0>>, 0, FALSE), <<1>>>>,
  <<Octets(<<1, 3>>), <<<<9, 3>>, <<>>, <<1, 2, 4>>>>>>,
  <<Octets(<<2, 2>>), <<<<15, 0>>, <<1>>>>>>,
  <<Octets(<<>>), <<<<>>, <<7>>, <<1, 2, 3, 4, 5, 6, 7, 8>>>>>>,
  <<BitString(<<1, 4>>, FALSE), <<<<1, 0, 1>>, <<>>>>>>,
  <<BitString(<<1, 4>>, TRUE), <<<<1, 1, 0>>>>>>,
  <<BitString(<<3, 3>>, TRUE), <<<<1, 1, 0>>>>>>,
  <<BitString(<<>>, FALSE), <<<<>>, <<1>>, Pattern(9), Pattern(20)>>>>,
  <<Named(Items(Named(Small), <<1, 3>>, FALSE)), <<<<4, 9>>, <<5, 1>>>>>>,
  <<Named(Items(Named(Small), <<0, 20>>, TRUE)), <<<<7, 3>>, <<>>>>>>,
  <<Named(Items(Small, <<>>, FALSE)), <<<<4, 9>>, <<>>>>>>,
  <<Named(Items(Named(Boolean), <<0, 3>>, FALSE)), <<<<1, 0>>>>>>,
  <<Named(Items(Alias(Small), <<1, 3>>, FALSE)), <<<<4, 9>>, <<5, 1>>>>>>,
  <<Items(Named(Small), <<1, 3>>, FALSE), <<<<4, 9>>, <<5, 1>>, <<>>>>>>,
  <<Alias(Items(Named(Small), <<1, 3>>, FALSE)), <<<<4, 9>>, <<>>>>>>,
  <<Named(Choice(<<Small, Octets(<<>>), Boolean>>, 3, FALSE)),
    <<Alternative(1, 4), Alternative(2, <<7>>), Alternative(3, 1)>>>>,
  <<Choice(<<Small, Octets(<<>>)>>, 2, FALSE), <<Alternative(1, 4), Alternative(2, <<7>>)>>>>,
  <<Alias(Choice(<<Small, Boolean>>, 2, TRUE)), <<Alternative(1, 4), Alternative(2, 1)>>>>,
  <<Named(Choice(<<Small, Boolean, Octets(<<>>)>>, 2, TRUE)),
    <<Alternative(1, 9), Alternative(2, 1), Alternative(3, <<7>>)>>>>,
  <<Named(Choice(<<Color>>, 1, TRUE)), <<Alternative(1, 2)>>>>,
  <<Named(Choice(<<Named(Items(Named(Small), <<0, 3>>, TRUE)), Alias(Small),
                   Items(Named(Small), <<0, 3>>, FALSE)>>, 3, FALSE)),
    <<Alternative(1, <<7, 3>>), Alternative(2, 5), Alternative(3, <<7, 3>>)>>>>,
  <<Alias(Scalar("oid")), <<<<1, 3, 70>>>>>>,
  <<Scalar("oid"), <<<<1, 3, 70>>, <<2, 41>>>>>>,
  <<Scalar("real"), <<5, 2^20 + 3>>>>,
  <<Scalar("null"), <<0>>>>,
  <<Scalar("any"), <<<<1, 0, 1, 1>>, <<1, 0>>, <<>>, Pattern(64 * Octet), Pattern(65 * Octet)>>>>>>

TypeOf(n) == Catalogue[n][1]
ValuesOf(n) == Catalogue[n][2]

Member(type, presence, default) ==
  [type |-> type, presence |-> presence, default |-> default, tag |-> 0]

(* The value with number v, or none for 0.                                 *)
Value(n, v) == IF v = 0 THEN Absent ELSE ValuesOf(n)[v]

(* A DEFAULT is a number, an identifier or a string.                       *)
Presences(n) ==
  {"mandatory", "optional"} \cup
    (IF TypeOf(n).kind \in {"integer", "unbounded", "enumerated", "octets"}
     THEN {"default"} ELSE {})

(* C++ has a value for every member with a DEFAULT.                        *)
Leavable(ends, presence) ==
  presence = "optional" \/ (presence = "default" /\ ~ Cpp(Ends[ends][1]))

Plain(root) == [root |-> root, marker |-> FALSE, additions |-> <<>>, set |-> FALSE]

(* A member of any type, after an optional one that moves it by a bit and  *)
(* before one that shows where the decoder is.                             *)
Singles ==
  {x \in [ends : DOMAIN Ends, type : DOMAIN Catalogue,
          presence : {"mandatory", "optional", "default"}, value : 0 .. 5, shift : BOOLEAN] :
     /\ x.presence \in Presences(x.type)
     /\ x.value \in DOMAIN ValuesOf(x.type)
          \/ (x.value = 0 /\ Leavable(x.ends, x.presence))
     /\ \A e \in {1, 2} : Builds(Ends[x.ends][e], TypeOf(x.type))
     /\ x.shift \/ Ends[x.ends][1].aper}

Single(x) ==
  LET st == Plain(<<Member(Boolean, "optional", Absent),
                    Member(TypeOf(x.type), x.presence, ValuesOf(x.type)[1]),
                    Member(Small, "mandatory", Absent)>>)
  IN  [from |-> Ends[x.ends][1], to |-> Ends[x.ends][2], sent |-> st, read |-> st,
       given |-> <<IF x.shift THEN 1 ELSE Absent, Value(x.type, x.value), 5>>]

(* A type with additions; the encoder knows some of them, the decoder some.*)
Addition(j) == <<Member(Small, "optional", Absent),
                 Member(Octets(<<1, 3>>), "optional", Absent)>>[j]

Extensible(set, known) ==
  [root |-> <<[Member(Small, "default", 9) EXCEPT !.tag = 2],
              [Member(Boolean, "mandatory", Absent) EXCEPT !.tag = 0]>>,
   marker |-> TRUE, set |-> set,
   additions |-> [j \in 1 .. known |-> [Addition(j) EXCEPT !.tag = 2 * j - 1]]]

(* The values of the additions; <<>> is too short.                         *)
More == <<<<Absent, Absent>>, <<9, Absent>>, <<3, Absent>>,
          <<Absent, <<6, 1>>>>, <<Absent, <<15, 15>>>>, <<9, <<>>>>>>

Versions ==
  [ends : DOMAIN Ends, sent : 0 .. 2, read : 0 .. 2, set : BOOLEAN,
   value : {8, 9}, more : DOMAIN More]

Version(x) ==
  [from |-> Ends[x.ends][1], to |-> Ends[x.ends][2],
   sent |-> Extensible(x.set, x.sent), read |-> Extensible(x.set, x.read),
   given |-> <<x.value, 1>> \o SubSeq(More[x.more], 1, x.sent)]

(* A name comes with what it stands for, made once.                        *)
ExchangeNamed(name) == name[2]

SameVersion == {x \in Versions : x.ends = 1 /\ x.sent = 2 /\ x.read = 2 /\ ~ x.set}

AllNames ==
  {<<x, Single(x)>> : x \in Singles} \cup {<<x, Version(x)>> : x \in Versions}

(* An encoder and a decoder in C++ that know the same additions.           *)
SameVersionNames == {<<x, Version(x)>> : x \in SameVersion}

=============================================================================
