---------------------------- MODULE MemberCodec -----------------------------
(***************************************************************************)
(* The code that is generated for one member of a SEQUENCE, an element of  *)
(* a list or an alternative of a CHOICE: CodecEmitter.cpp for C++ and      *)
(* CCodecEmitter.cpp for C.  A codec c has a language, c.lang, and says    *)
(* whether it was generated for aligned PER, c.aper (never in C).          *)
(*                                                                         *)
(* Types are records with a kind and a ref, for how the schema has them:   *)
(* "inline"; by a "name" that is assigned the type itself; or by an        *)
(* "alias", a name that is assigned another name, or an instance of a      *)
(* parameterized type.  A size is <<lo, hi>>, or <<>> when there is no     *)
(* constraint.  Elements of a list are scalars, alternatives scalars or    *)
(* lists; deeper nesting by name calls the code of the inner type at the   *)
(* current offset, as a member does.                                       *)
(***************************************************************************)
EXTENDS UperPrimitives, InOrder

CONSTANT Absent  \* no value: an optional without one, a has_ flag that is 0,
                 \* a field the C code leaves as the caller had it

(* Values of scalars; those of lists are sequences of them.                *)
Scalars == Int \cup Seq(Nat) \cup {Absent}

ASSUME BadAssumption ==
  /\ Bad \notin Scalars /\ Bad \notin Seq(Scalars)
  /\ Bad \notin [alt : Int, content : Scalars \cup Seq(Scalars)]

ASSUME AbsentAssumption ==
  /\ Absent \notin Seq(Int)
  /\ Absent \notin [alt : Int, content : Scalars \cup Seq(Scalars)]

Cpp(c) == c.lang = "cpp"

-----------------------------------------------------------------------------
(* Code that writes, reads and checks nothing.                             *)

(* What is generated is a comment, or nothing.  In C++ the functions of a  *)
(* name that is assigned a name, or BOOLEAN, are empty; C finds the type   *)
(* behind names, and leaves out lists and CHOICEs that have none.          *)
Unwritten(c, t) ==
  \/ t.kind = "null"
  \/ Cpp(c) /\ (t.ref = "alias" \/ (t.kind = "boolean" /\ t.ref = "name"))
  \/ ~ Cpp(c) /\ t.kind \in {"oid", "real", "any"}
  \/ ~ Cpp(c) /\ t.kind \in {"items", "choice"} /\ t.ref = "inline"

(* A new C++ value: zero, empty, the first alternative.  Enumerator 0 is   *)
(* none of the root, where none of them has the number 0.                  *)
NewPlain(t) ==
  CASE t.kind \in {"octets", "bits", "items", "oid", "any"} -> <<>>
    [] t.kind = "enumerated" ->
         IF 0 \in ToSet(t.numbers)
         THEN CHOOSE e \in DOMAIN t.numbers : t.numbers[e] = 0 ELSE 0
    [] OTHER -> 0

New(t) ==
  IF t.kind # "choice" THEN NewPlain(t)
  ELSE [alt |-> 1, content |-> NewPlain(t.alts[1])]

(* What is there when nothing is read: a new C++ value, or the C caller's. *)
Unread(c, t) == IF Cpp(c) \/ t.kind = "null" THEN New(t) ELSE Absent

-----------------------------------------------------------------------------
(* ENUMERATED: a value is the place of its enumerator in the declaration.  *)
(* C++ sends the rank among the root enumerators, C the place, among all.  *)

Roots(t) == DOMAIN t.numbers

RankCpp(t, v) == Cardinality({e \in Roots(t) : t.numbers[e] < t.numbers[v]})

OfRank(t, r) == CHOOSE e \in Roots(t) : RankCpp(t, e) = r

PutEnumerated(c, w, t, v) ==
  LET n == Cardinality(Roots(t))
      marked == IF t.ext THEN Append(w, 0) ELSE w
  IN  IF ~ Cpp(c) THEN PutIndex("c", marked, v - 1, n + t.more)
      ELSE IF ~ c.aper THEN PutIndex("cpp", marked, RankCpp(t, v), n)
      ELSE IF t.ext THEN PutAperExt(w, RankCpp(t, v), 0, n - 1)
      ELSE PutAper(w, RankCpp(t, v), 0, n - 1)

(* The extension bit is the first, in aligned PER too.                     *)
GetEnumerated(c, t, msg, at) ==
  LET n == Cardinality(Roots(t))
      next == IF t.ext THEN After(msg, at, 1) ELSE at
      extended == t.ext /\ GetBits(msg, at, 1).value = 1
  IN  IF ~ Cpp(c)
      THEN IF extended THEN Read(0, next)
           ELSE Then(GetIndex("c", msg, next, n + t.more), LAMBDA v, end : Read(v + 1, end))
      ELSE Then(IF ~ c.aper THEN GetIndex("cpp", msg, next, n)
                ELSE IF t.ext THEN GetAperExt(msg, at, 0, n - 1)
                ELSE GetAper(msg, at, 0, n - 1),
                LAMBDA v, end :
                  Read(IF extended \/ v >= n THEN Bad ELSE OfRank(t, v), end))

-----------------------------------------------------------------------------
(* Scalars.                                                                *)

(* Fault: the lower bound is not subtracted in the encoder.                *)
PutIntegerFromZero(c, w, t, v) ==
  IF ~ c.aper THEN PutConstrained(c.lang, w, v + t.lo, t.lo, t.hi)
  ELSE IF t.ext THEN PutAperExt(w, v + t.lo, t.lo, t.hi)
  ELSE PutAper(w, v + t.lo, t.lo, t.hi)

PutInteger(c, w, t, v) ==
  IF ~ c.aper THEN PutConstrained(c.lang, w, v, t.lo, t.hi)
  ELSE IF t.ext THEN PutAperExt(w, v, t.lo, t.hi)
  ELSE PutAper(w, v, t.lo, t.hi)

(* Fault: the range is not checked.                                        *)
GetIntegerUnchecked(c, t, msg, at) ==
  IF ~ c.aper THEN GetConstrained(c.lang, msg, at, t.lo, t.hi)
  ELSE IF t.ext THEN GetAperExt(msg, at, t.lo, t.hi)
  ELSE GetAper(msg, at, t.lo, t.hi)

GetInteger(c, t, msg, at) ==
  Then(IF ~ c.aper THEN GetConstrained(c.lang, msg, at, t.lo, t.hi)
       ELSE IF t.ext THEN GetAperExt(msg, at, t.lo, t.hi)
       ELSE GetAper(msg, at, t.lo, t.hi),
       LAMBDA v, end : Read(IF v \in t.lo .. t.hi THEN v ELSE Bad, end))

PutUnbounded(c, w, v) ==
  IF c.aper THEN PutAperUnconstrained(w, v) ELSE PutUnconstrained(w, v)

GetUnbounded(c, msg, at) ==
  IF c.aper THEN GetAperUnconstrained(msg, at) ELSE GetUnconstrained(msg, at)

PutScalar(c, w, t, v) ==
  IF Unwritten(c, t) THEN w
  ELSE CASE t.kind = "integer" -> PutInteger(c, w, t, v)
         [] t.kind = "unbounded" -> PutUnbounded(c, w, v)
         [] t.kind = "boolean" -> Append(w, v)
         [] t.kind = "enumerated" -> PutEnumerated(c, w, t, v)
         [] t.kind = "oid" -> PutOid(w, v)
         [] t.kind = "real" -> PutReal(w, v)
         [] t.kind = "any" -> PutOpen(w, v)

GetScalar(c, t, msg, at) ==
  IF Unwritten(c, t) THEN Read(Unread(c, t), at)
  ELSE CASE t.kind = "integer" -> GetInteger(c, t, msg, at)
         [] t.kind = "unbounded" -> GetUnbounded(c, msg, at)
         [] t.kind = "boolean" -> GetBits(msg, at, 1)
         [] t.kind = "enumerated" -> GetEnumerated(c, t, msg, at)
         [] t.kind = "oid" -> GetOid(msg, at)
         [] t.kind = "real" -> GetReal(msg, at)
         [] t.kind = "any" -> GetOpen(msg, at)

-----------------------------------------------------------------------------
(* Lists: OCTET STRING and the character strings ("octets"), BIT STRING    *)
(* ("bits"), SEQUENCE OF and SET OF ("items").                             *)

Lists == {"octets", "bits", "items"}

Sized(t) == t.size # <<>>

SizeFits(t, n) == Sized(t) => t.size[1] <= n /\ n <= t.size[2]

(* Aligned PER: the extensible BIT STRING has its bit first and aligns     *)
(* after the length; a list of elements aligns only for a large range.     *)
BitFirst(c, t) == c.aper /\ t.kind = "bits" /\ t.ext /\ Sized(t)

AlignsFirst(c, t) ==
  /\ c.aper /\ ~ BitFirst(c, t)
  /\ t.kind = "items" /\ Sized(t) => t.size[2] - t.size[1] + 1 > Power[Octet]

PutSize(c, w, t, n) ==
  LET from == IF BitFirst(c, t) THEN Append(w, 0)
              ELSE IF AlignsFirst(c, t) THEN Align(w) ELSE w
      sent == IF Sized(t) THEN PutConstrained(c.lang, from, n, t.size[1], t.size[2])
              ELSE PutLength(from, n)
  IN  IF BitFirst(c, t) THEN Align(sent) ELSE sent

GetSize(c, t, msg, at) ==
  LET from == IF BitFirst(c, t) THEN After(msg, at, 1)
              ELSE IF AlignsFirst(c, t) THEN Aligned(at) ELSE at
  IN  Then(IF Sized(t) THEN GetConstrained(c.lang, msg, from, t.size[1], t.size[2])
           ELSE GetLength(msg, from),
           LAMBDA n, end :
             Read(IF Cpp(c) /\ ~ SizeFits(t, n) THEN Bad ELSE n,
                  IF BitFirst(c, t) THEN Aligned(end) ELSE end))

(* Elements of an inline type are left out by the C generator.             *)
ElementsLeftOut(c, t) == t.kind = "items" /\ ~ Cpp(c) /\ t.of.ref = "inline"

PutElement(c, w, t, x) ==
  CASE t.kind = "octets" -> w \o Bits(x, Octet)
    [] t.kind = "bits" -> Append(w, x)
    [] t.kind = "items" -> PutScalar(c, w, t.of, x)

GetElement(c, t, msg, at) ==
  CASE t.kind = "octets" -> GetBits(msg, at, Octet)
    [] t.kind = "bits" -> GetBits(msg, at, 1)
    [] t.kind = "items" -> GetScalar(c, t.of, msg, at)

(* Only C++ sorts a SET OF, of numbers here.                               *)
Sorted(v) ==
  LET places == DOMAIN v
      order == InOrder(places, {p \in places \X places :
                                  v[p[1]] < v[p[2]] \/ (v[p[1]] = v[p[2]] /\ p[1] < p[2])})
  IN  [j \in places |-> v[order[j]]]

SentOrder(c, t, v) == IF t.kind = "items" /\ t.set /\ Cpp(c) THEN Sorted(v) ELSE v

PutElements(c, w, t, v) ==
  LET after[j \in 0 .. Len(v)] ==
        IF j = 0 THEN w ELSE PutElement(c, after[j - 1], t, v[j])
  IN  after[Len(v)]

PutList(c, w, t, v) ==
  IF Unwritten(c, t) THEN w
  ELSE IF ElementsLeftOut(c, t) THEN PutSize(c, w, t, Len(v))
  ELSE PutElements(c, PutSize(c, w, t, Len(v)), t, SentOrder(c, t, v))

GetElements(c, t, msg, at, n) ==
  LET after[j \in 0 .. n] ==
        IF j = 0 THEN Read(<<>>, at)
        ELSE Then(after[j - 1], LAMBDA v, next :
               Then(GetElement(c, t, msg, next), LAMBDA x, end : Read(Append(v, x), end)))
  IN  after[n]

GetList(c, t, msg, at) ==
  IF Unwritten(c, t) THEN Read(Unread(c, t), at)
  ELSE Then(GetSize(c, t, msg, at), LAMBDA n, next :
    IF n = Bad THEN Read(Bad, next)
    ELSE IF ElementsLeftOut(c, t) THEN Read([i \in 1 .. n |-> Absent], next)
    ELSE Then(GetElements(c, t, msg, next, n), LAMBDA v, end :
           Read(IF Bad \in ToSet(v) THEN Bad ELSE v, end)))

-----------------------------------------------------------------------------
(* CHOICE: a value is the alternative with its content.  C++ knows also    *)
(* the ExtensionValue, alternative 0, with an index and an open type.      *)

PutPlain(c, w, t, v) ==
  IF t.kind \in Lists THEN PutList(c, w, t, v) ELSE PutScalar(c, w, t, v)

GetPlain(c, t, msg, at) ==
  IF t.kind \in Lists THEN GetList(c, t, msg, at) ELSE GetScalar(c, t, msg, at)

(* C numbers all alternatives, C++ the root ones; C++ writes the content   *)
(* of root alternatives only.                                              *)
Numbered(c, t) == IF Cpp(c) THEN t.roots ELSE Len(t.alts)

PutChoice(c, w, t, v) ==
  LET marked == IF t.ext THEN Append(w, IF v.alt = 0 THEN 1 ELSE 0) ELSE w
      indexed == PutIndex(c.lang, marked, v.alt - 1, Numbered(c, t))
  IN  IF Unwritten(c, t) THEN w
      ELSE IF v.alt = 0 THEN PutOpen(PutLength(marked, v.index), v.content)
      ELSE IF v.alt > Numbered(c, t) THEN indexed
      ELSE PutPlain(c, indexed, t.alts[v.alt], v.content)

(* Alternative -1 of C is the unknown one.                                 *)
Beyond(x) == Then(x, LAMBDA open, end : Read([alt |-> -1, content |-> Absent], end))

GetAlternative(c, t, msg, at, alt) ==
  IF alt <= Numbered(c, t)
  THEN Then(GetPlain(c, t.alts[alt], msg, at), LAMBDA v, end :
         Read(IF v = Bad THEN Bad ELSE [alt |-> alt, content |-> v], end))
  ELSE IF Cpp(c) THEN Read(Bad, at)
  ELSE IF t.ext THEN Beyond(GetOpen(msg, at))
  ELSE Read([alt |-> alt, content |-> Absent], at)

(* After an ExtensionValue the C++ code goes on with alternative 1 and     *)
(* puts it in its place.  C skips an open type where the index is.         *)
GetChoice(c, t, msg, at) ==
  LET next == IF t.ext THEN After(msg, at, 1) ELSE at
      extended == t.ext /\ GetBits(msg, at, 1).value = 1
  IN  IF Unwritten(c, t) THEN Read(Unread(c, t), at)
      ELSE IF extended /\ ~ Cpp(c) THEN Beyond(GetOpen(msg, next))
      ELSE Then(IF ~ extended THEN GetIndex(c.lang, msg, next, Numbered(c, t))
                ELSE Read(0, GetOpen(msg, GetLength(msg, next).at).at),
                LAMBDA index, end : GetAlternative(c, t, msg, end, index + 1))

-----------------------------------------------------------------------------
(* A member of any type.                                                   *)

PutMember(c, w, t, v) ==
  IF t.kind = "choice" THEN PutChoice(c, w, t, v) ELSE PutPlain(c, w, t, v)

GetMember(c, t, msg, at) ==
  IF t.kind = "choice" THEN GetChoice(c, t, msg, at) ELSE GetPlain(c, t, msg, at)

(* What a value must be to have its type; C checks less of it.             *)
ScalarFits(c, t, v) ==
  /\ t.kind = "integer" => v \in t.lo .. t.hi
  /\ t.kind = "enumerated" /\ Cpp(c) => v \in Roots(t)

ListFits(c, t, v) ==
  SizeFits(t, Len(v)) /\ (~ Sized(t) => ~ LengthRefused(c.lang, Len(v)))

(* What the encoder does not refuse by an exception or an error code.      *)
ScalarAccepted(c, t, v) ==
  \/ Unwritten(c, t)
  \/ /\ ScalarFits(c, t, v)
     /\ t.kind = "oid" => Len(v) >= 2 /\ ~ LengthRefused("cpp", Len(OidOctets(v)))
     /\ t.kind = "any" => ~ LengthRefused("cpp", OctetsOf(Len(v)))

PlainAccepted(c, t, v) ==
  IF t.kind \notin Lists THEN ScalarAccepted(c, t, v)
  ELSE \/ Unwritten(c, t)
       \/ /\ ListFits(c, t, v)
          /\ t.kind = "items" /\ ~ ElementsLeftOut(c, t)
               => \A x \in ToSet(v) : ScalarAccepted(c, t.of, x)

Accepts(c, t, v) ==
  IF t.kind # "choice" THEN PlainAccepted(c, t, v)
  ELSE \/ Unwritten(c, t)
       \/ IF v.alt = 0
          THEN ~ LengthRefused("cpp", v.index) /\ ~ LengthRefused("cpp", OctetsOf(Len(v.content)))
          ELSE v.alt <= Numbered(c, t) => PlainAccepted(c, t.alts[v.alt], v.content)

(* What C++ can have decoded: what fits, or is new where nothing is read.  *)
ScalarSound(c, t, v) ==
  IF Unwritten(c, t) THEN v = Unread(c, t) ELSE ScalarFits(c, t, v)

PlainSound(c, t, v) ==
  IF t.kind \notin Lists THEN ScalarSound(c, t, v)
  ELSE IF Unwritten(c, t) THEN v = Unread(c, t)
  ELSE /\ ListFits(c, t, v)
       /\ t.kind = "items" => \A x \in ToSet(v) : ScalarSound(c, t.of, x)

Sound(c, t, v) ==
  IF t.kind # "choice" THEN PlainSound(c, t, v)
  ELSE IF Unwritten(c, t) THEN v = Unread(c, t)
  ELSE v.alt \in 1 .. Numbered(c, t) /\ PlainSound(c, t.alts[v.alt], v.content)

-----------------------------------------------------------------------------
(* The types that a schema can have, and the values a program can give.    *)

Int64 == -Power[Octet * Word - 1] .. Power[Octet * Word - 1] - 1

(* Alternatives, and enumerators, are counted in an int.                   *)
MaxCount == Power[4 * Octet - 1] - 1

ScalarType(t) ==
  /\ t.kind \in {"integer", "unbounded", "boolean", "enumerated", "oid", "real", "null", "any"}
  /\ t.ref \in {"inline", "name", "alias"}
  /\ t.kind = "integer" => t.lo \in Int64 /\ t.hi \in Int64 /\ t.ext \in BOOLEAN
  /\ t.kind = "enumerated" =>
       /\ t.numbers \in Seq(Int) /\ t.numbers # <<>>
       /\ \A e, f \in Roots(t) : t.numbers[e] = t.numbers[f] => e = f
       /\ t.more \in Nat /\ Len(t.numbers) + t.more <= MaxCount
       /\ t.ext \in BOOLEAN

ScalarValue(t, v) ==
  /\ t.kind = "integer" => v \in Int64
  /\ t.kind = "unbounded" => v \in Int64
  /\ t.kind = "boolean" => v \in {0, 1}
  /\ t.kind = "enumerated" => v \in 1 .. Len(t.numbers) + t.more
  /\ t.kind = "oid" => v \in Seq(0 .. Power[Octet * Word] - 1)
  /\ t.kind = "real" => v \in 0 .. Power[Octet * Word] - 1
  /\ t.kind = "null" => v = 0
  /\ t.kind = "any" => v \in Seq({0, 1})

PlainType(t) ==
  IF t.kind \notin Lists THEN ScalarType(t)
  ELSE /\ t.ref \in {"inline", "name", "alias"}
       /\ t.size = <<>> \/ (t.size \in Nat \X Nat /\ t.size[1] <= t.size[2])
       /\ t.kind = "bits" => t.ext \in BOOLEAN
       /\ t.kind = "items" =>
            /\ ScalarType(t.of) /\ t.set \in BOOLEAN
            /\ t.set => t.of.kind \in {"integer", "unbounded", "boolean"}

PlainValue(t, v) ==
  /\ t.kind = "octets" => v \in Seq(0 .. Power[Octet] - 1)
  /\ t.kind = "bits" => v \in Seq({0, 1})
  /\ t.kind = "items" => v \in Seq(ToSet(v)) /\ \A x \in ToSet(v) : ScalarValue(t.of, x)
  /\ t.kind \notin Lists => ScalarValue(t, v)

MemberType(t) ==
  IF t.kind # "choice" THEN PlainType(t)
  ELSE /\ t.ref \in {"inline", "name", "alias"}
       /\ Len(t.alts) \in 1 .. MaxCount /\ t.roots \in 1 .. Len(t.alts)
       /\ t.ext \in BOOLEAN
       /\ \A a \in 1 .. Len(t.alts) : PlainType(t.alts[a])

(* Valid C is generated.  A function takes its value, or the address of    *)
(* it, by what its own name is assigned; the callers, which are aliases of *)
(* REAL and NULL and lists, go by what the type is in the end.             *)
ScalarBuilds(t) == ~ (t.kind \in {"real", "null"} /\ t.ref = "alias")

PlainBuilds(t) ==
  IF t.kind # "items" THEN ScalarBuilds(t)
  ELSE /\ ScalarBuilds(t.of)
       /\ t.of.ref = "name" => t.of.kind \notin {"real", "null"}
       /\ t.of.ref = "alias" =>
            t.of.kind \notin {"integer", "unbounded", "boolean", "enumerated"}

Builds(c, t) ==
  Cpp(c) \/ IF t.kind # "choice" THEN PlainBuilds(t)
            ELSE \A a \in 1 .. Len(t.alts) : PlainBuilds(t.alts[a])

MemberValue(c, t, v) ==
  IF t.kind # "choice" THEN PlainValue(t, v)
  ELSE \/ /\ v.alt \in 1 .. Len(t.alts)
          /\ v = [alt |-> v.alt, content |-> v.content]
          /\ PlainValue(t.alts[v.alt], v.content)
       \/ /\ Cpp(c) /\ v.alt = 0
          /\ v.index \in Nat /\ v.content \in Seq({0, 1})

=============================================================================
