--------------------------- MODULE SequenceCodec ----------------------------
(***************************************************************************)
(* A value of a SEQUENCE or SET goes from a generated encoder to a         *)
(* generated decoder: CodecEmitter::generateSequenceLogic and              *)
(* generateSetLogic for C++, CCodecEmitter::generateSequenceLogic for C.   *)
(* The two programs may be in different languages, and may be generated    *)
(* from different versions of a type, one with more extension additions.   *)
(*                                                                         *)
(* Members are named by their place in the declaration, additions after    *)
(* the root.  starts records where the writer stood before each root       *)
(* member and after the last; the code has no such record.                 *)
(***************************************************************************)
EXTENDS MemberCodec

CONSTANTS Names,        \* of the exchanges that take place
          Exchange(_)   \* the exchange with a name

Members(st) == st.root \o st.additions

(* C++ sorts the members of a SET by their tags and puts the marker last.  *)
ByTag(st) ==
  LET places == DOMAIN Members(st)
  IN  InOrder(places, {p \in places \X places :
                         Members(st)[p[1]].tag < Members(st)[p[2]].tag})

RootOrder(c, st) ==
  IF st.set /\ Cpp(c) THEN ByTag(st) ELSE [k \in DOMAIN st.root |-> k]

AdditionOrder(c, st) ==
  IF st.set /\ Cpp(c) THEN <<>>
  ELSE [k \in DOMAIN st.additions |-> Len(st.root) + k]

(* The positions of the root members with a bit in the preamble.           *)
OptionalPlaces(c, st) ==
  {j \in DOMAIN RootOrder(c, st) :
     Members(st)[RootOrder(c, st)[j]].presence # "mandatory"}

Optionals(c, st) ==
  LET places == Ascending(OptionalPlaces(c, st))
  IN  [b \in DOMAIN places |-> RootOrder(c, st)[places[b]]]

(* What a schema can say of a SEQUENCE or SET.  The tags of a SET are      *)
(* distinct, a DEFAULT is a number, an identifier or a string of the type, *)
(* and presenceBitmap has 64 bits.                                         *)
Presence(c, m) ==
  /\ m.presence \in {"mandatory", "optional", "default"}
  /\ m.presence = "default" =>
       /\ m.type.kind \in {"integer", "unbounded", "boolean", "enumerated", "octets", "real"}
       /\ MemberValue(c, m.type, m.default)
       /\ IF m.type.kind = "octets" THEN ListFits(c, m.type, m.default)
          ELSE ScalarFits(c, m.type, m.default)

SequenceType(c, st) ==
  /\ st.root \in Seq(ToSet(st.root)) /\ st.additions \in Seq(ToSet(st.additions))
  /\ st.set \in BOOLEAN /\ st.marker \in BOOLEAN
  /\ \A k \in DOMAIN Members(st) :
       /\ MemberType(Members(st)[k].type) /\ Builds(c, Members(st)[k].type)
       /\ Presence(c, Members(st)[k])
  /\ \A k \in DOMAIN st.additions : st.additions[k].presence = "optional"
  /\ st.set => /\ \A k \in DOMAIN Members(st) : Members(st)[k].tag \in Int
               /\ \A j, k \in DOMAIN Members(st) :
                    Members(st)[j].tag = Members(st)[k].tag => j = k
  /\ Cardinality(OptionalPlaces(c, st)) <= Octet * Word

(* C++ has no value only for an optional member, C none where has_ is 0.   *)
Given(c, m, v) ==
  \/ v # Absent /\ MemberValue(c, m.type, v)
  \/ v = Absent /\ m.presence \in (IF Cpp(c) THEN {"optional"} ELSE {"optional", "default"})

(* An exchange has the codecs of its ends, from and to, the type as each   *)
(* was generated from, sent and read, and the value given.  A type has     *)
(* root members, a marker, additions, and may be a SET.  Of two versions   *)
(* one has more additions.                                                 *)
ASSUME ExchangesAssumption ==
  \A n \in Names :
    LET e == Exchange(n)
    IN  /\ e.sent.root = e.read.root /\ e.sent.set = e.read.set
        /\ e.sent.marker = e.read.marker
        /\ \A k \in DOMAIN Members(e.sent) \cap DOMAIN Members(e.read) :
             Members(e.sent)[k] = Members(e.read)[k]
        /\ SequenceType(e.from, e.sent) /\ SequenceType(e.to, e.read)
        /\ \A c \in {e.from, e.to} :
             c.lang \in {"c", "cpp"} /\ c.aper \in BOOLEAN /\ (c.lang = "c" => ~ c.aper)
        /\ e.from.aper = e.to.aper
        /\ DOMAIN e.given = DOMAIN Members(e.sent)
        /\ \A k \in DOMAIN e.given : Given(e.from, Members(e.sent)[k], e.given[k])

(* C++ leaves out a root member that equals its DEFAULT, C goes by has_.   *)
Has(c, st, k, v) ==
  IF Members(st)[k].presence = "default" /\ Cpp(c) /\ k \in ToSet(RootOrder(c, st))
  THEN v # Members(st)[k].default
  ELSE v # Absent

(* A value before anything is decoded.                                     *)
Fresh(c, st) ==
  [k \in DOMAIN Members(st) |->
     IF Members(st)[k].presence = "default" /\ Cpp(c)
     THEN Members(st)[k].default ELSE Absent]

VARIABLES exchange,  \* its name
          phase,
          i,        \* position of the next member
          wire,     \* the writer
          starts,
          at,       \* offset of the reader
          flags,    \* the bits of the preamble, then of the extension bitmap
          extended, \* the extension marker that was read
          got,      \* the value that is decoded
          unknown   \* unknown_extensions

vars == <<exchange, phase, i, wire, starts, at, flags, extended, got, unknown>>

writing == <<wire, starts>>
reading == <<at, flags, extended, got, unknown>>

from == Exchange(exchange).from
to == Exchange(exchange).to
sent == Exchange(exchange).sent
read == Exchange(exchange).read
given == Exchange(exchange).given

Init ==
  /\ exchange \in Names
  /\ phase = "marker" /\ i = 1
  /\ wire = <<>> /\ starts = <<>>
  /\ at = 0 /\ flags = <<>> /\ extended = FALSE
  /\ got = Fresh(to, read) /\ unknown = <<>>

-----------------------------------------------------------------------------
(* The encoder.                                                            *)

IsSent(k) == Has(from, sent, k, given[k])

GivenFlags(order) == [j \in DOMAIN order |-> IF IsSent(order[j]) THEN 1 ELSE 0]

(* C never announces additions.                                            *)
Announced ==
  Cpp(from) /\ \E k \in ToSet(AdditionOrder(from, sent)) : IsSent(k)

(* Fault: the marker counts the additions.                                 *)
EncodeMarkerCount ==
  /\ phase = "marker"
  /\ wire' = IF sent.marker
             THEN Append(wire, Cardinality({k \in ToSet(AdditionOrder(from, sent)) : IsSent(k)}))
             ELSE wire
  /\ phase' = "preamble"
  /\ UNCHANGED <<exchange, i, starts, reading>>

EncodeMarker ==
  /\ phase = "marker"
  /\ wire' = IF sent.marker THEN Append(wire, IF Announced THEN 1 ELSE 0) ELSE wire
  /\ phase' = "preamble"
  /\ UNCHANGED <<exchange, i, starts, reading>>

EncodePreamble ==
  /\ phase = "preamble"
  /\ wire' = wire \o GivenFlags(Optionals(from, sent))
  /\ phase' = "root"
  /\ UNCHANGED <<exchange, i, starts, reading>>

EncodeMember ==
  LET k == RootOrder(from, sent)[i]
      t == Members(sent)[k].type
  IN  /\ phase = "root" /\ i <= Len(RootOrder(from, sent))
      /\ IsSent(k) => Accepts(from, t, given[k])
      /\ wire' = IF IsSent(k)
                 THEN PutMember(from, wire, t, given[k]) ELSE wire
      /\ starts' = Append(starts, Len(wire))
      /\ i' = i + 1
      /\ UNCHANGED <<exchange, phase, reading>>

(* An exception, or an error code: there is no message.                    *)
RefuseMember ==
  LET order == IF phase = "root" THEN RootOrder(from, sent)
               ELSE AdditionOrder(from, sent)
  IN  /\ phase = "root" \/ (phase = "additions" /\ Announced)
      /\ i <= Len(order)
      /\ IsSent(order[i])
      /\ ~ Accepts(from, Members(sent)[order[i]].type, given[order[i]])
      /\ phase' = "refused"
      /\ UNCHANGED <<exchange, i, writing, reading>>

EncodeBitmap ==
  LET order == AdditionOrder(from, sent)
  IN  /\ phase = "root" /\ i > Len(RootOrder(from, sent))
      /\ wire' = IF Announced THEN PutLength(wire, Len(order)) \o GivenFlags(order)
                 ELSE wire
      /\ starts' = Append(starts, Len(wire))
      /\ phase' = "additions" /\ i' = 1
      /\ UNCHANGED <<exchange, reading>>

(* The addition is written to the writer of the message; the open type     *)
(* that follows was made for it and is empty.                              *)
EncodeAddition ==
  LET k == AdditionOrder(from, sent)[i]
      t == Members(sent)[k].type
  IN  /\ phase = "additions" /\ Announced /\ i <= Len(AdditionOrder(from, sent))
      /\ IsSent(k) => Accepts(from, t, given[k])
      /\ wire' = IF IsSent(k)
                 THEN PutOpen(PutMember(from, wire, t, given[k]), <<>>) ELSE wire
      /\ i' = i + 1
      /\ UNCHANGED <<exchange, phase, starts, reading>>

(* The reader gets whole octets.                                           *)
HandOver ==
  /\ phase = "additions" /\ (Announced => i > Len(AdditionOrder(from, sent)))
  /\ wire' = Align(wire)
  /\ phase' = "read marker"
  /\ UNCHANGED <<exchange, i, starts, reading>>

-----------------------------------------------------------------------------
(* The decoder.                                                            *)

DecodeMarker ==
  LET x == GetBits(wire, at, IF read.marker THEN 1 ELSE 0)
  IN  /\ phase = "read marker"
      /\ extended' = (x.value = 1)
      /\ at' = x.at
      /\ phase' = "read preamble"
      /\ UNCHANGED <<exchange, i, writing, flags, got, unknown>>

DecodePreamble ==
  LET n == Len(Optionals(to, read))
      x == GetFlags(wire, at, n)
  IN  /\ phase = "read preamble"
      /\ flags' = x.value
      /\ at' = x.at
      /\ phase' = "read root" /\ i' = 1
      /\ UNCHANGED <<exchange, writing, extended, got, unknown>>

(* Fault: the bit of a member with a DEFAULT is not counted.               *)
IsReadUncounted(k) ==
  LET before == Cardinality({j \in 1 .. i : Members(read)[RootOrder(to, read)[j]].presence = "optional"})
  IN  Members(read)[k].presence # "mandatory" /\ before > 0 => flags[before] = 1

(* The bit of a member is found by counting the optional members before it. *)
IsRead(k) ==
  Members(read)[k].presence # "mandatory" =>
    flags[Cardinality(OptionalPlaces(to, read) \cap 1 .. i)] = 1

(* The value that member i leaves in got, and the offset after it.         *)
MemberRead ==
  LET k == RootOrder(to, read)[i]
  IN  IF IsRead(k) THEN GetMember(to, Members(read)[k].type, wire, at)
      ELSE Read(got[k], at)

DecodeMember ==
  /\ phase = "read root" /\ i <= Len(RootOrder(to, read))
  /\ \E x \in {MemberRead} :
       /\ x.value # Bad
       /\ got' = [got EXCEPT ![RootOrder(to, read)[i]] = x.value]
       /\ at' = x.at
  /\ i' = i + 1
  /\ UNCHANGED <<exchange, phase, writing, flags, extended, unknown>>

RootFails ==
  /\ phase = "read root" /\ i <= Len(RootOrder(to, read))
  /\ MemberRead.value = Bad
  /\ phase' = "failed"
  /\ UNCHANGED <<exchange, i, writing, reading>>

(* C does not skip the additions.                                          *)
DecodeBitmap ==
  LET n == GetLength(wire, at)
      x == GetFlags(wire, n.at, n.value)
      go == Cpp(to) /\ extended
  IN  /\ phase = "read root" /\ i > Len(RootOrder(to, read))
      /\ flags' = IF go THEN x.value ELSE <<>>
      /\ at' = IF go THEN x.at ELSE at
      /\ phase' = "read additions" /\ i' = 1
      /\ UNCHANGED <<exchange, writing, extended, got, unknown>>

(* A known addition is decoded from its open type.                         *)
DecodeAddition ==
  LET order == AdditionOrder(to, read)
  IN  /\ phase = "read additions" /\ i <= Len(flags) /\ i <= Len(order)
      /\ IF flags[i] = 1
         THEN \E open \in {GetOpen(wire, at)} :
                \E x \in {GetMember(to, Members(read)[order[i]].type, open.value, 0)} :
                  /\ x.value # Bad
                  /\ got' = [got EXCEPT ![order[i]] = x.value]
                  /\ at' = open.at
         ELSE UNCHANGED <<got, at>>
      /\ i' = i + 1
      /\ UNCHANGED <<exchange, phase, writing, flags, extended, unknown>>

(* The content of another one is kept.                                     *)
KeepUnknown ==
  /\ phase = "read additions" /\ Len(AdditionOrder(to, read)) < i /\ i <= Len(flags)
  /\ IF flags[i] = 1
     THEN \E open \in {GetOpen(wire, at)} :
            unknown' = Append(unknown, open.value) /\ at' = open.at
     ELSE UNCHANGED <<unknown, at>>
  /\ i' = i + 1
  /\ UNCHANGED <<exchange, phase, writing, flags, extended, got>>

AdditionFails ==
  LET order == AdditionOrder(to, read)
  IN  /\ phase = "read additions" /\ i <= Len(flags) /\ i <= Len(order)
      /\ flags[i] = 1
      /\ GetMember(to, Members(read)[order[i]].type, GetOpen(wire, at).value, 0).value = Bad
      /\ phase' = "failed"
      /\ UNCHANGED <<exchange, i, writing, reading>>

Return ==
  /\ phase = "read additions" /\ i > Len(flags)
  /\ phase' = "delivered"
  /\ UNCHANGED <<exchange, i, writing, reading>>

Next ==
  \/ EncodeMarker \/ EncodePreamble \/ EncodeMember \/ RefuseMember
  \/ EncodeBitmap \/ EncodeAddition \/ HandOver
  \/ DecodeMarker \/ DecodePreamble \/ DecodeMember \/ RootFails
  \/ DecodeBitmap \/ DecodeAddition \/ KeepUnknown \/ AdditionFails \/ Return

Spec == Init /\ [][Next]_vars

-----------------------------------------------------------------------------
(* What two generated programs can exchange: Framed values take the same   *)
(* bits at both ends, Faithful ones also come out as they went in.         *)

(* What GetLength has for the n of PutLength is n.                         *)
Countable(n) == n < Long \/ (n % Long = 0 /\ Fragments(n) <= MaxFragments)

(* The two languages find the same width for a range, and n is in it.      *)
SameWidth(lo, hi) ==
  from.lang # to.lang => RangeBits("c", lo, hi) = RangeBits("cpp", lo, hi)

InWidth(n, lo, hi) == n - lo < Power[RangeBits(from.lang, lo, hi)]

(* No bits for a type at either end, or some at both.                      *)
Silent(t) == Unwritten(from, t) /\ Unwritten(to, t)
Spoken(t) == ~ Unwritten(from, t) /\ ~ Unwritten(to, t)

FramedScalar(t, v) ==
  \/ Silent(t)
  \/ /\ Spoken(t)
     /\ t.kind = "integer" => SameWidth(t.lo, t.hi)
     /\ t.kind = "enumerated" /\ from.lang # to.lang => t.more = 0
     /\ t.kind = "oid" => Countable(Len(OidOctets(v)))
     /\ t.kind = "any" => Len(v) % Octet = 0 /\ Countable(OctetsOf(Len(v)))

FramedPlain(t, v) ==
  IF t.kind \notin Lists THEN FramedScalar(t, v)
  ELSE \/ Silent(t)
       \/ /\ Spoken(t)
          /\ ~ Sized(t) => Countable(Len(v))
          /\ Sized(t) => SameWidth(t.size[1], t.size[2]) /\ InWidth(Len(v), t.size[1], t.size[2])
          /\ t.kind = "items" =>
               /\ ElementsLeftOut(from, t) = ElementsLeftOut(to, t)
               /\ \A x \in ToSet(v) : FramedScalar(t.of, x)

Framed(t, v) ==
  IF t.kind # "choice" THEN FramedPlain(t, v)
  ELSE \/ Silent(t)
       \/ /\ Spoken(t)
          /\ v.alt \in 1 .. Numbered(from, t)
          /\ Numbered(from, t) = Numbered(to, t)
          /\ FramedPlain(t.alts[v.alt], v.content)

(* NULL needs no bits.                                                     *)
FaithfulScalar(t, v) ==
  \/ t.kind = "null"
  \/ /\ ~ Unwritten(from, t)
     /\ t.kind = "integer" =>
          /\ Extent(t.lo, t.hi) > 0
          /\ IF from.aper /\ Extent(t.lo, t.hi) > Power[2 * Octet]
             THEN v - t.lo < Power[4 * Octet] ELSE InWidth(v, t.lo, t.hi)
     /\ t.kind = "enumerated" /\ from.lang # to.lang =>
          \A e \in Roots(t) : RankCpp(t, e) = e - 1
     /\ t.kind = "oid" => v[1] < 2 /\ v[2] < 40

FaithfulPlain(t, v) ==
  IF t.kind \notin Lists THEN FaithfulScalar(t, v)
  ELSE /\ ~ Unwritten(from, t)
       /\ t.kind = "items" =>
            /\ ~ ElementsLeftOut(from, t)
            /\ \A x \in ToSet(v) : FaithfulScalar(t.of, x)

Faithful(t, v) ==
  IF t.kind # "choice" THEN FaithfulPlain(t, v)
  ELSE ~ Unwritten(from, t) /\ FaithfulPlain(t.alts[v.alt], v.content)

(* Versions and languages order the root members alike.                    *)
SameOrder == RootOrder(from, sent) = RootOrder(to, read)

AllFramed ==
  /\ SameOrder
  /\ \A k \in ToSet(RootOrder(from, sent)) :
       IsSent(k) => Framed(Members(sent)[k].type, given[k])

(* A SET OF has no order, and a member that is left out has its DEFAULT.   *)
PlainMeaning(t, v) == IF t.kind = "items" /\ t.set THEN Sorted(v) ELSE v

MemberMeaning(t, v) ==
  IF t.kind # "choice" THEN PlainMeaning(t, v)
  ELSE IF v.alt \in 1 .. Len(t.alts)
  THEN [alt |-> v.alt, content |-> PlainMeaning(t.alts[v.alt], v.content)]
  ELSE v

Meaning(k, v) ==
  LET m == Members(sent)[k]
  IN  IF v # Absent THEN MemberMeaning(m.type, v)
      ELSE IF m.presence = "default" THEN m.default ELSE Absent

-----------------------------------------------------------------------------

Phases == {"marker", "preamble", "root", "additions", "refused", "read marker",
           "read preamble", "read root", "read additions", "failed", "delivered"}

TypeOK ==
  /\ exchange \in Names /\ phase \in Phases
  /\ i \in Nat \ {0}
  /\ wire \in Seq({0, 1}) /\ flags \in Seq({0, 1})
  /\ starts \in Seq(0 .. Len(wire))
  /\ at \in 0 .. Len(wire)
  /\ extended \in BOOLEAN
  /\ DOMAIN got = DOMAIN Members(read)
  /\ unknown \in Seq(Seq({0, 1}))

(* What the C++ decoder has read so far satisfies the constraints of its   *)
(* types, also when the message was not written for them; where the code   *)
(* it calls is empty, a member, an element or the content of an            *)
(* alternative is the new value, which may be none of its type.            *)
DecodedInType ==
  Cpp(to) => \A k \in DOMAIN got :
               \/ got[k] = Fresh(to, read)[k]
               \/ Sound(to, Members(read)[k].type, got[k])

(* Whatever the members are and whichever are left out, the decoder begins *)
(* each root member, and the additions, where the encoder began it: no     *)
(* field takes more or fewer bits at one end than at the other.            *)
MembersInStep ==
  phase = "read root" /\ AllFramed => at = starts[i]

(* The root members that both ends can represent.                          *)
Exchanged ==
  IF ~ AllFramed THEN {}
  ELSE {k \in ToSet(RootOrder(from, sent)) :
          IsSent(k) => Faithful(Members(sent)[k].type, given[k])}

Meanings(value) == [k \in Exchanged |-> Meaning(k, value[k])]

(* The decoder of another language, or of an older or newer version of the *)
(* type, has the root members with the meaning they were given, whatever   *)
(* additions the encoder has put behind them.                              *)
RootIntact ==
  phase \in {"read additions", "delivered"} => Meanings(got) = Meanings(given)

(* The additions that both versions have come out as they went in          *)
(* (IMPLEMENTATION.md:592: "For extension members, emit open-type          *)
(* wrapping", which the decoder takes apart).                              *)
AdditionsDelivered ==
  phase = "delivered" =>
    \A k \in ToSet(AdditionOrder(from, sent)) \cap ToSet(AdditionOrder(to, read)) :
      got[k] = given[k]

(* C writes no additions.                                                  *)
Written ==
  {k \in ToSet(RootOrder(from, sent))
           \cup (IF Announced THEN ToSet(AdditionOrder(from, sent)) ELSE {}) : IsSent(k)}

Transfer == INSTANCE ValueTransfer WITH
  given <- Meanings(given),
  acceptable <- \A k \in Written : Accepts(from, Members(sent)[k].type, given[k]),
  fallible <- Announced \/ ~ AllFramed,
  taken <- IF phase = "delivered" THEN Meanings(got) ELSE Absent,
  outcome <- IF phase \in {"refused", "failed", "delivered"} THEN phase
             ELSE "pending"

(* Nothing is refused that has an encoding, and a decoder gives up only    *)
(* where the ends disagree on the bits or additions were sent.             *)
TransferSpec == Transfer!Spec

=============================================================================
