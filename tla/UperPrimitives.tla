--------------------------- MODULE UperPrimitives ---------------------------
(***************************************************************************)
(* The fields of the runtime: src/runtime/uper, its C translation          *)
(* src/runtime/c/asn1_uper.c, and src/runtime/aper.                        *)
(*                                                                         *)
(* A writer is the sequence of the bits written so far: BitStream shows    *)
(* that no bit is lost and that padding is zero.  A reader is a message    *)
(* and an offset; what it reads is a record of the value and the offset    *)
(* after it.  Bad is the value of a read that throws.                      *)
(***************************************************************************)
EXTENDS Integers, Sequences, SequencesExt

CONSTANTS Octet,      \* bits of an octet: 8 in the code
          Word,       \* octets of an int64_t and of a double: 8 in the code
          Unseen(_),  \* how far above 2^k a range may be for std::log2 to give k
          Bad         \* not a value

ASSUME WidthAssumption ==
  /\ Octet \in Nat /\ Octet >= 4
  /\ Word \in Nat /\ Word >= 4

(* The powers of 2 that fit in 64 bits, and 2^64.                          *)
Power[k \in 0 .. Octet * Word] == IF k = 0 THEN 1 ELSE 2 * Power[k - 1]

(* The octets of an integer are counted in one octet.                      *)
ASSUME WordAssumption == Word < Power[Octet - 1]

(* The logarithm of a number of 32 bits rounds to one that is not less.    *)
ASSUME UnseenAssumption ==
  \A k \in 0 .. Octet * Word :
    /\ Unseen(k) \in 0 .. Power[k] - 1
    /\ k <= 4 * Octet => Unseen(k) = 0

-----------------------------------------------------------------------------
(* Bits and octets.                                                        *)

(* The n low bits of v, two's complement.                                  *)
Bits(v, n) == [i \in 1 .. n |-> (v \div Power[n - i]) % 2]

Number(bits) ==
  LET sum[j \in 0 .. Len(bits)] == IF j = 0 THEN 0 ELSE 2 * sum[j - 1] + bits[j]
  IN  sum[Len(bits)]

(* The value of n bits in two's complement.                                *)
Signed(v, n) == ((v + Power[n - 1]) % Power[n]) - Power[n - 1]

OctetsOf(n) == (n + Octet - 1) \div Octet

Aligned(offset) == Octet * OctetsOf(offset)

Zeros(n) == [i \in 1 .. n |-> 0]

Align(w) == w \o Zeros(Aligned(Len(w)) - Len(w))

Read(value, at) == [value |-> value, at |-> at]

(* What follows a read, given its value and the offset after it.           *)
Then(x, Continue(_, _)) == Continue(x.value, x.at)

(* A read stops silently at the end of the message.                        *)
After(msg, at, n) ==
  IF at + n <= Len(msg) THEN at + n ELSE IF at < Len(msg) THEN Len(msg) ELSE at

GetBits(msg, at, n) ==
  Then(Read(msg, After(msg, at, n)), LAMBDA all, end :
    Read(Number(SubSeq(all, at + 1, end)), end))

(* The n flags of a bitmap: a number, of which the last bits were read.    *)
GetFlags(msg, at, n) ==
  Then(Read(SubSeq(msg, at + 1, After(msg, at, n)), After(msg, at, n)), LAMBDA bits, end :
    Read(Zeros(n - Len(bits)) \o bits, end))

-----------------------------------------------------------------------------
(* Constrained integers and lengths.                                       *)

(* maxValue - minValue + 1 in an int64_t.                                  *)
Extent(lo, hi) == Signed(hi - lo + 1, Octet * Word)

(* The bits of a range: C shifts, C++ rounds up a logarithm.               *)
RangeBits(lang, lo, hi) ==
  LET values == Extent(lo, hi)
      Slack(k) == IF lang = "cpp" THEN Unseen(k) ELSE 0
  IN  IF lo >= hi \/ values <= 0 THEN 0
      ELSE CHOOSE k \in 0 .. Octet * Word :
             /\ values <= Power[k] + Slack(k)
             /\ k > 0 => values > Power[k - 1] + Slack(k - 1)

PutConstrained(lang, w, v, lo, hi) == w \o Bits(v - lo, RangeBits(lang, lo, hi))

GetConstrained(lang, msg, at, lo, hi) ==
  Then(GetBits(msg, at, RangeBits(lang, lo, hi)), LAMBDA v, end :
    Read(lo + v, end))

(* Lengths of one octet, of two, and in fragments.                         *)
Short == Power[Octet - 1]
Long == Power[2 * Octet - 2]
MaxFragments == Power[Octet - 2]

Fragments(n) == (n + Long - 1) \div Long

PutLength(w, n) ==
  w \o IF n < Short THEN Bits(n, Octet)
       ELSE IF n < Long THEN Bits(2 * Long + n, 2 * Octet)
       ELSE Bits(3 * MaxFragments + ((Fragments(n) - 1) % MaxFragments), Octet)

GetLength(msg, at) ==
  Then(GetBits(msg, at, Octet), LAMBDA first, next :
    IF first < Short THEN Read(first, next)
    ELSE IF first < 3 * MaxFragments
    THEN Then(GetBits(msg, next, Octet), LAMBDA second, end :
           Read((first % MaxFragments) * Power[Octet] + second, end))
    ELSE Read(((first % MaxFragments) + 1) * Long, next))

(* encodeUnconstrainedLength of C++ throws beyond 64 fragments.            *)
LengthRefused(lang, n) == lang = "cpp" /\ Fragments(n) > MaxFragments

-----------------------------------------------------------------------------
(* Unconstrained integers: the fewest octets of two's complement.          *)

Needs(v, k) == -(Power[k * Octet - 1]) <= v /\ v < Power[k * Octet - 1]

(* Fault: a positive integer is written without room for its sign.         *)
SignedOctetsNoSign(v) ==
  CHOOSE k \in 1 .. Word : /\ -(Power[k * Octet]) <= v /\ v < Power[k * Octet]
                           /\ \A j \in 1 .. k - 1 : v < -(Power[j * Octet]) \/ v >= Power[j * Octet]

SignedOctets(v) ==
  CHOOSE k \in 1 .. Word : Needs(v, k) /\ \A j \in 1 .. k - 1 : ~ Needs(v, j)

PutUnconstrained(w, v) ==
  PutLength(w, SignedOctets(v)) \o Bits(v, Octet * SignedOctets(v))

(* An integer of n octets.  Above 8 C++ throws; the shift of C is undefined.*)
GetOctets(msg, at, n) ==
  IF n = 0 THEN Read(0, at)
  ELSE IF n > Word THEN Read(Bad, at)
  ELSE Then(GetBits(msg, at, Octet * n), LAMBDA v, end :
         Read(Signed(v, Octet * n), end))

GetUnconstrained(msg, at) ==
  Then(GetLength(msg, at), LAMBDA n, next : GetOctets(msg, next, n))

-----------------------------------------------------------------------------
(* Aligned PER.  A large range has a header with the number of octets,     *)
(* four at most; the extensible variant has the extension bit with it.     *)

LargeOctets(v) == CHOOSE k \in 1 .. 4 :
  (v < Power[k * Octet] \/ k = 4) /\ (k > 1 => v >= Power[(k - 1) * Octet])

(* The bits of a range of one octet or two.                                *)
MediumBits(lo, hi) == IF Extent(lo, hi) = Power[Octet] THEN Octet ELSE 2 * Octet

PutMedium(w, v, lo, hi) == Align(w) \o Bits(v - lo, MediumBits(lo, hi))

GetMedium(msg, at, lo, hi) ==
  Then(GetBits(msg, Aligned(at), MediumBits(lo, hi)), LAMBDA v, end :
    Read(lo + v, end))

(* place is the value of the lowest bit of the number in the header.       *)
PutLarge(w, v, k, place) == w \o Bits((k - 1) * place, Octet) \o Bits(v, k * Octet)

GetLarge(msg, at, lo, place, limit) ==
  Then(GetBits(msg, at, Octet), LAMBDA head, next :
    Then(GetBits(msg, next, (((head \div place) % limit) + 1) * Octet), LAMBDA v, end :
      Read(lo + v, end)))

PutAper(w, v, lo, hi) ==
  LET values == Extent(lo, hi)
  IN  IF values = 1 THEN w
      ELSE IF values < Power[Octet] THEN Align(PutConstrained("cpp", w, v, lo, hi))
      ELSE IF values <= Power[2 * Octet] THEN PutMedium(w, v, lo, hi)
      ELSE PutLarge(Align(w), v - lo, LargeOctets(v - lo), MaxFragments)

GetAper(msg, at, lo, hi) ==
  LET values == Extent(lo, hi)
  IN  IF values = 1 THEN Read(lo, at)
      ELSE IF values < Power[Octet]
      THEN Then(GetConstrained("cpp", msg, at, lo, hi), LAMBDA v, end :
             Read(v, Aligned(end)))
      ELSE IF values <= Power[2 * Octet] THEN GetMedium(msg, at, lo, hi)
      ELSE GetLarge(msg, Aligned(at), lo, MaxFragments, 4)

PutAperExt(w, v, lo, hi) ==
  LET values == Extent(lo, hi)
  IN  IF values = 1 THEN Align(Append(w, 0))
      ELSE IF values < Power[Octet] THEN PutConstrained("cpp", Append(w, 0), v, lo, hi)
      ELSE IF values <= Power[2 * Octet] THEN PutMedium(Append(w, 0), v, lo, hi)
      ELSE PutLarge(w, v - lo, LargeOctets(v - lo), Power[Octet - 4])

(* isExtended is the bit that is read first; an INTEGER ignores it.        *)
GetAperExt(msg, at, lo, hi) ==
  LET values == Extent(lo, hi)
      next == After(msg, at, 1)
  IN  IF values = 1 THEN Read(lo, Aligned(next))
      ELSE IF values < Power[Octet] THEN GetConstrained("cpp", msg, next, lo, hi)
      ELSE IF values <= Power[2 * Octet] THEN GetMedium(msg, next, lo, hi)
      ELSE GetLarge(msg, at, lo, Power[Octet - 4], 8)

(* One to four octets or all of them.                                      *)
AperOctets(v) == IF SignedOctets(v) <= 4 THEN SignedOctets(v) ELSE Word

PutAperUnconstrained(w, v) ==
  Align(w) \o Bits(AperOctets(v), Octet) \o Bits(v, Octet * AperOctets(v))

(* A number of octets above 8 is not refused: the last 8 count.            *)
GetAperUnconstrained(msg, at) ==
  Then(GetBits(msg, Aligned(at), Octet), LAMBDA n, next :
    IF n <= Word THEN GetOctets(msg, next, n)
    ELSE GetOctets(msg, After(msg, next, Octet * (n - Word)), Word))

-----------------------------------------------------------------------------
(* CHOICE indexes, open types, REAL and OBJECT IDENTIFIER.                 *)

PutIndex(lang, w, i, n) == PutConstrained(lang, w, i, 0, n - 1)

GetIndex(lang, msg, at, n) == GetConstrained(lang, msg, at, 0, n - 1)

(* The length counts octets, the content is written to its last bit.       *)
PutOpen(w, content) == Align(PutLength(w, OctetsOf(Len(content)))) \o content

(* The n bits from offset at, with zeros for those beyond the message.     *)
Taken(msg, at, n) ==
  Then(Read(SubSeq(msg, at + 1, After(msg, at, n)), After(msg, at, n)), LAMBDA bits, end :
    Read(bits \o Zeros(n - Len(bits)), end))

GetOpen(msg, at) ==
  Then(GetLength(msg, at), LAMBDA n, next : Taken(msg, Aligned(next), Octet * n))

(* A double is its bits, as an unsigned number.                            *)
PutReal(w, v) == PutLength(w, Word) \o Bits(v, Octet * Word)

GetReal(msg, at) ==
  Then(GetLength(msg, at), LAMBDA n, next :
    IF n = Word THEN GetBits(msg, next, Octet * Word) ELSE Read(Bad, next))

(* A component, a uint64_t, has Octet - 1 bits in an octet; all octets but *)
(* the last have the high bit.                                             *)
Shifted(n, groups) == n \div Power[(Octet - 1) * groups]

Groups == ((Octet * Word) \div (Octet - 1)) + 1

ComponentOctets(n) ==
  LET size == CHOOSE k \in 1 .. Groups :
                Shifted(n, k - 1) < Short /\ (k > 1 => Shifted(n, k - 1) > 0)
  IN  [i \in 1 .. size |-> (IF i < size THEN Short ELSE 0) + (Shifted(n, size - i) % Short)]

ComponentsOf(arcs) ==
  [i \in 1 .. Len(arcs) - 1 |->
     IF i = 1 THEN (40 * arcs[1] + arcs[2]) % Power[Octet * Word] ELSE arcs[i + 1]]

OidOctets(arcs) ==
  LET list == ComponentsOf(arcs)
      octets[i \in 0 .. Len(list)] ==
        IF i = 0 THEN <<>> ELSE octets[i - 1] \o ComponentOctets(list[i])
  IN  octets[Len(list)]

PutOctets(w, octets) ==
  w \o [b \in 1 .. Octet * Len(octets) |->
           Bits(octets[((b - 1) \div Octet) + 1], Octet)[((b - 1) % Octet) + 1]]

PutOid(w, arcs) == PutOctets(PutLength(w, Len(OidOctets(arcs))), OidOctets(arcs))

(* The components that are complete, and the one that is not.              *)
NextOctet(s, o) ==
  LET sum == (s.rest * Short + (o % Short)) % Power[Octet * Word]
  IN  IF o >= Short THEN [done |-> s.done, rest |-> sum, open |-> TRUE]
      ELSE [done |-> Append(s.done, sum), rest |-> 0, open |-> FALSE]

Components(octets) ==
  LET after[i \in 0 .. Len(octets)] ==
        IF i = 0 THEN [done |-> <<>>, rest |-> 0, open |-> FALSE]
        ELSE NextOctet(after[i - 1], octets[i])
  IN  after[Len(octets)]

Arcs(c) ==
  IF c.open THEN Bad
  ELSE IF c.done = <<>> THEN <<>>
  ELSE <<c.done[1] \div 40, c.done[1] % 40>> \o Tail(c.done)

GetOid(msg, at) ==
  Then(GetLength(msg, at), LAMBDA n, next :
    Read(Arcs(Components([i \in 1 .. n |-> GetBits(msg, next + Octet * (i - 1), Octet).value])),
         After(msg, next, Octet * n)))

=============================================================================
