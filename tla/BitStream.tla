----------------------------- MODULE BitStream -----------------------------
(***************************************************************************)
(* BitWriter and BitReader (src/runtime/core), and their C translation     *)
(* (src/runtime/c): a buffer of whole octets, filled and read bit by bit, *)
(* most significant bit first.                                             *)
(*                                                                         *)
(* A field is the bit string that writeBits or writeBytes puts into the    *)
(* buffer; the empty field <<>> stands for alignToOctet.  sent and starts  *)
(* record what was written where, received what a reader got while it      *)
(* asked for the same fields in the same order; the code has none of them. *)
(***************************************************************************)
EXTENDS Integers, Sequences

CONSTANTS Fields,           \* the bit strings that are written
          Skips,            \* numbers of bits a reader may skip
          MaxBits,          \* bound on the length of a message
          MaxFields,        \* bound on the fields and aligns of a message
          Allocate(_, _)    \* length of the buffer after it has grown

Bit == {0, 1}

OctetBits == 8

Octets(n) == (n + OctetBits - 1) \div OctetBits

Multiple(n) == n % OctetBits = 0

ASSUME BoundsAssumption == MaxBits \in Nat /\ MaxFields \in Nat

ASSUME FieldsAssumption == Fields \subseteq Seq(Bit) \ {<<>>} /\ Skips \subseteq Nat

(* A buffer that is too short grows to whole octets that hold the need.    *)
ASSUME AllocateAssumption ==
  \A have, need \in 0 .. MaxBits :
    Multiple(have) /\ have < need =>
      /\ Allocate(have, need) \in Nat
      /\ Allocate(have, need) >= need
      /\ Multiple(Allocate(have, need))

VARIABLES buffer,     \* the bits of the allocated octets
          bitOffset,  \* of the writer
          open,       \* a reader has been given the buffer
          rSize,      \* bits of the octets given to the reader
          rOffset,    \* bitOffset of the reader
          mirrored,   \* the reader has asked for what was written, in order
          sent, starts, received

writer == <<buffer, bitOffset, sent, starts>>
reader == <<open, rSize, rOffset, mirrored, received>>
vars == <<writer, reader>>

-----------------------------------------------------------------------------
(* std::vector grows by one octet when the bit to be written is not in it. *)
AllocateVector(have, need) == OctetBits * Octets(need)

(* bw_ensure_capacity doubles the capacity, from 64 octets in the code;    *)
(* FirstOctets is lowered in the runs so that doubling happens.            *)
AllocateDoubling(FirstOctets, have, need) ==
  LET capacities == {OctetBits * FirstOctets * 2^k : k \in 0 .. need}
  IN  CHOOSE c \in capacities :
        c >= need /\ \A d \in capacities : d >= need => c <= d

(* Faults of a write: it looks for room once, for its first bit only; it   *)
(* stores octets over those in the buffer.                                 *)
WrittenRoomForFirst(buf, offset, bits) ==
  LET size == IF offset < Len(buf) THEN Len(buf)
              ELSE Allocate(Len(buf), offset + Len(bits))
  IN  [i \in 1 .. size |->
         IF i > offset /\ i <= offset + Len(bits) THEN bits[i - offset]
         ELSE IF i <= Len(buf) THEN buf[i] ELSE 0]

WrittenOverOctet(buf, offset, bits) ==
  LET need == offset + Len(bits)
      size == IF need <= Len(buf) THEN Len(buf) ELSE Allocate(Len(buf), need)
  IN  [i \in 1 .. size |->
         IF i > offset /\ i <= need THEN bits[i - offset]
         ELSE IF i <= offset - (offset % OctetBits) THEN buf[i] ELSE 0]

(* The buffer with bits written from an offset on; new octets are zero.    *)
Written(buf, offset, bits) ==
  LET need == offset + Len(bits)
      size == IF need <= Len(buf) THEN Len(buf) ELSE Allocate(Len(buf), need)
  IN  [i \in 1 .. size |->
         IF i > offset /\ i <= need THEN bits[i - offset]
         ELSE IF i <= Len(buf) THEN buf[i]
         ELSE 0]

Aligned(offset) ==
  IF Multiple(offset) THEN offset
  ELSE offset + (OctetBits - (offset % OctetBits))

-----------------------------------------------------------------------------

Init ==
  /\ buffer = <<>> /\ bitOffset = 0 /\ sent = <<>> /\ starts = <<>>
  /\ open = FALSE /\ rSize = 0 /\ rOffset = 0
  /\ mirrored = FALSE /\ received = <<>>

Note(field) ==
  /\ sent' = Append(sent, field)
  /\ starts' = Append(starts, bitOffset)

WriteBits(bits) ==
  /\ ~ open
  /\ bitOffset + Len(bits) <= MaxBits /\ Len(sent) < MaxFields
  /\ buffer' = Written(buffer, bitOffset, bits)
  /\ bitOffset' = bitOffset + Len(bits)
  /\ Note(bits)
  /\ UNCHANGED reader

AlignWriter ==
  /\ ~ open
  /\ Aligned(bitOffset) <= MaxBits /\ Len(sent) < MaxFields
  /\ bitOffset' = Aligned(bitOffset)
  /\ Note(<<>>)
  /\ UNCHANGED <<buffer, reader>>

(* The message is handed over: getBuffer() and getBufferSize().            *)
OpenReader ==
  /\ ~ open
  /\ open' = TRUE
  /\ rSize' = OctetBits * Octets(bitOffset)
  /\ rOffset' = 0
  /\ mirrored' = TRUE
  /\ received' = <<>>
  /\ UNCHANGED writer

(* The writer is reset for the next message; its buffer is cleared, so the *)
(* reader of the last one is not used any more.                            *)
ResetWriter ==
  /\ buffer' = <<>> /\ bitOffset' = 0 /\ sent' = <<>> /\ starts' = <<>>
  /\ open' = FALSE /\ rSize' = 0 /\ rOffset' = 0
  /\ mirrored' = FALSE /\ received' = <<>>

(* The reader asks for the field that was written next.                    *)
Follows(field) ==
  /\ mirrored
  /\ Len(received) < Len(sent)
  /\ Len(sent[Len(received) + 1]) = field

Hear(field, bits) ==
  /\ mirrored' = Follows(field)
  /\ received' = IF Follows(field) THEN Append(received, bits) ELSE received

(* Fault: the last bit of the buffer is not read.                          *)
AvailableOneTooFew(n) ==
  IF rOffset >= rSize THEN 0
  ELSE IF rOffset + n < rSize THEN n ELSE (rSize - rOffset) - 1

(* readBits stops silently at the end of the buffer.                       *)
Available(n) ==
  IF rOffset >= rSize THEN 0
  ELSE IF rOffset + n <= rSize THEN n ELSE rSize - rOffset

ReadBits(n) ==
  /\ open
  /\ rOffset' = rOffset + Available(n)
  /\ Hear(n, SubSeq(buffer, rOffset + 1, rOffset + Available(n)))
  /\ UNCHANGED <<writer, open, rSize>>

AlignReader ==
  /\ open
  /\ rOffset' = Aligned(rOffset)
  /\ Hear(0, <<>>)
  /\ UNCHANGED <<writer, open, rSize>>

(* skip does not look at the end of the buffer.                            *)
Skip(n) ==
  /\ open
  /\ rOffset + n <= 2 * MaxBits
  /\ rOffset' = rOffset + n
  /\ mirrored' = FALSE
  /\ UNCHANGED <<writer, open, rSize, received>>

ResetReader ==
  /\ open
  /\ rOffset' = 0
  /\ mirrored' = TRUE
  /\ received' = <<>>
  /\ UNCHANGED <<writer, open, rSize>>

Next ==
  \/ \E bits \in Fields : WriteBits(bits)
  \/ AlignWriter
  \/ OpenReader
  \/ ResetWriter
  \/ \E bits \in Fields : ReadBits(Len(bits))
  \/ AlignReader
  \/ \E n \in Skips : Skip(n)
  \/ ResetReader

Spec == Init /\ [][Next]_vars

-----------------------------------------------------------------------------

TypeOK ==
  /\ buffer \in Seq(Bit)
  /\ bitOffset \in 0 .. MaxBits
  /\ open \in BOOLEAN /\ mirrored \in BOOLEAN
  /\ rSize \in Nat /\ rOffset \in Nat
  /\ sent \in Seq(Fields \cup {<<>>})
  /\ starts \in Seq(0 .. MaxBits)
  /\ received \in Seq(Seq(Bit))

(* The octets that getBufferSize() counts are allocated, so the buffer may *)
(* be read to that length whatever was written and aligned before.         *)
BufferCoversOffset ==
  /\ Multiple(Len(buffer))
  /\ OctetBits * Octets(bitOffset) <= Len(buffer)

EndOf(k) ==
  IF sent[k] = <<>> THEN Aligned(starts[k]) ELSE starts[k] + Len(sent[k])

(* Fields follow each other without gap or overlap, up to bitOffset.       *)
FieldsTile ==
  /\ Len(starts) = Len(sent)
  /\ \A k \in DOMAIN sent :
       /\ EndOf(k) = IF k = Len(sent) THEN bitOffset ELSE starts[k + 1]
       /\ EndOf(k) <= bitOffset
  /\ (IF sent = <<>> THEN bitOffset ELSE starts[1]) = 0

(* No later write or growth of the buffer disturbs a field.                *)
FieldsIntact ==
  \A k \in DOMAIN sent : \A i \in DOMAIN sent[k] :
    buffer[starts[k] + i] = sent[k][i]

(* Every allocated bit outside the fields is zero: the padding an align    *)
(* skips without writing it, the rest of the last octet, unused capacity.  *)
PaddingIsZero ==
  \A i \in DOMAIN buffer :
    (\A k \in DOMAIN sent : ~ (starts[k] < i /\ i <= starts[k] + Len(sent[k])))
      => buffer[i] = 0

(* A message is the fields that were written, and zeros.                   *)
MessageIntact == FieldsIntact /\ PaddingIsZero

(* A reader that asks for what was written is where the writer was, and    *)
(* has got what was written.                                               *)
ReaderInStep ==
  open =>
    /\ rSize = OctetBits * Octets(bitOffset)
    /\ mirrored =>
         /\ Len(received) <= Len(sent)
         /\ rOffset = IF Len(received) = Len(sent) THEN bitOffset
                      ELSE starts[Len(received) + 1]
         /\ \A k \in DOMAIN received : received[k] = sent[k]

Channel == INSTANCE FieldChannel WITH
             Fields <- Fields \cup {<<>>},
             closed <- open

ChannelSpec == Channel!Spec

=============================================================================
