-------------------------- MODULE BitStream_proofs --------------------------
(***************************************************************************)
(* Proofs about BitStream: what was written is in the buffer, a reader     *)
(* that keeps to the order gets it, and so the stream is a FieldChannel,   *)
(* for every set of fields, every bound and every way to grow the buffer.  *)
(***************************************************************************)
EXTENDS BitStream, SequenceTheorems, TLAPS

(* alignToOctet moves forward by less than an octet to a multiple of 8.    *)
LEMMA AlignedFacts ==
  ASSUME NEW n \in Nat
  PROVE  /\ Aligned(n) \in Nat
         /\ n <= Aligned(n) /\ Aligned(n) < n + OctetBits
         /\ Multiple(Aligned(n))
         /\ OctetBits * Octets(n) = Aligned(n)
         /\ Octets(n) \in Nat
BY DEF Aligned, Multiple, Octets, OctetBits

(* A multiple of 8 that covers n covers the whole octet of n.              *)
LEMMA MultipleCovers ==
  ASSUME NEW n \in Nat, NEW m \in Nat, Multiple(m), n <= m
  PROVE  Aligned(n) <= m
BY DEF Aligned, Multiple, OctetBits

(* std::vector, growing by push_back(0), is an Allocate as the theorems    *)
(* assume it; the runs use the doubling of the C writer.                   *)
THEOREM VectorIsAnAllocate ==
  ASSUME NEW have \in Nat, NEW need \in Nat, Multiple(have), have < need
  PROVE  /\ AllocateVector(have, need) \in Nat
         /\ AllocateVector(have, need) >= need
         /\ Multiple(AllocateVector(have, need))
<1>1. AllocateVector(have, need) = Aligned(need) /\ Aligned(need) \in Nat
  BY AlignedFacts DEF AllocateVector
<1> QED
  BY <1>1, AlignedFacts

(* What writeBits leaves in the buffer.                                    *)
LEMMA WrittenFacts ==
  ASSUME NEW buf \in Seq(Bit), NEW offset \in Nat, NEW bits \in Seq(Bit),
         Multiple(Len(buf)), offset <= Len(buf),
         offset + Len(bits) <= MaxBits
  PROVE  LET new == Written(buf, offset, bits)
             need == offset + Len(bits)
         IN  /\ new \in Seq(Bit)
             /\ Multiple(Len(new)) /\ need <= Len(new) /\ Len(buf) <= Len(new)
             /\ \A i \in 1 .. Len(new) :
                  new[i] = IF i > offset /\ i <= need THEN bits[i - offset]
                           ELSE IF i <= Len(buf) THEN buf[i] ELSE 0
<1> DEFINE need == offset + Len(bits)
           size == IF need <= Len(buf) THEN Len(buf) ELSE Allocate(Len(buf), need)
<1>1. Len(buf) \in Nat /\ Len(bits) \in Nat /\ need \in 0 .. MaxBits
  BY BoundsAssumption
<1>2. size \in Nat /\ Multiple(size) /\ need <= size /\ Len(buf) <= size
  <2>1. CASE need <= Len(buf)
    BY <1>1, <2>1
  <2>2. CASE ~ (need <= Len(buf))
    <3>1. Len(buf) \in 0 .. MaxBits /\ Len(buf) < need
      BY <1>1, <2>2, BoundsAssumption
    <3>2. /\ Allocate(Len(buf), need) \in Nat
          /\ Allocate(Len(buf), need) >= need
          /\ Multiple(Allocate(Len(buf), need))
      BY <1>1, <3>1, AllocateAssumption
    <3> QED
      BY <1>1, <2>2, <3>1, <3>2
  <2> QED
    BY <2>1, <2>2
<1> HIDE DEF size
<1>3. Written(buf, offset, bits) =
        [i \in 1 .. size |-> IF i > offset /\ i <= need THEN bits[i - offset]
                             ELSE IF i <= Len(buf) THEN buf[i] ELSE 0]
  BY DEF Written, size
<1>4. \A i \in 1 .. size :
        (IF i > offset /\ i <= need THEN bits[i - offset]
         ELSE IF i <= Len(buf) THEN buf[i] ELSE 0) \in Bit
  BY <1>1, <1>2 DEF Bit
<1>5. Written(buf, offset, bits) \in [1 .. size -> Bit]
  BY <1>3, <1>4
<1>6. Written(buf, offset, bits) \in Seq(Bit) /\ Len(Written(buf, offset, bits)) = size
  BY <1>2, <1>5
<1> QED
  BY <1>2, <1>3, <1>6

-----------------------------------------------------------------------------

IInv ==
  /\ TypeOK
  /\ BufferCoversOffset
  /\ FieldsTile
  /\ FieldsIntact
  /\ PaddingIsZero
  /\ ReaderInStep

(* What the invariant says of a field, in the form the steps use.          *)
LEMMA FieldInside ==
  ASSUME IInv, NEW k \in DOMAIN sent
  PROVE  /\ k \in 1 .. Len(sent) /\ k \in DOMAIN starts /\ starts[k] \in Nat
         /\ sent[k] \in Seq(Bit)
         /\ starts[k] + Len(sent[k]) <= EndOf(k)
         /\ EndOf(k) <= bitOffset /\ bitOffset <= Len(buffer)
         /\ EndOf(k) \in Nat
<1>1. /\ k \in 1 .. Len(sent) /\ k \in DOMAIN starts /\ starts[k] \in Nat
      /\ sent[k] \in Seq(Bit)
  <2>1. Len(sent) = Len(starts) /\ k \in 1 .. Len(sent)
    BY DEF IInv, FieldsTile, TypeOK
  <2>2. sent[k] \in Fields \cup {<<>>}
    BY <2>1 DEF IInv, TypeOK
  <2>3. sent[k] \in Seq(Bit)
    BY <2>2, FieldsAssumption, EmptySeq
  <2>4. k \in DOMAIN starts /\ starts[k] \in 0 .. MaxBits
    <3>1. starts \in Seq(0 .. MaxBits)
      BY DEF IInv, TypeOK
    <3> QED
      BY <2>1, <3>1, LenProperties
  <2> QED
    BY <2>1, <2>3, <2>4, BoundsAssumption
<1>2. Aligned(starts[k]) \in Nat /\ starts[k] <= Aligned(starts[k])
  BY <1>1, AlignedFacts
<1>3. EndOf(k) <= bitOffset
  BY DEF IInv, FieldsTile
<1>4. bitOffset \in Nat /\ bitOffset <= Len(buffer) /\ Len(buffer) \in Nat
  <2>1. bitOffset \in Nat /\ buffer \in Seq(Bit)
    BY BoundsAssumption DEF IInv, TypeOK
  <2>2. OctetBits * Octets(bitOffset) <= Len(buffer)
    BY DEF IInv, BufferCoversOffset
  <2>3. bitOffset <= Aligned(bitOffset) /\ Aligned(bitOffset) \in Nat
    BY <2>1, AlignedFacts
  <2>4. Aligned(bitOffset) <= Len(buffer)
    BY <2>1, <2>2, AlignedFacts
  <2> QED
    BY <2>1, <2>3, <2>4
<1> QED
  BY <1>1, <1>2, <1>3, <1>4 DEF EndOf

(* A field that is noted comes after the others, which stay as they are.   *)
LEMMA NoteFacts ==
  ASSUME IInv, NEW f \in Fields \cup {<<>>}, Note(f)
  PROVE  /\ sent' \in Seq(Fields \cup {<<>>}) /\ starts' \in Seq(0 .. MaxBits)
         /\ Len(sent) \in Nat
         /\ Len(sent') = Len(sent) + 1 /\ Len(starts') = Len(sent) + 1
         /\ DOMAIN sent' = 1 .. Len(sent) + 1 /\ DOMAIN sent = 1 .. Len(sent)
         /\ \A k \in DOMAIN sent : sent'[k] = sent[k] /\ starts'[k] = starts[k]
         /\ sent'[Len(sent) + 1] = f /\ starts'[Len(sent) + 1] = bitOffset
<1>1. /\ sent \in Seq(Fields \cup {<<>>}) /\ starts \in Seq(0 .. MaxBits)
      /\ Len(starts) = Len(sent) /\ bitOffset \in 0 .. MaxBits
  BY DEF IInv, TypeOK, FieldsTile
<1>2. sent' = Append(sent, f) /\ starts' = Append(starts, bitOffset)
  BY DEF Note
<1> QED
  BY <1>1, <1>2

(* ... and the fields still tile what has been written.                    *)
LEMMA NoteTiles ==
  ASSUME IInv, NEW f \in Fields \cup {<<>>}, Note(f),
         bitOffset' = IF f = <<>> THEN Aligned(bitOffset) ELSE bitOffset + Len(f),
         bitOffset' \in Nat, bitOffset <= bitOffset'
  PROVE  FieldsTile'
<1>1. bitOffset \in Nat
  BY BoundsAssumption DEF IInv, TypeOK
<1>0. PICK n \in Nat : n = Len(sent)
  BY NoteFacts
<1>2. /\ n \in Nat
      /\ Len(sent') = n + 1 /\ Len(starts') = n + 1
      /\ DOMAIN sent' = 1 .. n + 1 /\ DOMAIN sent = 1 .. n
      /\ \A k \in 1 .. n : sent'[k] = sent[k] /\ starts'[k] = starts[k]
      /\ sent'[n + 1] = f /\ starts'[n + 1] = bitOffset
  BY <1>0, NoteFacts
<1>3. \A k \in 1 .. n : EndOf(k)' = EndOf(k) /\ EndOf(k) \in Nat /\ EndOf(k) <= bitOffset
  <2> TAKE k \in 1 .. n
  <2>1. k \in DOMAIN sent
    BY <1>2
  <2> QED
    BY <2>1, <1>2, FieldInside DEF EndOf, Aligned, Multiple, OctetBits
<1>4. EndOf(n + 1)' = bitOffset'
  <2>1. EndOf(n + 1)' = IF sent'[n + 1] = <<>> THEN Aligned(starts'[n + 1])
                         ELSE starts'[n + 1] + Len(sent'[n + 1])
    BY DEF EndOf, Aligned, Multiple, OctetBits
  <2> QED
    BY <1>2, <2>1
<1>5. \A k \in DOMAIN sent' :
        EndOf(k)' = IF k = Len(sent') THEN bitOffset' ELSE starts'[k + 1]
  <2> TAKE k \in DOMAIN sent'
  <2>1. CASE k = n + 1
    BY <2>1, <1>4, <1>2
  <2>2. CASE k = n /\ k \in 1 .. n
    <3>1. EndOf(k) = bitOffset
      BY <2>2, <1>2 DEF IInv, FieldsTile
    <3> QED
      BY <3>1, <1>2, <1>3, <2>2
  <2>3. CASE k # n /\ k \in 1 .. n
    <3>1. EndOf(k) = starts[k + 1] /\ k + 1 \in 1 .. n
      BY <1>2, <2>3 DEF IInv, FieldsTile
    <3> QED
      BY <3>1, <1>2, <1>3, <2>3
  <2> QED
    BY <1>2, <2>1, <2>2, <2>3
<1>6. \A k \in DOMAIN sent' : EndOf(k)' <= bitOffset'
  <2> TAKE k \in DOMAIN sent'
  <2>1. CASE k = n + 1
    BY <2>1, <1>4
  <2>2. CASE k \in 1 .. n
    BY <1>1, <1>3, <2>2
  <2> QED
    BY <1>2, <2>1, <2>2
<1>7. sent' # <<>> /\ starts'[1] = 0
  <2>1. CASE n = 0
    <3>1. sent = <<>>
      BY <2>1, <1>0, EmptySeq DEF IInv, TypeOK
    <3>2. bitOffset = 0
      BY <3>1 DEF IInv, FieldsTile
    <3> QED
      BY <2>1, <3>2, <1>2
  <2>2. CASE n # 0
    <3>1. sent # <<>> /\ 1 \in DOMAIN sent
      BY <1>2, <2>2
    <3> QED
      BY <1>2, <3>1 DEF IInv, FieldsTile
  <2> QED
    BY <2>1, <2>2
<1> QED
  BY <1>5, <1>6, <1>7, <1>2 DEF FieldsTile

-----------------------------------------------------------------------------

LEMMA InitInv == Init => IInv
<1> SUFFICES ASSUME Init PROVE IInv
  OBVIOUS
<1> USE DEF Init
<1>1. TypeOK
  <2>1. /\ buffer \in Seq(Bit) /\ sent \in Seq(Fields \cup {<<>>})
        /\ starts \in Seq(0 .. MaxBits) /\ received \in Seq(Seq(Bit))
    BY EmptySeq
  <2>2. bitOffset \in 0 .. MaxBits /\ rSize \in Nat /\ rOffset \in Nat
    BY BoundsAssumption
  <2> QED
    BY <2>1, <2>2 DEF TypeOK
<1>2. BufferCoversOffset
  BY EmptySeq DEF BufferCoversOffset, Multiple, Octets, OctetBits
<1>3. FieldsTile /\ FieldsIntact /\ PaddingIsZero /\ ReaderInStep
  BY DEF FieldsTile, FieldsIntact, PaddingIsZero, ReaderInStep
<1> QED
  BY <1>1, <1>2, <1>3 DEF IInv

(* Writing a field leaves the earlier ones and the padding as they were.   *)
LEMMA WriteBitsInv ==
  ASSUME IInv, NEW bits \in Fields, WriteBits(bits)
  PROVE  IInv'
<1>1. /\ bits \in Seq(Bit) /\ bits # <<>> /\ Len(bits) \in Nat /\ Len(bits) > 0
      /\ DOMAIN bits = 1 .. Len(bits)
  <2>1. bits \in Seq(Bit) /\ bits # <<>>
    BY FieldsAssumption
  <2> QED
    BY <2>1, EmptySeq, LenProperties
<1>2. /\ ~ open /\ ~ open'
      /\ bitOffset' = bitOffset + Len(bits) /\ bitOffset' <= MaxBits
      /\ buffer' = Written(buffer, bitOffset, bits) /\ Note(bits)
      /\ open' = open /\ rSize' = rSize /\ rOffset' = rOffset
      /\ mirrored' = mirrored /\ received' = received
  BY DEF WriteBits, reader
<1>3. /\ buffer \in Seq(Bit) /\ Len(buffer) \in Nat /\ Multiple(Len(buffer))
      /\ bitOffset \in Nat /\ bitOffset <= Len(buffer)
  <2>1. buffer \in Seq(Bit) /\ bitOffset \in Nat
    BY BoundsAssumption DEF IInv, TypeOK
  <2>2. Multiple(Len(buffer)) /\ OctetBits * Octets(bitOffset) <= Len(buffer)
    BY DEF IInv, BufferCoversOffset
  <2>3. bitOffset <= Aligned(bitOffset) /\ Aligned(bitOffset) <= Len(buffer)
        /\ Aligned(bitOffset) \in Nat
    BY <2>1, <2>2, AlignedFacts
  <2> QED
    BY <2>1, <2>2, <2>3
<1>4. /\ buffer' \in Seq(Bit) /\ Multiple(Len(buffer'))
      /\ bitOffset' <= Len(buffer') /\ Len(buffer) <= Len(buffer')
      /\ Len(buffer') \in Nat
      /\ \A i \in 1 .. Len(buffer') :
           buffer'[i] = IF i > bitOffset /\ i <= bitOffset' THEN bits[i - bitOffset]
                        ELSE IF i <= Len(buffer) THEN buffer[i] ELSE 0
  BY <1>1, <1>2, <1>3, WrittenFacts
<1>5. bitOffset' \in 0 .. MaxBits
  BY <1>1, <1>2, <1>3, BoundsAssumption
<1>6. PICK n \in Nat : n = Len(sent)
  BY <1>2, NoteFacts
<1>7. /\ sent' \in Seq(Fields \cup {<<>>}) /\ starts' \in Seq(0 .. MaxBits)
      /\ DOMAIN sent' = 1 .. n + 1 /\ DOMAIN sent = 1 .. n
      /\ \A k \in 1 .. n : sent'[k] = sent[k] /\ starts'[k] = starts[k]
      /\ sent'[n + 1] = bits /\ starts'[n + 1] = bitOffset
  BY <1>2, <1>6, NoteFacts
<1>8. \A k \in 1 .. n : /\ starts[k] \in Nat /\ sent[k] \in Seq(Bit)
                        /\ Len(sent[k]) \in Nat /\ DOMAIN sent[k] = 1 .. Len(sent[k])
                        /\ starts[k] + Len(sent[k]) <= bitOffset
  <2> TAKE k \in 1 .. n
  <2>1. k \in DOMAIN sent
    BY <1>7
  <2>2. /\ starts[k] \in Nat /\ sent[k] \in Seq(Bit) /\ EndOf(k) \in Nat
        /\ starts[k] + Len(sent[k]) <= EndOf(k) /\ EndOf(k) <= bitOffset
    BY <2>1, FieldInside
  <2>3. Len(sent[k]) \in Nat /\ DOMAIN sent[k] = 1 .. Len(sent[k])
    BY <2>2, LenProperties
  <2> QED
    BY <1>3, <2>2, <2>3
<1>9. TypeOK'
  <2>1. /\ rSize' \in Nat /\ rOffset' \in Nat /\ received' \in Seq(Seq(Bit))
        /\ mirrored' \in BOOLEAN /\ open' \in BOOLEAN
    BY <1>2 DEF TypeOK, IInv
  <2> QED
    BY <1>2, <1>4, <1>5, <1>7, <2>1 DEF TypeOK
<1>10. BufferCoversOffset'
  <2>1. bitOffset' \in Nat /\ Aligned(bitOffset') <= Len(buffer')
    BY <1>4, <1>5, BoundsAssumption, MultipleCovers
  <2>2. OctetBits * Octets(bitOffset') <= Len(buffer')
    BY <2>1, AlignedFacts
  <2> QED
    BY <1>4, <2>2 DEF BufferCoversOffset, Multiple, Octets, OctetBits
<1>11. FieldsTile'
  <2>1. bitOffset' \in Nat /\ bitOffset <= bitOffset'
    BY <1>1, <1>2, <1>3
  <2> QED
    BY <1>1, <1>2, <2>1, NoteTiles
<1>12. FieldsIntact'
  <2> SUFFICES ASSUME NEW k \in DOMAIN sent', NEW i \in DOMAIN sent'[k]
               PROVE  buffer'[starts'[k] + i] = sent'[k][i]
    BY DEF FieldsIntact
  <2>1. CASE k = n + 1
    <3>1. i \in 1 .. Len(bits) /\ starts'[k] = bitOffset /\ sent'[k] = bits
      BY <1>1, <1>7, <2>1
    <3>2. bitOffset + i \in 1 .. Len(buffer') /\ bitOffset + i > bitOffset
          /\ bitOffset + i <= bitOffset' /\ (bitOffset + i) - bitOffset = i
      BY <1>1, <1>2, <1>3, <1>4, <3>1
    <3> QED
      BY <1>4, <3>1, <3>2
  <2>2. CASE k \in 1 .. n
    <3>1. i \in 1 .. Len(sent[k]) /\ i \in DOMAIN sent[k]
          /\ starts'[k] = starts[k] /\ sent'[k] = sent[k]
      BY <1>7, <1>8, <2>2
    <3>2. /\ starts[k] + i \in 1 .. Len(buffer') /\ starts[k] + i <= Len(buffer)
          /\ ~ (starts[k] + i > bitOffset)
      BY <1>3, <1>4, <1>8, <2>2, <3>1, SMTT(30)
    <3>3. buffer'[starts[k] + i] = buffer[starts[k] + i]
      BY <1>4, <3>2
    <3>4. buffer[starts[k] + i] = sent[k][i]
      BY <1>7, <2>2, <3>1 DEF IInv, FieldsIntact
    <3> QED
      BY <3>1, <3>3, <3>4
  <2> QED
    BY <1>7, <2>1, <2>2
<1>13. PaddingIsZero'
  <2> SUFFICES ASSUME NEW i \in DOMAIN buffer',
                      \A k \in DOMAIN sent' :
                        ~ (starts'[k] < i /\ i <= starts'[k] + Len(sent'[k]))
               PROVE  buffer'[i] = 0
    BY DEF PaddingIsZero
  <2>1. i \in 1 .. Len(buffer')
    BY <1>4, LenProperties
  <2>2. ~ (i > bitOffset /\ i <= bitOffset')
    <3>1. n + 1 \in DOMAIN sent'
      BY <1>7
    <3>2. ~ (bitOffset < i /\ i <= bitOffset + Len(bits))
      BY <1>7, <3>1
    <3> QED
      BY <1>2, <1>3, <2>1, <3>2
  <2>3. CASE i <= Len(buffer)
    <3>1. i \in DOMAIN buffer
      BY <1>3, <2>1, <2>3, LenProperties
    <3>2. \A k \in DOMAIN sent : ~ (starts[k] < i /\ i <= starts[k] + Len(sent[k]))
      BY <1>7
    <3>3. buffer[i] = 0
      BY <3>1, <3>2 DEF IInv, PaddingIsZero
    <3> QED
      BY <1>4, <2>1, <2>2, <2>3, <3>3
  <2>4. CASE ~ (i <= Len(buffer))
    BY <1>4, <2>1, <2>2, <2>4
  <2> QED
    BY <2>3, <2>4
<1>14. ReaderInStep'
  BY <1>2 DEF ReaderInStep
<1> QED
  BY <1>9, <1>10, <1>11, <1>12, <1>13, <1>14 DEF IInv

(* An align writes nothing; what it skips is padding.                      *)
LEMMA AlignWriterInv ==
  ASSUME IInv, AlignWriter
  PROVE  IInv'
<1>1. /\ ~ open /\ ~ open' /\ open' = open
      /\ bitOffset' = Aligned(bitOffset) /\ bitOffset' <= MaxBits
      /\ buffer' = buffer /\ Note(<<>>)
      /\ rSize' = rSize /\ rOffset' = rOffset
      /\ mirrored' = mirrored /\ received' = received
  BY DEF AlignWriter, reader
<1>2. /\ bitOffset \in Nat /\ bitOffset' \in Nat /\ bitOffset <= bitOffset'
      /\ OctetBits * Octets(bitOffset') = OctetBits * Octets(bitOffset)
  <2>1. bitOffset \in Nat
    BY BoundsAssumption DEF IInv, TypeOK
  <2>2. Aligned(bitOffset) \in Nat /\ bitOffset <= Aligned(bitOffset)
    BY <2>1, AlignedFacts
  <2>3. OctetBits * Octets(Aligned(bitOffset)) = OctetBits * Octets(bitOffset)
    BY <2>1 DEF Octets, Aligned, Multiple, OctetBits
  <2> QED
    BY <1>1, <2>1, <2>2, <2>3
<1>3. PICK n \in Nat : n = Len(sent)
  BY <1>1, NoteFacts
<1>4. /\ sent' \in Seq(Fields \cup {<<>>}) /\ starts' \in Seq(0 .. MaxBits)
      /\ DOMAIN sent' = 1 .. n + 1 /\ DOMAIN sent = 1 .. n
      /\ \A k \in 1 .. n : sent'[k] = sent[k] /\ starts'[k] = starts[k]
      /\ sent'[n + 1] = <<>>
  BY <1>1, <1>3, NoteFacts
<1>5. TypeOK'
  <2>1. /\ rSize' \in Nat /\ rOffset' \in Nat /\ received' \in Seq(Seq(Bit))
        /\ mirrored' \in BOOLEAN /\ open' \in BOOLEAN /\ buffer' \in Seq(Bit)
    BY <1>1 DEF TypeOK, IInv
  <2>2. bitOffset' \in 0 .. MaxBits
    BY <1>1, <1>2, BoundsAssumption
  <2> QED
    BY <1>4, <2>1, <2>2 DEF TypeOK
<1>6. BufferCoversOffset'
  <2>1. Multiple(Len(buffer)) /\ OctetBits * Octets(bitOffset') <= Len(buffer)
    BY <1>2 DEF IInv, BufferCoversOffset
  <2> QED
    BY <1>1, <2>1 DEF BufferCoversOffset, Multiple, Octets, OctetBits
<1>7. FieldsTile'
  BY <1>1, <1>2, NoteTiles
<1>8. FieldsIntact'
  <2> SUFFICES ASSUME NEW k \in DOMAIN sent', NEW i \in DOMAIN sent'[k]
               PROVE  buffer'[starts'[k] + i] = sent'[k][i]
    BY DEF FieldsIntact
  <2>1. CASE k = n + 1
    BY <1>4, <2>1, EmptySeq
  <2>2. CASE k \in 1 .. n
    BY <1>1, <1>4, <2>2 DEF IInv, FieldsIntact
  <2> QED
    BY <1>4, <2>1, <2>2
<1>9. PaddingIsZero'
  <2> SUFFICES ASSUME NEW i \in DOMAIN buffer',
                      \A k \in DOMAIN sent' :
                        ~ (starts'[k] < i /\ i <= starts'[k] + Len(sent'[k]))
               PROVE  buffer'[i] = 0
    BY DEF PaddingIsZero
  <2>1. \A k \in DOMAIN sent : ~ (starts[k] < i /\ i <= starts[k] + Len(sent[k]))
    BY <1>4
  <2> QED
    BY <1>1, <2>1 DEF IInv, PaddingIsZero
<1>10. ReaderInStep'
  BY <1>1 DEF ReaderInStep
<1> QED
  BY <1>5, <1>6, <1>7, <1>8, <1>9, <1>10 DEF IInv

LEMMA ResetWriterInv ==
  ASSUME ResetWriter
  PROVE  IInv'
<1>1. Init'
  BY DEF ResetWriter, Init
<1>2. Init' => IInv'
  BY InitInv, PTL
<1> QED
  BY <1>1, <1>2

(* While the writer rests, what holds of the message goes on to hold.      *)
LEMMA WriterRests ==
  ASSUME IInv, UNCHANGED writer
  PROVE  /\ BufferCoversOffset' /\ FieldsTile' /\ FieldsIntact' /\ PaddingIsZero'
         /\ buffer' = buffer /\ bitOffset' = bitOffset
         /\ sent' = sent /\ starts' = starts
<1>1. buffer' = buffer /\ bitOffset' = bitOffset /\ sent' = sent /\ starts' = starts
  BY DEF writer
<1>2. BufferCoversOffset'
  BY <1>1 DEF IInv, BufferCoversOffset, Multiple, Octets, OctetBits
<1>3. FieldsTile'
  <2>1. \A k : EndOf(k)' = EndOf(k)
    BY <1>1 DEF EndOf, Aligned, Multiple, OctetBits
  <2> QED
    BY <1>1, <2>1 DEF IInv, FieldsTile
<1>4. FieldsIntact'
  BY <1>1 DEF IInv, FieldsIntact
<1>5. PaddingIsZero'
  BY <1>1 DEF IInv, PaddingIsZero
<1> QED
  BY <1>1, <1>2, <1>3, <1>4, <1>5

(* Going back to the start, or being opened, puts a reader in step.        *)
LEMMA ReaderAtStart ==
  ASSUME IInv, UNCHANGED writer, open' = TRUE, rOffset' = 0,
         mirrored' \in BOOLEAN, received' = <<>>, rSize' = OctetBits * Octets(bitOffset)
  PROVE  IInv'
<1>1. /\ BufferCoversOffset' /\ FieldsTile' /\ FieldsIntact' /\ PaddingIsZero'
      /\ buffer' = buffer /\ bitOffset' = bitOffset /\ sent' = sent /\ starts' = starts
  BY WriterRests
<1>2. bitOffset \in Nat /\ sent \in Seq(Fields \cup {<<>>}) /\ received' \in Seq(Seq(Bit))
      /\ Len(received') = 0 /\ Len(sent) \in Nat
  BY BoundsAssumption, EmptySeq DEF IInv, TypeOK
<1>3. rSize' \in Nat
  <2>1. OctetBits * Octets(bitOffset) \in Nat
    BY <1>2 DEF OctetBits, Octets
  <2> QED
    BY <2>1
<1>4. TypeOK'
  BY <1>1, <1>2, <1>3 DEF TypeOK, IInv
<1>5. ReaderInStep'
  <2>1. 0 = IF Len(sent) = 0 THEN bitOffset ELSE starts[1]
    BY <1>2, EmptySeq DEF IInv, FieldsTile
  <2>2. rSize' = OctetBits * Octets(bitOffset')
    BY <1>1
  <2>3. Len(received') <= Len(sent') /\ \A k \in DOMAIN received' : received'[k] = sent'[k]
    BY <1>1, <1>2, EmptySeq
  <2>4. rOffset' = IF Len(received') = Len(sent') THEN bitOffset'
                   ELSE starts'[Len(received') + 1]
    BY <1>1, <1>2, <2>1
  <2> QED
    BY <2>2, <2>3, <2>4 DEF ReaderInStep, OctetBits, Octets
<1> QED
  BY <1>1, <1>4, <1>5 DEF IInv

LEMMA OpenReaderInv == ASSUME IInv, OpenReader PROVE IInv'
  BY ReaderAtStart DEF OpenReader

LEMMA ResetReaderInv == ASSUME IInv, ResetReader PROVE IInv'
<1>1. rSize = OctetBits * Octets(bitOffset)
  BY DEF ResetReader, IInv, ReaderInStep
<1> QED
  BY <1>1, ReaderAtStart DEF ResetReader

(* A reader in step stands at the field it has not got yet.                *)
LEMMA ReaderAtField ==
  ASSUME IInv, open, mirrored, Len(received) < Len(sent)
  PROVE  LET k == Len(received) + 1
         IN  /\ k \in DOMAIN sent /\ k \in Nat
             /\ rOffset = starts[k] /\ rOffset \in Nat /\ rSize \in Nat
             /\ EndOf(k) = IF k = Len(sent) THEN bitOffset ELSE starts[k + 1]
             /\ EndOf(k) <= rSize /\ EndOf(k) \in Nat
             /\ sent[k] \in Seq(Bit)
             /\ rOffset + Len(sent[k]) <= EndOf(k)
<1> DEFINE k == Len(received) + 1
<1>1. /\ Len(received) \in Nat /\ Len(sent) \in Nat /\ bitOffset \in Nat
      /\ rOffset \in Nat /\ rSize \in Nat
  BY BoundsAssumption DEF IInv, TypeOK
<1>2. k \in DOMAIN sent /\ k \in Nat /\ k # 0
  BY <1>1 DEF IInv, TypeOK
<1>3. rOffset = starts[k]
  BY <1>1 DEF IInv, ReaderInStep
<1>4. /\ EndOf(k) <= bitOffset /\ EndOf(k) \in Nat
      /\ sent[k] \in Seq(Bit) /\ starts[k] + Len(sent[k]) <= EndOf(k)
  BY <1>2, FieldInside
<1>5. EndOf(k) = IF k = Len(sent) THEN bitOffset ELSE starts[k + 1]
  BY <1>2 DEF IInv, FieldsTile
<1>6. bitOffset <= rSize
  <2>1. rSize = Aligned(bitOffset)
    BY <1>1, AlignedFacts DEF IInv, ReaderInStep
  <2> QED
    BY <1>1, <2>1, AlignedFacts
<1>7. EndOf(k) <= rSize
  BY <1>1, <1>4, <1>6
<1> QED
  BY <1>1, <1>2, <1>3, <1>4, <1>5, <1>7

(* Having got it, the reader stands at the next one.                       *)
LEMMA ReaderAdvances ==
  ASSUME IInv, open, UNCHANGED <<writer, open, rSize>>,
         rOffset' \in Nat, mirrored' \in BOOLEAN, received' \in Seq(Seq(Bit)),
         mirrored' =>
           /\ mirrored /\ Len(received) < Len(sent)
           /\ received' = Append(received, sent[Len(received) + 1])
           /\ rOffset' = EndOf(Len(received) + 1)
  PROVE  IInv'
<1>1. /\ BufferCoversOffset' /\ FieldsTile' /\ FieldsIntact' /\ PaddingIsZero'
      /\ buffer' = buffer /\ bitOffset' = bitOffset /\ sent' = sent /\ starts' = starts
      /\ open' = open /\ rSize' = rSize
  BY WriterRests
<1>2. TypeOK'
  BY <1>1 DEF TypeOK, IInv
<1>3. rSize' = (OctetBits * Octets(bitOffset))'
  BY <1>1 DEF IInv, ReaderInStep, OctetBits, Octets
<1>4. ASSUME mirrored'
      PROVE  /\ Len(received') <= Len(sent')
             /\ rOffset' = IF Len(received') = Len(sent') THEN bitOffset'
                           ELSE starts'[Len(received') + 1]
             /\ \A k \in DOMAIN received' : received'[k] = sent'[k]
  <2> PICK m \in Nat : m = Len(received)
    BY DEF IInv, TypeOK
  <2>1. /\ mirrored /\ m < Len(sent) /\ Len(sent) \in Nat
        /\ received' = Append(received, sent[m + 1]) /\ rOffset' = EndOf(m + 1)
    BY <1>4 DEF IInv, TypeOK
  <2>2. /\ m + 1 \in DOMAIN sent
        /\ EndOf(m + 1) = IF m + 1 = Len(sent) THEN bitOffset ELSE starts[(m + 1) + 1]
        /\ sent[m + 1] \in Seq(Bit)
    BY <2>1, ReaderAtField
  <2>3. /\ Len(received') = m + 1 /\ DOMAIN received' = 1 .. m + 1
        /\ received'[m + 1] = sent[m + 1]
        /\ DOMAIN received = 1 .. m
        /\ \A k \in 1 .. m : received'[k] = received[k]
    <3>1. received \in Seq(Seq(Bit))
      BY DEF IInv, TypeOK
    <3> QED
      BY <2>1, <2>2, <3>1
  <2>4. \A k \in 1 .. m : received[k] = sent[k]
    BY <2>1, <2>3 DEF IInv, ReaderInStep
  <2>5. \A k \in DOMAIN received' : received'[k] = sent[k]
    <3> TAKE k \in DOMAIN received'
    <3>1. k \in 1 .. m \/ k = m + 1
      BY <2>3
    <3> QED
      BY <2>3, <2>4, <3>1
  <2> QED
    BY <1>1, <2>1, <2>2, <2>3, <2>5
<1>5. ReaderInStep'
  BY <1>3, <1>4 DEF ReaderInStep
<1> QED
  BY <1>1, <1>2, <1>5 DEF IInv

(* A read of the field a reader stands at gets that field, whole.          *)
LEMMA ReadGetsField ==
  ASSUME IInv, open, NEW n \in Nat \ {0}, Follows(n)
  PROVE  /\ Available(n) = n
         /\ SubSeq(buffer, rOffset + 1, rOffset + n) = sent[Len(received) + 1]
         /\ rOffset + n = EndOf(Len(received) + 1)
<1> PICK k \in Nat : k = Len(received) + 1
  BY DEF IInv, TypeOK
<1>1. mirrored /\ Len(received) < Len(sent) /\ Len(sent[k]) = n
  BY DEF Follows
<1>2. /\ k \in DOMAIN sent /\ rOffset = starts[k] /\ rOffset \in Nat /\ rSize \in Nat
      /\ EndOf(k) <= rSize /\ EndOf(k) \in Nat /\ sent[k] \in Seq(Bit)
      /\ rOffset + Len(sent[k]) <= EndOf(k)
  BY <1>1, ReaderAtField
<1>3. sent[k] # <<>>
  BY <1>1, EmptySeq
<1>4. rOffset + n = EndOf(k)
  BY <1>1, <1>2, <1>3 DEF EndOf
<1>5. Available(n) = n
  BY <1>2, <1>4 DEF Available
<1>6. \A i \in 1 .. n : buffer[rOffset + i] = sent[k][i]
  <2> TAKE i \in 1 .. n
  <2>1. i \in DOMAIN sent[k]
    BY <1>1, <1>2, LenProperties
  <2> QED
    BY <1>2, <2>1 DEF IInv, FieldsIntact
<1>7. SubSeq(buffer, rOffset + 1, rOffset + n) = sent[k]
  <2> DEFINE ss == SubSeq(buffer, rOffset + 1, rOffset + n)
  <2>1. \A j \in rOffset + 1 .. rOffset + n : buffer[j] \in Bit
    <3> TAKE j \in rOffset + 1 .. rOffset + n
    <3>1. j - rOffset \in 1 .. n /\ rOffset + (j - rOffset) = j
      BY <1>2
    <3>2. buffer[j] = sent[k][j - rOffset]
      BY <1>6, <3>1
    <3>3. sent[k][j - rOffset] \in Bit
      BY <1>1, <1>2, <3>1, ElementOfSeq
    <3> QED
      BY <3>2, <3>3
  <2>2. ss \in Seq(Bit) /\ Len(ss) = n
        /\ \A i \in 1 .. n : ss[i] = buffer[rOffset + i]
    <3>1. rOffset + 1 \in Int /\ rOffset + n \in Int /\ rOffset + 1 <= rOffset + n
      BY <1>2
    <3>2. /\ ss \in Seq(Bit)
          /\ Len(ss) = IF rOffset + 1 <= rOffset + n
                       THEN (rOffset + n) - (rOffset + 1) + 1 ELSE 0
          /\ \A i \in 1 .. (rOffset + n) - (rOffset + 1) + 1 :
               ss[i] = buffer[(rOffset + 1) + i - 1]
      BY <2>1, <3>1, SubSeqProperties
    <3>3. (rOffset + n) - (rOffset + 1) + 1 = n
          /\ \A i \in 1 .. n : (rOffset + 1) + i - 1 = rOffset + i
      BY <1>2
    <3> QED
      BY <3>1, <3>2, <3>3
  <2> HIDE DEF ss
  <2>3. ss = sent[k]
    BY <1>1, <1>2, <1>6, <2>2, SeqEqual, SMTT(30)
  <2> QED
    BY <2>3 DEF ss
<1> QED
  BY <1>4, <1>5, <1>7

LEMMA ReadBitsInv ==
  ASSUME IInv, NEW n \in Nat \ {0}, ReadBits(n)
  PROVE  IInv'
<1>1. /\ open /\ UNCHANGED <<writer, open, rSize>>
      /\ rOffset' = rOffset + Available(n)
      /\ mirrored' = Follows(n)
      /\ received' = IF Follows(n)
                     THEN Append(received, SubSeq(buffer, rOffset + 1, rOffset + Available(n)))
                     ELSE received
  BY DEF ReadBits, Hear
<1>2. rOffset' \in Nat
  <2>1. Available(n) \in Nat
    BY DEF Available, IInv, TypeOK
  <2> QED
    BY <1>1, <2>1 DEF IInv, TypeOK
<1>3. mirrored' \in BOOLEAN
  BY <1>1 DEF Follows, IInv, TypeOK
<1>4. CASE Follows(n)
  <2>1. /\ mirrored /\ Len(received) < Len(sent)
        /\ received' = Append(received, sent[Len(received) + 1])
        /\ rOffset' = EndOf(Len(received) + 1)
    BY <1>1, <1>4, ReadGetsField DEF Follows
  <2>2. received' \in Seq(Seq(Bit))
    <3>1. sent[Len(received) + 1] \in Seq(Bit)
      BY <1>1, <2>1, ReaderAtField
    <3> QED
      BY <2>1, <3>1 DEF IInv, TypeOK
  <2> QED
    BY <1>1, <1>2, <1>3, <2>1, <2>2, ReaderAdvances
<1>5. CASE ~ Follows(n)
  <2>1. ~ mirrored' /\ received' \in Seq(Seq(Bit))
    BY <1>1, <1>5 DEF IInv, TypeOK
  <2> QED
    BY <1>1, <1>2, <1>3, <2>1, ReaderAdvances
<1> QED
  BY <1>4, <1>5

LEMMA AlignReaderInv ==
  ASSUME IInv, AlignReader
  PROVE  IInv'
<1>1. /\ open /\ UNCHANGED <<writer, open, rSize>>
      /\ rOffset' = Aligned(rOffset)
      /\ mirrored' = Follows(0)
      /\ received' = IF Follows(0) THEN Append(received, <<>>) ELSE received
  BY DEF AlignReader, Hear
<1>2. rOffset' \in Nat
  BY <1>1, AlignedFacts DEF IInv, TypeOK
<1>3. mirrored' \in BOOLEAN
  BY <1>1 DEF Follows, IInv, TypeOK
<1>4. CASE Follows(0)
  <2> PICK k \in Nat : k = Len(received) + 1
    BY DEF IInv, TypeOK
  <2>1. mirrored /\ Len(received) < Len(sent) /\ Len(sent[k]) = 0
    BY <1>4 DEF Follows
  <2>2. sent[k] \in Seq(Bit) /\ rOffset = starts[k]
    BY <1>1, <2>1, ReaderAtField
  <2>3. sent[k] = <<>>
    BY <2>1, <2>2, EmptySeq
  <2>4. rOffset' = EndOf(k)
    BY <1>1, <2>2, <2>3 DEF EndOf
  <2>5. received' = Append(received, sent[k]) /\ received' \in Seq(Seq(Bit))
    BY <1>1, <1>4, <2>2, <2>3 DEF IInv, TypeOK
  <2> QED
    BY <1>1, <1>2, <1>3, <2>1, <2>4, <2>5, ReaderAdvances
<1>5. CASE ~ Follows(0)
  <2>1. ~ mirrored' /\ received' \in Seq(Seq(Bit))
    BY <1>1, <1>5 DEF IInv, TypeOK
  <2> QED
    BY <1>1, <1>2, <1>3, <2>1, ReaderAdvances
<1> QED
  BY <1>4, <1>5

LEMMA SkipInv ==
  ASSUME IInv, NEW n \in Skips, Skip(n)
  PROVE  IInv'
<1>1. /\ open /\ UNCHANGED <<writer, open, rSize>>
      /\ mirrored' = FALSE /\ received' = received /\ rOffset' = rOffset + n
  BY DEF Skip
<1>2. rOffset' \in Nat /\ received' \in Seq(Seq(Bit))
  BY <1>1, FieldsAssumption DEF IInv, TypeOK
<1> QED
  BY <1>1, <1>2, ReaderAdvances

(* A step that changes no variable disturbs nothing.                       *)
LEMMA StutterInv ==
  ASSUME IInv, UNCHANGED vars
  PROVE  IInv'
BY DEF vars, writer, reader, IInv, TypeOK, BufferCoversOffset, FieldsTile,
       FieldsIntact, PaddingIsZero, ReaderInStep, EndOf, Aligned, Multiple,
       Octets, OctetBits

LEMMA Invariance == Spec => []IInv
<1>1. IInv /\ [Next]_vars => IInv'
  <2> SUFFICES ASSUME IInv, [Next]_vars PROVE IInv'
    OBVIOUS
  <2>1. ASSUME NEW bits \in Fields, WriteBits(bits) PROVE IInv'
    BY <2>1, WriteBitsInv
  <2>2. CASE AlignWriter
    BY <2>2, AlignWriterInv
  <2>3. CASE OpenReader
    BY <2>3, OpenReaderInv
  <2>4. CASE ResetWriter
    BY <2>4, ResetWriterInv
  <2>5. ASSUME NEW bits \in Fields, ReadBits(Len(bits)) PROVE IInv'
    <3>1. Len(bits) \in Nat \ {0}
      BY FieldsAssumption, EmptySeq
    <3> QED
      BY <2>5, <3>1, ReadBitsInv
  <2>6. CASE AlignReader
    BY <2>6, AlignReaderInv
  <2>7. ASSUME NEW n \in Skips, Skip(n) PROVE IInv'
    BY <2>7, SkipInv
  <2>8. CASE ResetReader
    BY <2>8, ResetReaderInv
  <2>9. CASE UNCHANGED vars
    BY <2>9, StutterInv
  <2> QED
    BY <2>1, <2>2, <2>3, <2>4, <2>5, <2>6, <2>7, <2>8, <2>9 DEF Next
<1> QED
  BY InitInv, <1>1, PTL DEF Spec

-----------------------------------------------------------------------------

(* Every reachable state of a writer and its reader is well formed.        *)
THEOREM StreamTypeCorrect == Spec => []TypeOK
<1>1. IInv => TypeOK
  BY DEF IInv
<1> QED
  BY <1>1, Invariance, PTL

(* getBufferSize() never counts an octet that is not allocated, although   *)
(* alignToOctet moves bitOffset without touching the buffer.               *)
THEOREM BufferIsLongEnough == Spec => []BufferCoversOffset
<1>1. IInv => BufferCoversOffset
  BY DEF IInv
<1> QED
  BY <1>1, Invariance, PTL

(* Neither a later writeBits, nor an align, nor the growth of the buffer   *)
(* changes a field that has been written; all else in the buffer is zero.  *)
THEOREM MessageIsWhatWasWritten == Spec => []MessageIntact
<1>1. IInv => MessageIntact
  BY DEF IInv, MessageIntact
<1> QED
  BY <1>1, Invariance, PTL

(* A reader that keeps to the order in which the fields were written       *)
(* stays where the writer was, aligns included, and gets what was written. *)
THEOREM ReaderKeepsStep == Spec => []ReaderInStep
<1>1. IInv => ReaderInStep
  BY DEF IInv
<1> QED
  BY <1>1, Invariance, PTL

LEMMA ChannelStep ==
  ASSUME IInv, [Next]_vars
  PROVE  [Channel!Next]_Channel!vars
<1> USE DEF Channel!Next, Channel!vars
<1>1. ASSUME NEW bits \in Fields, WriteBits(bits) PROVE Channel!Next
  <2>1. Channel!Send(bits)
    BY <1>1 DEF WriteBits, Note, reader, Channel!Send
  <2> QED
    BY <2>1
<1>2. CASE AlignWriter
  <2>1. Channel!Send(<<>>)
    BY <1>2 DEF AlignWriter, Note, reader, Channel!Send
  <2> QED
    BY <2>1
<1>3. CASE OpenReader
  BY <1>3 DEF OpenReader, writer, Channel!HandOver
<1>4. CASE ResetWriter
  BY <1>4 DEF ResetWriter, Channel!Discard
<1>5. ASSUME NEW bits \in Fields, ReadBits(Len(bits))
      PROVE  [Channel!Next]_Channel!vars
  <2>1. Len(bits) \in Nat \ {0}
    BY FieldsAssumption, EmptySeq
  <2>2. open /\ sent' = sent /\ open' = open
    BY <1>5 DEF ReadBits, writer
  <2>3. CASE Follows(Len(bits))
    <3>1. Len(received) < Len(sent)
          /\ received' = Append(received, sent[Len(received) + 1])
      BY <1>5, <2>1, <2>2, <2>3, ReadGetsField DEF ReadBits, Hear, Follows
    <3> QED
      BY <2>2, <3>1 DEF Channel!Receive
  <2>4. CASE ~ Follows(Len(bits))
    BY <1>5, <2>2, <2>4 DEF ReadBits, Hear
  <2> QED
    BY <2>3, <2>4
<1>6. CASE AlignReader
  <2>1. open /\ sent' = sent /\ open' = open
    BY <1>6 DEF AlignReader, writer
  <2>2. CASE Follows(0)
    <3>1. mirrored /\ Len(received) < Len(sent)
      BY <2>2 DEF Follows
    <3>2. sent[Len(received) + 1] = <<>>
      BY <2>1, <2>2, <3>1, ReaderAtField, EmptySeq DEF Follows
    <3>3. received' = Append(received, sent[Len(received) + 1])
      BY <1>6, <2>2, <3>2 DEF AlignReader, Hear
    <3> QED
      BY <2>1, <3>1, <3>3 DEF Channel!Receive
  <2>3. CASE ~ Follows(0)
    BY <1>6, <2>1, <2>3 DEF AlignReader, Hear
  <2> QED
    BY <2>2, <2>3
<1>7. ASSUME NEW n \in Skips, Skip(n) PROVE [Channel!Next]_Channel!vars
  BY <1>7 DEF Skip, writer
<1>8. CASE ResetReader
  BY <1>8 DEF ResetReader, writer, Channel!Rewind
<1>9. CASE UNCHANGED vars
  BY <1>9 DEF vars, writer, reader
<1> QED
  BY <1>1, <1>2, <1>3, <1>4, <1>5, <1>6, <1>7, <1>8, <1>9 DEF Next

(* The bit stream is a FieldChannel: encode and decode in the same order,  *)
(* and what goes in comes out.                                             *)
THEOREM StreamImplementsChannel == Spec => ChannelSpec
<1>1. Init => Channel!Init
  BY DEF Init, Channel!Init
<1>2. IInv /\ [Next]_vars => [Channel!Next]_Channel!vars
  BY ChannelStep
<1> QED
  BY <1>1, <1>2, Invariance, PTL DEF Spec, ChannelSpec, Channel!Spec

=============================================================================
