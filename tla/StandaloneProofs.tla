------------------------- MODULE StandaloneProofs --------------------------
(***************************************************************************)
(* The parts that know nothing of tries: the codec of the counts, the      *)
(* tables that threads share, and what programs leave behind.              *)
(*                                                                         *)
(* The codec is correct for every byte, accumulator and count width that   *)
(* satisfies its assumptions (the code's 8, 64 and 32 among them) and any  *)
(* number of bins.                                                         *)
(*                                                                         *)
(* However many threads construct histograms of whatever bit lengths, they *)
(* look into whole tables, one for each length.  The argument: the lock    *)
(* makes one thread at a time look for a table and build it (Mutex), so    *)
(* that while one is built there is none (Stages); a table that is kept is *)
(* whole and stays (Cached), and every histogram has the one that is kept  *)
(* (Held).                                                                 *)
(*                                                                         *)
(* For any disks, invocations and lengths of session: a program that says  *)
(* it succeeded did (where the code lets it say), and none touches the     *)
(* disk before it has an answer.  The argument follows a program: what it  *)
(* has read is what there was (Reading), up to opening the output the disk *)
(* is as it was (Untouched), the answer it then has is the answer          *)
(* (Known), and from there on the disk differs in the output only          *)
(* (Written).                                                              *)
(***************************************************************************)
EXTENDS CountCodec, TableCache, Programs, WellFoundedInduction, TLAPS

-----------------------------------------------------------------------------
(***************************************************************************)
(* Arithmetic.                                                             *)
(***************************************************************************)
LEMMA ProductNat == ASSUME NEW i \in Nat, NEW w \in Nat PROVE i * w \in Nat
OBVIOUS

\* The next multiple of a width.
LEMMA ProductNext ==
  ASSUME NEW i \in Nat, NEW w \in Nat
  PROVE  (i + 1) * w = i * w + w
OBVIOUS

\* Consecutive fields of w bits do not overlap.
LEMMA FieldsApart ==
  ASSUME NEW i \in Nat, NEW j \in Nat, NEW w \in Nat, i < j
  PROVE  i * w + w <= j * w
<1> DEFINE d == j - i - 1
<1>1. d \in Nat /\ j = i + 1 + d
  OBVIOUS
<1>2. j * w = i * w + w + d * w
  BY <1>1
<1>3. d * w >= 0
  BY <1>1, ProductNat
<1> QED
  BY <1>2, <1>3, ProductNat

\* Every bit position lies in some byte.
LEMMA BitInByte ==
  ASSUME NEW d \in Nat
  PROVE  \E q \in Nat, r \in Byte : d = q * ByteBits + r
<1>1. \A x \in Nat : /\ x \div ByteBits \in Nat
                     /\ (x \div ByteBits) * ByteBits <= x
                     /\ x < (x \div ByteBits) * ByteBits + ByteBits
  BY ByteAssumption
<1>2. PICK q \in Nat : q * ByteBits <= d /\ d < q * ByteBits + ByteBits
  BY <1>1
<1>3. q * ByteBits \in Nat
  BY ByteAssumption, ProductNat
<1>4. d - q * ByteBits \in Byte /\ d = q * ByteBits + (d - q * ByteBits)
  BY <1>2, <1>3, ByteAssumption DEF Byte
<1> QED
  BY <1>4

\* PayloadBytes is the ceiling of m * w / ByteBits.
LEMMA PayloadCeiling ==
  ASSUME NEW m \in Nat, NEW w \in Nat
  PROVE  /\ PayloadBytes(m, w) \in Nat
         /\ m * w <= PayloadBytes(m, w) * ByteBits
         /\ PayloadBytes(m, w) * ByteBits < m * w + ByteBits
<1> DEFINE k == m * w
<1>1. k \in Nat
  BY ProductNat
<1>2. \A x \in Nat : /\ (x + ByteBits - 1) \div ByteBits \in Nat
                     /\ x <= ((x + ByteBits - 1) \div ByteBits) * ByteBits
                     /\ ((x + ByteBits - 1) \div ByteBits) * ByteBits < x + ByteBits
  BY ByteAssumption
<1> HIDE DEF k
<1> QED
  BY <1>1, <1>2 DEF PayloadBytes, k

\* A non-empty set of natural numbers has a least element.
LEMMA LeastNatural ==
  ASSUME NEW T, T \subseteq Nat, T # {}
  PROVE  \E x \in T : \A y \in T : x <= y
<1>1. PICK x \in T : \A y \in T : ~ (<<y, x>> \in OpToRel(<, Nat))
  BY NatLessThanWellFounded, WFMin
<1>2. \A y \in T : ~ (y < x)
  BY <1>1 DEF OpToRel
<1> QED
  BY <1>2

-----------------------------------------------------------------------------
(***************************************************************************)
(* A right shift moves every bit down by s and drops the lowest s.         *)
(***************************************************************************)
LEMMA ShiftRightBits ==
  ASSUME NEW w \in SUBSET Word, NEW s \in Nat, NEW x \in Word
  PROVE  x \in ShiftRight(w, s) <=> x + s \in w
<1>1. ASSUME x \in ShiftRight(w, s) PROVE x + s \in w
  <2>1. PICK b \in w : b >= s /\ x = b - s
    BY <1>1 DEF ShiftRight
  <2> QED
    BY <2>1, AccAssumption DEF Word
<1>2. ASSUME x + s \in w PROVE x \in ShiftRight(w, s)
  <2>1. x + s >= s /\ x = (x + s) - s
    BY AccAssumption DEF Word
  <2> QED
    BY <2>1, <1>2 DEF ShiftRight
<1> QED
  BY <1>1, <1>2

\* Shifting a word to the right gives a word.
LEMMA ShiftRightType ==
  ASSUME NEW w \in SUBSET Word, NEW s \in Nat
  PROVE  ShiftRight(w, s) \in SUBSET Word
<1>1. ASSUME NEW b \in w, b >= s PROVE b - s \in Word
  BY <1>1, AccAssumption DEF Word
<1> QED
  BY <1>1 DEF ShiftRight

-----------------------------------------------------------------------------
(***************************************************************************)
(* minimumBits: wide enough for every count, at least 1, at most MaxWidth. *)
(***************************************************************************)
LEMMA MinimumBitsWide ==
  ASSUME NEW m \in Nat, NEW f \in [0 .. m - 1 -> Counts]
  PROVE  /\ MinimumBits(f, m) \in 1 .. MaxWidth
         /\ \A i \in 0 .. m - 1 : f[i] \subseteq 0 .. MinimumBits(f, m) - 1
<1> DEFINE used == {b \in 0 .. MaxWidth - 1 : \E i \in 0 .. m - 1 : b \in f[i]}
           Widest(x) == x - 1 \in used /\ \A b \in used : b < x
<1>1. \A i \in 0 .. m - 1 : f[i] \subseteq used
  BY CountAssumption
<1>2. CASE used = {}
  <2>1. MinimumBits(f, m) = 1
    BY <1>2 DEF MinimumBits
  <2> QED
    BY <2>1, <1>1, <1>2, WidthAssumption
<1>3. CASE used # {}
  <2> DEFINE T == {t \in Nat : t < MaxWidth /\ MaxWidth - 1 - t \in used}
  <2>1. T \subseteq Nat /\ T # {}
    <3>1. PICK b \in used : TRUE
      BY <1>3
    <3>2. MaxWidth - 1 - b \in T
      BY <3>1, WidthAssumption
    <3> QED
      BY <3>2
  <2>2. PICK t \in T : \A u \in T : t <= u
    <3> HIDE DEF T
    <3> QED
      BY <2>1, LeastNatural
  <2>3. MaxWidth - t \in 1 .. MaxWidth /\ (MaxWidth - t) - 1 \in used
    BY <2>2, WidthAssumption
  <2>4. ASSUME NEW b \in used PROVE b < MaxWidth - t
    <3>1. MaxWidth - 1 - b \in T
      BY WidthAssumption
    <3>2. t <= MaxWidth - 1 - b
      BY <3>1, <2>2
    <3> QED
      BY <3>2, <2>2, WidthAssumption
  <2>5. \E x \in 1 .. MaxWidth : Widest(x)
    BY <2>3, <2>4
  <2>6. MinimumBits(f, m) = CHOOSE x \in 1 .. MaxWidth : Widest(x)
    BY <1>3 DEF MinimumBits
  <2>7. MinimumBits(f, m) \in 1 .. MaxWidth /\ Widest(MinimumBits(f, m))
    <3> HIDE DEF Widest
    <3> QED
      BY <2>5, <2>6
  <2>8. used \subseteq 0 .. MinimumBits(f, m) - 1
    BY <2>7, WidthAssumption
  <2> QED
    BY <2>7, <2>8, <1>1
<1> QED
  BY <1>2, <1>3

-----------------------------------------------------------------------------
(***************************************************************************)
(* The inductive invariant.  The counts of the first m bins, W bits each,  *)
(* laid end to end, are the set Stream(m) of the positions of the one bits *)
(* of the node's payload.                                                  *)
(***************************************************************************)
W == MinimumBits(vals, n)

Stream(m) == {k \in Nat : \E i \in 0 .. m - 1 : \E b \in vals[i] : k = i * W + b}

\* Bytes before `byte` hold the stream so far; the accumulator holds the rest.
PackingInv ==
  phase = "packing" =>
    /\ width = W
    /\ byte * ByteBits + bits = next * W
    /\ bits < W + ByteBits
    /\ \A q \in 0 .. byte - 1 : \A r \in Byte :
          r \in payload[q] <=> q * ByteBits + r \in Stream(next)
    /\ \A x \in Word : x \in acc <=> byte * ByteBits + x \in Stream(next)

\* What was sent is the whole stream.
PayloadInv ==
  /\ DOMAIN payload = 0 .. NodeSize - 1
  /\ phase # "packing" =>
       \A q \in 0 .. NodeSize - 1 : \A r \in Byte :
          r \in payload[q] <=> q * ByteBits + r \in Stream(n)
  /\ phase = "sent" => byte = NodeSize

\* The reader has consumed `next` fields and holds the next `bits` bits.
ReadingInv ==
  phase = "reading" =>
    /\ Readable
    /\ next <= inside
    /\ byte * ByteBits = next * width + bits
    /\ byte <= End
    /\ bits <= AccBits
    /\ Intact =>
         /\ \A i \in 0 .. next - 1 : counts[i] = vals[i]
         /\ \A x \in Word : x \in acc <=> x < bits /\ next * W + x \in Stream(n)

IInv == TypeOK /\ PackingInv /\ PayloadInv /\ ReadingInv /\ RoundTrip /\ RejectsDamage

-----------------------------------------------------------------------------
(***************************************************************************)
(* Facts about the stream.                                                 *)
(***************************************************************************)
LEMMA WType ==
  ASSUME TypeOK
  PROVE  /\ W \in 1 .. MaxWidth /\ n \in Nat
         /\ \A i \in 0 .. n - 1 : vals[i] \subseteq 0 .. W - 1
         /\ NodeSize \in Nat
         /\ n * W <= NodeSize * ByteBits
         /\ NodeSize * ByteBits < n * W + ByteBits
<1>1. n \in Nat /\ vals \in [0 .. n - 1 -> Counts]
  BY BoundAssumption DEF TypeOK
<1>2. /\ W \in 1 .. MaxWidth
      /\ \A i \in 0 .. n - 1 : vals[i] \subseteq 0 .. W - 1
  BY <1>1, MinimumBitsWide DEF W
<1>3. W \in Nat
  BY <1>2
<1> QED
  BY <1>1, <1>2, <1>3, PayloadCeiling DEF NodeSize, W

\* The first m fields stay below m * W.
LEMMA StreamBelow ==
  ASSUME TypeOK, NEW m \in 0 .. n, NEW k \in Stream(m)
  PROVE  k \in Nat /\ k < m * W
<1>1. PICK i \in 0 .. m - 1 : \E b \in vals[i] : k = i * W + b
  BY DEF Stream
<1>2. PICK b \in vals[i] : k = i * W + b
  BY <1>1
<1>3. n \in Nat /\ m \in Nat /\ i \in Nat /\ i < m /\ i \in 0 .. n - 1 /\ W \in Nat
  BY WType
<1>4. b \in 0 .. W - 1
  BY <1>3, <1>2, WType
<1>5. i * W + W <= m * W
  BY <1>3, FieldsApart
<1>6. i * W \in Nat /\ m * W \in Nat
  BY <1>3, ProductNat
<1> QED
  BY <1>2, <1>3, <1>4, <1>5, <1>6

\* One more field adds its own bits and changes nothing below it.
LEMMA StreamNext ==
  ASSUME TypeOK, NEW m \in 0 .. n - 1, NEW k \in Nat
  PROVE  k \in Stream(m + 1) <=> \/ k \in Stream(m)
                                 \/ \E b \in vals[m] : k = m * W + b
<1>1. m \in Nat /\ 0 .. (m + 1) - 1 = (0 .. m - 1) \cup {m}
  BY WType
<1> QED
  BY <1>1 DEF Stream

\* The bits of field m are the count of bin m.
LEMMA StreamField ==
  ASSUME TypeOK, NEW m \in 0 .. n - 1, NEW b \in 0 .. W - 1
  PROVE  m * W + b \in Stream(n) <=> b \in vals[m]
<1>1. m \in Nat /\ W \in Nat /\ n \in Nat
  BY WType
<1>2. m * W + b \in Nat
  BY <1>1, ProductNat
<1>3. ASSUME m * W + b \in Stream(n) PROVE b \in vals[m]
  <2>1. PICK i \in 0 .. n - 1 : \E c \in vals[i] : m * W + b = i * W + c
    BY <1>3 DEF Stream
  <2>2. PICK c \in vals[i] : m * W + b = i * W + c
    BY <2>1
  <2>3. c \in 0 .. W - 1 /\ i \in Nat
    BY <2>2, WType
  <2>4. ~ (i < m) /\ ~ (m < i)
    BY <1>1, <2>2, <2>3, FieldsApart, ProductNat
  <2>5. m = i /\ b = c
    BY <1>1, <2>2, <2>3, <2>4, ProductNat
  <2> QED
    BY <2>2, <2>5
<1>4. ASSUME b \in vals[m] PROVE m * W + b \in Stream(n)
  BY <1>2, <1>4 DEF Stream
<1> QED
  BY <1>3, <1>4

-----------------------------------------------------------------------------
(***************************************************************************)
(* The initial states, and one lemma per action.                           *)
(***************************************************************************)
LEMMA InitInv == CodecInit => IInv
<1> SUFFICES ASSUME CodecInit PROVE IInv
  OBVIOUS
<1>1. n \in Nat /\ vals \in [0 .. n - 1 -> Counts]
  BY BoundAssumption DEF CodecInit
<1>2. W \in 1 .. MaxWidth /\ width = W /\ NodeSize = PayloadBytes(n, width)
  BY <1>1, MinimumBitsWide DEF CodecInit, W, NodeSize
<1>3. NodeSize \in Nat
  BY <1>1, <1>2, PayloadCeiling
<1>4. TypeOK
  BY <1>1, <1>2, WidthAssumption DEF CodecInit, TypeOK
<1>5. PackingInv
  <2>1. Stream(0) = {}
    BY DEF Stream
  <2>2. byte * ByteBits + bits = next * W
    BY <1>2, ByteAssumption DEF CodecInit
  <2>3. bits < W + ByteBits
    BY <1>2, ByteAssumption DEF CodecInit
  <2> QED
    BY <1>2, <2>1, <2>2, <2>3 DEF CodecInit, PackingInv
<1>6. PayloadInv /\ ReadingInv /\ RoundTrip /\ RejectsDamage
  BY <1>2 DEF CodecInit, PayloadInv, ReadingInv, RoundTrip, RejectsDamage
<1> QED
  BY <1>4, <1>5, <1>6 DEF IInv

\* Packing a count keeps the invariant (serializeCounts).
LEMMA PackCountStep == ASSUME IInv, PackCount PROVE IInv'
<1>1. /\ TypeOK /\ PackingInv /\ PayloadInv /\ phase = "packing"
      /\ bits < ByteBits /\ next < n /\ next \in 0 .. n - 1
  BY WType DEF IInv, PackCount, TypeOK
<1>2. /\ width = W /\ W \in 1 .. MaxWidth /\ W \in Nat /\ n \in Nat /\ next \in Nat
      /\ bits \in Nat /\ byte \in Nat
      /\ vals[next] \subseteq 0 .. W - 1
      /\ byte * ByteBits \in Nat /\ next * W \in Nat
  <2>1. width = W /\ bits \in Nat /\ byte \in Nat
    BY <1>1 DEF PackingInv, TypeOK
  <2>2. W \in 1 .. MaxWidth /\ W \in Nat /\ n \in Nat /\ next \in Nat
        /\ vals[next] \subseteq 0 .. W - 1
    BY <1>1, WType
  <2>3. byte * ByteBits \in Nat /\ next * W \in Nat
    BY <2>1, <2>2, ProductNat, ByteAssumption
  <2> QED
    BY <2>1, <2>2, <2>3
<1>3. W' = W /\ NodeSize' = NodeSize /\ Stream(next)' = Stream(next + 1)
  BY DEF PackCount, W, NodeSize, Stream
<1>4. TypeOK'
  <2>1. acc' \in SUBSET Word
    BY <1>1 DEF PackCount, TypeOK, ShiftLeft
  <2>2. bits' \in Nat /\ next' \in 0 .. n
    BY <1>1, <1>2 DEF PackCount, TypeOK
  <2> QED
    BY <1>1, <2>1, <2>2 DEF PackCount, TypeOK
<1>5. PackingInv'
  <2>1. (byte * ByteBits + bits = next * W)'
    <3>1. byte * ByteBits + bits = next * W
      BY <1>1 DEF PackingInv
    <3>2. byte' = byte /\ bits' = bits + W /\ next' = next + 1
      BY <1>1, <1>2 DEF PackCount
    <3>3. (next + 1) * W = next * W + W
      BY <1>2, ProductNext
    <3> QED
      BY <3>1, <3>2, <3>3, <1>2, <1>3
  <2>2. (bits < W + ByteBits)'
    BY <1>1, <1>2, <1>3, ByteAssumption DEF PackCount
  <2>3. ASSUME NEW q \in 0 .. byte - 1, NEW r \in Byte
        PROVE  r \in payload[q] <=> q * ByteBits + r \in Stream(next + 1)
    <3>1. q \in Nat /\ q < byte /\ q * ByteBits \in Nat
      BY <1>2, ProductNat, ByteAssumption
    <3>2. q * ByteBits + ByteBits <= byte * ByteBits
      BY <3>1, <1>2, FieldsApart, ByteAssumption
    <3>3. q * ByteBits + r \in Nat /\ q * ByteBits + r < next * W
      BY <3>1, <3>2, <1>1, <1>2, ByteAssumption DEF PackingInv, Byte
    <3>4. \A b \in vals[next] : q * ByteBits + r # next * W + b
      BY <3>3, <1>2
    <3> QED
      BY <3>3, <3>4, <1>1, StreamNext DEF PackingInv
  <2>4. ASSUME NEW x \in Word
        PROVE  x \in acc' <=> byte * ByteBits + x \in Stream(next + 1)
    <3>1. x \in acc <=> byte * ByteBits + x \in Stream(next)
      BY <1>1 DEF PackingInv
    <3>2. x \in ShiftLeft(vals[next], bits)
            <=> \E b \in vals[next] : byte * ByteBits + x = next * W + b
      <4>1. byte * ByteBits + bits = next * W
        BY <1>1 DEF PackingInv
      <4>2. \A b \in vals[next] : x = b + bits <=> byte * ByteBits + x = next * W + b
        BY <4>1, <1>2, AccAssumption DEF Word
      <4> QED
        BY <4>2 DEF ShiftLeft
    <3>3. byte * ByteBits + x \in Nat
      BY <1>2 DEF Word
    <3> QED
      BY <3>1, <3>2, <3>3, <1>1, StreamNext DEF PackCount
  <2> QED
    BY <1>1, <1>2, <1>3, <2>1, <2>2, <2>3, <2>4 DEF PackCount, PackingInv
<1>6. PayloadInv'
  BY <1>1, <1>3 DEF PackCount, PayloadInv
<1>7. ReadingInv' /\ RoundTrip' /\ RejectsDamage'
  BY <1>1 DEF PackCount, ReadingInv, RoundTrip, RejectsDamage
<1> QED
  BY <1>4, <1>5, <1>6, <1>7 DEF IInv

\* Draining a byte of the buffer keeps it.
LEMMA DrainByteStep == ASSUME IInv, DrainByte PROVE IInv'
<1>1. /\ TypeOK /\ PackingInv /\ PayloadInv /\ phase = "packing" /\ bits >= ByteBits
  BY DEF IInv, DrainByte
<1>2. /\ width = W /\ W \in 1 .. MaxWidth /\ W \in Nat /\ n \in Nat /\ next \in 0 .. n
      /\ bits \in Nat /\ byte \in Nat
      /\ byte * ByteBits \in Nat /\ next * W \in Nat /\ ByteBits \in Nat
      /\ byte * ByteBits + bits = next * W
      /\ bits < W + ByteBits
      /\ bits <= AccBits
  <2>1. width = W /\ bits \in Nat /\ byte \in Nat /\ next \in 0 .. n
        /\ byte * ByteBits + bits = next * W
        /\ bits < W + ByteBits
    BY <1>1 DEF PackingInv, TypeOK
  <2>2. W \in 1 .. MaxWidth /\ W \in Nat /\ n \in Nat /\ ByteBits \in Nat
    BY <1>1, WType, ByteAssumption
  <2>3. byte * ByteBits \in Nat /\ next * W \in Nat
    BY <2>1, <2>2, ProductNat
  <2>4. bits <= AccBits
    BY <2>1, <2>2, AccAssumption, WidthAssumption
  <2> QED
    BY <2>1, <2>2, <2>3, <2>4
<1>3. W' = W /\ NodeSize' = NodeSize /\ Stream(next)' = Stream(next)
  BY DEF DrainByte, W, NodeSize, Stream
<1>4. TypeOK'
  <2>1. acc' \in SUBSET Word
    BY <1>1, <1>2, ShiftRightType DEF DrainByte, TypeOK
  <2>2. bits' \in Nat /\ byte' \in Nat
    <3>1. bits' = bits - ByteBits /\ byte' = byte + 1
      BY DEF DrainByte
    <3> QED
      BY <3>1, <1>1, <1>2
  <2>3. payload' \in [DOMAIN payload' -> SUBSET Byte]
    BY <1>1 DEF DrainByte, TypeOK
  <2> QED
    BY <1>1, <2>1, <2>2, <2>3 DEF DrainByte, TypeOK
<1>5. byte \in 0 .. NodeSize - 1
  <2>1. next * W <= n * W
    BY <1>2, FieldsApart, ProductNat
  <2>2. (byte + 1) * ByteBits = byte * ByteBits + ByteBits
    BY <1>2, ProductNext
  <2>3. (byte + 1) * ByteBits <= NodeSize * ByteBits
    BY <2>1, <2>2, <1>1, <1>2, WType, ProductNat
  <2>4. ~ (NodeSize < byte + 1)
    <3>1. NodeSize \in Nat
      BY <1>1, WType
    <3>2. ASSUME NodeSize < byte + 1 PROVE FALSE
      BY <3>1, <3>2, <1>2, <2>3, FieldsApart, ProductNat, ByteAssumption
    <3> QED
      BY <3>2
  <2> QED
    BY <2>4, <1>1, <1>2, WType
<1>6. PackingInv'
  <2>1. (byte * ByteBits + bits = next * W)'
    <3>1. byte' = byte + 1 /\ bits' = bits - ByteBits /\ next' = next
      BY <1>1 DEF DrainByte
    <3>2. (byte + 1) * ByteBits = byte * ByteBits + ByteBits
      BY <1>2, ProductNext
    <3> QED
      BY <3>1, <3>2, <1>2, <1>3
  <2>2. (bits < W + ByteBits)'
    BY <1>1, <1>2, <1>3, ByteAssumption DEF DrainByte
  <2>3. ASSUME NEW q \in 0 .. byte, NEW r \in Byte
        PROVE  r \in payload'[q] <=> q * ByteBits + r \in Stream(next)
    <3>1. CASE q = byte
      <4>1. payload'[q] = acc \cap Byte
        BY <3>1, <1>1, <1>5 DEF DrainByte, PayloadInv
      <4>2. r \in Word
        BY <1>1, <1>2, AccAssumption, ByteAssumption DEF Byte, Word
      <4> QED
        BY <3>1, <4>1, <4>2, <1>1 DEF PackingInv
    <3>2. CASE q # byte
      <4>1. q \in 0 .. byte - 1
        BY <3>2, <1>2
      <4>2. payload'[q] = payload[q]
        BY <3>2, <4>1, <1>5, <1>1, WType DEF DrainByte, PayloadInv
      <4> QED
        BY <4>1, <4>2, <1>1 DEF PackingInv
    <3> QED
      BY <3>1, <3>2
  <2>4. ASSUME NEW x \in Word
        PROVE  x \in acc' <=> (byte + 1) * ByteBits + x \in Stream(next)
    <3>1. x \in acc' <=> x + ByteBits \in acc
      BY <1>1, <1>2, ShiftRightBits DEF DrainByte, TypeOK
    <3>2. (byte + 1) * ByteBits + x = byte * ByteBits + (x + ByteBits)
      BY <1>2, ProductNext DEF Word
    <3>3. CASE x + ByteBits \in Word
      BY <3>1, <3>2, <3>3, <1>1 DEF PackingInv
    <3>4. CASE x + ByteBits \notin Word
      <4>1. x + ByteBits \notin acc
        BY <3>4, <1>1 DEF TypeOK
      <4>2. byte * ByteBits + (x + ByteBits) >= next * W
        BY <3>4, <1>2, AccAssumption DEF Word
      <4>3. byte * ByteBits + (x + ByteBits) \notin Stream(next)
        BY <4>2, <1>1, <1>2, StreamBelow
      <4> QED
        BY <3>1, <3>2, <4>1, <4>3
    <3> QED
      BY <3>3, <3>4
  <2> QED
    BY <1>1, <1>2, <1>3, <2>1, <2>2, <2>3, <2>4 DEF DrainByte, PackingInv
<1>7. PayloadInv'
  BY <1>1, <1>3 DEF DrainByte, PayloadInv
<1>8. ReadingInv' /\ RoundTrip' /\ RejectsDamage'
  BY <1>1 DEF DrainByte, ReadingInv, RoundTrip, RejectsDamage
<1> QED
  BY <1>4, <1>6, <1>7, <1>8 DEF IInv

\* Writing the last byte keeps it.
LEMMA FinishPackingStep == ASSUME IInv, FinishPacking PROVE IInv'
<1>1. /\ TypeOK /\ PackingInv /\ PayloadInv /\ phase = "packing"
      /\ bits < ByteBits /\ next = n
  BY DEF IInv, FinishPacking
<1>2. /\ width = W /\ W \in Nat /\ n \in Nat /\ NodeSize \in Nat
      /\ bits \in Nat /\ byte \in Nat /\ ByteBits \in Nat /\ ByteBits > 0
      /\ byte * ByteBits + bits = n * W
      /\ n * W <= NodeSize * ByteBits /\ NodeSize * ByteBits < n * W + ByteBits
  <2>1. width = W /\ bits \in Nat /\ byte \in Nat /\ byte * ByteBits + bits = n * W
    BY <1>1 DEF PackingInv, TypeOK
  <2> QED
    BY <2>1, <1>1, WType, ByteAssumption
<1>3. byte * ByteBits \in Nat /\ n * W \in Nat /\ NodeSize * ByteBits \in Nat
  BY <1>2, ProductNat
<1>4. NodeSize = IF bits > 0 THEN byte + 1 ELSE byte
  <2>1. (byte + 1) * ByteBits = byte * ByteBits + ByteBits
    BY <1>2, ProductNext
  <2>2. ~ (NodeSize < byte)
    BY <1>2, <1>3, FieldsApart
  <2>3. ~ (byte + 1 < NodeSize)
    BY <1>1, <1>2, <1>3, <2>1, FieldsApart
  <2>4. CASE bits = 0
    <3>1. NodeSize # byte + 1
      BY <2>4, <2>1, <1>2, <1>3
    <3> QED
      BY <3>1, <2>2, <2>3, <2>4, <1>2
  <2>5. CASE bits > 0
    <3>1. NodeSize # byte
      BY <2>5, <1>2, <1>3
    <3> QED
      BY <3>1, <2>2, <2>3, <2>5, <1>2
  <2> QED
    BY <2>4, <2>5, <1>2
<1>5. W' = W /\ NodeSize' = NodeSize /\ Stream(n)' = Stream(n)
  BY DEF FinishPacking, W, NodeSize, Stream
<1>6. TypeOK'
  <2>1. payload' \in [DOMAIN payload' -> SUBSET Byte]
    <3>1. payload \in [DOMAIN payload -> SUBSET Byte]
      BY <1>1 DEF TypeOK
    <3>2. payload' = payload \/ payload' = [payload EXCEPT ![byte] = acc \cap Byte]
      BY DEF FinishPacking
    <3> QED
      BY <3>1, <3>2
  <2>3. byte' \in Nat
    BY <1>2 DEF FinishPacking
  <2>2. avail' \in Nat /\ inside' \in 0 .. n
    BY <1>2 DEF FinishPacking, NodeSize, W
  <2> QED
    BY <1>1, <2>1, <2>2, <2>3 DEF FinishPacking, TypeOK
<1>7. PayloadInv'
  <2>1. DOMAIN payload' = 0 .. NodeSize - 1
    BY <1>1 DEF FinishPacking, PayloadInv
  <2>2. byte' = NodeSize
    BY <1>2, <1>4 DEF FinishPacking
  <2>3. ASSUME NEW q \in 0 .. NodeSize - 1, NEW r \in Byte
        PROVE  r \in payload'[q] <=> q * ByteBits + r \in Stream(n)
    <3>1. CASE q = byte
      <4>1. bits > 0
        BY <3>1, <1>2, <1>4
      <4>2. payload'[q] = acc \cap Byte
        BY <3>1, <4>1, <1>1 DEF FinishPacking, PayloadInv
      <4>3. r \in Word
        <5>1. ByteBits <= AccBits
          BY AccAssumption, ByteAssumption, WidthAssumption
        <5> QED
          BY <5>1, AccAssumption, ByteAssumption DEF Byte, Word
      <4> QED
        BY <3>1, <4>2, <4>3, <1>1 DEF PackingInv
    <3>2. CASE q # byte
      <4>1. q \in 0 .. byte - 1
        BY <3>2, <1>2, <1>4
      <4>2. payload'[q] = payload[q]
        BY <3>2, <1>1 DEF FinishPacking, PayloadInv
      <4> QED
        BY <4>1, <4>2, <1>1 DEF PackingInv
    <3> QED
      BY <3>1, <3>2
  <2> QED
    BY <1>1, <1>5, <2>1, <2>2, <2>3 DEF FinishPacking, PayloadInv
<1>8. PackingInv' /\ ReadingInv' /\ RoundTrip' /\ RejectsDamage'
  BY <1>1 DEF FinishPacking, PackingInv, ReadingInv, RoundTrip, RejectsDamage
<1> QED
  BY <1>6, <1>7, <1>8 DEF IInv

\* What happens to the bytes between writing and reading keeps it.
LEMMA DamageStep == ASSUME IInv, Damage PROVE IInv'
<1>1. TypeOK /\ PayloadInv /\ phase = "sent"
  BY DEF IInv, Damage, Truncate, StrayMaskBit, ChangeWidth
<1>2. /\ phase' = phase /\ n' = n /\ vals' = vals /\ payload' = payload
      /\ byte' = byte
  BY DEF Damage, Truncate, StrayMaskBit, ChangeWidth
<1>3. NodeSize' = NodeSize /\ Stream(n)' = Stream(n)
  BY <1>2 DEF NodeSize, W, Stream
<1>4. TypeOK'
  <2>1. avail' \in Nat
    BY <1>1 DEF Damage, Truncate, StrayMaskBit, ChangeWidth, TypeOK
  <2>2. inside' \in 0 .. n
    BY <1>1, BoundAssumption DEF Damage, Truncate, StrayMaskBit, ChangeWidth, TypeOK
  <2>3. width' \in 0 .. MaxWidth + 1
    BY <1>1 DEF Damage, Truncate, StrayMaskBit, ChangeWidth, TypeOK
  <2> QED
    BY <1>1, <2>1, <2>2, <2>3 DEF Damage, Truncate, StrayMaskBit, ChangeWidth, TypeOK
<1>5. PayloadInv'
  BY <1>1, <1>2, <1>3 DEF PayloadInv
<1>6. PackingInv' /\ ReadingInv' /\ RoundTrip' /\ RejectsDamage'
  BY <1>1, <1>2 DEF PackingInv, ReadingInv, RoundTrip, RejectsDamage
<1> QED
  BY <1>4, <1>5, <1>6 DEF IInv

\* Starting to read keeps it (deserializeCounts).
LEMMA BeginReadingStep == ASSUME IInv, BeginReading PROVE IInv'
<1>1. TypeOK /\ PayloadInv /\ phase = "sent"
  BY DEF IInv, BeginReading
<1>2. /\ n' = n /\ vals' = vals /\ payload' = payload /\ width' = width
      /\ avail' = avail /\ inside' = inside
      /\ acc' = {} /\ bits' = 0 /\ byte' = 0 /\ next' = 0
  BY DEF BeginReading
<1>3. W' = W /\ NodeSize' = NodeSize /\ Stream(n)' = Stream(n) /\ (Intact <=> Intact')
        /\ (Readable <=> Readable') /\ End' = End
  BY <1>2 DEF NodeSize, W, Stream, Intact, Whole, Readable, End
<1>4. W \in 1 .. MaxWidth /\ n \in Nat /\ width \in Nat /\ End \in Nat
  BY <1>1, WType, PayloadCeiling DEF TypeOK, End
<1>5. TypeOK'
  BY <1>1, <1>4 DEF BeginReading, TypeOK
<1>6. PayloadInv'
  BY <1>1, <1>3 DEF BeginReading, PayloadInv
<1>7. ReadingInv'
  <2>1. 0 * ByteBits = 0 * width + 0
    BY <1>4, ByteAssumption
  <2>2. 0 <= inside /\ 0 <= End /\ 0 <= AccBits
    BY <1>1, <1>4, AccAssumption DEF TypeOK
  <2>3. \A x \in Word : ~ (x < 0)
    BY AccAssumption DEF Word
  <2>4. phase' = "reading" => Readable
    BY DEF BeginReading
  <2> QED
    BY <1>2, <1>3, <2>1, <2>2, <2>3, <2>4 DEF ReadingInv
<1>8. RejectsDamage'
  <2>1. ASSUME Intact PROVE Readable
    <3>1. width = W /\ avail = End /\ W <= MaxWidth
      BY <2>1, <1>4, WidthAssumption DEF Intact, Whole, W, End
    <3> QED
      BY <3>1, <1>4 DEF Readable
  <2> QED
    BY <1>1, <1>3, <2>1 DEF BeginReading, RejectsDamage
<1>9. PackingInv' /\ RoundTrip'
  BY <1>1 DEF BeginReading, PackingInv, RoundTrip
<1> QED
  BY <1>5, <1>6, <1>7, <1>8, <1>9 DEF IInv

\* What the reader relies on: the payload is the stream, and ends within it.
LEMMA ReadingFacts ==
  ASSUME IInv, phase = "reading"
  PROVE  /\ TypeOK /\ PayloadInv /\ Readable /\ next <= inside /\ next \in 0 .. n
         /\ n \in Nat /\ width \in Nat /\ bits \in Nat /\ byte \in Nat /\ End \in Nat
         /\ ByteBits \in Nat /\ ByteBits > 0 /\ width <= MaxWidth
         /\ bits <= AccBits /\ byte <= End /\ AccBits \in Nat
         /\ byte * ByteBits = next * width + bits
         /\ n * width <= End * ByteBits
         /\ byte * ByteBits \in Nat /\ next * width \in Nat
         /\ Intact => width = W /\ End = NodeSize
<1>1. /\ TypeOK /\ PayloadInv /\ Readable /\ next <= inside
      /\ bits <= AccBits /\ byte <= End /\ width <= MaxWidth
      /\ byte * ByteBits = next * width + bits
  BY DEF IInv, ReadingInv, Readable
<1>2. /\ n \in Nat /\ width \in Nat /\ bits \in Nat /\ byte \in Nat /\ next \in 0 .. n
      /\ ByteBits \in Nat /\ ByteBits > 0 /\ AccBits \in Nat
  BY <1>1, WType, ByteAssumption, AccAssumption DEF TypeOK
<1>3. End \in Nat /\ n * width <= End * ByteBits
  BY <1>2, PayloadCeiling DEF End
<1>4. byte * ByteBits \in Nat /\ next * width \in Nat
  BY <1>2, ProductNat
<1>5. Intact => width = W /\ End = NodeSize
  BY DEF Intact, W, End, NodeSize
<1> QED
  BY <1>1, <1>2, <1>3, <1>4, <1>5

\* A field is missing bits only if a byte of the payload is still unread.
LEMMA MoreBytes ==
  ASSUME IInv, NeedsBits
  PROVE  byte < End
<1>1. phase = "reading" /\ next < inside /\ bits < width
  BY DEF NeedsBits
<1>2. next \in Nat /\ next < n
  BY <1>1, ReadingFacts DEF TypeOK
<1>3. next * width + width <= n * width
  BY <1>1, <1>2, ReadingFacts, FieldsApart
<1>4. n * width \in Nat /\ End * ByteBits \in Nat
  BY <1>1, ReadingFacts, ProductNat
<1>5. byte * ByteBits < End * ByteBits
  BY <1>1, <1>3, <1>4, ReadingFacts
<1>6. byte # End /\ byte <= End /\ byte \in Nat /\ End \in Nat
  BY <1>1, <1>5, <1>4, ReadingFacts
<1> QED
  BY <1>6

\* t whole bytes that fit are appended above the bits already held.
LEMMA LoadStep ==
  ASSUME IInv, phase = "reading",
         NEW t \in Nat, byte + t <= End, bits + t * ByteBits <= AccBits,
         acc' = acc \cup Loaded(t, bits),
         byte' = byte + t,
         bits' = bits + t * ByteBits,
         UNCHANGED <<phase, n, vals, width, payload, next, avail, inside, counts>>
  PROVE  IInv'
<1>1. /\ W' = W /\ NodeSize' = NodeSize /\ Stream(n)' = Stream(n) /\ End' = End
      /\ (Intact <=> Intact') /\ (Readable <=> Readable')
  BY DEF W, NodeSize, Stream, End, Intact, Whole, Readable
<1>2. t * ByteBits \in Nat
  BY ReadingFacts, ProductNat
<1>3. TypeOK'
  <2>1. acc' \in SUBSET Word
    BY ReadingFacts DEF TypeOK, Loaded
  <2>2. bits' \in Nat /\ byte' \in Nat
    BY <1>2, ReadingFacts
  <2> QED
    BY <2>1, <2>2, ReadingFacts DEF TypeOK
<1>4. PayloadInv'
  BY <1>1, ReadingFacts DEF PayloadInv
<1>5. (byte * ByteBits = next * width + bits)'
  <2>1. (byte + t) * ByteBits = byte * ByteBits + t * ByteBits
    BY ReadingFacts
  <2> QED
    BY <2>1, <1>2, ReadingFacts
<1>6. ASSUME Intact, NEW x \in Word
      PROVE  x \in acc' <=> x < bits' /\ next * W + x \in Stream(n)
  <2>1. x \in Nat /\ width = W /\ W \in Nat
    BY <1>6, ReadingFacts, AccAssumption DEF Word
  <2>2. CASE x < bits
    <3>1. x \notin Loaded(t, bits)
      <4>1. ASSUME NEW q \in 0 .. t - 1, NEW r \in Byte PROVE x # bits + q * ByteBits + r
        BY <2>1, <2>2, ReadingFacts, ProductNat DEF Byte
      <4> QED
        BY <4>1 DEF Loaded
    <3>2. x < bits'
      BY <2>1, <2>2, <1>2, ReadingFacts
    <3> QED
      BY <3>1, <3>2, <2>2, <1>6 DEF IInv, ReadingInv
  <2>3. CASE ~ (x < bits)
    <3>1. x \notin acc
      BY <2>3, <1>6 DEF IInv, ReadingInv
    <3>2. ASSUME NEW q \in 0 .. t - 1, NEW r \in Byte, x = bits + q * ByteBits + r
          PROVE  /\ x < bits'
                 /\ r \in payload[byte + q] <=> next * W + x \in Stream(n)
      <4>1. q \in Nat /\ q < t /\ r \in Nat /\ r < ByteBits /\ q * ByteBits \in Nat
        BY ReadingFacts, ProductNat DEF Byte
      <4>2. q * ByteBits + ByteBits <= t * ByteBits
        BY <4>1, ReadingFacts, FieldsApart
      <4>3. x < bits'
        BY <3>2, <4>1, <4>2, <1>2, ReadingFacts
      <4>4. (byte + q) * ByteBits + r = next * W + x
        <5>1. (byte + q) * ByteBits = byte * ByteBits + q * ByteBits
          BY <4>1, ReadingFacts
        <5> QED
          BY <5>1, <3>2, <4>1, <2>1, ReadingFacts
      <4>5. byte + q \in 0 .. NodeSize - 1
        BY <4>1, <1>6, ReadingFacts
      <4>6. r \in payload[byte + q] <=> (byte + q) * ByteBits + r \in Stream(n)
        BY <4>5, ReadingFacts DEF PayloadInv
      <4> QED
        BY <4>3, <4>4, <4>6
    <3>3. CASE x < bits'
      <4>1. \E q \in 0 .. t - 1, r \in Byte : x = bits + q * ByteBits + r
        <5>1. x - bits \in Nat /\ x - bits < t * ByteBits
          BY <3>3, <2>1, <2>3, <1>2, ReadingFacts
        <5>2. PICK q \in Nat, r \in Byte : x - bits = q * ByteBits + r
          BY <5>1, BitInByte
        <5>3. q * ByteBits \in Nat /\ r \in Nat
          BY ReadingFacts, ProductNat DEF Byte
        <5>4. ~ (t < q)
          BY <5>1, <5>2, <5>3, <1>2, FieldsApart, ReadingFacts
        <5>5. q # t
          BY <5>1, <5>2, <5>3, <1>2
        <5>6. x = bits + q * ByteBits + r
          BY <5>2, <5>3, <2>1, ReadingFacts
        <5> QED
          BY <5>4, <5>5, <5>6
      <4>2. PICK q \in 0 .. t - 1, r \in Byte : x = bits + q * ByteBits + r
        BY <4>1
      <4>3. x \in Loaded(t, bits) <=> next * W + x \in Stream(n)
        BY <4>2, <3>2 DEF Loaded
      <4> QED
        BY <3>1, <3>3, <4>3
    <3>4. CASE ~ (x < bits')
      <4>1. x \notin Loaded(t, bits)
        BY <3>2, <3>4 DEF Loaded
      <4> QED
        BY <3>1, <3>4, <4>1
    <3> QED
      BY <3>3, <3>4
  <2> QED
    BY <2>2, <2>3
<1>7. ReadingInv'
  BY <1>1, <1>5, <1>6, ReadingFacts DEF IInv, ReadingInv
<1>8. PackingInv' /\ RoundTrip' /\ RejectsDamage'
  BY DEF PackingInv, RoundTrip, RejectsDamage
<1> QED
  BY <1>3, <1>4, <1>7, <1>8 DEF IInv

\* Filling the buffer by a word keeps it.
LEMMA RefillWordStep == ASSUME IInv, RefillWord PROVE IInv'
<1> DEFINE a == AccBits \div ByteBits
<1>1. phase = "reading" /\ byte + a <= End
  BY DEF RefillWord, NeedsBits
<1>2. \A x \in Nat : /\ x \div ByteBits \in Nat
                     /\ (x \div ByteBits) * ByteBits <= x
  BY ByteAssumption
<1>3. AccBits - bits \in Nat
  BY <1>1, ReadingFacts
<1>4. Take \in Nat /\ Take * ByteBits <= AccBits - bits
  BY <1>2, <1>3 DEF Take
<1>5. a \in Nat /\ a * ByteBits <= AccBits /\ AccBits < a * ByteBits + ByteBits
  BY ByteAssumption, AccAssumption
<1>6. Take <= a
  <2>1. Take * ByteBits <= AccBits
    BY <1>1, <1>4, ReadingFacts, ProductNat
  <2>2. ~ (a < Take)
    <3> HIDE DEF a
    <3> QED
      BY <1>1, <1>4, <1>5, <2>1, FieldsApart, ReadingFacts, ProductNat
  <2> QED
    BY <2>2, <1>4, <1>5
<1>7. byte + Take <= End
  <2> HIDE DEF a
  <2> QED
    BY <1>1, <1>4, <1>5, <1>6, ReadingFacts
<1>8. bits + Take * ByteBits <= AccBits
  BY <1>1, <1>4, ReadingFacts, ProductNat
<1> QED
  BY <1>1, <1>4, <1>7, <1>8, LoadStep DEF RefillWord

\* Filling it by a byte keeps it.
LEMMA RefillByteStep == ASSUME IInv, RefillByte PROVE IInv'
<1>1. phase = "reading" /\ NeedsBits /\ bits < width
  BY DEF RefillByte, NeedsBits
<1>2. byte < End
  BY <1>1, MoreBytes
<1>3. 1 * ByteBits = ByteBits
  BY ByteAssumption
<1>4. byte + 1 <= End /\ bits + 1 * ByteBits <= AccBits
  BY <1>1, <1>2, <1>3, ReadingFacts, AccAssumption, WidthAssumption
<1> QED
  BY <1>1, <1>3, <1>4, LoadStep DEF RefillByte

\* Taking a count out of the buffer keeps it.
LEMMA TakeCountStep == ASSUME IInv, TakeCount PROVE IInv'
<1>1. phase = "reading" /\ next < inside /\ bits >= width
  BY DEF TakeCount
<1>2. /\ W' = W /\ NodeSize' = NodeSize /\ Stream(n)' = Stream(n) /\ End' = End
      /\ (Intact <=> Intact') /\ (Readable <=> Readable')
  BY DEF TakeCount, W, NodeSize, Stream, End, Intact, Whole, Readable
<1>3. next \in 0 .. n - 1 /\ next \in Nat /\ inside \in 0 .. n
  <2>1. inside \in 0 .. n
    BY <1>1, ReadingFacts DEF TypeOK
  <2>2. next \in 0 .. n /\ n \in Nat
    BY <1>1, ReadingFacts
  <2> QED
    BY <1>1, <2>1, <2>2
<1>4. TypeOK'
  <2>1. acc' \in SUBSET Word
    BY <1>1, ReadingFacts, ShiftRightType DEF TakeCount, TypeOK
  <2>2. bits' \in Nat /\ next' \in 0 .. n
    BY <1>1, <1>3, ReadingFacts DEF TakeCount
  <2>3. acc \cap (0 .. width - 1) \in SUBSET (0 .. MaxWidth - 1)
    BY <1>1, ReadingFacts, WidthAssumption
  <2>4. counts' \in [0 .. n - 1 -> SUBSET (0 .. MaxWidth - 1)]
    BY <1>1, <1>3, <2>3, ReadingFacts DEF TakeCount, TypeOK
  <2> QED
    BY <1>1, <2>1, <2>2, <2>4, ReadingFacts DEF TakeCount, TypeOK
<1>5. PayloadInv'
  BY <1>1, <1>2, ReadingFacts DEF TakeCount, PayloadInv
<1>6. (next + 1) * width = next * width + width
  BY <1>1, <1>3, ReadingFacts, ProductNext
<1>7. (byte * ByteBits = next * width + bits)'
  BY <1>1, <1>3, <1>6, ReadingFacts DEF TakeCount
<1>8. ASSUME Intact PROVE counts'[next] = vals[next]
  <2>1. W \in 1 .. MaxWidth /\ vals[next] \subseteq 0 .. W - 1 /\ width = W
    BY <1>1, <1>3, <1>8, ReadingFacts, WType
  <2>2. counts'[next] = acc \cap (0 .. W - 1)
    BY <1>1, <1>3, <2>1, ReadingFacts DEF TakeCount, TypeOK
  <2>3. ASSUME NEW b \in 0 .. W - 1 PROVE b \in acc <=> b \in vals[next]
    <3>1. b \in Word /\ b < bits
      BY <2>1, <1>1, ReadingFacts, AccAssumption, WidthAssumption DEF Word
    <3>2. b \in acc <=> next * W + b \in Stream(n)
      BY <3>1, <1>1, <1>8 DEF IInv, ReadingInv
    <3> QED
      BY <3>2, <1>1, <1>3, ReadingFacts, StreamField
  <2> QED
    BY <2>1, <2>2, <2>3
<1>9. ASSUME Intact, NEW i \in 0 .. next PROVE counts'[i] = vals[i]
  <2>1. CASE i = next
    BY <2>1, <1>8, <1>9
  <2>2. CASE i # next
    <3>1. i \in 0 .. next - 1 /\ i \in 0 .. n - 1
      BY <2>2, <1>3, ReadingFacts, <1>1
    <3>2. counts[i] = vals[i]
      BY <3>1, <1>1, <1>9 DEF IInv, ReadingInv
    <3>3. counts'[i] = counts[i]
      BY <2>2, <3>1, <1>1, ReadingFacts DEF TakeCount, TypeOK
    <3> QED
      BY <3>2, <3>3
  <2> QED
    BY <2>1, <2>2
<1>10. ASSUME Intact, NEW x \in Word
       PROVE  x \in acc' <=> x < bits' /\ (next + 1) * W + x \in Stream(n)
  <2>1. width = W /\ x \in Nat /\ acc \in SUBSET Word
    BY <1>1, <1>10, ReadingFacts, AccAssumption DEF Word, TypeOK
  <2>2. x \in acc' <=> x + width \in acc
    BY <2>1, <1>1, ReadingFacts, ShiftRightBits DEF TakeCount
  <2>3. (next + 1) * W + x = next * W + (x + width)
    BY <2>1, <1>1, <1>3, <1>6, ReadingFacts
  <2>4. x < bits' <=> x + width < bits
    BY <2>1, <1>1, ReadingFacts DEF TakeCount
  <2>5. CASE x + width \in Word
    BY <2>2, <2>3, <2>4, <2>5, <1>1, <1>10 DEF IInv, ReadingInv
  <2>6. CASE x + width \notin Word
    <3>1. ~ (x + width < bits)
      BY <2>1, <2>6, <1>1, ReadingFacts DEF Word
    <3> QED
      BY <2>1, <2>2, <2>4, <2>6, <3>1
  <2> QED
    BY <2>5, <2>6
<1>11. ReadingInv'
  <2>1. next' = next + 1 /\ bits' = bits - width /\ byte' = byte /\ inside' = inside
        /\ width' = width
    BY DEF TakeCount
  <2>2. next + 1 <= inside /\ byte <= End /\ bits - width <= AccBits
    BY <1>1, <1>3, ReadingFacts
  <2>3. 0 .. (next + 1) - 1 = 0 .. next
    BY <1>3
  <2>4. Intact =>
         /\ \A i \in 0 .. next' - 1 : counts'[i] = vals[i]
         /\ \A x \in Word : x \in acc' <=> x < bits' /\ next' * W + x \in Stream(n)
    BY <1>9, <1>10, <2>1, <2>3
  <2>5. vals' = vals /\ Readable
    BY <1>1, ReadingFacts DEF TakeCount
  <2> QED
    BY <1>2, <1>7, <2>1, <2>2, <2>4, <2>5 DEF ReadingInv
<1>12. PackingInv' /\ RoundTrip' /\ RejectsDamage'
  BY <1>1 DEF TakeCount, PackingInv, RoundTrip, RejectsDamage
<1> QED
  BY <1>4, <1>5, <1>11, <1>12 DEF IInv

\* The end of reading, with success or not, keeps it.
LEMMA OutcomeStep == ASSUME IInv, RejectStrayBit \/ FinishReading PROVE IInv'
<1>1. phase = "reading" /\ phase' \in {"done", "rejected"}
  BY DEF RejectStrayBit, FinishReading
<1>2. /\ n' = n /\ vals' = vals /\ payload' = payload /\ counts' = counts
      /\ width' = width /\ avail' = avail /\ inside' = inside
  BY DEF RejectStrayBit, FinishReading
<1>3. /\ NodeSize' = NodeSize /\ Stream(n)' = Stream(n) /\ End' = End
      /\ (Intact <=> Intact')
  BY <1>2 DEF NodeSize, W, Stream, End, Intact, Whole
<1>4. TypeOK'
  BY <1>1, ReadingFacts DEF RejectStrayBit, FinishReading, TypeOK
<1>5. PayloadInv'
  BY <1>1, <1>2, <1>3, ReadingFacts DEF PayloadInv
<1>6. RoundTrip'
  <2>1. CASE FinishReading
    <3>1. ASSUME Intact PROVE counts = vals /\ End = NodeSize
      <4>1. next = n /\ \A i \in 0 .. n - 1 : counts[i] = vals[i]
        BY <2>1, <3>1, <1>1 DEF FinishReading, IInv, ReadingInv
      <4>2. counts = vals
        <5>1. counts = [i \in 0 .. n - 1 |-> counts[i]] /\ vals = [i \in 0 .. n - 1 |-> vals[i]]
          BY <1>1, ReadingFacts DEF TypeOK
        <5>2. [i \in 0 .. n - 1 |-> counts[i]] = [i \in 0 .. n - 1 |-> vals[i]]
          BY <4>1
        <5> QED
          BY <5>1, <5>2, Zenon
      <4> QED
        BY <3>1, <4>2, <1>1, ReadingFacts
    <3> QED
      BY <2>1, <3>1, <1>2, <1>3 DEF FinishReading, RoundTrip
  <2>2. CASE RejectStrayBit
    BY <2>2 DEF RejectStrayBit, RoundTrip
  <2> QED
    BY <2>1, <2>2
<1>7. RejectsDamage'
  <2>1. CASE FinishReading
    <3>1. avail >= End /\ inside = n /\ width <= MaxWidth
      BY <2>1, <1>1, ReadingFacts DEF FinishReading, Readable, TypeOK
    <3> QED
      BY <2>1, <3>1, <1>2, <1>3 DEF FinishReading, RejectsDamage
  <2>2. CASE RejectStrayBit
    <3>1. ~ Intact
      BY <2>2, <1>1, ReadingFacts DEF RejectStrayBit, Intact, Whole
    <3> QED
      BY <2>2, <3>1, <1>3 DEF RejectStrayBit, RejectsDamage
  <2> QED
    BY <2>1, <2>2
<1>8. PackingInv' /\ ReadingInv'
  BY <1>1 DEF PackingInv, ReadingInv
<1> QED
  BY <1>4, <1>5, <1>6, <1>7, <1>8 DEF IInv

\* Nothing happening keeps it.
LEMMA StutterStep == ASSUME IInv, UNCHANGED codecVars PROVE IInv'
  BY DEF IInv, codecVars, TypeOK, PackingInv, PayloadInv, ReadingInv, RoundTrip, RejectsDamage,
         W, NodeSize, Stream, End, Intact, Whole, Readable

-----------------------------------------------------------------------------
(***************************************************************************)
(* serializeCounts and deserializeCounts keep the inductive invariant.     *)
(***************************************************************************)
THEOREM Invariance == CodecSpec => []IInv
<1>1. IInv /\ [CodecNext]_codecVars => IInv'
  <2> SUFFICES ASSUME IInv, [CodecNext]_codecVars PROVE IInv'
    OBVIOUS
  <2>1. CASE PackCount
    BY <2>1, PackCountStep
  <2>2. CASE DrainByte
    BY <2>2, DrainByteStep
  <2>3. CASE FinishPacking
    BY <2>3, FinishPackingStep
  <2>4. CASE Damage
    BY <2>4, DamageStep
  <2>5. CASE BeginReading
    BY <2>5, BeginReadingStep
  <2>6. CASE RefillWord
    BY <2>6, RefillWordStep
  <2>7. CASE RefillByte
    BY <2>7, RefillByteStep
  <2>8. CASE TakeCount
    BY <2>8, TakeCountStep
  <2>9. CASE RejectStrayBit \/ FinishReading
    BY <2>9, OutcomeStep
  <2>10. CASE UNCHANGED codecVars
    BY <2>10, StutterStep
  <2> QED
    BY <2>1, <2>2, <2>3, <2>4, <2>5, <2>6, <2>7, <2>8, <2>9, <2>10
       DEF CodecNext, Pack, Read, CodecEnded
<1> QED
  BY <1>1, InitInv, PTL DEF CodecSpec

\* The variables keep their types.
THEOREM TypeCorrect == CodecSpec => []TypeOK
<1>1. IInv => TypeOK
  BY DEF IInv
<1> QED
  BY <1>1, Invariance, PTL

(***************************************************************************)
(* What arrives whole is read back exactly, with the reader left where the *)
(* writer stopped, whatever the counts, the number of bins and the widths. *)
(***************************************************************************)
THEOREM RoundTripCorrect == CodecSpec => []RoundTrip
<1>1. IInv => RoundTrip
  BY DEF IInv
<1> QED
  BY <1>1, Invariance, PTL

(***************************************************************************)
(* A node is rejected only if damaged; a short payload, a stray mask bit   *)
(* or an impossible width never decodes.                                   *)
(***************************************************************************)
THEOREM DamageRejected == CodecSpec => []RejectsDamage
<1>1. IInv => RejectsDamage
  BY DEF IInv
<1> QED
  BY <1>1, Invariance, PTL

(***************************************************************************)
(* The reader never leaves the node's payload or the buffer, even when the *)
(* mask and the width byte are not the writer's.                           *)
(***************************************************************************)
THEOREM ReadingBounded == CodecSpec => []ReadsInBounds
<1>1. IInv => ReadsInBounds
  <2> SUFFICES ASSUME IInv, phase = "reading"
               PROVE  /\ byte <= End /\ End <= avail
                      /\ bits <= AccBits
                      /\ NeedsBits => byte < End
    BY DEF ReadsInBounds
  <2> QED
    BY ReadingFacts, MoreBytes DEF Readable
<1> QED
  BY <1>1, Invariance, PTL

(***************************************************************************)
(* The writer's raw pointer stays in the region the buffer was resized by, *)
(* and leaves no byte of it unwritten.                                     *)
(***************************************************************************)
THEOREM PackingExact == CodecSpec => []PacksExactly
<1>1. ASSUME IInv, phase = "packing" PROVE byte <= NodeSize /\ PayloadBytes(n, width) = NodeSize
  <2>1. /\ width = W /\ byte \in Nat /\ bits \in Nat /\ next \in 0 .. n
        /\ byte * ByteBits + bits = next * W
    BY <1>1 DEF IInv, PackingInv, TypeOK
  <2>2. W \in Nat /\ n \in Nat /\ NodeSize \in Nat /\ n * W <= NodeSize * ByteBits
    BY <1>1, WType DEF IInv
  <2>3. next * W <= n * W /\ byte * ByteBits \in Nat /\ n * W \in Nat /\ next * W \in Nat
        /\ NodeSize * ByteBits \in Nat /\ ByteBits \in Nat /\ ByteBits > 0
    BY <2>1, <2>2, FieldsApart, ProductNat, ByteAssumption
  <2>4. ~ (NodeSize < byte)
    BY <2>1, <2>2, <2>3, FieldsApart
  <2> QED
    BY <2>1, <2>2, <2>4 DEF NodeSize, W
<1>2. ASSUME IInv, phase = "packing", bits >= ByteBits PROVE byte # NodeSize
  <2>1. /\ width = W /\ byte \in Nat /\ bits \in Nat /\ next \in 0 .. n
        /\ byte * ByteBits + bits = next * W
    BY <1>2 DEF IInv, PackingInv, TypeOK
  <2>2. W \in Nat /\ n \in Nat /\ NodeSize \in Nat /\ n * W <= NodeSize * ByteBits
    BY <1>2, WType DEF IInv
  <2>3. next * W <= n * W /\ byte * ByteBits \in Nat /\ n * W \in Nat /\ next * W \in Nat
        /\ ByteBits \in Nat /\ ByteBits > 0
    BY <2>1, <2>2, FieldsApart, ProductNat, ByteAssumption
  <2> QED
    BY <1>2, <2>1, <2>2, <2>3
<1>3. IInv => PacksExactly
  <2>1. ASSUME IInv PROVE byte \in Nat /\ NodeSize \in Nat
    BY <2>1, WType DEF IInv, TypeOK
  <2> QED
    BY <1>1, <1>2, <2>1 DEF PacksExactly, IInv, PayloadInv
<1> QED
  BY <1>3, Invariance, PTL

-----------------------------------------------------------------------------
(* The tables that threads share.                                         *)

Building == {"resize", "fill", "sort", "index", "emplace"}
Locked   == Building \cup {"find", "return", "throw"}

TableTypes ==
  /\ at \in [Threads -> Locked \cup {"idle", "lock"}] /\ want \in [Threads -> Lengths]
  /\ DOMAIN cache = Lengths /\ cache = [b \in Lengths |-> cache[b]]
  /\ table = [t \in Threads |-> table[t]]
  /\ held = [t \in Threads |-> held[t]]

Mutex == \A t \in Threads : at[t] \in Locked <=> lock = t

\* A table as far as it is built.
Record(tb) == tb = [bins |-> tb.bins, position |-> tb.position]

Stage(t) ==
  /\ at[t] \in Building => want[t] \in Supported /\ cache[want[t]] = NoTable
  /\ at[t] \in {"fill", "sort", "index", "emplace"} => Record(table[t])
  /\ at[t] = "index" => table[t].bins \in Orders(want[t])
  /\ at[t] = "emplace" => Complete(want[t], table[t])
  /\ at[t] = "return" => cache[want[t]] # NoTable

Stages == \A t \in Threads : Stage(t)

Cached == \A b \in Lengths : cache[b] # NoTable => b \in Supported /\ Complete(b, cache[b])

Held ==
  \A t \in Threads : \A h \in held[t] :
     h.length \in Lengths /\ cache[h.length] # NoTable /\ h.table = cache[h.length]

CacheInv == TableTypes /\ Mutex /\ Stages /\ Cached /\ Held

-----------------------------------------------------------------------------

\* A table that is complete is a table.
LEMMA BuildingIsNothing == ASSUME NEW b \in Supported, NEW tb, Record(tb), Complete(b, tb) PROVE tb # NoTable
BY NoTableAssumption DEF Record, Complete, Orders, Tables

\* The index of an order of the codes undoes it.
LEMMA IndexUndoes ==
  ASSUME NEW b, NEW s \in Orders(b), NEW p, p = [c \in CodesOf(b) |-> CHOOSE i \in CodesOf(b) : s[i] = c]
  PROVE  /\ p \in [CodesOf(b) -> CodesOf(b)]
         /\ \A c \in CodesOf(b) : s[p[c]] = c /\ p[s[c]] = c
<1>1. ASSUME NEW c \in CodesOf(b) PROVE p[c] \in CodesOf(b) /\ s[p[c]] = c
  <2>1. \E i \in CodesOf(b) : s[i] = c
    BY DEF Orders
  <2> QED
    BY <2>1
<1>2. ASSUME NEW c \in CodesOf(b) PROVE p[s[c]] = c
  <2>1. s[c] \in CodesOf(b)
    BY DEF Orders
  <2>2. PICK i \in CodesOf(b) : s[i] = s[c] /\ \A j \in CodesOf(b) : s[j] = s[c] => j = i
    BY <2>1 DEF Orders
  <2>3. p[s[c]] \in CodesOf(b) /\ s[p[s[c]]] = s[c]
    BY <2>1, <1>1
  <2> QED
    BY <2>2, <2>3
<1> QED
  BY <1>1, <1>2

\* It holds when the process starts.
LEMMA Start == CacheInit => CacheInv
<1> SUFFICES ASSUME CacheInit PROVE CacheInv
  OBVIOUS
<1>1. TableTypes
  BY LengthsAssumption DEF CacheInit, TableTypes, Locked
<1>2. Mutex
  BY ThreadsAssumption DEF CacheInit, Mutex, Locked, Building
<1>3. Stages
  BY DEF CacheInit, Stages, Stage, Building
<1>4. Cached /\ Held
  BY DEF CacheInit, Cached, Held
<1> QED
  BY <1>1, <1>2, <1>3, <1>4 DEF CacheInv

-----------------------------------------------------------------------------
\* Nothing changes for a thread that does not move, as long as the cache does not.
LEMMA OthersStay ==
  ASSUME CacheInv, NEW t \in Threads, NEW p \in Locked \cup {"idle", "lock"},
         at' = [at EXCEPT ![t] = p], UNCHANGED cache,
         \A u \in Threads \ {t} : table'[u] = table[u] /\ want'[u] = want[u]
  PROVE  \A u \in Threads \ {t} : Stage(u)'
<1> SUFFICES ASSUME NEW u \in Threads \ {t} PROVE Stage(u)'
  OBVIOUS
<1>1. at'[u] = at[u]
  BY DEF CacheInv, TableTypes
<1> QED
  BY <1>1 DEF CacheInv, Stages, Stage

\* A step of the thread that has the lock, which keeps it, and leaves the cache alone.
LEMMA InsideLock ==
  ASSUME CacheInv, NEW t \in Threads, NEW p \in Locked,
         at[t] \in Locked, at' = [at EXCEPT ![t] = p], table' = [table EXCEPT ![t] = table'[t]],
         UNCHANGED <<lock, cache, want, held>>, Stage(t)'
  PROVE  CacheInv'
<1>1. TableTypes'
  BY DEF CacheInv, TableTypes
<1>2. Mutex'
  BY DEF CacheInv, TableTypes, Mutex
<1>3. \A u \in Threads \ {t} : table'[u] = table[u] /\ want'[u] = want[u]
  BY DEF CacheInv, TableTypes
<1>4. Stages'
  BY <1>3, OthersStay DEF Stages
<1>5. Cached' /\ Held'
  BY DEF CacheInv, Cached, Held
<1> QED
  BY <1>1, <1>2, <1>4, <1>5 DEF CacheInv

\* A step that takes the thread into the lock or out of it.
LEMMA AtLock ==
  ASSUME CacheInv, NEW t \in Threads, NEW p \in {"idle", "lock", "find"},
         at' = [at EXCEPT ![t] = p], UNCHANGED cache,
         want' \in [Threads -> Lengths], \A u \in Threads \ {t} : want'[u] = want[u],
         table' = [table EXCEPT ![t] = table'[t]],
         held' = [held EXCEPT ![t] = held'[t]],
         Mutex', Held'
  PROVE  CacheInv'
<1>1. TableTypes'
  BY DEF CacheInv, TableTypes, Locked
<1>2. \A u \in Threads \ {t} : table'[u] = table[u]
  BY DEF CacheInv, TableTypes
<1>3. Stage(t)'
  BY DEF CacheInv, TableTypes, Stage, Building
<1>4. Stages'
  BY <1>2, <1>3, OthersStay DEF Stages, Locked
<1>5. Cached'
  BY DEF CacheInv, Cached
<1> QED
  BY <1>1, <1>4, <1>5 DEF CacheInv

\* A thread that asks for a table keeps it.
LEMMA Asked == ASSUME CacheInv, NEW t \in Threads, Ask(t) PROVE CacheInv'
<1>1. PICK b \in Lengths : want' = [want EXCEPT ![t] = b]
  BY DEF Ask
<1>2. Mutex'
  BY DEF Ask, Goto, CacheInv, TableTypes, Mutex, Locked, Building
<1>3. Held'
  BY DEF Ask, CacheInv, Held
<1>4. table' = [table EXCEPT ![t] = table'[t]] /\ held' = [held EXCEPT ![t] = held'[t]]
  BY DEF Ask, CacheInv, TableTypes
<1> QED
  BY <1>1, <1>2, <1>3, <1>4, AtLock DEF Ask, Goto, CacheInv, TableTypes

\* A thread that takes the lock keeps it.
LEMMA Acquired == ASSUME CacheInv, NEW t \in Threads, Acquire(t) PROVE CacheInv'
<1>1. Mutex'
  BY ThreadsAssumption DEF Acquire, Goto, CacheInv, TableTypes, Mutex, Locked, Building
<1>2. Held'
  BY DEF Acquire, CacheInv, Held
<1>3. table' = [table EXCEPT ![t] = table'[t]] /\ held' = [held EXCEPT ![t] = held'[t]]
  BY DEF Acquire, CacheInv, TableTypes
<1> QED
  BY <1>1, <1>2, <1>3, AtLock DEF Acquire, Goto, CacheInv, TableTypes

\* A thread that finds the table in the cache keeps it.
LEMMA Found == ASSUME CacheInv, NEW t \in Threads, Find(t) PROVE CacheInv'
<1> DEFINE p == IF cache[want[t]] # NoTable THEN "return"
                ELSE IF want[t] \in Supported THEN "resize" ELSE "throw"
<1>1. p \in Locked /\ at[t] \in Locked /\ at' = [at EXCEPT ![t] = p] /\ at'[t] = p
  BY DEF Find, Goto, Locked, Building, CacheInv, TableTypes
<1>2. table' = [table EXCEPT ![t] = table'[t]]
  BY DEF Find, CacheInv, TableTypes
<1>3. Stage(t)'
  BY <1>1 DEF Find, Stage, Building
<1> QED
  BY <1>1, <1>2, <1>3, InsideLock DEF Find

\* A failed allocation keeps it: nothing is in the cache yet.
LEMMA Failed == ASSUME CacheInv, NEW t \in Threads, OutOfMemory(t) PROVE CacheInv'
<1>1. at[t] \in Locked /\ "throw" \in Locked /\ at' = [at EXCEPT ![t] = "throw"] /\ at'[t] = "throw"
  BY DEF OutOfMemory, Goto, Locked, Building, CacheInv, TableTypes
<1>2. table' = [table EXCEPT ![t] = table'[t]]
  BY DEF OutOfMemory, CacheInv, TableTypes
<1>3. Stage(t)'
  BY <1>1 DEF Stage, Building
<1> QED
  BY <1>1, <1>2, <1>3, InsideLock DEF OutOfMemory

-----------------------------------------------------------------------------
(* The steps of building *)

\* Making room for the table keeps it.
LEMMA Resized == ASSUME CacheInv, NEW t \in Threads, Resize(t) PROVE CacheInv'
<1>1. "fill" \in Locked /\ at[t] \in Building /\ at[t] \in Locked /\ at' = [at EXCEPT ![t] = "fill"] /\ at'[t] = "fill"
  BY DEF Resize, Goto, Locked, Building, CacheInv, TableTypes
<1>2. table' = [table EXCEPT ![t] = table'[t]] /\ Record(table'[t])
  BY DEF Resize, CacheInv, TableTypes, Record
<1>3. Stage(t)'
  BY <1>1, <1>2 DEF Resize, Stage, Building, CacheInv, Stages
<1> QED
  BY <1>1, <1>2, <1>3, InsideLock DEF Resize

\* Filling the table keeps it.
LEMMA Filled == ASSUME CacheInv, NEW t \in Threads, Fill(t) PROVE CacheInv'
<1>1. "sort" \in Locked /\ at[t] \in Building /\ at[t] \in Locked /\ at' = [at EXCEPT ![t] = "sort"] /\ at'[t] = "sort"
  BY DEF Fill, Goto, Locked, Building, CacheInv, TableTypes
<1>2. Record(table[t])
  BY DEF Fill, CacheInv, Stages, Stage
<1>3. table' = [table EXCEPT ![t] = table'[t]] /\ Record(table'[t])
  BY <1>2 DEF Fill, CacheInv, TableTypes, Record
<1>4. Stage(t)'
  BY <1>1, <1>3 DEF Fill, Stage, Building, CacheInv, Stages
<1> QED
  BY <1>1, <1>3, <1>4, InsideLock DEF Fill

\* Sorting it keeps it.
LEMMA Ordered == ASSUME CacheInv, NEW t \in Threads, Sort(t) PROVE CacheInv'
<1>1. "index" \in Locked /\ at[t] \in Building /\ at[t] \in Locked /\ at' = [at EXCEPT ![t] = "index"] /\ at'[t] = "index"
  BY DEF Sort, Goto, Locked, Building, CacheInv, TableTypes
<1>2. Record(table[t])
  BY DEF Sort, CacheInv, Stages, Stage
<1>3. PICK s \in Orders(want[t]) : table' = [table EXCEPT ![t].bins = s]
  BY DEF Sort
<1>4. table' = [table EXCEPT ![t] = table'[t]] /\ Record(table'[t]) /\ table'[t].bins = s
  BY <1>2, <1>3 DEF CacheInv, TableTypes, Record
<1>5. Stage(t)'
  BY <1>1, <1>4 DEF Sort, Stage, Building, CacheInv, Stages
<1> QED
  BY <1>1, <1>4, <1>5, InsideLock DEF Sort

\* Indexing it keeps it.
LEMMA Indexed == ASSUME CacheInv, NEW t \in Threads, Index(t) PROVE CacheInv'
<1> DEFINE p == [c \in CodesOf(want[t]) |-> CHOOSE i \in CodesOf(want[t]) : table[t].bins[i] = c]
<1>1. "emplace" \in Locked /\ at[t] \in Building /\ at[t] \in Locked /\ at' = [at EXCEPT ![t] = "emplace"] /\ at'[t] = "emplace"
  BY DEF Index, Goto, Locked, Building, CacheInv, TableTypes
<1>2. Record(table[t]) /\ table[t].bins \in Orders(want[t])
  BY DEF Index, CacheInv, Stages, Stage
<1>3. table' = [table EXCEPT ![t].position = p]
  BY DEF Index
<1> HIDE DEF p
<1>4. table' = [table EXCEPT ![t] = table'[t]] /\ Record(table'[t]) /\ table'[t].bins = table[t].bins /\ table'[t].position = p
  BY <1>2, <1>3 DEF CacheInv, TableTypes, Record
<1>5. Complete(want[t], table'[t])
  BY <1>2, <1>4, IndexUndoes DEF Complete, p
<1>6. Stage(t)'
  BY <1>1, <1>4, <1>5 DEF Index, Stage, Building, CacheInv, Stages
<1> QED
  BY <1>1, <1>4, <1>6, InsideLock DEF Index

\* Nobody else is building, so no table is replaced.
LEMMA Emplaced == ASSUME CacheInv, NEW t \in Threads, Emplace(t) PROVE CacheInv'
<1> DEFINE b == want[t]
<1>1. b \in Supported /\ b \in Lengths /\ cache[b] = NoTable /\ Complete(b, table[t]) /\ table[t] # NoTable
  BY BuildingIsNothing, LengthsAssumption DEF Emplace, CacheInv, TableTypes, Stages, Stage, Building
<1>2. at[t] \in Locked /\ at' = [at EXCEPT ![t] = "return"] /\ cache' = [cache EXCEPT ![b] = table[t]]
  BY DEF Emplace, Goto, Locked, Building, CacheInv, TableTypes
<1> HIDE DEF b
<1>3. \A c \in Lengths : cache'[c] = IF c = b THEN table[t] ELSE cache[c]
  BY <1>1, <1>2 DEF CacheInv, TableTypes
<1>4. TableTypes'
  BY <1>2 DEF Emplace, CacheInv, TableTypes, Locked
<1>5. Mutex'
  BY <1>2 DEF Emplace, CacheInv, TableTypes, Mutex, Locked
<1>6. \A u \in Threads \ {t} : at[u] \notin Locked /\ at'[u] = at[u]
  BY <1>2 DEF CacheInv, TableTypes, Mutex
<1>7. Stages'
  <2>1. Stage(t)'
    BY <1>1, <1>2, <1>3 DEF Emplace, Stage, Building, CacheInv, TableTypes, b
  <2>2. ASSUME NEW u \in Threads \ {t} PROVE Stage(u)'
    BY <1>6 DEF Stage, Locked, Building
  <2> QED
    BY <2>1, <2>2 DEF Stages
<1>8. Cached'
  BY <1>1, <1>3 DEF CacheInv, Cached
<1>9. Held'
  BY <1>1, <1>3 DEF Emplace, CacheInv, Held
<1> QED
  BY <1>4, <1>5, <1>7, <1>8, <1>9 DEF CacheInv

\* A thread that returns the table keeps it.
LEMMA Returned == ASSUME CacheInv, NEW t \in Threads, Return(t) PROVE CacheInv'
<1>1. cache[want[t]] # NoTable /\ want[t] \in Lengths
  BY DEF Return, CacheInv, TableTypes, Stages, Stage
<1>2. held' = [held EXCEPT ![t] = held'[t]] /\ held'[t] = held[t] \cup {[length |-> want[t], table |-> cache[want[t]]]}
  BY DEF Return, CacheInv, TableTypes
<1>3. Held'
  <2> SUFFICES ASSUME NEW u \in Threads, NEW h \in held'[u]
               PROVE  h.length \in Lengths /\ cache[h.length] # NoTable /\ h.table = cache[h.length]
    BY DEF Return, Held
  <2>1. CASE h \in held[u]
    BY <2>1 DEF CacheInv, Held
  <2>2. CASE h = [length |-> want[t], table |-> cache[want[t]]]
    BY <2>2, <1>1
  <2> QED
    BY <2>1, <2>2, <1>2 DEF Return, CacheInv, TableTypes
<1>4. Mutex'
  BY ThreadsAssumption DEF Return, Goto, CacheInv, TableTypes, Mutex, Locked, Building
<1>5. table' = [table EXCEPT ![t] = table'[t]]
  BY DEF Return, CacheInv, TableTypes
<1> QED
  BY <1>2, <1>3, <1>4, <1>5, AtLock DEF Return, Goto, CacheInv, TableTypes

\* A thread that throws keeps it.
LEMMA Thrown == ASSUME CacheInv, NEW t \in Threads, Throw(t) PROVE CacheInv'
<1>1. Mutex'
  BY ThreadsAssumption DEF Throw, Goto, CacheInv, TableTypes, Mutex, Locked, Building
<1>2. Held'
  BY DEF Throw, CacheInv, Held
<1>3. table' = [table EXCEPT ![t] = table'[t]] /\ held' = [held EXCEPT ![t] = held'[t]]
  BY DEF Throw, CacheInv, TableTypes
<1> QED
  BY <1>1, <1>2, <1>3, AtLock DEF Throw, Goto, CacheInv, TableTypes

-----------------------------------------------------------------------------
\* The invariant holds in every state that the threads reach.
THEOREM CacheInvariance == CacheSpec => []CacheInv
<1>1. CacheInit => CacheInv
  BY Start
<1>2. CacheInv /\ [CacheNext]_cachevars => CacheInv'
  <2> SUFFICES ASSUME CacheInv, [CacheNext]_cachevars PROVE CacheInv'
    OBVIOUS
  <2>1. CASE UNCHANGED cachevars
    BY <2>1 DEF cachevars, CacheInv, TableTypes, Mutex, Stages, Stage, Cached, Held
  <2>2. ASSUME NEW t \in Threads, Ask(t) \/ Proceed(t) PROVE CacheInv'
    BY <2>2, Asked, Acquired, Found, Failed, Resized, Filled, Ordered, Indexed, Emplaced, Returned, Thrown DEF Proceed
  <2> QED
    BY <2>1, <2>2 DEF CacheNext
<1> QED
  BY <1>1, <1>2, PTL DEF CacheSpec

(***************************************************************************)
(* SeenWhole (Histogram.cpp:65-74): for any threads, lengths and labels,   *)
(* and wherever memory runs out, no histogram looks into a table that is   *)
(* not whole.                                                              *)
(***************************************************************************)
THEOREM TablesWhole == CacheSpec => []SeenWhole
<1>1. CacheInv => SeenWhole
  BY DEF CacheInv, Cached, Held, SeenWhole
<1> QED
  BY <1>1, CacheInvariance, PTL

(***************************************************************************)
(* OneTable (Histogram.cpp:66-72): whenever a table is built, it is the    *)
(* only one of its length there will ever be.                              *)
(***************************************************************************)
THEOREM TablesShared == CacheSpec => []OneTable
<1>1. CacheInv => OneTable
  BY DEF CacheInv, Held, OneTable
<1> QED
  BY <1>1, CacheInvariance, PTL

-----------------------------------------------------------------------------
(* The programs.                                                           *)

Computed == {"opening", "writing", "closing", "closed"}
Running  == {"reading", "computing"} \cup Computed

ProgramTypes ==
  /\ job \in Jobs /\ failed \in BOOLEAN /\ step \in Running \cup {"ended"}
  /\ before = [m \in Names |-> before[m]] /\ disk = [m \in Names |-> disk[m]]

Reading ==
  step \in Running =>
    /\ got \in Seq({before[m] : m \in Names})
    /\ IF step = "reading" THEN Len(got) < Len(job.ins) ELSE Len(got) = Len(job.ins)
    /\ \A k \in 1 .. Len(got) : got[k] = before[job.ins[k]] /\ got[k] # Absent

Untouched == step \in Running \ {"writing", "closing", "closed"} => disk = before

Known ==
  step \in Computed => (Sound => Answerable(job, Given) /\ answer = AnswerTo(job, Given))

InOutput(x) == disk = [before EXCEPT ![job.out] = x]

Written ==
  /\ step = "writing" => InOutput(Part(answer))
  /\ step \in {"closing", "closed"} => InOutput(Part(answer)) \/ InOutput(WholeFile(answer))
  /\ step = "closed" /\ ~ failed => InOutput(WholeFile(answer))

ProgramInv == ProgramTypes /\ Reading /\ Untouched /\ Known /\ Written /\ SuccessTold /\ KeptUntilAnswered

-----------------------------------------------------------------------------

\* A job reads one or two named files and writes one.
LEMMA Inputs == ASSUME NEW j \in Jobs PROVE
  /\ j.ins \in Seq(Names) /\ Len(j.ins) \in {1, 2} /\ j.out \in Names
  /\ DOMAIN j.ins = 1 .. Len(j.ins) /\ \A k \in 1 .. Len(j.ins) : j.ins[k] \in Names
<1>1. j.ins \in Seq(Names) /\ Len(j.ins) \in {1, 2} /\ j.out \in Names
  BY JobsAssumption
<1> QED
  BY <1>1

\* Once all is read, the program has what there was when it started, and all of it.
LEMMA HasRead ==
  ASSUME ProgramTypes, Reading, step \in Running \ {"reading"}
  PROVE  got = Given /\ \A k \in DOMAIN Given : Given[k] # Absent
<1>1. /\ DOMAIN job.ins = 1 .. Len(job.ins) /\ Len(job.ins) \in Nat
  BY Inputs DEF ProgramTypes
<1>2. got \in Seq({before[m] : m \in Names}) /\ Len(got) = Len(job.ins)
  BY DEF Reading
<1>3. \A k \in 1 .. Len(job.ins) : got[k] = before[job.ins[k]] /\ got[k] # Absent
  BY <1>2 DEF Reading
<1>4. got = [k \in 1 .. Len(job.ins) |-> got[k]]
  BY <1>2
<1> QED
  BY <1>1, <1>3, <1>4 DEF Given

\* It holds when the programs start.
LEMMA Beginning == ProgramsInit => ProgramInv
<1> SUFFICES ASSUME ProgramsInit PROVE ProgramInv
  OBVIOUS
<1>1. ProgramTypes
  BY ProgramsAssumption, DisksAssumption DEF ProgramsInit, ProgramTypes
<1>2. Reading /\ Untouched /\ Known /\ Written
  BY DEF ProgramsInit, Reading, Untouched, Known, Written, Running, Computed
<1>3. SuccessTold /\ KeptUntilAnswered
  BY DEF ProgramsInit, SuccessTold, KeptUntilAnswered
<1> QED
  BY <1>1, <1>2, <1>3 DEF ProgramInv

-----------------------------------------------------------------------------
\* A step that ends the program, leaves the disk and does not say success.
LEMMA Ending ==
  ASSUME ProgramInv, step \in Running, step' = "ended",
         UNCHANGED <<disk, before, job, failed>>,
         status' = "success" => job.tool \in {"merge", "export", "generate"}
  PROVE  ProgramInv'
<1> USE DEF ProgramInv
<1>1. ProgramTypes'
  BY DEF ProgramTypes
<1>2. Reading' /\ Untouched' /\ Known' /\ Written'
  BY DEF Reading, Untouched, Known, Written, Running, Computed
<1>3. SuccessTold'
  BY DEF SuccessTold, Queries
<1>4. KeptUntilAnswered'
  BY DEF KeptUntilAnswered, Given, Sound
<1> QED
  BY <1>1, <1>2, <1>3, <1>4

\* Every step of the programs keeps it.
LEMMA ProgramGoesOn == ProgramInv /\ [ProgramsNext]_programVars => ProgramInv'
<1> SUFFICES ASSUME ProgramInv, [ProgramsNext]_programVars PROVE ProgramInv'
  OBVIOUS
<1> USE DEF ProgramInv
<1>1. ASSUME NEW j \in Jobs, Begin(j), step' \in {"reading", "ended"}, status' # "success"
      PROVE  ProgramInv'
  <2>1. ProgramTypes'
    BY <1>1 DEF Begin, ProgramTypes, Running, Computed
  <2>2. j.ins \in Seq(Names) /\ Len(j.ins) \in {1, 2}
    BY Inputs
  <2>3. Reading'
    <3>1. step' \in {"reading", "ended"} /\ got' = <<>> /\ job' = j
      BY <1>1 DEF Begin
    <3> DEFINE read == {before'[m] : m \in Names}
    <3> HIDE DEF read
    <3>2. got' \in Seq(read) /\ Len(got') = 0
      BY <3>1
    <3>3. Len(got') < Len(job'.ins) /\ 1 .. Len(got') = {}
      <4>1. job'.ins = j.ins
        BY <3>1
      <4> QED
        BY <2>2, <3>2, <4>1
    <3>4. CASE step' = "reading"
      BY <3>2, <3>3, <3>4 DEF Reading, read
    <3>5. CASE step' = "ended"
      BY <3>5 DEF Reading, Running, Computed
    <3> QED
      BY <3>1, <3>4, <3>5
  <2>4. Untouched' /\ Known' /\ Written'
    BY <1>1 DEF Begin, Untouched, Known, Written, Running, Computed
  <2>5. SuccessTold' /\ KeptUntilAnswered'
    BY <1>1 DEF Begin, SuccessTold, KeptUntilAnswered
  <2> QED
    BY <2>1, <2>3, <2>4, <2>5
<1>1a. ASSUME NEW j \in Jobs,
              \/ StartQuery(j) \/ StartGrid(j) \/ StartGenerate(j)
              \/ StartMerge(j) \/ StartExport(j) \/ StartProgram(j)
       PROVE  ProgramInv'
  BY <1>1, <1>1a DEF StartQuery, StartGrid, StartGenerate, StartMerge, StartExport, StartProgram, Subcommand
<1>2. CASE RefuseAxes
  BY <1>2, Ending DEF RefuseAxes, EndAs, Running
<1>3. CASE ReadInput
  <2> DEFINE f == disk[job.ins[Len(got) + 1]]
  <2>1. /\ step = "reading" /\ f # Absent /\ got' = Append(got, f)
        /\ step' = IF Len(got) + 1 = Len(job.ins) THEN "computing" ELSE "reading"
        /\ UNCHANGED <<disk, before, job, answer, failed, status>>
    BY <1>3 DEF ReadInput
  <2>2. disk = before
    BY <2>1 DEF Untouched, Running
  <2>3. ProgramTypes'
    BY <2>1 DEF ProgramTypes, Running
  <2>4. Reading'
    <3>1. /\ got \in Seq({before[m] : m \in Names}) /\ Len(got) < Len(job.ins) /\ Len(got) \in Nat
          /\ \A k \in 1 .. Len(got) : got[k] = before[job.ins[k]] /\ got[k] # Absent
      BY <2>1 DEF Reading, Running
    <3>2. Len(job.ins) \in Nat /\ \A k \in 1 .. Len(job.ins) : job.ins[k] \in Names
      BY Inputs DEF ProgramTypes
    <3>3. f \in {before[m] : m \in Names} /\ f = before[job.ins[Len(got) + 1]]
      BY <3>1, <3>2, <2>2
    <3>4. got' \in Seq({before[m] : m \in Names}) /\ Len(got') = Len(got) + 1
      BY <2>1, <3>1, <3>3
    <3>5. \A k \in 1 .. Len(got') : got'[k] = before[job.ins[k]] /\ got'[k] # Absent
      BY <2>1, <3>1, <3>3, <3>4
    <3> QED
      BY <2>1, <3>1, <3>2, <3>4, <3>5 DEF Reading
  <2>5. Untouched' /\ Known' /\ Written' /\ SuccessTold' /\ KeptUntilAnswered'
    BY <2>1, <2>2 DEF Untouched, Known, Written, Computed, SuccessTold, KeptUntilAnswered
  <2> QED
    BY <2>3, <2>4, <2>5
<1>4. CASE RefuseInput
  BY <1>4, Ending DEF RefuseInput, Fails, EndAs, Running
<1>5. CASE Compute
  <2>1. /\ step = "computing" /\ step' = "opening"
        /\ UNCHANGED <<disk, before, job, got, failed, status>>
    BY <1>5 DEF Compute
  <2>2. got = Given
    BY <2>1, HasRead DEF Running
  <2>3. Sound => Answerable(job, Given) /\ answer' = AnswerTo(job, Given)
    BY <1>5, <2>2 DEF Compute, Sound
  <2>4. ProgramTypes'
    BY <2>1 DEF ProgramTypes, Running, Computed
  <2>5. Reading' /\ Untouched' /\ Written' /\ SuccessTold'
    BY <2>1 DEF Reading, Untouched, Written, SuccessTold, Running, Computed
  <2>6. Known'
    BY <2>1, <2>3 DEF Known, Sound, Given
  <2>7. KeptUntilAnswered'
    BY <2>1 DEF Untouched, KeptUntilAnswered, Running, Computed
  <2> QED
    BY <2>4, <2>5, <2>6, <2>7
<1>6. CASE Refuse
  BY <1>6, Ending DEF Refuse, Fails, EndAs, Running
<1>7. CASE Fault
  BY <1>7, Ending DEF Fault, EndAs, Running
<1>8. CASE OpenOutput
  <2>1. /\ step = "opening" /\ step' = "writing"
        /\ UNCHANGED <<before, job, got, answer, failed, status>>
    BY <1>8 DEF OpenOutput
  <2>2. InOutput(Part(answer))'
    BY <1>8, <2>1 DEF OpenOutput, InOutput, Untouched, Running, Computed, Part
  <2>3. ProgramTypes'
    BY <2>1, <2>2, Inputs DEF InOutput, ProgramTypes, Running, Computed
  <2>4. Reading' /\ Untouched' /\ Written' /\ SuccessTold'
    BY <2>1, <2>2 DEF Reading, Untouched, Written, SuccessTold, Running, Computed
  <2>5. Known'
    BY <2>1 DEF Known, Sound, Given, Computed
  <2>6. (\A k \in DOMAIN Given : Given[k] # Absent)'
    BY <2>1, HasRead DEF Given, Running, Computed
  <2>7. KeptUntilAnswered'
    BY <2>1, <2>2, <2>5, <2>6 DEF Known, KeptUntilAnswered, InOutput, Computed
  <2> QED
    BY <2>3, <2>4, <2>5, <2>7
<1>9. CASE CannotOpen
  BY <1>9, Ending DEF CannotOpen, Fails, EndAs, Running, Computed
<1>10. CASE Write \/ Close
  <2>1. /\ step \in {"writing", "closing"} /\ step' \in {"closing", "closed"}
        /\ UNCHANGED <<before, job, got, answer, status>> /\ failed' \in BOOLEAN
    BY <1>10 DEF Write, Close, ProgramTypes
  <2>2. InOutput(Part(answer)) \/ InOutput(WholeFile(answer))
    BY <2>1 DEF Written
  <2>3. job.out \in Names /\ before = [m \in Names |-> before[m]] /\ disk = [m \in Names |-> disk[m]]
    BY Inputs DEF ProgramTypes
  <2>4. disk' = disk \/ disk' = [disk EXCEPT ![job.out] = WholeFile(answer)]
    BY <1>10 DEF Write, Close
  <2>5. disk' = [disk EXCEPT ![job.out] = WholeFile(answer)] => InOutput(WholeFile(answer))'
    BY <2>1, <2>2, <2>3 DEF InOutput, WholeFile
  <2>6. InOutput(Part(answer))' \/ InOutput(WholeFile(answer))'
    BY <2>1, <2>2, <2>4, <2>5 DEF InOutput, WholeFile, Part
  <2>7. step' = "closed" /\ ~ failed' => InOutput(WholeFile(answer))'
    BY <1>10, <2>5 DEF Write, Close
  <2>8. ProgramTypes'
    BY <2>1, <2>3, <2>4 DEF ProgramTypes, Running, Computed
  <2>9. Reading' /\ Untouched' /\ Written' /\ SuccessTold'
    BY <2>1, <2>6, <2>7 DEF Reading, Untouched, Written, SuccessTold, Running, Computed
  <2>10. Known'
    BY <2>1 DEF Known, Sound, Given, Computed
  <2>11. (\A k \in DOMAIN Given : Given[k] # Absent)'
    BY <2>1, HasRead DEF Given, Running, Computed
  <2>12. KeptUntilAnswered'
    BY <2>1, <2>6, <2>10, <2>11 DEF Known, KeptUntilAnswered, InOutput, Computed
  <2> QED
    BY <2>8, <2>9, <2>10, <2>12
<1>11. CASE GiveUp
  BY <1>11, Ending DEF GiveUp, Fails, EndAs, Running, Computed
<1>12. CASE Succeed
  <2>1. /\ step = "closed" /\ step' = "ended"
        /\ UNCHANGED <<disk, before, job, got, answer, failed>>
    BY <1>12 DEF Succeed
  <2>2. ProgramTypes' /\ Reading' /\ Untouched' /\ Known' /\ Written'
    BY <2>1 DEF ProgramTypes, Reading, Untouched, Known, Written, Running, Computed
  <2>3. \A k \in DOMAIN Given : Given[k] # Absent
    BY <2>1, HasRead DEF Running, Computed
  <2>4. Sound => Answerable(job, Given) /\ answer = AnswerTo(job, Given)
    BY <2>1 DEF Known, Computed
  <2>5. job.tool # "generate" => InOutput(WholeFile(answer))
    BY <1>12, <2>1 DEF Succeed, Written, ProgramTypes
  <2>6. SuccessTold'
    BY <2>1, <2>3, <2>4, <2>5 DEF SuccessTold, InOutput, Queries, Given, Sound
  <2>7. KeptUntilAnswered'
    BY <2>1 DEF KeptUntilAnswered, Given, Sound
  <2> QED
    BY <2>2, <2>6, <2>7
<1>13. CASE Kill
  BY <1>13, Ending DEF Kill, ProgramTypes, Running
<1>14. CASE UNCHANGED programVars
  <2>1. UNCHANGED <<disk, before, job, step, got, answer, failed, status>>
    BY <1>14 DEF programVars
  <2>2. ProgramTypes' /\ Reading' /\ Untouched'
    BY <2>1 DEF ProgramTypes, Reading, Untouched
  <2>3. Known' /\ Written'
    BY <2>1 DEF Known, Written, InOutput, Given, Sound
  <2>4. SuccessTold' /\ KeptUntilAnswered'
    BY <2>1 DEF SuccessTold, KeptUntilAnswered, Given, Sound
  <2> QED
    BY <2>2, <2>3, <2>4
<1> QED
  BY <1>2, <1>3, <1>4, <1>5, <1>6, <1>7, <1>8, <1>9, <1>10, <1>11, <1>12, <1>13, <1>14, <1>1a
  DEF ProgramsNext

-----------------------------------------------------------------------------
\* In every session: the disk a program finds in its way is changed in its output
\* alone, and by its answer alone.
THEOREM ProgramInvariance == ProgramsSpec => []ProgramInv
BY Beginning, ProgramGoesOn, PTL DEF ProgramsSpec

\* A program that can tell, and says it succeeded, has written the whole answer to what
\* its inputs held when it was started.
THEOREM SuccessIsTold == ProgramsSpec => []SuccessTold
BY ProgramInvariance, PTL DEF ProgramInv

\* No program, wherever it stops, has changed the disk without having an answer.
THEOREM NothingLostForNothing == ProgramsSpec => []KeptUntilAnswered
BY ProgramInvariance, PTL DEF ProgramInv

=============================================================================
