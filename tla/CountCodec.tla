----------------------------- MODULE CountCodec -----------------------------
(***************************************************************************)
(* The bit packing of a node's counts (airtree-core/src/serdes/Count.cpp): *)
(* one width byte, then the counts of the populated bins, each `width`     *)
(* bits wide, packed low bit first into ByteBits-bit bytes through an      *)
(* accumulator of AccBits bits.                                            *)
(*                                                                         *)
(* A word (a count, the accumulator, a byte) is the SET of the positions   *)
(* of its one bits: `|` is union, `<< s` adds s to every position and      *)
(* drops those that leave the word, `>> s` subtracts.  The code's numbers  *)
(* are ByteBits = 8, AccBits = 64 and MaxWidth = 32.                       *)
(*                                                                         *)
(* A behaviour is: serializeCounts packs `vals`; the buffer may then be    *)
(* damaged on its way (cut short, its width byte or its mask changed);     *)
(* deserializeCounts reads it back.                                        *)
(***************************************************************************)
EXTENDS Integers

CONSTANTS
  ByteBits,       \* bits of a byte
  AccBits,        \* bits of the accumulator (bitBuffer), a whole number of bytes
  MaxWidth,       \* bits of a count (uint32_t)
  Counts,         \* the counts a bin may hold, as sets of bit positions
  MaxPopulated    \* bound: populated bins of the node

ASSUME ByteAssumption  == ByteBits \in Nat \ {0}
ASSUME WidthAssumption == MaxWidth \in Nat \ {0}
ASSUME AccAssumption   == /\ AccBits \in Nat
                          /\ AccBits % ByteBits = 0
                          /\ MaxWidth + ByteBits - 1 <= AccBits
ASSUME CountAssumption == Counts \subseteq SUBSET (0 .. MaxWidth - 1)
ASSUME BoundAssumption == MaxPopulated \in Nat

VARIABLES
  phase,     \* "packing" | "sent" | "reading" | "done" | "rejected"
  n,         \* populated bins of the node
  vals,      \* their counts, in bin order
  width,     \* the width byte
  payload,   \* the packed bytes, sized up front
  acc,       \* bitBuffer
  bits,      \* bitCount when packing, bitsInBuffer when reading
  byte,      \* the next byte to write (p) or to read (offset)
  next,      \* the next populated bin to pack or to unpack
  avail,     \* payload bytes that reached the reader
  inside,    \* populated bits the reader finds below `bins`
  counts     \* what the reader has decoded

codecVars == <<phase, n, vals, width, payload, acc, bits, byte, next, avail, inside, counts>>

Byte == 0 .. ByteBits - 1
Word == 0 .. AccBits - 1

\* Mutant: an accumulator as wide as a count, which drops high bits of a shifted one.
NarrowShiftLeft(w, s) == {b + s : b \in w} \cap (0 .. MaxWidth - 1)

ShiftLeft(w, s) == {b + s : b \in w} \cap Word
ShiftRight(w, s) == {b - s : b \in {x \in w : x >= s}}

\* minimumBits: the bit length of the largest count, 1 for zero.
MinimumBits(f, m) ==
  LET used == {b \in 0 .. MaxWidth - 1 : \E i \in 0 .. m - 1 : b \in f[i]}
  IN  IF used = {} THEN 1 ELSE CHOOSE x \in 1 .. MaxWidth :
                                  x - 1 \in used /\ \A b \in used : b < x

\* Mutant: floor instead of ceil.
FloorBytes(m, w) == (m * w) \div ByteBits

\* ceil(populated * minBits / 8)
PayloadBytes(m, w) == (m * w + ByteBits - 1) \div ByteBits

-----------------------------------------------------------------------------
CodecInit ==
  /\ phase = "packing"
  /\ n \in 0 .. MaxPopulated
  /\ vals \in [0 .. n - 1 -> Counts]
  /\ width = MinimumBits(vals, n)
  /\ payload = [q \in 0 .. PayloadBytes(n, width) - 1 |-> {}]
  /\ acc = {} /\ bits = 0 /\ byte = 0 /\ next = 0
  /\ avail = 0 /\ inside = 0
  /\ counts = [i \in 0 .. n - 1 |-> {}]

(***************************************************************************)
(* serializeCounts                                                         *)
(***************************************************************************)
PackCount ==
  /\ phase = "packing" /\ bits < ByteBits /\ next < n
  /\ acc' = acc \cup ShiftLeft(vals[next], bits)
  /\ bits' = bits + width
  /\ next' = next + 1
  /\ UNCHANGED <<phase, n, vals, width, payload, byte, avail, inside, counts>>

DrainByte ==
  /\ phase = "packing" /\ bits >= ByteBits
  /\ payload' = [payload EXCEPT ![byte] = acc \cap Byte]
  /\ acc' = ShiftRight(acc, ByteBits)
  /\ bits' = bits - ByteBits
  /\ byte' = byte + 1
  /\ UNCHANGED <<phase, n, vals, width, next, avail, inside, counts>>

\* The last partial byte, then the node leaves the writer.
FinishPacking ==
  /\ phase = "packing" /\ bits < ByteBits /\ next = n
  /\ IF bits > 0
       THEN /\ payload' = [payload EXCEPT ![byte] = acc \cap Byte]
            /\ byte' = byte + 1
       ELSE UNCHANGED <<payload, byte>>
  /\ phase' = "sent"
  /\ avail' = PayloadBytes(n, width)
  /\ inside' = n
  /\ UNCHANGED <<n, vals, width, acc, bits, next, counts>>

-----------------------------------------------------------------------------
(***************************************************************************)
(* What a file can suffer before it is read.  Each happens at most once.   *)
(***************************************************************************)
Whole == avail = PayloadBytes(n, width) /\ inside = n

Truncate ==
  /\ phase = "sent" /\ Whole
  /\ \E a \in 0 .. avail - 1 : avail' = a
  /\ UNCHANGED <<phase, n, vals, width, payload, acc, bits, byte, next, inside, counts>>

StrayMaskBit ==
  /\ phase = "sent" /\ Whole
  /\ \E i \in 0 .. n - 1 : inside' = i
  /\ UNCHANGED <<phase, n, vals, width, payload, acc, bits, byte, next, avail, counts>>

ChangeWidth ==
  /\ phase = "sent" /\ Whole
  /\ \E w \in (0 .. MaxWidth + 1) \ {width} : width' = w
  /\ UNCHANGED <<phase, n, vals, payload, acc, bits, byte, next, avail, inside, counts>>

-----------------------------------------------------------------------------
(***************************************************************************)
(* deserializeCounts                                                       *)
(***************************************************************************)
End == PayloadBytes(n, width)

Readable == width <= MaxWidth /\ End <= avail

\* Mutant: a failed read leaves the caller where it was, to read again.
BeginReadingAgain ==
  /\ phase = "sent"
  /\ phase' = IF Readable THEN "reading" ELSE "sent"
  /\ acc' = {} /\ bits' = 0 /\ byte' = 0 /\ next' = 0
  /\ UNCHANGED <<n, vals, width, payload, avail, inside, counts>>

BeginReading ==
  /\ phase = "sent"
  /\ phase' = IF Readable THEN "reading" ELSE "rejected"
  /\ acc' = {} /\ bits' = 0 /\ byte' = 0 /\ next' = 0
  /\ UNCHANGED <<n, vals, width, payload, avail, inside, counts>>

NeedsBits == phase = "reading" /\ next < inside /\ bits < width

\* Mutant: a whole word, whatever the accumulator already holds.
TakeWord == AccBits \div ByteBits

\* Whole bytes that still fit in the accumulator.
Take == (AccBits - bits) \div ByteBits

\* The bits of the first `t` bytes from `byte` on, placed at position `s`.
Loaded(t, s) == {x \in Word : \E q \in 0 .. t - 1, r \in Byte :
                    x = s + q * ByteBits + r /\ r \in payload[byte + q]}

RefillWord ==
  /\ NeedsBits /\ byte + AccBits \div ByteBits <= End
  /\ acc' = acc \cup Loaded(Take, bits)
  /\ byte' = byte + Take
  /\ bits' = bits + Take * ByteBits
  /\ UNCHANGED <<phase, n, vals, width, payload, next, avail, inside, counts>>

RefillByte ==
  /\ NeedsBits /\ byte + AccBits \div ByteBits > End
  /\ acc' = acc \cup Loaded(1, bits)
  /\ byte' = byte + 1
  /\ bits' = bits + ByteBits
  /\ UNCHANGED <<phase, n, vals, width, payload, next, avail, inside, counts>>

TakeCount ==
  /\ phase = "reading" /\ next < inside /\ bits >= width
  /\ counts' = [counts EXCEPT ![next] = acc \cap (0 .. width - 1)]
  /\ acc' = ShiftRight(acc, width)
  /\ bits' = bits - width
  /\ next' = next + 1
  /\ UNCHANGED <<phase, n, vals, width, payload, byte, avail, inside>>

RejectStrayBit ==
  /\ phase = "reading" /\ next = inside /\ next < n
  /\ phase' = "rejected"
  /\ UNCHANGED <<n, vals, width, payload, acc, bits, byte, next, avail, inside, counts>>

\* Mutant: the loop ends at a stray bit as if it were the last.
FinishAtStrayBit ==
  /\ phase = "reading" /\ next = inside
  /\ phase' = "done"
  /\ byte' = End
  /\ UNCHANGED <<n, vals, width, payload, acc, bits, next, avail, inside, counts>>

\* offset = end
FinishReading ==
  /\ phase = "reading" /\ next = n
  /\ phase' = "done"
  /\ byte' = End
  /\ UNCHANGED <<n, vals, width, payload, acc, bits, next, avail, inside, counts>>

CodecEnded ==
  /\ phase \in {"done", "rejected"}
  /\ UNCHANGED codecVars

Pack == PackCount \/ DrainByte \/ FinishPacking
Read == BeginReading \/ RefillWord \/ RefillByte \/ TakeCount
          \/ RejectStrayBit \/ FinishReading
Damage == Truncate \/ StrayMaskBit \/ ChangeWidth

CodecNext == Pack \/ Damage \/ Read \/ CodecEnded

CodecSpec == CodecInit /\ [][CodecNext]_codecVars

\* One thread runs the packing loop and later the unpacking loop to their end.
CodecFairness == WF_codecVars(Pack) /\ WF_codecVars(Read)

-----------------------------------------------------------------------------
\* The bytes the writer sized the buffer by.
NodeSize == PayloadBytes(n, MinimumBits(vals, n))

\* The types of the variables.
TypeOK ==
  /\ phase \in {"packing", "sent", "reading", "done", "rejected"}
  /\ n \in 0 .. MaxPopulated
  /\ vals \in [0 .. n - 1 -> Counts]
  /\ width \in 0 .. MaxWidth + 1
  /\ payload \in [DOMAIN payload -> SUBSET Byte]
  /\ acc \in SUBSET Word
  /\ bits \in Nat /\ byte \in Nat
  /\ next \in 0 .. n
  /\ avail \in Nat /\ inside \in 0 .. n
  /\ counts \in [0 .. n - 1 -> SUBSET (0 .. MaxWidth - 1)]

(***************************************************************************)
(* The packed bytes never run past the region serializeCounts resized the  *)
(* buffer by, and fill it exactly: when the node is finished no sized byte *)
(* was left unwritten (Count.cpp 181-200 write through a raw pointer).     *)
(***************************************************************************)
PacksExactly ==
  /\ phase = "packing" => byte <= PayloadBytes(n, width)
  /\ phase = "packing" /\ bits >= ByteBits => byte < PayloadBytes(n, width)
  /\ phase = "sent" => byte = NodeSize

(***************************************************************************)
(* deserializeCounts never reads a byte past the node's own payload, nor   *)
(* past the end of the buffer, whatever the width byte and mask say: the   *)
(* multi-byte refill stops short of `end` and the accumulator never holds  *)
(* more than AccBits bits (so no shift drops a bit or exceeds the word).   *)
(***************************************************************************)
ReadsInBounds ==
  phase = "reading" =>
    /\ byte <= End /\ End <= avail
    /\ bits <= AccBits
    /\ NeedsBits => byte < End

(***************************************************************************)
(* A node that arrives whole is read back as the counts that were packed,  *)
(* and the reader stops where the writer did: the next node starts there.  *)
(***************************************************************************)
Intact == Whole /\ width = MinimumBits(vals, n)

RoundTrip ==
  phase = "done" /\ Intact => counts = vals /\ byte = NodeSize

(***************************************************************************)
(* Only a damaged node is rejected, and a node cut short, with a stray     *)
(* mask bit or a width over the limit never decodes.                       *)
(***************************************************************************)
RejectsDamage ==
  /\ phase = "rejected" => ~Intact
  /\ phase = "done" => /\ avail >= End /\ inside = n /\ width <= MaxWidth

\* The refill and drain loops end: every node is accepted or rejected.
Terminates == <>(phase \in {"done", "rejected"})

=============================================================================
