------------------------------- MODULE Codes --------------------------------
(***************************************************************************)
(* From the codes of a point's numbers to the bins it is filed under       *)
(* (airtree-core/src/common/BitCodec.cpp).  A code is a sequence of bits:  *)
(* some that say how large the number is, then its digits.  The codes of a *)
(* point's ordinary numbers are combined into one, the sizes first, so     *)
(* that points close to each other share the levels near the root; the     *)
(* levels of the trie then take their bits from the left, wherever that    *)
(* cuts the codes.  Readers put the bits together and part them again.  It *)
(* has no state.                                                           *)
(***************************************************************************)
EXTENDS Integers, Sequences, SequencesExt

\* The number that digits spell, each of a base of its own, the greatest first.
Numeral(bases, digits) ==
  LET n[k \in 0 .. Len(digits)] == IF k = 0 THEN 0 ELSE n[k - 1] * bases[k] + digits[k]
  IN  n[Len(digits)]

\* The digits of a number, from the last one back.
Digits(bases, number) ==
  LET left[k \in 0 .. Len(bases)] == IF k = Len(bases) THEN number ELSE left[k + 1] \div bases[k + 1]
  IN  [k \in DOMAIN bases |-> left[k] % bases[k]]

Twos(n) == [k \in 1 .. n |-> 2]

Number(bits) == Numeral(Twos(Len(bits)), bits)

\* The bits of a bin of a level.
Bits(bin, width) == Digits(Twos(width), bin)

\* What f has at the places in a set, in the order of the places, and which of
\* them a place is.
PlaceIn(places, d) == Cardinality({e \in places : e <= d})
InOrder(f, places) ==
  [k \in 1 .. Cardinality(places) |-> f[CHOOSE d \in places : PlaceIn(places, d) = k]]

\* Mutant: the last code's sizes are put where those of the one before are.
CombineOverwritten(codes, sizeBits) ==
  FlattenSeq([k \in DOMAIN codes |-> SubSeq(codes[IF k = Len(codes) - 1 THEN k + 1 ELSE k], 1, sizeBits)])
    \o FlattenSeq([k \in DOMAIN codes |-> SubSeq(codes[k], sizeBits + 1, Len(codes[k]))])

\* combine_chunks_8b and _10b.
Combine(codes, sizeBits) ==
  FlattenSeq([k \in DOMAIN codes |-> SubSeq(codes[k], 1, sizeBits)])
    \o FlattenSeq([k \in DOMAIN codes |-> SubSeq(codes[k], sizeBits + 1, Len(codes[k]))])

\* How many bits the levels have taken.
Ends(widths) ==
  LET end[k \in 0 .. Len(widths)] == IF k = 0 THEN 0 ELSE end[k - 1] + widths[k]
  IN  end

\* Levels end where n bits do.
Fills(n, widths) == \E k \in 0 .. Len(widths) : Ends(widths)[k] = n

\* Codes are of one length, and as many as are combined fill the levels they take.
Coded(codes, sizeBits, widths, most) ==
  /\ widths \in Seq(Nat \ {0}) /\ codes \subseteq Seq({0, 1})
  /\ \A c, d \in codes : Len(c) = Len(d)
  /\ \A c \in codes : sizeBits \in 0 .. Len(c) /\ \A m \in 1 .. most : Fills(m * Len(c), widths)

\* The bins of as many levels of the widths given as the bits fill.
Levels(bits, widths) ==
  LET end  == Ends(widths)
      used == {k \in DOMAIN widths : end[k] <= Len(bits)}
  IN  [k \in used |-> Number(SubSeq(bits, end[k - 1] + 1, end[k]))]

\* Mutant: the digits of all codes are those of the first.
SplitRepeated(bits, codes, sizeBits) ==
  LET digits == Len(bits) \div codes - sizeBits
      from   == codes * sizeBits
  IN  [k \in 1 .. codes |-> SubSeq(bits, (k - 1) * sizeBits + 1, k * sizeBits)
                               \o SubSeq(bits, from + 1, from + digits)]

\* reverse_combine_chunks_8b and _10b, of codes of one length.
Split(bits, codes, sizeBits) ==
  LET digits == Len(bits) \div codes - sizeBits
      from   == codes * sizeBits
  IN  [k \in 1 .. codes |-> SubSeq(bits, (k - 1) * sizeBits + 1, k * sizeBits)
                               \o SubSeq(bits, from + (k - 1) * digits + 1, from + k * digits)]

=============================================================================
