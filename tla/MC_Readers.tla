---------------------------- MODULE MC_Readers -----------------------------
(* The three readers of a file that stand for themselves: a 1D query object *)
(* (Queries1D), a list of bin boundaries (BinBoundary) and the trie of      *)
(* nodes (Deserialize).  A behaviour is of one of them, chosen at first;    *)
(* the other two keep still.                                                *)
(*                                                                          *)
(* Queries: a table of eight bins, four on each side of zero, of unequal    *)
(* widths; as in the code the paths of the negative bins run away from      *)
(* zero.  Values on, between and beyond the labels, zeros and infinities.   *)
EXTENDS Queries1D, Deserialize

VARIABLES schema, points, bytes, header, phase, offset, todo, boundaries, specials, calls

boundsVars == <<schema, points, bytes, header, phase, offset, todo, boundaries, specials, calls>>

MC_Bins   == <<2, 2, 2>>
MC_Depth  == [i \in 0 .. 1 |-> 3]
MC_Position ==
  [p \in [1 .. 3 -> 0 .. 1] |-> IF p[1] = 0 THEN 4 + 2 * p[2] + p[3] ELSE 3 - (2 * p[2] + p[3])]

MC_Labels == [i \in 0 .. 7 |-> <<-9, -5, -3, -1, 2, 4, 6, 10>>[i + 1]]
MC_NegInf == -99
MC_PosInf == 99

MC_Data  == {MC_NegInf, -11, -4, -3, -1, 0, 1, 3, 6, 12, MC_PosInf}
MC_Asked == {MC_NegInf, -12, -9, -4, -3, -1, 0, 1, 2, 3, 8, 20, MC_PosInf}

-----------------------------------------------------------------------------
(* Boundaries: codes of three to five bits, the sign, the exponent's sign   *)
(* and one size bit first; labels grow in steps of one more each.           *)
LabelOf(w, c) ==
  LET k    == w - 2
      rest == c % 2 ^ k
      rank == IF (c \div 2 ^ k) % 2 = 0 THEN 2 ^ k + rest ELSE 2 ^ k - 1 - rest
      size == ((rank + 1) * (rank + 2)) \div 2
  IN  IF c < 2 ^ (w - 1) THEN size ELSE - size
MC_Value == [w \in 3 .. 5 |-> [c \in 0 .. 2 ^ w - 1 |-> LabelOf(w, c)]]

MC_Widths ==
  [s \in {"1DxT", "1DxF", "1DxP"} |->
    CASE s = "1DxT" -> <<2, 1>> [] s = "1DxF" -> <<2, 2>> [] s = "1DxP" -> <<2, 1, 2>>]
MC_LevelBits == <<2, 2, 2, 2>>
NotANumber == 100

\* Numbers on and between labels, beyond the last, zero, infinities and not-a-number.
Lines  == {<<v>> : v \in {MC_NegInf, -60, -7, -1, 0, 2, 5, 36, NotANumber}}
Planes == {<<1, 1>>, <<-7, 20>>, <<MC_NegInf, -4>>, <<3, 0>>, <<100, 100>>, <<MC_NegInf, MC_PosInf>>}
Spaces == {<<0, 0, 0>>, <<0, MC_NegInf, MC_PosInf>>, <<0, 2, MC_PosInf>>, <<-4, MC_NegInf, -30>>,
           <<1, -2, 16>>, <<100, 7, 12>>}
Hyper  == {<<0, 0, 0, 0>>, <<0, MC_NegInf, MC_PosInf, 100>>, <<0, 2, MC_PosInf, MC_NegInf>>,
           <<-4, MC_NegInf, -30, MC_PosInf>>, <<1, -2, 0, 16>>, <<-1, -3, 7, 40>>}
MC_Samples ==
  [s \in {"1DxT", "1DxF", "1DxP", "2DxF", "2DxP", "3DxP", "4DxP"} |->
    CASE s = "2DxF" -> {<<1, 1>>} [] s = "2DxP" -> Planes [] s = "3DxP" -> Spaces [] s = "4DxP" -> Hyper
      [] OTHER -> Lines]

Bounds == INSTANCE BinBoundary WITH
            Value <- MC_Value, Widths <- MC_Widths, LevelBits <- MC_LevelBits, SizeBits <- 1,
            Low <- MC_NegInf, High <- MC_PosInf, NaN <- NotANumber,
            Samples <- MC_Samples, MaxSamples <- 2, MaxCalls <- 2

-----------------------------------------------------------------------------
(* Tries: in 2D to 4D root bins of no, one and several ordinary dimensions, *)
(* the least and the greatest among them, and below each two paths that     *)
(* part at the last bin.                                                    *)
Ordinary(i) == Cardinality({b \in 0 .. 3 : (i \div 2 ^ b) % 2 = 1})
MaskPath(i, last) ==
  <<i>> \o [k \in 1 .. Ordinary(i) |-> IF k = Ordinary(i) THEN last ELSE 1 - last]
Masked(is) == {MaskPath(i, last) : i \in is, last \in 0 .. 1}

Trie(paths) == [p \in paths |-> 1 + Len(p) + p[Len(p)]]
UptoTwo(s)  == {Trie(ps) : ps \in {ps \in SUBSET s : Cardinality(ps) <= 2}}

MC_Tries ==
  [s \in {"1DxT", "1DxF", "1DxP", "2DxF", "2DxP", "3DxF", "3DxP", "4DxF", "4DxP"} |->
    CASE s \in {"1DxT", "1DxF"} -> UptoTwo([1 .. 2 -> 0 .. 1])
      [] s = "1DxP"             -> UptoTwo([1 .. 3 -> 0 .. 1])
      [] s \in {"2DxF", "2DxP"} -> UptoTwo(Masked({0, 2, 3}))
      [] s \in {"3DxF", "3DxP"} -> UptoTwo(Masked({0, 2, 6, 7}))
      [] s \in {"4DxF", "4DxP"} -> UptoTwo(Masked({0, 4, 9, 11, 15}))]

ASSUME TriesAssumption

-----------------------------------------------------------------------------
Unasked == /\ values = <<>> /\ answer = [query |-> "none"] /\ trie = <<>> /\ stream = <<>>
           /\ pc = "off" /\ cursor = 1 /\ stack = <<>> /\ trieCount = 0 /\ shift = 1 /\ bins = <<>>

BoundsInit == Unasked /\ Bounds!BBInit /\ Closed

MCInit == \/ Init /\ Bounds!Unchosen /\ Closed
          \/ BoundsInit
          \/ Unasked /\ Bounds!Unchosen /\ DSInit

BoundsNext == Bounds!BBNext /\ UNCHANGED <<vars, DSvars>>

MCNext == \/ Next /\ UNCHANGED <<boundsVars, DSvars>>
          \/ BoundsNext
          \/ DSNext /\ UNCHANGED <<vars, boundsVars>>

all == <<vars, boundsVars, DSvars>>

MCSpec     == MCInit /\ [][MCNext]_all
BoundsSpec == BoundsInit /\ [][BoundsNext]_all

\* The queries alone.
QueriesSpec == (Init /\ Bounds!Unchosen /\ Closed) /\ [][Next /\ UNCHANGED <<boundsVars, DSvars>>]_all

-----------------------------------------------------------------------------
\* BinBoundary's: the boundaries returned are those of the whole histogram.
BoundsExact == Bounds!BoundsExact

\* BinBoundary's: the bounds of bins of special values hold their points too.
SpecialBounds == Bounds!SpecialBounds
=============================================================================
