------------------------------ MODULE BoxIndex ------------------------------
(***************************************************************************)
(* The arithmetic of bin indices that box queries rest on                  *)
(* (airtree-query/src/bounding-box/BoundingBox.cpp, meta/Histogram.cpp):   *)
(* from a box in coordinates to a box of bins, to the box its data fill,   *)
(* to that box grown by a bin.  Every dimension is treated alike.  It has  *)
(* no state; BoxQuery and BoxBatch do the counting.                        *)
(*                                                                         *)
(* The number zero has no bin: boxes do not count it.                      *)
(***************************************************************************)
EXTENDS BinTable, Sequences, FiniteSetsExt

CONSTANTS
  Dims,      \* the number of dimensions, 2 or 3
  IndexMod   \* indices are unsigned: their arithmetic is modulo IndexMod

ASSUME IndexAssumption ==
  /\ Dims \in Nat \ {0}
  /\ IndexMod \in Nat /\ IndexMod > BinCount

\* The label of the bin a point is filed under lies in the box.
LabelInBox(p, box) ==
  \E c \in [1 .. Dims -> Bins] :
     \A d \in 1 .. Dims : Holds(c[d], p[d]) /\ box.lo[d] <= Labels[c[d]] /\ Labels[c[d]] <= box.hi[d]

\* The trie of some points: the count of each cell, a tuple of bins.
Trie(points) ==
  [cell \in [1 .. Dims -> Bins] |->
     Cardinality({k \in DOMAIN points : \A d \in 1 .. Dims : Holds(cell[d], points[k][d])})]

-----------------------------------------------------------------------------
(* A box [lo, hi] of coordinates becomes, in each dimension, the bins from  *)
(* SafeLow to SafeHigh.                                                      *)

LowBin(lo) == IF lo = Low THEN 0 ELSE BinIndex(lo)

\* Mutant: an unbounded side ends a bin early.
HighBinShort(hi) == IF hi = High THEN LastBin - 1 ELSE BinIndex(hi)

HighBin(hi) == IF hi = High THEN LastBin ELSE BinIndex(hi)

SafeLow(lo) == LowBin(lo)

\* One less than the bin whose label exceeds the bound; unsigned.
SafeHigh(hi) ==
  IF hi = High THEN HighBin(hi)
  ELSE IF FPNumber(HighBin(hi)) > hi THEN (HighBin(hi) - 1) % IndexMod ELSE HighBin(hi)

\* The match flags: the bound is a label or the end of the table.
LowMatches(lo)  == FPNumber(LowBin(lo)) = lo \/ LowBin(lo) = 0
HighMatches(hi) == FPNumber(HighBin(hi)) = hi \/ HighBin(hi) = LastBin

Perfect(box) == \A d \in 1 .. Dims : LowMatches(box.lo[d]) /\ HighMatches(box.hi[d])

SafeIndices(box) ==
  [lo |-> [d \in 1 .. Dims |-> SafeLow(box.lo[d])], hi |-> [d \in 1 .. Dims |-> SafeHigh(box.hi[d])]]

\* The cells that the nested loops over a box of bins visit.
Cells(ix) == {c \in [1 .. Dims -> Bins] : \A d \in 1 .. Dims : ix.lo[d] <= c[d] /\ c[d] <= ix.hi[d]}

\* A loop reads the table at each of its bins, and is reached when the loops
\* around it have any: true if one of those reads is past the table.
PastTable(ix) ==
  \E d \in 1 .. Dims :
     /\ \A e \in 1 .. d : ix.lo[e] <= ix.hi[e]
     /\ ix.hi[d] > LastBin

-----------------------------------------------------------------------------
(* The loops over the safe box keep the labels of the first cell with data  *)
(* and the largest labels; these become the new safe box.                    *)

WithData(trie, ix) == {c \in Cells(ix) : trie[c] > 0}

CountIn(trie, ix) == MapThenSumSet(LAMBDA c : trie[c], Cells(ix))

\* The loops visit c before e: the first dimension is the outermost.
Precedes(c, e) ==
  \E d \in 1 .. Dims : c[d] < e[d] /\ \A b \in 1 .. d - 1 : c[b] = e[b]

FirstOf(cells) == CHOOSE c \in cells : \A e \in cells \ {c} : Precedes(c, e)

Uppermost(cells) == [d \in 1 .. Dims |-> Max({c[d] : c \in cells})]

Lowermost(cells) == [d \in 1 .. Dims |-> Min({c[d] : c \in cells})]

\* The safe box after the loops: unchanged if no cell had data.
Refined(trie, ix) ==
  LET found == WithData(trie, ix)
  IN  IF found = {} THEN ix ELSE [lo |-> FirstOf(found), hi |-> Uppermost(found)]

\* initEdgeBox: a bin more on each side that does not match.  Nothing keeps
\* an index below BinCount.
EdgeBox2D(box, ix) ==
  [lo |-> [d \in 1 .. Dims |-> IF LowMatches(box.lo[d]) THEN ix.lo[d] ELSE (ix.lo[d] - 1) % IndexMod],
   hi |-> [d \in 1 .. Dims |-> IF HighMatches(box.hi[d]) THEN ix.hi[d] ELSE (ix.hi[d] + 1) % IndexMod]]

\* Mutant: the upper side does not grow.
EdgeBox3DUngrown(box, ix) ==
  [lo |-> [d \in 1 .. Dims |-> IF ix.lo[d] = 0 THEN 0 ELSE ix.lo[d] - 1], hi |-> ix.hi]

\* Mutant: the end of the table is not looked at above.
EdgeBox3DUnclamped(box, ix) ==
  [lo |-> [d \in 1 .. Dims |-> IF ix.lo[d] = 0 THEN 0 ELSE ix.lo[d] - 1],
   hi |-> [d \in 1 .. Dims |-> (ix.hi[d] + 1) % IndexMod]]

\* initEdgeBox3D: a bin more on each side that the table has.
EdgeBox3D(box, ix) ==
  [lo |-> [d \in 1 .. Dims |-> IF ix.lo[d] = 0 THEN 0 ELSE ix.lo[d] - 1],
   hi |-> [d \in 1 .. Dims |-> IF ix.hi[d] = LastBin THEN LastBin ELSE (ix.hi[d] + 1) % IndexMod]]

EdgeBox(box, ix) == IF Dims = 2 THEN EdgeBox2D(box, ix) ELSE EdgeBox3D(box, ix)
=============================================================================
