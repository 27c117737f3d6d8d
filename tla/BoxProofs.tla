------------------------------ MODULE BoxProofs -----------------------------
(***************************************************************************)
(* Box queries, for a table of any size, any labels and any box: which     *)
(* bins the bounds of a box select, and that in other than two dimensions  *)
(* no index leaves the table unless the box ends below the first label.    *)
(***************************************************************************)
EXTENDS BoxQuery, CommonProofs

-----------------------------------------------------------------------------
(* std::lower_bound finds the place it promises.                           *)
LEMMA BinIndexFound ==
  ASSUME NEW v \in Int
  PROVE  /\ BinIndex(v) \in 0 .. BinCount
         /\ \A j \in Bins : j < BinIndex(v) => Labels[j] < v
         /\ \A j \in Bins : j >= BinIndex(v) => v <= Labels[j]
<1> DEFINE S == {i \in 0 .. BinCount : i < BinCount => v <= Labels[i]}
<1>1. S \in SUBSET Int /\ BinCount \in S
  BY TableAssumption, IndexAssumption
<1>2. IsFiniteSet(S)
  <2>1. IsFiniteSet(0 .. BinCount)
    BY TableAssumption, IndexAssumption, FS_Interval
  <2> QED
    BY <2>1, FS_Subset
<1>3. PICK m \in S : \A k \in S : m <= k
  <2> HIDE DEF S
  <2> QED
    BY <1>1, <1>2, LeastElement
<1>4. \A j \in Bins : j < m => Labels[j] < v
  <2> SUFFICES ASSUME NEW j \in Bins, j < m, ~ (Labels[j] < v)
               PROVE  FALSE
    OBVIOUS
  <2>1. Labels[j] \in Int
    BY TableAssumption, IndexAssumption DEF Bins
  <2>2. j \in S
    BY <2>1, TableAssumption, IndexAssumption DEF Bins, LastBin
  <2> QED
    BY <2>2, <1>3, TableAssumption, IndexAssumption DEF Bins, LastBin
<1>5. m \in 0 .. BinCount /\ (m < BinCount => v <= Labels[m])
  OBVIOUS
<1>6. /\ BinIndex(v) \in 0 .. BinCount
      /\ \A j \in Bins : j < BinIndex(v) => Labels[j] < v
      /\ BinIndex(v) < BinCount => v <= Labels[BinIndex(v)]
  <2> HIDE DEF S
  <2> QED
    BY <1>4, <1>5 DEF BinIndex
<1>7. ASSUME NEW j \in Bins, j >= BinIndex(v)
      PROVE  v <= Labels[j]
  <2>1. BinIndex(v) \in Bins
    BY <1>6, <1>7, TableAssumption, IndexAssumption DEF Bins, LastBin
  <2>2. Labels[BinIndex(v)] <= Labels[j]
    BY <2>1, <1>7, TableAssumption, IndexAssumption DEF Bins, LastBin
  <2>3. Labels[j] \in Int /\ Labels[BinIndex(v)] \in Int
    BY <2>1, TableAssumption, IndexAssumption DEF Bins
  <2> QED
    BY <1>6, <2>1, <2>2, <2>3, TableAssumption, IndexAssumption DEF Bins, LastBin
<1> QED
  BY <1>6, <1>7

\* The upper bound of a box, if it is not below the first label, selects a bin
\* of the table or the last, and exactly the bins with labels up to it.
LEMMA SafeHighExact ==
  ASSUME NEW hi \in Int, hi <= High, Labels[0] <= hi
  PROVE  /\ SafeHigh(hi) \in Bins
         /\ \A i \in Bins : i <= SafeHigh(hi) <=> Labels[i] <= hi
<1> USE TableAssumption, IndexAssumption DEF Bins, LastBin
<1> DEFINE b == BinIndex(hi)
<1>1. CASE hi = High
  <2>1. SafeHigh(hi) = LastBin
    BY <1>1 DEF SafeHigh, HighBin
  <2> QED
    BY <1>1, <2>1
<1>2. CASE hi # High
  <2>1. /\ b \in 0 .. BinCount
        /\ \A j \in Bins : j < b => Labels[j] < hi
        /\ \A j \in Bins : j >= b => hi <= Labels[j]
    BY BinIndexFound
  <2>2. SafeHigh(hi) = IF FPNumber(b) > hi THEN (b - 1) % IndexMod ELSE b
    BY <1>2 DEF SafeHigh, HighBin
  <2> HIDE DEF b
  <2>3. CASE b = BinCount
    <3>1. SafeHigh(hi) = (b - 1) % IndexMod
      BY <1>2, <2>2, <2>3 DEF FPNumber
    <3>2. (b - 1) % IndexMod = b - 1
      <4>1. IndexMod \in Nat /\ b - 1 \in 0 .. IndexMod - 1
        BY <2>3
      <4> QED
        BY <4>1, SmallModulo
    <3> QED
      BY <2>1, <2>3, <3>1, <3>2
  <2>4. CASE b \in Bins /\ FPNumber(b) > hi
    <3>1. Labels[b] > hi
      BY <2>4 DEF FPNumber
    <3>2. b # 0
      BY <3>1, <2>4
    <3>3. (b - 1) % IndexMod = b - 1
      <4>1. IndexMod \in Nat /\ b - 1 \in 0 .. IndexMod - 1
        BY <2>4, <3>2
      <4> QED
        BY <4>1, SmallModulo
    <3>4. \A i \in Bins : i >= b => Labels[i] > hi
      BY <3>1, <2>4
    <3> QED
      BY <2>1, <2>2, <2>4, <3>2, <3>3, <3>4
  <2>5. CASE b \in Bins /\ ~ (FPNumber(b) > hi)
    <3>1. SafeHigh(hi) = b /\ Labels[b] = hi
      BY <2>1, <2>2, <2>5 DEF FPNumber
    <3>2. \A i \in Bins : i > b => Labels[i] > hi
      BY <3>1, <2>5
    <3> QED
      BY <2>1, <2>5, <3>1, <3>2
  <2> QED
    BY <2>1, <2>3, <2>4, <2>5
<1> QED
  BY <1>1, <1>2

\* The bins that the bounds of one dimension select are those whose labels lie
\* between them, for every table and whatever the bounds fall on: no bin is
\* lost or gained at a bound that is a label, between two, past the last or
\* infinite (initSafeBox, initSafeBox3D).
THEOREM AxisExact ==
  ASSUME NEW lo \in Int, NEW hi \in Int, Low <= lo, hi <= High, Labels[0] <= hi,
         NEW i \in Bins
  PROVE  SafeLow(lo) <= i /\ i <= SafeHigh(hi) <=> lo <= Labels[i] /\ Labels[i] <= hi
<1> USE TableAssumption, IndexAssumption DEF Bins, LastBin
<1>1. SafeLow(lo) <= i <=> lo <= Labels[i]
  <2>1. CASE lo = Low
    BY <2>1 DEF SafeLow, LowBin
  <2>2. CASE lo # Low
    <3>1. SafeLow(lo) = BinIndex(lo)
      BY <2>2 DEF SafeLow, LowBin
    <3>2. /\ BinIndex(lo) \in 0 .. BinCount
          /\ i < BinIndex(lo) => Labels[i] < lo
          /\ i >= BinIndex(lo) => lo <= Labels[i]
      BY BinIndexFound
    <3>3. Labels[i] \in Int
      OBVIOUS
    <3> QED
      BY <3>1, <3>2, <3>3
  <2> QED
    BY <2>1, <2>2
<1>2. i <= SafeHigh(hi) <=> Labels[i] <= hi
  BY SafeHighExact
<1> QED
  BY <1>1, <1>2

-----------------------------------------------------------------------------
(* The upper side of the safe box, as first set and as refined.             *)

\* An index is past the table only where the box ends below it.
HighOK(ix) ==
  /\ ix.hi \in [1 .. Dims -> 0 .. IndexMod - 1]
  /\ \A d \in 1 .. Dims : ix.hi[d] \in Bins \/ box.hi[d] < Labels[0]

HighInv == box \in Boxes /\ HighOK(safe) /\ PastTableOnlyBelow

\* The high end of the safe indices is an index, and a bin unless no label is as low.
LEMMA SafeHighRange ==
  ASSUME NEW hi \in Int, hi <= High
  PROVE  SafeHigh(hi) \in 0 .. IndexMod - 1 /\ (SafeHigh(hi) \in Bins \/ hi < Labels[0])
<1> USE TableAssumption, IndexAssumption DEF Bins, LastBin
<1>1. CASE Labels[0] <= hi
  BY <1>1, SafeHighExact
<1>2. CASE ~ (Labels[0] <= hi)
  <2>1. hi < Labels[0] /\ Labels[0] < High
    BY <1>2
  <2>2. BinIndex(hi) \in 0 .. BinCount
    BY BinIndexFound
  <2>3. SafeHigh(hi) = (BinIndex(hi) - 1) % IndexMod \/ SafeHigh(hi) = BinIndex(hi)
    BY <2>1 DEF SafeHigh, HighBin
  <2>4. (BinIndex(hi) - 1) % IndexMod \in 0 .. IndexMod - 1
    BY <2>2
  <2> QED
    BY <2>1, <2>2, <2>3, <2>4
<1> QED
  BY <1>1, <1>2

\* Below the first label the subtraction leaves the largest index there is.
LEMMA SafeHighBelow ==
  ASSUME NEW hi \in Int, hi < Labels[0]
  PROVE  SafeHigh(hi) > LastBin
<1> USE TableAssumption, IndexAssumption DEF Bins, LastBin
<1>1. Labels[0] \in Int /\ Labels[0] < High /\ 0 \in Bins
  OBVIOUS
<1>2. BinIndex(hi) = 0
  <2>1. /\ BinIndex(hi) \in 0 .. BinCount
        /\ \A j \in Bins : j < BinIndex(hi) => Labels[j] < hi
    BY BinIndexFound
  <2>2. ~ (0 < BinIndex(hi))
    BY <1>1, <2>1
  <2> QED
    BY <2>1, <2>2
<1>3. SafeHigh(hi) = (0 - 1) % IndexMod
  BY <1>1, <1>2 DEF SafeHigh, HighBin, FPNumber
<1>4. (0 - 1) % IndexMod = IndexMod - 1
  OBVIOUS
<1> QED
  BY <1>3, <1>4

\* Safe indices are numbers whatever the ends of the box.
LEMMA IndicesAreNumbers ==
  ASSUME NEW lo \in Int, NEW hi \in Int
  PROVE  SafeLow(lo) \in Int /\ SafeHigh(hi) \in Int
<1> USE TableAssumption, IndexAssumption DEF Bins, LastBin
<1>1. BinIndex(lo) \in Int /\ BinIndex(hi) \in Int
  <2>1. BinIndex(lo) \in 0 .. BinCount
    BY BinIndexFound
  <2>2. BinIndex(hi) \in 0 .. BinCount
    BY BinIndexFound
  <2> QED
    BY <2>1, <2>2
<1>2. (BinIndex(hi) - 1) % IndexMod \in Int
  BY <1>1
<1> QED
  BY <1>1, <1>2 DEF SafeLow, LowBin, SafeHigh, HighBin

\* Narrowing an axis (refinement by the trie) keeps the high end of the indices right.
LEMMA RefinedHigh ==
  ASSUME NEW t, NEW ix, HighOK(ix)
  PROVE  HighOK(Refined(t, ix))
<1> DEFINE found == WithData(t, ix)
<1>1. CASE found = {}
  BY <1>1 DEF Refined
<1>2. CASE found # {}
  <2>1. \A d \in 1 .. Dims : Uppermost(found)[d] \in Bins
    <3> TAKE d \in 1 .. Dims
    <3> DEFINE S == {c[d] : c \in found}
    <3>1. S \subseteq Bins /\ S # {}
      BY <1>2 DEF WithData, Cells
    <3>2. IsFiniteSet(Bins)
      BY TableAssumption, IndexAssumption, FS_Interval DEF Bins
    <3>3. IsFiniteSet(S)
      BY <3>1, <3>2, FS_Subset
    <3>4. S \in SUBSET Int
      BY <3>1 DEF Bins
    <3>5. Uppermost(found)[d] = Max(S)
      BY DEF Uppermost
    <3> HIDE DEF S
    <3>6. Max(S) \in S
      BY <3>1, <3>3, <3>4, GreatestElement
    <3> QED
      BY <3>1, <3>5, <3>6
  <2>2. Refined(t, ix).hi = Uppermost(found)
    BY <1>2 DEF Refined
  <2>3. Uppermost(found) \in [1 .. Dims -> Bins]
    BY <2>1 DEF Uppermost
  <2>4. Bins \subseteq 0 .. IndexMod - 1
    BY TableAssumption, IndexAssumption DEF Bins
  <2> QED
    BY <2>2, <2>3, <2>4 DEF HighOK
<1> QED
  BY <1>1, <1>2

\* Growing by a bin does not leave the table, unless the box already has.
LEMMA EdgeBoxHigh ==
  ASSUME Dims # 2, box \in Boxes, HighOK(safe), NEW d \in 1 .. Dims,
         EdgeBox(box, safe).hi[d] > LastBin
  PROVE  box.hi[d] < Labels[0]
<1> USE TableAssumption, IndexAssumption DEF Bins, LastBin
<1>1. EdgeBox(box, safe).hi[d] =
        IF safe.hi[d] = LastBin THEN LastBin ELSE (safe.hi[d] + 1) % IndexMod
  BY DEF EdgeBox, EdgeBox3D
<1> SUFFICES ASSUME safe.hi[d] \in Bins
             PROVE  FALSE
  BY DEF HighOK
<1>2. safe.hi[d] # LastBin
  BY <1>1
<1>3. IndexMod \in Nat /\ safe.hi[d] + 1 \in 0 .. IndexMod - 1 /\ safe.hi[d] + 1 <= LastBin
  BY <1>2
<1>4. (safe.hi[d] + 1) % IndexMod = safe.hi[d] + 1
  BY <1>3, SmallModulo
<1> QED
  BY <1>1, <1>2, <1>3, <1>4

\* It holds when a box query starts.
LEMMA InitHigh == Init => HighInv
<1> SUFFICES ASSUME Init PROVE HighInv
  OBVIOUS
<1>1. box \in Boxes /\ pc = "start" /\ safe = SafeIndices(box)
  BY DEF Init
<1>2. \A d \in 1 .. Dims : box.hi[d] \in Int /\ box.hi[d] <= High
  BY <1>1, BoxesAssumption
<1>3. \A d \in 1 .. Dims : /\ safe.hi[d] = SafeHigh(box.hi[d])
                           /\ SafeHigh(box.hi[d]) \in 0 .. IndexMod - 1
                           /\ SafeHigh(box.hi[d]) \in Bins \/ box.hi[d] < Labels[0]
  BY <1>1, <1>2, SafeHighRange DEF SafeIndices
<1>4. safe.hi \in [1 .. Dims -> 0 .. IndexMod - 1]
  <2>1. safe.hi = [d \in 1 .. Dims |-> SafeHigh(box.hi[d])]
    BY <1>1 DEF SafeIndices
  <2> QED
    BY <1>3, <2>1, Zenon
<1> QED
  BY <1>1, <1>3, <1>4 DEF HighInv, HighOK, PastTableOnlyBelow

\* Every step keeps it; with two axes the high end may be off (see the README).
LEMMA StepHigh ==
  ASSUME Dims # 2, HighInv, [Next]_vars
  PROVE  HighInv'
<1> USE DEF HighInv
<1>1. CASE CountSafe
  <2>1. HighOK(Refined(trie, safe))
    BY RefinedHigh
  <2> QED
    BY <1>1, <2>1 DEF CountSafe, HighOK, PastTableOnlyBelow
<1>2. CASE ReturnPerfect
  BY <1>2 DEF ReturnPerfect, HighOK, PastTableOnlyBelow
<1>3. CASE CountTotal
  BY <1>3 DEF CountTotal, HighOK, PastTableOnlyBelow
<1>4. CASE ReadPastTable
  <2>1. \E d \in 1 .. Dims : box.hi[d] < Labels[0]
    <3>1. CASE pc = "start" /\ PastTable(safe)
      BY <3>1, TableAssumption, IndexAssumption DEF PastTable, HighOK, Bins, LastBin
    <3>2. CASE pc = "expand" /\ PastTable(EdgeBox(box, safe))
      BY <3>2, EdgeBoxHigh DEF PastTable
    <3> QED
      BY <1>4, <3>1, <3>2 DEF ReadPastTable
  <2> QED
    BY <1>4, <2>1 DEF ReadPastTable, HighOK, PastTableOnlyBelow
<1>5. CASE UNCHANGED vars
  BY <1>5 DEF vars, HighOK, PastTableOnlyBelow
<1> QED
  BY <1>1, <1>2, <1>3, <1>4, <1>5 DEF Next

\* In three dimensions, for any table and any boxes, the only boxes for which a
\* loop reads past the table are those that end below the first label in some
\* dimension: the clamps of initEdgeBox3D and the subtraction of initSafeBox3D
\* keep every other index inside.
THEOREM IndicesStayInTable ==
  ASSUME Dims # 2
  PROVE  Spec => []PastTableOnlyBelow
<1>1. Init => HighInv
  BY InitHigh
<1>2. HighInv /\ [Next]_vars => HighInv'
  BY StepHigh
<1>3. HighInv => PastTableOnlyBelow
  BY DEF HighInv
<1> QED
  BY <1>1, <1>2, <1>3, PTL DEF Spec

-----------------------------------------------------------------------------
(* The loops over the safe box count the points whose labels are in it.     *)

\* The number of points in a histogram is a number.
LEMMA CountIsSum == ASSUME NEW t, NEW ix PROVE CountIn(t, ix) = SumFunctionOnSet(t, Cells(ix))
BY DEF CountIn, MapThenSumSet, SumFunctionOnSet, FoldFunctionOnSet

\* A number is filed in one bin at most.
LEMMA HeldOnce == ASSUME NEW i \in Bins, NEW j \in Bins, NEW v, Holds(i, v), Holds(j, v) PROVE i = j
BY TableAssumption DEF Holds, Bins

\* Where every point has one place at most, the sum over places is the number of points
\* that have one there.
LEMMA CellsCountPoints ==
  ASSUME NEW n \in Int, NEW pts, DOMAIN pts = 1 .. n, NEW ix
  PROVE  CountIn(Trie(pts), ix)
           = Cardinality({k \in DOMAIN pts : \E c \in Cells(ix) : \A d \in 1 .. Dims : Holds(c[d], pts[k][d])})
<1> DEFINE held(c, k) == \A d \in 1 .. Dims : Holds(c[d], pts[k][d])
           C == Cells(ix)
           S == {k \in DOMAIN pts : \E c \in C : held(c, k)}
           h == [k \in S |-> CHOOSE c \in C : held(c, k)]
           t == Trie(pts)
<1>1. C \in SUBSET [1 .. Dims -> Bins]
  BY DEF Cells
<1>2. IsFiniteSet(C)
  <2>1. IsFiniteSet(1 .. Dims) /\ IsFiniteSet(Bins)
    BY TableAssumption, IndexAssumption, FS_Interval DEF Bins
  <2>2. IsFiniteSet([1 .. Dims -> Bins])
    BY <2>1, FunctionsFinite
  <2> HIDE DEF C
  <2> QED
    BY <1>1, <2>2, FS_Subset
<1>3. IsFiniteSet(DOMAIN pts) /\ IsFiniteSet(S)
  <2>1. IsFiniteSet(DOMAIN pts)
    BY FS_Interval
  <2> QED
    BY <2>1, FS_Subset
<1>4. ASSUME NEW c \in C, NEW e \in C, NEW k, held(c, k), held(e, k) PROVE c = e
  <2> HIDE DEF C
  <2>1. c \in [1 .. Dims -> Bins] /\ e \in [1 .. Dims -> Bins]
    BY <1>1
  <2>2. ASSUME NEW d \in 1 .. Dims PROVE c[d] = e[d]
    <3>1. Holds(c[d], pts[k][d]) /\ Holds(e[d], pts[k][d]) /\ c[d] \in Bins /\ e[d] \in Bins
      BY <1>4, <2>1
    <3> QED
      BY <3>1, HeldOnce
  <2> HIDE DEF held
  <2>3. \A d \in 1 .. Dims : c[d] = e[d]
    BY <2>2
  <2> HIDE DEF S, h, t
  <2>4. c = [d \in 1 .. Dims |-> c[d]]
    BY ONLY <2>1
  <2>5. e = [d \in 1 .. Dims |-> e[d]]
    BY ONLY <2>1
  <2>6. [d \in 1 .. Dims |-> c[d]] = [d \in 1 .. Dims |-> e[d]]
    BY <2>3
  <2> QED
    BY <2>4, <2>5, <2>6
<1>5. ASSUME NEW v \in C PROVE t[v] = Cardinality({k \in S : h[k] = v})
  <2>1. t[v] = Cardinality({k \in DOMAIN pts : held(v, k)})
    BY <1>1, <1>5 DEF Trie
  <2> HIDE DEF C
  <2>2. ASSUME NEW k \in DOMAIN pts PROVE held(v, k) <=> k \in S /\ h[k] = v
    <3>1. CASE k \in S
      <4>1. h[k] \in C /\ held(h[k], k)
        BY <3>1
      <4> HIDE DEF h, held
      <4> QED
        BY <1>4, <3>1, <4>1
    <3>2. CASE k \notin S
      BY <3>2
    <3> QED
      BY <3>1, <3>2
  <2> HIDE DEF h, held, t
  <2>3. S \subseteq DOMAIN pts
    OBVIOUS
  <2> HIDE DEF S
  <2>4. {k \in DOMAIN pts : held(v, k)} = {k \in S : h[k] = v}
    BY <2>2, <2>3
  <2> QED
    BY <2>1, <2>4
<1>6. \A k \in S : h[k] \in C
  <2> HIDE DEF C, held
  <2> QED
    OBVIOUS
<1> HIDE DEF h, C, t, held
<1>7. SumFunctionOnSet(t, C) = Cardinality(S)
  <2> HIDE DEF S
  <2>1. \A v \in C : t[v] = Cardinality(ClassOf(S, h, v))
    BY <1>5 DEF ClassOf
  <2>2. IsFiniteSet(S)
    BY <1>3
  <2> QED
    BY ONLY <1>2, <1>6, <2>1, <2>2, CountedByClassOf
<1>8. CountIn(t, ix) = SumFunctionOnSet(t, C)
  BY CountIsSum DEF C
<1> QED
  BY <1>7, <1>8 DEF S, C, t, held

\* The cells of a safe box, unless it would have the loops read past the table, are those
\* with labels in the box asked for.
LEMMA SafeCellsExact ==
  ASSUME NEW b \in Boxes, ~ PastTable(SafeIndices(b)), NEW c \in [1 .. Dims -> Bins]
  PROVE  c \in Cells(SafeIndices(b)) <=> \A d \in 1 .. Dims : b.lo[d] <= Labels[c[d]] /\ Labels[c[d]] <= b.hi[d]
<1> DEFINE ix == SafeIndices(b)
<1>1. \A d \in 1 .. Dims : ix.lo[d] = SafeLow(b.lo[d]) /\ ix.hi[d] = SafeHigh(b.hi[d])
  BY DEF SafeIndices
<1>2. \A d \in 1 .. Dims : b.lo[d] \in Int /\ b.hi[d] \in Int /\ Low <= b.lo[d] /\ b.hi[d] <= High
  BY BoxesAssumption
<1>3. ~ PastTable(ix)
  OBVIOUS
<1> HIDE DEF ix
<1>4. \A d \in 1 .. Dims : c[d] \in Bins /\ c[d] \in Int /\ c[d] <= LastBin
  BY TableAssumption DEF Bins, LastBin
<1>5. c \in Cells(ix) <=> \A d \in 1 .. Dims : ix.lo[d] <= c[d] /\ c[d] <= ix.hi[d]
  BY DEF Cells
<1>6. CASE \A d \in 1 .. Dims : Labels[0] <= b.hi[d]
  <2>1. ASSUME NEW d \in 1 .. Dims
        PROVE  ix.lo[d] <= c[d] /\ c[d] <= ix.hi[d] <=> b.lo[d] <= Labels[c[d]] /\ Labels[c[d]] <= b.hi[d]
    BY <1>1, <1>2, <1>4, <1>6, AxisExact
  <2> QED
    BY <1>5, <2>1 DEF ix
<1>7. CASE \E d \in 1 .. Dims : ~ (Labels[0] <= b.hi[d])
  <2>1. PICK d \in 1 .. Dims : ~ (Labels[0] <= b.hi[d])
    BY <1>7
  <2>2. ~ (Labels[c[d]] <= b.hi[d])
    <3>1. Labels[0] \in Int /\ Labels[c[d]] \in Int /\ Labels[0] <= Labels[c[d]]
      BY <1>4, TableAssumption DEF Bins
    <3> QED
      BY <1>2, <2>1, <3>1
  <2>3. ix.hi[d] > LastBin
    <3>1. b.hi[d] \in Int /\ b.hi[d] < Labels[0]
      BY <1>2, <2>1, TableAssumption
    <3>2. SafeHigh(b.hi[d]) > LastBin
      BY <3>1, SafeHighBelow
    <3> QED
      BY <1>1, <3>2
  <2>4. \E e \in 1 .. d : ~ (ix.lo[e] <= ix.hi[e])
    BY <1>3, <2>3 DEF PastTable
  <2>5. ASSUME NEW e \in 1 .. Dims PROVE ix.lo[e] \in Int /\ ix.hi[e] \in Int
    BY <1>1, <1>2, IndicesAreNumbers
  <2>6. c \notin Cells(ix)
    <3>1. PICK e \in 1 .. d : ~ (ix.lo[e] <= ix.hi[e])
      BY <2>4
    <3>2. e \in 1 .. Dims
      BY IndexAssumption
    <3> QED
      BY <1>4, <1>5, <2>5, <3>1, <3>2
  <2> QED
    BY <2>2, <2>6 DEF ix
<1> QED
  BY <1>2, <1>6, <1>7

\* So the loops over it count the points with a label there.
LEMMA SafeBoxCounts ==
  ASSUME NEW b \in Boxes, ~ PastTable(SafeIndices(b)), NEW n \in Int, NEW pts, DOMAIN pts = 1 .. n
  PROVE  CountIn(Trie(pts), SafeIndices(b)) = Cardinality({k \in DOMAIN pts : LabelInBox(pts[k], b)})
<1> DEFINE ix == SafeIndices(b)
           held(c, k) == \A d \in 1 .. Dims : Holds(c[d], pts[k][d])
           inside(c) == \A d \in 1 .. Dims : b.lo[d] <= Labels[c[d]] /\ Labels[c[d]] <= b.hi[d]
<1>1. CountIn(Trie(pts), ix) = Cardinality({k \in DOMAIN pts : \E c \in Cells(ix) : held(c, k)})
  BY CellsCountPoints
<1>2. ASSUME NEW k PROVE (\E c \in Cells(ix) : held(c, k)) <=> LabelInBox(pts[k], b)
  <2>1. Cells(ix) \subseteq [1 .. Dims -> Bins]
    BY DEF Cells
  <2>2. \A c \in [1 .. Dims -> Bins] : c \in Cells(ix) <=> inside(c)
    BY SafeCellsExact
  <2> HIDE DEF ix
  <2>3. LabelInBox(pts[k], b) <=> \E c \in [1 .. Dims -> Bins] : held(c, k) /\ inside(c)
    BY DEF LabelInBox
  <2> HIDE DEF held, inside
  <2> QED
    BY <2>1, <2>2, <2>3
<1> HIDE DEF ix, held
<1>3. {k \in DOMAIN pts : \E c \in Cells(ix) : held(c, k)} = {k \in DOMAIN pts : LabelInBox(pts[k], b)}
  BY <1>2
<1> QED
  BY <1>1, <1>3 DEF ix

\* A box with no bounds matches on every side.
Unbounded(b) == \A d \in 1 .. Dims : b.lo[d] = Low /\ b.hi[d] = High

\* A box that is open on every side is answered perfectly.
LEMMA UnboundedPerfect == ASSUME NEW b, Unbounded(b) PROVE Perfect(b)
BY TableAssumption, IndexAssumption DEF Unbounded, Perfect, LowMatches, HighMatches, LowBin, HighBin

\* It holds what is filed.
LEMMA UnboundedHolds == ASSUME NEW b, Unbounded(b), NEW p PROVE LabelInBox(p, b) <=> Filed(p)
<1>1. ASSUME NEW c \in [1 .. Dims -> Bins], NEW d \in 1 .. Dims
      PROVE  b.lo[d] <= Labels[c[d]] /\ Labels[c[d]] <= b.hi[d]
  <2>1. c[d] \in 0 .. BinCount - 1
    BY DEF Bins
  <2>2. Labels[c[d]] \in Int /\ Low < Labels[c[d]] /\ Labels[c[d]] < High
    BY <2>1, TableAssumption
  <2>3. b.lo[d] = Low /\ b.hi[d] = High
    BY DEF Unbounded
  <2> QED
    BY <2>2, <2>3, TableAssumption
<1> QED
  BY <1>1 DEF LabelInBox, Filed

\* Between the steps: the histogram is that of the points, the first box of bins is the
\* safe one, the first count that of the labels, and if nothing is left to count on any
\* side it is the second too.
SafeInv ==
  /\ box \in Boxes
  /\ \E n \in Int : DOMAIN points = 1 .. n
  /\ trie = Trie(points)
  /\ pc \in {"start", "expand", "done", "fault"}
  /\ pc = "start" => safe = SafeIndices(box)
  /\ SafeByLabel
  /\ pc = "done" /\ Perfect(box) => totalCount = safeCount

\* It holds when a box query starts.
LEMMA InitSafe == Init => SafeInv
<1> SUFFICES ASSUME Init PROVE SafeInv
  OBVIOUS
<1>1. \E n \in Int : DOMAIN points = 1 .. n
  <2>1. PICK m \in 0 .. MaxPoints : points \in [1 .. m -> Points]
    BY DEF Init
  <2> QED
    BY <2>1
<1> QED
  BY <1>1 DEF Init, SafeInv, SafeByLabel

\* Every step of a box query keeps it.
LEMMA StepSafe ==
  ASSUME SafeInv, [Next]_vars
  PROVE  SafeInv'
<1> USE DEF SafeInv
<1>1. CASE CountSafe
  <2>1. PICK n \in Int : DOMAIN points = 1 .. n
    OBVIOUS
  <2>2. safe = SafeIndices(box) /\ ~ PastTable(SafeIndices(box))
    BY <1>1 DEF CountSafe
  <2>3. safeCount' = CountIn(Trie(points), SafeIndices(box))
    BY <1>1, <2>2 DEF CountSafe
  <2>4. safeCount' = Cardinality({k \in DOMAIN points : LabelInBox(points[k], box)})
    BY <2>1, <2>2, <2>3, SafeBoxCounts
  <2>5. UNCHANGED <<points, trie, box>> /\ pc' = "expand"
    BY <1>1 DEF CountSafe
  <2> QED
    BY <2>4, <2>5 DEF SafeByLabel
<1>2. CASE ReturnPerfect
  BY <1>2 DEF ReturnPerfect, SafeByLabel
<1>3. CASE CountTotal
  BY <1>3 DEF CountTotal, SafeByLabel
<1>4. CASE ReadPastTable
  BY <1>4 DEF ReadPastTable, SafeByLabel
<1>5. CASE UNCHANGED vars
  BY <1>5 DEF vars, SafeByLabel
<1> QED
  BY <1>1, <1>2, <1>3, <1>4, <1>5 DEF Next

\* So it holds always.
LEMMA SafeAlways == Spec => []SafeInv
<1>1. Init => SafeInv
  BY InitSafe
<1>2. SafeInv /\ [Next]_vars => SafeInv'
  BY StepSafe
<1> QED
  BY <1>1, <1>2, PTL DEF Spec

\* In any number of dimensions, for any table, points and boxes, the safe count of a
\* query that does not leave the table is the number of points whose labels lie in the
\* box: rounding to bins, unsigned indices and infinite bounds add and lose nothing.
THEOREM SafeCountIsExact == Spec => []SafeByLabel
<1>1. SafeInv => SafeByLabel
  BY DEF SafeInv
<1> QED
  BY <1>1, SafeAlways, PTL

\* A query without bounds counts, in both its results, every point that is filed in
\* a bin (the special case at the head of initSafeBox).
THEOREM UnboundedCountsAll == Spec => []UnboundedExact
<1>1. ASSUME SafeInv PROVE UnboundedExact
  <2> SUFFICES ASSUME pc = "done", Unbounded(box)
               PROVE  /\ safeCount = Cardinality({k \in DOMAIN points : Filed(points[k])})
                      /\ totalCount = safeCount
    BY DEF UnboundedExact, Unbounded
  <2>1. totalCount = safeCount
    BY <1>1, UnboundedPerfect DEF SafeInv
  <2>2. safeCount = Cardinality({k \in DOMAIN points : LabelInBox(points[k], box)})
    BY <1>1 DEF SafeInv, SafeByLabel
  <2>3. {k \in DOMAIN points : LabelInBox(points[k], box)} = {k \in DOMAIN points : Filed(points[k])}
    BY UnboundedHolds
  <2> QED
    BY <2>1, <2>2, <2>3
<1> QED
  BY <1>1, SafeAlways, PTL

-----------------------------------------------------------------------------
(* Which cells are looked at.                                               *)

\* There are finitely many cells, each a bin for every axis.
LEMMA CellsFinite == ASSUME NEW ix PROVE IsFiniteSet(Cells(ix)) /\ Cells(ix) \subseteq [1 .. Dims -> Bins]
<1>1. IsFiniteSet(1 .. Dims) /\ IsFiniteSet(Bins)
  BY TableAssumption, IndexAssumption, FS_Interval DEF Bins
<1>2. IsFiniteSet([1 .. Dims -> Bins])
  BY <1>1, FunctionsFinite
<1>3. Cells(ix) \in SUBSET [1 .. Dims -> Bins]
  BY DEF Cells
<1> QED
  BY <1>2, <1>3, FS_Subset

\* The order of the loops has a first cell.
LEMMA PrecedesTransitive ==
  ASSUME NEW c, NEW e, NEW g, c \in [1 .. Dims -> Bins], e \in [1 .. Dims -> Bins], g \in [1 .. Dims -> Bins],
         Precedes(c, e), Precedes(e, g)
  PROVE  Precedes(c, g)
<1>1. PICK d \in 1 .. Dims : c[d] < e[d] /\ \A b \in 1 .. d - 1 : c[b] = e[b]
  BY DEF Precedes
<1>2. PICK f \in 1 .. Dims : e[f] < g[f] /\ \A b \in 1 .. f - 1 : e[b] = g[b]
  BY DEF Precedes
<1>3. \A b \in 1 .. Dims : c[b] \in Int /\ e[b] \in Int /\ g[b] \in Int
  BY DEF Bins
<1>4. d \in Int /\ f \in Int /\ 1 <= d /\ 1 <= f
  OBVIOUS
<1>5. CASE d < f
  <2>1. c[d] < g[d] /\ \A b \in 1 .. d - 1 : c[b] = g[b]
    BY <1>1, <1>2, <1>3, <1>4, <1>5
  <2> QED
    BY <2>1 DEF Precedes
<1>6. CASE ~ (d < f)
  <2>1. c[f] < g[f]
    BY <1>1, <1>2, <1>3, <1>4, <1>6
  <2>2. \A b \in 1 .. f - 1 : c[b] = g[b]
    BY <1>1, <1>2, <1>4, <1>6
  <2> QED
    BY <2>1, <2>2 DEF Precedes
<1> QED
  BY <1>5, <1>6

\* Of two cells one comes before the other.
LEMMA PrecedesTotal ==
  ASSUME NEW c \in [1 .. Dims -> Bins], NEW e \in [1 .. Dims -> Bins], c # e
  PROVE  Precedes(c, e) \/ Precedes(e, c)
<1> DEFINE D == {d \in 1 .. Dims : c[d] # e[d]}
<1>1. D \in SUBSET Int /\ IsFiniteSet(D)
  <2>1. IsFiniteSet(1 .. Dims) /\ D \in SUBSET (1 .. Dims) /\ D \in SUBSET Int
    BY IndexAssumption, FS_Interval
  <2> HIDE DEF D
  <2> QED
    BY <2>1, FS_Subset
<1>2. D # {}
  <2> SUFFICES ASSUME \A d \in 1 .. Dims : c[d] = e[d] PROVE FALSE
    OBVIOUS
  <2> HIDE DEF D
  <2>1. c = [d \in 1 .. Dims |-> c[d]] /\ e = [d \in 1 .. Dims |-> e[d]]
    OBVIOUS
  <2>2. [d \in 1 .. Dims |-> c[d]] = [d \in 1 .. Dims |-> e[d]]
    OBVIOUS
  <2> QED
    BY <2>1, <2>2
<1>3. D \subseteq 1 .. Dims /\ \A d \in 1 .. Dims : d \in D <=> c[d] # e[d]
  OBVIOUS
<1> HIDE DEF D
<1>4. PICK d \in D : \A b \in D : d <= b
  BY <1>1, <1>2, LeastElement
<1>5. \A b \in 1 .. d - 1 : c[b] = e[b]
  <2> TAKE b \in 1 .. d - 1
  <2>1. d \in 1 .. Dims /\ b \in 1 .. Dims /\ ~ (d <= b)
    BY <1>3, IndexAssumption
  <2> QED
    BY <1>3, <1>4, <2>1
<1>6. d \in 1 .. Dims /\ c[d] \in Int /\ e[d] \in Int /\ c[d] # e[d]
  BY <1>3 DEF Bins
<1>7. c[d] < e[d] \/ e[d] < c[d]
  BY <1>6
<1> QED
  BY <1>5, <1>6, <1>7 DEF Precedes

\* A set of cells that is not empty has a first one.
LEMMA FirstFound ==
  ASSUME NEW S \in SUBSET [1 .. Dims -> Bins], IsFiniteSet(S), S # {}
  PROVE  FirstOf(S) \in S
<1> DEFINE R == {p \in S \X S : Precedes(p[1], p[2])}
<1>1. \A x, y \in S : <<x, y>> \in R <=> Precedes(x, y)
  OBVIOUS
<1> HIDE DEF R
<1>2. \A x \in S : <<x, x>> \notin R
  <2> TAKE x \in S
  <2>0. x \in [1 .. Dims -> Bins]
    OBVIOUS
  <2>1. \A d \in 1 .. Dims : x[d] \in Int
    BY <2>0 DEF Bins
  <2>2. ~ Precedes(x, x)
    BY <2>1 DEF Precedes
  <2> QED
    BY <1>1, <2>2
<1>3. \A x, y, z \in S : <<x, y>> \in R /\ <<y, z>> \in R => <<x, z>> \in R
  <2> TAKE x, y, z \in S
  <2>1. x \in [1 .. Dims -> Bins] /\ y \in [1 .. Dims -> Bins] /\ z \in [1 .. Dims -> Bins]
    OBVIOUS
  <2>2. Precedes(x, y) /\ Precedes(y, z) => Precedes(x, z)
    BY <2>1, PrecedesTransitive
  <2> QED
    BY <1>1, <2>2
<1>4. PICK m \in S : \A k \in S : <<k, m>> \notin R
  BY <1>2, <1>3, LeastByOrder
<1>5. \A e \in S \ {m} : Precedes(m, e)
  <2> TAKE e \in S \ {m}
  <2>1. m \in [1 .. Dims -> Bins] /\ e \in [1 .. Dims -> Bins] /\ m # e
    OBVIOUS
  <2>2. ~ Precedes(e, m)
    BY <1>1, <1>4
  <2> QED
    BY <2>1, <2>2, PrecedesTotal
<1> QED
  BY <1>5 DEF FirstOf

\* The box around some cells: it reaches as far as they do.
LEMMA Corners ==
  ASSUME NEW S \in SUBSET [1 .. Dims -> Bins], IsFiniteSet(S), S # {}, NEW d \in 1 .. Dims
  PROVE  /\ Lowermost(S)[d] \in Bins /\ Uppermost(S)[d] \in Bins
         /\ \A c \in S : Lowermost(S)[d] <= c[d] /\ c[d] <= Uppermost(S)[d]
         /\ \E c \in S : c[d] = Lowermost(S)[d]
         /\ \E c \in S : c[d] = Uppermost(S)[d]
<1> DEFINE at == [c \in S |-> c[d]]
           D == {at[c] : c \in S}
           D2 == {c[d] : c \in S}
<1>1. \A c \in S : at[c] = c[d] /\ at[c] \in Bins /\ at[c] \in Int
  <2> TAKE c \in S
  <2>1. c \in [1 .. Dims -> Bins] /\ at[c] = c[d]
    OBVIOUS
  <2> QED
    BY <2>1 DEF Bins
<1>2. Lowermost(S)[d] = Min(D2) /\ Uppermost(S)[d] = Max(D2)
  BY DEF Lowermost, Uppermost
<1>3. D2 = D
  OBVIOUS
<1> HIDE DEF at, D2
<1>4. IsFiniteSet(D)
  BY ImageFinite
<1>5. D \in SUBSET Int /\ D # {}
  BY <1>1
<1>6. /\ \A c \in S : c[d] \in D
      /\ \A x \in D : x \in Bins /\ \E c \in S : c[d] = x
  BY <1>1
<1> HIDE DEF D
<1>7. Min(D) \in D /\ \A k \in D : Min(D) <= k
  BY <1>4, <1>5, LeastIs
<1>8. Max(D) \in D /\ \A k \in D : k <= Max(D)
  BY <1>4, <1>5, GreatestElement
<1>9. Lowermost(S)[d] = Min(D) /\ Uppermost(S)[d] = Max(D)
  BY <1>2, <1>3
<1> QED
  BY <1>6, <1>7, <1>8, <1>9

\* A cell within the corners of the cells with data is among the cells looked at.
LEMMA FoundInside ==
  ASSUME NEW b \in Boxes, NEW t, NEW S, S = WithData(t, SafeIndices(b)), S # {}
  PROVE  Cells([lo |-> Lowermost(S), hi |-> Uppermost(S)]) \subseteq Cells(SafeIndices(b))
<1> DEFINE ix == SafeIndices(b)
           f == [lo |-> Lowermost(S), hi |-> Uppermost(S)]
<1>1. S \subseteq Cells(ix)
  BY DEF WithData
<1>2. \A d \in 1 .. Dims : ix.lo[d] \in Int /\ ix.hi[d] \in Int
  <2> TAKE d \in 1 .. Dims
  <2>1. b.lo[d] \in Int /\ b.hi[d] \in Int
    BY BoxesAssumption
  <2>2. ix.lo[d] = SafeLow(b.lo[d]) /\ ix.hi[d] = SafeHigh(b.hi[d])
    BY DEF SafeIndices
  <2> QED
    BY <2>1, <2>2, IndicesAreNumbers
<1> HIDE DEF ix
<1>3. S \in SUBSET [1 .. Dims -> Bins] /\ IsFiniteSet(S)
  BY <1>1, CellsFinite, FS_Subset
<1>4. f.lo = Lowermost(S) /\ f.hi = Uppermost(S)
  OBVIOUS
<1> HIDE DEF f
<1>5. ASSUME NEW c \in Cells(f), NEW d \in 1 .. Dims PROVE ix.lo[d] <= c[d] /\ c[d] <= ix.hi[d]
  <2>1. c \in [1 .. Dims -> Bins] /\ Lowermost(S)[d] <= c[d] /\ c[d] <= Uppermost(S)[d]
    BY <1>4 DEF Cells
  <2>2. c[d] \in Int
    BY <2>1 DEF Bins
  <2>3. PICK e \in S : e[d] = Lowermost(S)[d]
    BY <1>3, Corners
  <2>4. PICK g \in S : g[d] = Uppermost(S)[d]
    BY <1>3, Corners
  <2>5. ix.lo[d] <= e[d] /\ g[d] <= ix.hi[d] /\ e[d] \in Bins /\ g[d] \in Bins
    BY <1>1, <1>3 DEF Cells
  <2>6. e[d] \in Int /\ g[d] \in Int
    BY <2>5 DEF Bins
  <2> QED
    BY <1>2, <2>1, <2>2, <2>3, <2>4, <2>5, <2>6
<1>6. \A c \in Cells(f) : c \in [1 .. Dims -> Bins]
  BY DEF Cells
<1>7. Cells(f) \subseteq Cells(ix)
  BY <1>5, <1>6 DEF Cells
<1> QED
  BY <1>7 DEF f, ix

\* The box that getCounts grows is within the one the batch grows: its lower corner is
\* that of one cell with data, not of them all.
LEMMA GrownCovers ==
  ASSUME NEW b \in Boxes, NEW t, NEW S, S = WithData(t, SafeIndices(b)), S # {}
  PROVE  Cells(EdgeBox2D(b, Refined(t, SafeIndices(b))))
           \subseteq Cells(EdgeBox3D(b, [lo |-> Lowermost(S), hi |-> Uppermost(S)]))
<1> DEFINE ix == SafeIndices(b)
           f == [lo |-> Lowermost(S), hi |-> Uppermost(S)]
           r == Refined(t, ix)
           g == EdgeBox3D(b, f)
           e == EdgeBox2D(b, r)
           m == FirstOf(S)
<1>1. S \in SUBSET [1 .. Dims -> Bins] /\ IsFiniteSet(S)
  <2>1. S \subseteq Cells(ix)
    BY DEF WithData
  <2> HIDE DEF ix
  <2> QED
    BY <2>1, CellsFinite, FS_Subset
<1>2. m \in S
  BY <1>1, FirstFound
<1>3. r.lo = m /\ r.hi = Uppermost(S)
  BY DEF Refined
<1>4. ASSUME NEW d \in 1 .. Dims
      PROVE  /\ e.lo[d] = IF LowMatches(b.lo[d]) THEN m[d] ELSE (m[d] - 1) % IndexMod
             /\ e.hi[d] = IF HighMatches(b.hi[d]) THEN Uppermost(S)[d] ELSE (Uppermost(S)[d] + 1) % IndexMod
             /\ g.lo[d] = IF Lowermost(S)[d] = 0 THEN 0 ELSE Lowermost(S)[d] - 1
             /\ g.hi[d] = IF Uppermost(S)[d] = LastBin THEN LastBin ELSE (Uppermost(S)[d] + 1) % IndexMod
  <2> HIDE DEF r, m
  <2> QED
    BY <1>3 DEF EdgeBox2D, EdgeBox3D
<1> HIDE DEF ix, f, r, g, e, m
<1>5. ASSUME NEW c \in Cells(e), NEW d \in 1 .. Dims PROVE g.lo[d] <= c[d] /\ c[d] <= g.hi[d]
  <2> DEFINE low == Lowermost(S)[d]
             up == Uppermost(S)[d]
  <2>1. c \in [1 .. Dims -> Bins] /\ e.lo[d] <= c[d] /\ c[d] <= e.hi[d]
    BY DEF Cells
  <2>2. c[d] \in 0 .. LastBin /\ m[d] \in 0 .. LastBin
    BY <1>1, <1>2, <2>1 DEF Bins, LastBin
  <2>3. low \in 0 .. LastBin /\ up \in 0 .. LastBin /\ low <= m[d]
    BY <1>1, <1>2, Corners DEF Bins, LastBin
  <2>4. LastBin \in Nat /\ IndexMod \in Nat /\ LastBin + 1 < IndexMod
    BY TableAssumption, IndexAssumption DEF LastBin
  <2>5. m[d] # 0 => (m[d] - 1) % IndexMod = m[d] - 1
    BY <2>2, <2>4, SmallModulo
  <2>6. up # LastBin => (up + 1) % IndexMod = up + 1
    BY <2>3, <2>4, SmallModulo
  <2>7. /\ e.lo[d] = m[d] \/ e.lo[d] = (m[d] - 1) % IndexMod
        /\ e.hi[d] = up \/ e.hi[d] = (up + 1) % IndexMod
        /\ g.lo[d] = IF low = 0 THEN 0 ELSE low - 1
        /\ g.hi[d] = IF up = LastBin THEN LastBin ELSE (up + 1) % IndexMod
    BY <1>4
  <2> HIDE DEF low, up
  <2>8. g.lo[d] <= c[d]
    BY <2>1, <2>2, <2>3, <2>4, <2>5, <2>7
  <2>9. c[d] <= g.hi[d]
    BY <2>1, <2>2, <2>3, <2>4, <2>6, <2>7
  <2> QED
    BY <2>8, <2>9
<1>6. \A c \in Cells(e) : c \in [1 .. Dims -> Bins]
  BY DEF Cells
<1>7. Cells(e) \subseteq Cells(g)
  BY <1>5, <1>6 DEF Cells
<1> QED
  BY <1>7 DEF e, g, r, f, ix

\* No bound of a box is a label or the end of the table.
NoneMatches(b) == \A d \in 1 .. Dims : ~ LowMatches(b.lo[d]) /\ ~ HighMatches(b.hi[d])

\* If no side matches and the first cell with data is the lower corner of them all, the
\* box that getCounts grows holds the one the batch grows.
LEMMA GrownSame ==
  ASSUME NEW b \in Boxes, NEW t, NEW S, S = WithData(t, SafeIndices(b)), S # {},
         NoneMatches(b), FirstOf(S) = Lowermost(S)
  PROVE  Cells(EdgeBox3D(b, [lo |-> Lowermost(S), hi |-> Uppermost(S)]))
           \subseteq Cells(EdgeBox2D(b, Refined(t, SafeIndices(b))))
<1> DEFINE ix == SafeIndices(b)
           f == [lo |-> Lowermost(S), hi |-> Uppermost(S)]
           r == Refined(t, ix)
           g == EdgeBox3D(b, f)
           e == EdgeBox2D(b, r)
<1>1. S \in SUBSET [1 .. Dims -> Bins] /\ IsFiniteSet(S) /\ S \subseteq Cells(ix)
  <2>1. S \subseteq Cells(ix)
    BY DEF WithData
  <2> HIDE DEF ix
  <2> QED
    BY <2>1, CellsFinite, FS_Subset
<1>2. r.lo = Lowermost(S) /\ r.hi = Uppermost(S)
  BY DEF Refined
<1>3. ASSUME NEW d \in 1 .. Dims
      PROVE  /\ e.lo[d] = (Lowermost(S)[d] - 1) % IndexMod /\ e.hi[d] = (Uppermost(S)[d] + 1) % IndexMod
             /\ g.lo[d] = IF Lowermost(S)[d] = 0 THEN 0 ELSE Lowermost(S)[d] - 1
             /\ g.hi[d] = IF Uppermost(S)[d] = LastBin THEN LastBin ELSE (Uppermost(S)[d] + 1) % IndexMod
  <2> HIDE DEF r
  <2> QED
    BY <1>2 DEF EdgeBox2D, EdgeBox3D, NoneMatches
<1>4. ASSUME NEW d \in 1 .. Dims PROVE ix.lo[d] \in Int /\ ix.lo[d] >= 1
  <2>1. ix.lo[d] = LowBin(b.lo[d]) /\ b.lo[d] \in Int
    BY BoxesAssumption DEF SafeIndices, SafeLow
  <2>2. LowBin(b.lo[d]) # 0
    BY DEF NoneMatches, LowMatches
  <2>3. LowBin(b.lo[d]) \in 0 .. BinCount
    <3>1. BinIndex(b.lo[d]) \in 0 .. BinCount
      BY <2>1, BinIndexFound
    <3>2. 0 \in 0 .. BinCount
      BY TableAssumption
    <3> QED
      BY <3>1, <3>2 DEF LowBin
  <2> HIDE DEF ix
  <2> QED
    BY <2>1, <2>2, <2>3, TableAssumption
<1> HIDE DEF ix, f, r, g, e
<1>5. ASSUME NEW c \in Cells(g), NEW d \in 1 .. Dims PROVE e.lo[d] <= c[d] /\ c[d] <= e.hi[d]
  <2> DEFINE low == Lowermost(S)[d]
             up == Uppermost(S)[d]
  <2>1. c \in [1 .. Dims -> Bins] /\ g.lo[d] <= c[d] /\ c[d] <= g.hi[d]
    BY DEF Cells
  <2>2. c[d] \in 0 .. LastBin
    BY <2>1 DEF Bins, LastBin
  <2>3. low \in 0 .. LastBin /\ up \in 0 .. LastBin
    BY <1>1, Corners DEF Bins, LastBin
  <2>4. LastBin \in Nat /\ IndexMod \in Nat /\ LastBin + 1 < IndexMod
    BY TableAssumption, IndexAssumption DEF LastBin
  <2>5. low >= 1
    <3>1. PICK a \in S : a[d] = low
      BY <1>1, Corners
    <3>2. ix.lo[d] <= a[d]
      BY <1>1 DEF Cells
    <3> QED
      BY <1>4, <2>3, <3>1, <3>2
  <2>6. (low - 1) % IndexMod = low - 1 /\ (up + 1) % IndexMod = up + 1
    BY <2>3, <2>4, <2>5, SmallModulo
  <2>7. /\ e.lo[d] = (low - 1) % IndexMod /\ e.hi[d] = (up + 1) % IndexMod
        /\ g.lo[d] = IF low = 0 THEN 0 ELSE low - 1
        /\ g.hi[d] = IF up = LastBin THEN LastBin ELSE (up + 1) % IndexMod
    BY <1>3
  <2> HIDE DEF low, up
  <2> QED
    BY <2>1, <2>2, <2>3, <2>4, <2>5, <2>6, <2>7
<1>6. \A c \in Cells(g) : c \in [1 .. Dims -> Bins]
  BY DEF Cells
<1>7. Cells(g) \subseteq Cells(e)
  BY <1>5, <1>6 DEF Cells
<1> QED
  BY <1>7 DEF e, g, r, f, ix

\* The box the batch grows holds the one it grows from.
LEMMA GrownHolds ==
  ASSUME NEW b, NEW S \in SUBSET [1 .. Dims -> Bins], IsFiniteSet(S), S # {},
         NEW f, f = [lo |-> Lowermost(S), hi |-> Uppermost(S)]
  PROVE  Cells(f) \subseteq Cells(EdgeBox3D(b, f))
<1> DEFINE g == EdgeBox3D(b, f)
<1>1. ASSUME NEW d \in 1 .. Dims
      PROVE  /\ g.lo[d] = IF Lowermost(S)[d] = 0 THEN 0 ELSE Lowermost(S)[d] - 1
             /\ g.hi[d] = IF Uppermost(S)[d] = LastBin THEN LastBin ELSE (Uppermost(S)[d] + 1) % IndexMod
  BY DEF EdgeBox3D
<1> HIDE DEF g
<1>2. ASSUME NEW c \in Cells(f), NEW d \in 1 .. Dims PROVE g.lo[d] <= c[d] /\ c[d] <= g.hi[d]
  <2> DEFINE low == Lowermost(S)[d]
             up == Uppermost(S)[d]
  <2>1. c \in [1 .. Dims -> Bins] /\ low <= c[d] /\ c[d] <= up
    BY DEF Cells
  <2>2. c[d] \in 0 .. LastBin
    BY <2>1 DEF Bins, LastBin
  <2>3. low \in 0 .. LastBin /\ up \in 0 .. LastBin
    BY Corners DEF Bins, LastBin
  <2>4. LastBin \in Nat /\ IndexMod \in Nat /\ LastBin + 1 < IndexMod
    BY TableAssumption, IndexAssumption DEF LastBin
  <2>5. up # LastBin => (up + 1) % IndexMod = up + 1
    BY <2>3, <2>4, SmallModulo
  <2>6. /\ g.lo[d] = IF low = 0 THEN 0 ELSE low - 1
        /\ g.hi[d] = IF up = LastBin THEN LastBin ELSE (up + 1) % IndexMod
    BY <1>1
  <2> HIDE DEF low, up
  <2> QED
    BY <2>1, <2>2, <2>3, <2>4, <2>5, <2>6
<1>3. Cells(f) \subseteq Cells(g)
  BY <1>2 DEF Cells
<1> QED
  BY <1>3 DEF g

\* A cell with data lies within the corners.
LEMMA DataWithin ==
  ASSUME NEW b \in Boxes, NEW t, NEW S, S = WithData(t, SafeIndices(b)), S # {},
         NEW c \in S
  PROVE  c \in Cells([lo |-> Lowermost(S), hi |-> Uppermost(S)])
<1>1. S \in SUBSET [1 .. Dims -> Bins] /\ IsFiniteSet(S)
  <2>1. S \subseteq Cells(SafeIndices(b))
    BY DEF WithData
  <2> QED
    BY <2>1, CellsFinite, FS_Subset
<1>2. \A d \in 1 .. Dims : Lowermost(S)[d] <= c[d] /\ c[d] <= Uppermost(S)[d]
  BY <1>1, Corners
<1>3. c \in [1 .. Dims -> Bins]
  BY <1>1
<1> QED
  BY <1>2, <1>3 DEF Cells

\* The histogram holds numbers.
LEMMA TrieNumbers ==
  ASSUME NEW n \in Int, NEW pts, DOMAIN pts = 1 .. n, NEW c \in [1 .. Dims -> Bins]
  PROVE  Trie(pts)[c] \in Nat
<1> DEFINE K == {k \in DOMAIN pts : \A d \in 1 .. Dims : Holds(c[d], pts[k][d])}
<1>1. IsFiniteSet(DOMAIN pts) /\ K \in SUBSET DOMAIN pts
  BY FS_Interval
<1>2. Trie(pts)[c] = Cardinality(K)
  BY DEF Trie
<1> HIDE DEF K
<1>3. IsFiniteSet(K)
  BY <1>1, FS_Subset
<1> QED
  BY <1>2, <1>3, FS_CardinalityType

\* Without data there is nothing to count.
LEMMA NoDataNoCount ==
  ASSUME NEW t, \A c \in [1 .. Dims -> Bins] : t[c] \in Nat, NEW ix, WithData(t, ix) = {}
  PROVE  SumFunctionOnSet(t, Cells(ix)) = 0
<1> DEFINE C == Cells(ix)
           none == {}
<1>1. IsFiniteSet(C) /\ \A c \in C : t[c] \in Int /\ t[c] = 0
  <2>1. \A c \in C : t[c] \in Nat
    BY CellsFinite
  <2>2. \A c \in C : ~ (t[c] > 0)
    BY DEF WithData
  <2>3. IsFiniteSet(C)
    BY CellsFinite
  <2> HIDE DEF C
  <2> QED
    BY <2>1, <2>2, <2>3
<1>2. none \in SUBSET C /\ \A c \in C \ none : t[c] = 0
  BY <1>1
<1> HIDE DEF C, none
<1>3. SumFunctionOnSet(t, C) = SumFunctionOnSet(t, none)
  BY <1>1, <1>2, SumSupport
<1> QED
  BY <1>3, SumEmpty DEF C, none

\* The counts of the batch cover those of getCounts.
LEMMA EdgesCover ==
  ASSUME NEW b \in Boxes, NEW t, \A c \in [1 .. Dims -> Bins] : t[c] \in Nat,
         NEW S, S = WithData(t, SafeIndices(b)), S # {},
         NEW f, f = [lo |-> Lowermost(S), hi |-> Uppermost(S)],
         NEW edge, edge = Cells(EdgeBox3D(b, f)) \ Cells(f)
  PROVE  /\ edge \subseteq [1 .. Dims -> Bins] /\ IsFiniteSet(edge)
         /\ SumFunctionOnSet(t, Cells(SafeIndices(b))) \in Nat
         /\ SumFunctionOnSet(t, edge) \in Nat
         /\ SumFunctionOnSet(t, Cells(EdgeBox2D(b, Refined(t, SafeIndices(b)))))
              <= SumFunctionOnSet(t, Cells(SafeIndices(b))) + SumFunctionOnSet(t, edge)
         /\ NoneMatches(b) /\ FirstOf(S) = Lowermost(S) =>
              SumFunctionOnSet(t, Cells(EdgeBox2D(b, Refined(t, SafeIndices(b)))))
                = SumFunctionOnSet(t, Cells(SafeIndices(b))) + SumFunctionOnSet(t, edge)
         /\ SumFunctionOnSet(t, Cells(SafeIndices(b))) > 0
<1> DEFINE C == Cells(SafeIndices(b))
           U == Cells(EdgeBox2D(b, Refined(t, SafeIndices(b))))
           G == Cells(EdgeBox3D(b, f))
<1>1. U \subseteq G
  BY GrownCovers
<1>2. Cells(f) \subseteq C
  BY FoundInside
<1>3. IsFiniteSet(C) /\ C \subseteq [1 .. Dims -> Bins]
  BY CellsFinite
<1>4. IsFiniteSet(G) /\ G \subseteq [1 .. Dims -> Bins]
  BY CellsFinite
<1> HIDE DEF C, U, G
<1>5. edge = G \ Cells(f)
  BY DEF G
<1>6. IsFiniteSet(edge) /\ edge \subseteq [1 .. Dims -> Bins]
  BY <1>4, <1>5, FS_Subset
<1>7. U \in SUBSET (C \cup edge)
  BY <1>1, <1>2, <1>5
<1>8. \A x \in C \cup edge : t[x] \in Nat
  BY <1>3, <1>6
<1>9. SumFunctionOnSet(t, U) <= SumFunctionOnSet(t, C) + SumFunctionOnSet(t, edge)
  BY <1>3, <1>6, <1>7, <1>8, SumCovered
<1>10. SumFunctionOnSet(t, C) \in Nat
  <2>1. C \in SUBSET C /\ \A x \in C : t[x] \in Nat
    BY <1>8
  <2> QED
    BY <1>3, <2>1, SumBounds
<1>11. SumFunctionOnSet(t, edge) \in Nat
  <2>1. edge \in SUBSET edge /\ \A x \in edge : t[x] \in Nat
    BY <1>8
  <2> QED
    BY <1>6, <2>1, SumBounds
<1>12. S \in SUBSET C /\ (\A c \in S : t[c] > 0) /\ (\A c \in C : t[c] > 0 => c \in S)
  BY DEF WithData, C
<1>13. SumFunctionOnSet(t, C) > 0
  <2>1. PICK c \in S : TRUE
    OBVIOUS
  <2>2. t[c] <= SumFunctionOnSet(t, C) /\ t[c] \in Nat
    <3>1. C \in SUBSET C /\ (\A x \in C : t[x] \in Nat) /\ c \in C
      BY <1>8, <1>12
    <3> QED
      BY <1>3, <3>1, SumBounds
  <2> QED
    BY <1>10, <1>12, <2>2
<1>14. ASSUME NoneMatches(b), FirstOf(S) = Lowermost(S)
       PROVE  SumFunctionOnSet(t, U) = SumFunctionOnSet(t, C) + SumFunctionOnSet(t, edge)
  <2> DEFINE F == Cells(f)
  <2>1. U = G
    <3>1. G \subseteq U
      BY <1>14, GrownSame DEF G, U
    <3> QED
      BY <1>1, <3>1
  <2>2. F \subseteq G
    <3>1. S \in SUBSET [1 .. Dims -> Bins] /\ IsFiniteSet(S)
      BY <1>3, <1>12, FS_Subset
    <3> QED
      BY <3>1, GrownHolds DEF G
  <2>3. \A c \in S : c \in F
    BY DataWithin
  <2> HIDE DEF F
  <2>4. SumFunctionOnSet(t, C) = SumFunctionOnSet(t, F)
    <3>1. \A x \in C \ F : t[x] = 0
      BY <1>8, <1>12, <2>3
    <3>2. F \in SUBSET C /\ \A x \in C : t[x] \in Int
      BY <1>2, <1>8 DEF F
    <3> QED
      BY <1>3, <3>1, <3>2, SumSupport
  <2>5. IsFiniteSet(F) /\ F \cap edge = {} /\ F \cup edge = G /\ \A x \in F \cup edge : t[x] \in Int
    <3>1. IsFiniteSet(F)
      BY <1>4, <2>2, FS_Subset
    <3>2. F \cap edge = {} /\ F \cup edge = G
      BY <1>5, <2>2 DEF F
    <3>3. \A x \in G : t[x] \in Int
      BY <1>4
    <3> QED
      BY <3>1, <3>2, <3>3
  <2>6. SumFunctionOnSet(t, G) = SumFunctionOnSet(t, F) + SumFunctionOnSet(t, edge)
    <3>1. SumFunctionOnSet(t, F \cup edge) = SumFunctionOnSet(t, F) + SumFunctionOnSet(t, edge)
      BY <1>6, <2>5, SumDisjoint
    <3> QED
      BY <2>5, <3>1
  <2> QED
    BY <2>1, <2>4, <2>6
<1> QED
  BY <1>6, <1>9, <1>10, <1>11, <1>13, <1>14 DEF C, U

-----------------------------------------------------------------------------
(* The batch.                                                               *)

CONSTANT MaxQueries

VARIABLES queries, cache, found, results

Batch == INSTANCE BoxBatch

\* The arithmetic of the batch is that of the single query.
LEMMA SameIndices ==
  /\ \A b : Batch!SafeIndices(b) = SafeIndices(b)
  /\ \A ix : Batch!Cells(ix) = Cells(ix)
  /\ \A ix : Batch!PastTable(ix) <=> PastTable(ix)
  /\ \A b : Batch!Perfect(b) <=> Perfect(b)
  /\ \A b, ix : Batch!EdgeBox2D(b, ix) = EdgeBox2D(b, ix)
  /\ \A b, ix : Batch!EdgeBox3D(b, ix) = EdgeBox3D(b, ix)
  /\ \A cells : Batch!Lowermost(cells) = Lowermost(cells) /\ Batch!Uppermost(cells) = Uppermost(cells)
  /\ \A t, ix : Batch!Refined(t, ix) = Refined(t, ix)
  /\ \A t, ix : Batch!WithData(t, ix) = WithData(t, ix)
  /\ \A cells : Batch!FirstOf(cells) = FirstOf(cells)
  /\ \A b : Batch!NoSideMatches(b) <=> NoneMatches(b)
<1> USE DEF Batch!Bins, Bins, Batch!LastBin, LastBin, Batch!BinIndex, BinIndex, Batch!FPNumber, FPNumber,
            Batch!LowBin, LowBin, Batch!HighBin, HighBin
<1>1. \A b : Batch!SafeIndices(b) = SafeIndices(b)
  BY DEF Batch!SafeIndices, SafeIndices, Batch!SafeLow, SafeLow, Batch!SafeHigh, SafeHigh
<1>2. \A ix : Batch!Cells(ix) = Cells(ix)
  BY DEF Batch!Cells, Cells
<1>3. \A ix : Batch!PastTable(ix) <=> PastTable(ix)
  BY DEF Batch!PastTable, PastTable
<1>4. \A b : Batch!Perfect(b) <=> Perfect(b)
  BY DEF Batch!Perfect, Perfect, Batch!LowMatches, LowMatches, Batch!HighMatches, HighMatches
<1>5. \A b, ix : Batch!EdgeBox2D(b, ix) = EdgeBox2D(b, ix)
  BY DEF Batch!EdgeBox2D, EdgeBox2D, Batch!LowMatches, LowMatches, Batch!HighMatches, HighMatches
<1>6. \A b, ix : Batch!EdgeBox3D(b, ix) = EdgeBox3D(b, ix)
  BY DEF Batch!EdgeBox3D, EdgeBox3D
<1>7. \A cells : Batch!Lowermost(cells) = Lowermost(cells) /\ Batch!Uppermost(cells) = Uppermost(cells)
  BY DEF Batch!Lowermost, Lowermost, Batch!Uppermost, Uppermost, Batch!Min, Min, Batch!Max, Max
<1>8. \A t, ix : Batch!WithData(t, ix) = WithData(t, ix)
  BY <1>2 DEF Batch!WithData, WithData
<1>9. \A cells : Batch!FirstOf(cells) = FirstOf(cells)
  BY DEF Batch!FirstOf, FirstOf, Batch!Precedes, Precedes
<1>10. \A t, ix : Batch!Refined(t, ix) = Refined(t, ix)
  BY <1>7, <1>8, <1>9 DEF Batch!Refined, Refined
<1>11. \A b : Batch!NoSideMatches(b) <=> NoneMatches(b)
  BY DEF Batch!NoSideMatches, NoneMatches, Batch!LowMatches, LowMatches, Batch!HighMatches, HighMatches
<1> QED
  BY <1>1, <1>2, <1>3, <1>4, <1>5, <1>6, <1>7, <1>8, <1>9, <1>10, <1>11

\* So are its points, cells and counts.
LEMMA SameCounts ==
  /\ \A S : Batch!Cardinality(S) = Cardinality(S)
  /\ \A pts : Batch!Trie(pts) = Trie(pts)
  /\ \A p, b : Batch!LabelInBox(p, b) <=> LabelInBox(p, b)
  /\ \A t, ix : Batch!CountIn(t, ix) = SumFunctionOnSet(t, Cells(ix))
  /\ \A s, cells : Batch!CountFrom(s, cells) = SumFunctionOnSet(s, cells)
<1>0. \A S : Batch!Cardinality(S) = Cardinality(S)
  BY DEF Batch!Cardinality, Cardinality
<1>1. \A pts : Batch!Trie(pts) = Trie(pts)
  <2>1. \A i, v : Batch!Holds(i, v) <=> Holds(i, v)
    BY DEF Batch!Holds, Holds, Batch!Bins, Bins
  <2>2. Batch!Bins = Bins
    BY DEF Batch!Bins, Bins
  <2> QED
    BY <1>0, <2>1, <2>2 DEF Batch!Trie, Trie
<1>2. \A p, b : Batch!LabelInBox(p, b) <=> LabelInBox(p, b)
  BY DEF Batch!LabelInBox, LabelInBox, Batch!Holds, Holds, Batch!Bins, Bins
<1>3. \A t, ix : Batch!CountIn(t, ix) = SumFunctionOnSet(t, Cells(ix))
  <2> TAKE t, ix
  <2>1. Batch!CountIn(t, ix) = SumFunctionOnSet(t, Batch!Cells(ix))
    BY DEF Batch!CountIn, Batch!MapThenSumSet, Batch!MapThenFoldSet, SumFunctionOnSet, FoldFunctionOnSet, MapThenFoldSet
  <2> QED
    BY <2>1, SameIndices
<1>4. \A s, cells : Batch!CountFrom(s, cells) = SumFunctionOnSet(s, cells)
  BY DEF Batch!CountFrom, Batch!Key, Batch!MapThenSumSet, Batch!MapThenFoldSet, SumFunctionOnSet, FoldFunctionOnSet, MapThenFoldSet
<1> QED
  BY <1>0, <1>1, <1>2, <1>3, <1>4

\* What getCounts returns as the total for a box b.
SingleTotalOf(t, b) ==
  IF Perfect(b) THEN SumFunctionOnSet(t, Cells(SafeIndices(b)))
  ELSE SumFunctionOnSet(t, Cells(EdgeBox2D(b, Refined(t, SafeIndices(b)))))

\* No side of b matches, and the first cell with data is the lower corner of them all.
GrowsAlike(t, b) == LET data == WithData(t, SafeIndices(b)) IN NoneMatches(b) /\ FirstOf(data) = Lowermost(data)

\* The answer r to a box b: as many points as have labels in it, what getCounts counts in
\* the safe bins, and if there are any no less than getCounts counts in all, or the same
\* where both grow alike.
Answered(pts, t, r, b) ==
  /\ r.safe = Cardinality({j \in DOMAIN pts : LabelInBox(pts[j], b)})
  /\ r.safe = SumFunctionOnSet(t, Cells(SafeIndices(b)))
  /\ r.safe = 0 => r.total = 0
  /\ r.safe > 0 => /\ SingleTotalOf(t, b) <= r.total /\ r.safe <= r.total
                   /\ GrowsAlike(t, b) => r.total = SingleTotalOf(t, b)

\* The box that the batch grows: around the cells with data.
Around(S) == IF S = {} THEN Batch!Empty ELSE [lo |-> Lowermost(S), hi |-> Uppermost(S)]

\* Between the steps of a batch: what is kept is what the histogram says, what has been
\* answered is answered well, and in the middle of a query the safe cells are counted.
BatchInv ==
  /\ \E n \in Int : DOMAIN points = 1 .. n
  /\ trie = Trie(points)
  /\ queries \in Seq(Boxes)
  /\ DOMAIN cache \subseteq [1 .. Dims -> Bins] /\ \A c \in DOMAIN cache : cache[c] = trie[c]
  /\ results \in Seq([safe : Nat, total : Nat]) /\ Len(results) <= Len(queries)
  /\ \A k \in 1 .. Len(results) : Answered(points, trie, results[k], queries[k])
  /\ pc \in {"safe", "total", "overrun"}
  /\ pc = "total" =>
       /\ Len(results) < Len(queries)
       /\ ~ PastTable(SafeIndices(Batch!Query))
       /\ safeCount = SumFunctionOnSet(trie, Cells(SafeIndices(Batch!Query)))
       /\ found = Around(WithData(trie, SafeIndices(Batch!Query)))

\* It holds when a batch starts.
LEMMA InitBatch == Batch!Init => BatchInv
<1> SUFFICES ASSUME Batch!Init PROVE BatchInv
  OBVIOUS
<1>1. \E n \in Int : DOMAIN points = 1 .. n
  <2>1. PICK m \in 0 .. MaxPoints : points \in [1 .. m -> Points]
    BY DEF Batch!Init
  <2> QED
    BY <2>1
<1>2. queries \in Seq(Boxes)
  <2>1. PICK m \in 1 .. MaxQueries : queries \in [1 .. m -> Boxes]
    BY DEF Batch!Init
  <2> QED
    BY <2>1
<1>3. trie = Trie(points) /\ pc = "safe" /\ cache = <<>> /\ results = <<>>
  BY SameCounts DEF Batch!Init
<1>4. DOMAIN cache = {} /\ results \in Seq([safe : Nat, total : Nat]) /\ Len(results) = 0
  BY <1>3
<1> QED
  BY <1>1, <1>2, <1>3, <1>4 DEF BatchInv

\* What the batch keeps stays what the histogram says when more cells are looked up.
LEMMA CacheGrows ==
  ASSUME DOMAIN cache \subseteq [1 .. Dims -> Bins], \A c \in DOMAIN cache : cache[c] = trie[c],
         NEW cells, cells \subseteq [1 .. Dims -> Bins], IsFiniteSet(cells),
         NEW after, after = Batch!Cached(cells)
  PROVE  /\ DOMAIN after \subseteq [1 .. Dims -> Bins] /\ \A c \in DOMAIN after : after[c] = trie[c]
         /\ cells \subseteq DOMAIN after
         /\ Batch!CountFrom(after, cells) = SumFunctionOnSet(trie, cells)
<1>1. after = [k \in DOMAIN cache \cup cells |-> IF k \in DOMAIN cache THEN cache[k] ELSE trie[CHOOSE c \in cells : c = k]]
  <2>1. {Batch!Key(c) : c \in cells} = cells
    BY DEF Batch!Key
  <2> QED
    BY <2>1 DEF Batch!Cached, Batch!Key
<1>2. \A k \in cells : (CHOOSE c \in cells : c = k) = k
  OBVIOUS
<1>3. DOMAIN after = DOMAIN cache \cup cells
  BY <1>1
<1>4. \A k \in DOMAIN after : after[k] = trie[k]
  BY <1>1, <1>2, <1>3
<1>5. \A c \in cells : after[c] = trie[c]
  BY <1>3, <1>4
<1>6. SumFunctionOnSet(after, cells) = SumFunctionOnSet(trie, cells)
  BY <1>5, SumSame
<1> QED
  BY <1>3, <1>4, <1>6, SameCounts

\* That is what the batch compares itself with.
LEMMA SingleIs ==
  ASSUME NEW b
  PROVE  /\ Batch!SingleSafe(b) = SumFunctionOnSet(trie, Cells(SafeIndices(b)))
         /\ Batch!SingleTotal(b) = SingleTotalOf(trie, b)
         /\ Batch!NoSideMatches(b) /\ Batch!CornerFirst(b) => GrowsAlike(trie, b)
<1>1. Batch!SingleSafe(b) = SumFunctionOnSet(trie, Cells(SafeIndices(b)))
  BY SameIndices, SameCounts DEF Batch!SingleSafe
<1>2. Batch!SingleEdge(b) = EdgeBox2D(b, Refined(trie, SafeIndices(b)))
  BY SameIndices DEF Batch!SingleEdge
<1>3. Batch!SingleTotal(b) = SingleTotalOf(trie, b)
  BY <1>1, <1>2, SameIndices, SameCounts DEF Batch!SingleTotal, SingleTotalOf
<1>4. Batch!CornerFirst(b) => LET data == WithData(trie, SafeIndices(b)) IN FirstOf(data) = Lowermost(data)
  BY SameIndices DEF Batch!CornerFirst
<1> QED
  BY <1>1, <1>3, <1>4, SameIndices DEF GrowsAlike

\* An answer more.
LEMMA AnswerMore ==
  ASSUME BatchInv, Len(results) < Len(queries),
         NEW r \in [safe : Nat, total : Nat], Answered(points, trie, r, Batch!Query),
         results' = Append(results, r), UNCHANGED <<points, trie, queries>>,
         DOMAIN cache' \subseteq [1 .. Dims -> Bins], \A c \in DOMAIN cache' : cache'[c] = trie[c],
         pc' = "safe"
  PROVE  BatchInv'
<1> USE DEF BatchInv
<1>1. results' \in Seq([safe : Nat, total : Nat]) /\ Len(results') = Len(results) + 1 /\ Len(results') <= Len(queries)
  OBVIOUS
<1>2. ASSUME NEW k \in 1 .. Len(results') PROVE Answered(points, trie, results'[k], queries[k])
  <2>1. CASE k = Len(results) + 1
    <3>1. results'[k] = r /\ queries[k] = Batch!Query
      BY <2>1 DEF Batch!Query
    <3> QED
      BY <3>1
  <2>2. CASE k # Len(results) + 1
    <3>1. k \in 1 .. Len(results) /\ results'[k] = results[k]
      BY <1>1, <2>2
    <3> QED
      BY <3>1
  <2> QED
    BY <2>1, <2>2
<1>3. \A k \in 1 .. Len(results') : Answered(points', trie', results'[k], queries'[k])
  BY <1>2
<1> QED
  BY <1>1, <1>3

\* The loops over the safe box of the next query.
LEMMA StepBatchSafe ==
  ASSUME BatchInv, Batch!CountSafe
  PROVE  BatchInv'
<1> DEFINE ix == SafeIndices(Batch!Query)
           C == Cells(ix)
<1>1. /\ pc = "safe" /\ Len(results) < Len(queries) /\ ~ PastTable(ix)
      /\ cache' = Batch!Cached(C)
      /\ safeCount' = Batch!CountFrom(cache', C)
      /\ found' = LET some == {c \in C : cache'[Batch!Key(c)] > 0}
                  IN  IF some = {} THEN Batch!Empty
                      ELSE [lo |-> Batch!Lowermost(some), hi |-> Batch!Uppermost(some)]
      /\ pc' = "total"
      /\ UNCHANGED <<points, trie, queries, results>>
  BY SameIndices DEF Batch!CountSafe
<1>2. C \subseteq [1 .. Dims -> Bins] /\ IsFiniteSet(C)
  BY CellsFinite
<1> HIDE DEF C
<1>3. /\ DOMAIN cache' \subseteq [1 .. Dims -> Bins] /\ \A c \in DOMAIN cache' : cache'[c] = trie[c]
      /\ C \subseteq DOMAIN cache'
      /\ Batch!CountFrom(cache', C) = SumFunctionOnSet(trie, C)
  BY <1>1, <1>2, CacheGrows DEF BatchInv
<1>4. {c \in C : cache'[Batch!Key(c)] > 0} = WithData(trie, ix)
  BY <1>3 DEF Batch!Key, WithData, C
<1>5. found' = Around(WithData(trie, ix))
  BY <1>1, <1>4, SameIndices DEF Around
<1>6. Batch!Query' = Batch!Query
  BY <1>1 DEF Batch!Query
<1>7. safeCount' = SumFunctionOnSet(trie', Cells(SafeIndices(Batch!Query')))
  BY <1>1, <1>3, <1>6 DEF C
<1>8. found' = Around(WithData(trie', SafeIndices(Batch!Query'))) /\ ~ PastTable(SafeIndices(Batch!Query'))
  BY <1>1, <1>5, <1>6
<1> HIDE DEF ix
<1>9. \A k \in 1 .. Len(results') : Answered(points', trie', results'[k], queries'[k])
  BY <1>1 DEF BatchInv
<1> QED
  BY <1>1, <1>3, <1>7, <1>8, <1>9 DEF BatchInv

\* The query that is under way is one of the boxes, and its safe count is that of labels.
LEMMA UnderWay ==
  ASSUME BatchInv, pc = "total"
  PROVE  /\ Batch!Query \in Boxes
         /\ safeCount = Cardinality({j \in DOMAIN points : LabelInBox(points[j], Batch!Query)})
         /\ \A c \in [1 .. Dims -> Bins] : trie[c] \in Nat
<1> DEFINE b == Batch!Query
<1>1. b \in Boxes
  <2>1. queries \in Seq(Boxes) /\ results \in Seq([safe : Nat, total : Nat]) /\ Len(results) < Len(queries)
    BY DEF BatchInv
  <2>2. Len(results) + 1 \in 1 .. Len(queries)
    BY <2>1
  <2> QED
    BY <2>1, <2>2 DEF Batch!Query
<1>2. ~ PastTable(SafeIndices(b)) /\ safeCount = SumFunctionOnSet(trie, Cells(SafeIndices(b))) /\ trie = Trie(points)
  BY DEF BatchInv
<1>3. PICK n \in Int : DOMAIN points = 1 .. n
  BY DEF BatchInv
<1> HIDE DEF b
<1>4. CountIn(Trie(points), SafeIndices(b)) = Cardinality({k \in DOMAIN points : LabelInBox(points[k], b)})
  BY <1>1, <1>2, <1>3, SafeBoxCounts
<1>5. safeCount = Cardinality({k \in DOMAIN points : LabelInBox(points[k], b)})
  BY <1>2, <1>4, CountIsSum
<1>6. \A c \in [1 .. Dims -> Bins] : trie[c] \in Nat
  BY <1>2, <1>3, TrieNumbers
<1> QED
  BY <1>1, <1>5, <1>6 DEF b

\* A query that found no data.
LEMMA StepBatchEmpty ==
  ASSUME BatchInv, Batch!AnswerEmpty
  PROVE  BatchInv'
<1> DEFINE b == Batch!Query
           S == WithData(trie, SafeIndices(b))
           r == [safe |-> 0, total |-> 0]
<1>1. /\ pc = "total" /\ found = Batch!Empty /\ results' = Append(results, r)
      /\ pc' = "safe" /\ UNCHANGED <<points, trie, queries, cache>>
  BY DEF Batch!AnswerEmpty
<1>2. /\ Len(results) < Len(queries) /\ safeCount = SumFunctionOnSet(trie, Cells(SafeIndices(b)))
      /\ found = Around(S)
  BY <1>1 DEF BatchInv
<1>3. /\ b \in Boxes /\ safeCount = Cardinality({j \in DOMAIN points : LabelInBox(points[j], b)})
      /\ \A c \in [1 .. Dims -> Bins] : trie[c] \in Nat
  BY <1>1, UnderWay
<1> HIDE DEF b
<1>4. S \subseteq Cells(SafeIndices(b))
  BY DEF WithData
<1>5. S \in SUBSET [1 .. Dims -> Bins] /\ IsFiniteSet(S)
  BY <1>4, CellsFinite, FS_Subset
<1>6. S = {}
  <2> SUFFICES ASSUME S # {} PROVE FALSE
    OBVIOUS
  <2> HIDE DEF S
  <2>1. 1 \in 1 .. Dims
    BY IndexAssumption
  <2>2. found.lo = Lowermost(S) /\ found.hi = Uppermost(S)
    BY <1>2 DEF Around
  <2>3. found.lo[1] = 1 /\ found.hi[1] = 0
    BY <1>1, <2>1 DEF Batch!Empty
  <2>4. PICK c \in S : TRUE
    OBVIOUS
  <2>5. Lowermost(S)[1] <= c[1] /\ c[1] <= Uppermost(S)[1] /\ c[1] \in Int
    <3>1. c \in [1 .. Dims -> Bins]
      BY <1>5
    <3>2. c[1] \in Int
      BY <2>1, <3>1 DEF Bins
    <3>3. \A e \in S : Lowermost(S)[1] <= e[1] /\ e[1] <= Uppermost(S)[1]
      BY <1>5, <2>1, Corners
    <3> QED
      BY <2>4, <3>2, <3>3
  <2>6. 1 <= c[1] /\ c[1] <= 0
    BY <2>2, <2>3, <2>5
  <2> QED
    BY <2>5, <2>6
<1>7. safeCount = 0
  BY <1>2, <1>3, <1>6, NoDataNoCount
<1>8. r \in [safe : Nat, total : Nat] /\ Answered(points, trie, r, b)
  BY <1>2, <1>3, <1>7 DEF Answered
<1>9. DOMAIN cache' \subseteq [1 .. Dims -> Bins] /\ \A c \in DOMAIN cache' : cache'[c] = trie[c]
  BY <1>1 DEF BatchInv
<1> HIDE DEF S, r
<1> QED
  BY <1>1, <1>2, <1>8, <1>9, AnswerMore DEF b

\* A query with data: the safe count and the edges.
LEMMA StepBatchEdges ==
  ASSUME BatchInv, Batch!CountEdges
  PROVE  BatchInv'
<1> DEFINE b == Batch!Query
           S == WithData(trie, SafeIndices(b))
           edge == Cells(EdgeBox3D(b, found)) \ Cells(found)
           r == [safe |-> safeCount, total |-> safeCount + Batch!CountFrom(cache', edge)]
<1>1. /\ pc = "total" /\ found # Batch!Empty /\ results' = Append(results, r)
      /\ cache' = Batch!Cached(edge)
      /\ pc' = "safe" /\ UNCHANGED <<points, trie, queries>>
  BY SameIndices DEF Batch!CountEdges, Batch!EdgeCells
<1>2. /\ Len(results) < Len(queries) /\ safeCount = SumFunctionOnSet(trie, Cells(SafeIndices(b)))
      /\ found = Around(S)
      /\ DOMAIN cache \subseteq [1 .. Dims -> Bins] /\ \A c \in DOMAIN cache : cache[c] = trie[c]
  BY <1>1 DEF BatchInv
<1>3. /\ b \in Boxes /\ safeCount = Cardinality({j \in DOMAIN points : LabelInBox(points[j], b)})
      /\ \A c \in [1 .. Dims -> Bins] : trie[c] \in Nat
  BY <1>1, UnderWay
<1> HIDE DEF b
<1>4. S = WithData(trie, SafeIndices(b)) /\ edge = Cells(EdgeBox3D(b, found)) \ Cells(found)
  OBVIOUS
<1>5. r.safe = safeCount /\ r.total = safeCount + Batch!CountFrom(cache', edge)
      /\ r = [safe |-> safeCount, total |-> safeCount + Batch!CountFrom(cache', edge)]
  OBVIOUS
<1> HIDE DEF S, edge, r
<1>6. S # {} /\ found = [lo |-> Lowermost(S), hi |-> Uppermost(S)]
  BY <1>1, <1>2 DEF Around
<1>7. /\ edge \subseteq [1 .. Dims -> Bins] /\ IsFiniteSet(edge)
      /\ SumFunctionOnSet(trie, Cells(SafeIndices(b))) \in Nat
      /\ SumFunctionOnSet(trie, edge) \in Nat
      /\ SumFunctionOnSet(trie, Cells(EdgeBox2D(b, Refined(trie, SafeIndices(b)))))
           <= SumFunctionOnSet(trie, Cells(SafeIndices(b))) + SumFunctionOnSet(trie, edge)
      /\ NoneMatches(b) /\ FirstOf(S) = Lowermost(S) =>
           SumFunctionOnSet(trie, Cells(EdgeBox2D(b, Refined(trie, SafeIndices(b)))))
             = SumFunctionOnSet(trie, Cells(SafeIndices(b))) + SumFunctionOnSet(trie, edge)
      /\ SumFunctionOnSet(trie, Cells(SafeIndices(b))) > 0
  <2>1. b \in Boxes /\ \A c \in [1 .. Dims -> Bins] : trie[c] \in Nat
    BY <1>3
  <2> QED
    BY <1>4, <1>6, <2>1, EdgesCover, SMTT(60)
<1>8. /\ DOMAIN cache' \subseteq [1 .. Dims -> Bins] /\ \A c \in DOMAIN cache' : cache'[c] = trie[c]
      /\ Batch!CountFrom(cache', edge) = SumFunctionOnSet(trie, edge)
  BY <1>1, <1>2, <1>7, CacheGrows
<1>9. r.total = safeCount + SumFunctionOnSet(trie, edge)
  BY <1>5, <1>8
<1>10. SingleTotalOf(trie, b) <= r.total /\ r.safe <= r.total
  <2>1. SingleTotalOf(trie, b) = SumFunctionOnSet(trie, Cells(SafeIndices(b)))
        \/ SingleTotalOf(trie, b) = SumFunctionOnSet(trie, Cells(EdgeBox2D(b, Refined(trie, SafeIndices(b)))))
    BY DEF SingleTotalOf
  <2> QED
    BY <1>2, <1>5, <1>7, <1>9, <2>1
<1>11. r \in [safe : Nat, total : Nat]
  BY <1>2, <1>5, <1>7, <1>8
<1>12. GrowsAlike(trie, b) => r.total = SingleTotalOf(trie, b)
  <2> SUFFICES ASSUME GrowsAlike(trie, b) PROVE r.total = SingleTotalOf(trie, b)
    OBVIOUS
  <2>1. NoneMatches(b) /\ FirstOf(S) = Lowermost(S)
    BY <1>4 DEF GrowsAlike
  <2>2. ~ Perfect(b)
    <3>1. 1 \in 1 .. Dims
      BY IndexAssumption
    <3> QED
      BY <2>1, <3>1 DEF NoneMatches, Perfect
  <2> QED
    BY <1>2, <1>7, <1>9, <2>1, <2>2 DEF SingleTotalOf
<1>13. r.safe > 0
  BY <1>2, <1>5, <1>7
<1>14. Answered(points, trie, r, b)
  BY <1>2, <1>3, <1>5, <1>10, <1>12, <1>13 DEF Answered
<1> QED
  BY <1>1, <1>2, <1>8, <1>11, <1>14, AnswerMore DEF b

\* Every step of a batch keeps it.
LEMMA StepBatch ==
  ASSUME BatchInv, [Batch!Next]_(Batch!vars)
  PROVE  BatchInv'
<1>1. CASE Batch!CountSafe
  BY <1>1, StepBatchSafe
<1>2. CASE Batch!AnswerEmpty
  BY <1>2, StepBatchEmpty
<1>3. CASE Batch!CountEdges
  BY <1>3, StepBatchEdges
<1>4. CASE Batch!ReadPastTable
  BY <1>4 DEF Batch!ReadPastTable, BatchInv
<1>5. CASE UNCHANGED Batch!vars
  <2>1. UNCHANGED <<points, trie, queries, pc, cache, found, safeCount, results>>
    BY <1>5 DEF Batch!vars
  <2>2. Batch!Query' = Batch!Query
    BY <2>1 DEF Batch!Query
  <2> QED
    BY <2>1, <2>2 DEF BatchInv
<1> QED
  BY <1>1, <1>2, <1>3, <1>4, <1>5 DEF Batch!Next

\* However many boxes a batch asks for over whatever points, each answer counts the points
\* whose labels lie in its box, as getCounts does, and where it has any its total is no
\* less than that count nor than the total getCounts would return, and is that total where
\* both grow the same box: the counts kept from earlier boxes, and growing the box of the
\* least bins in use, never change or lose any.
THEOREM BatchIsCorrect == Batch!Spec => []Batch!BatchCorrect
<1>1. Batch!Init => BatchInv
  BY InitBatch
<1>2. BatchInv /\ [Batch!Next]_(Batch!vars) => BatchInv'
  BY StepBatch
<1>3. BatchInv => Batch!BatchCorrect
  <2> SUFFICES ASSUME BatchInv PROVE Batch!BatchCorrect
    OBVIOUS
  <2>1. DOMAIN results = 1 .. Len(results) /\ \A k \in 1 .. Len(results) : Answered(points, trie, results[k], queries[k])
    BY DEF BatchInv
  <2>2. ASSUME NEW k \in DOMAIN results
        PROVE  results[k].safe = Batch!Cardinality({j \in DOMAIN points : Batch!LabelInBox(points[j], queries[k])})
    <3>1. {j \in DOMAIN points : Batch!LabelInBox(points[j], queries[k])} = {j \in DOMAIN points : LabelInBox(points[j], queries[k])}
      BY SameCounts
    <3> QED
      BY <2>1, <3>1, SameCounts DEF Answered
  <2>3. Batch!MatchesSingle
    <3> SUFFICES ASSUME NEW k \in DOMAIN results
                 PROVE  LET asked == queries[k]
                        IN  /\ results[k].safe = Batch!SingleSafe(asked)
                            /\ results[k].safe = 0 => results[k].total = 0
                            /\ results[k].safe > 0 =>
                                 /\ results[k].safe <= results[k].total
                                 /\ ~ Batch!PastTable(Batch!SingleEdge(asked)) =>
                                      IF Batch!NoSideMatches(asked) /\ Batch!CornerFirst(asked)
                                      THEN results[k].total = Batch!SingleTotal(asked)
                                      ELSE Batch!SingleTotal(asked) <= results[k].total
      BY DEF Batch!MatchesSingle
    <3>1. Answered(points, trie, results[k], queries[k])
      BY <2>1
    <3> QED
      BY <3>1, SingleIs DEF Answered
  <2> QED
    BY <2>2, <2>3 DEF Batch!BatchCorrect, Batch!SafeByLabel
<1> QED
  BY <1>1, <1>2, <1>3, PTL DEF Batch!Spec

=============================================================================
