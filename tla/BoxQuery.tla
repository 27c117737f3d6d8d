------------------------------ MODULE BoxQuery ------------------------------
(***************************************************************************)
(* BoundingBox::getCounts (airtree-query/src/bounding-box/BoundingBox.cpp) *)
(* in two and three dimensions: the points of a box are counted twice, in  *)
(* the bins "safely" in it and in those and the bins around them.          *)
(***************************************************************************)
EXTENDS BoxIndex

CONSTANTS
  Points,      \* the points a histogram may hold, tuples of coordinates
  MaxPoints,   \* bound: how many of them
  Boxes        \* the boxes that may be asked for, [lo, hi] of tuples

ASSUME BoxesAssumption ==
  \A b \in Boxes :
     /\ b \in [lo : [1 .. Dims -> Int], hi : [1 .. Dims -> Int]]
     /\ \A d \in 1 .. Dims : Low <= b.lo[d] /\ b.hi[d] <= High

VARIABLES
  points,      \* what the histogram was made from (the code never sees it)
  trie,        \* the histogram
  box,         \* the box asked for
  pc,
  safe,        \* safe_bin_coords
  safeCount,
  total,       \* total_bin_coords
  totalCount

vars == <<points, trie, box, pc, safe, safeCount, total, totalCount>>

Init ==
  /\ points \in UNION {[1 .. m -> Points] : m \in 0 .. MaxPoints}
  /\ trie = Trie(points)
  /\ box \in Boxes
  /\ pc = "start"
  /\ safe = SafeIndices(box) /\ total = safe
  /\ safeCount = 0 /\ totalCount = 0

\* The loops over the safe box.
CountSafe ==
  /\ pc = "start" /\ ~ PastTable(safe)
  /\ safeCount' = CountIn(trie, safe)
  /\ safe' = Refined(trie, safe)
  /\ pc' = "expand"
  /\ UNCHANGED <<points, trie, box, total, totalCount>>

\* All four or six bounds match: no second count.
ReturnPerfect ==
  /\ pc = "expand" /\ Perfect(box)
  /\ total' = IF Dims = 2 THEN EdgeBox(box, safe) ELSE safe
  /\ totalCount' = safeCount
  /\ pc' = "done"
  /\ UNCHANGED <<points, trie, box, safe, safeCount>>

\* The loops over the box of all bins that may overlap.
CountTotal ==
  /\ pc = "expand" /\ ~ Perfect(box) /\ ~ PastTable(EdgeBox(box, safe))
  /\ total' = EdgeBox(box, safe)
  /\ totalCount' = CountIn(trie, total')
  /\ pc' = "done"
  /\ UNCHANGED <<points, trie, box, safe, safeCount>>

\* A loop reads a table entry that is not there.  What follows is undefined.
ReadPastTable ==
  /\ \/ pc = "start" /\ PastTable(safe)
     \/ pc = "expand" /\ ~ Perfect(box) /\ PastTable(EdgeBox(box, safe))
  /\ pc' = "fault"
  /\ UNCHANGED <<points, trie, box, safe, safeCount, total, totalCount>>

Next == CountSafe \/ ReturnPerfect \/ CountTotal \/ ReadPastTable

Spec == Init /\ [][Next]_vars

-----------------------------------------------------------------------------
Filed(p) == \E c \in [1 .. Dims -> Bins] : \A d \in 1 .. Dims : Holds(c[d], p[d])

(***************************************************************************)
(* The safe count is that of the points whose labels lie in the box:       *)
(* lookups of bounds between labels, on labels, beyond the table and at    *)
(* infinity, and the unsigned arithmetic on what they return, come to this *)
(* and nothing else (initSafeBox, initSafeBox3D and the loops after them). *)
(* It is what the code does, not what the documentation promises: see      *)
(* SafeIsLowerBound.                                                       *)
(***************************************************************************)
SafeByLabel == pc \in {"expand", "done"} => safeCount = Cardinality({k \in DOMAIN points : LabelInBox(points[k], box)})

\* A box without bounds holds everything that is filed in a bin, counted once
\* in both results (the special case at the head of initSafeBox).
UnboundedExact ==
  (pc = "done" /\ \A d \in 1 .. Dims : box.lo[d] = Low /\ box.hi[d] = High)
    => safeCount = Cardinality({k \in DOMAIN points : Filed(points[k])}) /\ totalCount = safeCount

\* In three dimensions indices are kept inside the table except for one kind
\* of box: one that ends below the first label, where unsigned subtraction
\* leaves the largest index instead of none (initSafeBox3D, initEdgeBox3D).
PastTableOnlyBelow == pc = "fault" => \E d \in 1 .. Dims : box.hi[d] < Labels[0]

(***************************************************************************)
(* "Safe - bins fully contained inside the query box" and "The true count  *)
(* for the box lies in [safeCount, totalCount]" (docs/cpp-api.md:328-330): *)
(* no more points are counted as safe than lie in the box.                 *)
(***************************************************************************)
InBox(p, b) == \A d \in 1 .. Dims : b.lo[d] <= p[d] /\ p[d] <= b.hi[d]

SafeIsLowerBound == pc = "done" => safeCount <= Cardinality({k \in DOMAIN points : InBox(points[k], box)})

\* CHANGELOG.md:258: the "BoundingBox safe <= total invariant".
SafeWithinTotal == pc = "done" => safeCount <= totalCount

=============================================================================
