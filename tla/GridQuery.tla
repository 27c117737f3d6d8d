------------------------------ MODULE GridQuery ------------------------------
(***************************************************************************)
(* GridQuery::getGrid (airtree-query/src/grid/GridQuery.cpp): threads ask  *)
(* one object for the counts of the cells of grids.  A thread whose grid   *)
(* has an end at infinity needs the extent of the data, which the first    *)
(* such thread finds by a walk of the trie while others wait for it        *)
(* (call_once).  All else is a thread's own.                               *)
(***************************************************************************)
EXTENDS GridAxis

CONSTANTS
  Dims,         \* axes of the histogram
  CodeOf,       \* the kind and the code of each bin: what internal_12 is made of
  SizeBits,     \* the bits of a code that say how large its number is
  LevelBits,    \* the bits of each level of the trie below the root
  NaN,          \* the number that stands for not-a-number
  Points,       \* the points a histogram may hold, tuples of numbers
  MaxPoints,    \* bound: how many of them
  Threads,
  Asks          \* what each thread may ask for: [axes, maxCells]

\* Codes are those of one schema; the number zero is none of the labels, and the
\* numbers of points lie between the infinities but for NaN.
ASSUME GridAssumption ==
  /\ Dims \in 2 .. 4 /\ NaN \in Int /\ NaN > High /\ Low < 0 /\ 0 < High
  /\ CodeOf \in [Bins -> [kind : {2, 3, 5, 6}, code : Seq({0, 1})]]
  /\ Coded({CodeOf[i].code : i \in Bins}, SizeBits, LevelBits, Dims)
  /\ \A i, j \in Bins : CodeOf[i] = CodeOf[j] => i = j
  /\ \A i \in Bins : Labels[i] # 0 /\ CodeOf[i].kind \in IF Labels[i] < 0 THEN {5, 6} ELSE {2, 3}
  /\ Points \subseteq [1 .. Dims -> Int]
  /\ \A p \in Points, d \in 1 .. Dims :
       \/ p[d] \in {Low, 0, High, NaN}
       \/ Low < p[d] /\ p[d] < High /\ \E i \in Bins : Holds(i, p[d])
  /\ MaxPoints \in Nat

\* A request: a range for each axis, into how many steps, and a limit of cells.
ASSUME AsksAssumption ==
  \A t \in Threads : \A a \in Asks[t] :
    /\ a.maxCells \in Nat
    /\ a.axes \in Seq([min : Int, max : Int, steps : Nat, mult : BOOLEAN])
    /\ \A d \in DOMAIN a.axes : {a.axes[d].min, a.axes[d].max} \subseteq (Low .. High) \cup {NaN}

VARIABLES
  points,    \* what the histogram was made from (the code never sees it)
  trie,      \* the counts of its leaves
  once,      \* the once_flag: "not", "running" or "done"
  walk,      \* records that the walk for the extent has yet to visit
  extent,    \* the extent of each axis
  ask,       \* what each thread asks for
  pc,        \* where each thread is
  models,    \* its axis models
  counts     \* its counts, row by row

vars == <<points, trie, once, walk, extent, ask, pc, models, counts>>

Axes == 1 .. Dims

-----------------------------------------------------------------------------
SpecialKinds == {0, 1, 4, 7}

\* The bin of an ordinary number.
BinOf(v) == CHOOSE i \in Bins : Holds(i, v)

\* setTLEComponents, for the bins there are.
KindOf(v) == CASE v = NaN  -> 0
               [] v = High -> 1
               [] v = 0    -> 4
               [] v = Low  -> 7
               [] OTHER    -> CodeOf[BinOf(v)].kind

Eights == [d \in Axes |-> 8]

\* The path of a point: the kinds of its numbers in the root bin, and the codes of
\* the ordinary ones, mixed, below.
Path(pt) ==
  LET ordinary == {d \in Axes : KindOf(pt[d]) \notin SpecialKinds}
      codes    == InOrder([d \in ordinary |-> CodeOf[BinOf(pt[d])].code], ordinary)
  IN  <<Numeral(Eights, [d \in Axes |-> KindOf(pt[d])])>> \o Levels(Combine(codes, SizeBits), LevelBits)

TrieOf(pts) == [q \in {Path(pts[k]) : k \in DOMAIN pts} |->
                  Cardinality({k \in DOMAIN pts : Path(pts[k]) = q})]

\* deconstructTLE: the kind of each axis.
DeconstructTLE(tle) == Digits(Eights, tle)

(***************************************************************************)
(* emitRecord: what a leaf says of each axis.  The bits of its levels are  *)
(* parted into as many codes as there are ordinary numbers; each of these, *)
(* in order, takes the next, and its bin is that of its kind and code.     *)
(***************************************************************************)
AxisBins(q) ==
  LET kinds    == DeconstructTLE(q[1])
      ordinary == {d \in Axes : kinds[d] \notin SpecialKinds}
      bits     == FlattenSeq([k \in 1 .. Len(q) - 1 |-> Bits(q[k + 1], LevelBits[k])])
      chunks   == IF ordinary = {} THEN <<>> ELSE Split(bits, Cardinality(ordinary), SizeBits)
      chunk(d) == chunks[PlaceIn(ordinary, d)]
      bin(d)   == LET said == [kind |-> kinds[d], code |-> chunk(d)] IN CHOOSE i \in Bins : CodeOf[i] = said
      finite(i)        == [kind |-> "finite", bin |-> i, value |-> Labels[i]]
      special(kind, v) == [kind |-> kind, bin |-> -1, value |-> v]
  IN  [d \in Axes |-> CASE kinds[d] = 1 -> special("posinf", High)
                        [] kinds[d] = 7 -> special("neginf", Low)
                        [] kinds[d] = 4 -> special("zero", 0)
                        [] OTHER        -> finite(bin(d))]

\* dispatchVisit: a record for each leaf but those with a NaN.
Visited == {q \in DOMAIN trie : LET kinds == DeconstructTLE(q[1]) IN \A d \in Axes : kinds[d] # 0}

-----------------------------------------------------------------------------
\* What is wrong with a request by itself; the other reasons show later.
Malformed(a) ==
  \/ Len(a.axes) # Dims \/ a.maxCells = 0
  \/ \E d \in DOMAIN a.axes :
       LET s == a.axes[d]
       IN  \/ s.steps = 0 \/ s.min = NaN \/ s.max = NaN \/ s.min > s.max
           \/ /\ s.mult /\ {s.min, s.max} \cap {Low, High} = {}
              /\ ~ (s.min > 0 /\ s.max > s.min)

Init ==
  /\ points \in UNION {[1 .. m -> Points] : m \in 0 .. MaxPoints}
  /\ trie = TrieOf(points)
  /\ once = "not" /\ walk = <<>>
  /\ extent = [d \in Axes |-> NoExtent]
  /\ ask \in [Threads -> UNION {Asks[t] : t \in Threads}] /\ \A t \in Threads : ask[t] \in Asks[t]
  /\ pc = [t \in Threads |-> "check"]
  /\ models = [t \in Threads |-> <<>>]
  /\ counts = [t \in Threads |-> <<>>]

\* needs_extent
NeedsExtent(t) == \E d \in Axes : Open(ask[t].axes[d])

\* A request is refused, or goes on, through the extent if one of its ends is open.
CheckRequest(t) ==
  /\ pc[t] = "check"
  /\ \/ Malformed(ask[t]) /\ pc' = [pc EXCEPT ![t] = "invalid"]
     \/ ~ Malformed(ask[t]) /\ NeedsExtent(t) /\ pc' = [pc EXCEPT ![t] = "extent"]
     \/ ~ Malformed(ask[t]) /\ ~ NeedsExtent(t) /\ pc' = [pc EXCEPT ![t] = "models"]
  /\ UNCHANGED <<points, trie, once, walk, extent, ask, models, counts>>

\* ensureExtent: the first thread walks the trie.
BeginWalk(t) ==
  /\ pc[t] = "extent" /\ once = "not"
  /\ once' = "running"
  /\ walk' = SetToSeq(Visited)
  /\ extent' = [d \in Axes |-> NoExtent]
  /\ pc' = [pc EXCEPT ![t] = "walk"]
  /\ UNCHANGED <<points, trie, ask, models, counts>>

\* extentCb: infinities do not contribute.
VisitRecord(t) ==
  /\ pc[t] = "walk" /\ walk # <<>>
  /\ walk' = Tail(walk)
  /\ extent' = [d \in Axes |->
       LET ax == AxisBins(Head(walk))[d]
       IN  IF ax.kind \in {"neginf", "posinf"} THEN extent[d]
           ELSE [min |-> Min({extent[d].min, ax.value}), max |-> Max({extent[d].max, ax.value})]]
  /\ UNCHANGED <<points, trie, once, ask, pc, models, counts>>

EndWalk(t) ==
  /\ pc[t] = "walk" /\ walk = <<>>
  /\ once' = "done"
  /\ pc' = [pc EXCEPT ![t] = "models"]
  /\ UNCHANGED <<points, trie, walk, extent, ask, models, counts>>

\* Mutant: another thread's walk is taken for done.
PassEarly(t) ==
  /\ pc[t] = "extent" /\ once # "not"
  /\ pc' = [pc EXCEPT ![t] = "models"]
  /\ UNCHANGED <<points, trie, once, walk, extent, ask, models, counts>>

\* A thread that comes later waits until the walk has ended.
PassOnce(t) ==
  /\ pc[t] = "extent" /\ once = "done"
  /\ pc' = [pc EXCEPT ![t] = "models"]
  /\ UNCHANGED <<points, trie, once, walk, extent, ask, models, counts>>

-----------------------------------------------------------------------------
Shape(ms) == [d \in Axes |-> Len(ms[d].intervals)]

\* The cells with one more axis of n intervals: without intervals it is passed over, and
\* there are -1 from where they would exceed the limit.
WithAxis(cells, n, maxCells) ==
  CASE cells = -1 \/ n = 0      -> cells
    [] cells > maxCells \div n -> -1
    [] OTHER                   -> cells * n

Cells(shape, maxCells) ==
  LET cells[d \in 0 .. Len(shape)] == IF d = 0 THEN 1 ELSE WithAxis(cells[d - 1], shape[d], maxCells)
  IN  cells[Len(shape)]

BuildModels(t) ==
  /\ pc[t] = "models"
  /\ LET spec(d) == ask[t].axes[d]
         ext(d)  == IF Open(spec(d)) THEN extent[d] ELSE NoExtent
         ms      == [d \in Axes |-> AxisModel(spec(d), ext(d))]
     IN  IF \E d \in Axes : ~ Scalable(spec(d), ext(d))
         THEN pc' = [pc EXCEPT ![t] = "invalid"] /\ UNCHANGED models
         ELSE IF Cells(Shape(ms), ask[t].maxCells) = -1
         THEN pc' = [pc EXCEPT ![t] = "exceeds"] /\ UNCHANGED models
         ELSE /\ models' = [models EXCEPT ![t] = ms]
              /\ pc' = [pc EXCEPT ![t] = IF \E d \in Axes : Shape(ms)[d] = 0 THEN "done" ELSE "count"]
  /\ UNCHANGED <<points, trie, once, walk, extent, ask, counts>>

\* The place of a cell in the row-major array.
RowIndex(shape, p) == Numeral(shape, [d \in Axes |-> p[d] - 1])

\* bucketCb of every record: one that is outside on some axis is left out.
CountRecords(t) ==
  /\ pc[t] = "count"
  /\ LET ms    == models[t]
         shape == Shape(ms)
         cell  == [q \in Visited |-> LET ax == AxisBins(q) IN [d \in Axes |-> PartitionIndex(ms[d], ax[d])]]
         inside == {q \in Visited : \A d \in Axes : cell[q][d] # 0}
     IN  counts' = [counts EXCEPT ![t] =
           [row \in 0 .. Cells(shape, ask[t].maxCells) - 1 |->
              SumFunctionOnSet(trie, {q \in inside : RowIndex(shape, cell[q]) = row})]]
  /\ pc' = [pc EXCEPT ![t] = "done"]
  /\ UNCHANGED <<points, trie, once, walk, extent, ask, models>>

Step(t) == \/ CheckRequest(t) \/ BeginWalk(t) \/ VisitRecord(t) \/ EndWalk(t) \/ PassOnce(t)
           \/ BuildModels(t) \/ CountRecords(t)

Returned(t) == pc[t] \in {"done", "invalid", "exceeds"}

Ended == (\A t \in Threads : Returned(t)) /\ UNCHANGED vars

Next == (\E t \in Threads : Step(t)) \/ Ended

Spec == Init /\ [][Next]_vars

-----------------------------------------------------------------------------
\* materializeRows: the place of a row on each axis, from the last axis back.
RowPlace(shape, row) == LET p == Digits(shape, row) IN [d \in Axes |-> p[d] + 1]

In(v, iv) == /\ iv.lower < v \/ (iv.lower = v /\ iv.lowerIn)
             /\ v < iv.upper \/ (v = iv.upper /\ iv.upperIn)

Places == {"check", "extent", "walk", "models", "count", "done", "invalid", "exceeds"}

(***************************************************************************)
(* Each row says how many points there are whose numbers lie in the        *)
(* intervals it gives, bounds included or not as it says: the path through *)
(* mixed codes, kinds, tables of intervals and the index of the cell       *)
(* brings every point to where its numbers belong.                         *)
(***************************************************************************)
RowsExact ==
  \A t \in Threads : pc[t] = "done" =>
    LET ms    == models[t]
        shape == Shape(ms)
    IN  \A row \in DOMAIN counts[t] :
          counts[t][row] =
            LET place == RowPlace(shape, row)
            IN  Cardinality({k \in DOMAIN points :
                  \A d \in Axes : In(points[k][d], ms[d].intervals[place[d]])})

\* Some value on the axis has its bin's label inside the range, if that is open.
LabelWithin(spec, d) ==
  \E k \in DOMAIN points : LET v == points[k][d] IN
    /\ \A e \in Axes : points[k][e] # NaN
    /\ \/ v = 0 /\ spec.min <= 0 /\ 0 <= spec.max
       \/ v \notin {Low, High} /\ \E i \in Bins : Holds(i, v) /\ spec.min <= Labels[i] /\ Labels[i] <= spec.max

(***************************************************************************)
(* A point inside the ranges asked for, ends included, is in one of the    *)
(* rows, whichever thread found the extent and whenever the others came.   *)
(* On an axis with an end at infinity this needs a value whose label is in *)
(* the range: the extent is that of the labels (`InsideCounted` claims it   *)
(* without).                                                               *)
(***************************************************************************)
NothingLost ==
  \A t \in Threads : pc[t] = "done" =>
    LET spec(d) == ask[t].axes[d]
    IN  \A k \in DOMAIN points :
          (\A d \in Axes : /\ spec(d).min <= points[k][d] /\ points[k][d] <= spec(d).max
                           /\ Open(spec(d)) => LabelWithin(spec(d), d) \/ points[k][d] \in {Low, High})
            => \A d \in Axes : \E i \in DOMAIN models[t][d].intervals : In(points[k][d], models[t][d].intervals[i])

\* docs/cli.md:317: a bin straddling the requested min or max is "reported with its
\* full count"; so every point inside the ranges is counted.
InsideCounted ==
  \A t \in Threads : pc[t] = "done" =>
    \A k \in DOMAIN points :
      (\A d \in Axes : ask[t].axes[d].min <= points[k][d] /\ points[k][d] <= ask[t].axes[d].max)
        => \A d \in Axes : \E i \in DOMAIN models[t][d].intervals : In(points[k][d], models[t][d].intervals[i])

(***************************************************************************)
(* The intervals of an axis do not overlap and ascend; those that are not  *)
(* edges lie in the range asked for, and without zero's own there are at   *)
(* most as many as steps asked for (addInteriorParts, buildAxisModel).     *)
(***************************************************************************)
Partitioned ==
  \A t \in Threads : \A d \in DOMAIN models[t] :
    LET ivs  == models[t][d].intervals
        spec == ask[t].axes[d]
        inner == {k \in DOMAIN ivs : ivs[k].kind = "finite" /\ ~ ivs[k].edge}
    IN  /\ \A j, k \in DOMAIN ivs : j < k =>
             \/ ivs[j].upper < ivs[k].lower
             \/ ivs[j].upper = ivs[k].lower /\ ~ (ivs[j].upperIn /\ ivs[k].lowerIn)
        /\ \A k \in inner : spec.min <= ivs[k].lower /\ ivs[k].upper <= spec.max
        /\ Cardinality({k \in inner : ivs[k].lower # ivs[k].upper}) <= spec.steps

(***************************************************************************)
(* The extent is without locks but for the once_flag: one thread at most   *)
(* walks, while the flag says so and others wait; and a thread that builds *)
(* its axes from the extent does so when nobody writes it any more         *)
(* (ensureExtent and the comment at its use in getGrid).                   *)
(***************************************************************************)
NoRace ==
  /\ \A t, u \in Threads : (pc[t] = "walk" /\ pc[u] = "walk") => t = u
  /\ once = "running" <=> \E t \in Threads : pc[t] = "walk"
  /\ \A t \in Threads : (pc[t] = "models" /\ NeedsExtent(t)) => once = "done"

=============================================================================
