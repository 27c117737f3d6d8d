------------------------------ MODULE BoxBatch ------------------------------
(***************************************************************************)
(* BoundingBox::getCountsBatch (airtree-query/src/bounding-box/            *)
(* BoundingBox.cpp): boxes over one histogram, one after the other, with   *)
(* the counts of cells kept between them.  It is code of its own, not a    *)
(* loop over getCounts, whose answers it is compared with, and there is    *)
(* one for two dimensions only (Dims = 2).                                 *)
(***************************************************************************)
EXTENDS BoxIndex

CONSTANTS
  Points,      \* the points a histogram may hold
  MaxPoints,   \* bound: how many of them
  Boxes,       \* the boxes that may be asked for
  MaxQueries   \* bound: how many in a batch

VARIABLES
  points,      \* what the histogram was made from (the code never sees it)
  trie,        \* the histogram
  queries,     \* the batch
  pc,
  cache,       \* global_bin_cache: the count of each cell looked up so far
  found,       \* the box of the cells with data of the current query, or empty
  safeCount,   \* of the current query
  results      \* [safe, total] of the queries answered

vars == <<points, trie, queries, pc, cache, found, safeCount, results>>

Empty == [lo |-> [d \in 1 .. Dims |-> 1], hi |-> [d \in 1 .. Dims |-> 0]]

Init ==
  /\ points \in UNION {[1 .. m -> Points] : m \in 0 .. MaxPoints}
  /\ trie = Trie(points)
  /\ queries \in UNION {[1 .. m -> Boxes] : m \in 1 .. MaxQueries}
  /\ pc = "safe"
  /\ cache = <<>>
  /\ found = Empty
  /\ safeCount = 0
  /\ results = <<>>

Query == queries[Len(results) + 1]

\* Mutant: the first bin is shifted out of the key.
KeyOfLast(c) == c[Dims]

\* The cache's key: both bins, each in its half of a word.
Key(c) == c

\* getCachedCount: the cache after some cells have been looked up.
Cached(cells) ==
  [k \in DOMAIN cache \cup {Key(c) : c \in cells} |->
     IF k \in DOMAIN cache THEN cache[k] ELSE trie[CHOOSE c \in cells : Key(c) = k]]

CountFrom(store, cells) == MapThenSumSet(LAMBDA c : store[Key(c)], cells)

\* The loops over the safe box, and the box of the cells with data.
CountSafe ==
  /\ pc = "safe" /\ Len(results) < Len(queries)
  /\ ~ PastTable(SafeIndices(Query))
  /\ \E cells \in {Cells(SafeIndices(Query))} :
       LET some == {c \in cells : cache'[Key(c)] > 0}
       IN  /\ cache' = Cached(cells)
           /\ safeCount' = CountFrom(cache', cells)
           /\ found' = IF some = {} THEN Empty ELSE [lo |-> Lowermost(some), hi |-> Uppermost(some)]
  /\ pc' = "total"
  /\ UNCHANGED <<points, trie, queries, results>>

\* No data found: both counts are zero.
AnswerEmpty ==
  /\ pc = "total" /\ found = Empty
  /\ results' = Append(results, [safe |-> 0, total |-> 0])
  /\ pc' = "safe"
  /\ UNCHANGED <<points, trie, queries, cache, found, safeCount>>

\* The cells of the grown box that are not in the safe one.
EdgeCells(grown, inner) == Cells(grown) \ Cells(inner)

\* total_count starts as the safe count; the edges are added.
CountEdges ==
  /\ pc = "total" /\ found # Empty
  /\ \E edge \in {EdgeCells(EdgeBox3D(Query, found), found)} :
       /\ cache' = Cached(edge)
       /\ results' = Append(results, [safe  |-> safeCount,
                                      total |-> safeCount + CountFrom(cache', edge)])
  /\ pc' = "safe"
  /\ UNCHANGED <<points, trie, queries, found, safeCount>>

\* A box below the first label: its last index is the largest there is, and the
\* loops read past the table, or never end where the inner one is empty.
ReadPastTable ==
  /\ pc = "safe" /\ Len(results) < Len(queries) /\ PastTable(SafeIndices(Query))
  /\ pc' = "overrun"
  /\ UNCHANGED <<points, trie, queries, cache, found, safeCount, results>>

Next == CountSafe \/ AnswerEmpty \/ CountEdges \/ ReadPastTable

Spec == Init /\ [][Next]_vars

-----------------------------------------------------------------------------
\* What getCounts returns for a box.
SingleSafe(b) == CountIn(trie, SafeIndices(b))

SingleEdge(b) == EdgeBox2D(b, Refined(trie, SafeIndices(b)))

SingleTotal(b) == IF Perfect(b) THEN SingleSafe(b) ELSE CountIn(trie, SingleEdge(b))

\* The safe count of each box of the batch is that of the points whose labels lie
\* in it: the counts kept from earlier boxes never change a later answer, and
\* bounds on, between and beyond labels are told apart as in getCounts.
SafeByLabel ==
  \A k \in DOMAIN results :
     results[k].safe = Cardinality({j \in DOMAIN points : LabelInBox(points[j], queries[k])})

\* No bound is a label or the end of the table; and of the cells with data in the box
\* the first has the least bin of each dimension.
NoSideMatches(b) == \A d \in 1 .. Dims : ~ LowMatches(b.lo[d]) /\ ~ HighMatches(b.hi[d])

CornerFirst(b) == LET data == WithData(trie, SafeIndices(b)) IN FirstOf(data) = Lowermost(data)

(***************************************************************************)
(* "Verify that batch results match individual queries" (TestBoundingBox,  *)
(* 642): the safe counts do for every box.  The totals do where the two    *)
(* grow the same box, that is if no side of the box matches and the first  *)
(* cell with data is the lower corner; for other boxes that hold data the  *)
(* batch's is no smaller, since it grows every side from the least bins,   *)
(* perfect boxes too, where getCounts grows the sides that do not match    *)
(* from the first cell.  A box without data has none around it in a batch. *)
(***************************************************************************)
MatchesSingle ==
  \A k \in DOMAIN results :
     LET asked == queries[k]
     IN  /\ results[k].safe = SingleSafe(asked)
         /\ results[k].safe = 0 => results[k].total = 0
         /\ results[k].safe > 0 =>
              /\ results[k].safe <= results[k].total
              /\ ~ PastTable(SingleEdge(asked)) =>
                   IF NoSideMatches(asked) /\ CornerFirst(asked)
                   THEN results[k].total = SingleTotal(asked)
                   ELSE SingleTotal(asked) <= results[k].total

\* Every answer of a batch (getCountsBatch against getCounts and the points).
BatchCorrect == SafeByLabel /\ MatchesSingle

=============================================================================
