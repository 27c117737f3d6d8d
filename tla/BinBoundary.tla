---------------------------- MODULE BinBoundary -----------------------------
(***************************************************************************)
(* BinBoundary (airtree-query/src/bin-boundary/BinBoundary.cpp): the bins  *)
(* of a histogram as a list of boundaries, read straight from the bytes of *)
(* a file.  The object keeps its place in the bytes: a node is read when   *)
(* the walk comes to its bin.  The header's counts of special values are   *)
(* moved into the first result.                                            *)
(*                                                                         *)
(* A number is an integer, its place among the doubles.  A code of w bits  *)
(* is an integer too: the sign, whether the exponent is negative, then     *)
(* what the path through the trie says; Value[w] says which label it has.  *)
(***************************************************************************)
EXTENDS TrieWire, Codes

CONSTANTS
  Value,         \* Value[w][c] is the label of the code c of w bits (reConstruct)
  Widths,        \* the bits of each level, for each 1D schema
  LevelBits,     \* and below the root, for the others
  SizeBits,      \* the bits of a code that say how large its number is
  Low, High,     \* minus and plus infinity
  NaN,           \* the number that stands for not-a-number
  Samples,       \* the points a histogram of each schema may hold, tuples of numbers
  MaxSamples,    \* bound: how many of them
  MaxCalls       \* bound: how often the boundaries are asked for

VARIABLES
  schema,      \* the header's config
  points,      \* what the histogram was made from (the code never sees it)
  bytes,       \* the file's nodes and end marker; <<>> with no header is an empty buffer
  header,      \* whether the buffer had one
  phase,       \* "new", "idle", "walk", "returned", "threw" or "crashed"
  offset,      \* nodes passed
  todo,        \* [path, count] of the bins yet to visit, in order
  boundaries,  \* collected by this call
  specials,    \* its special counts: "none", "here", "given" to this result or "gone"
  calls        \* made so far

Schemas == DOMAIN Samples
OneD    == DOMAIN Widths
Dims(s) == CASE s = "2DxP" -> 2 [] s = "3DxP" -> 3 [] s = "4DxP" -> 4 [] OTHER -> 1

-----------------------------------------------------------------------------
\* How a file comes to hold the points: the kinds of a point's numbers in the root
\* bin, the codes of the ordinary ones, mixed, below; in 1D the code alone.

SpecialKinds == {0, 1, 4, 7}
Prefix(kind) == CASE kind = 2 -> 0 [] kind = 3 -> 1 [] kind = 5 -> 3 [] kind = 6 -> 2

\* The code whose label is next to v towards zero.
CodeOf(w, v) ==
  CHOOSE c \in DOMAIN Value[w] :
     LET l == Value[w][c]
     IN  IF v > 0 THEN 0 < l /\ l <= v /\ \A e \in DOMAIN Value[w] : Value[w][e] <= v => Value[w][e] <= l
                  ELSE l < 0 /\ v <= l /\ \A e \in DOMAIN Value[w] : v <= Value[w][e] => l <= Value[w][e]

Width == SizeBits + LevelBits[1] + 1   \* of a code and its prefix, 12 in the program

KindOf(v) ==
  CASE v = NaN -> 0 [] v = High -> 1 [] v = 0 -> 4 [] v = Low -> 7
    [] OTHER -> CHOOSE k \in {2, 3, 5, 6} : Prefix(k) = CodeOf(Width, v) \div 2 ^ (Width - 2)

PathOf(s, pt) ==
  IF s \in OneD
  THEN LET w == FoldLeft(LAMBDA n, b : n + b, 0, Widths[s]) IN Levels(Bits(CodeOf(w, pt[1]), w), Widths[s])
  ELSE LET ordinary == SelectSeq(pt, LAMBDA v : KindOf(v) \notin SpecialKinds)
       IN  <<FoldLeft(LAMBDA n, v : 8 * n + KindOf(v), 0, pt)>>
             \o Levels(Combine([k \in DOMAIN ordinary |->
                          SubSeq(Bits(CodeOf(Width, ordinary[k]), Width), 3, Width)], SizeBits), LevelBits)

\* Special values of a 1D histogram are in the header only.
Filed(s, pt) == s \notin OneD \/ KindOf(pt[1]) \notin SpecialKinds

FileOf(s, pts) ==
  LET filed == {k \in DOMAIN pts : Filed(s, pts[k])}
  IN  Wire([q \in {PathOf(s, pts[k]) : k \in filed} |-> Cardinality({k \in filed : PathOf(s, pts[k]) = q})])

-----------------------------------------------------------------------------
\* Mutant: a negative bin's bounds are those of a positive one.
LookupAsPositive(w, v) ==
  LET table == {Value[w][c] : c \in DOMAIN Value[w]}
  IN  [lower |-> v, upper |-> Min({l \in table : l > v} \cup {High})]

\* lookupBinBounds: from the label to the next one away from zero.
LookupBinBounds(w, v) ==
  LET table == {Value[w][c] : c \in DOMAIN Value[w]}
  IN  IF v < 0 THEN [lower |-> Max({l \in table : l < v} \cup {Low}), upper |-> v]
               ELSE [lower |-> v, upper |-> Min({l \in table : l > v} \cup {High})]

\* getSpecialValue
SpecialValue(kind) == CASE kind = 0 -> NaN [] kind = 1 -> High [] kind = 7 -> Low [] kind = 4 -> 0

\* The constructors: all lower bounds, then all upper ones.
Boundary1D(min, max, n) == [lower |-> <<min>>, upper |-> <<max>>, count |-> n]
Boundary2D(minX, minY, maxX, maxY, n) == [lower |-> <<minX, minY>>, upper |-> <<maxX, maxY>>, count |-> n]
Boundary3D(minX, minY, minZ, maxX, maxY, maxZ, n) ==
  [lower |-> <<minX, minY, minZ>>, upper |-> <<maxX, maxY, maxZ>>, count |-> n]
Boundary4D(minX, minY, minZ, minW, maxX, maxY, maxZ, maxW, n) ==
  [lower |-> <<minX, minY, minZ, minW>>, upper |-> <<maxX, maxY, maxZ, maxW>>, count |-> n]

-----------------------------------------------------------------------------
(* What a leaf of each schema says *)

BoundsOf(w, code) == LookupBinBounds(w, Value[w][code])
Shifted(q, widths) == FoldLeft(LAMBDA n, k : n * 2 ^ widths[k] + q[k], 0, [k \in DOMAIN q |-> k])
Leaf1D(w, code, n) == LET b == BoundsOf(w, code) IN Boundary1D(b.lower, b.upper, n)

\* 8 and 5 bits, 8 and 8 bits, 8, 6 and 6 bits in the program.
Leaf1DxT(q, n) == Leaf1D(Widths["1DxT"][1] + Widths["1DxT"][2], Shifted(q, Widths["1DxT"]), n)
Leaf1DxF(q, n) == Leaf1D(Widths["1DxF"][1] + Widths["1DxF"][2], Shifted(q, Widths["1DxF"]), n)
Leaf1DxP(q, n) ==
  Leaf1D(Widths["1DxP"][1] + Widths["1DxP"][2] + Widths["1DxP"][3], Shifted(q, Widths["1DxP"]), n)

\* deconstructTLE
KindsIn(s, tle) == [d \in 1 .. Dims(s) |-> (tle \div 8 ^ (Dims(s) - d)) % 8]
Ordinary(kinds) == {d \in DOMAIN kinds : kinds[d] \notin SpecialKinds}

\* `bins`: minimum and maximum of each dimension in turn; each ordinary one takes the
\* next code from the queue.
Flat(kinds, codes) ==
  FlattenSeq([d \in DOMAIN kinds |->
    IF d \notin Ordinary(kinds) THEN <<SpecialValue(kinds[d]), SpecialValue(kinds[d])>>
    ELSE LET code == codes[Cardinality({e \in Ordinary(kinds) : e <= d})]
             b == BoundsOf(Width, Number(Bits(Prefix(kinds[d]), 2) \o code))
         IN  <<b.lower, b.upper>>])

\* The values of the dimensions, twice each, go to the constructor as they come.
Special2D(kinds, n) ==
  LET b == Flat(kinds, <<>>) IN Boundary2D(b[1], b[2], b[3], b[4], n)
Special3D(kinds, n) ==
  LET b == Flat(kinds, <<>>) IN Boundary3D(b[1], b[2], b[3], b[4], b[5], b[6], n)
Special4D(kinds, n) ==
  LET b == Flat(kinds, <<>>) IN Boundary4D(b[1], b[2], b[3], b[4], b[5], b[6], b[7], b[8], n)

\* One dimension is ordinary: the level's bits are its code.
Single2D(kinds, bits, n) ==
  LET b == Flat(kinds, <<bits>>) IN Boundary2D(b[1], b[3], b[2], b[4], n)
Single3D(kinds, bits, n) ==
  LET b == Flat(kinds, <<bits>>) IN Boundary3D(b[1], b[3], b[5], b[2], b[4], b[6], n)
Single4D(kinds, bits, n) ==
  LET b == Flat(kinds, <<bits>>) IN Boundary4D(b[1], b[3], b[5], b[7], b[2], b[4], b[6], b[8], n)

\* Several are: the bits of the levels are parted into their codes.
Pair2D(kinds, bits, n) ==
  LET b == Flat(kinds, Split(bits, 2, SizeBits)) IN Boundary2D(b[1], b[3], b[2], b[4], n)
Mixed3D(kinds, bits, n) ==
  LET b == Flat(kinds, Split(bits, Cardinality(Ordinary(kinds)), SizeBits))
  IN  Boundary3D(b[1], b[3], b[5], b[2], b[4], b[6], n)
Pair4D(kinds, bits, n) ==
  LET b == Flat(kinds, Split(bits, 2, SizeBits))
  IN  Boundary4D(b[1], b[3], b[5], b[7], b[2], b[4], b[6], b[8], n)
Mixed4D(kinds, bits, n) ==
  LET b == Flat(kinds, Split(bits, Cardinality(Ordinary(kinds)), SizeBits))
  IN  Boundary4D(b[1], b[3], b[5], b[7], b[2], b[4], b[6], b[8], n)

\* Which of them a leaf is.
Boundary(s, q, n) ==
  LET kinds == KindsIn(s, q[1])
      many  == Cardinality(Ordinary(kinds))
      bits  == FlattenSeq([k \in 1 .. Len(q) - 1 |-> Bits(q[k + 1], LevelBits[k])])
  IN  CASE s = "1DxT" -> Leaf1DxT(q, n)
        [] s = "1DxF" -> Leaf1DxF(q, n)
        [] s = "1DxP" -> Leaf1DxP(q, n)
        [] s = "2DxP" /\ many = 0 -> Special2D(kinds, n)
        [] s = "2DxP" /\ many = 1 -> Single2D(kinds, bits, n)
        [] s = "2DxP" /\ many = 2 -> Pair2D(kinds, bits, n)
        [] s = "3DxP" /\ many = 0 -> Special3D(kinds, n)
        [] s = "3DxP" /\ many = 1 -> Single3D(kinds, bits, n)
        [] s = "3DxP" /\ many > 1 -> Mixed3D(kinds, bits, n)
        [] s = "4DxP" /\ many = 0 -> Special4D(kinds, n)
        [] s = "4DxP" /\ many = 1 -> Single4D(kinds, bits, n)
        [] s = "4DxP" /\ many = 2 -> Pair4D(kinds, bits, n)
        [] s = "4DxP" /\ many > 2 -> Mixed4D(kinds, bits, n)

\* A bin has a node of its own until the levels are used up.
IsLeaf(s, q) == IF s \in OneD THEN Len(q) = Len(Widths[s])
                ELSE Len(q) > 0 /\ Len(q) = 1 + Cardinality(Ordinary(KindsIn(s, q[1])))

-----------------------------------------------------------------------------
Unchosen ==
  /\ schema = "none" /\ points = <<>> /\ bytes = <<>> /\ header = FALSE
  /\ phase = "off" /\ offset = 0 /\ todo = <<>> /\ boundaries = <<>> /\ specials = "none" /\ calls = 0

\* Any histogram, whole, cut between two nodes or with a node behind it; or no bytes.
BBInit ==
  /\ schema \in Schemas
  /\ points \in UNION {[1 .. m -> Samples[schema]] : m \in 0 .. MaxSamples}
  /\ LET whole == FileOf(schema, points)
     IN  \/ header = TRUE /\ bytes \in {whole} \cup Torn(whole) \cup {Overlong(whole)}
         \/ header = FALSE /\ points = <<>> /\ bytes = <<>>
  /\ phase = "new" /\ offset = 0 /\ todo = <<>> /\ boundaries = <<>> /\ specials = "none" /\ calls = 0

\* An empty buffer leaves an object without a header.
Construct ==
  /\ phase = "new" /\ phase' = "idle"
  /\ specials' = IF header THEN "here" ELSE "none"
  /\ UNCHANGED <<schema, points, bytes, header, offset, todo, boundaries, calls>>

\* generateBinBoundaries: from where the last call left off; the header is used
\* without a check, and some schemas are not supported.
Generate ==
  /\ phase \in {"idle", "returned", "threw"} /\ calls < MaxCalls
  /\ calls' = calls + 1 /\ boundaries' = <<>>
  /\ todo' = <<[path |-> <<>>, count |-> 0]>>
  /\ phase' = IF ~ header THEN "crashed" ELSE IF schema \in OneD \cup {"2DxP", "3DxP", "4DxP"} THEN "walk" ELSE "threw"
  /\ UNCHANGED <<schema, points, bytes, header, offset, specials>>

AtNode == phase = "walk" /\ todo # <<>> /\ ~ IsLeaf(schema, Head(todo).path)

\* deserializeBitset and deserializeCountsToOriginalLen: the end marker is shorter
\* than a mask.
ReadNode ==
  /\ AtNode
  /\ IF offset < Len(bytes) /\ bytes[offset + 1] # EOF
     THEN LET node == bytes[offset + 1]
          IN  /\ offset' = offset + 1 /\ UNCHANGED phase
              /\ todo' = [k \in 1 .. Cardinality(DOMAIN node) |->
                            LET i == SetToSortSeq(DOMAIN node, <)[k]
                            IN  [path |-> Append(Head(todo).path, i), count |-> node[i]]] \o Tail(todo)
     ELSE phase' = "threw" /\ UNCHANGED <<offset, todo>>
  /\ UNCHANGED <<schema, points, bytes, header, boundaries, specials, calls>>

AddBoundary ==
  /\ phase = "walk" /\ todo # <<>> /\ IsLeaf(schema, Head(todo).path)
  /\ boundaries' = Append(boundaries, Boundary(schema, Head(todo).path, Head(todo).count))
  /\ todo' = Tail(todo)
  /\ UNCHANGED <<schema, points, bytes, header, phase, offset, specials, calls>>

\* BinBoundaryResult takes the special counts with it; the end marker is not looked at.
Return ==
  /\ phase = "walk" /\ todo = <<>>
  /\ phase' = "returned"
  /\ specials' = IF specials = "here" THEN "given" ELSE "gone"
  /\ UNCHANGED <<schema, points, bytes, header, offset, todo, boundaries, calls>>

BBNext == Construct \/ Generate \/ ReadNode \/ AddBoundary \/ Return

-----------------------------------------------------------------------------
Within(v, l, u) == CASE l = u -> v = l
                     [] l # u /\ u < 0 -> l < v /\ v <= u
                     [] OTHER -> l <= v /\ v < u

Encloses(b, pt) == \A d \in DOMAIN pt : Within(pt[d], b.lower[d], b.upper[d])

\* All numbers are special, and not all the same.
MixedSpecial(pt) == (\A d \in DOMAIN pt : KindOf(pt[d]) \in SpecialKinds) /\ \E d \in DOMAIN pt : pt[d] # pt[1]

BoundsMean(pts) ==
  LET filed == {k \in DOMAIN points : Filed(schema, points[k])}
  IN  \A k \in pts \cap filed :
        /\ Cardinality({j \in DOMAIN boundaries : Encloses(boundaries[j], points[k])}) = 1
        /\ \A j \in DOMAIN boundaries : Encloses(boundaries[j], points[k]) =>
             boundaries[j].count = Cardinality({i \in filed : Encloses(boundaries[j], points[i])})

(***************************************************************************)
(* Whatever became of the file's end and however often the object is       *)
(* asked, a list of boundaries that is returned is that of the whole       *)
(* histogram: every point lies within the bounds of exactly one of them,   *)
(* which counts just the points within.  Unless a node follows the trie it *)
(* comes with the special counts, though the first call gives them away:   *)
(* no other call gets that far (generateBinBoundaries).  Points whose      *)
(* numbers are all special, with different ones, are left out here   *)
(* (`SpecialBounds` claims them too), but their counts are in the sum.     *)
(***************************************************************************)
BoundsExact ==
  phase = "returned" =>
    /\ MapThenSumSet(LAMBDA j : boundaries[j].count, DOMAIN boundaries)
         = Cardinality({k \in DOMAIN points : Filed(schema, points[k])})
    /\ bytes # Overlong(FileOf(schema, points)) => specials = "given"
    /\ (\A k \in DOMAIN points : ~ MixedSpecial(points[k])) => BoundsMean(DOMAIN points)

\* BinBoundary.cpp:273: "Constructor expects: (min_x, min_y, max_x, max_y, count)"; so
\* the bounds of every boundary hold its points, those that are all special included.
SpecialBounds == phase = "returned" => BoundsMean(DOMAIN points)

=============================================================================
