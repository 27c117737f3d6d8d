# AirTree in TLA+

AirTree builds compact histograms ("tries") of floating point data, one to four
dimensions at a time, stores each in a file or buffer, merges any number of
them, and answers queries (percentile, CDF, top-k, boxes, grids) from them
alone. What makes it correct is that four pieces of code, each written several
times over for the nine schemas, agree on one byte stream: the generators that
fill a trie, the serializers that write it, the deserializers and queries that
read it, and the merges that read and write several at once without ever
building a trie. A disagreement is hard to see, because almost any bytes decode
as some trie.

This directory holds a TLA+ model of that core, the TLC runs that check it on
small instances, and TLAPS proofs of what matters most for all values of the
constants.

- `tlc -config MC_X.cfg MC_Y.tla` runs a check (`PROJECT.json` pairs them);
- `tlapm StandaloneProofs.tla`, and the same for `CommonProofs`, `TrieProofs`, `MergeProofs`,
  `SerdesProofs`, `BoxProofs`, `GridProofs` and `QueryProofs`, checks the proofs
  (`MergeProofs` and `SerdesProofs` take some eight minutes each, the others up to four).

## 1. Inventory

| Component | State | Operations | Interacts with | What is hard | What makes it correct |
|---|---|---|---|---|---|
| Count codec (`serdes/Count.cpp`) | bit accumulator, byte position | `serializeCounts`, `deserializeCounts`, `skipCounts` | called for every node by all serializers, merges, queries | word and byte refills mixed at any bit offset; 32-bit counts; damaged buffers | round trip; no byte outside the node touched; damage never decodes |
| Serialization (`serdes/`) | read offset | `serialize_*`, `deserialize_*`, masks, EOF marker | codec, header | nine schemas by hand; a child's presence is known from two places | writer and reader agree on which children follow |
| Generation (`schema/`) | trie in memory, its size, special counts | `generate_1DxT` ... `generate_4DxP`: check lengths, insert, roll up, write | encoding, serialization, header | masks and totals filled later than leaves; threshold; array lengths | the file is the histogram of the points; the header accounts for each value |
| N-way merge (`NWayMerge.cpp`) | a cursor per input, scratch per level, recursion | `mergeAirTrees`, `mergeStreaming` | codec, header | cursors must move in step; scratch shared by recursive calls; damaged inputs | equals the histogram of all values; refuses what is not whole |
| Pairwise merge (`airtree-merge/src/trie2d..4d`) | two offsets, nested loops | `mergeAirTree`, a `merge` per schema | node readers and writers, header | hand-unrolled loops over three cases at up to five levels; null nodes | same |
| Value encoding (`common/TLE`, `InternalEncoding`, `BitCodec`, `Reconstruct`) | none | number to kind and code, codes to bins, code to label | generation, histogram metadata | the fold of the exponent; how many zeros are counted; the first one left out; labels computed apart from codes | bins are intervals in the order of their labels, and contain them |
| Header (`AirTreeHeader.cpp`) | fields, CRC | make, serialize, parse, finalize | all | patched after the payload is known | counts agree with the root; a damaged one is refused |
| Reader, writer (`io/`) | the deserialized trie | `AirTreeReader::read`, `AirTreeWriter::Write` | deserializers, queries | failures returned as null and not looked at; what is left of a node that could not be read | no trie made up from a damaged file; what was read can be written and read again |
| Histogram metadata (`query/meta`) | process-wide table cache under a mutex | `tableFor`, `populatedBins` | all 1D queries | threads racing to build a table | each table built once, seen whole |
| 1D queries (`percentile`, `cdf`, `minmax`, `topk`) | populated bins, header | one query each | metadata | bins to sort by value; negative bins; zeros and infinities placed among the bins by each query; 32-bit totals | answers bracket the true ones; no object from a damaged file |
| Boxes (`bounding-box`) | trie, bin table; a count cache within a batch | `getCounts` in 2D and 3D, `getCountsBatch` | deserialized trie, metadata | unsigned indices at both ends of the table; a safe and a total box grown from what the safe one found; one code for single, another for batch | the safe count is that of the bins inside; the total covers it; no index leaves the table |
| Grid (`grid`) | deserialized trie, an extent computed once and shared by threads | `getGrid`, `materializeRows` | value encoding, bin table | the extent found by one thread while others ask; edges, steps, zero and infinities cut into intervals; codes parted again | each row counts what lies in its intervals; nothing in range is lost; intervals are disjoint |
| Bin boundaries (`bin-boundary`) | bytes, offset, special counts | `generateBinBoundaries` | value encoding, tables, export | a case per number of special values and schema, by hand; the object keeps its offset between calls | each point in the bounds of one bin, with the right count |
| Programs (`airtree-cli`, `airtree-merge/src/main.cpp`, `airtree-export`) | files, an output stream, a thread, the exit status | the subcommands, `airtree-merge`, `airtree-export` | all libraries, the disk | files written in place, output and input the same; writes that fail late; a joinable thread on an error path; a kill | success means a whole answer; nothing is lost before there is one |
| File readers, benchmarks, logging | - | Arrow columns to vectors; timing; log lines | generation | null entries | - |

`PROJECT.json` lists the components with their status, and under "hazards" the
places, by line, where this code can go wrong in ways a test hardly reaches.

## 2. The modules

```
TrieWire            tries, paths, tokens, the order of nodes in a file
  TrieProofs        nodes, their order, sums of tries
  HistogramSum      what a merge promises (abstract)
  MergeAirTrees     which merge an input goes to    implements HistogramSum
    StreamMerge     the N-way 1D merge
    PairwiseMerge   the fold of 2D-4D merges
    MergeProofs     both, and the refinement
  Generate          generators and serializers      writes TrieWire's Wire
  PopulatedBins     reading and sorting a 1D file   inverts TrieWire's Wire
    Queries1D       percentile, CDF, top-k, extremes
    QueryProofs     the constructor of the queries
  BinBoundary       a file's bins and their bounds
  Deserialize       header and deserializers        inverts the serializers
  SerdesProofs      Generate and Deserialize
CountCodec          one node's counts in bytes and bits
Encoding            from a number to its code and back to a label
TableCache          tables of labels, built once for all threads
Programs            invocations of the programs on one disk
  StandaloneProofs  CountCodec, TableCache and Programs, which no other module needs
Codes               how the codes of a point become its bins, and back (used by Generate,
                    GridAxis and BinBoundary)
  CommonProofs      Codes; sums over sets, orders of sets, digits (for all other proofs)
BinTable            the table of labels (used by BoxIndex and GridAxis)
  BoxIndex          from box to bins: the index arithmetic
    BoxQuery        getCounts in 2D and 3D
    BoxBatch        getCountsBatch with its cache
    BoxProofs       both
  GridAxis          the intervals of one axis of a grid
    GridQuery       getGrid, by threads that share an extent
      GridProofs
```

**The seam.** `CountCodec` says that a node's mask and counts survive the way
into bytes and back, that the reader stops where the writer did, and that a cut
node is not read. On that ground the other modules take a node as one *token*,
the function from its populated bins to their counts, and a file as a sequence
of tokens and an EOF marker. Three things are abstracted there: part of a node
never decodes as a node (so a file is cut between tokens; `Deserialize`, whose
readers go on after a failure, drops this), a node never has the
bytes of the EOF marker where the marker is looked for, and a count in a
deepest node does not wrap to exactly zero.

**CountCodec** (`Count.cpp`). A word is the set of its one bits, so the shifts
and masks of the code are set operations and can be proved about. Actions:
`PackCount` and `DrainByte` are the two loops of `serializeCounts`,
`FinishPacking` its last partial byte; `Truncate`, `StrayMaskBit`,
`ChangeWidth` are what storage may do to a node (at most one of them);
`BeginReading` holds the early returns of `deserializeCounts`, `RefillWord`
and `RefillByte` the two ways to fill the accumulator, `TakeCount` and
`RejectStrayBit` the loop over the mask's bits, `FinishReading` the last
assignment.

**TrieWire**. A trie is a function from paths (a bin per level) to counts.
`Depth` gives the length of the paths through a root bin, as `getNumDims2D` to
`4D` do. `Wire(t)` is the file of a trie: the only definition of the format the
other modules are checked against. It has no state.

**HistogramSum** is the contract of a merge in four actions: a single input is
passed on unread, whole inputs of one schema give `Wire` of the trie of all
their values, anything else is refused and nothing is returned.

**StreamMerge** (`NWayMerge.cpp`). The recursion of `mergeSubtree` and
`skipSubtree` is a stack of frames `[have, todo]`. `CopyNode` is the verbatim
copy of a subtree only one input has, `MergeNode` the reading, summing and
writing of a shared node; `masks` is the scratch of `LevelScratch`, which calls
at the same level share. Every way out of the code is a `pc`: `done`,
`corrupt` (thrown from anywhere in the walk), `mismatch`.

**PairwiseMerge** (`Merge2DxF.cpp` ... `Merge4DxP.cpp`). The nested loops have
one shape: at each populated bin, the child is in the first buffer, the second
or both; it is read, summed, written, and its own bins are visited if the
root bin's depth says so. The stack holds one frame per loop. Two differences
between the schemas are constants: `LeavesEarly` (the `break` of `Merge2DxF`)
and `ChecksOffsets` (the guard of `Merge2DxP`). What a node that cannot be read
leads to is modelled case by case: an exception at the roots, a skipped pair
with `ChecksOffsets`, the other leaf standing for both in the helpers that add
deepest nodes, and otherwise a null pointer that is dereferenced (`trap`).
`FirstOnly`, `SecondOnly` and `InBoth` are the three branches of each loop.

**MergeAirTrees** (`NWayMerge.cpp:164-185`) is the dispatch: a 1D schema has
levels to stream through and goes to `StreamMerge`, the others are folded by
`PairwiseMerge`. It instantiates both over the same variables and states once what
either must do: `ImplementsSum` and the invariants.

**Generate** (`schema/`, `serdes/`). `CheckLengths`, `Insert` (encode, count
specials, descend making nodes, bump the leaf), `RollUp`, `WriteHeader`,
`WriteNode` per recursive call, `WriteEOF`. Insertion counts at the leaf
only and, in 2D to 4D, marks the bins on the way; `RollUp` gives each bin with a child the
child's total (`Totals`) and in 1D marks the bins, those of the root by their totals, since all
its children are there (`Found`). A value is its kind and its code, a
sequence of bits; `Codes` makes the bins of a point from them: `Combine` puts the
size bits of all codes first and then their digits (`BitCodec.cpp`), and `Levels`
cuts the result into the bins of the levels, so that a level may hold bits of
several numbers.
The variable `check` is the length check that the schema has: any array of
another length refused (`2DxP`), only arrays that all differ from the first
(3D, 4D), none (1D, `2DxF`). `Threshold` is its size limit in nodes.
`ReadPastEnd` is the undefined read of an array that was shorter than the
first.

**Encoding** (`TLE.cpp`, `InternalEncoding.hpp`, `Reconstruct.cpp`,
`Histogram.cpp`). `Kind` is the TLE; `Fold`, `Zeros` and `Precision` are the steps
of every `createInternal*Bit`, which differ in two numbers and in the fold: the
constant `Forms`. `Reconstruct` makes a label of a code and `Table` of all codes.
The one action, `FileNext`, files the numbers of one sign one after the other from
zero up, so that properties can speak of neighbours and of bins already left.

**BoxIndex, BoxQuery, BoxBatch** (`BoundingBox.cpp`, `Histogram.cpp`).
`BoxIndex` is the arithmetic: `LowBin` and `HighBin` are the lookups of
`initSafeBox`, with their decrements modulo `IndexMod`; `SafeLow` and `SafeHigh`
the 3D variants; the rest grows a box by a bin on each side. `BoxQuery` has an
action per pass of `getCounts`: `CountSafe` (the loops over the safe box, which
also find the box the data fill), `ReturnPerfect` (the early return for a box
without bounds), `CountTotal`, and `ReadPastTable` for a loop that leaves the
table. `BoxBatch` processes a list of boxes one at a time over the cache of
cell counts, with the edges added to the safe count.

`BinTable` holds the labels in their order, what a bin holds (`Holds`) and the
lookups of `Histogram.cpp` that boxes and grids share.

**GridAxis, GridQuery** (`GridQuery.cpp`). `GridAxis` is `buildAxisModel`: the
bins that overlap the range (`InScope`), the one at each end that sticks out
(`FiniteParts`), runs of the rest by steps (`Interior`, `Group`), infinities and
zero (`WithZero`). In `GridQuery` a thread goes from `check` (everything wrong with
a request by itself) through `extent` if a range is open, to `models` and `count`.
`BeginWalk`, `VisitRecord` for each leaf and `EndWalk` are the call that
`call_once` makes, `PassOnce` that of a thread which comes later; another's walk
in between is what `NoRace` is about. The trie is that of the points, through `Path`
(the kinds in the root bin, `Codes` below), and is read back through `DeconstructTLE` and
`Split`: a slip on either side shows in `RowsExact`. Steps are divided exactly,
where the code divides and takes logarithms in doubles.

**PopulatedBins, Queries1D** (`PopulatedBins.cpp`, `Percentile.cpp`, `CDF.cpp`,
`TopK.cpp`, `MinMax.cpp`). The constructor's nested loops are a stack, as in
the merges: `ReadRoot`, `ReadInner` (mask only), `ReadLeaf` (emit the bins),
`EndLoop`, `VerifyEndMarker`, `Throw`; then `SortPass`, one pass of the radix sort
per digit. A query is one action on the constructed object and a pure function
of it. Each is a loop of its own over the bins, as a fold whose state is the loop's
variables, and each has its own way to put the zeros in, as in the code: `PastZeros` (percentile: both at
once, before the first bin above them or at the end), `WithZeros` and `Settled` (CDF: each once,
if not above the number, in the loop or after it), `TakingZeros` (top-k: from the other end), and
the choices of `MinValue` and `MaxValue`. Numbers are integers
that stand for the doubles in their order, with -0 and +0 next to each other;
fractions are exact, in units of `1 / Scale`, rounded down where a quotient is
not whole.

**Deserialize** (`AirTreeHeader.cpp`, `AirTreeReader.cpp`, `serdes/trie*/`). The
nine deserializers differ in three things, and each is a record of them: how many
levels of nodes they follow below a root bin (`below`), what a child that cannot be
read does (`child`: the whole trie null in 1D, the child left out otherwise) and
what a missing end marker does (`noEnd`). `expected` is the recursion, as the paths
yet to be read. A file may be cut between nodes, inside one, or have one too many;
after a failure inside a node the reader goes on there, and whatever looks like a
node may come (`ReadStray`). The header is a record with the length patched in and
the checksum taken last (`FinalizeHeader`); `HeaderAccepted` is every check of
`deserializeHeader`. `WriteAgain` writes what was read, and it is read once more.

**BinBoundary** (`BinBoundary.cpp`). The object of the program with its bytes,
offset and special counts: `Construct`, `Generate` (a call, from where the last one
left off), `ReadNode`, `AddBoundary` for a leaf, `Return`. What a leaf says is a
function for each number of special values and each schema, as in the code
(`Special2D` ... `Mixed4D`), so that the order of the bounds in each of them is
checked against the points.

**TableCache** (`Histogram.cpp:24-74`). Threads `Ask` for a length, `Acquire` the
mutex, `Find` the table or build it in the code's steps (`Resize`, `Fill`, `Sort`,
`Index`, `Emplace`), and `Return` it or `Throw` (a length no table has, or memory
that runs out at any of the allocations), which lets the lock go. Where labels are equal
the sort leaves their order open, so that two tables of one length can differ.

**Programs** (`CLI.cpp`, `AirTree.cpp`, `main.cpp`, `AirTreeMerge.cpp`,
`ExportCLI.cpp`). A session is a few invocations on one disk. Each is `Begin`,
`ReadInput` per file, `Compute`, `OpenOutput` (which cuts the file to nothing),
`Write`, `Close`, and one of the ways out: `Succeed`, `GiveUp`, the refusals, `Fault`
(a null node dereferenced) and `Kill`, possible anywhere. A write may reach the disk, stay in
the stream or fail; what was kept back is written by `Close` or lost. `End` is
the end of `main`: with `monitor` joinable it is an abort. What a file holds
is abstract: kind, schema and which data how often.

## 3. What the runs check

Every property has a mutant in `PROJECT.json`: a change to one mapped
definition, of the kind a slip in that code would make, under which TLC finds
the property violated.

| Run | Bounds | Shows |
|---|---|---|
| `core` | Generation. 1D: up to 3 values out of 10 (8 paths, NaN, zero). 2D: arrays of up to 3, all combinations of 5 values, codes of a size bit and a digit, a threshold of 3 nodes, which some inputs exceed and others do not, both checks a 2D schema may have. Encoding: all 4096 numbers of both signs of a format with 6 exponent and 6 fraction bits, in three forms: codes that keep the whole exponent, codes that do not, and the 8-bit fold. Counts: bytes of 2 bits, accumulator of 4 bytes, counts up to 5 bits, up to 4 bins: every bit offset, word refills with 2 to 4 bytes taken, byte refills at the end, partial last bytes. | `EqualLengths`, `ReadersAgree`, `WritesHistogram`, `HeaderAccounts`, and `OneDimCorrect` (the last three of the 1D instance); `LabelledByNearest`, `BinsAreIntervals`, `LabelsStay`, `LabelsFollow`; `PacksExactly`, `ReadsInBounds`, `RoundTrip`, `RejectsDamage`, `Terminates` |
| `merge` | up to 3 inputs, counts modulo 4. 1D: tries of depth 3, at most one input cut or overlong, at most the last of another schema. 2D to 4D: root bins of depth 1, 2 and 3, one input may be cut. Programs: 3 invocations out of 14 (both merge programs into a third file or into the first input, generate, queries, exports to CSV and Arrow), files of two schemas, missing, cut or whole. Table cache: 3 threads that ask twice each, for two lengths and one that is refused; two codes share a label | `OutputSoFar`, `BothAtEnd`, `HeaderTotals`, and `ImplementsSum` (for the fold: of whole inputs); `SuccessTold`, `KeptUntilAnswered`; `SeenWhole`, `OneTable`, `Answered` |
| `boxes` | 4 bins a side, 2 negative and 2 positive, up to 2 points on, between and beyond labels. Single 3D boxes: all combinations of ten sides, which end on, strictly between, below and above labels and at infinity, some without a label in them. 2D batches of 2 boxes that are equal, nested, overlapping, apart, empty or outside | `SafeByLabel`, `UnboundedExact`, `PastTableOnlyBelow`; `BatchCorrect` (of a batch: `SafeByLabel` and `MatchesSingle`) |
| `readers` | Queries: 8 bins of unequal widths, 4 negative, trie of 3 levels, 2 passes of the sort; up to 3 values of 11 (two infinities, two zeros, on, between and beyond labels); the file whole, cut anywhere or overlong; quarters for percentages; the CDF at 13 numbers. Boundaries: codes of 3 to 5 bits, up to 2 points of each schema, in 2D to 4D with every number of special values; 2 calls. Deserializers: tries of up to 2 paths in all nine schemas, under root bins of every number of ordinary dimensions, the file whole, cut between or inside nodes, overlong, or with a damaged header; one stray node | `ReadsHistogram`, `QuantileInBounds`, `CDFSkipsItsBins`, `TopKIsTail`, `ExtremesFound`; `BoundsExact`; `ReadBack`, `NothingMadeUp` |
| `grid` | 2D, 16 bins of unequal widths in the four kinds, codes of a size bit and a digit; up to 2 of 8 points with numbers on, between and beyond labels, zero, infinities and NaN; a thread that asks for any of 16 pairs of ranges, closed and open, on, between and beyond labels, scaled either way, or is refused, and one that asks for a grid open on both axes or on none | `RowsExact`, `NothingLost`, `Partitioned`, `NoRace` |

Four runs are of several modules or instances side by side (`core`, `merge`, `readers`,
and `boxes`, single boxes and batches); a behaviour is of one of them, chosen
in its first state, and the others stand still.

The bounds suffice for what can differ: two or three inputs give every way
sources can share a node or not at each level; three levels give a root, an
inner level and a leaf level, which is all the code distinguishes (the fourth
and fifth levels of 4D repeat the inner one); two bins per node give an order,
a sibling and an absence. The tries are chosen so that each pair of inputs meets
first at the root, at an inner node or at a leaf. In the boxes and the
queries, what the code distinguishes about a number is where it lies among the
labels (on one, between two, before the first, after the last) and on which side of zero;
the tables have each such place. Their labels are distinct and none is zero.
So it is in the real tables of 12 and 13 bits; in those of 16 and 20 bits some labels
of subnormal bins are equal and four codes are labelled zero. Two points suffice for a box to be
grown from one and miss the other; three values for a quantile with something
before and after it. In the deserializers one stray node is enough to have a wrong node
under a right one, and a root bin of each depth tells any two tables of depths apart
but for bins with the same number of ordinary dimensions, of which one stands for
all. Three invocations reach a program that reads what the one before left
unfinished and one that reads what came of that.

Fairness, in `CountCodec`, is weak fairness of each of the two loops (`CodecFairness`): the
functions run on one thread that is not stopped. In `TableCache`, where threads contend for a mutex, `Answered` assumes weak
fairness of each thread (`CacheFairness`): threads ask a bounded number of times, so one
that waits for the mutex is not passed over for ever. Nothing is assumed about which damage happens, if any. The other
modules state safety only and assume no fairness (a program may be killed at any
time); TLC checks `grid` for deadlock, so that no thread of `GridQuery` is left waiting
with nobody walking.

### Disagreements with what the repository says

Seven runs are expected to fail. They are about the code as it is.

- `merge_2dxf`: the `break` at `Merge2DxF.cpp:53` ends the loop over the first
  buffer's own leaf nodes after one leaf. Two or more under one inner node, at
  a root bin the second buffer does not have, and the merge drops nodes and then
  reads that buffer out of step. `CHANGELOG.md:87-89` promises byte-identical
  merges.
- `generate_lengths`: the 3D and 4D generators refuse arrays only if *all*
  lengths differ from the first ("Dimensions must be of equal length"). With lengths 1, 0
  and 1 the second array is read past its end (`WithinArrays`).
- `box_safe_total`: the total box is grown from the first cell with data, whose
  second and third bins are taken for the lowest ones; a safe cell with a lower
  one is then outside the total box, and `safe <= total` fails.
- `box_safe_contained`: `docs/cpp-api.md:328-330` says that safe bins are fully contained in the
  box and that the true count is at least the safe one (`SafeIsLowerBound`). A bin is taken as safe if
  its label lies in the box. With a bound inside the bin, beyond its label, the points
  behind the bound are counted as safe. `SafeByLabel` says what the safe count is.
- `cdf_negative`: `docs/cpp-api.md:284-286` promises the mass up to the value, less the value's
  bin unless interpolated (`CDFCountsBelow`). The loop takes the label of a bin for its lower end;
  that of a negative bin is its upper end. So the CDF at a number at or above zero leaves out the last
  bin below it, all of whose values are smaller, and below zero the bin labelled last before
  the number. `CDFSkipsItsBins` says exactly which bins are left out.
- `grid_open`: where a range is open, the extent of the data takes the place of
  the infinity, and that extent is one of labels. If the finite end lies inside the
  outermost bin beyond its label, start exceeds end and the points of that bin are in no
  row, although a closed range with that end reports the bin as an edge, with its
  full count, as `docs/cli.md:317` says. `NothingLost` says what is true: nothing
  is lost on an axis that has a value whose label is in the range.
- `boundaries_special`: a point all of whose numbers are special gets the bounds of its
  dimensions in turn, though the constructor takes all minima first
  ("Constructor expects: (min_x, min_y, max_x, max_y, count)", `BinBoundary.cpp:273`, of
  the next branch). The bin of (inf, 0) is listed from (inf, inf) to (0, 0). `BoundsExact`
  is the same for all other points.

Other things worth knowing, most of them visible in a definition or in the condition of
a property. No run refutes a statement about them: there is none, or none for the
whole of it, or the code is not modelled. Where the repository says
otherwise, the line is given:

- the 8-bit codes (2DxF, 3DxF, 4DxF) fold the bias to the far end: numbers in [1, 2)
  share a bin with those from 2^992 up (`BinsAreIntervals` names the exception).
  No table decodes 8-bit codes, so no query of `meta/Histogram` is affected;
- codes of 12 and 13 bits do not keep the whole of an exponent far below
  the bias (numbers under about 2^-128 and 2^-256). There a bin's label is one of
  its numbers but not its lower end (`LabelledByNearest`, `ExponentKnown`);
- 2DxF only logs that its arrays differ in length and reads the second one past
  its end if it is shorter (`"none"` in `LengthChecks`);
- a box below the first label makes the last safe bin the largest unsigned
  number and the 2D and 3D loops read past the table (`PastTableOnlyBelow`);
- `TestBoundingBox.cpp:642-656` asserts for its boxes that a batch returns what single queries do.
  The safe counts are equal for every box. The totals are (`MatchesSingle`) if no bound is a
  label or the end of the table and the first cell with data has the least bin of each
  dimension. Otherwise they can differ: a batch grows every side, from the least bins, where a single
  query grows only the sides that do not match, from the first cell (`BoundingBox.cpp:219-245`). The batch's total is never below the single one's where the safe box has
  data, and zero where it has none;
- a percentile that falls in a negative bin is interpolated from its label
  towards the next one, so it lies above the upper bound returned with it,
  although `Percentile.hpp:27-29` says it can at most equal it. `QuantileInBounds` claims the
  bounds for every bin, and the value for quantiles that are not negative;
- at percentile 0 the answer is minus infinity;
- a cut 2D to 4D input is merged without an error where the node it lacks is a deepest one
  that the other input has too (`LeafMissing`), and the end of the inputs is not verified.
  `TestNWayMerge.cpp:84-88` requires an exception for a cut input, in 1D only;
- `deserialize_2DxP` and `2DxF` return the trie of a file without an end marker (they log
  it), and a child that cannot be read stays null under its populated bit
  (`NothingMadeUp` says what is true for each number of dimensions);
- the header's payload length is written and covered by the checksum, but nothing reads it;
- a merge keeps the first header's length while it writes 49 bytes: a longer
  header, which no program writes, would have its checksum patched into the nodes;
- a second call of `generateBinBoundaries` throws, since the object's offset is past the
  trie, so no result lacks the special counts that the first one took along, unless the
  histogram is empty and an empty node follows it in the file (`BoundsExact`);
- `airtree generate`, `merge` and `export` exit 0 whatever happens, and
  `write_histogram_file` (`AirTree.cpp:307`) logs success without looking at the stream.
  `docs/cli.md:397` calls `airtree export` and `airtree-export` identical in behaviour, but only the
  latter returns 1 on a failure. `SuccessTold` names the programs it is true of;
- an export to Arrow (`saveArrowToFile`) writes no special counts, although `docs/cli.md:370`
  has them as metadata of Parquet and Arrow files; only `saveArrowToParquet` does;
- `docs/cli.md:92-94` says that null entries of a column are skipped; the readers
  (`ParquetReader.cpp:36`, `CSVReader.cpp:36`) copy `Value(j)` of every entry, so whatever lies
  under a null is counted. The readers have no module, so no run shows it;
- top-k asks for its share of the total rounded down;
- a range open at infinity reports its outermost positive (or negative) bin
  always as an edge, since the extent is that bin's label and the bin sticks out.

## 4. What is proved

`StandaloneProofs` proves the codec correct for every `ByteBits`, `AccBits`,
`MaxWidth`, set of counts and number of bins, under the module's assumptions, of
which one carries weight: `MaxWidth + ByteBits - 1 <= AccBits` (32 + 7 <= 64 in
the code; it fails for the 32-bit accumulator of before 1.6.0), with `AccBits`
a whole number of bytes.

- Theorem `Invariance`: `Spec => []IInv`. The properties are not inductive: to know
  what `TakeCount` reads, one must know what every byte of the payload and
  every bit of the accumulator is. `IInv` says it through `Stream(m)`, the set of the one
  bits of the first `m` counts laid end to end: while packing, the bytes written
  are the first `byte * ByteBits` positions of the stream and the accumulator is the rest
  (`PackingInv`); when sent, the payload is the whole stream (`PayloadInv`); while reading,
  the accumulator is the stream from `next * width` to `byte * ByteBits`
  (`ReadingInv`). Each action moves bits between the two sides of that
  equation; the lemmas about `Stream` and about multiplication and division carry the
  arithmetic.
- `TypeCorrect`, `RoundTripCorrect`, `DamageRejected`, `ReadingBounded` and
  `PackingExact` follow for the five safety properties of the run.

`TrieProofs` and `MergeProofs` prove the merges correct, for any number of inputs and any
tries: that a merge of whole inputs writes at every moment the beginning of the
histogram of all values (`OutputInOrder`), that both buffers of a fold are read up
(`BuffersReadUp`), that header and root agree (`HeaderAgrees`), and that `mergeAirTrees`
implements its contract (`MergeImplementsSum`: `ImplementsSum`, the refinement of
`HistogramSum`, by initial states and steps).

- The argument. Where a merge is, is the node `q` it has arrived at, and that is told by
  the stack: the bins that the frames still have to do are those beyond the one on the
  way to `q`. The nodes of the union that come before `q` are then the ones visited, and
  there are as many of them as tokens written; the same holds of each input and what has been read of it.
  Since a node's place in a file is the number of nodes before it, each cursor stands at
  the token of `q`, if the input has `q`, and at that of its next node after `q`
  otherwise. A copied subtree (`CopyNode`) and a summed node are then
  right for the same reason: the sum of the tokens of those who have `q` is the token of `q` in the
  union.
- `TrieProofs` has what this rests on: that `Before` is a total order of nodes, so
  that ranks are places in `Wire(t)` (`Placed`); that a walk that enters, leaves and
  passes nodes by their masks meets them in this order (`Walk...`); and that the tokens of
  a union are the sums of the tokens (`SumTokens`), modulo `CountMod`, whatever was
  reduced on the way. Facts about sums over sets of any size are proved by
  taking the set of the subsets for which they hold and showing that it has the full set
  (`SubsetInduction`), which no theorem with an operator parameter is needed for.
- The inductive invariant, `MergeInv`, is `StreamInv` or `FoldInv`: the stack is that of some
  path; for each frame `masks` holds, at its level, the mask of the node that the frame came from, whatever
  deeper calls wrote; the cursors stand as said; `out` is what it should be; in a fold, `acc`
  is the file of the union of the inputs before, as one buffer. It holds of damaged inputs as well: what a cut
  or overlong input can do to a stream is to end it in `corrupt`; of a fold nothing is said
  once an input is cut (`Claimed`).
- The assumptions: no node has the bytes of the marker (`EOFAssumption`), 1D paths
  have a bin per level (`LevelsAssumption`), inputs are tries (`TriesAssumption`), and
  `~ LeavesEarly`, for all but `HeaderAgrees` and the invariant: the `break` of `Merge2DxF` is what run
  `merge_2dxf` refutes these properties for.

`SerdesProofs` proves generation correct, for any number of arrays up to four, any schema,
values, order of arrival and threshold.

- `GenerateInvariance`: `Spec => []GenInv`. Let `t` be the trie of the points read so far, filed by
  their paths (`Filing`). While points are inserted the nodes in memory are the nodes of `t` (and
  the children of a 1D root), and a bin counts something only where it is a leaf of `t`
  (`Growing`: one point more adds the nodes on its way and one count, `ValueMoreNodes`,
  `FiledIs`). After the roll-up every bin has the number of points below it, and a node's mask
  is that of its token in `Wire(t)` (`Rolled`). That a child's total is what its bins hold
  together is `HeldTogether`; that no total wraps, so that none is zero by accident, is
  `NothingWraps`. While nodes are written, the tokens in the file are those of the nodes that
  come before the pending ones, and the pending ones are the head, what lies under it, and
  the rest in order (`Writing`), so the head is the next token of `Wire(t)` (`HeadWritten`).
- `WriterAndReaderAgree` (`ReadersAgree`) and `AllAccounted` (`HeaderAccounts`) follow. For the
  latter the points read are exactly as many as the loop went over, each is in the trie or
  marked special, and sums over points are sums over what they are counted by (`CountedByClass`).
- `HistogramIsWritten` (`WritesHistogram`): points of different codes have different paths
  (`PathsDistinct`), so the file is the histogram of the codes and not just of the paths. A path
  is the kinds, as the digits of the root bin, and then the levels; the kinds tell which axes
  have codes (`DigitsOfNumeral`); the levels are the bits of the combined codes
  (`LevelsJoined`), and these part into the codes they were combined from (`SplitOfCombine`).
  `Codes` computes numbers and levels by functions from one place to the next, and
  `Recursion` in `CommonProofs` gives what such a function is: its existence for every length is an
  induction over lengths as sets, which needs no theorem with an operator parameter. What
  is assumed is the layout of the nine schemas (`CodesAssumption`): codes of one length, and
  as many as are combined end where a level ends.
- `UnequalArraysRefused`: with the check that 2DxP has, generation never reads past an array
  (`EqualLengths`), by an invariant on the lengths, the loop index and `pc` (`InBounds`).
  The theorem assumes that the check is not that of 3D and 4D
  (`"all" \notin LengthChecks`); the run `generate_lengths` shows that the
  assumption is needed.
- The assumptions of the module, which TLC evaluates: arrays shorter than a counter's range (`ArraysAssumption`;
  the code counts in 32 bits), special values without a code (`ValuesAssumption`), and a trie
  that has room for the path of every point, of one length in 1D (`PathsAssumption`).

It also proves the readers correct (`Deserialize`), for any tries of any schema:

- `ReaderReadsBack` (`ReadBack`): an intact file is read back node for node and is never refused,
  the first time and after it was written again. `ReaderMakesNothingUp` (`NothingMadeUp`): whatever
  is done to the nodes or the header, a reader that returns a trie returns the one written, or in 2D a
  part of it, unless it went on inside a node that was cut.
- The argument (`DSInv`). The tokens of an intact file are the nodes in the order `Before`, and the
  paths still to be read stand for nodes: those in `expected`, with all under them, come
  in the order of the file. As long as no child failed, `readNodes` is just the nodes that
  come before the first of them (`Following`), so the next token is the node of the path
  that the reader takes it for, and its populated bins are the children it goes on with. In
  any case what has been read outside a piece is a part of what was written (`PartRead`).
  `FileInv` is what is known of a file, whole or damaged, and `ReadingInv` joins the two; the
  header is told by its checksum alone (`HeaderAccepted`). The readers know how deep
  to go from tables of their own (`below`), so the theorem assumes of a trie that the lengths of its
  paths are those of the table of its schema (`TriesAssumption`, which TLC evaluates for the run).
- `SerializedAsGenerated`: `Serialize` of the nodes of a trie is `Wire` of it. The serializer is
  written over nodes, which may lack children after a damaged read, `Wire` over tries; on tries
  they are the same, so what the generators write is what the readers are proved to read.

`BoxProofs` is about any table (ascending labels), any points and any boxes:

- `AxisExact`: in each dimension the bins selected by `initSafeBox3D` are exactly those
  with labels between the bounds, finite or not, inside the table or beyond, unless
  the upper bound lies below the first label. What carries it is what
  `lower_bound` returns; that it exists is the well-foundedness of finite sets
  ordered by inclusion, cited from the library.
- `IndicesStayInTable`: `PastTableOnlyBelow` in three dimensions, from the
  invariant that the safe box's upper bins are in the table (`HighInv`).
- `SafeCountIsExact` (`SafeByLabel`): the safe count is the number of points whose bins' labels lie
  in the box. The sum over the cells of the safe box is a count of points
  (`CellsCountPoints`), since each point is in one cell; and the cells are, by `AxisExact`, those with
  labels in the box (`SafeCellsExact`). The invariant `SafeInv` carries the count from the loop that
  makes it to the answer.
- `UnboundedCountsAll` (`UnboundedExact`): a query without bounds counts every point.
- `BatchIsCorrect`: `Batch!Spec => []Batch!BatchCorrect`, for two-dimensional batches of any
  length: each safe count is exact and that of a single query, whatever the batch asked before;
  where it is zero so is the total; and where it is not, the total equals that of a
  single query if the two grow the same box, and is at least that total otherwise. `BatchInv` says of the cache that every entry
  is the count of its cell (so that `CacheGrows` keeps it right), and of the answers given that
  they are right. For the totals, the box grown by the batch covers that grown by the single
  query: the one is grown from all that was found (`GrownCovers`, `EdgesCover`), the other
  from the first cell found, which is the lexicographically least (`FirstFound`). Where no
  side matches and that cell is the lower corner of all that was found, the two are one box (`GrownSame`, `GrowsAlike`), and
  its cells are those of the single query's total (`SumDisjoint`, `GrownHolds`).
  The run states it of its own instance (`MC_Boxes.BatchCorrect`).
- In `CommonProofs`: a sum over a set of what a classification puts into each member is the number of
  things classified (`CountedByClassOf`); a finite set that is totally ordered has a least
  member (`LeastByOrder`); sums over a larger set cover those over a smaller (`SumCovered`).

`GridProofs` proves all four properties of the run, for any number of threads, axes, points
and requests, and any table of bins and codes:

- `ExtentUnraced` (`NoRace`). With the places of the threads (`RaceInv`) `NoRace` is inductive, since it
  ties the flag to the walker: while a thread walks the flag says `running`, so none
  other begins or passes; and once it says `done` nobody walks again.
- `IntervalsPart` (`Partitioned`), `RowsCount` (`RowsExact`) and `PointsFound` (`NothingLost`), from
  the invariant `GridInv`. It says of the walk that the extent is wide enough for each
  record that has been visited (`WalkIs`), and of each thread that the axes it has are
  `AxisModel` of what it asked for and of an extent that is whole (`Built`), which is why
  `NoRace` is part of it; that a grid with an empty axis is not counted (`HasCells`); and that
  its counts are those of its axes (`CountsOf`). The three properties then follow of a state,
  in four steps.
- The intervals. `AxisModelFine`: the parts that `buildAxisModel` collects are, in their order, an
  edge, runs of whole bins, an edge, with zero and the infinities in their places; each
  spans a range of bins (`PiecesSpan`), they are apart, and together they have every bin
  in scope (`AxisPartsWhole`). There are at most as many runs as steps, since the group of a bin
  does not descend and is below the number of steps, in both scalings.
- What a leaf says. `Decoded`: for every point without NaN, `AxisBins` of its path gives for each axis the
  bin of its number, zero or the infinity, by the lemmas on `Codes` above (`BitsKept`).
- The cell. `ModelSorts`: on each axis, a number lies in interval `k` exactly if
  `PartitionIndex` of its bin is `k`. `RowIs`: the cell that a row is numbered from is the place
  it is told by, as the index is a numeral with the shape for its bases (`DigitsOfNumeral`), and the
  number of cells is the product of the shape unless the limit was exceeded (`CellsAre`).
  Hence each row adds up the leaves of just the points in its intervals (`RowCounted`).
- Nothing lost. A number in the range has its bin in scope (`Found`), if the range that is left
  when the extent replaces an open end is one; and that it is one follows from a label in
  the range (`LabelCovered`). The run `grid_open` shows that the condition is needed.
- The assumptions: labels ascend and none is zero (`TableAssumption`, `GridAssumption`), codes are of
  one schema and tell the bins apart, numbers of points lie in bins. Steps are divided
  exactly, as in the model: what rounding in doubles does to a step's end is not covered.

`QueryProofs` proves `HistogramIsRead` (`Spec => []ReadsHistogram`) for any data, any 1D
schema of two levels or more, any table and any digit of the sort: an object exists
exactly for a whole file, with the bins of the histogram, each once, in the order of their
labels. The invariant is `QueryInv` (`QueryInvariance`).

- The walk. The nested loops keep no path, only masks and a cursor. `Walking` says that
  they are at a place of a depth-first walk of the trie: the frames are those of the
  node at hand and of the nodes above it, the cursor is one past the nodes read (`Seen`), and the
  bins found are those of the deepest nodes among them (`FoundIn`). That what lies at the
  cursor is the node that the loops take it for (`TokenThere`) is the theory of `TrieProofs`:
  the tokens of a file are in the order of a depth-first walk, and from a node
  the walk enters its first child to do, or returns (`ChildEntered`, `ChildrenLeft`, `ParentReached`).
- The file. Cut, it lacks a token before the marker; overlong, it has one in the marker's
  place: so `pc = "sort"` is reached for a whole file only.
- The sort. `Ordered(bins, s)` says that the bins are in the order of their places modulo
  `s`, the weight of the digits done. A pass is a permutation (`PlacesByOrder`: in a strict
  total order, the number of things before a thing is its place) that puts the bins in the
  order of one digit more, as it takes those of one digit in the order it finds them in.
  When no place has a digit left, `s` exceeds each place and the order is that of the places.
- The assumptions: the table gives each code a place of its own (`PositionAssumption`); all
  leaves are at the same depth (`OneDimAssumption`), as the loops of each 1D schema have them.

`StandaloneProofs` also proves, for any number of threads, lengths, calls and codes per
table, that no thread is handed a table half built (`TablesWhole`) and that all
threads share one table of a length (`TablesShared`). The invariant (`CacheInv`) says
what the table in the making has so far at each step of the one thread inside the lock, and that
each table handed out is the one that the cache keeps. It rests on the sort
giving a permutation, from which the index is its inverse (`IndexUndoes`).

It proves too `SuccessIsTold` and `NothingLostForNothing` for any files, data and
invocations. The properties speak of the disk at the start, which no program
sees; the invariant (`ProgramInv`) ties to it what was read (`got` is the inputs as they
were, even if one of them is the output, since nothing is opened before all are
read), the answer (of just those), and the disk (changed at the output only, and only from
`opening` on).

Model-checked only:

- liveness (`Terminates`, `Answered`), which needs fairness and `ENABLED`;
- `Encoding` (`LabelledByNearest`, `BinsAreIntervals`, `LabelsStay`, `LabelsFollow`): bit arithmetic with
  powers of two whose exponents vary, over which neither prover computes;
- the answers of `Queries1D` (`QuantileInBounds`, `CDFSkipsItsBins`, `TopKIsTail`, `ExtremesFound`): they
  compare running totals over the bins with ranks among the values, by folds over sequences of
  records; `BinBoundary` (`BoundsExact`), likewise;
- `OneDimCorrect` and `BatchCorrect` of the MC modules, which restate properties of one instance
  that the theorems above (`WriterAndReaderAgree`, `HistogramIsWritten`, `AllAccounted`,
  `BatchIsCorrect`) have for every instance.

## 5. The plan

Done: every module of section 2. What could follow:

1. A module for the column readers (CSV, Parquet, binary), with nulls, and a run for
   `docs/cli.md:92-94`.
2. A run for the value of a percentile in negative bins against `Percentile.hpp`, and one
   for totals that wrap at 32 bits.
3. The older forms of counts (`Count.cpp:28-105`) and `skipCounts`.

Proofs to add: the answers of the queries, which from `HistogramIsRead` on are about one
sorted sequence of bins; `NothingMadeUp` for the header alone.

## 6. Not modelled

- Layout and wording: the bytes of the header's fields, log lines, UUIDs. The CRC-32 is
  taken to tell any two headers apart; `data_types` is carried by no model.
- How integers become doubles (`Conversion.cpp`), and the interleaved bit orders of
  `BitInterleave.cpp`, which only tests call. The modules meet at two places:
  `Generate` takes the codes that `Encoding` computes, boxes and queries file a
  number by the labels (`Holds`), which `LabelledByNearest` grounds.
- Counts in boxes and grids and totals in queries near 2^32, where they would wrap; grids
  of more than two axes (the module has them, the run does not).
- The 1D pairwise merges: nothing in the libraries reaches them.
- Readers of CSV, Parquet and binary files (`Programs` has them as one step that may
  fail), the parsing of arguments, the building of Arrow tables, benchmarks, the trie
  manager: I/O or synthetic data without control of its own.
- In `BinBoundary` the labels are distinct. In the tables of 16 and 20 bits the labels nearest
  zero occur twice, and the bounds of such a bin are empty (`[v, v)`).
- In `Programs` nobody else writes to the disk while a program runs, and the file system keeps what
  it was given.
- In `Generate`, sizes are counted in nodes, not bytes, and memory never runs
  out.
