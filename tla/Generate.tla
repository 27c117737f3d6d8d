------------------------------ MODULE Generate ------------------------------
(***************************************************************************)
(* Building a histogram: generate_1DxT ... generate_4DxP of                *)
(* airtree-core/src/schema.  The arrays are read element by element; each  *)
(* point goes down the trie, which grows as it needs to, and is counted at *)
(* its leaf alone; then rollUpCounts fills the counts above, and the nodes *)
(* are written depth first behind a header.                                *)
(*                                                                         *)
(* A 1D value that is NaN, zero or infinite is counted in the header and   *)
(* kept out of the trie.  In 2D to 4D every point is in the trie: the root *)
(* bin is made of the kinds (TLE) of its numbers, and only its ordinary    *)
(* numbers have a level below, whose bins mix their codes (Codes); the      *)
(* header's special counts are additional.                                 *)
(***************************************************************************)
EXTENDS TrieWire, Codes

CONSTANTS
  Dims,          \* number of arrays
  Kinds,         \* number of kinds of values (8 in the code)
  Specials,      \* the kinds that are not ordinary numbers
  Values,        \* what an array may hold: [kind, code], no code if special
  SizeBits,      \* the bits of a code that say how large its number is
  LevelBits,     \* the bits of a code that each level of the trie takes (in 2D
                 \* to 4D each level below the root)
  MaxLen,        \* bound: the length of an array
  LengthChecks,  \* arrays are refused if "any" length differs from the first's
                 \* (2DxP), if "all" do (3D, 4D), or never ("none": 2DxF logs)
  Threshold      \* the trie may grow to this size (in nodes; not in 1D)

ASSUME ArraysAssumption == /\ Dims \in 1 .. 4 /\ MaxLen \in 0 .. CountMod - 1
                           /\ LengthChecks \subseteq {"any", "all", "none"}
ASSUME ValuesAssumption ==
  /\ Kinds \in Nat /\ Specials \subseteq 0 .. Kinds - 1
  /\ Values \subseteq [kind : 0 .. Kinds - 1, code : Seq({0, 1})]
  /\ \A v \in Values : v.kind \in Specials => v.code = <<>>

OneD == Dims = 1

\* A 1D code says of which kind its number is.
ASSUME CodesAssumption ==
  LET ordinary == {v \in Values : v.kind \notin Specials}
  IN  /\ Coded({v.code : v \in ordinary}, SizeBits, LevelBits, Dims)
      /\ OneD => \A v, w \in ordinary : v.code = w.code => v = w

\* combinedTLE
TLE(pt) == Numeral([d \in 1 .. Dims |-> Kinds], [d \in 1 .. Dims |-> pt[d].kind])

\* The bins of a point: its TLE (not in 1D), then those of its ordinary numbers.
Path(pt) ==
  LET codes == InOrder([d \in 1 .. Dims |-> pt[d].code], {d \in 1 .. Dims : pt[d].kind \notin Specials})
  IN  (IF OneD THEN <<>> ELSE <<TLE(pt)>>) \o Levels(Combine(codes, SizeBits), LevelBits)

\* In 1D special values are kept out of the trie.
InTrie(pt) == ~ (OneD /\ pt[1].kind \in Specials)

Points == [1 .. Dims -> Values]

\* A trie has room for every point; a 1D trie has children at its root, and paths of one length.
ASSUME PathsAssumption ==
  /\ \A pt \in Points : InTrie(pt) => Path(pt) \in Leaves
  /\ OneD => MaxDepth > 1 /\ Depth = [i \in NodeBins(1) |-> MaxDepth]

VARIABLES
  check,     \* the length check of the schema
  lengths,   \* the length of each array
  pc,        \* where generate is
  points,    \* the points read so far (index `i` of the loop is its length)
  nodes,     \* the nodes in memory, by path: [counts, populated]
  special,   \* specialCounts
  todo,      \* the nodes still to write, in the order of the recursion
  header,    \* [trie, special]
  out        \* the nodes written

vars == <<check, lengths, pc, points, nodes, special, todo, header, out>>

\* curr_trie_size
Size == Cardinality(DOMAIN nodes)

NewNode(q) == [counts |-> [i \in NodeBins(Len(q) + 1) |-> 0], populated |-> {}]

\* The 1D roots are made with all their children.
Init ==
  /\ check \in LengthChecks
  /\ lengths \in [1 .. Dims -> 0 .. MaxLen]
  /\ pc = "check"
  /\ points = <<>>
  /\ nodes = [q \in {<<>>} \cup (IF OneD THEN {<<i>> : i \in NodeBins(1)} ELSE {}) |-> NewNode(q)]
  /\ special = [s \in Specials |-> 0]
  /\ todo = <<>>
  /\ header = [trie |-> 0, special |-> special]
  /\ out = <<>>

-----------------------------------------------------------------------------
Differing == {d \in DOMAIN lengths \ {1} : lengths[d] # lengths[1]}

\* Mutant: no check.
LengthsUnchecked == TRUE

LengthsAccepted ==
  CASE check = "any"  -> Differing = {}
    [] check = "all"  -> Differing # 2 .. Dims \/ OneD
    [] check = "none" -> TRUE

\* Mutant: a new child's bit is not set in the root.
FiledUnmarked(p) ==
  [q \in DOMAIN nodes \cup {SubSeq(p, 1, d) : d \in 0 .. Len(p) - 1} |->
     LET node == IF q \in DOMAIN nodes THEN nodes[q] ELSE NewNode(q)
         i    == BinAfter(p, q)
     IN  IF ~ IsStrictPrefix(q, p) THEN node
         ELSE [counts    |-> IF Len(q) = Len(p) - 1 THEN [node.counts EXCEPT ![i] = @ + 1]
                                                    ELSE node.counts,
               populated |-> IF OneD \/ (q = <<>> /\ Len(p) > 1) THEN {} ELSE node.populated \cup {i}]]

\* descend to the leaf, making nodes on the way, and bumpCount there.
Filed(p) ==
  [q \in DOMAIN nodes \cup {SubSeq(p, 1, d) : d \in 0 .. Len(p) - 1} |->
     LET node == IF q \in DOMAIN nodes THEN nodes[q] ELSE NewNode(q)
         i    == BinAfter(p, q)
     IN  IF ~ IsStrictPrefix(q, p) THEN node
         ELSE [counts    |-> IF Len(q) = Len(p) - 1 THEN [node.counts EXCEPT ![i] = @ + 1]
                                                    ELSE node.counts,
               populated |-> IF OneD THEN {} ELSE node.populated \cup {i}]]

\* Mutant: the counts of the values before are lost.
CountedAfresh(pt) == [s \in Specials |-> Cardinality({d \in 1 .. Dims : pt[d].kind = s})]

\* update_special_counts, in each dimension.
Counted(pt) == [s \in Specials |-> special[s] + Cardinality({d \in 1 .. Dims : pt[d].kind = s})]

-----------------------------------------------------------------------------
CheckLengths ==
  /\ pc = "check"
  /\ pc' = IF LengthsAccepted THEN "insert" ELSE "refused"
  /\ UNCHANGED <<check, lengths, points, nodes, special, todo, header, out>>

\* The point that takes the trie over the threshold is the last one inserted.
Full == ~ OneD /\ Size > Threshold

Insert ==
  /\ pc = "insert" /\ Len(points) < lengths[1] /\ ~ Full
  /\ \A d \in 1 .. Dims : Len(points) < lengths[d]
  /\ \E pt \in Points :
       /\ points' = Append(points, pt)
       /\ nodes' = IF InTrie(pt) THEN Filed(Path(pt)) ELSE nodes
       /\ special' = Counted(pt)
  /\ UNCHANGED <<check, lengths, pc, todo, header, out>>

\* vals2[i] with i past the second array's end: undefined behaviour.
ReadPastEnd ==
  /\ pc = "insert" /\ Len(points) < lengths[1] /\ ~ Full
  /\ \E d \in 1 .. Dims : Len(points) >= lengths[d]
  /\ pc' = "overrun"
  /\ UNCHANGED <<check, lengths, points, nodes, special, todo, header, out>>

\* rollUpNode: a bin with a child has the total of the child.
Totals ==
  LET sum[q \in DOMAIN nodes] ==
        SumFunction([i \in DOMAIN nodes[q].counts |->
                       IF Append(q, i) \in DOMAIN nodes THEN sum[Append(q, i)]
                                                        ELSE nodes[q].counts[i]]) % CountMod
  IN  [q \in DOMAIN nodes |-> [i \in DOMAIN nodes[q].counts |->
         IF Append(q, i) \in DOMAIN nodes THEN sum[Append(q, i)] ELSE nodes[q].counts[i]]]

\* Mutant: the root's children are all there, populated or not.
FoundByChild(q) == {i \in DOMAIN Totals[q] : Append(q, i) \in DOMAIN nodes}

\* In 1D the roll-up also finds the populated bins: of the root by their totals.
Found(q) ==
  {i \in DOMAIN Totals[q] : IF q = <<>> THEN Totals[q][i] # 0 ELSE Append(q, i) \in DOMAIN nodes}

RollUp ==
  /\ pc = "insert" /\ (Len(points) = lengths[1] \/ Full)
  /\ nodes' = [q \in DOMAIN nodes |->
                 [counts    |-> Totals[q],
                  populated |-> IF OneD THEN Found(q) ELSE nodes[q].populated]]
  /\ pc' = "header"
  /\ UNCHANGED <<check, lengths, points, special, todo, header, out>>

\* makeHeader, with countObservations of the root.
WriteHeader ==
  /\ pc = "header"
  /\ header' = [trie |-> SumFunction(nodes[<<>>].counts) % CountMod, special |-> special]
  /\ todo' = <<(<<>>)>>
  /\ pc' = "write"
  /\ UNCHANGED <<check, lengths, points, nodes, special, out>>

\* A deepest node's bins are populated where they have a count.
Mask(q) == IF Len(q) = MaxDepth - 1 THEN {i \in DOMAIN nodes[q].counts : nodes[q].counts[i] # 0}
                                    ELSE nodes[q].populated

Children(q) == Brood(q, {i \in Mask(q) : Append(q, i) \in DOMAIN nodes})

\* writeNode, then the recursion into the children.
WriteNode ==
  /\ pc = "write" /\ todo # <<>>
  /\ out' = Append(out, [i \in Mask(Head(todo)) |-> nodes[Head(todo)].counts[i]])
  /\ todo' = Children(Head(todo)) \o Tail(todo)
  /\ UNCHANGED <<check, lengths, pc, points, nodes, special, header>>

WriteEOF ==
  /\ pc = "write" /\ todo = <<>>
  /\ out' = Append(out, EOF)
  /\ pc' = "done"
  /\ UNCHANGED <<check, lengths, points, nodes, special, todo, header>>

Ended == pc \in {"done", "refused", "overrun"} /\ UNCHANGED vars

Generation == \/ CheckLengths \/ Insert \/ ReadPastEnd \/ RollUp
              \/ WriteHeader \/ WriteNode \/ WriteEOF

Next == Generation \/ Ended

Spec == Init /\ [][Next]_vars

-----------------------------------------------------------------------------
(***************************************************************************)
(* No element is read past the end of an array.  "Dimensions must be of    *)
(* equal length" (3DxP.cpp:100), say all schemas that check (2DxF does not *)
(* refuse, and nothing is claimed of it).                                  *)
(***************************************************************************)
WithinArrays == check # "none" => pc # "overrun"

(***************************************************************************)
(* Where any difference from the first array's length is refused, no array *)
(* is read past its end, and what is generated is of arrays of one length. *)
(***************************************************************************)
EqualLengths ==
  check # "none" => /\ pc # "overrun"
                    /\ pc \notin {"check", "refused"} => Differing = {}

(***************************************************************************)
(* Writer and reader agree on where the children are: the writer writes a  *)
(* child where the node in memory has one; the reader and the merges read  *)
(* one for each bit of the mask that is above the depth its root bin       *)
(* (getNumDims) gives.  The two sides keep this in different code.         *)
(***************************************************************************)
ReadersAgree ==
  pc \in {"write", "done"} \/ (pc = "insert" /\ ~ OneD) =>
    \A q \in DOMAIN nodes : \A i \in NodeBins(Len(q) + 1) :
      (i \in Mask(q) /\ Len(q) + 1 < Depth[Append(q, i)[1]])
        <=> (Append(q, i) \in DOMAIN nodes /\ (OneD => Mask(Append(q, i)) # {}))

\* The histogram of the points read: a leaf for each point, with the number of its
\* equals.
TrieOf(pts) ==
  [p \in {Path(pts[k]) : k \in {j \in DOMAIN pts : InTrie(pts[j])}} |->
     LET pt == CHOOSE x \in Range(pts) : InTrie(x) /\ Path(x) = p
     IN  Cardinality({k \in DOMAIN pts : pts[k] = pt})]

(***************************************************************************)
(* What is written is the histogram of the points: leaf counters, roll-up, *)
(* masks and the order of the recursion together give the file that the    *)
(* trie of the points has, in whatever order the points came, and no two   *)
(* points of different codes are counted as one.                           *)
(***************************************************************************)
WritesHistogram == pc = "done" => out = Wire(TrieOf(points))

(***************************************************************************)
(* No value is unaccounted for: trie_count and, in 1D, the special counts  *)
(* add up to the length of the arrays, unless the trie outgrew the         *)
(* threshold; then to the number of points inserted before that showed.    *)
(***************************************************************************)
HeaderAccounts ==
  pc = "done" =>
    /\ Len(points) = lengths[1] \/ Full
    /\ header.trie = Cardinality({k \in DOMAIN points : InTrie(points[k])})
    /\ header.trie + (IF OneD THEN SumFunction(header.special) ELSE 0) = Len(points)
    /\ SumFunction(header.special)
         = Cardinality({kd \in (DOMAIN points) \X (1 .. Dims) : points[kd[1]][kd[2]].kind \in Specials})

=============================================================================
