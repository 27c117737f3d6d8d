---------------------------- MODULE SerdesProofs ----------------------------
(***************************************************************************)
(* What generate writes is the histogram of the points it read: for any    *)
(* number of arrays, any shape of trie, any values whose paths are in that *)
(* trie, any order of the points and any threshold.  And what any reader   *)
(* reads of it is that trie, for any trie of the reader's schema.          *)
(*                                                                         *)
(* First the trie of the points (Filing) and how a point more changes it;  *)
(* then the nodes in memory while points are inserted (Growing) and after  *)
(* the roll-up (Rolled); then the recursion of the writer (Writing), which *)
(* leaves the nodes still to be written behind those written.  GenInv puts *)
(* the three together.                                                     *)
(*                                                                         *)
(* Apart from that, where the lengths of all the arrays are compared       *)
(* (2DxP), the insertion loop stays inside every array.                    *)
(* MC_GenerateLengths.cfg shows that the comparison of the 3D and 4D       *)
(* schemas does not give this.                                             *)
(*                                                                         *)
(* Then the file (InFile) whole and damaged, its header, and the recursion *)
(* of a reader, which has the nodes still to be read in the order of the   *)
(* file: Following says that it has lost none, PartRead what it has in any *)
(* case.  DSInv puts these together.                                       *)
(***************************************************************************)
EXTENDS Generate, Deserialize, TrieProofs

-----------------------------------------------------------------------------
\* The points that are in the trie, and those of them that are filed under p.
Inserted(pts) == {k \in DOMAIN pts : InTrie(pts[k])}
At(pts, p)    == {k \in Inserted(pts) : Path(pts[k]) = p}

\* The trie of the points, whichever points share a path.
Filing(pts) == [p \in {Path(pts[k]) : k \in Inserted(pts)} |-> Cardinality(At(pts, p))]

\* The leaf counter of a path.
CountAt(t, p) == IF p \in DOMAIN t THEN t[p] ELSE 0

\* The trie of the points is one of the schema, with a positive count for each path.
LEMMA FilingIs ==
  ASSUME NEW pts \in Seq(Points)
  PROVE  /\ IsFiniteSet(Inserted(pts)) /\ Levelled(Filing(pts), Depth)
         /\ DOMAIN Filing(pts) = {Path(pts[k]) : k \in Inserted(pts)}
         /\ \A p \in DOMAIN Filing(pts) : p \in Leaves /\ Filing(pts)[p] \in Nat \ {0}
         /\ \A p : /\ CountAt(Filing(pts), p) = Cardinality(At(pts, p))
                   /\ IsFiniteSet(At(pts, p)) /\ Cardinality(At(pts, p)) \in Nat
<1>1. Len(pts) \in Nat /\ DOMAIN pts = 1 .. Len(pts) /\ \A k \in DOMAIN pts : pts[k] \in Points
  OBVIOUS
<1>2. IsFiniteSet(Inserted(pts)) /\ \A p : IsFiniteSet(At(pts, p))
  <2>1. IsFiniteSet(1 .. Len(pts))
    BY <1>1, FS_Interval
  <2>2. Inserted(pts) \in SUBSET (1 .. Len(pts)) /\ \A p : At(pts, p) \in SUBSET (1 .. Len(pts))
    BY <1>1 DEF Inserted, At
  <2> QED
    BY <2>1, <2>2, FS_Subset
<1>3. DOMAIN Filing(pts) = {Path(pts[k]) : k \in Inserted(pts)}
  BY DEF Filing
<1>4. IsFiniteSet(DOMAIN Filing(pts))
  <2> DEFINE f == [k \in Inserted(pts) |-> Path(pts[k])]
  <2>1. {Path(pts[k]) : k \in Inserted(pts)} = {f[k] : k \in Inserted(pts)}
    OBVIOUS
  <2> HIDE DEF f
  <2>2. IsFiniteSet({f[k] : k \in Inserted(pts)})
    BY <1>2, ImageFinite
  <2> QED
    BY <1>3, <2>1, <2>2, Zenon
<1>5. \A p : Cardinality(At(pts, p)) \in Nat
  BY <1>2, FS_CardinalityType
<1>6. ASSUME NEW p \in DOMAIN Filing(pts) PROVE p \in Leaves /\ Filing(pts)[p] \in Nat \ {0}
  <2>1. PICK k \in Inserted(pts) : p = Path(pts[k])
    BY <1>3
  <2>2. InTrie(pts[k]) /\ pts[k] \in Points
    BY <1>1 DEF Inserted
  <2>3. p \in Leaves
    BY <2>1, <2>2, PathsAssumption
  <2>4. k \in At(pts, p) /\ Filing(pts)[p] = Cardinality(At(pts, p))
    BY <2>1, <1>3 DEF At, Filing
  <2>5. Cardinality(At(pts, p)) # 0
    BY <2>4, <1>2, FS_EmptySet
  <2> QED
    BY <2>3, <2>4, <2>5, <1>5
<1>7. ASSUME NEW p PROVE CountAt(Filing(pts), p) = Cardinality(At(pts, p))
  <2>1. CASE p \in DOMAIN Filing(pts)
    BY <2>1, <1>3 DEF CountAt, Filing
  <2>2. CASE p \notin DOMAIN Filing(pts)
    <3>1. At(pts, p) = {}
      BY <2>2, <1>3 DEF At
    <3> QED
      BY <3>1, <2>2, FS_EmptySet DEF CountAt
  <2> QED
    BY <2>1, <2>2
<1>8. Levelled(Filing(pts), Depth)
  <2>1. \A p \in DOMAIN Filing(pts) : Filing(pts)[p] \in Int
    BY <1>6
  <2>2. IsTrie(Filing(pts))
    BY <1>4, <1>6, <2>1, LeafIsPath DEF IsTrie
  <2> QED
    BY <2>2, <1>6, LeafIsPath DEF Levelled
<1> QED
  BY <1>2, <1>3, <1>5, <1>6, <1>7, <1>8

\* One point more.
LEMMA OnePointMore ==
  ASSUME NEW pts \in Seq(Points), NEW pt \in Points, NEW more, more = Append(pts, pt)
  PROVE  /\ more \in Seq(Points) /\ Len(more) = Len(pts) + 1
         /\ Inserted(more) = IF InTrie(pt) THEN Inserted(pts) \cup {Len(pts) + 1} ELSE Inserted(pts)
         /\ ~ InTrie(pt) => Filing(more) = Filing(pts)
         /\ InTrie(pt) => /\ DOMAIN Filing(more) = DOMAIN Filing(pts) \cup {Path(pt)}
                          /\ \A p : CountAt(Filing(more), p) =
                                      CountAt(Filing(pts), p) + IF p = Path(pt) THEN 1 ELSE 0
<1> DEFINE n == Len(pts) + 1
<1>1. /\ more \in Seq(Points) /\ Len(more) = n /\ DOMAIN pts = 1 .. Len(pts) /\ Len(pts) \in Nat
      /\ DOMAIN more = 1 .. n /\ more[n] = pt /\ \A k \in 1 .. Len(pts) : more[k] = pts[k]
  OBVIOUS
<1>2. DOMAIN more = DOMAIN pts \cup {n} /\ n \notin DOMAIN pts /\ \A k \in DOMAIN pts : more[k] = pts[k]
  BY <1>1
<1> HIDE DEF n
<1>3. Inserted(more) = IF InTrie(pt) THEN Inserted(pts) \cup {n} ELSE Inserted(pts)
  BY <1>1, <1>2 DEF Inserted
<1>4. /\ \A k \in Inserted(pts) : more[k] = pts[k]
      /\ n \notin Inserted(pts)
  BY <1>2 DEF Inserted
<1>5. ASSUME ~ InTrie(pt) PROVE Filing(more) = Filing(pts)
  <2>1. Inserted(more) = Inserted(pts)
    BY <1>3, <1>5
  <2>2. \A p : At(more, p) = At(pts, p)
    BY <2>1, <1>4 DEF At
  <2>3. {Path(more[k]) : k \in Inserted(more)} = {Path(pts[k]) : k \in Inserted(pts)}
    BY <2>1, <1>4
  <2> QED
    BY <2>2, <2>3 DEF Filing
<1>6. ASSUME InTrie(pt)
      PROVE  /\ DOMAIN Filing(more) = DOMAIN Filing(pts) \cup {Path(pt)}
             /\ \A p : CountAt(Filing(more), p) =
                         CountAt(Filing(pts), p) + IF p = Path(pt) THEN 1 ELSE 0
  <2>1. Inserted(more) = Inserted(pts) \cup {n}
    BY <1>3, <1>6
  <2>2. {Path(more[k]) : k \in Inserted(more)} = {Path(pts[k]) : k \in Inserted(pts)} \cup {Path(pt)}
    BY <2>1, <1>1, <1>4
  <2>3. DOMAIN Filing(more) = DOMAIN Filing(pts) \cup {Path(pt)}
    BY <2>2 DEF Filing
  <2>4. ASSUME NEW p
        PROVE  CountAt(Filing(more), p) = CountAt(Filing(pts), p) + IF p = Path(pt) THEN 1 ELSE 0
    <3>1. At(more, p) = IF p = Path(pt) THEN At(pts, p) \cup {n} ELSE At(pts, p)
      BY <2>1, <1>1, <1>4 DEF At
    <3>2. n \notin At(pts, p)
      BY <1>4 DEF At
    <3>3. /\ CountAt(Filing(pts), p) = Cardinality(At(pts, p))
          /\ IsFiniteSet(At(pts, p)) /\ Cardinality(At(pts, p)) \in Nat
      BY FilingIs
    <3>4. CountAt(Filing(more), p) = Cardinality(At(more, p))
      BY <1>1, FilingIs
    <3>5. Cardinality(At(pts, p) \cup {n}) = Cardinality(At(pts, p)) + 1
      BY <3>2, <3>3, FS_AddElement
    <3> QED
      BY <3>1, <3>3, <3>4, <3>5
  <2> QED
    BY <2>3, <2>4
<1> QED
  BY <1>1, <1>3, <1>5, <1>6 DEF n

-----------------------------------------------------------------------------
\* The nodes a 1D trie has before any value comes.
Rooms == IF OneD THEN {<<i>> : i \in NodeBins(1)} ELSE {}

\* The node q of the trie t as it is while points are inserted: only leaves are counted,
\* and in 1D no bin is marked.
Raw(t, q) ==
  [counts    |-> [i \in NodeBins(Len(q) + 1) |-> CountAt(t, Append(q, i))],
   populated |-> IF OneD THEN {} ELSE DOMAIN Token(t, q)]

\* The nodes in memory are those of the trie of the points read.
Growing(t) ==
  /\ DOMAIN nodes = Nodes(t) \cup Rooms
  /\ \A q \in DOMAIN nodes : nodes[q] = Raw(t, q)

\* Nodes lie above the deepest level.
LEMMA NodePlaces ==
  ASSUME NEW t, Levelled(t, Depth), NEW q \in Nodes(t) \cup Rooms
  PROVE  q \in Paths /\ Len(q) \in Nat /\ Len(q) + 1 \in 1 .. MaxDepth
<1>1. CASE q \in Nodes(t)
  BY <1>1, NodeDepth
<1>2. CASE q \in Rooms
  <2>1. PICK i \in NodeBins(1) : OneD /\ q = <<i>>
    BY <1>2 DEF Rooms
  <2>2. i \in Nat /\ Len(q) = 1
    BY <2>1 DEF NodeBins
  <2>3. MaxDepth > 1 /\ MaxDepth \in Nat
    BY <2>1, PathsAssumption, BinsAssumption DEF MaxDepth
  <2> QED
    BY <2>1, <2>2, <2>3 DEF Paths
<1> QED
  BY <1>1, <1>2

\* Nothing is counted below what is not a node.
LEMMA NotANode ==
  ASSUME NEW t, IsTrie(t), NEW q \in Paths, q \notin Nodes(t)
  PROVE  /\ Below(t, q) = {} /\ DOMAIN Token(t, q) = {}
         /\ \A i \in Nat : CountAt(t, Append(q, i)) = 0
<1>1. \A p \in DOMAIN t : ~ (Len(q) < Len(p) /\ Under(q, p))
  BY NodeIs
<1>2. Below(t, q) = {}
  BY <1>1, BelowIs
<1>3. DOMAIN Token(t, q) = {}
  <2>1. DOMAIN Token(t, q) = {BinAfter(p, q) : p \in Below(t, q)}
    BY TokenIs
  <2> QED
    BY <1>2, <2>1
<1>4. ASSUME NEW i \in Nat PROVE Append(q, i) \notin DOMAIN t
  <2>1. Len(q) < Len(Append(q, i)) /\ Under(q, Append(q, i))
    BY Extended, LenProperties DEF Under, Paths
  <2> QED
    BY <2>1, <1>1
<1> QED
  BY <1>2, <1>3, <1>4 DEF CountAt

\* A path is one bin longer than a node just above its leaf.
LEMMA LastBin ==
  ASSUME NEW q \in Paths, NEW p \in Paths, NEW i \in Nat
  PROVE  Append(q, i) = p <=> IsStrictPrefix(q, p) /\ Len(q) = Len(p) - 1 /\ i = BinAfter(p, q)
<1>1. /\ Append(q, i) \in Paths /\ Len(Append(q, i)) = Len(q) + 1 /\ Append(q, i)[Len(q) + 1] = i
      /\ \A j \in 1 .. Len(q) : Append(q, i)[j] = q[j]
  BY Extended
<1>2. Len(q) \in Nat /\ Len(p) \in Nat
  BY LenProperties DEF Paths
<1>3. IsStrictPrefix(q, p) <=> Len(q) < Len(p) /\ Under(q, p)
  BY StrictPrefixIs
<1>4. ASSUME Append(q, i) = p
      PROVE  IsStrictPrefix(q, p) /\ Len(q) = Len(p) - 1 /\ i = BinAfter(p, q)
  BY <1>1, <1>2, <1>3, <1>4 DEF Under, BinAfter
<1>5. ASSUME IsStrictPrefix(q, p), Len(q) = Len(p) - 1, i = BinAfter(p, q)
      PROVE  Append(q, i) = p
  <2>1. Len(p) = Len(q) + 1 /\ \A j \in 1 .. Len(q) + 1 : Append(q, i)[j] = p[j]
    BY <1>1, <1>2, <1>3, <1>5 DEF Under, BinAfter
  <2> QED
    BY <2>1, <1>1, SeqEqual DEF Paths
<1> QED
  BY <1>4, <1>5

\* The nodes on the way to a leaf.
LEMMA NodesOnTheWay ==
  ASSUME NEW p \in Paths \ {<<>>}, NEW q
  PROVE  q \in {SubSeq(p, 1, d) : d \in 0 .. Len(p) - 1} <=> q \in Paths /\ IsStrictPrefix(q, p)
<1>1. Len(p) \in Nat \ {0}
  BY LenProperties, EmptySeq DEF Paths
<1>2. ASSUME NEW d \in 0 .. Len(p) - 1, q = SubSeq(p, 1, d)
      PROVE  q \in Paths /\ IsStrictPrefix(q, p)
  <2>1. q \in Paths /\ Len(q) = d /\ \A i \in 1 .. d : q[i] = p[i]
    BY <1>1, <1>2, Beginning
  <2> QED
    BY <2>1, <1>1, StrictPrefixIs DEF Under
<1>3. ASSUME q \in Paths, IsStrictPrefix(q, p)
      PROVE  \E d \in 0 .. Len(p) - 1 : q = SubSeq(p, 1, d)
  <2>1. Len(q) < Len(p) /\ Under(q, p) /\ Len(q) \in Nat
    BY <1>3, StrictPrefixIs, LenProperties DEF Paths
  <2> DEFINE r == SubSeq(p, 1, Len(q))
  <2>2. r \in Paths /\ Len(r) = Len(q) /\ \A i \in 1 .. Len(q) : r[i] = p[i]
    BY <1>1, <2>1, Beginning
  <2> HIDE DEF r
  <2>3. q = r
    BY <1>3, <2>1, <2>2, SeqEqual DEF Paths, Under
  <2>4. Len(q) \in 0 .. Len(p) - 1
    BY <1>1, <2>1
  <2>5. q = SubSeq(p, 1, Len(q))
    BY <2>3 DEF r
  <2> QED
    BY <2>4, <2>5
<1> QED
  BY <1>2, <1>3

\* A trie with one path more, or one value more on a path.
ValueMore(t, u, p) ==
  /\ Levelled(t, Depth) /\ Levelled(u, Depth) /\ p \in Leaves
  /\ DOMAIN u = DOMAIN t \cup {p}
  /\ \A r : CountAt(u, r) = CountAt(t, r) + IF r = p THEN 1 ELSE 0
  /\ \A r : CountAt(t, r) \in Nat

\* The nodes on the way to a path.
Way(p) == {SubSeq(p, 1, d) : d \in 0 .. Len(p) - 1}

\* Its nodes and their bins.
LEMMA ValueMoreNodes ==
  ASSUME NEW t, NEW u, NEW p, ValueMore(t, u, p)
  PROVE  /\ Nodes(u) = Nodes(t) \cup Way(p)
         /\ \A q \in Paths :
              DOMAIN Token(u, q) = DOMAIN Token(t, q) \cup IF IsStrictPrefix(q, p) THEN {BinAfter(p, q)} ELSE {}
<1>1. IsTrie(t) /\ IsTrie(u) /\ p \in Paths \ {<<>>} /\ DOMAIN u = DOMAIN t \cup {p}
  BY LeafIsPath DEF ValueMore, Levelled
<1>2. ASSUME NEW q
      PROVE  q \in Nodes(u) <=> q \in Nodes(t) \/ q \in Way(p)
  <2>1. q \in Nodes(u) <=> q = <<>> \/ (q \in Paths /\ \E r \in DOMAIN u : Len(q) < Len(r) /\ Under(q, r))
    BY <1>1, NodeIs
  <2>2. q \in Nodes(t) <=> q = <<>> \/ (q \in Paths /\ \E r \in DOMAIN t : Len(q) < Len(r) /\ Under(q, r))
    BY <1>1, NodeIs
  <2>3. q \in Way(p) <=> q \in Paths /\ Len(q) < Len(p) /\ Under(q, p)
    BY <1>1, NodesOnTheWay, StrictPrefixIs DEF Way
  <2> QED
    BY <1>1, <2>1, <2>2, <2>3
<1>3. ASSUME NEW q \in Paths
      PROVE  DOMAIN Token(u, q) = DOMAIN Token(t, q) \cup IF IsStrictPrefix(q, p) THEN {BinAfter(p, q)} ELSE {}
  <2>1. Below(u, q) = Below(t, q) \cup IF IsStrictPrefix(q, p) THEN {p} ELSE {}
    BY <1>1 DEF Below
  <2>2. DOMAIN Token(u, q) = {BinAfter(r, q) : r \in Below(u, q)}
    BY <1>1, TokenIs
  <2>3. DOMAIN Token(t, q) = {BinAfter(r, q) : r \in Below(t, q)}
    BY <1>1, TokenIs
  <2> QED
    BY <2>1, <2>2, <2>3
<1> QED
  BY <1>2, <1>3

\* Filed makes of the nodes of a trie those of the trie with one value more.
LEMMA FiledIs ==
  ASSUME NEW t, NEW u, NEW p, ValueMore(t, u, p), Growing(t)
  PROVE  /\ DOMAIN Filed(p) = Nodes(u) \cup Rooms
         /\ \A q \in DOMAIN Filed(p) : Filed(p)[q] = Raw(u, q)
<1>1. DOMAIN Filed(p) = DOMAIN nodes \cup Way(p)
  BY DEF Filed, Way
<1>2. /\ Nodes(u) = Nodes(t) \cup Way(p)
      /\ \A q \in Paths :
           DOMAIN Token(u, q) = DOMAIN Token(t, q) \cup IF IsStrictPrefix(q, p) THEN {BinAfter(p, q)} ELSE {}
  BY ValueMoreNodes
<1>3. DOMAIN nodes = Nodes(t) \cup Rooms
  BY DEF Growing
<1>4. DOMAIN Filed(p) = Nodes(u) \cup Rooms
  BY <1>1, <1>2, <1>3
<1>5. /\ IsTrie(t) /\ Levelled(u, Depth) /\ p \in Paths \ {<<>>} /\ Len(p) \in 1 .. MaxDepth
      /\ \A d \in 1 .. Len(p) : p[d] \in NodeBins(d)
      /\ \A r : CountAt(u, r) = CountAt(t, r) + IF r = p THEN 1 ELSE 0
      /\ \A r : CountAt(t, r) \in Nat
  BY LeafIsPath DEF ValueMore, Levelled
<1>6. ASSUME NEW q \in DOMAIN Filed(p) PROVE Filed(p)[q] = Raw(u, q)
  <2> DEFINE node == IF q \in DOMAIN nodes THEN nodes[q] ELSE NewNode(q)
             i    == BinAfter(p, q)
  <2>1. Filed(p)[q] = IF ~ IsStrictPrefix(q, p) THEN node
                      ELSE [counts    |-> IF Len(q) = Len(p) - 1 THEN [node.counts EXCEPT ![i] = @ + 1]
                                                                 ELSE node.counts,
                            populated |-> IF OneD THEN {} ELSE node.populated \cup {i}]
    BY <1>1 DEF Filed
  <2>2. q \in Paths /\ Len(q) \in Nat /\ Len(q) + 1 \in 1 .. MaxDepth
    BY <1>4, <1>5, NodePlaces
  <2>3. NodeBins(Len(q) + 1) \subseteq Nat
    BY DEF NodeBins
  <2>4. node = Raw(t, q)
    <3>1. CASE q \in DOMAIN nodes
      BY <3>1 DEF Growing
    <3>2. CASE q \notin DOMAIN nodes
      <4>1. q \notin Nodes(t)
        BY <3>2, <1>3
      <4>2. DOMAIN Token(t, q) = {} /\ \A j \in NodeBins(Len(q) + 1) : CountAt(t, Append(q, j)) = 0
        BY <4>1, <1>5, <2>2, <2>3, NotANode
      <4> QED
        BY <3>2, <4>2 DEF NewNode, Raw
    <3> QED
      BY <3>1, <3>2
  <2>5. DOMAIN Token(u, q) = DOMAIN Token(t, q) \cup IF IsStrictPrefix(q, p) THEN {i} ELSE {}
    BY <1>2, <2>2
  <2>6. ASSUME NEW j \in NodeBins(Len(q) + 1)
        PROVE  CountAt(u, Append(q, j)) = CountAt(t, Append(q, j))
                 + IF IsStrictPrefix(q, p) /\ Len(q) = Len(p) - 1 /\ j = i THEN 1 ELSE 0
    <3>1. Append(q, j) = p <=> IsStrictPrefix(q, p) /\ Len(q) = Len(p) - 1 /\ j = i
      BY <1>5, <2>2, <2>3, LastBin
    <3> QED
      BY <3>1, <1>5
  <2>7. Len(q) = Len(p) - 1 => i \in NodeBins(Len(q) + 1)
    BY <1>5, <2>2 DEF BinAfter
  <2> HIDE DEF node, i
  <2>8. \A j \in NodeBins(Len(q) + 1) : CountAt(t, Append(q, j)) \in Nat
    BY <1>5
  <2>9. Raw(t, q).counts = [j \in NodeBins(Len(q) + 1) |-> CountAt(t, Append(q, j))]
    BY DEF Raw
  <2>10. Raw(t, q).populated = IF OneD THEN {} ELSE DOMAIN Token(t, q)
    BY DEF Raw
  <2>11. CASE ~ IsStrictPrefix(q, p)
    <3>1. node.counts = [j \in NodeBins(Len(q) + 1) |-> CountAt(u, Append(q, j))]
      BY <2>4, <2>6, <2>8, <2>9, <2>11
    <3>2. Filed(p)[q] = Raw(t, q)
      BY <2>1, <2>4, <2>11
    <3> QED
      BY <2>4, <2>5, <2>11, <3>1, <3>2 DEF Raw
  <2>12. CASE IsStrictPrefix(q, p) /\ Len(q) = Len(p) - 1
    <3>1. [node.counts EXCEPT ![i] = @ + 1] = [j \in NodeBins(Len(q) + 1) |-> CountAt(u, Append(q, j))]
      <4> DEFINE old == [j \in NodeBins(Len(q) + 1) |-> CountAt(t, Append(q, j))]
                 new == [j \in NodeBins(Len(q) + 1) |-> CountAt(u, Append(q, j))]
      <4>1. node.counts = old /\ i \in NodeBins(Len(q) + 1)
        BY <2>4, <2>7, <2>9, <2>12
      <4>2. \A j \in NodeBins(Len(q) + 1) : new[j] = IF j = i THEN old[i] + 1 ELSE old[j]
        BY <2>6, <2>8, <2>12
      <4>3. DOMAIN new = NodeBins(Len(q) + 1) /\ DOMAIN old = NodeBins(Len(q) + 1)
            /\ new = [j \in NodeBins(Len(q) + 1) |-> new[j]] /\ old = [j \in NodeBins(Len(q) + 1) |-> old[j]]
        OBVIOUS
      <4> HIDE DEF old, new
      <4>4. [old EXCEPT ![i] = @ + 1] = new
        BY <4>1, <4>2, <4>3
      <4> QED
        BY <4>1, <4>4 DEF new
    <3> QED
      BY <2>1, <2>4, <2>5, <2>10, <2>12, <3>1 DEF Raw
  <2>13. CASE IsStrictPrefix(q, p) /\ Len(q) # Len(p) - 1
    <3>1. node.counts = [j \in NodeBins(Len(q) + 1) |-> CountAt(u, Append(q, j))]
      BY <2>4, <2>6, <2>8, <2>9, <2>13
    <3> QED
      BY <2>1, <2>4, <2>5, <2>10, <2>13, <3>1 DEF Raw
  <2> QED
    BY <2>11, <2>12, <2>13
<1> QED
  BY <1>4, <1>6

-----------------------------------------------------------------------------
\* The values in a bin of a node, wherever below it they are counted.
Held(t, q, i) == SumFunctionOnSet(t, Inside(t, q, i))

\* A trie of the schema with room for its counts.
Fits(t) ==
  /\ Levelled(t, Depth) /\ \A p \in DOMAIN t : p \in Leaves /\ t[p] \in Nat \ {0}
  /\ SumFunctionOnSet(t, DOMAIN t) < CountMod

\* The counts of any of its paths do not wrap.
LEMMA NothingWraps ==
  ASSUME NEW t, Fits(t), NEW P \in SUBSET DOMAIN t
  PROVE  /\ SumFunctionOnSet(t, P) \in Nat /\ SumFunctionOnSet(t, P) % CountMod = SumFunctionOnSet(t, P)
         /\ SumFunctionOnSet(t, P) = 0 <=> P = {}
<1>1. IsFiniteSet(DOMAIN t) /\ \A p \in DOMAIN t : t[p] \in Nat
  BY DEF Fits, Levelled, IsTrie
<1>2. SumFunctionOnSet(t, P) \in Nat /\ SumFunctionOnSet(t, P) <= SumFunctionOnSet(t, DOMAIN t)
  BY <1>1, SumBounds
<1>3. \A a \in P : t[a] <= SumFunctionOnSet(t, P)
  BY <1>1, SumBounds
<1>4. SumFunctionOnSet(t, DOMAIN t) \in Nat
  BY <1>1, SumBounds
<1>5. SumFunctionOnSet(t, P) \in 0 .. CountMod - 1
  BY <1>2, <1>4, ModAssumption DEF Fits
<1>6. \A x \in 0 .. CountMod - 1 : x % CountMod = x
  BY ModAssumption
<1>7. ASSUME NEW a \in P PROVE SumFunctionOnSet(t, P) # 0
  <2>1. t[a] \in Nat \ {0} /\ t[a] <= SumFunctionOnSet(t, P)
    BY <1>3 DEF Fits
  <2> QED
    BY <2>1, <1>2
<1>8. P = {} => SumFunctionOnSet(t, P) = 0
  BY SumEmpty
<1> QED
  BY <1>2, <1>5, <1>6, <1>7, <1>8

\* What is below a node lies in its bins.
LEMMA BinsOf ==
  ASSUME NEW t, Levelled(t, Depth), NEW q \in Paths
  PROVE  /\ Below(t, q) \in SUBSET DOMAIN t
         /\ \A p \in Below(t, q) : p \in Paths /\ Len(q) + 1 \in 1 .. MaxDepth /\ BinAfter(p, q) \in NodeBins(Len(q) + 1)
<1>1. Below(t, q) = {p \in DOMAIN t : Len(q) < Len(p) /\ Under(q, p)} /\ Len(q) \in Nat
  BY BelowIs, LenProperties DEF Levelled, Paths
<1>2. ASSUME NEW p \in Below(t, q)
      PROVE  p \in Paths /\ Len(q) + 1 \in 1 .. MaxDepth /\ BinAfter(p, q) \in NodeBins(Len(q) + 1)
  <2>1. p \in DOMAIN t /\ Len(q) < Len(p) /\ p \in Paths
    BY <1>1 DEF Levelled, IsTrie
  <2>2. Len(p) \in Nat /\ Len(p) <= MaxDepth /\ \A d \in 1 .. Len(p) : p[d] \in NodeBins(d)
    BY <2>1, LenProperties DEF Levelled, Paths
  <2>3. Len(q) + 1 \in 1 .. Len(p) /\ MaxDepth \in Nat
    BY <1>1, <2>1, <2>2, BinsAssumption DEF MaxDepth
  <2> QED
    BY <2>1, <2>2, <2>3, <1>1 DEF BinAfter
<1> QED
  BY <1>1, <1>2

\* A bin's values are those below the child, where there is one, or else those of the leaf.
LEMMA HeldBelow ==
  ASSUME NEW t, Fits(t), NEW q \in Nodes(t) \cup Rooms, NEW i \in NodeBins(Len(q) + 1)
  PROVE  /\ Append(q, i) \in Nodes(t) \cup Rooms =>
              Held(t, q, i) = SumFunctionOnSet(t, Below(t, Append(q, i)))
         /\ Append(q, i) \notin Nodes(t) \cup Rooms => Held(t, q, i) = CountAt(t, Append(q, i))
<1> DEFINE c == Append(q, i)
<1>1. IsTrie(t) /\ Levelled(t, Depth) /\ q \in Paths /\ Len(q) \in Nat /\ i \in Nat
  BY NodePlaces DEF Fits, Levelled, NodeBins
<1>2. c \in Paths /\ Len(c) = Len(q) + 1 /\ (\A j \in 1 .. Len(q) : c[j] = q[j]) /\ c[Len(q) + 1] = i
  BY <1>1, Extended
<1> HIDE DEF c
<1>3. \A p : p \in Inside(t, q, i) <=> p \in DOMAIN t /\ Len(q) < Len(p) /\ Under(q, p) /\ p[Len(q) + 1] = i
  BY <1>1, BelowIs DEF Inside, BinAfter
<1>4. \A p : p \in Below(t, c) <=> p \in DOMAIN t /\ Len(c) < Len(p) /\ Under(c, p)
  BY <1>1, <1>2, BelowIs
<1>5. \A p \in DOMAIN t : p \in Paths /\ Len(p) \in Nat
  BY <1>1, LenProperties DEF IsTrie, Paths
<1>6. ASSUME NEW p \in DOMAIN t
      PROVE  p \in Inside(t, q, i) <=> p = c \/ p \in Below(t, c)
  <2>1. Under(c, p) <=> Len(q) < Len(p) /\ Under(q, p) /\ p[Len(q) + 1] = i
    BY <1>1, <1>2, <1>5 DEF Under
  <2>2. p = c => Under(c, p)
    BY <1>2, <1>1 DEF Under
  <2>3. Under(c, p) /\ Len(p) = Len(c) => p = c
    BY <1>2, <1>5, SeqEqual DEF Under, Paths
  <2>4. Under(c, p) <=> p = c \/ (Len(c) < Len(p) /\ Under(c, p))
    <3>1. Under(c, p) => Len(c) <= Len(p)
      BY DEF Under
    <3> QED
      BY <2>2, <2>3, <3>1, <1>1, <1>2, <1>5
  <2> QED
    BY <2>1, <2>4, <1>3, <1>4
<1>7. ASSUME c \in Nodes(t) \cup Rooms PROVE c \notin DOMAIN t
  <2> SUFFICES ASSUME c \in DOMAIN t PROVE FALSE
    OBVIOUS
  <2>1. Len(c) = Depth[c[1]]
    BY <1>1 DEF Levelled
  <2>2. CASE c \in Nodes(t)
    <3>1. c # <<>>
      BY <1>1, <1>2
    <3>2. PICK r \in DOMAIN t : Len(c) < Len(r) /\ Under(c, r)
      BY <2>2, <3>1, <1>1, NodeIs
    <3>3. Len(r) = Depth[r[1]] /\ r[1] = c[1]
      BY <3>2, <1>1, <1>2 DEF Levelled, Under
    <3> QED
      BY <2>1, <3>2, <3>3, <1>1, <1>2
  <2>3. CASE c \in Rooms
    <3>1. PICK j \in NodeBins(1) : OneD /\ c = <<j>>
      BY <2>3 DEF Rooms
    <3>2. Len(c) = 1 /\ Depth[c[1]] = MaxDepth /\ MaxDepth > 1 /\ MaxDepth \in Nat
      BY <3>1, PathsAssumption, BinsAssumption DEF MaxDepth
    <3>3. MaxDepth = 1
      BY <2>1, <3>2, Zenon
    <3> QED
      BY <3>2, <3>3
  <2> QED
    BY <1>7, <2>2, <2>3
<1>8. ASSUME c \in Nodes(t) \cup Rooms PROVE Held(t, q, i) = SumFunctionOnSet(t, Below(t, c))
  <2>1. Inside(t, q, i) = Below(t, c)
    BY <1>3, <1>4, <1>6, <1>7, <1>8
  <2> QED
    BY <2>1 DEF Held
<1>9. ASSUME c \notin Nodes(t) \cup Rooms PROVE Held(t, q, i) = CountAt(t, c)
  <2>1. Below(t, c) = {}
    BY <1>1, <1>2, <1>9, NotANode
  <2>2. Inside(t, q, i) = IF c \in DOMAIN t THEN {c} ELSE {}
    BY <2>1, <1>3, <1>6
  <2>3. c \in DOMAIN t => SumFunctionOnSet(t, {c}) = t[c]
    BY <1>1, SumOne DEF IsTrie
  <2>4. SumFunctionOnSet(t, {}) = 0
    BY SumEmpty
  <2> QED
    BY <2>2, <2>3, <2>4 DEF Held, CountAt
<1> QED
  BY <1>8, <1>9 DEF c

\* The bins of a node hold together what is below it.
LEMMA HeldTogether ==
  ASSUME NEW t, Fits(t), NEW q \in Nodes(t) \cup Rooms,
         NEW g, DOMAIN g = NodeBins(Len(q) + 1), \A i \in NodeBins(Len(q) + 1) : g[i] = Held(t, q, i)
  PROVE  SumFunction(g) = SumFunctionOnSet(t, Below(t, q))
<1>1. Levelled(t, Depth) /\ q \in Paths /\ Len(q) + 1 \in 1 .. MaxDepth
  BY NodePlaces DEF Fits
<1>2. Below(t, q) \in SUBSET DOMAIN t /\ \A p \in Below(t, q) : BinAfter(p, q) \in NodeBins(Len(q) + 1)
  BY <1>1, BinsOf
<1> DEFINE S == Below(t, q)
           V == NodeBins(Len(q) + 1)
           h == [p \in S |-> BinAfter(p, q)]
           c == [v \in V |-> SumFunctionOnSet(t, {x \in S : h[x] = v})]
<1>3. IsFiniteSet(S) /\ \A p \in S : t[p] \in Int
  BY <1>1, <1>2, FS_Subset DEF Levelled, IsTrie
<1>4. IsFiniteSet(V)
  <2>1. Bins[Len(q) + 1] \in Nat
    BY <1>1, BinsAssumption DEF MaxDepth
  <2> QED
    BY <2>1, FS_Interval DEF NodeBins
<1>5. \A p \in S : h[p] \in V
  BY <1>2
<1>6. \A v \in V : c[v] = g[v]
  <2>1. \A v \in V : {x \in S : h[x] = v} = Inside(t, q, v)
    BY DEF Inside
  <2> HIDE DEF h, S
  <2> QED
    BY <2>1 DEF Held
<1> HIDE DEF h, S
<1>7. SumFunctionOnSet(t, S) = SumFunctionOnSet(c, V)
  BY <1>3, <1>4, <1>5, SumPartition
<1> HIDE DEF c
<1>8. SumFunctionOnSet(c, V) = SumFunctionOnSet(g, V)
  BY <1>4, <1>6, SumSame
<1>9. SumFunction(g) = SumFunctionOnSet(g, V)
  BY DEF SumFunction
<1> QED
  BY <1>7, <1>8, <1>9 DEF S

-----------------------------------------------------------------------------
\* The roll-up's recursion: f[q] is what node q has in all, if f is that of its children.
Rolls(f) ==
  f = [q \in DOMAIN nodes |->
         SumFunction([i \in DOMAIN nodes[q].counts |->
                        IF Append(q, i) \in DOMAIN nodes THEN f[Append(q, i)]
                                                         ELSE nodes[q].counts[i]]) % CountMod]

\* The counts of a node while points are inserted.
LEMMA GrowingCounts ==
  ASSUME NEW t, Growing(t), NEW q \in DOMAIN nodes
  PROVE  nodes[q].counts = [i \in NodeBins(Len(q) + 1) |-> CountAt(t, Append(q, i))]
<1>1. nodes[q] = Raw(t, q)
  BY DEF Growing
<1>2. Raw(t, q).counts = [i \in NodeBins(Len(q) + 1) |-> CountAt(t, Append(q, i))]
  BY DEF Raw
<1> QED
  BY <1>1, <1>2

\* It has one solution, what lies below each node.
LEMMA RollsUp ==
  ASSUME NEW t, Fits(t), Growing(t), NEW F, F = [q \in DOMAIN nodes |-> SumFunctionOnSet(t, Below(t, q))]
  PROVE  Rolls(F) /\ \A f : Rolls(f) => f = F
<1> DEFINE row(f, q) == [i \in DOMAIN nodes[q].counts |->
                           IF Append(q, i) \in DOMAIN nodes THEN f[Append(q, i)] ELSE nodes[q].counts[i]]
<1>1. /\ DOMAIN nodes = Nodes(t) \cup Rooms /\ Levelled(t, Depth)
      /\ \A q \in DOMAIN nodes : nodes[q].counts = [i \in NodeBins(Len(q) + 1) |-> CountAt(t, Append(q, i))]
  BY GrowingCounts DEF Growing, Fits
<1>2. \A f : Rolls(f) <=> f = [q \in DOMAIN nodes |-> SumFunction(row(f, q)) % CountMod]
  BY DEF Rolls
<1>3. \A f : \A q \in DOMAIN nodes :
         /\ DOMAIN row(f, q) = NodeBins(Len(q) + 1)
         /\ \A i \in NodeBins(Len(q) + 1) :
              row(f, q)[i] = IF Append(q, i) \in DOMAIN nodes THEN f[Append(q, i)] ELSE CountAt(t, Append(q, i))
  BY <1>1
<1> HIDE DEF row
<1>4. ASSUME NEW f, NEW q \in DOMAIN nodes,
             \A i \in NodeBins(Len(q) + 1) : Append(q, i) \in DOMAIN nodes => f[Append(q, i)] = F[Append(q, i)]
      PROVE  SumFunction(row(f, q)) % CountMod = F[q]
  <2>1. \A i \in NodeBins(Len(q) + 1) : row(f, q)[i] = Held(t, q, i)
    <3> SUFFICES ASSUME NEW i \in NodeBins(Len(q) + 1) PROVE row(f, q)[i] = Held(t, q, i)
      OBVIOUS
    <3>1. row(f, q)[i] = IF Append(q, i) \in DOMAIN nodes THEN f[Append(q, i)] ELSE CountAt(t, Append(q, i))
      BY <1>3
    <3>2. q \in Nodes(t) \cup Rooms
      BY <1>1
    <3>3. CASE Append(q, i) \in DOMAIN nodes
      <4>1. f[Append(q, i)] = SumFunctionOnSet(t, Below(t, Append(q, i)))
        BY <1>4, <3>3
      <4>2. Held(t, q, i) = SumFunctionOnSet(t, Below(t, Append(q, i)))
        BY <1>1, <3>2, <3>3, HeldBelow
      <4> QED
        BY <3>1, <3>3, <4>1, <4>2
    <3>4. CASE Append(q, i) \notin DOMAIN nodes
      <4>1. Held(t, q, i) = CountAt(t, Append(q, i))
        BY <1>1, <3>2, <3>4, HeldBelow
      <4> QED
        BY <3>1, <3>4, <4>1
    <3> QED
      BY <3>3, <3>4
  <2>2. SumFunction(row(f, q)) = SumFunctionOnSet(t, Below(t, q))
    BY <1>1, <1>3, <2>1, HeldTogether
  <2>3. q \in Paths
    BY <1>1, NodePlaces
  <2>4. Below(t, q) \in SUBSET DOMAIN t
    BY <2>3, <1>1, BinsOf
  <2>5. SumFunctionOnSet(t, Below(t, q)) % CountMod = SumFunctionOnSet(t, Below(t, q))
    BY <2>4, NothingWraps
  <2> QED
    BY <2>2, <2>5
<1>5. \A q \in DOMAIN nodes : SumFunction(row(F, q)) % CountMod = F[q]
  BY <1>4
<1>6. Rolls(F)
  BY <1>2, <1>5
<1>7. ASSUME NEW f, Rolls(f) PROVE f = F
  <2> DEFINE wrong == {q \in DOMAIN nodes : f[q] # F[q]}
             above == {MaxDepth - Len(q) : q \in wrong}
  <2>1. f = [q \in DOMAIN nodes |-> SumFunction(row(f, q)) % CountMod]
    BY <1>2, <1>7
  <2>2. CASE wrong = {}
    BY <2>1, <2>2
  <2>3. CASE wrong # {}
    <3>1. \A q \in wrong : q \in Paths /\ Len(q) \in Nat /\ Len(q) + 1 \in 1 .. MaxDepth /\ MaxDepth - Len(q) \in Nat
      <4>1. \A q \in wrong : q \in Paths /\ Len(q) \in Nat /\ Len(q) + 1 \in 1 .. MaxDepth
        BY <1>1, NodePlaces
      <4>2. MaxDepth \in Nat
        BY BinsAssumption DEF MaxDepth
      <4> QED
        BY <4>1, <4>2
    <3>2. above \in SUBSET Nat /\ above # {}
      BY <2>3, <3>1
    <3>3. Min(above) \in above /\ \A x \in above : Min(above) <= x
      BY <3>2, LeastNat
    <3>4. PICK q \in wrong : \A r \in wrong : Len(r) <= Len(q)
      <4>1. PICK q \in wrong : Min(above) = MaxDepth - Len(q)
        BY <3>3
      <4>2. \A r \in wrong : MaxDepth - Len(q) <= MaxDepth - Len(r)
        BY <3>3, <4>1
      <4>3. MaxDepth \in Nat
        BY BinsAssumption DEF MaxDepth
      <4> QED
        BY <3>1, <4>2, <4>3
    <3>5. q \in DOMAIN nodes /\ f[q] # F[q]
      OBVIOUS
    <3>6. ASSUME NEW i \in NodeBins(Len(q) + 1), Append(q, i) \in DOMAIN nodes
          PROVE  f[Append(q, i)] = F[Append(q, i)]
      <4>1. Len(Append(q, i)) = Len(q) + 1
        BY <3>1, Extended DEF NodeBins
      <4>2. Len(q) \in Nat /\ ~ (Len(q) + 1 <= Len(q))
        BY <3>1
      <4>3. Append(q, i) \in wrong => Len(q) + 1 <= Len(q)
        BY <3>4, <4>1
      <4> QED
        BY <4>2, <4>3, <3>6
    <3>7. f[q] = F[q]
      BY <1>4, <2>1, <3>5, <3>6
    <3> QED
      BY <3>5, <3>7
  <2> QED
    BY <2>2, <2>3
<1> QED
  BY <1>6, <1>7

\* After the roll-up a node has what its bins hold, and is marked where there is any.
Rolled(t) ==
  /\ DOMAIN nodes = Nodes(t) \cup Rooms
  /\ \A q \in DOMAIN nodes :
       /\ nodes[q].counts = [i \in NodeBins(Len(q) + 1) |-> Held(t, q, i)]
       /\ Mask(q) = DOMAIN Token(t, q)

\* Totals are what the bins hold.
LEMMA TotalsAre ==
  ASSUME NEW t, Fits(t), Growing(t)
  PROVE  Totals = [q \in DOMAIN nodes |-> [i \in NodeBins(Len(q) + 1) |-> Held(t, q, i)]]
<1> DEFINE F == [q \in DOMAIN nodes |-> SumFunctionOnSet(t, Below(t, q))]
           sum == CHOOSE f : Rolls(f)
<1>1. Rolls(F) /\ \A f : Rolls(f) => f = F
  BY RollsUp
<1> HIDE DEF F
<1>2. sum = F
  BY <1>1
<1> HIDE DEF sum
<1>3. Totals = [q \in DOMAIN nodes |-> [i \in DOMAIN nodes[q].counts |->
                 IF Append(q, i) \in DOMAIN nodes THEN sum[Append(q, i)] ELSE nodes[q].counts[i]]]
  BY DEF Totals, sum, Rolls
<1>4. /\ DOMAIN nodes = Nodes(t) \cup Rooms
      /\ \A q \in DOMAIN nodes : nodes[q].counts = [i \in NodeBins(Len(q) + 1) |-> CountAt(t, Append(q, i))]
  BY GrowingCounts DEF Growing
<1>5. ASSUME NEW q \in DOMAIN nodes, NEW i \in NodeBins(Len(q) + 1)
      PROVE  (IF Append(q, i) \in DOMAIN nodes THEN sum[Append(q, i)] ELSE nodes[q].counts[i]) = Held(t, q, i)
  <2>1. q \in Nodes(t) \cup Rooms /\ nodes[q].counts[i] = CountAt(t, Append(q, i))
    BY <1>4
  <2>2. CASE Append(q, i) \in DOMAIN nodes
    <3>1. Held(t, q, i) = SumFunctionOnSet(t, Below(t, Append(q, i)))
      BY <1>4, <2>1, <2>2, HeldBelow
    <3>2. F[Append(q, i)] = SumFunctionOnSet(t, Below(t, Append(q, i)))
      BY <2>2 DEF F
    <3> QED
      BY <1>2, <2>2, <3>1, <3>2
  <2>3. CASE Append(q, i) \notin DOMAIN nodes
    <3>1. Held(t, q, i) = CountAt(t, Append(q, i))
      BY <1>4, <2>1, <2>3, HeldBelow
    <3> QED
      BY <2>1, <2>3, <3>1
  <2> QED
    BY <2>2, <2>3
<1>6. \A q \in DOMAIN nodes : DOMAIN nodes[q].counts = NodeBins(Len(q) + 1)
  BY <1>4
<1> QED
  BY <1>3, <1>5, <1>6

\* A bin is populated where it holds something, and its counter does not wrap.
LEMMA HeldIs ==
  ASSUME NEW t, Fits(t), NEW q \in Nodes(t) \cup Rooms
  PROVE  /\ DOMAIN Token(t, q) \in SUBSET NodeBins(Len(q) + 1)
         /\ \A i : Held(t, q, i) # 0 <=> i \in DOMAIN Token(t, q)
         /\ \A i \in DOMAIN Token(t, q) : Token(t, q)[i] = Held(t, q, i)
<1>1. Levelled(t, Depth) /\ IsTrie(t) /\ q \in Paths
  BY NodePlaces DEF Fits, Levelled
<1>2. DOMAIN Token(t, q) = {BinAfter(p, q) : p \in Below(t, q)}
  BY <1>1, TokenIs
<1>3. \A i \in DOMAIN Token(t, q) : Token(t, q)[i] = SumFunctionOnSet(t, Inside(t, q, i)) % CountMod
  BY <1>1, TokenIs
<1>4. Below(t, q) \in SUBSET DOMAIN t /\ \A p \in Below(t, q) : BinAfter(p, q) \in NodeBins(Len(q) + 1)
  BY <1>1, BinsOf
<1>5. \A i : Inside(t, q, i) \in SUBSET DOMAIN t /\ (Inside(t, q, i) # {} <=> i \in DOMAIN Token(t, q))
  BY <1>2, <1>4 DEF Inside
<1>6. \A i : /\ SumFunctionOnSet(t, Inside(t, q, i)) % CountMod = SumFunctionOnSet(t, Inside(t, q, i))
             /\ SumFunctionOnSet(t, Inside(t, q, i)) = 0 <=> Inside(t, q, i) = {}
  BY <1>5, NothingWraps
<1> QED
  BY <1>2, <1>3, <1>4, <1>5, <1>6 DEF Held

\* A node and a populated bin of it name a further node where the bin is not the last.
LEMMA ChildrenAre ==
  ASSUME NEW t, Fits(t), NEW q \in Nodes(t) \cup Rooms, NEW i \in NodeBins(Len(q) + 1)
  PROVE  /\ i \in Nat /\ Append(q, i) \in Paths
         /\ Append(q, i) \in Nodes(t) <=> i \in DOMAIN Token(t, q) /\ Len(q) + 1 < Depth[Append(q, i)[1]]
         /\ i \in DOMAIN Token(t, q) => (Append(q, i) \in Nodes(t) \cup Rooms <=> Append(q, i) \in Nodes(t))
<1>1. Levelled(t, Depth) /\ q \in Paths /\ Len(q) \in Nat /\ i \in Nat
  BY NodePlaces DEF Fits, NodeBins
<1>2. /\ Append(q, i) \in Paths /\ Len(Append(q, i)) = Len(q) + 1 /\ Append(q, i)[Len(q) + 1] = i
  BY <1>1, Extended
<1>3. Append(q, i) \in Nodes(t) <=> i \in DOMAIN Token(t, q) /\ Len(q) + 1 < Depth[Append(q, i)[1]]
  BY <1>1, ChildIs
<1>4. ASSUME i \in DOMAIN Token(t, q), Append(q, i) \in Rooms PROVE Append(q, i) \in Nodes(t)
  <2>1. PICK j \in NodeBins(1) : OneD /\ Append(q, i) = <<j>>
    BY <1>4 DEF Rooms
  <2>2. Len(q) + 1 = 1 /\ Depth[Append(q, i)[1]] = MaxDepth /\ MaxDepth > 1
    BY <2>1, <1>2, PathsAssumption
  <2> QED
    BY <2>2, <1>3, <1>4
<1> QED
  BY <1>1, <1>2, <1>3, <1>4

\* In 1D every node has bins down to the deepest level.
LEMMA OneDimensional ==
  ASSUME NEW t, Fits(t), OneD, NEW q \in Nodes(t) \cup Rooms, NEW i \in NodeBins(Len(q) + 1)
  PROVE  Depth[Append(q, i)[1]] = MaxDepth
<1>1. q \in Paths /\ Len(q) \in Nat /\ i \in Nat /\ Levelled(t, Depth)
  BY NodePlaces DEF Fits, NodeBins
<1>2. /\ Append(q, i)[Len(q) + 1] = i
      /\ \A j \in 1 .. Len(q) : Append(q, i)[j] = q[j]
  BY <1>1, Extended
<1>3. Depth = [j \in NodeBins(1) |-> MaxDepth]
  BY PathsAssumption
<1>4. Append(q, i)[1] \in NodeBins(1)
  <2>1. CASE Len(q) = 0
    BY <2>1, <1>2
  <2>2. CASE q \in Rooms
    <3>1. PICK j \in NodeBins(1) : q = <<j>>
      BY <2>2 DEF Rooms
    <3> QED
      BY <3>1, <1>2
  <2>3. CASE q \in Nodes(t) /\ Len(q) > 0
    <3>1. q # <<>>
      BY <2>3
    <3>2. PICK r \in DOMAIN t : Len(q) < Len(r) /\ Under(q, r)
      BY <2>3, <3>1, <1>1, NodeIs DEF Levelled
    <3>3. Len(r) \in Nat /\ \A d \in 1 .. Len(r) : r[d] \in NodeBins(d)
      BY <3>2, <1>1, LenProperties DEF Levelled, IsTrie, Paths
    <3>4. r[1] \in NodeBins(1) /\ r[1] = q[1] /\ Append(q, i)[1] = q[1]
      BY <2>3, <3>2, <3>3, <1>1, <1>2 DEF Under
    <3> QED
      BY <3>4
  <2> QED
    BY <2>1, <2>2, <2>3, <1>1
<1> QED
  BY <1>3, <1>4

\* RollUp: counts are what bins hold, and bins are marked where they hold anything.
LEMMA RolledUp ==
  ASSUME NEW t, Fits(t), Growing(t), RollUp
  PROVE  Rolled(t)'
<1>1. Totals = [q \in DOMAIN nodes |-> [i \in NodeBins(Len(q) + 1) |-> Held(t, q, i)]]
  BY TotalsAre
<1>2. nodes' = [q \in DOMAIN nodes |->
                 [counts    |-> Totals[q],
                  populated |-> IF OneD THEN Found(q) ELSE nodes[q].populated]]
  BY DEF RollUp
<1>3. DOMAIN nodes = Nodes(t) \cup Rooms /\ DOMAIN nodes' = Nodes(t) \cup Rooms
  BY <1>2 DEF Growing
<1>4. ASSUME NEW q \in DOMAIN nodes'
      PROVE  /\ nodes'[q].counts = [i \in NodeBins(Len(q) + 1) |-> Held(t, q, i)]
             /\ Mask(q)' = DOMAIN Token(t, q)
  <2>1. q \in DOMAIN nodes /\ q \in Nodes(t) \cup Rooms
    BY <1>3
  <2>2. Totals[q] = [i \in NodeBins(Len(q) + 1) |-> Held(t, q, i)]
    BY <1>1, <2>1
  <2>3. nodes'[q].counts = Totals[q]
    BY <1>2, <2>1
  <2>4. nodes'[q].populated = IF OneD THEN Found(q) ELSE nodes[q].populated
    BY <1>2, <2>1
  <2>5. /\ DOMAIN Token(t, q) \in SUBSET NodeBins(Len(q) + 1)
        /\ \A i : Held(t, q, i) # 0 <=> i \in DOMAIN Token(t, q)
    BY <2>1, HeldIs
  <2>6. {i \in NodeBins(Len(q) + 1) : Held(t, q, i) # 0} = DOMAIN Token(t, q)
    BY <2>5
  <2>7. {i \in DOMAIN Totals[q] : Totals[q][i] # 0} = DOMAIN Token(t, q)
    BY <2>2, <2>6
  <2>8. ASSUME Len(q) # MaxDepth - 1 PROVE nodes'[q].populated = DOMAIN Token(t, q)
    <3>1. CASE ~ OneD
      <4>1. nodes[q] = Raw(t, q)
        BY <2>1 DEF Growing
      <4>2. nodes[q].populated = DOMAIN Token(t, q)
        BY <4>1, <3>1 DEF Raw
      <4> QED
        BY <4>2, <3>1, <2>4
    <3>2. CASE OneD /\ q = <<>>
      BY <3>2, <2>4, <2>7 DEF Found
    <3>3. CASE OneD /\ q # <<>>
      <4>1. nodes'[q].populated = {i \in NodeBins(Len(q) + 1) : Append(q, i) \in Nodes(t) \cup Rooms}
        BY <3>3, <2>2, <2>4, <1>3 DEF Found
      <4>2. ASSUME NEW i \in NodeBins(Len(q) + 1)
            PROVE  Append(q, i) \in Nodes(t) \cup Rooms <=> i \in DOMAIN Token(t, q)
        <5>1. /\ Append(q, i) \in Nodes(t) <=> i \in DOMAIN Token(t, q) /\ Len(q) + 1 < Depth[Append(q, i)[1]]
          BY <2>1, ChildrenAre
        <5>2. Depth[Append(q, i)[1]] = MaxDepth
          BY <2>1, <3>3, OneDimensional
        <5>3. q \in Paths /\ Len(q) \in Nat /\ Len(q) + 1 \in 1 .. MaxDepth /\ MaxDepth \in Nat
          BY <2>1, NodePlaces, BinsAssumption DEF Fits, MaxDepth
        <5>4. Len(q) + 1 < MaxDepth
          BY <2>8, <5>3
        <5>5. Append(q, i) \notin Rooms
          <6>1. Len(q) # 0
            BY <3>3, <5>3, EmptySeq DEF Paths
          <6>2. Len(Append(q, i)) = Len(q) + 1
            BY <5>3, Extended DEF NodeBins
          <6>3. \A j : Len(<<j>>) = 1
            OBVIOUS
          <6>4. Len(Append(q, i)) # 1
            BY <6>1, <6>2, <5>3
          <6> QED
            BY <6>3, <6>4 DEF Rooms
        <5> QED
          BY <5>1, <5>2, <5>4, <5>5
      <4> QED
        BY <4>1, <4>2, <2>5
    <3> QED
      BY <3>1, <3>2, <3>3
  <2>9. Mask(q)' = IF Len(q) = MaxDepth - 1 THEN {i \in DOMAIN nodes'[q].counts : nodes'[q].counts[i] # 0}
                                            ELSE nodes'[q].populated
    BY DEF Mask
  <2>10. Mask(q)' = DOMAIN Token(t, q)
    BY <2>3, <2>7, <2>8, <2>9
  <2> QED
    BY <2>2, <2>3, <2>10
<1> QED
  BY <1>3, <1>4 DEF Rolled

\* In memory as rolled up, the writer's children are the reader's.
LEMMA RolledAgree ==
  ASSUME NEW t, Fits(t), Rolled(t),
         NEW q \in DOMAIN nodes, NEW i \in NodeBins(Len(q) + 1)
  PROVE  (i \in Mask(q) /\ Len(q) + 1 < Depth[Append(q, i)[1]])
           <=> (Append(q, i) \in DOMAIN nodes /\ (OneD => Mask(Append(q, i)) # {}))
<1>1. DOMAIN nodes = Nodes(t) \cup Rooms /\ \A r \in DOMAIN nodes : Mask(r) = DOMAIN Token(t, r)
  BY DEF Rolled
<1>2. /\ i \in Nat /\ Append(q, i) \in Paths
      /\ Append(q, i) \in Nodes(t) <=> i \in DOMAIN Token(t, q) /\ Len(q) + 1 < Depth[Append(q, i)[1]]
  BY <1>1, ChildrenAre
<1>3. IsTrie(t) /\ Levelled(t, Depth)
  BY DEF Fits, Levelled
<1>4. Append(q, i) \notin Nodes(t) => DOMAIN Token(t, Append(q, i)) = {}
  BY <1>2, <1>3, NotANode
<1>5. ASSUME Append(q, i) \in Nodes(t) PROVE DOMAIN Token(t, Append(q, i)) # {}
  <2>1. Append(q, i) # <<>>
    <3>1. q \in Paths
      BY <1>1, <1>3, NodePlaces
    <3>2. Len(Append(q, i)) = Len(q) + 1 /\ Len(q) \in Nat
      BY <1>2, <3>1, Extended, LenProperties DEF Paths
    <3> QED
      BY <3>2
  <2>2. \E p \in DOMAIN t : Len(Append(q, i)) < Len(p) /\ Under(Append(q, i), p)
    BY <1>3, <1>5, <2>1, NodeIs
  <2>3. Below(t, Append(q, i)) # {}
    BY <1>2, <1>3, <2>2, BelowIs
  <2>4. DOMAIN Token(t, Append(q, i)) = {BinAfter(p, Append(q, i)) : p \in Below(t, Append(q, i))}
    BY <1>2, <1>3, TokenIs
  <2> QED
    BY <2>3, <2>4
<1>6. Append(q, i) \in DOMAIN nodes => Mask(Append(q, i)) = DOMAIN Token(t, Append(q, i))
  BY <1>1
<1>7. ~ OneD => DOMAIN nodes = Nodes(t)
  BY <1>1 DEF Rooms
<1>8. i \in Mask(q) <=> i \in DOMAIN Token(t, q)
  BY <1>1
<1>9. Append(q, i) \in Nodes(t) => Append(q, i) \in DOMAIN nodes
  BY <1>1
<1> QED
  BY <1>2, <1>4, <1>5, <1>6, <1>7, <1>8, <1>9

\* So they are while points are inserted in 2D to 4D.
LEMMA GrowingAgree ==
  ASSUME NEW t, Fits(t), Growing(t), ~ OneD,
         NEW q \in DOMAIN nodes, NEW i \in NodeBins(Len(q) + 1)
  PROVE  (i \in Mask(q) /\ Len(q) + 1 < Depth[Append(q, i)[1]]) <=> Append(q, i) \in DOMAIN nodes
<1>1. DOMAIN nodes = Nodes(t) /\ q \in Nodes(t)
  BY DEF Growing, Rooms
<1>2. /\ i \in Nat /\ Append(q, i) \in Paths
      /\ Append(q, i) \in Nodes(t) <=> i \in DOMAIN Token(t, q) /\ Len(q) + 1 < Depth[Append(q, i)[1]]
  BY <1>1, ChildrenAre
<1>3. nodes[q].populated = DOMAIN Token(t, q)
  <2>1. nodes[q] = Raw(t, q)
    BY DEF Growing
  <2> QED
    BY <2>1 DEF Raw
<1>4. CASE Len(q) # MaxDepth - 1
  BY <1>1, <1>2, <1>3, <1>4 DEF Mask
<1>5. CASE Len(q) = MaxDepth - 1
  <2>1. Levelled(t, Depth) /\ q \in Paths /\ Len(q) \in Nat /\ MaxDepth \in Nat
    BY <1>1, NodePlaces, BinsAssumption DEF Fits, MaxDepth
  <2>2. Len(Append(q, i)) = MaxDepth
    BY <2>1, <1>2, <1>5, Extended
  <2>3. Append(q, i) \notin Nodes(t)
    <3> SUFFICES ASSUME Append(q, i) \in Nodes(t) PROVE FALSE
      OBVIOUS
    <3>1. Len(Append(q, i)) + 1 \in 1 .. MaxDepth
      BY <2>1, NodeDepth
    <3> QED
      BY <2>1, <2>2, <3>1
  <2>4. ~ (Len(q) + 1 < Depth[Append(q, i)[1]])
    <3>1. Append(q, i)[1] \in 0 .. Bins[1] - 1
      <4>1. CASE Len(q) = 0
        <5>1. Append(q, i)[1] = i
          BY <4>1, <2>1, <1>2, Extended
        <5> QED
          BY <5>1, <4>1 DEF NodeBins
      <4>2. CASE Len(q) # 0
        <5>1. PICK r \in DOMAIN t : Len(q) < Len(r) /\ Under(q, r)
          BY <4>2, <1>1, <2>1, NodeIs DEF Levelled
        <5>2. Len(r) \in Nat /\ \A d \in 1 .. Len(r) : r[d] \in NodeBins(d)
          BY <5>1, <2>1, LenProperties DEF Levelled, IsTrie, Paths
        <5>3. r[1] \in NodeBins(1) /\ r[1] = q[1] /\ Append(q, i)[1] = q[1]
          BY <4>2, <5>1, <5>2, <2>1, <1>2, Extended DEF Under
        <5> QED
          BY <5>3 DEF NodeBins
      <4> QED
        BY <4>1, <4>2
    <3>2. Depth[Append(q, i)[1]] \in 1 .. MaxDepth
      BY <3>1, DepthAssumption DEF MaxDepth
    <3> QED
      BY <3>2, <2>1, <1>5
  <2> QED
    BY <1>1, <2>3, <2>4
<1> QED
  BY <1>4, <1>5

-----------------------------------------------------------------------------
\* The trie of the points holds each point that is in it, once.
LEMMA EachInserted ==
  ASSUME NEW pts \in Seq(Points)
  PROVE  /\ SumFunctionOnSet(Filing(pts), DOMAIN Filing(pts)) = Cardinality(Inserted(pts))
         /\ Cardinality(Inserted(pts)) \in Nat /\ Cardinality(Inserted(pts)) <= Len(pts)
<1> DEFINE S == Inserted(pts)
           V == DOMAIN Filing(pts)
           h == [k \in S |-> Path(pts[k])]
<1>1. IsFiniteSet(S) /\ IsFiniteSet(V)
  BY FilingIs DEF Levelled, IsTrie
<1>2. V = {Path(pts[k]) : k \in S}
  BY FilingIs
<1>3. \A k \in S : h[k] \in V
  BY <1>2
<1>4. \A p \in V : Filing(pts)[p] = Cardinality({k \in S : h[k] = p})
  <2>1. \A p \in V : Filing(pts)[p] = Cardinality(At(pts, p))
    BY DEF Filing
  <2>2. \A p : {k \in S : h[k] = p} = At(pts, p)
    BY DEF At
  <2> QED
    BY <2>1, <2>2
<1> HIDE DEF S, V, h
<1>5. SumFunctionOnSet(Filing(pts), V) = Cardinality(S)
  BY <1>1, <1>3, <1>4, CountedByClass
<1>6. Cardinality(S) \in Nat /\ Cardinality(S) <= Len(pts)
  <2>1. Len(pts) \in Nat /\ DOMAIN pts = 1 .. Len(pts)
    OBVIOUS
  <2>2. IsFiniteSet(1 .. Len(pts)) /\ Cardinality(1 .. Len(pts)) = Len(pts)
    BY <2>1, FS_Interval
  <2>3. S \in SUBSET (1 .. Len(pts))
    BY <2>1 DEF S, Inserted
  <2> QED
    BY <2>2, <2>3, <1>1, FS_Subset, FS_CardinalityType
<1> QED
  BY <1>5, <1>6 DEF S, V

\* As many points as a counter can count fit in a trie.
LEMMA FilingFits ==
  ASSUME NEW pts \in Seq(Points), Len(pts) < CountMod
  PROVE  Fits(Filing(pts))
<1>1. /\ SumFunctionOnSet(Filing(pts), DOMAIN Filing(pts)) = Cardinality(Inserted(pts))
      /\ Cardinality(Inserted(pts)) \in Nat /\ Cardinality(Inserted(pts)) <= Len(pts)
  BY EachInserted
<1>2. Len(pts) \in Nat /\ CountMod \in Nat
  BY ModAssumption
<1>3. Cardinality(Inserted(pts)) < CountMod
  BY <1>1, <1>2
<1>4. SumFunctionOnSet(Filing(pts), DOMAIN Filing(pts)) < CountMod
  BY <1>1, <1>3
<1>5. Levelled(Filing(pts), Depth) /\ \A p \in DOMAIN Filing(pts) : p \in Leaves /\ Filing(pts)[p] \in Nat \ {0}
  BY FilingIs
<1> QED
  BY <1>4, <1>5 DEF Fits

\* The numbers of the points, and those of them of a special kind, or of one.
Numbers(pts)  == (DOMAIN pts) \X (1 .. Dims)
Marked(pts)   == {kd \in Numbers(pts) : pts[kd[1]][kd[2]].kind \in Specials}
Marks(pts, s) == {kd \in Numbers(pts) : pts[kd[1]][kd[2]].kind = s}

\* They are finitely many.
LEMMA NumbersFinite ==
  ASSUME NEW pts \in Seq(Points)
  PROVE  IsFiniteSet(Numbers(pts)) /\ IsFiniteSet(Marked(pts)) /\ \A s : IsFiniteSet(Marks(pts, s))
<1>1. Len(pts) \in Nat /\ DOMAIN pts = 1 .. Len(pts) /\ Dims \in Nat
  BY ArraysAssumption
<1>2. IsFiniteSet(1 .. Len(pts)) /\ IsFiniteSet(1 .. Dims)
  BY <1>1, FS_Interval
<1>3. IsFiniteSet(Numbers(pts))
  BY <1>1, <1>2, FS_Product DEF Numbers
<1>4. Marked(pts) \in SUBSET Numbers(pts) /\ \A s : Marks(pts, s) \in SUBSET Numbers(pts)
  BY DEF Marked, Marks
<1> QED
  BY <1>3, <1>4, FS_Subset

\* One point more marks as many numbers as it has of that kind.
LEMMA MarksMore ==
  ASSUME NEW pts \in Seq(Points), NEW pt \in Points, NEW s
  PROVE  Cardinality(Marks(Append(pts, pt), s))
           = Cardinality(Marks(pts, s)) + Cardinality({d \in 1 .. Dims : pt[d].kind = s})
<1> DEFINE n    == Len(pts) + 1
           more == Append(pts, pt)
           D    == {d \in 1 .. Dims : pt[d].kind = s}
           new  == {<<n, d>> : d \in D}
           f    == [d \in D |-> <<n, d>>]
<1>1. /\ Len(pts) \in Nat /\ DOMAIN pts = 1 .. Len(pts) /\ DOMAIN more = 1 .. n
      /\ more[n] = pt /\ \A k \in 1 .. Len(pts) : more[k] = pts[k]
  OBVIOUS
<1>2. DOMAIN more = DOMAIN pts \cup {n} /\ n \notin DOMAIN pts /\ \A k \in DOMAIN pts : more[k] = pts[k]
  BY <1>1
<1>3. IsFiniteSet(D)
  <2>1. Dims \in Int
    BY ArraysAssumption
  <2>2. IsFiniteSet(1 .. Dims) /\ D \in SUBSET (1 .. Dims)
    BY <2>1, FS_Interval
  <2> QED
    BY <2>2, FS_Subset
<1>4. f \in Bijection(D, new)
  <2>1. f \in [D -> new] /\ \A d, e \in D : f[d] = f[e] => d = e
    OBVIOUS
  <2>2. \A x \in new : \E d \in D : f[d] = x
    OBVIOUS
  <2> QED
    BY <2>1, <2>2 DEF Bijection, Injection, Surjection, IsInjective
<1>5. IsFiniteSet(new) /\ Cardinality(new) = Cardinality(D)
  <2>1. ExistsBijection(D, new)
    BY <1>4 DEF ExistsBijection
  <2> QED
    BY <1>3, <2>1, FS_Bijection
<1>6. Marks(more, s) = Marks(pts, s) \cup new
  <2>1. ASSUME NEW kd \in Marks(more, s) PROVE kd \in Marks(pts, s) \cup new
    <3>1. kd \in (DOMAIN more) \X (1 .. Dims) /\ more[kd[1]][kd[2]].kind = s
      BY DEF Marks, Numbers
    <3>2. PICK k \in DOMAIN more, d \in 1 .. Dims : kd = <<k, d>>
      BY <3>1
    <3>3. CASE k = n
      BY <3>1, <3>2, <3>3, <1>1
    <3>4. CASE k \in DOMAIN pts
      BY <3>1, <3>2, <3>4, <1>2 DEF Marks, Numbers
    <3> QED
      BY <3>3, <3>4, <1>2
  <2>2. ASSUME NEW kd \in Marks(pts, s) PROVE kd \in Marks(more, s)
    BY <1>2 DEF Marks, Numbers
  <2>3. ASSUME NEW d \in D PROVE <<n, d>> \in Marks(more, s)
    BY <1>1, <1>2 DEF Marks, Numbers
  <2> QED
    BY <2>1, <2>2, <2>3
<1>7. Marks(pts, s) \cap new = {}
  BY <1>2 DEF Marks, Numbers
<1> HIDE DEF new, D, more
<1>8. IsFiniteSet(Marks(pts, s))
  BY NumbersFinite
<1>9. Cardinality(Marks(more, s)) = Cardinality(Marks(pts, s)) + Cardinality(new) - Cardinality({})
  BY <1>5, <1>6, <1>7, <1>8, FS_Union
<1>10. Cardinality({}) = 0 /\ Cardinality(Marks(pts, s)) \in Nat /\ Cardinality(new) \in Nat
  BY <1>5, <1>8, FS_EmptySet, FS_CardinalityType
<1>11. Cardinality(Marks(more, s)) = Cardinality(Marks(pts, s)) + Cardinality(D)
  BY <1>5, <1>9, <1>10
<1> QED
  BY <1>11 DEF D, more

\* The special numbers are those of each special kind.
LEMMA MarkedInAll ==
  ASSUME NEW pts \in Seq(Points), NEW g, DOMAIN g = Specials, \A s \in Specials : g[s] = Cardinality(Marks(pts, s))
  PROVE  SumFunction(g) = Cardinality(Marked(pts))
<1> DEFINE S == Marked(pts)
           h == [kd \in S |-> pts[kd[1]][kd[2]].kind]
<1>1. IsFiniteSet(S)
  BY NumbersFinite
<1>2. IsFiniteSet(Specials)
  <2>1. Kinds \in Nat /\ Specials \in SUBSET (0 .. Kinds - 1)
    BY ValuesAssumption
  <2>2. IsFiniteSet(0 .. Kinds - 1)
    BY <2>1, FS_Interval
  <2> QED
    BY <2>1, <2>2, FS_Subset
<1>3. \A kd \in S : h[kd] \in Specials
  BY DEF Marked
<1>4. \A s \in Specials : g[s] = Cardinality({kd \in S : h[kd] = s})
  <2>1. \A s \in Specials : {kd \in S : h[kd] = s} = Marks(pts, s)
    BY DEF Marked, Marks
  <2> QED
    BY <2>1
<1> HIDE DEF S, h
<1>5. SumFunctionOnSet(g, Specials) = Cardinality(S)
  BY <1>1, <1>2, <1>3, <1>4, CountedByClass
<1> QED
  BY <1>5 DEF S, SumFunction

\* In 1D a value is either in the trie or special; otherwise every point is in the trie.
LEMMA InOrMarked ==
  ASSUME NEW pts \in Seq(Points)
  PROVE  /\ Cardinality(Inserted(pts)) + (IF OneD THEN Cardinality(Marked(pts)) ELSE 0) = Len(pts)
<1>1. Len(pts) \in Nat /\ DOMAIN pts = 1 .. Len(pts)
  OBVIOUS
<1>2. IsFiniteSet(1 .. Len(pts)) /\ Cardinality(1 .. Len(pts)) = Len(pts)
  BY <1>1, FS_Interval
<1>3. ASSUME ~ OneD PROVE Inserted(pts) = 1 .. Len(pts)
  BY <1>1, <1>3 DEF Inserted, InTrie
<1>4. ASSUME OneD PROVE Cardinality(Inserted(pts)) + Cardinality(Marked(pts)) = Len(pts)
  <2> DEFINE I    == Inserted(pts)
             rest == (1 .. Len(pts)) \ I
             f    == [k \in rest |-> <<k, 1>>]
  <2>1. IsFiniteSet(I) /\ IsFiniteSet(rest) /\ I \cup rest = 1 .. Len(pts) /\ I \cap rest = {}
    BY <1>1, <1>2, FilingIs, FS_Difference DEF Inserted
  <2>2. \A k \in 1 .. Len(pts) : k \in rest <=> pts[k][1].kind \in Specials
    BY <1>1, <1>4 DEF Inserted, InTrie
  <2>3. \A x : x \in Marked(pts) <=> \E k \in rest : x = <<k, 1>>
    <3>1. Dims = 1
      BY <1>4 DEF OneD
    <3>2. ASSUME NEW x \in Marked(pts) PROVE \E k \in rest : x = <<k, 1>>
      <4>1. x \in (DOMAIN pts) \X (1 .. 1) /\ pts[x[1]][x[2]].kind \in Specials
        BY <3>1 DEF Marked, Numbers
      <4>2. PICK k \in DOMAIN pts, d \in 1 .. 1 : x = <<k, d>>
        BY <4>1
      <4>3. d = 1 /\ pts[k][1].kind \in Specials
        BY <4>1, <4>2
      <4> QED
        BY <4>2, <4>3, <2>2, <1>1
    <3>3. ASSUME NEW k \in rest PROVE <<k, 1>> \in Marked(pts)
      BY <3>1, <2>2, <1>1 DEF Marked, Numbers
    <3> QED
      BY <3>2, <3>3
  <2> HIDE DEF rest
  <2>4. f \in Bijection(rest, Marked(pts))
    <3>1. f \in [rest -> Marked(pts)] /\ \A k, l \in rest : f[k] = f[l] => k = l
      BY <2>3
    <3>2. \A x \in Marked(pts) : \E k \in rest : f[k] = x
      BY <2>3
    <3> QED
      BY <3>1, <3>2 DEF Bijection, Injection, Surjection, IsInjective
  <2>5. Cardinality(Marked(pts)) = Cardinality(rest)
    <3>1. ExistsBijection(rest, Marked(pts))
      BY <2>4 DEF ExistsBijection
    <3> QED
      BY <2>1, <3>1, FS_Bijection
  <2> HIDE DEF I
  <2>6. Cardinality(1 .. Len(pts)) = Cardinality(I) + Cardinality(rest) - Cardinality({})
    BY <2>1, FS_Union
  <2>7. Cardinality({}) = 0 /\ Cardinality(I) \in Nat /\ Cardinality(rest) \in Nat
    BY <2>1, FS_EmptySet, FS_CardinalityType
  <2>8. Cardinality(I) + Cardinality(Marked(pts)) = Len(pts)
    BY <1>2, <2>5, <2>6, <2>7
  <2> QED
    BY <2>8 DEF I
<1>5. Cardinality(Inserted(pts)) \in Nat
  BY EachInserted
<1> QED
  BY <1>2, <1>3, <1>4, <1>5

-----------------------------------------------------------------------------
\* The nodes of X in the subtrees that are still to be written.
Rest(X, pending) == {r \in X : \E j \in 1 .. Len(pending) : Under(pending[j], r)}

\* The subtrees to be written are apart and in order, and all that is written comes
\* before them.
AheadInOrder(X, pending) ==
  /\ pending \in Seq(X)
  /\ \A j, k \in 1 .. Len(pending) :
       j < k => Before(pending[j], pending[k]) /\ ~ Under(pending[j], pending[k])
  /\ \A d \in X \ Rest(X, pending) : \A r \in Rest(X, pending) : Before(d, r)

\* A node comes before what is under it,
LEMMA UnderIsAfter ==
  ASSUME NEW a \in Paths, NEW b \in Paths, Under(a, b), a # b
  PROVE  Before(a, b)
<1>1. Len(a) \in Nat /\ Len(b) \in Nat
  BY LenProperties DEF Paths
<1>2. Len(a) < Len(b)
  <2>1. Len(a) <= Len(b) /\ \A i \in 1 .. Len(a) : b[i] = a[i]
    BY DEF Under
  <2>2. Len(a) # Len(b)
    BY <2>1, SeqEqual DEF Paths
  <2> QED
    BY <1>1, <2>1, <2>2
<1> QED
  BY <1>2, BeforeIs

\* and all that is under it comes before what is after the node and not under it.
LEMMA SubtreeBefore ==
  ASSUME NEW h \in Paths, NEW x \in Paths, Before(h, x), ~ Under(h, x), NEW c \in Paths, Under(h, c)
  PROVE  Before(c, x) /\ ~ Under(c, x)
<1>1. Len(h) \in Nat /\ Len(x) \in Nat /\ Len(c) \in Nat
  BY LenProperties DEF Paths
<1>2. PICK d \in 1 .. Len(h) : d <= Len(x) /\ (\A i \in 1 .. d - 1 : h[i] = x[i]) /\ h[d] < x[d]
  BY BeforeIs
<1>3. \A i \in 1 .. Len(h) : c[i] = h[i]
  BY DEF Under
<1>4. Len(h) <= Len(c)
  BY DEF Under
<1>5. d \in 1 .. Len(c) /\ (\A i \in 1 .. d - 1 : c[i] = x[i]) /\ c[d] < x[d]
  BY <1>1, <1>2, <1>3, <1>4
<1>6. Before(c, x)
  BY <1>2, <1>5, BeforeIs
<1>7. c[d] \in Nat /\ x[d] \in Nat
  <2>1. c \in Seq(Nat) /\ x \in Seq(Nat) /\ d \in 1 .. Len(c) /\ d \in 1 .. Len(x)
    BY <1>1, <1>2, <1>5 DEF Paths
  <2> QED
    BY <2>1, ElementOfSeq
<1>8. ~ Under(c, x)
  BY <1>5, <1>7 DEF Under
<1> QED
  BY <1>6, <1>8

\* Under is transitive.
LEMMA UnderTransitive ==
  ASSUME NEW a \in Paths, NEW b \in Paths, NEW c \in Paths, Under(a, b), Under(b, c)
  PROVE  Under(a, c)
<1>1. Len(a) \in Nat /\ Len(b) \in Nat /\ Len(c) \in Nat
  BY LenProperties DEF Paths
<1>2. Len(a) <= Len(b) /\ (\A i \in 1 .. Len(a) : b[i] = a[i]) /\ Len(b) <= Len(c) /\ \A i \in 1 .. Len(b) : c[i] = b[i]
  BY DEF Under
<1> QED
  BY <1>1, <1>2 DEF Under

\* The first node pending is the first of the rest.
LEMMA HeadFirst ==
  ASSUME NEW X \in SUBSET Paths, NEW pending, AheadInOrder(X, pending), pending # <<>>,
         NEW r \in Rest(X, pending), r # Head(pending)
  PROVE  Before(Head(pending), r)
<1>1. Len(pending) \in Nat \ {0} /\ Head(pending) = pending[1] /\ \A j \in 1 .. Len(pending) : pending[j] \in Paths
  BY DEF AheadInOrder
<1>2. PICK j \in 1 .. Len(pending) : Under(pending[j], r)
  BY DEF Rest
<1>3. r \in Paths
  BY DEF Rest
<1>4. CASE j = 1
  BY <1>1, <1>2, <1>3, <1>4, UnderIsAfter
<1>5. CASE j # 1
  <2>1. Before(pending[1], pending[j])
    BY <1>1, <1>5 DEF AheadInOrder
  <2>2. pending[j] = r \/ Before(pending[j], r)
    BY <1>1, <1>2, <1>3, UnderIsAfter
  <2> QED
    BY <1>1, <1>3, <2>1, <2>2, BeforeTransitive
<1> QED
  BY <1>4, <1>5

\* So its place in the file is the number of nodes written.
LEMMA HeadRank ==
  ASSUME NEW X \in SUBSET Paths, NEW pending, AheadInOrder(X, pending), pending # <<>>
  PROVE  /\ Head(pending) \in Rest(X, pending) /\ Head(pending) \in X
         /\ Rank(X, Head(pending)) = Cardinality(X \ Rest(X, pending))
<1> DEFINE h == Head(pending)
<1>1. Len(pending) \in Nat \ {0} /\ h = pending[1] /\ h \in X /\ h \in Paths
  BY DEF AheadInOrder
<1> HIDE DEF h
<1>2. h \in Rest(X, pending)
  <2>1. Len(h) \in Nat
    BY <1>1, LenProperties DEF Paths
  <2>2. Under(h, h)
    BY <2>1 DEF Under
  <2> QED
    BY <1>1, <2>2 DEF Rest
<1>3. \A d \in X \ Rest(X, pending) : Before(d, h)
  BY <1>2 DEF AheadInOrder
<1>4. ASSUME NEW r \in Rest(X, pending), Before(r, h) PROVE FALSE
  <2>1. r \in Paths
    BY DEF Rest
  <2>2. r = h \/ Before(h, r)
    BY HeadFirst DEF h
  <2>3. Before(h, h)
    BY <1>1, <1>4, <2>1, <2>2, BeforeTransitive
  <2> QED
    BY <1>1, <2>3, BeforeIrreflexive
<1>5. {r \in X : Before(r, h)} = X \ Rest(X, pending)
  BY <1>3, <1>4
<1> QED
  BY <1>1, <1>2, <1>5 DEF Rank, h

\* The first node pending is written, and its children are put in its place.
LEMMA HeadWritten ==
  ASSUME NEW X \in SUBSET Paths, NEW pending, AheadInOrder(X, pending), pending # <<>>,
         NEW bins \in SUBSET Nat, IsFiniteSet(bins),
         \A i \in bins : Append(Head(pending), i) \in X,
         \A r \in X : Under(Head(pending), r) /\ r # Head(pending) => r[Len(Head(pending)) + 1] \in bins,
         NEW next, next = Brood(Head(pending), bins) \o Tail(pending)
  PROVE  AheadInOrder(X, next) /\ Rest(X, next) = Rest(X, pending) \ {Head(pending)}
<1> DEFINE h   == Head(pending)
           n   == Cardinality(bins)
           m   == Len(pending)
           nth == Nth(bins)
           brood == Brood(h, bins)
           at(j) == j + n - 1
<1>1. /\ m \in Nat \ {0} /\ h = pending[1] /\ h \in X /\ h \in Paths /\ Tail(pending) \in Seq(X)
      /\ \A j \in 1 .. m : pending[j] \in X /\ pending[j] \in Paths
      /\ Len(Tail(pending)) = m - 1 /\ \A k \in 1 .. m - 1 : Tail(pending)[k] = pending[k + 1]
  BY DEF AheadInOrder
<1>2. n \in Nat
  BY FS_CardinalityType
<1>3. /\ \A k \in 1 .. n : nth[k] \in bins
      /\ \A k, l \in 1 .. n : k < l => nth[k] < nth[l]
      /\ \A i \in bins : \E k \in 1 .. n : nth[k] = i
  BY NthOf
<1>4. \A k \in 1 .. n : brood[k] = Append(h, nth[k])
  BY DEF Brood
<1>5. brood = [k \in 1 .. n |-> brood[k]]
  BY DEF Brood
<1>6. \A i \in bins : Append(h, i) \in X
  OBVIOUS
<1>7. \A r \in X : Under(h, r) /\ r # h => r[Len(h) + 1] \in bins
  OBVIOUS
<1> HIDE DEF h, nth, n, brood, m
<1>8. brood \in Seq(X) /\ Len(brood) = n /\ \A k \in 1 .. n : brood[k] = Append(h, nth[k])
  <2>1. \A k \in 1 .. n : brood[k] \in X
    BY <1>3, <1>4, <1>6
  <2>2. brood \in [1 .. n -> X]
    BY <2>1, <1>5
  <2>3. brood \in Seq(X)
    BY <2>2, <1>2
  <2>4. Len(brood) = n
    <3>1. DOMAIN brood = 1 .. n /\ DOMAIN brood = 1 .. Len(brood) /\ Len(brood) \in Nat
      BY <2>2, <2>3, LenProperties
    <3> DEFINE l == Len(brood)
    <3>2. 1 .. l = 1 .. n /\ l \in Nat
      BY <3>1
    <3> HIDE DEF l
    <3>3. IsFiniteSet(1 .. n) /\ Cardinality(1 .. n) = n /\ Cardinality(1 .. l) = l
      BY <1>2, <3>2, FS_Interval
    <3> QED
      BY <3>2, <3>3 DEF l
  <2> QED
    BY <1>4, <2>3, <2>4
<1>9. \A k \in 1 .. n : nth[k] \in Nat
  <2>1. bins \subseteq Nat
    OBVIOUS
  <2> QED
    BY <1>3, <2>1
<1>10. Len(h) \in Nat
  BY <1>1, LenProperties DEF Paths
<1>11. /\ next \in Seq(X) /\ Len(next) = n + m - 1
       /\ \A k \in 1 .. n : next[k] = Append(h, nth[k])
       /\ \A j \in 2 .. m : next[at(j)] = pending[j]
  <2>1. next = brood \o Tail(pending)
    BY DEF brood, h
  <2>2. next \in Seq(X) /\ Len(next) = n + (m - 1)
    BY <1>1, <1>2, <1>8, <2>1, ConcatProperties
  <2>3. \A k \in 1 .. n + (m - 1) : next[k] = IF k <= n THEN brood[k] ELSE Tail(pending)[k - n]
    BY <1>1, <1>2, <1>8, <2>1, ConcatProperties
  <2>4. ASSUME NEW k \in 1 .. n PROVE next[k] = Append(h, nth[k])
    <3>1. k \in 1 .. n + (m - 1) /\ k <= n
      BY <1>1, <1>2
    <3>2. next[k] = brood[k]
      BY <3>1, <2>3
    <3> QED
      BY <3>2, <1>8
  <2>5. ASSUME NEW j \in 2 .. m PROVE next[at(j)] = pending[j]
    <3> DEFINE k == at(j)
    <3>1. k \in 1 .. n + (m - 1) /\ ~ (k <= n) /\ k - n \in 1 .. m - 1 /\ (k - n) + 1 = j
      BY <1>1, <1>2
    <3> HIDE DEF k
    <3>2. next[k] = Tail(pending)[k - n] /\ Tail(pending)[k - n] = pending[(k - n) + 1]
      BY <3>1, <1>1, <2>3
    <3> QED
      BY <3>1, <3>2 DEF k
  <2>6. n + (m - 1) = n + m - 1
    BY <1>1, <1>2
  <2> QED
    BY <2>2, <2>4, <2>5, <2>6
<1> HIDE DEF at
<1>12. \A k \in 1 .. n : /\ next[k] \in Paths /\ Len(next[k]) = Len(h) + 1 /\ next[k][Len(h) + 1] = nth[k]
       /\ Under(h, next[k]) /\ \A i \in 1 .. Len(h) : next[k][i] = h[i]
  <2> SUFFICES ASSUME NEW k \in 1 .. n
               PROVE  /\ next[k] \in Paths /\ Len(next[k]) = Len(h) + 1 /\ next[k][Len(h) + 1] = nth[k]
                      /\ Under(h, next[k]) /\ \A i \in 1 .. Len(h) : next[k][i] = h[i]
    OBVIOUS
  <2>1. nth[k] \in Nat /\ Len(h) \in Nat /\ next[k] = Append(h, nth[k])
    BY <1>9, <1>10, <1>11
  <2>2. /\ next[k] \in Paths /\ Len(next[k]) = Len(h) + 1 /\ next[k][Len(h) + 1] = nth[k]
        /\ \A i \in 1 .. Len(h) : next[k][i] = h[i]
    <3> DEFINE c == Append(h, nth[k])
    <3>1. h \in Paths /\ nth[k] \in Nat
      BY <1>1, <2>1
    <3>2. /\ c \in Paths /\ Len(c) = Len(h) + 1 /\ c[Len(h) + 1] = nth[k]
          /\ \A i \in 1 .. Len(h) : c[i] = h[i]
      BY <3>1, Extended
    <3>3. next[k] = c
      BY <2>1
    <3> HIDE DEF c
    <3> QED
      BY <3>2, <3>3
  <2>3. Under(h, next[k])
    <3> DEFINE l == Len(h)
    <3>0. l \in Nat /\ Len(next[k]) = l + 1
      BY <2>1, <2>2
    <3> HIDE DEF l
    <3>1. l <= l + 1
      BY <3>0
    <3> QED
      BY <2>2, <3>0, <3>1 DEF Under, l
  <2> QED
    BY <2>2, <2>3
<1>13. ASSUME NEW j \in 2 .. m
       PROVE  /\ Before(h, pending[j]) /\ ~ Under(h, pending[j]) /\ pending[j] \in Paths
              /\ at(j) \in 1 .. Len(next) /\ next[at(j)] = pending[j]
  <2>0. 1 \in 1 .. Len(pending) /\ j \in 1 .. Len(pending) /\ 1 < j
    BY <1>1 DEF m
  <2>1. Before(h, pending[j]) /\ ~ Under(h, pending[j]) /\ pending[j] \in Paths
    BY <2>0, <1>1 DEF AheadInOrder, m
  <2>2. at(j) \in 1 .. n + m - 1
    BY <1>1, <1>2 DEF at
  <2>3. at(j) \in 1 .. Len(next)
    BY <2>2, <1>11
  <2>4. next[at(j)] = pending[j]
    BY <1>11
  <2> QED
    BY <2>1, <2>3, <2>4
<1>14. ASSUME NEW k \in 1 .. Len(next), k > n
       PROVE  k - n + 1 \in 2 .. m /\ next[k] = pending[k - n + 1]
  <2> DEFINE j == k - n + 1
  <2>1. k \in 1 .. n + m - 1
    BY <1>11
  <2>2. j \in 2 .. m /\ at(j) = k
    BY <1>1, <1>2, <1>14, <2>1 DEF at
  <2> HIDE DEF j
  <2>3. next[at(j)] = pending[j]
    BY <2>2, <1>11
  <2> QED
    BY <2>2, <2>3 DEF j
<1>15. ASSUME NEW j \in 1 .. Len(next), NEW k \in 1 .. Len(next), j < k
       PROVE  Before(next[j], next[k]) /\ ~ Under(next[j], next[k])
  <2>1. CASE k <= n
    <3>0. j \in 1 .. n /\ k \in 1 .. n
      BY <1>2, <1>15, <2>1
    <3>1. j \in 1 .. n /\ k \in 1 .. n /\ nth[j] < nth[k] /\ nth[j] \in Nat /\ nth[k] \in Nat
      BY <3>0, <1>3, <1>9, <1>15
    <3>2. Before(next[j], next[k])
      <4> DEFINE d == Len(h) + 1
      <4>1. d \in 1 .. Len(next[j]) /\ d <= Len(next[k]) /\ next[j][d] < next[k][d]
        <5>1. Len(next[j]) = d /\ Len(next[k]) = d /\ next[j][d] = nth[j] /\ next[k][d] = nth[k]
          BY <3>0, <1>12
        <5>2. d \in Nat \ {0}
          BY <1>10
        <5> HIDE DEF d
        <5>3. d \in 1 .. d /\ d <= d
          BY <5>2
        <5> QED
          BY <5>1, <5>3, <3>1
      <4>2. \A i \in 1 .. d - 1 : next[j][i] = next[k][i]
        BY <3>1, <1>12, <1>10
      <4>3. next[j] \in Paths /\ next[k] \in Paths
        BY <3>1, <1>12
      <4> HIDE DEF d
      <4> QED
        BY <4>1, <4>2, <4>3, BeforeIs
    <3>3. ~ Under(next[j], next[k])
      <4>1. Len(h) + 1 \in 1 .. Len(next[j]) /\ next[j][Len(h) + 1] # next[k][Len(h) + 1]
        BY <3>1, <1>12, <1>10
      <4> QED
        BY <4>1 DEF Under
    <3> QED
      BY <3>2, <3>3
  <2>2. CASE j <= n /\ k > n
    <3>0. j \in 1 .. n
      BY <1>2, <2>2
    <3>1. k - n + 1 \in 2 .. m
      BY <2>2, <1>14
    <3>2. next[k] = pending[k - n + 1] /\ next[j] \in Paths /\ Under(h, next[j])
      BY <3>0, <2>2, <1>12, <1>14
    <3>3. Before(h, next[k]) /\ ~ Under(h, next[k]) /\ next[k] \in Paths
      BY <3>1, <3>2, <1>13
    <3> QED
      BY <3>2, <3>3, <1>1, SubtreeBefore
  <2>3. CASE j > n
    <3>1. j \in Nat /\ k \in Nat /\ k > n
      BY <1>2, <1>11, <1>15, <2>3
    <3>2. /\ next[j] = pending[j - n + 1] /\ next[k] = pending[k - n + 1]
          /\ j - n + 1 \in 2 .. m /\ k - n + 1 \in 2 .. m
      BY <3>1, <2>3, <1>14
    <3>3. j - n + 1 \in 1 .. m /\ k - n + 1 \in 1 .. m /\ j - n + 1 < k - n + 1
      BY <3>1, <3>2, <1>1, <1>2, <1>15
    <3> QED
      BY <3>2, <3>3 DEF AheadInOrder, m
  <2>4. k <= n \/ (j <= n /\ k > n) \/ j > n
    <3>1. Len(next) \in Nat
      BY <1>11, LenProperties
    <3>2. j \in Nat /\ k \in Nat
      BY <3>1
    <3> QED
      BY <3>2, <1>2
  <2> QED
    BY <2>1, <2>2, <2>3, <2>4
<1>16. \A r : r \in Rest(X, next) => r \in Rest(X, pending) \ {h}
  <2> SUFFICES ASSUME NEW r \in Rest(X, next) PROVE r \in Rest(X, pending) \ {h}
    OBVIOUS
  <2>1. PICK k \in 1 .. Len(next) : Under(next[k], r)
    BY DEF Rest
  <2>2. r \in X /\ r \in Paths /\ Len(r) \in Nat
    BY LenProperties DEF Rest, Paths
  <2>3. CASE k <= n
    <3>1. k \in 1 .. n
      BY <2>3
    <3>2. Under(h, r)
      BY <3>1, <1>1, <1>12, <2>1, <2>2, UnderTransitive, SMTT(30)
    <3>3. Len(h) + 1 <= Len(r)
      BY <3>1, <1>12, <2>1 DEF Under
    <3> QED
      BY <3>2, <3>3, <1>1, <1>10, <2>2 DEF Rest
  <2>4. CASE k > n
    <3>1. k - n + 1 \in 2 .. m
      BY <2>4, <1>14
    <3>2. next[k] = pending[k - n + 1]
      BY <2>4, <1>14
    <3>3. r \in Rest(X, pending)
      BY <3>1, <3>2, <1>1, <2>1, <2>2 DEF Rest
    <3>4. r # h
      <4> SUFFICES ASSUME r = h PROVE FALSE
        OBVIOUS
      <4>1. Before(h, next[k]) /\ next[k] \in Paths /\ Under(next[k], h)
        BY <3>1, <3>2, <1>13, <2>1
      <4>2. next[k] = h \/ Before(next[k], h)
        BY <4>1, <1>1, UnderIsAfter
      <4>3. Before(h, h)
        BY <4>1, <4>2, <1>1, BeforeTransitive
      <4> QED
        BY <4>3, <1>1, BeforeIrreflexive
    <3> QED
      BY <3>3, <3>4
  <2> QED
    BY <2>3, <2>4, <1>2, <1>11
<1>17. \A r : r \in Rest(X, pending) \ {h} => r \in Rest(X, next)
  <2> SUFFICES ASSUME NEW r \in Rest(X, pending) \ {h} PROVE r \in Rest(X, next)
    OBVIOUS
  <2>1. PICK j \in 1 .. m : Under(pending[j], r)
    BY DEF Rest, m
  <2>2. r \in X /\ r \in Paths /\ Len(r) \in Nat /\ r # h
    BY LenProperties DEF Rest, Paths
  <2>3. CASE j = 1
    <3>1. Under(h, r)
      BY <1>1, <2>1, <2>3
    <3>2. r[Len(h) + 1] \in bins
      BY <1>7, <2>2, <3>1
    <3>3. PICK k \in 1 .. n : nth[k] = r[Len(h) + 1]
      BY <1>3, <3>2
    <3>4. Len(h) <= Len(r) /\ \A i \in 1 .. Len(h) : r[i] = h[i]
      BY <3>1 DEF Under
    <3>5. Len(h) # Len(r)
      BY <1>1, <2>2, <3>4, SeqEqual DEF Paths
    <3>6. Len(h) + 1 <= Len(r)
      BY <1>10, <2>2, <3>4, <3>5
    <3>7. Under(next[k], r)
      <4>1. Len(next[k]) = Len(h) + 1 /\ next[k][Len(h) + 1] = r[Len(h) + 1] /\ \A i \in 1 .. Len(h) : next[k][i] = r[i]
        BY <1>12, <3>3, <3>4
      <4>2. \A i \in 1 .. Len(h) + 1 : next[k][i] = r[i]
        <5> SUFFICES ASSUME NEW i \in 1 .. Len(h) + 1 PROVE next[k][i] = r[i]
          OBVIOUS
        <5> DEFINE l == Len(h)
        <5>0. l \in Nat /\ i \in 1 .. l + 1
          BY <1>10
        <5> HIDE DEF l
        <5>1. i = l + 1 \/ i \in 1 .. l
          BY <5>0
        <5> QED
          BY <4>1, <5>1 DEF l
      <4> QED
        BY <4>1, <4>2, <3>6 DEF Under
    <3>8. k \in 1 .. Len(next)
      BY <1>1, <1>2, <1>11
    <3> QED
      BY <2>2, <3>7, <3>8 DEF Rest
  <2>4. CASE j # 1
    <3>1. j \in 2 .. m
      BY <1>1, <2>4
    <3> DEFINE k == at(j)
    <3>2. next[k] = pending[j]
      BY <3>1, <1>13
    <3>3. k \in 1 .. Len(next)
      BY <3>1, <1>13
    <3> HIDE DEF k
    <3> QED
      BY <2>1, <2>2, <3>2, <3>3 DEF Rest
  <2> QED
    BY <2>3, <2>4
<1>18. Rest(X, next) = Rest(X, pending) \ {h}
  BY <1>16, <1>17
<1>19. ASSUME NEW d \in X \ Rest(X, next), NEW r \in Rest(X, next) PROVE Before(d, r)
  <2>1. r \in Rest(X, pending) /\ r # h
    BY <1>18
  <2>2. CASE d = h
    BY <2>1, <2>2, HeadFirst DEF h
  <2>3. CASE d \notin Rest(X, pending)
    BY <2>1, <2>3 DEF AheadInOrder
  <2> QED
    BY <2>2, <2>3, <1>18
<1> QED
  BY <1>11, <1>15, <1>18, <1>19 DEF AheadInOrder, h

-----------------------------------------------------------------------------
\* The file so far is the encoding up to the nodes that are still to be written.
Writing(t, pending, o) ==
  /\ AheadInOrder(Nodes(t), pending)
  /\ o = SubSeq(Encode(t), 1, Cardinality(Nodes(t) \ Rest(Nodes(t), pending)))

\* It is before the root is written,
LEMMA WritingStarts ==
  ASSUME NEW t, IsTrie(t), NEW pending, pending = <<(<<>>)>>
  PROVE  Writing(t, pending, <<>>)
<1> DEFINE X == Nodes(t)
<1>1. X \in SUBSET Paths /\ <<>> \in X
  BY NodesArePaths
<1> HIDE DEF X
<1>2. pending \in Seq(X) /\ Len(pending) = 1 /\ pending[1] = <<>>
  BY <1>1
<1>3. \A r \in X : Under(<<>>, r)
  <2> SUFFICES ASSUME NEW r \in X PROVE Under(<<>>, r)
    OBVIOUS
  <2>1. Len(r) \in Nat
    BY <1>1, LenProperties DEF Paths
  <2> QED
    BY <2>1 DEF Under
<1>4. Rest(X, pending) = X
  BY <1>2, <1>3 DEF Rest
<1>5. AheadInOrder(X, pending)
  BY <1>2, <1>4 DEF AheadInOrder
<1>6. X \ X = {} /\ Cardinality({}) = 0 /\ SubSeq(Encode(t), 1, 0) = <<>>
  BY FS_EmptySet, SubSeqEmpty
<1>7. <<>> = SubSeq(Encode(t), 1, Cardinality(X \ Rest(X, pending)))
  BY <1>4, <1>6
<1> QED
  BY <1>5, <1>7 DEF Writing, X

\* as each node is written and its children take its place,
LEMMA WritingGoesOn ==
  ASSUME NEW t, Levelled(t, Depth), NEW pending, NEW o, Writing(t, pending, o), pending # <<>>,
         NEW bins, \A b : b \in bins <=> b \in DOMAIN Token(t, Head(pending)) /\ Append(Head(pending), b) \in Nodes(t),
         IsFiniteSet(bins),
         NEW next, next = Brood(Head(pending), bins) \o Tail(pending)
  PROVE  Writing(t, next, Append(o, Token(t, Head(pending))))
<1> DEFINE X == Nodes(t)
           h == Head(pending)
           left == Rest(X, pending)
           less == Rest(X, next)
           E == Encode(t)
           token == Token(t, h)
<1>1. IsTrie(t) /\ X \in SUBSET Paths /\ IsFiniteSet(X)
  BY NodesArePaths DEF Levelled
<1>2. AheadInOrder(X, pending) /\ o = SubSeq(E, 1, Cardinality(X \ left))
  BY DEF Writing
<1> HIDE DEF X, E
<1>3. h \in left /\ h \in X /\ Rank(X, h) = Cardinality(X \ left) /\ h \in Paths
  BY <1>1, <1>2, HeadRank
<1> HIDE DEF h, left, less
<1>4. Len(h) \in Nat
  BY <1>3, LenProperties DEF Paths
<1>5. bins \in SUBSET Nat /\ \A b : b \in bins <=> b \in DOMAIN token /\ Append(h, b) \in X
  <2>1. DOMAIN token \in SUBSET Nat
    BY <1>1, <1>3, TokenIs
  <2> QED
    BY <2>1 DEF h, X
<1>6. ASSUME NEW r \in X, Under(h, r), r # h
      PROVE  r[Len(h) + 1] \in bins
  <2>1. r \in Paths /\ Len(r) \in Nat
    BY <1>1, LenProperties DEF Paths
  <2>2. Len(r) # Len(h)
    BY <1>3, <1>4, <1>6, <2>1, SeqEqual DEF Under, Paths
  <2>3. Len(h) + 1 \in 1 .. Len(r) /\ r[Len(h) + 1] \in Nat
    BY <1>4, <1>6, <2>1, <2>2 DEF Under, Paths
  <2> DEFINE b == r[Len(h) + 1]
             c == Append(h, b)
  <2> HIDE DEF b
  <2>4. /\ c \in Paths /\ Len(c) = Len(h) + 1
        /\ \A i \in 1 .. Len(h) : c[i] = h[i]
        /\ c[Len(h) + 1] = b
    BY <1>3, <2>3, Extended DEF b
  <2> HIDE DEF c
  <2>5. Under(c, r)
    BY <1>4, <1>6, <2>1, <2>3, <2>4 DEF Under, b
  <2>6. c \in X
    BY <1>1, <2>4, <2>5, NodesClosed DEF X
  <2>7. b \in DOMAIN token
    BY <1>3, <2>3, <2>6, ChildIs DEF c, X, b
  <2> QED
    BY <1>5, <2>6, <2>7 DEF c, b
<1>7. AheadInOrder(X, next) /\ less = left \ {h}
  <2>1. AheadInOrder(X, next) /\ Rest(X, next) = Rest(X, pending) \ {Head(pending)}
    <3>1. \A i \in bins : Append(Head(pending), i) \in X
      BY <1>5 DEF h
    <3>2. \A r \in X : Under(Head(pending), r) /\ r # Head(pending) => r[Len(Head(pending)) + 1] \in bins
      BY <1>6 DEF h
    <3> QED
      BY <1>1, <1>2, <1>5, <3>1, <3>2, HeadWritten
  <2> QED
    BY <2>1 DEF h, left, less
<1>8. /\ Cardinality(X \ left) \in Nat /\ Cardinality(X \ less) = Cardinality(X \ left) + 1
      /\ Cardinality(X \ less) <= Cardinality(X)
  <2>1. X \ less = (X \ left) \cup {h} /\ h \notin X \ left
    BY <1>3, <1>7
  <2>2. IsFiniteSet(X \ left) /\ IsFiniteSet(X \ less)
    BY <1>1, FS_Subset
  <2>3. Cardinality((X \ left) \cup {h}) = Cardinality(X \ left) + 1
    BY <2>1, <2>2, FS_AddElement
  <2>4. Cardinality(X \ left) \in Nat /\ Cardinality(X \ less) <= Cardinality(X)
    BY <1>1, <2>2, FS_CardinalityType, FS_Subset
  <2> QED
    BY <2>1, <2>3, <2>4
<1>9. Append(o, token) = SubSeq(E, 1, Cardinality(X \ less))
  <2> DEFINE n == Cardinality(X \ left)
             S == {Token(t, q) : q \in X}
  <2>1. E \in Seq(S) /\ Len(E) = Cardinality(X)
    BY <1>1, EncodeIs DEF X, E
  <2>2. n \in Nat /\ n + 1 = Cardinality(X \ less) /\ n + 1 <= Len(E)
    BY <1>8, <2>1
  <2>3. E[Rank(X, h) + 1] = token
    BY <1>1, <1>3, EncodeAt DEF X, E
  <2>4. E[n + 1] = token
    BY <1>3, <2>3
  <2> HIDE DEF n, S
  <2>5. Append(SubSeq(E, 1, n), E[n + 1]) = SubSeq(E, 1, n + 1)
    BY <2>1, <2>2, SubSeqRecursiveSecond
  <2> QED
    BY <1>2, <2>2, <2>4, <2>5 DEF n
<1> QED
  BY <1>7, <1>9 DEF Writing, X, E, h, less

\* and when nothing is left it is the whole encoding.
LEMMA WritingEnds ==
  ASSUME NEW t, IsTrie(t), NEW o, Writing(t, <<>>, o)
  PROVE  o = Encode(t)
<1> DEFINE X == Nodes(t)
<1>1. Rest(X, <<>>) = {}
  BY DEF Rest
<1>2. X \ {} = X
  OBVIOUS
<1>3. o = SubSeq(Encode(t), 1, Cardinality(X))
  BY <1>1, <1>2 DEF Writing
<1>4. Encode(t) \in Seq({Token(t, q) : q \in X}) /\ Len(Encode(t)) = Cardinality(X)
  BY EncodeIs
<1> HIDE DEF X
<1>5. SubSeq(Encode(t), 1, Len(Encode(t))) = Encode(t)
  BY <1>4, SubSeqFull
<1> QED
  BY <1>3, <1>4, <1>5

\* What the writer writes of a node in memory is its token, and it goes on to the
\* children that the trie has.
LEMMA NodeWritten ==
  ASSUME NEW t, Fits(t), Rolled(t), NEW q \in Nodes(t)
  PROVE  /\ [i \in Mask(q) |-> nodes[q].counts[i]] = Token(t, q)
         /\ \E bins : /\ IsFiniteSet(bins) /\ Children(q) = Brood(q, bins)
                      /\ \A b : b \in bins <=> b \in DOMAIN Token(t, q) /\ Append(q, b) \in Nodes(t)
<1> DEFINE bins == {i \in Mask(q) : Append(q, i) \in DOMAIN nodes}
<1>1. /\ DOMAIN nodes = Nodes(t) \cup Rooms /\ q \in DOMAIN nodes
      /\ nodes[q].counts = [i \in NodeBins(Len(q) + 1) |-> Held(t, q, i)] /\ Mask(q) = DOMAIN Token(t, q)
  BY DEF Rolled
<1>2. /\ DOMAIN Token(t, q) \in SUBSET NodeBins(Len(q) + 1)
      /\ \A i \in DOMAIN Token(t, q) : Token(t, q)[i] = Held(t, q, i)
  BY HeldIs
<1>3. [i \in Mask(q) |-> nodes[q].counts[i]] = Token(t, q)
  <2> DEFINE T == Token(t, q)
  <2>1. T = [i \in DOMAIN T |-> T[i]]
    BY DEF Token
  <2>2. \A i \in DOMAIN T : nodes[q].counts[i] = T[i]
    BY <1>1, <1>2
  <2>3. Mask(q) = DOMAIN T
    BY <1>1
  <2> DEFINE M == Mask(q)
             C == nodes[q].counts
  <2> HIDE DEF T, M, C
  <2>4. [i \in M |-> C[i]] = T
    BY <2>1, <2>2, <2>3 DEF M, C
  <2> QED
    BY <2>4 DEF M, C, T
<1>4. \A b : b \in bins <=> b \in DOMAIN Token(t, q) /\ Append(q, b) \in Nodes(t)
  <2> SUFFICES ASSUME NEW b PROVE b \in bins <=> b \in DOMAIN Token(t, q) /\ Append(q, b) \in Nodes(t)
    OBVIOUS
  <2>1. b \in bins <=> b \in DOMAIN Token(t, q) /\ Append(q, b) \in Nodes(t) \cup Rooms
    BY <1>1
  <2>2. b \in DOMAIN Token(t, q) => (Append(q, b) \in Nodes(t) \cup Rooms <=> Append(q, b) \in Nodes(t))
    <3>1. b \in DOMAIN Token(t, q) => b \in NodeBins(Len(q) + 1)
      BY <1>2
    <3>2. q \in Nodes(t) \cup Rooms
      OBVIOUS
    <3> QED
      BY <3>1, <3>2, ChildrenAre
  <2> HIDE DEF bins
  <2> QED
    BY <2>1, <2>2
<1>5. IsFiniteSet(bins)
  <2>1. Len(q) + 1 \in 1 .. MaxDepth
    BY NodeDepth DEF Fits
  <2>2. Bins[Len(q) + 1] \in Nat
    BY <2>1, BinsAssumption DEF MaxDepth
  <2>3. IsFiniteSet(NodeBins(Len(q) + 1))
    BY <2>2, FS_Interval DEF NodeBins
  <2>4. bins \in SUBSET NodeBins(Len(q) + 1)
    BY <1>1, <1>2
  <2> QED
    BY <2>3, <2>4, FS_Subset
<1>6. Children(q) = Brood(q, bins)
  BY DEF Children
<1> HIDE DEF bins
<1> QED
  BY <1>3, <1>4, <1>5, <1>6

-----------------------------------------------------------------------------
\* The loop's index and its bounds.
LoopOK ==
  /\ check \in LengthChecks
  /\ lengths \in [1 .. Dims -> 0 .. MaxLen]
  /\ points \in Seq(Points)

InBounds == LoopOK /\ EqualLengths

\* Reading starts inside the arrays.
LEMMA InitInBounds == Init => InBounds
  BY DEF Init, InBounds, LoopOK, EqualLengths

\* The only step that could read outside is ReadPastEnd: with equal lengths
\* its guard contradicts the loop's condition.
LEMMA StepInBounds ==
  ASSUME "all" \notin LengthChecks, InBounds, [Next]_vars
  PROVE  InBounds'
<1> USE DEF InBounds
<1>1. CASE CheckLengths
  <2>1. LoopOK'
    BY <1>1 DEF CheckLengths, LoopOK
  <2>2. check = "any" => pc' = IF Differing = {} THEN "insert" ELSE "refused"
    BY <1>1 DEF CheckLengths, LengthsAccepted
  <2>3. Differing' = Differing /\ check' = check
    BY <1>1 DEF CheckLengths, Differing
  <2>4. check \in {"any", "none"}
    BY ArraysAssumption DEF LoopOK
  <2> QED
    BY <2>1, <2>2, <2>3, <2>4 DEF EqualLengths
<1>2. CASE Insert
  <2>1. LoopOK'
    BY <1>2 DEF Insert, LoopOK
  <2> QED
    BY <2>1, <1>2 DEF Insert, EqualLengths, Differing
<1>3. CASE ReadPastEnd /\ check = "none"
  BY <1>3 DEF ReadPastEnd, EqualLengths, LoopOK
<1>4. CASE ReadPastEnd /\ check # "none"
  <2>1. /\ pc = "insert" /\ Len(points) < lengths[1]
        /\ \E d \in 1 .. Dims : Len(points) >= lengths[d]
    BY <1>4 DEF ReadPastEnd
  <2>2. \A d \in 1 .. Dims : lengths[d] = lengths[1]
    <3>1. Differing = {}
      BY <2>1, <1>4 DEF EqualLengths
    <3>2. DOMAIN lengths = 1 .. Dims
      BY DEF LoopOK
    <3> QED
      BY <3>1, <3>2 DEF Differing
  <2>3. PICK d \in 1 .. Dims : Len(points) >= lengths[d]
    BY <2>1
  <2>4. /\ Len(points) \in Nat /\ lengths[1] \in Nat /\ lengths[d] = lengths[1]
    BY <2>2, <2>3, ArraysAssumption DEF LoopOK
  <2> QED
    BY <2>1, <2>3, <2>4
<1>5. CASE RollUp
  BY <1>5 DEF RollUp, EqualLengths, LoopOK, Differing
<1>6. CASE WriteHeader
  BY <1>6 DEF WriteHeader, EqualLengths, LoopOK, Differing
<1>7. CASE WriteNode
  BY <1>7 DEF WriteNode, EqualLengths, LoopOK, Differing
<1>8. CASE WriteEOF
  BY <1>8 DEF WriteEOF, EqualLengths, LoopOK, Differing
<1>9. CASE UNCHANGED vars
  BY <1>9 DEF vars, EqualLengths, LoopOK, Differing
<1> QED
  BY <1>1, <1>2, <1>3, <1>4, <1>5, <1>6, <1>7, <1>8, <1>9 DEF Next, Generation, Ended

(***************************************************************************)
(* With every length compared to the first array's, unequal arrays are     *)
(* refused and no element past an array's end is ever read (2DxP.cpp       *)
(* 98-102), whatever the values and the threshold.  The weaker check of    *)
(* the 3D and 4D schemas is assumed away.                                  *)
(***************************************************************************)
THEOREM UnequalArraysRefused ==
  ASSUME "all" \notin LengthChecks PROVE Spec => []EqualLengths
<1>1. Init => InBounds
  BY InitInBounds
<1>2. InBounds /\ [Next]_vars => InBounds'
  BY StepInBounds
<1>3. InBounds => EqualLengths
  BY DEF InBounds
<1> QED
  BY <1>1, <1>2, <1>3, PTL DEF Spec

-----------------------------------------------------------------------------
\* A step that leaves the nodes alone.
LEMMA NodesKept ==
  ASSUME NEW t, nodes' = nodes
  PROVE  (Growing(t) => Growing(t)') /\ (Rolled(t) => Rolled(t)') /\ (Full => Full')
<1>1. Growing(t) => Growing(t)'
  BY DEF Growing
<1>2. Rolled(t) => Rolled(t)'
  BY DEF Rolled, Mask
<1>3. Full => Full'
  BY DEF Full, Size
<1> QED
  BY <1>1, <1>2, <1>3

\* What is in memory and in the file when t is the trie of the points read.
Holds(t) ==
  /\ pc \in {"check", "insert", "refused", "overrun"} => Growing(t)
  /\ pc \in {"header", "write", "done"} => Rolled(t) /\ (Len(points) = lengths[1] \/ Full)
  /\ pc \in {"write", "done"} => header = [trie |-> Cardinality(Inserted(points)), special |-> special]
  /\ pc \notin {"write", "done"} => out = <<>>
  /\ pc = "write" => Writing(t, todo, out)
  /\ pc = "done" => out = Wire(t)

\* The special numbers of the points are counted.
SpecialsCounted == special = [s \in Specials |-> Cardinality(Marks(points, s))]

GenInv ==
  /\ pc \in {"check", "insert", "refused", "overrun", "header", "write", "done"}
  /\ LoopOK /\ Len(points) <= lengths[1]
  /\ SpecialsCounted
  /\ Holds(Filing(points))

\* As many points are read as an array holds, so the trie of the points has room for its
\* counts.
LEMMA PointsFit ==
  ASSUME GenInv
  PROVE  /\ points \in Seq(Points) /\ Len(points) \in Nat /\ Fits(Filing(points))
         /\ Levelled(Filing(points), Depth) /\ IsTrie(Filing(points))
<1>1. points \in Seq(Points) /\ Len(points) \in Nat
  BY DEF GenInv, LoopOK, Points
<1>2. lengths[1] \in 0 .. MaxLen /\ MaxLen \in 0 .. CountMod - 1
  BY ArraysAssumption DEF GenInv, LoopOK
<1>3. Len(points) < CountMod
  BY <1>1, <1>2, ModAssumption DEF GenInv
<1>4. Fits(Filing(points))
  BY <1>1, <1>3, FilingFits
<1> QED
  BY <1>1, <1>4 DEF Fits, Levelled

\* No points, no values: the root is alone, or in 1D with its children.
LEMMA InitHolds == Init => GenInv
<1> SUFFICES ASSUME Init PROVE GenInv
  OBVIOUS
<1>1. LoopOK /\ Len(points) <= lengths[1] /\ pc = "check" /\ out = <<>> /\ points = <<>>
  <2>1. points = <<>> /\ Len(points) = 0 /\ lengths[1] \in 0 .. MaxLen
    BY ArraysAssumption DEF Init
  <2> QED
    BY <2>1 DEF Init, LoopOK
<1>2. SpecialsCounted
  <2>1. ASSUME NEW s PROVE Marks(<<>>, s) = {}
    BY DEF Marks, Numbers
  <2>2. \A s \in Specials : Cardinality(Marks(points, s)) = 0
    BY <1>1, <2>1, FS_EmptySet
  <2>3. special = [s \in Specials |-> 0]
    BY DEF Init
  <2> QED
    BY <2>2, <2>3 DEF SpecialsCounted
<1> DEFINE t == Filing(points)
<1>3. DOMAIN t = {}
  BY <1>1 DEF Filing, Inserted
<1> HIDE DEF t
<1>4. Nodes(t) = {<<>>} /\ \A q : Below(t, q) = {}
  BY <1>3 DEF Nodes, Below
<1>5. \A q : DOMAIN Token(t, q) = {}
  BY <1>4 DEF Token
<1>6. nodes = [q \in {<<>>} \cup Rooms |-> NewNode(q)]
  BY DEF Init, Rooms
<1>7. ASSUME NEW q PROVE NewNode(q) = Raw(t, q)
  <2>1. \A p : CountAt(t, p) = 0
    BY <1>3 DEF CountAt
  <2> QED
    BY <2>1, <1>5 DEF NewNode, Raw
<1>8. Growing(t)
  BY <1>4, <1>6, <1>7 DEF Growing
<1> QED
  BY <1>1, <1>2, <1>8 DEF GenInv, Holds, t

\* Reading a point.
LEMMA InsertHolds == GenInv /\ Insert => GenInv'
<1> SUFFICES ASSUME GenInv, Insert PROVE GenInv'
  OBVIOUS
<1>1. PICK pt \in Points : /\ points' = Append(points, pt)
                           /\ nodes' = IF InTrie(pt) THEN Filed(Path(pt)) ELSE nodes
                           /\ special' = Counted(pt)
  BY DEF Insert
<1>2. /\ pc = "insert" /\ pc' = "insert" /\ Len(points) < lengths[1]
      /\ check' = check /\ lengths' = lengths /\ out' = out
  BY DEF Insert
<1>3. points \in Seq(Points) /\ Len(points) \in Nat
  BY PointsFit
<1> DEFINE more == Append(points, pt)
<1>4. PICK t, u : t = Filing(points) /\ u = Filing(more)
  OBVIOUS
<1>5. /\ more \in Seq(Points) /\ Len(more) = Len(points) + 1
      /\ ~ InTrie(pt) => u = t
      /\ InTrie(pt) => /\ DOMAIN u = DOMAIN t \cup {Path(pt)}
                       /\ \A p : CountAt(u, p) = CountAt(t, p) + IF p = Path(pt) THEN 1 ELSE 0
  <2>1. /\ more \in Seq(Points) /\ Len(more) = Len(points) + 1
        /\ ~ InTrie(pt) => Filing(more) = Filing(points)
        /\ InTrie(pt) => /\ DOMAIN Filing(more) = DOMAIN Filing(points) \cup {Path(pt)}
                         /\ \A p : CountAt(Filing(more), p) =
                                     CountAt(Filing(points), p) + IF p = Path(pt) THEN 1 ELSE 0
    BY <1>3, OnePointMore
  <2> QED
    BY <1>4, <2>1
<1>6. LoopOK' /\ Len(points') <= lengths'[1]
  <2>1. lengths[1] \in Nat
    BY ArraysAssumption DEF GenInv, LoopOK
  <2> QED
    BY <1>1, <1>2, <1>3, <1>5, <2>1 DEF GenInv, LoopOK, Points
<1>7. SpecialsCounted'
  <2>1. \A s \in Specials : special[s] = Cardinality(Marks(points, s))
    BY DEF GenInv, SpecialsCounted
  <2>2. \A s \in Specials : Cardinality(Marks(more, s))
                              = Cardinality(Marks(points, s)) + Cardinality({d \in 1 .. Dims : pt[d].kind = s})
    BY <1>3, MarksMore
  <2>3. special' = [s \in Specials |-> Cardinality(Marks(more, s))]
    BY <1>1, <2>1, <2>2 DEF Counted
  <2> QED
    BY <1>1, <2>3 DEF SpecialsCounted
<1>8. Growing(t)
  BY <1>4, <1>2 DEF GenInv, Holds
<1>9. Growing(u)'
  <2>1. CASE ~ InTrie(pt)
    <3>1. nodes' = nodes /\ u = t
      BY <1>1, <1>5, <2>1
    <3> QED
      BY <1>8, <3>1, NodesKept
  <2>2. CASE InTrie(pt)
    <3>1. ValueMore(t, u, Path(pt))
      <4>1. Levelled(t, Depth) /\ \A p : CountAt(t, p) \in Nat
        <5>1. \A p : CountAt(t, p) = Cardinality(At(points, p)) /\ Cardinality(At(points, p)) \in Nat
          BY <1>4, <1>3, FilingIs
        <5> QED
          BY <1>4, <1>3, <5>1, FilingIs
      <4>2. Levelled(u, Depth)
        BY <1>4, <1>5, FilingIs
      <4>3. Path(pt) \in Leaves
        BY <2>2, PathsAssumption
      <4> QED
        BY <1>5, <2>2, <4>1, <4>2, <4>3 DEF ValueMore
    <3>2. DOMAIN Filed(Path(pt)) = Nodes(u) \cup Rooms /\ \A q \in DOMAIN Filed(Path(pt)) : Filed(Path(pt))[q] = Raw(u, q)
      BY <1>8, <3>1, FiledIs
    <3>3. nodes' = Filed(Path(pt))
      BY <1>1, <2>2
    <3>4. DOMAIN nodes' = Nodes(u) \cup Rooms /\ \A q \in DOMAIN nodes' : nodes'[q] = Raw(u, q)
      BY <3>2, <3>3
    <3> QED
      BY <3>4 DEF Growing
  <2> QED
    BY <2>1, <2>2
<1>10. Filing(points)' = u
  BY <1>4, <1>1 DEF Filing, Inserted, At
<1>11. out' = <<>>
  BY <1>2 DEF GenInv, Holds
<1>12. Holds(u)'
  BY <1>2, <1>9, <1>11 DEF Holds
<1>13. Holds(Filing(points))'
  BY <1>10, <1>12
<1> QED
  BY <1>2, <1>6, <1>7, <1>13 DEF GenInv

\* A step that reads nothing.
LEMMA PointsKept ==
  ASSUME GenInv, UNCHANGED <<check, lengths, points, special>>,
         pc' \in {"check", "insert", "refused", "overrun", "header", "write", "done"},
         NEW t, t = Filing(points), Holds(t)'
  PROVE  GenInv'
<1>1. LoopOK' /\ Len(points')  <= lengths'[1]
  BY DEF GenInv, LoopOK
<1>2. SpecialsCounted'
  BY DEF GenInv, SpecialsCounted
<1>3. Filing(points)' = t
  BY DEF Filing, Inserted, At
<1>4. Holds(Filing(points))'
  BY <1>3
<1> QED
  BY <1>1, <1>2, <1>4 DEF GenInv

\* The length check, and the end of an overrun.
LEMMA StoppedHolds == GenInv /\ (CheckLengths \/ ReadPastEnd) => GenInv'
<1> SUFFICES ASSUME GenInv, CheckLengths \/ ReadPastEnd PROVE GenInv'
  OBVIOUS
<1>1. PICK t : t = Filing(points)
  OBVIOUS
<1>2. /\ pc \in {"check", "insert"} /\ pc' \in {"insert", "refused", "overrun"}
      /\ nodes' = nodes /\ out' = out /\ UNCHANGED <<check, lengths, points, special>>
  BY DEF CheckLengths, ReadPastEnd
<1>3. Growing(t) /\ out = <<>>
  BY <1>1, <1>2 DEF GenInv, Holds
<1>4. Growing(t)'
  BY <1>2, <1>3, NodesKept
<1>5. Holds(t)'
  BY <1>2, <1>3, <1>4 DEF Holds
<1> QED
  BY <1>1, <1>2, <1>5, PointsKept

\* The roll-up neither adds nor drops a node.
LEMMA RollUpHolds == GenInv /\ RollUp => GenInv'
<1> SUFFICES ASSUME GenInv, RollUp PROVE GenInv'
  OBVIOUS
<1>1. PICK t : t = Filing(points)
  OBVIOUS
<1>2. /\ pc = "insert" /\ pc' = "header" /\ (Len(points) = lengths[1] \/ Full)
      /\ DOMAIN nodes' = DOMAIN nodes /\ out' = out /\ UNCHANGED <<check, lengths, points, special>>
  BY DEF RollUp
<1>3. Growing(t) /\ out = <<>> /\ Fits(t)
  BY <1>1, <1>2, PointsFit DEF GenInv, Holds
<1>4. Rolled(t)'
  BY <1>3, RolledUp
<1>5. Full => Full'
  BY <1>2 DEF Full, Size
<1>6. Len(points') = lengths'[1] \/ Full'
  BY <1>2, <1>5
<1>7. Holds(t)'
  BY <1>2, <1>3, <1>4, <1>6 DEF Holds
<1> QED
  BY <1>1, <1>2, <1>7, PointsKept

\* The header has the number of points that are in the trie, which is what the root's
\* bins hold.
LEMMA WriteHeaderHolds == GenInv /\ WriteHeader => GenInv'
<1> SUFFICES ASSUME GenInv, WriteHeader PROVE GenInv'
  OBVIOUS
<1>1. PICK t : t = Filing(points)
  OBVIOUS
<1>2. /\ pc = "header" /\ pc' = "write" /\ nodes' = nodes /\ out' = out
      /\ header' = [trie |-> SumFunction(nodes[<<>>].counts) % CountMod, special |-> special]
      /\ todo' = <<(<<>>)>> /\ UNCHANGED <<check, lengths, points, special>>
  BY DEF WriteHeader
<1>3. Rolled(t) /\ (Len(points) = lengths[1] \/ Full) /\ out = <<>>
  BY <1>1, <1>2 DEF GenInv, Holds
<1>4. Fits(t) /\ IsTrie(t)
  BY <1>1, PointsFit
<1>5. SumFunction(nodes[<<>>].counts) % CountMod = Cardinality(Inserted(points))
  <2>1. <<>> \in Nodes(t)
    BY <1>4, NodesArePaths
  <2>2. nodes[<<>>].counts = [i \in NodeBins(Len(<<>>) + 1) |-> Held(t, <<>>, i)]
    BY <1>3, <2>1 DEF Rolled
  <2>3. SumFunction(nodes[<<>>].counts) = SumFunctionOnSet(t, Below(t, <<>>))
    <3> DEFINE g == nodes[<<>>].counts
    <3>1. DOMAIN g = NodeBins(Len(<<>>) + 1) /\ \A i \in NodeBins(Len(<<>>) + 1) : g[i] = Held(t, <<>>, i)
      BY <2>2
    <3> HIDE DEF g
    <3>2. SumFunction(g) = SumFunctionOnSet(t, Below(t, <<>>))
      BY <1>4, <2>1, <3>1, HeldTogether
    <3> QED
      BY <3>2 DEF g
  <2>4. Below(t, <<>>) = DOMAIN t
    <3>1. Below(t, <<>>) = {p \in DOMAIN t : Len(<<>>) < Len(p) /\ Under(<<>>, p)}
      <4>1. <<>> \in Paths
        BY DEF Paths
      <4> QED
        BY <1>4, <4>1, BelowIs
    <3>2. ASSUME NEW p \in DOMAIN t PROVE Len(<<>>) < Len(p) /\ Under(<<>>, p)
      <4>1. p \in Paths /\ p # <<>>
        BY <1>4 DEF IsTrie
      <4>2. Len(p) \in Nat /\ Len(p) # 0 /\ Len(<<>>) = 0
        BY <4>1, EmptySeq, LenProperties DEF Paths
      <4> QED
        BY <4>2 DEF Under
    <3> QED
      BY <3>1, <3>2
  <2>5. SumFunctionOnSet(t, DOMAIN t) = Cardinality(Inserted(points))
    BY <1>1, PointsFit, EachInserted
  <2>6. SumFunctionOnSet(t, DOMAIN t) % CountMod = SumFunctionOnSet(t, DOMAIN t)
    BY <1>4, NothingWraps
  <2> QED
    BY <2>3, <2>4, <2>5, <2>6
<1>6. header' = [trie |-> Cardinality(Inserted(points')), special |-> special']
  BY <1>2, <1>5
<1>7. Writing(t, todo', out')
  BY <1>2, <1>3, <1>4, WritingStarts
<1>8. Rolled(t)' /\ (Len(points') = lengths'[1] \/ Full')
  BY <1>2, <1>3, NodesKept
<1>9. Inserted(points)' = Inserted(points')
  BY DEF Inserted
<1>10. Holds(t)'
  BY <1>2, <1>6, <1>7, <1>8 DEF Holds
<1> QED
  BY <1>1, <1>2, <1>10, PointsKept

\* Writing a node, and the mark at the end.
LEMMA WritesHold == GenInv /\ (WriteNode \/ WriteEOF) => GenInv'
<1> SUFFICES ASSUME GenInv, WriteNode \/ WriteEOF PROVE GenInv'
  OBVIOUS
<1>1. PICK t : t = Filing(points)
  OBVIOUS
<1>2. /\ pc = "write" /\ pc' \in {"write", "done"} /\ nodes' = nodes /\ header' = header
      /\ UNCHANGED <<check, lengths, points, special>>
  BY DEF WriteNode, WriteEOF
<1>3. /\ Rolled(t) /\ (Len(points) = lengths[1] \/ Full) /\ Writing(t, todo, out)
      /\ header = [trie |-> Cardinality(Inserted(points)), special |-> special]
  BY <1>1, <1>2 DEF GenInv, Holds
<1>4. Fits(t) /\ IsTrie(t) /\ Levelled(t, Depth)
  BY <1>1, PointsFit
<1>5. Rolled(t)' /\ (Len(points') = lengths'[1] \/ Full')
  BY <1>2, <1>3, NodesKept
<1>6. header' = [trie |-> Cardinality(Inserted(points')), special |-> special']
  BY <1>2, <1>3
<1>7. CASE WriteNode
  <2> DEFINE h == Head(todo)
  <2>1. /\ todo # <<>> /\ pc' = "write" /\ out' = Append(out, [i \in Mask(h) |-> nodes[h].counts[i]])
        /\ todo' = Children(h) \o Tail(todo)
    BY <1>7 DEF WriteNode
  <2>2. h \in Nodes(t)
    <3>1. Nodes(t) \in SUBSET Paths /\ AheadInOrder(Nodes(t), todo)
      BY <1>3, <1>4, NodesArePaths DEF Writing
    <3> QED
      BY <2>1, <3>1, HeadRank
  <2> HIDE DEF h
  <2>3. [i \in Mask(h) |-> nodes[h].counts[i]] = Token(t, h)
    BY <1>3, <1>4, <2>2, NodeWritten
  <2>4. PICK bins : /\ IsFiniteSet(bins) /\ Children(h) = Brood(h, bins)
                    /\ \A b : b \in bins <=> b \in DOMAIN Token(t, h) /\ Append(h, b) \in Nodes(t)
    BY <1>3, <1>4, <2>2, NodeWritten
  <2>5. Writing(t, Brood(h, bins) \o Tail(todo), Append(out, Token(t, h)))
    BY <1>3, <1>4, <2>1, <2>4, WritingGoesOn DEF h
  <2>6. Writing(t, todo', out')
    BY <2>1, <2>3, <2>4, <2>5
  <2>7. Holds(t)'
    BY <1>5, <1>6, <2>1, <2>6 DEF Holds
  <2> QED
    BY <1>1, <1>2, <2>7, PointsKept
<1>8. CASE WriteEOF
  <2>1. todo = <<>> /\ pc' = "done" /\ out' = Append(out, EOF)
    BY <1>8 DEF WriteEOF
  <2>2. out' = Wire(t)
    BY <1>3, <1>4, <2>1, WritingEnds DEF Wire
  <2>3. Holds(t)'
    BY <1>5, <1>6, <2>1, <2>2 DEF Holds
  <2> QED
    BY <1>1, <1>2, <2>3, PointsKept
<1> QED
  BY <1>7, <1>8

\* Nothing happens.
LEMMA StutterHolds == GenInv /\ UNCHANGED vars => GenInv'
<1> SUFFICES ASSUME GenInv, UNCHANGED vars PROVE GenInv'
  OBVIOUS
<1>1. PICK t : t = Filing(points)
  OBVIOUS
<1>2. UNCHANGED <<check, lengths, pc, points, nodes, special, todo, header, out>>
  BY DEF vars
<1>3. Growing(t) => Growing(t)'
  BY <1>2, NodesKept
<1>4. Rolled(t) /\ (Len(points) = lengths[1] \/ Full) => (Rolled(t) /\ (Len(points) = lengths[1] \/ Full))'
  BY <1>2, NodesKept
<1>5. Holds(t)'
  BY <1>1, <1>2, <1>3, <1>4 DEF GenInv, Holds
<1> QED
  BY <1>1, <1>2, <1>5, PointsKept DEF GenInv

-----------------------------------------------------------------------------
(***************************************************************************)
(* The invariant of generate: while points are inserted the nodes in       *)
(* memory are those of the trie of the points read, with only the leaves   *)
(* counted; from the roll-up on each counter is what lies below it and     *)
(* each mask says where; the file is the encoding of that trie up to the   *)
(* nodes still to be written.                                              *)
(***************************************************************************)
THEOREM GenerateInvariance == Spec => []GenInv
<1>1. Init => GenInv
  BY InitHolds
<1>2. GenInv /\ [Next]_vars => GenInv'
  <2> SUFFICES ASSUME GenInv, [Next]_vars PROVE GenInv'
    OBVIOUS
  <2>1. CheckLengths \/ Insert \/ ReadPastEnd \/ RollUp \/ WriteHeader \/ WriteNode \/ WriteEOF \/ UNCHANGED vars
    BY DEF Next, Generation, Ended
  <2> QED
    BY <2>1, InsertHolds, StoppedHolds, RollUpHolds, WriteHeaderHolds, WritesHold, StutterHolds
<1> QED
  BY <1>1, <1>2, PTL DEF Spec

\* Where the writer goes on to a child the reader expects one (getNumDims and the mask on
\* the one side, the node pointers on the other), for every shape of trie and all values.
THEOREM WriterAndReaderAgree == Spec => []ReadersAgree
<1>1. GenInv => ReadersAgree
  <2> SUFFICES ASSUME GenInv, pc \in {"write", "done"} \/ (pc = "insert" /\ ~ OneD),
                      NEW q \in DOMAIN nodes, NEW i \in NodeBins(Len(q) + 1)
               PROVE  (i \in Mask(q) /\ Len(q) + 1 < Depth[Append(q, i)[1]])
                        <=> (Append(q, i) \in DOMAIN nodes /\ (OneD => Mask(Append(q, i)) # {}))
    BY DEF ReadersAgree
  <2>1. Fits(Filing(points))
    BY PointsFit
  <2>2. CASE pc \in {"write", "done"}
    <3>1. Rolled(Filing(points))
      BY <2>2 DEF GenInv, Holds
    <3> QED
      BY <2>1, <3>1, RolledAgree
  <2>3. CASE pc = "insert" /\ ~ OneD
    <3>1. Growing(Filing(points)) /\ ~ OneD
      BY <2>3 DEF GenInv, Holds
    <3>2. (i \in Mask(q) /\ Len(q) + 1 < Depth[Append(q, i)[1]]) <=> Append(q, i) \in DOMAIN nodes
      BY <2>1, <3>1, GrowingAgree
    <3> QED
      BY <3>1, <3>2
  <2> QED
    BY <2>2, <2>3
<1> QED
  BY <1>1, GenerateInvariance, PTL

\* trie_count and the special counts of the header add up to the values read
\* (makeHeader), for arrays of any length that a counter can hold.
THEOREM AllAccounted == Spec => []HeaderAccounts
<1>1. GenInv => HeaderAccounts
  <2> SUFFICES ASSUME GenInv, pc = "done" PROVE HeaderAccounts
    BY DEF HeaderAccounts
  <2>1. points \in Seq(Points)
    BY PointsFit
  <2>2. (Len(points) = lengths[1] \/ Full) /\ header = [trie |-> Cardinality(Inserted(points)), special |-> special]
    BY DEF GenInv, Holds
  <2>3. header.trie = Cardinality(Inserted(points)) /\ header.special = special
    BY <2>2
  <2>4. SumFunction(special) = Cardinality(Marked(points))
    <3>1. DOMAIN special = Specials /\ \A s \in Specials : special[s] = Cardinality(Marks(points, s))
      BY DEF GenInv, SpecialsCounted
    <3> QED
      BY <2>1, <3>1, MarkedInAll
  <2>5. Cardinality(Inserted(points)) + (IF OneD THEN Cardinality(Marked(points)) ELSE 0) = Len(points)
    BY <2>1, InOrMarked
  <2>6. header.trie + (IF OneD THEN SumFunction(header.special) ELSE 0) = Len(points)
    BY <2>3, <2>4, <2>5
  <2>7. header.trie = Cardinality({k \in DOMAIN points : InTrie(points[k])})
    BY <2>3 DEF Inserted
  <2>8. SumFunction(header.special)
          = Cardinality({kd \in (DOMAIN points) \X (1 .. Dims) : points[kd[1]][kd[2]].kind \in Specials})
    BY <2>3, <2>4 DEF Marked, Numbers
  <2> QED
    BY <2>2, <2>6, <2>7, <2>8 DEF HeaderAccounts
<1> QED
  BY <1>1, GenerateInvariance, PTL

-----------------------------------------------------------------------------
(* The levels of a point and the point.                                    *)

\* The dimensions in which a point is an ordinary number, and its codes.
OrdinaryIn(pt) == {d \in 1 .. Dims : pt[d].kind \notin Specials}
CodesOf(pt)    == InOrder([d \in 1 .. Dims |-> pt[d].code], OrdinaryIn(pt))
BitsOf(pt)     == Combine(CodesOf(pt), SizeBits)

\* There are finitely many dimensions.
LEMMA DimsAre == Dims \in Nat \ {0} /\ IsFiniteSet(1 .. Dims) /\ Cardinality(1 .. Dims) = Dims
BY ArraysAssumption, FS_Interval

\* What a path is, by the bits of its codes.
LEMMA PathIs ==
  ASSUME NEW pt
  PROVE  Path(pt) = (IF OneD THEN <<>> ELSE <<TLE(pt)>>) \o Levels(BitsOf(pt), LevelBits)
BY DEF Path, BitsOf, CodesOf, OrdinaryIn

\* The ordinary dimensions of a point are some of its finitely many.
LEMMA OrdinaryAre ==
  ASSUME NEW pt \in Points
  PROVE  /\ OrdinaryIn(pt) \in SUBSET Int /\ IsFiniteSet(OrdinaryIn(pt))
         /\ Cardinality(OrdinaryIn(pt)) \in 0 .. Dims
         /\ \A d \in 1 .. Dims : pt[d] \in Values /\ (d \in OrdinaryIn(pt) <=> pt[d].kind \notin Specials)
<1>1. OrdinaryIn(pt) \in SUBSET (1 .. Dims)
  BY DEF OrdinaryIn
<1>2. IsFiniteSet(OrdinaryIn(pt)) /\ Cardinality(OrdinaryIn(pt)) <= Dims
  BY <1>1, DimsAre, FS_Subset
<1>3. Cardinality(OrdinaryIn(pt)) \in Nat /\ Dims \in Nat
  BY <1>2, DimsAre, FS_CardinalityType
<1>4. \A d \in 1 .. Dims : pt[d] \in Values
  BY DEF Points
<1>5. OrdinaryIn(pt) \in SUBSET Int
  BY <1>1
<1>6. Cardinality(OrdinaryIn(pt)) \in 0 .. Dims
  BY <1>2, <1>3
<1>7. \A d \in 1 .. Dims : d \in OrdinaryIn(pt) <=> pt[d].kind \notin Specials
  BY DEF OrdinaryIn
<1> QED
  BY <1>2, <1>4, <1>5, <1>6, <1>7

\* What the levels of a point's codes are, and what can be made of them.
LEMMA LevelsKept ==
  ASSUME NEW pt \in Points
  PROVE  \E m \in Nat : /\ Rejoins(Levels(BitsOf(pt), LevelBits), LevelBits, m, BitsOf(pt))
                        /\ OrdinaryIn(pt) # {} =>
                             Split(BitsOf(pt), Cardinality(OrdinaryIn(pt)), SizeBits) = CodesOf(pt)
<1> DEFINE S == OrdinaryIn(pt)
           ordinary == {v \in Values : v.kind \notin Specials}
           C == {v.code : v \in ordinary}
           g == [d \in 1 .. Dims |-> pt[d].code]
           bits == BitsOf(pt)
<1>1. S \in SUBSET (1 .. Dims) /\ Dims \in Nat
  BY DimsAre DEF OrdinaryIn
<1>2. Coded(C, SizeBits, LevelBits, Dims)
  BY CodesAssumption
<1>3. \A d \in S : g[d] \in C
  <2> TAKE d \in S
  <2>1. d \in 1 .. Dims /\ pt[d] \in Values /\ pt[d].kind \notin Specials
    BY OrdinaryAre DEF OrdinaryIn
  <2>2. pt[d].code \in C
    BY <2>1
  <2> QED
    BY <2>1, <2>2
<1>4. CodesOf(pt) = InOrder(g, S) /\ bits = Combine(InOrder(g, S), SizeBits)
  BY DEF CodesOf, BitsOf
<1> HIDE DEF S, C, g, bits
<1>5. \E m \in Nat : /\ Rejoins(Levels(bits, LevelBits), LevelBits, m, bits)
                     /\ S # {} => Split(bits, Cardinality(S), SizeBits) = InOrder(g, S)
  BY <1>1, <1>2, <1>3, <1>4, CodesKept
<1> QED
  BY <1>4, <1>5 DEF S, bits

\* The TLE of a point says the kinds of its numbers.
LEMMA KindsKept ==
  ASSUME NEW x \in Points, NEW y \in Points, TLE(x) = TLE(y)
  PROVE  \A d \in 1 .. Dims : x[d].kind = y[d].kind
<1> DEFINE bases == [d \in 1 .. Dims |-> Kinds]
           kinds(pt) == [d \in 1 .. Dims |-> pt[d].kind]
<1>1. ASSUME NEW pt \in Points
      PROVE  Digits(bases, TLE(pt)) = kinds(pt)
  <2>1. \A d \in 1 .. Dims : pt[d].kind \in 0 .. Kinds - 1
    BY ValuesAssumption DEF Points
  <2>2. Kinds \in Nat \ {0} /\ Dims \in Nat
    <3>1. 1 \in 1 .. Dims /\ Dims \in Nat
      BY DimsAre
    <3>2. pt[1].kind \in 0 .. Kinds - 1
      BY <2>1, <3>1
    <3> QED
      BY <3>1, <3>2, ValuesAssumption
  <2>3. /\ bases \in [1 .. Dims -> Nat \ {0}] /\ kinds(pt) \in [1 .. Dims -> Nat]
        /\ \A d \in 1 .. Dims : kinds(pt)[d] < bases[d]
    BY <2>1, <2>2
  <2>4. TLE(pt) = Numeral(bases, kinds(pt))
    BY DEF TLE
  <2> HIDE DEF bases, kinds
  <2>5. Digits(bases, Numeral(bases, kinds(pt))) = kinds(pt)
    BY <2>2, <2>3, DigitsOfNumeral
  <2> QED
    BY <2>4, <2>5
<1>2. kinds(x) = kinds(y)
  BY <1>1
<1>3. \A d \in 1 .. Dims : kinds(x)[d] = x[d].kind /\ kinds(y)[d] = y[d].kind
  OBVIOUS
<1> HIDE DEF kinds
<1> QED
  BY <1>2, <1>3

\* Points of the same levels and the same ordinary dimensions have the same codes.
LEMMA CodesEqual ==
  ASSUME NEW x \in Points, NEW y \in Points,
         OrdinaryIn(x) = OrdinaryIn(y), Levels(BitsOf(x), LevelBits) = Levels(BitsOf(y), LevelBits)
  PROVE  \A d \in OrdinaryIn(x) : x[d].code = y[d].code
<1> DEFINE S == OrdinaryIn(x)
           n == Cardinality(S)
           g == [d \in 1 .. Dims |-> x[d].code]
           h == [d \in 1 .. Dims |-> y[d].code]
           levels == Levels(BitsOf(x), LevelBits)
<1>1. S \in SUBSET Int /\ IsFiniteSet(S) /\ S \subseteq 1 .. Dims
  BY OrdinaryAre DEF OrdinaryIn
<1>2. CASE S = {}
  BY <1>2
<1>3. CASE S # {}
  <2>2. PICK m \in Nat : /\ Rejoins(levels, LevelBits, m, BitsOf(x))
                         /\ Split(BitsOf(x), n, SizeBits) = CodesOf(x)
    BY <1>3, LevelsKept
  <2>3. PICK l \in Nat : /\ Rejoins(levels, LevelBits, l, BitsOf(y))
                         /\ Split(BitsOf(y), n, SizeBits) = CodesOf(y)
    BY <1>3, LevelsKept
  <2> HIDE DEF levels, n
  <2>4. m = l
    <3>1. Len(levels) = m /\ Len(levels) = l
      BY <2>2, <2>3 DEF Rejoins
    <3> QED
      BY <3>1
  <2>5. CodesOf(x) = CodesOf(y)
    <3>1. BitsOf(x) = BitsOf(y)
      BY <2>2, <2>3, <2>4 DEF Rejoins
    <3> QED
      BY <2>2, <2>3, <3>1
  <2>6. CodesOf(x) = InOrder(g, S) /\ CodesOf(y) = InOrder(h, S)
    BY DEF CodesOf
  <2> HIDE DEF S, g, h
  <2>7. ASSUME NEW d \in S
        PROVE  g[d] = h[d]
    <3>1. InOrder(g, S)[PlaceIn(S, d)] = g[d] /\ InOrder(h, S)[PlaceIn(S, d)] = h[d]
      BY <1>1, InOrderIs
    <3> QED
      BY <2>5, <2>6, <3>1
  <2> QED
    BY <1>1, <2>7 DEF S, g, h
<1> QED
  BY <1>2, <1>3

\* Points of different codes have different paths, however codes are mixed and levels
\* cut.
LEMMA PathsDistinct ==
  ASSUME NEW x \in Points, NEW y \in Points, InTrie(x), InTrie(y), Path(x) = Path(y)
  PROVE  x = y
<1>1. x = [d \in 1 .. Dims |-> x[d]] /\ y = [d \in 1 .. Dims |-> y[d]]
      /\ \A d \in 1 .. Dims : x[d] \in Values /\ y[d] \in Values
  BY DEF Points
<1>2. LevelBits \in Seq(Nat \ {0})
  BY CodesAssumption DEF Coded
<1>3. ASSUME NEW pt \in Points
      PROVE  Levels(BitsOf(pt), LevelBits) \in Seq(Nat)
  <2> DEFINE levels == Levels(BitsOf(pt), LevelBits)
  <2>1. \E m \in Nat : levels \in [1 .. m -> Nat]
    BY <1>2, LevelsKept DEF Rejoins
  <2> HIDE DEF levels
  <2>2. levels \in Seq(Nat)
    BY <2>1
  <2> QED
    BY <2>2 DEF levels
<1> DEFINE a == Levels(BitsOf(x), LevelBits)
           b == Levels(BitsOf(y), LevelBits)
<1>4. a \in Seq(Nat) /\ b \in Seq(Nat)
  BY <1>3
<1>5. CASE ~ OneD
  <2>1. Path(x) = <<TLE(x)>> \o a /\ Path(y) = <<TLE(y)>> \o b
    BY <1>5, PathIs
  <2> HIDE DEF a, b
  <2>2. TLE(x) = TLE(y)
    <3>1. (<<TLE(x)>> \o a)[1] = TLE(x) /\ (<<TLE(y)>> \o b)[1] = TLE(y)
      BY <1>4
    <3> QED
      BY <2>1, <3>1
  <2>3. a = b
    <3>1. Tail(<<TLE(x)>> \o a) = a /\ Tail(<<TLE(y)>> \o b) = b
      BY <1>4
    <3> QED
      BY <2>1, <3>1
  <2>4. \A d \in 1 .. Dims : x[d].kind = y[d].kind
    BY <2>2, KindsKept
  <2>5. OrdinaryIn(x) = OrdinaryIn(y)
    BY <2>4 DEF OrdinaryIn
  <2>6. \A d \in OrdinaryIn(x) : x[d].code = y[d].code
    BY <2>3, <2>5, CodesEqual DEF a, b
  <2>7. ASSUME NEW d \in 1 .. Dims
        PROVE  x[d] = y[d]
    <3>1. x[d] \in Values /\ y[d] \in Values /\ x[d].kind = y[d].kind
      BY <1>1, <2>4
    <3>2. x[d].code = y[d].code
      <4>1. CASE x[d].kind \in Specials
        BY <3>1, <4>1, ValuesAssumption
      <4>2. CASE x[d].kind \notin Specials
        BY <2>6, <4>2 DEF OrdinaryIn
      <4> QED
        BY <4>1, <4>2
    <3>3. x[d] \in [kind : 0 .. Kinds - 1, code : Seq({0, 1})] /\ y[d] \in [kind : 0 .. Kinds - 1, code : Seq({0, 1})]
      BY <3>1, ValuesAssumption
    <3> QED
      BY <3>1, <3>2, <3>3
  <2> QED
    BY <1>1, <2>7
<1>6. CASE OneD
  <2>0. Dims = 1
    BY <1>6 DEF OneD
  <2>1. x[1].kind \notin Specials /\ y[1].kind \notin Specials /\ x[1] \in Values /\ y[1] \in Values
    BY <1>1, <1>6, <2>0 DEF InTrie
  <2>2. OrdinaryIn(x) = {1} /\ OrdinaryIn(y) = {1}
    BY <2>0, <2>1 DEF OrdinaryIn
  <2>3. Path(x) = <<>> \o a /\ Path(y) = <<>> \o b
    BY <1>6, PathIs
  <2> HIDE DEF a, b
  <2>4. a = b
    BY <1>4, <2>3, ConcatEmptySeq
  <2>5. x[1].code = y[1].code
    BY <2>2, <2>4, CodesEqual DEF a, b
  <2>6. x[1] = y[1]
    BY <1>6, <2>1, <2>5, CodesAssumption
  <2>7. \A d \in 1 .. Dims : x[d] = y[d]
    BY <2>0, <2>6
  <2> QED
    BY <1>1, <2>7
<1> QED
  BY <1>5, <1>6

\* Then the points filed under a path are one point's equals.
LEMMA FiledByPoint ==
  ASSUME NEW pts \in Seq(Points)
  PROVE  TrieOf(pts) = Filing(pts)
<1> DEFINE n(p) == LET pt == CHOOSE x \in Range(pts) : InTrie(x) /\ Path(x) = p
                   IN  Cardinality({k \in DOMAIN pts : pts[k] = pt})
           dom  == {Path(pts[k]) : k \in Inserted(pts)}
<1>1. TrieOf(pts) = [p \in dom |-> n(p)]
  BY DEF TrieOf, Inserted
<1>2. Filing(pts) = [p \in dom |-> Cardinality(At(pts, p))]
  BY DEF Filing
<1>3. ASSUME NEW p \in dom PROVE n(p) = Cardinality(At(pts, p))
  <2> DEFINE pt == CHOOSE x \in Range(pts) : InTrie(x) /\ Path(x) = p
  <2>1. PICK k \in DOMAIN pts : InTrie(pts[k]) /\ Path(pts[k]) = p
    BY DEF Inserted
  <2>2. pts[k] \in Range(pts)
    BY DEF Range
  <2>3. pt \in Range(pts) /\ InTrie(pt) /\ Path(pt) = p
    BY <2>1, <2>2
  <2>4. n(p) = Cardinality({j \in DOMAIN pts : pts[j] = pt})
    OBVIOUS
  <2> HIDE DEF pt, n
  <2>5. \A j \in DOMAIN pts : pts[j] \in Points
    OBVIOUS
  <2>6. pt \in Points
    BY <2>3, <2>5 DEF Range
  <2>7. {j \in DOMAIN pts : pts[j] = pt} = At(pts, p)
    BY <2>3, <2>5, <2>6, PathsDistinct DEF At, Inserted
  <2> QED
    BY <2>4, <2>7
<1> HIDE DEF n, dom
<1> QED
  BY <1>1, <1>2, <1>3

(***************************************************************************)
(* What generate writes is the histogram of the points it read, byte for   *)
(* byte what a reader of TrieWire expects: for any number of arrays, shape *)
(* of trie, values and order of the points, and wherever the threshold     *)
(* stops the loop.                                                         *)
(***************************************************************************)
THEOREM HistogramIsWritten == Spec => []WritesHistogram
<1>1. GenInv => WritesHistogram
  <2> SUFFICES ASSUME GenInv, pc = "done" PROVE out = Wire(TrieOf(points))
    BY DEF WritesHistogram
  <2>1. out = Wire(Filing(points)) /\ points \in Seq(Points)
    BY PointsFit DEF GenInv, Holds
  <2> QED
    BY <2>1, FiledByPoint
<1> QED
  BY <1>1, GenerateInvariance, PTL

-----------------------------------------------------------------------------
(* The file that a map of nodes is serialized to, whole and damaged.       *)

\* The nodes in the order of the file.
InFile(ns) ==
  LET rank == [q \in DOMAIN ns |-> Rank(DOMAIN ns, q)]
  IN  [k \in 1 .. Cardinality(DOMAIN ns) |-> ns[CHOOSE q \in DOMAIN ns : rank[q] = k - 1]]

\* Each node lies at its rank, and the end marker behind them all.
LEMMA SerializeIs ==
  ASSUME NEW ns, DOMAIN ns \in SUBSET Paths, IsFiniteSet(DOMAIN ns),
         NEW n, n = Cardinality(DOMAIN ns)
  PROVE  /\ n \in Nat /\ Len(Serialize(ns)) = n + 1 /\ DOMAIN Serialize(ns) = 1 .. n + 1
         /\ Serialize(ns) = Append(InFile(ns), EOF) /\ Len(InFile(ns)) = n
         /\ InFile(ns) \in Seq({ns[q] : q \in DOMAIN ns})
         /\ \A k \in 1 .. n : Serialize(ns)[k] = InFile(ns)[k]
         /\ \A q \in DOMAIN ns : Rank(DOMAIN ns, q) + 1 \in 1 .. n /\ InFile(ns)[Rank(DOMAIN ns, q) + 1] = ns[q]
         /\ \A k \in 1 .. n : \E q \in DOMAIN ns : Rank(DOMAIN ns, q) + 1 = k
         /\ Serialize(ns)[n + 1] = EOF
<1> DEFINE X == DOMAIN ns
           rank == [q \in X |-> Rank(X, q)]
           S == {ns[q] : q \in X}
           E == InFile(ns)
           f == [q \in X |-> Rank(X, q) + 1]
<1>0. E = [k \in 1 .. n |-> ns[CHOOSE q \in X : rank[q] = k - 1]]
  BY DEF InFile
<1>1. Serialize(ns) = Append(E, EOF)
  BY DEF Serialize, InFile, Rank
<1> HIDE DEF E
<1>2. n \in Nat /\ X \in SUBSET Paths /\ IsFiniteSet(X) /\ n = Cardinality(X)
  BY FS_CardinalityType
<1> HIDE DEF X
<1>3. \A q \in X : Rank(X, q) \in Nat /\ Rank(X, q) < n
  BY <1>2, RankRange
<1>4. \A q, r \in X : Rank(X, q) = Rank(X, r) => q = r
  BY <1>2, RankUnique
<1>5. f \in Surjection(X, 1 .. n)
  <2>1. f \in [X -> 1 .. n]
    BY <1>2, <1>3
  <2>2. \A q, r \in X : f[q] = f[r] => q = r
    BY <1>3, <1>4
  <2> HIDE DEF f
  <2>3. f \in Injection(X, 1 .. n)
    BY <2>1, <2>2 DEF Injection, IsInjective
  <2>4. IsFiniteSet(1 .. n) /\ Cardinality(1 .. n) = n
    BY <1>2, FS_Interval
  <2> QED
    BY <1>2, <2>3, <2>4, FS_Injection
<1>6. ASSUME NEW q \in X PROVE Rank(X, q) + 1 \in 1 .. n /\ E[Rank(X, q) + 1] = ns[q]
  <2> DEFINE k == Rank(X, q) + 1
  <2>1. k \in 1 .. n /\ k - 1 = Rank(X, q)
    BY <1>2, <1>3
  <2> HIDE DEF k
  <2>2. \A r \in X : rank[r] = k - 1 <=> r = q
    BY <1>4, <2>1
  <2> HIDE DEF rank
  <2>3. (CHOOSE r \in X : rank[r] = k - 1) = q
    BY <2>2
  <2>4. E[k] = ns[q]
    BY <1>0, <2>1, <2>3
  <2> QED
    BY <2>1, <2>4 DEF k
<1>7. \A k \in 1 .. n : \E q \in X : Rank(X, q) + 1 = k
  <2>1. \A k \in 1 .. n : \E q \in X : f[q] = k
    BY <1>5 DEF Surjection
  <2> QED
    BY <2>1
<1>8. E = [k \in 1 .. n |-> E[k]]
  BY <1>0
<1> HIDE DEF f, rank
<1>9. E \in Seq(S) /\ Len(E) = n
  <2>1. \A k \in 1 .. n : E[k] \in S
    BY <1>6, <1>7
  <2>2. E \in [1 .. n -> S]
    BY <1>8, <2>1
  <2>3. E \in Seq(S)
    BY <1>2, <2>2, SeqDef
  <2> HIDE DEF S
  <2>4. Len(E) \in Nat /\ DOMAIN E = 1 .. Len(E) /\ DOMAIN E = 1 .. n
    BY <1>8, <2>2, <2>3, LenProperties
  <2> DEFINE l == Len(E)
  <2>5. 1 .. l = 1 .. n /\ l \in Nat
    BY <2>4
  <2> HIDE DEF l
  <2>6. IsFiniteSet(1 .. n) /\ Cardinality(1 .. n) = n
    BY <1>2, FS_Interval
  <2>7. Cardinality(1 .. l) = l
    BY <2>5, FS_Interval
  <2> QED
    BY <2>3, <2>5, <2>6, <2>7 DEF l
<1> DEFINE w == Append(E, EOF)
<1>10. /\ Len(w) = n + 1 /\ DOMAIN w = 1 .. n + 1 /\ w[n + 1] = EOF
       /\ \A k \in 1 .. n : w[k] = E[k]
  <2>1. E \in Seq(S \cup {EOF})
    BY <1>9
  <2>2. EOF \in S \cup {EOF}
    OBVIOUS
  <2> DEFINE T == S \cup {EOF}
  <2> HIDE DEF S, T
  <2>3. /\ w \in Seq(T) /\ Len(w) = Len(E) + 1 /\ w[Len(E) + 1] = EOF
        /\ \A k \in 1 .. Len(E) : w[k] = E[k]
    <3>1. E \in Seq(T) /\ EOF \in T
      BY <2>1, <2>2 DEF T
    <3> QED
      BY <3>1, AppendProperties
  <2> HIDE DEF w
  <2>4. DOMAIN w = 1 .. Len(w)
    BY <2>3, LenProperties
  <2> QED
    BY <1>9, <2>3, <2>4
<1>11. w = Append(E, EOF)
  OBVIOUS
<1> HIDE DEF w
<1>12. Serialize(ns) = w
  BY <1>1, <1>11
<1> QED
  BY <1>2, <1>6, <1>7, <1>8, <1>9, <1>10, <1>11, <1>12 DEF E, X, S

\* In a damaged file there is a node where that node was, or a piece, or nothing.
LEMMA DamagedIs ==
  ASSUME NEW ns, DOMAIN ns \in SUBSET Paths, IsFiniteSet(DOMAIN ns), DOMAIN ns # {},
         NEW n, n = Cardinality(DOMAIN ns), NEW w, w = Serialize(ns), NEW f \in Damaged(w)
  PROVE  /\ Len(f) \in Nat /\ DOMAIN f = 1 .. Len(f)
         /\ \A k \in 1 .. n : k \in DOMAIN f => f[k] \in {w[k], Piece}
<1>1. /\ n \in Nat /\ Len(w) = n + 1 /\ DOMAIN w = 1 .. n + 1 /\ w[n + 1] = EOF
  BY SerializeIs
<1> DEFINE E == InFile(ns)
<1> HIDE DEF E
<1>2. w = Append(E, EOF) /\ E \in Seq({ns[q] : q \in DOMAIN ns})
  BY SerializeIs DEF E
<1>3. n # 0
  BY FS_EmptySet
<1> DEFINE S == {ns[q] : q \in DOMAIN ns} \cup {EOF, Piece}
<1>5. E \in Seq(S) /\ EOF \in S /\ Piece \in S
  BY <1>2
<1> HIDE DEF S
<1>6. w \in Seq(S)
  BY <1>2, <1>5, AppendProperties
<1>7. ASSUME NEW m \in 0 .. n, NEW s, s = SubSeq(w, 1, m)
      PROVE  s \in Seq(S) /\ Len(s) = m /\ \A i \in 1 .. m : s[i] = w[i]
  <2>1. m \in Int /\ 1 \in Int /\ \A i \in 1 .. m : w[i] \in S
    BY <1>1, <1>6
  <2>2. /\ s \in Seq(S) /\ Len(s) = IF 1 <= m THEN m - 1 + 1 ELSE 0
        /\ \A i \in 1 .. m - 1 + 1 : s[i] = w[1 + i - 1]
    BY <1>7, <2>1, SubSeqProperties
  <2> QED
    BY <1>1, <2>2
<1>8. CASE f \in Torn(w)
  <2>1. PICK m \in 0 .. Len(w) - 1 : f = SubSeq(w, 1, m)
    BY <1>8 DEF Torn
  <2>2. m \in 0 .. n
    BY <1>1
  <2>3. f \in Seq(S) /\ Len(f) = m /\ \A i \in 1 .. m : f[i] = w[i]
    BY <1>7, <2>1, <2>2
  <2>4. DOMAIN f = 1 .. m
    BY <2>3, LenProperties
  <2> QED
    BY <1>1, <2>2, <2>3, <2>4
<1>9. CASE f \in {Append(SubSeq(w, 1, m), Piece) : m \in 0 .. Len(w) - 2}
  <2>1. PICK m \in 0 .. Len(w) - 2 : f = Append(SubSeq(w, 1, m), Piece)
    BY <1>9
  <2>2. m \in 0 .. n /\ m + 1 \in 1 .. n
    BY <1>1
  <2> DEFINE s == SubSeq(w, 1, m)
  <2>3. s \in Seq(S) /\ Len(s) = m /\ \A i \in 1 .. m : s[i] = w[i]
    BY <1>7, <2>2
  <2>4. f = Append(s, Piece)
    BY <2>1
  <2> HIDE DEF s
  <2>5. /\ f \in Seq(S) /\ Len(f) = m + 1 /\ f[m + 1] = Piece
        /\ \A i \in 1 .. m : f[i] = s[i]
    BY <1>5, <2>3, <2>4, AppendProperties
  <2>6. DOMAIN f = 1 .. m + 1
    BY <2>5, LenProperties
  <2> QED
    BY <1>1, <2>2, <2>3, <2>5, <2>6
<1>10. CASE f = Overlong(w)
  <2> DEFINE s == SubSeq(w, 1, n)
             e == <<Head(w), EOF>>
  <2>0. Len(w) - 1 = n /\ n \in 0 .. n
    BY <1>1
  <2>1. f = s \o e
    BY <2>0, <1>10 DEF Overlong, Front
  <2>2. s \in Seq(S) /\ Len(s) = n /\ \A i \in 1 .. n : s[i] = w[i]
    BY <1>7, <2>0
  <2>3. Head(w) \in S
    BY <1>1, <1>3, <1>6
  <2>4. e \in Seq(S) /\ Len(e) = 2
    BY <1>5, <2>3
  <2> HIDE DEF s, e
  <2>5. /\ f \in Seq(S) /\ Len(f) = n + 2
        /\ \A i \in 1 .. n + 2 : f[i] = IF i <= n THEN s[i] ELSE e[i - n]
    <3>1. /\ s \o e \in Seq(S) /\ Len(s \o e) = Len(s) + Len(e)
          /\ \A i \in 1 .. Len(s) + Len(e) : (s \o e)[i] = IF i <= Len(s) THEN s[i] ELSE e[i - Len(s)]
      BY <2>2, <2>4, ConcatProperties
    <3> QED
      BY <2>1, <2>2, <2>4, <3>1
  <2>6. DOMAIN f = 1 .. n + 2
    BY <2>5, LenProperties
  <2>7. \A k \in 1 .. n : f[k] = w[k]
    BY <1>1, <2>2, <2>5
  <2> QED
    BY <1>1, <2>5, <2>6, <2>7
<1> QED
  BY <1>8, <1>9, <1>10 DEF Damaged

-----------------------------------------------------------------------------
(* Readers, headers and tries.                                             *)

\* The schemas' readers: only those of 1D give a trie up for a child, only those of 2D
\* return one without an end marker.
LEMMA ReaderIs ==
  ASSUME TriesAssumption, NEW c \in Registered, NEW R, R = ReaderOf(c)
  PROVE  /\ \A i \in DOMAIN R.below : R.below[i] \in Nat
         /\ R.child = IF c \in OneDim THEN "null" ELSE "skip"
         /\ R.noEnd = IF c \in TwoDim THEN "node" ELSE "null"
<1>1. c \in OneDim \cup TwoDim \cup {"3DxF", "3DxP", "4DxF", "4DxP"}
  BY DEF TriesAssumption, Registered
<1>2. CASE c \in OneDim
  BY <1>2 DEF OneDim, TwoDim, ReaderOf, Deserialize_1DxT, Deserialize_1DxF, Deserialize_1DxP
<1>3. CASE c \in TwoDim
  <2>1. R = Deserialize_2DxF \/ R = Deserialize_2DxP
    <3>1. c = "2DxF" => ReaderOf(c) = Deserialize_2DxF
      BY SMT DEF ReaderOf
    <3>2. c = "2DxP" => ReaderOf(c) = Deserialize_2DxP
      BY SMT DEF ReaderOf
    <3> QED
      BY <1>3, <3>1, <3>2 DEF TwoDim
  <2>2. c \notin OneDim
    BY <1>3 DEF OneDim, TwoDim
  <2> QED
    BY <1>3, <2>1, <2>2 DEF Deserialize_2DxF, Deserialize_2DxP
<1>4. CASE c \in {"3DxF", "3DxP"}
  <2>1. R = Deserialize_3DxF \/ R = Deserialize_3DxP
    <3>1. c = "3DxF" => ReaderOf(c) = Deserialize_3DxF
      BY SMT DEF ReaderOf
    <3>2. c = "3DxP" => ReaderOf(c) = Deserialize_3DxP
      BY SMT DEF ReaderOf
    <3> QED
      BY <1>4, <3>1, <3>2
  <2>2. c \notin OneDim /\ c \notin TwoDim
    BY <1>4 DEF OneDim, TwoDim
  <2> QED
    BY <2>1, <2>2 DEF Deserialize_3DxF, Deserialize_3DxP
<1>5. CASE c \in {"4DxF", "4DxP"}
  <2>1. R = Deserialize_4DxF \/ R = Deserialize_4DxP
    <3>1. c = "4DxF" => ReaderOf(c) = Deserialize_4DxF
      BY SMT DEF ReaderOf
    <3>2. c = "4DxP" => ReaderOf(c) = Deserialize_4DxP
      BY SMT DEF ReaderOf
    <3> QED
      BY <1>5, <3>1, <3>2
  <2>2. c \notin OneDim /\ c \notin TwoDim
    BY <1>5 DEF OneDim, TwoDim
  <2> QED
    BY <2>1, <2>2 DEF Deserialize_4DxF, Deserialize_4DxP
<1> QED
  BY <1>1, <1>2, <1>3, <1>4, <1>5

\* The fields of a header as it is sent.
LEMMA HeaderIs ==
  ASSUME NEW c, NEW w, NEW h, h = Header(c, w)
  PROVE  /\ h = [magic |-> "AIRT", version |-> 1, length |-> kHeaderLength, config |-> c, payload |-> Len(w),
                 crc |-> {Covered(h)}]
         /\ Covered(h) = [magic |-> "AIRT", version |-> 1, length |-> kHeaderLength, config |-> c,
                          payload |-> Len(w), crc |-> {}]
<1> DEFINE sized == [magic |-> "AIRT", version |-> 1, length |-> kHeaderLength, config |-> c,
                     payload |-> Len(w), crc |-> {}]
<1>1. PICK s : s = SerializeHeader(c)
  OBVIOUS
<1>2. PICK z : z = [s EXCEPT !.payload = Len(w)]
  OBVIOUS
<1>3. s = [magic |-> "AIRT", version |-> 1, length |-> kHeaderLength, config |-> c, payload |-> 0, crc |-> {}]
  BY <1>1 DEF SerializeHeader
<1>4. z = sized
  BY <1>2, <1>3
<1>5. h = [z EXCEPT !.crc = {Covered(z)}]
  BY <1>1, <1>2 DEF Header, FinalizeHeader
<1> DEFINE k == {Covered(z)}
<1>6. h = [z EXCEPT !.crc = k]
  BY <1>5
<1>7. Covered(z) = z
  <2>1. Covered(z) = [z EXCEPT !.crc = {}]
    BY DEF Covered
  <2> QED
    BY <1>4, <2>1
<1> HIDE DEF k
<1>8. h = [magic |-> "AIRT", version |-> 1, length |-> kHeaderLength, config |-> c, payload |-> Len(w), crc |-> k]
  BY <1>4, <1>6
<1>9. Covered(h) = z
  <2>1. PICK u : u = [h EXCEPT !.crc = {}]
    OBVIOUS
  <2>2. u = sized
    <3>1. /\ u.magic = "AIRT" /\ u.version = 1 /\ u.length = kHeaderLength /\ u.config = c
          /\ u.payload = Len(w) /\ u.crc = {}
      BY <1>8, <2>1
    <3>2. DOMAIN u = {"magic", "version", "length", "config", "payload", "crc"}
      BY <1>8, <2>1
    <3>3. u = [f \in {"magic", "version", "length", "config", "payload", "crc"} |-> u[f]]
      BY <2>1, <3>2
    <3> QED
      BY <3>1, <3>3
  <2>3. Covered(h) = u
    BY <2>1 DEF Covered
  <2> QED
    BY <1>4, <2>2, <2>3
<1> QED
  BY <1>4, <1>7, <1>8, <1>9 DEF k

\* The reader takes it,
LEMMA SentAccepted ==
  ASSUME NEW c \in Registered, NEW w
  PROVE  HeaderAccepted(Header(c, w)) /\ Header(c, w).config = c
<1> DEFINE h == Header(c, w)
<1>1. h = [magic |-> "AIRT", version |-> 1, length |-> kHeaderLength, config |-> c, payload |-> Len(w),
           crc |-> {Covered(h)}]
  BY HeaderIs
<1> DEFINE k == {Covered(h)}
<1>2. h.crc = k
  <2> HIDE DEF k
  <2> QED
    BY <1>1 DEF k
<1> HIDE DEF h
<1>3. h.magic = "AIRT" /\ h.version = 1 /\ h.length = kHeaderLength /\ h.config = c
  BY <1>1
<1> QED
  BY <1>2, <1>3 DEF HeaderAccepted, h

\* and none that was damaged.
LEMMA DamagedRefused ==
  ASSUME TriesAssumption, NEW c \in Registered, NEW w, Len(w) \in Nat, NEW d \in DamagedHeaders(Header(c, w))
  PROVE  ~ HeaderAccepted(d)
<1> SUFFICES ASSUME HeaderAccepted(d) PROVE FALSE
  OBVIOUS
<1> DEFINE h == Header(c, w)
<1>1. PICK k : /\ h = [magic |-> "AIRT", version |-> 1, length |-> kHeaderLength, config |-> c,
                       payload |-> Len(w), crc |-> {k}]
               /\ k = [magic |-> "AIRT", version |-> 1, length |-> kHeaderLength, config |-> c,
                       payload |-> Len(w), crc |-> {}]
  BY HeaderIs
<1>2. /\ d.magic = "AIRT" /\ d.version <= 1 /\ d.length = kHeaderLength
      /\ d.crc = {Covered(d)} /\ d.config \in Registered
  BY DEF HeaderAccepted
<1>3. \/ d = [h EXCEPT !.magic = "none"] \/ d = [h EXCEPT !.payload = @ + 1] \/ d = [h EXCEPT !.crc = {}]
      \/ \E v \in {0, 2} : d = [h EXCEPT !.version = v]
      \/ \E e \in {-4, 4} : d = [h EXCEPT !.length = kHeaderLength + e]
      \/ \E b \in (Registered \ {h.config}) \cup {"unknown"} : d = [h EXCEPT !.config = b]
      \/ d = [magic |-> "short"]
  BY DEF DamagedHeaders
<1> HIDE DEF h
<1>4. d.crc = {k} => Covered(d) = k
  BY <1>2
<1>5. CASE d = [h EXCEPT !.magic = "none"] \/ d = [magic |-> "short"]
  BY <1>1, <1>2, <1>5
<1>6. CASE d = [h EXCEPT !.payload = @ + 1]
  <2>1. d = [magic |-> "AIRT", version |-> 1, length |-> kHeaderLength, config |-> c,
             payload |-> Len(w) + 1, crc |-> {k}]
    BY <1>1, <1>6
  <2>2. Covered(d).payload = Len(w) + 1 /\ k.payload = Len(w) /\ d.crc = {k}
    BY <1>1, <2>1 DEF Covered
  <2> QED
    BY <1>4, <2>2
<1>7. CASE d = [h EXCEPT !.crc = {}]
  BY <1>1, <1>2, <1>7
<1>8. CASE \E v \in {0, 2} : d = [h EXCEPT !.version = v]
  <2>1. d = [h EXCEPT !.version = 0]
    <3>1. PICK v \in {0, 2} : d = [h EXCEPT !.version = v]
      BY <1>8
    <3>2. d.version = v
      BY <1>1, <3>1
    <3> QED
      BY <1>2, <3>1, <3>2
  <2>2. Covered(d).version = 0 /\ k.version = 1 /\ d.crc = {k}
    BY <1>1, <2>1 DEF Covered
  <2> QED
    BY <1>4, <2>2
<1>9. CASE \E e \in {-4, 4} : d = [h EXCEPT !.length = kHeaderLength + e]
  <2>1. PICK e \in {-4, 4} : d = [h EXCEPT !.length = kHeaderLength + e]
    BY <1>9
  <2>2. d.length = kHeaderLength + e
    BY <1>1, <2>1
  <2> QED
    BY <1>2, <2>2 DEF kHeaderLength
<1>10. CASE \E b \in (Registered \ {h.config}) \cup {"unknown"} : d = [h EXCEPT !.config = b]
  <2>1. PICK b \in (Registered \ {h.config}) \cup {"unknown"} : d = [h EXCEPT !.config = b]
    BY <1>10
  <2>2. Covered(d).config = b /\ k.config = c /\ d.crc = {k}
    BY <1>1, <2>1 DEF Covered
  <2>3. h.config = c
    BY <1>1
  <2>4. c # "unknown"
    BY DEF TriesAssumption, Registered, OneDim, TwoDim
  <2> QED
    BY <1>4, <2>2, <2>3, <2>4
<1> QED
  BY <1>3, <1>5, <1>6, <1>7, <1>8, <1>9, <1>10

\* Each node of X is at a populated bin of its parent, which is in ns, and not too deep.
Descends(B, ns, X) ==
  \A q \in X : \A n \in 0 .. Len(q) - 1 :
    SubSeq(q, 1, n) \in DOMAIN ns /\ q[n + 1] \in DOMAIN ns[SubSeq(q, 1, n)] /\ n < B[q[1]]

IsMask(node) == node \notin {EOF, Piece} /\ DOMAIN node \in SUBSET Nat /\ IsFiniteSet(DOMAIN node)

\* What a reader that goes B levels down can return: a tree from the root.
Grown(B, ns) ==
  /\ DOMAIN ns \in SUBSET Paths /\ IsFiniteSet(DOMAIN ns) /\ <<>> \in DOMAIN ns
  /\ ns = [q \in DOMAIN ns |-> ns[q]]
  /\ \A q \in DOMAIN ns : IsMask(ns[q])
  /\ Descends(B, ns, DOMAIN ns)

\* Every populated bin that has a node below has it.
AllThere(B, ns) ==
  \A q \in DOMAIN ns : \A i \in DOMAIN ns[q] : Len(q) < B[Append(q, i)[1]] => Append(q, i) \in DOMAIN ns

\* The files of the runs are such trees, with every node.
LEMMA TriesGrown ==
  ASSUME TriesAssumption, NEW c \in Registered, NEW t \in Tries[c], NEW B, B = ReaderOf(c).below,
         NEW ns, ns = NodesOf(t)
  PROVE  Grown(B, ns) /\ AllThere(B, ns)
<1>1. /\ IsFiniteSet(DOMAIN t) /\ DOMAIN t \subseteq Paths \ {<<>>}
      /\ \A p \in DOMAIN t : t[p] \in Nat /\ p[1] \in DOMAIN B /\ Len(p) = B[p[1]] + 1
      /\ \A q \in Nodes(t) : Token(t, q) \notin {EOF, Piece}
  BY DEF TriesAssumption, Registered, Paths
<1>2. IsTrie(t)
  BY <1>1 DEF IsTrie
<1> DEFINE D == [i \in DOMAIN B |-> B[i] + 1]
           X == Nodes(t)
<1>3. \A p \in DOMAIN t : Len(p) = D[p[1]]
  BY <1>1
<1>4. \A i \in DOMAIN B : B[i] \in Nat /\ D[i] = B[i] + 1
  BY ReaderIs
<1>5. X \in SUBSET Paths /\ IsFiniteSet(X) /\ <<>> \in X
  BY <1>2, NodesArePaths
<1>6. DOMAIN ns = X /\ ns = [q \in X |-> ns[q]] /\ \A q \in X : ns[q] = Token(t, q)
  BY DEF NodesOf
<1> HIDE DEF D, X
<1>7. ASSUME NEW q \in X PROVE IsMask(ns[q])
  <2>1. ns[q] = Token(t, q) /\ q \in Paths
    BY <1>5, <1>6
  <2>2. DOMAIN Token(t, q) = {BinAfter(p, q) : p \in Below(t, q)} /\ DOMAIN Token(t, q) \in SUBSET Nat
    BY <1>2, <2>1, TokenIs
  <2>3. IsFiniteSet(Below(t, q))
    <3>1. Below(t, q) \subseteq DOMAIN t
      BY DEF Below
    <3> QED
      BY <1>1, <3>1, FS_Subset
  <2> DEFINE f == [p \in Below(t, q) |-> BinAfter(p, q)]
  <2>4. IsFiniteSet({f[p] : p \in Below(t, q)})
    BY <2>3, ImageFinite
  <2>5. {f[p] : p \in Below(t, q)} = {BinAfter(p, q) : p \in Below(t, q)}
    OBVIOUS
  <2>6. IsFiniteSet(DOMAIN Token(t, q))
    BY <2>2, <2>4, <2>5
  <2>7. Token(t, q) \notin {EOF, Piece}
    BY <1>1 DEF X
  <2> QED
    BY <2>1, <2>2, <2>6, <2>7 DEF IsMask
<1>8. ASSUME NEW q \in X, NEW n \in 0 .. Len(q) - 1
      PROVE  SubSeq(q, 1, n) \in X /\ q[n + 1] \in DOMAIN ns[SubSeq(q, 1, n)] /\ n < B[q[1]]
  <2>1. q \in Paths /\ Len(q) \in Nat /\ n \in 0 .. Len(q) /\ n + 1 \in 1 .. Len(q) /\ n \in Nat
    BY <1>5, LenProperties DEF Paths
  <2> DEFINE u == SubSeq(q, 1, n)
             b == q[n + 1]
             v == Append(u, b)
  <2>2. u \in Paths /\ Len(u) = n /\ \A i \in 1 .. n : u[i] = q[i]
    BY <2>1, Beginning
  <2>3. b \in Nat
    BY <2>1, ElementOfSeq DEF Paths
  <2> HIDE DEF u, b
  <2>4. v \in Paths /\ Len(v) = n + 1 /\ (\A i \in 1 .. n : v[i] = u[i]) /\ v[n + 1] = b
    BY <2>2, <2>3, Extended
  <2> HIDE DEF v
  <2>5. \A i \in 1 .. n + 1 : v[i] = q[i]
    BY <2>1, <2>2, <2>4 DEF b
  <2>6. Under(u, q) /\ Under(v, q) /\ v[1] = q[1]
    BY <2>1, <2>2, <2>4, <2>5 DEF Under
  <2>7. u \in X /\ v \in X
    BY <1>2, <2>2, <2>4, <2>6, NodesClosed DEF X
  <2>8. b \in DOMAIN Token(t, u) /\ n + 1 < D[v[1]] /\ \E p \in DOMAIN t : p[1] = v[1]
    <3>1. Append(u, b) \in Nodes(t)
      BY <2>7 DEF v, X
    <3>2. b \in DOMAIN Token(t, u) /\ Len(u) + 1 < D[Append(u, b)[1]] /\ \E p \in DOMAIN t : p[1] = Append(u, b)[1]
      BY <1>2, <1>3, <2>2, <2>3, <3>1, ChildOf
    <3> QED
      BY <2>2, <3>2 DEF v
  <2>9. v[1] \in DOMAIN B
    BY <1>1, <2>8
  <2>10. n < B[q[1]]
    BY <1>4, <2>1, <2>6, <2>8, <2>9
  <2>11. b \in DOMAIN ns[u]
    BY <1>6, <2>7, <2>8
  <2> QED
    BY <2>7, <2>10, <2>11 DEF u, b
<1>9. ASSUME NEW q \in X, NEW i \in DOMAIN ns[q], Len(q) < B[Append(q, i)[1]]
      PROVE  Append(q, i) \in X
  <2>1. q \in Paths /\ i \in DOMAIN Token(t, q) /\ Len(q) \in Nat
    BY <1>5, <1>6, LenProperties DEF Paths
  <2>2. i \in Nat
    BY <1>2, <2>1, TokenIs
  <2>3. \E p \in DOMAIN t : p[1] = Append(q, i)[1]
    BY <1>2, <1>3, <2>1, <2>2, ChildOf
  <2>4. Append(q, i)[1] \in DOMAIN B
    BY <1>1, <2>3
  <2> DEFINE r == Append(q, i)[1]
  <2>5. r \in DOMAIN B /\ Len(q) < B[r]
    BY <1>9, <2>4
  <2> HIDE DEF r
  <2>6. Len(q) + 1 < D[r]
    BY <1>4, <2>1, <2>5
  <2>7. Len(q) + 1 < D[Append(q, i)[1]]
    BY <2>6 DEF r
  <2> QED
    BY <1>2, <1>3, <2>1, <2>2, <2>7, ChildOf DEF X
<1>10. Descends(B, ns, X)
  BY <1>6, <1>8 DEF Descends
<1>11. AllThere(B, ns)
  BY <1>6, <1>9 DEF AllThere
<1> QED
  BY <1>5, <1>6, <1>7, <1>10, <1>11 DEF Grown

\* A trie of nodes that was read is serialized to the very file that generate and merge
\* write for that trie (WritesHistogram, WritesUnion).
THEOREM SerializedAsGenerated == ASSUME NEW t, IsTrie(t) PROVE Serialize(NodesOf(t)) = Wire(t)
<1> DEFINE X == Nodes(t)
           rank == [q \in X |-> Cardinality({r \in X : Before(r, q)})]
           at(k) == CHOOSE q \in X : rank[q] = k - 1
           ns == NodesOf(t)
           n == Cardinality(X)
<1>1. DOMAIN ns = X /\ \A q \in X : ns[q] = Token(t, q)
  BY DEF NodesOf
<1>2. Serialize(ns) = Append([k \in 1 .. n |-> ns[at(k)]], EOF)
  BY <1>1 DEF Serialize
<1>3. Encode(t) = [k \in 1 .. n |-> Token(t, at(k))]
  BY DEF Encode
<1>4. n \in Nat /\ \A k \in 1 .. n : \E q \in X : Rank(X, q) + 1 = k
  BY EachPlaceTaken
<1>5. X \in SUBSET Paths /\ IsFiniteSet(X)
  BY NodesArePaths
<1> HIDE DEF X, ns
<1>6. ASSUME NEW k \in 1 .. n PROVE ns[at(k)] = Token(t, at(k))
  <2>1. PICK q \in X : Rank(X, q) + 1 = k
    BY <1>4, <1>6
  <2>2. Rank(X, q) \in Nat /\ rank[q] = Rank(X, q)
    BY <1>5, RankRange DEF Rank
  <2>3. rank[q] = k - 1
    BY <2>1, <2>2
  <2> HIDE DEF rank
  <2>4. at(k) \in X
    BY <2>3
  <2> QED
    BY <1>1, <2>4
<1> HIDE DEF at
<1>7. [k \in 1 .. n |-> ns[at(k)]] = [k \in 1 .. n |-> Token(t, at(k))]
  BY <1>6
<1> QED
  BY <1>2, <1>3, <1>7 DEF Wire, ns

-----------------------------------------------------------------------------
(* Reading, node by node.                                                  *)

\* The nodes read and the ones ahead.
Met(ns, ahead) == DOMAIN ns \cup ToSet(ahead)

\* What a reader has in memory on the way: a tree that may lack branches, and the nodes
\* ahead are apart from it and in order.
PartRead(B, ns, ahead) ==
  /\ Met(ns, ahead) \in SUBSET Paths /\ IsFiniteSet(DOMAIN ns) /\ <<>> \in Met(ns, ahead)
  /\ ns = [q \in DOMAIN ns |-> ns[q]]
  /\ \A q \in DOMAIN ns : IsMask(ns[q])
  /\ Descends(B, ns, Met(ns, ahead))
  /\ AheadInOrder(Met(ns, ahead), ahead) /\ Rest(Met(ns, ahead), ahead) \cap DOMAIN ns = {}

\* What it has after n nodes of the file of w, if none was lost.
Following(w, ns, ahead, n) ==
  /\ AheadInOrder(DOMAIN w, ahead)
  /\ n = Cardinality(DOMAIN w \ Rest(DOMAIN w, ahead))
  /\ DOMAIN ns = DOMAIN w \ Rest(DOMAIN w, ahead)
  /\ \A q \in DOMAIN ns : ns[q] = w[q]

\* Before the root nothing is read,
LEMMA RootAhead ==
  ASSUME NEW X \in SUBSET Paths, <<>> \in X
  PROVE  AheadInOrder(X, <<(<<>>)>>) /\ Rest(X, <<(<<>>)>>) = X
<1> DEFINE ahead == <<(<<>>)>>
<1>1. ahead \in Seq(X) /\ Len(ahead) = 1 /\ ahead[1] = <<>>
  OBVIOUS
<1>2. \A r \in X : Under(<<>>, r)
  <2> SUFFICES ASSUME NEW r \in X PROVE Under(<<>>, r)
    OBVIOUS
  <2>1. Len(r) \in Nat
    BY LenProperties DEF Paths
  <2> QED
    BY <2>1 DEF Under
<1> HIDE DEF ahead
<1>3. Rest(X, ahead) = X
  BY <1>1, <1>2 DEF Rest
<1>4. AheadInOrder(X, ahead)
  BY <1>1, <1>3 DEF AheadInOrder
<1> QED
  BY <1>3, <1>4 DEF ahead

\* When reading starts the root is what is ahead.
LEMMA ReadingStarts ==
  ASSUME NEW B, NEW w, DOMAIN w \in SUBSET Paths, <<>> \in DOMAIN w, NEW ahead, ahead = <<(<<>>)>>
  PROVE  PartRead(B, <<>>, ahead) /\ Following(w, <<>>, ahead, 0)
<1> DEFINE ns == <<>>
           X == {<<>>}
<1>1. /\ Len(ahead) = 1 /\ ahead[1] = <<>> /\ DOMAIN ns = {}
      /\ ns = [q \in DOMAIN ns |-> ns[q]]
  OBVIOUS
<1> HIDE DEF ns
<1>2. Met(ns, ahead) = X
  <2>1. DOMAIN ahead = {1}
    OBVIOUS
  <2> QED
    BY <1>1, <2>1 DEF Met, ToSet
<1>3. X \in SUBSET Paths /\ IsFiniteSet({})
  BY FS_EmptySet DEF Paths
<1>4. AheadInOrder(X, ahead) /\ Rest(X, ahead) = X
  BY <1>3, RootAhead
<1>5. Descends(B, ns, X)
  <2>1. ASSUME NEW q \in X PROVE q = <<>> /\ Len(q) = 0 /\ 0 .. Len(q) - 1 = {}
    OBVIOUS
  <2> QED
    BY <2>1 DEF Descends
<1>6. PartRead(B, ns, ahead)
  BY <1>1, <1>2, <1>3, <1>4, <1>5 DEF PartRead
<1>7. Following(w, ns, ahead, 0)
  <2>1. AheadInOrder(DOMAIN w, ahead) /\ Rest(DOMAIN w, ahead) = DOMAIN w
    BY RootAhead
  <2>2. DOMAIN w \ DOMAIN w = {} /\ Cardinality({}) = 0
    BY FS_EmptySet
  <2> QED
    BY <1>1, <2>1, <2>2 DEF Following
<1> QED
  BY <1>6, <1>7 DEF ns

\* Nodes not in the tree are under none that is ahead of it but itself.
LEMMA AheadIsOut ==
  ASSUME NEW B, NEW ns, NEW ahead, PartRead(B, ns, ahead), ahead # <<>>, NEW h, h = Head(ahead)
  PROVE  /\ h \in Paths /\ h \in Met(ns, ahead) /\ h \notin DOMAIN ns /\ Len(h) \in Nat
         /\ \A r \in Met(ns, ahead) : Under(h, r) => r = h
<1> DEFINE X == Met(ns, ahead)
<1>1. X \in SUBSET Paths /\ AheadInOrder(X, ahead) /\ Rest(X, ahead) \cap DOMAIN ns = {} /\ Descends(B, ns, X)
  BY DEF PartRead
<1> HIDE DEF X
<1>2. h \in Rest(X, ahead) /\ h \in X
  BY <1>1, HeadRank
<1>3. h \notin DOMAIN ns /\ h \in Paths /\ Len(h) \in Nat
  BY <1>1, <1>2, LenProperties DEF Paths
<1>4. ASSUME NEW r \in X, Under(h, r), r # h PROVE FALSE
  <2>1. r \in Paths /\ Len(r) \in Nat
    BY <1>1, LenProperties DEF Paths
  <2>2. Len(h) <= Len(r) /\ \A i \in 1 .. Len(h) : r[i] = h[i]
    BY <1>4 DEF Under
  <2>3. Len(h) # Len(r)
    BY <1>3, <1>4, <2>1, <2>2, SeqEqual DEF Paths
  <2>4. Len(h) \in 0 .. Len(r) - 1 /\ Len(h) \in 0 .. Len(r)
    BY <1>3, <2>1, <2>2, <2>3
  <2>5. SubSeq(r, 1, Len(h)) \in DOMAIN ns
    BY <1>1, <2>4 DEF Descends
  <2>6. SubSeq(r, 1, Len(h)) = h
    <3> DEFINE u == SubSeq(r, 1, Len(h))
    <3>1. u \in Paths /\ Len(u) = Len(h) /\ \A i \in 1 .. Len(h) : u[i] = r[i]
      BY <2>1, <2>4, Beginning
    <3> HIDE DEF u
    <3>2. u = h
      BY <1>3, <2>2, <3>1, SeqEqual DEF Paths
    <3> QED
      BY <3>2 DEF u
  <2> QED
    BY <1>3, <2>5, <2>6
<1> QED
  BY <1>2, <1>3, <1>4 DEF X

\* What is ahead once the head is passed.
LEMMA TailIs ==
  ASSUME NEW S, NEW ahead \in Seq(S), ahead # <<>>
  PROVE  /\ Len(ahead) \in Nat \ {0} /\ Head(ahead) = ahead[1]
         /\ Tail(ahead) \in Seq(S) /\ Len(Tail(ahead)) = Len(ahead) - 1
         /\ \A k \in 1 .. Len(ahead) - 1 : Tail(ahead)[k] = ahead[k + 1]
         /\ ToSet(ahead) = {Head(ahead)} \cup ToSet(Tail(ahead))
<1>1. Len(ahead) \in Nat \ {0} /\ Head(ahead) = ahead[1]
  BY LenProperties, EmptySeq
<1>2. /\ Tail(ahead) \in Seq(S) /\ Len(Tail(ahead)) = Len(ahead) - 1
      /\ \A k \in 1 .. Len(ahead) - 1 : Tail(ahead)[k] = ahead[k + 1]
  BY <1>1, HeadTailProperties
<1> DEFINE t == Tail(ahead)
           m == Len(ahead) - 1
<1>3. DOMAIN ahead = 1 .. Len(ahead) /\ DOMAIN t = 1 .. m
  BY <1>2, LenProperties
<1> HIDE DEF t
<1>4. ASSUME NEW k \in 1 .. Len(ahead), k # 1 PROVE ahead[k] \in ToSet(t)
  <2>1. k - 1 \in 1 .. m /\ k - 1 + 1 = k
    BY <1>1, <1>4
  <2>2. t[k - 1] = ahead[k]
    BY <1>2, <2>1 DEF t
  <2> QED
    BY <1>3, <2>1, <2>2 DEF ToSet
<1>5. ASSUME NEW l \in 1 .. m PROVE t[l] \in ToSet(ahead)
  <2>1. l + 1 \in 1 .. Len(ahead)
    BY <1>1
  <2>2. t[l] = ahead[l + 1]
    BY <1>2 DEF t
  <2> QED
    BY <1>3, <2>1, <2>2 DEF ToSet
<1>6. ahead[1] \in ToSet(ahead)
  <2>1. 1 \in 1 .. Len(ahead)
    BY <1>1
  <2> QED
    BY <1>3, <2>1 DEF ToSet
<1>7. ToSet(ahead) \subseteq {ahead[1]} \cup ToSet(t)
  <2>1. ASSUME NEW x \in ToSet(ahead) PROVE x \in {ahead[1]} \cup ToSet(t)
    <3>1. PICK k \in 1 .. Len(ahead) : x = ahead[k]
      BY <1>3 DEF ToSet
    <3> QED
      BY <1>4, <3>1
  <2> QED
    BY <2>1
<1>8. ToSet(t) \subseteq ToSet(ahead)
  <2>1. ASSUME NEW x \in ToSet(t) PROVE x \in ToSet(ahead)
    <3>1. PICK l \in 1 .. m : x = t[l]
      BY <1>3 DEF ToSet
    <3> QED
      BY <1>5, <3>1
  <2> QED
    BY <2>1
<1>9. ToSet(ahead) = {ahead[1]} \cup ToSet(t)
  BY <1>6, <1>7, <1>8
<1> QED
  BY <1>1, <1>2, <1>9 DEF t

\* The paths of the children of h.
Young(h, bins) == {Append(h, i) : i \in bins}

\* What is ahead once a node is read: its children, and what was ahead behind it.
LEMMA NextIs ==
  ASSUME NEW h \in Paths, NEW tail \in Seq(Paths), NEW bins \in SUBSET Nat, IsFiniteSet(bins),
         NEW next, next = Brood(h, bins) \o tail
  PROVE  ToSet(next) = Young(h, bins) \cup ToSet(tail)
<1> DEFINE n == Cardinality(bins)
           nth == Nth(bins)
           brood == Brood(h, bins)
           m == Len(tail)
<1>1. Len(tail) = m /\ m \in Nat
  BY LenProperties
<1>2. n \in Nat
  BY FS_CardinalityType
<1>3. (\A k \in 1 .. n : nth[k] \in bins) /\ \A i \in bins : \E k \in 1 .. n : nth[k] = i
  BY NthOf
<1>4. brood = [k \in 1 .. n |-> Append(h, nth[k])]
  BY DEF Brood
<1>5. next = brood \o tail
  OBVIOUS
<1> HIDE DEF n, nth, brood, m
<1>6. brood \in Seq(Paths) /\ Len(brood) = n
  <2>1. \A k \in 1 .. n : Append(h, nth[k]) \in Paths
    <3> SUFFICES ASSUME NEW k \in 1 .. n PROVE Append(h, nth[k]) \in Paths
      OBVIOUS
    <3>1. nth[k] \in Nat
      BY <1>3
    <3> QED
      BY <1>1, <3>1, Extended
  <2>2. brood \in [1 .. n -> Paths]
    BY <1>4, <2>1
  <2>3. brood \in Seq(Paths)
    BY <1>2, <2>2, SeqDef
  <2>4. DOMAIN brood = 1 .. n /\ DOMAIN brood = 1 .. Len(brood) /\ Len(brood) \in Nat
    BY <2>2, <2>3, LenProperties
  <2> DEFINE l == Len(brood)
  <2>5. 1 .. l = 1 .. n /\ l \in Nat
    BY <2>4
  <2> HIDE DEF l
  <2>6. Cardinality(1 .. n) = n
    BY <1>2, FS_Interval
  <2>7. Cardinality(1 .. l) = l
    BY <2>5, FS_Interval
  <2> QED
    BY <2>3, <2>5, <2>6, <2>7 DEF l
<1>7. /\ DOMAIN next = 1 .. n + m /\ DOMAIN tail = 1 .. m
      /\ \A k \in 1 .. n + m : next[k] = IF k <= n THEN brood[k] ELSE tail[k - n]
  <2>1. /\ brood \o tail \in Seq(Paths) /\ Len(brood \o tail) = Len(brood) + Len(tail)
        /\ \A k \in 1 .. Len(brood) + Len(tail) :
             (brood \o tail)[k] = IF k <= Len(brood) THEN brood[k] ELSE tail[k - Len(brood)]
    BY <1>1, <1>6, ConcatProperties
  <2>2. DOMAIN (brood \o tail) = 1 .. Len(brood \o tail) /\ DOMAIN tail = 1 .. Len(tail)
    BY <2>1, LenProperties
  <2> QED
    BY <1>1, <1>5, <1>6, <2>1, <2>2
<1>8. ASSUME NEW k \in 1 .. n + m
      PROVE  (\E i \in bins : next[k] = Append(h, i)) \/ \E l \in 1 .. m : next[k] = tail[l]
  <2>1. CASE k <= n
    <3>1. k \in 1 .. n
      BY <1>2, <2>1
    <3>2. next[k] = brood[k]
      BY <1>7, <2>1
    <3>3. next[k] = Append(h, nth[k]) /\ nth[k] \in bins
      BY <1>3, <1>4, <3>1, <3>2
    <3> QED
      BY <3>3
  <2>2. CASE ~ (k <= n)
    <3>1. k - n \in 1 .. m
      BY <1>1, <1>2, <2>2
    <3>2. next[k] = tail[k - n]
      BY <1>7, <2>2
    <3> QED
      BY <3>1, <3>2
  <2> QED
    BY <2>1, <2>2
<1>9. ASSUME NEW i \in bins PROVE \E k \in 1 .. n + m : next[k] = Append(h, i)
  <2>1. PICK k \in 1 .. n : nth[k] = i
    BY <1>3
  <2>2. k \in 1 .. n + m /\ k <= n
    BY <1>1, <1>2
  <2>3. next[k] = brood[k]
    BY <1>7, <2>2
  <2>4. brood[k] = Append(h, i)
    BY <1>4, <2>1
  <2> QED
    BY <2>2, <2>3, <2>4
<1>10. ASSUME NEW l \in 1 .. m PROVE \E k \in 1 .. n + m : next[k] = tail[l]
  <2>1. PICK k \in 1 .. n + m : ~ (k <= n) /\ k - n = l
    <3> DEFINE k == n + l
    <3>1. k \in 1 .. n + m /\ ~ (k <= n) /\ k - n = l
      BY <1>1, <1>2
    <3> HIDE DEF k
    <3> QED
      BY <3>1
  <2>2. next[k] = tail[k - n]
    BY <1>7, <2>1
  <2> QED
    BY <2>1, <2>2
<1>11. ASSUME NEW x \in ToSet(next) PROVE x \in Young(h, bins) \cup ToSet(tail)
  <2>1. PICK k \in 1 .. n + m : x = next[k]
    BY <1>7 DEF ToSet
  <2>2. CASE \E i \in bins : next[k] = Append(h, i)
    BY <2>1, <2>2 DEF Young
  <2>3. CASE \E l \in 1 .. m : next[k] = tail[l]
    BY <1>7, <2>1, <2>3 DEF ToSet
  <2> QED
    BY <1>8, <2>2, <2>3
<1>12. ASSUME NEW x \in Young(h, bins) PROVE x \in ToSet(next)
  <2>1. PICK i \in bins : x = Append(h, i)
    BY DEF Young
  <2>2. PICK k \in 1 .. n + m : next[k] = Append(h, i)
    BY <1>9
  <2> QED
    BY <1>7, <2>1, <2>2 DEF ToSet
<1>13. ASSUME NEW x \in ToSet(tail) PROVE x \in ToSet(next)
  <2>1. PICK l \in 1 .. m : x = tail[l]
    BY <1>7 DEF ToSet
  <2>2. PICK k \in 1 .. n + m : next[k] = tail[l]
    BY <1>10
  <2> QED
    BY <1>7, <2>1, <2>2 DEF ToSet
<1> QED
  BY <1>11, <1>12, <1>13

\* The bins of a node that have a node below them, and the tree with the node in it.
BinsBelow(B, h, node) == {i \in DOMAIN node : Len(h) < B[Append(h, i)[1]]}
With(ns, h, node) == [q \in DOMAIN ns \cup {h} |-> IF q = h THEN node ELSE ns[q]]

\* A node is read: its children that are to have nodes come next.
LEMMA ReadsOn ==
  ASSUME NEW B, NEW ns, NEW ahead, PartRead(B, ns, ahead), ahead # <<>>, NEW h, h = Head(ahead),
         NEW node, IsMask(node), NEW bins, bins = BinsBelow(B, h, node),
         NEW more, more = With(ns, h, node),
         NEW next, next = Brood(h, bins) \o Tail(ahead)
  PROVE  PartRead(B, more, next)
<1> USE DEF BinsBelow, With
<1> DEFINE X == Met(ns, ahead)
           new == Young(h, bins)
           Y == X \cup new
           tail == ToSet(Tail(ahead))
<1>1. /\ X \in SUBSET Paths /\ IsFiniteSet(DOMAIN ns) /\ <<>> \in X /\ \A q \in DOMAIN ns : IsMask(ns[q])
      /\ Descends(B, ns, X) /\ AheadInOrder(X, ahead) /\ Rest(X, ahead) \cap DOMAIN ns = {}
      /\ DOMAIN ns \subseteq X
  BY DEF PartRead, Met
<1>2. /\ h \in Paths /\ h \in X /\ h \notin DOMAIN ns /\ Len(h) \in Nat
      /\ \A r \in X : Under(h, r) => r = h
  BY AheadIsOut
<1>3. bins \in SUBSET Nat /\ IsFiniteSet(bins) /\ bins \subseteq DOMAIN node
  BY FS_Subset DEF IsMask
<1>4. ASSUME NEW i \in bins
      PROVE  /\ Append(h, i) \in Paths /\ Len(Append(h, i)) = Len(h) + 1
             /\ \A k \in 1 .. Len(h) : Append(h, i)[k] = h[k]
             /\ Append(h, i)[Len(h) + 1] = i
             /\ Under(h, Append(h, i)) /\ Append(h, i) # h /\ Before(h, Append(h, i))
  <2>1. i \in Nat
    BY <1>3
  <2>2. /\ Append(h, i) \in Paths /\ Len(Append(h, i)) = Len(h) + 1
        /\ \A k \in 1 .. Len(h) : Append(h, i)[k] = h[k]
        /\ Append(h, i)[Len(h) + 1] = i
    BY <1>2, <2>1, Extended
  <2> DEFINE c == Append(h, i)
  <2> HIDE DEF c
  <2>3. Under(h, c) /\ c # h
    BY <1>2, <2>2 DEF Under, c
  <2>4. Before(h, c)
    BY <1>2, <2>2, <2>3, UnderIsAfter DEF c
  <2> QED
    BY <2>2, <2>3, <2>4 DEF c
<1>5. DOMAIN more = DOMAIN ns \cup {h} /\ more[h] = node /\ \A q \in DOMAIN ns : more[q] = ns[q]
  BY <1>2
<1>6. /\ ahead \in Seq(X) /\ ahead \in Seq(Paths) /\ Tail(ahead) \in Seq(Paths)
      /\ ToSet(ahead) = {h} \cup tail
  <2>1. ahead \in Seq(X)
    BY <1>1 DEF AheadInOrder
  <2> HIDE DEF X
  <2>2. ahead \in Seq(Paths)
    BY <1>1, <2>1
  <2> QED
    BY <2>1, <2>2, TailIs
<1>7. ToSet(next) = new \cup tail
  <2> DEFINE t == Tail(ahead)
  <2>1. next = Brood(h, bins) \o t
    OBVIOUS
  <2>2. t \in Seq(Paths)
    BY <1>6
  <2> HIDE DEF t
  <2>3. h \in Paths
    BY <1>2
  <2>4. bins \in SUBSET Nat /\ IsFiniteSet(bins)
    BY <1>3
  <2>5. ToSet(next) = Young(h, bins) \cup ToSet(t)
    BY ONLY <2>1, <2>2, <2>3, <2>4, NextIs
  <2> QED
    BY <2>5 DEF t
<1>8. Met(more, next) = Y
  <2>1. X = DOMAIN ns \cup ({h} \cup tail)
    BY <1>6 DEF Met
  <2>2. Met(more, next) = (DOMAIN ns \cup {h}) \cup (new \cup tail)
    BY <1>5, <1>7 DEF Met
  <2> HIDE DEF X, new, tail
  <2> QED
    BY <2>1, <2>2
<1>9. Y \in SUBSET Paths /\ X \subseteq Y /\ IsFiniteSet(DOMAIN more)
  <2>1. new \in SUBSET Paths
    BY <1>4 DEF Young
  <2>2. IsFiniteSet(DOMAIN ns \cup {h})
    BY <1>1, FS_AddElement
  <2> QED
    BY <1>1, <1>5, <2>1, <2>2
<1>10. more = [q \in DOMAIN more |-> more[q]] /\ \A q \in DOMAIN more : IsMask(more[q])
  <2>1. \A q \in DOMAIN more : IsMask(more[q])
    BY <1>1, <1>5
  <2>2. more = [q \in DOMAIN more |-> more[q]]
    OBVIOUS
  <2> QED
    BY <2>1, <2>2
<1>11. Descends(B, more, Y)
  <2> SUFFICES ASSUME NEW q \in Y, NEW n \in 0 .. Len(q) - 1
               PROVE  SubSeq(q, 1, n) \in DOMAIN more /\ q[n + 1] \in DOMAIN more[SubSeq(q, 1, n)] /\ n < B[q[1]]
    BY DEF Descends
  <2>1. CASE q \in X
    <3>1. SubSeq(q, 1, n) \in DOMAIN ns /\ q[n + 1] \in DOMAIN ns[SubSeq(q, 1, n)] /\ n < B[q[1]]
      BY <1>1, <2>1 DEF Descends
    <3> QED
      BY <1>5, <3>1
  <2>2. CASE q \in new
    <3>1. PICK i \in bins : q = Append(h, i)
      BY <2>2 DEF Young
    <3>2. /\ q \in Paths /\ Len(q) = Len(h) + 1 /\ (\A k \in 1 .. Len(h) : q[k] = h[k]) /\ q[Len(h) + 1] = i
      BY <1>4, <3>1
    <3>3. n \in 0 .. Len(h) /\ n \in Nat
      BY <1>2, <3>2
    <3>4. SubSeq(q, 1, n) \in Paths /\ Len(SubSeq(q, 1, n)) = n /\ \A k \in 1 .. n : SubSeq(q, 1, n)[k] = q[k]
      <4>1. n \in 0 .. Len(q)
        BY <1>2, <3>2
      <4> QED
        BY <3>2, <4>1, Beginning
    <3>5. CASE n = Len(h)
      <4>1. \A k \in 1 .. Len(h) : SubSeq(q, 1, n)[k] = h[k]
        BY <3>2, <3>4, <3>5
      <4>2. SubSeq(q, 1, n) = h
        BY <1>2, <3>4, <3>5, <4>1, SeqEqual DEF Paths
      <4>3. i \in DOMAIN node /\ Len(h) < B[q[1]]
        BY <3>1
      <4> QED
        BY <1>5, <3>2, <3>5, <4>2, <4>3
    <3>6. CASE n # Len(h)
      <4>1. n \in 0 .. Len(h) - 1 /\ n \in 0 .. Len(h) /\ n + 1 \in 1 .. Len(h) /\ 1 \in 1 .. Len(h)
        BY <1>2, <3>3, <3>6
      <4>2. SubSeq(h, 1, n) \in DOMAIN ns /\ h[n + 1] \in DOMAIN ns[SubSeq(h, 1, n)] /\ n < B[h[1]]
        BY <1>1, <1>2, <4>1 DEF Descends
      <4>3. SubSeq(h, 1, n) = SubSeq(q, 1, n)
        <5>1. n <= Len(q) /\ \A k \in 1 .. n : h[k] = q[k]
          BY <1>2, <3>2, <4>1
        <5> QED
          BY <1>2, <3>2, <4>1, <5>1, SameBeginning
      <4>4. q[n + 1] = h[n + 1] /\ q[1] = h[1]
        BY <3>2, <4>1
      <4> QED
        BY <1>5, <4>2, <4>3, <4>4
    <3> QED
      BY <3>5, <3>6
  <2> QED
    BY <2>1, <2>2
<1> HIDE DEF X, new, tail
<1>12. AheadInOrder(Y, ahead) /\ Rest(Y, ahead) \cap DOMAIN ns = {}
  <2>1. Len(ahead) \in Nat \ {0} /\ h = ahead[1] /\ \A k \in 1 .. Len(ahead) : ahead[k] \in X /\ ahead[k] \in Paths
    BY <1>1, <1>6, TailIs
  <2>2. /\ \A j, k \in 1 .. Len(ahead) : j < k => Before(ahead[j], ahead[k]) /\ ~ Under(ahead[j], ahead[k])
        /\ \A d \in X \ Rest(X, ahead) : \A r \in Rest(X, ahead) : Before(d, r)
    BY <1>1 DEF AheadInOrder
  <2>3. ASSUME NEW c \in new PROVE c \in Rest(Y, ahead) /\ Under(h, c) /\ Before(h, c) /\ c \in Paths
    <3>1. c \in Paths /\ Under(h, c) /\ Before(h, c)
      BY <1>4 DEF new, Young
    <3>2. 1 \in 1 .. Len(ahead)
      BY <2>1
    <3> QED
      BY <2>1, <3>1, <3>2 DEF Rest
  <2>4. \A r \in X : r \in Rest(Y, ahead) <=> r \in Rest(X, ahead)
    BY DEF Rest
  <2>5. h \in Rest(X, ahead)
    BY <1>1, HeadRank
  <2>6. ASSUME NEW d \in Y \ Rest(Y, ahead), NEW r \in Rest(Y, ahead) PROVE Before(d, r)
    <3>1. d \in X \ Rest(X, ahead)
      BY <2>3, <2>4
    <3>2. CASE r \in X
      BY <2>2, <2>4, <3>1, <3>2
    <3>3. CASE r \in new
      <4>1. Before(d, h) /\ Before(h, r) /\ d \in Paths /\ r \in Paths
        BY <1>1, <2>2, <2>3, <2>5, <3>1, <3>3
      <4> QED
        BY <1>2, <4>1, BeforeTransitive
    <3>4. r \in Y
      BY DEF Rest
    <3> QED
      BY <3>2, <3>3, <3>4
  <2>7. ahead \in Seq(Y)
    BY <1>6, <1>9
  <2>8. AheadInOrder(Y, ahead)
    BY <2>2, <2>6, <2>7 DEF AheadInOrder
  <2>9. Rest(Y, ahead) \cap DOMAIN ns = {}
    BY <1>1, <2>4
  <2> QED
    BY <2>8, <2>9
<1>13. AheadInOrder(Y, next) /\ Rest(Y, next) = Rest(Y, ahead) \ {h}
  <2>1. \A i \in bins : Append(Head(ahead), i) \in Y
    BY DEF new, Young
  <2>2. ASSUME NEW r \in Y, Under(h, r), r # h PROVE r[Len(h) + 1] \in bins
    <3>1. r \in new
      BY <1>2, <2>2
    <3> QED
      BY <1>4, <3>1 DEF new, Young
  <2>3. \A r \in Y : Under(Head(ahead), r) /\ r # Head(ahead) => r[Len(Head(ahead)) + 1] \in bins
    BY <2>2
  <2> HIDE DEF Y
  <2>4. Y \in SUBSET Paths
    BY <1>9
  <2>5. next = Brood(Head(ahead), bins) \o Tail(ahead)
    OBVIOUS
  <2>6. AheadInOrder(Y, next) /\ Rest(Y, next) = Rest(Y, ahead) \ {Head(ahead)}
    BY <1>3, <1>12, <2>1, <2>3, <2>4, <2>5, HeadWritten
  <2> QED
    BY <2>6
<1>14. Rest(Y, next) \cap DOMAIN more = {}
  BY <1>5, <1>12, <1>13
<1>15. <<>> \in Y
  BY <1>1
<1> HIDE DEF Y
<1> QED
  BY <1>8, <1>9, <1>10, <1>11, <1>13, <1>14, <1>15 DEF PartRead

\* A node is passed over: what is below it is never read.
LEMMA ReadsPast ==
  ASSUME NEW B, NEW ns, NEW ahead, PartRead(B, ns, ahead), ahead # <<>>, Head(ahead) # <<>>,
         NEW next, next = Tail(ahead)
  PROVE  PartRead(B, ns, next)
<1> DEFINE X == Met(ns, ahead)
           Y == Met(ns, next)
           h == Head(ahead)
<1>1. /\ X \in SUBSET Paths /\ IsFiniteSet(DOMAIN ns) /\ <<>> \in X /\ ns = [q \in DOMAIN ns |-> ns[q]]
      /\ \A q \in DOMAIN ns : IsMask(ns[q])
      /\ Descends(B, ns, X) /\ AheadInOrder(X, ahead) /\ Rest(X, ahead) \cap DOMAIN ns = {}
  BY DEF PartRead
<1>2. /\ Len(ahead) \in Nat \ {0} /\ h = ahead[1] /\ ToSet(ahead) = {h} \cup ToSet(next)
      /\ next \in Seq(Paths) /\ Len(next) = Len(ahead) - 1
      /\ \A k \in 1 .. Len(ahead) - 1 : next[k] = ahead[k + 1]
  <2>1. ahead \in Seq(X)
    BY <1>1 DEF AheadInOrder
  <2> HIDE DEF X
  <2>2. ahead \in Seq(Paths)
    BY <1>1, <2>1
  <2> QED
    BY <2>2, TailIs
<1>3. X = DOMAIN ns \cup {h} \cup ToSet(next) /\ Y = DOMAIN ns \cup ToSet(next)
  BY <1>2 DEF Met
<1> HIDE DEF X, Y, h
<1>4. Y \in SUBSET Paths /\ Y \subseteq X /\ <<>> \in Y
  BY <1>1, <1>3 DEF h
<1>5. Descends(B, ns, Y)
  BY <1>1, <1>4 DEF Descends
<1>6. \A k \in 1 .. Len(next) : next[k] \in ToSet(next) /\ k + 1 \in 1 .. Len(ahead) /\ next[k] = ahead[k + 1]
  <2>1. DOMAIN next = 1 .. Len(next)
    BY <1>2, LenProperties
  <2> QED
    BY <1>2, <2>1 DEF ToSet
<1>7. \A r \in Rest(Y, next) : r \in Rest(X, ahead)
  <2> SUFFICES ASSUME NEW r \in Rest(Y, next) PROVE r \in Rest(X, ahead)
    OBVIOUS
  <2>1. PICK k \in 1 .. Len(next) : Under(next[k], r)
    BY DEF Rest
  <2>2. r \in X
    BY <1>4 DEF Rest
  <2>3. k + 1 \in 1 .. Len(ahead) /\ Under(ahead[k + 1], r)
    BY <1>6, <2>1
  <2> QED
    BY <2>2, <2>3 DEF Rest
<1>8. \A r \in ToSet(next) : r \in Rest(Y, next)
  <2> SUFFICES ASSUME NEW r \in ToSet(next) PROVE r \in Rest(Y, next)
    OBVIOUS
  <2>1. r \in Y /\ r \in Paths
    BY <1>3, <1>4
  <2>2. PICK k \in 1 .. Len(next) : next[k] = r
    BY <1>2, LenProperties DEF ToSet
  <2>3. Len(r) \in Nat
    BY <2>1, LenProperties DEF Paths
  <2>4. Under(next[k], r)
    BY <2>2, <2>3 DEF Under
  <2> QED
    BY <2>1, <2>4 DEF Rest
<1>9. AheadInOrder(Y, next)
  <2>1. next \in Seq(Y)
    <3>1. next \in [1 .. Len(next) -> Paths] /\ Len(next) \in Nat
      BY <1>2, LenProperties
    <3>2. \A k \in 1 .. Len(next) : next[k] \in Y
      BY <1>3, <1>6
    <3>3. next \in [1 .. Len(next) -> Y]
      BY <3>1, <3>2
    <3> QED
      BY <3>1, <3>3, SeqDef
  <2>2. \A j, k \in 1 .. Len(next) : j < k => Before(next[j], next[k]) /\ ~ Under(next[j], next[k])
    <3> SUFFICES ASSUME NEW j \in 1 .. Len(next), NEW k \in 1 .. Len(next), j < k
                 PROVE  Before(next[j], next[k]) /\ ~ Under(next[j], next[k])
      OBVIOUS
    <3>1. j + 1 \in 1 .. Len(ahead) /\ k + 1 \in 1 .. Len(ahead) /\ j + 1 < k + 1
      BY <1>2, <1>6
    <3>2. Before(ahead[j + 1], ahead[k + 1]) /\ ~ Under(ahead[j + 1], ahead[k + 1])
      BY <1>1, <3>1 DEF AheadInOrder
    <3> QED
      BY <1>6, <3>2
  <2>3. \A d \in Y \ Rest(Y, next) : \A r \in Rest(Y, next) : Before(d, r)
    <3> SUFFICES ASSUME NEW d \in Y \ Rest(Y, next), NEW r \in Rest(Y, next) PROVE Before(d, r)
      OBVIOUS
    <3>1. d \in DOMAIN ns
      BY <1>3, <1>8
    <3>2. d \in X \ Rest(X, ahead) /\ r \in Rest(X, ahead)
      BY <1>1, <1>4, <1>7, <3>1
    <3> QED
      BY <1>1, <3>2 DEF AheadInOrder
  <2> QED
    BY <2>1, <2>2, <2>3 DEF AheadInOrder
<1>10. Rest(Y, next) \cap DOMAIN ns = {}
  BY <1>1, <1>7
<1> QED
  BY <1>1, <1>4, <1>5, <1>9, <1>10 DEF PartRead, Y

\* With nothing ahead the tree is done.
LEMMA ReadingEnds ==
  ASSUME NEW B, NEW ns, PartRead(B, ns, <<>>) PROVE Grown(B, ns)
<1>1. Met(ns, <<>>) = DOMAIN ns
  <2>1. DOMAIN <<>> = {}
    OBVIOUS
  <2>2. ToSet(<<>>) = {}
    BY <2>1 DEF ToSet
  <2> QED
    BY <2>2 DEF Met
<1> QED
  BY <1>1 DEF PartRead, Grown

\* While no node was lost, the next one in the file of w is that of the path ahead,
LEMMA NodeAt ==
  ASSUME NEW B, NEW w, Grown(B, w), NEW ns, NEW ahead, NEW n, Following(w, ns, ahead, n), ahead # <<>>
  PROVE  /\ n \in Nat /\ n + 1 \in 1 .. Cardinality(DOMAIN w) /\ Head(ahead) \in DOMAIN w
         /\ Serialize(w)[n + 1] = w[Head(ahead)]
<1> DEFINE X == DOMAIN w
           h == Head(ahead)
<1>1. X \in SUBSET Paths /\ IsFiniteSet(X)
  BY DEF Grown
<1>2. h \in X /\ Rank(X, h) = n
  BY <1>1, HeadRank DEF Following
<1>3. /\ Rank(X, h) + 1 \in 1 .. Cardinality(X) /\ InFile(w)[Rank(X, h) + 1] = w[h]
      /\ \A k \in 1 .. Cardinality(X) : Serialize(w)[k] = InFile(w)[k]
  BY <1>1, <1>2, SerializeIs
<1>4. n \in Nat
  <2>1. IsFiniteSet(X \ Rest(X, ahead))
    BY <1>1, FS_Subset
  <2> QED
    BY <2>1, FS_CardinalityType DEF Following
<1> QED
  BY <1>2, <1>3, <1>4

\* and if that is read, none is lost.
LEMMA FollowsOn ==
  ASSUME NEW B, NEW w, Grown(B, w), AllThere(B, w), NEW ns, NEW ahead, NEW n,
         Following(w, ns, ahead, n), ahead # <<>>, NEW h, h = Head(ahead), NEW node, node = w[h],
         NEW bins, bins = BinsBelow(B, h, node),
         NEW more, more = With(ns, h, node),
         NEW next, next = Brood(h, bins) \o Tail(ahead)
  PROVE  Following(w, more, next, n + 1)
<1> USE DEF BinsBelow, With
<1> DEFINE X == DOMAIN w
<1>1. /\ X \in SUBSET Paths /\ IsFiniteSet(X) /\ Descends(B, w, X) /\ \A q \in X : IsMask(w[q])
  BY DEF Grown
<1>2. /\ AheadInOrder(X, ahead) /\ n = Cardinality(X \ Rest(X, ahead)) /\ DOMAIN ns = X \ Rest(X, ahead)
      /\ \A q \in DOMAIN ns : ns[q] = w[q]
  BY DEF Following
<1> HIDE DEF X
<1>3. h \in Rest(X, ahead) /\ h \in X /\ h \in Paths /\ Len(h) \in Nat
  <2>1. Head(ahead) \in Rest(X, ahead) /\ Head(ahead) \in X
    BY <1>1, <1>2, HeadRank
  <2> QED
    BY <1>1, <2>1, LenProperties DEF Paths
<1>4. bins \in SUBSET Nat /\ IsFiniteSet(bins) /\ \A i \in bins : Append(h, i) \in X
  <2>1. IsMask(node)
    BY <1>1, <1>3
  <2>2. bins \subseteq DOMAIN node
    OBVIOUS
  <2>3. \A i \in bins : Append(h, i) \in X
    BY <1>3 DEF AllThere, X
  <2> HIDE DEF X
  <2> QED
    BY <2>1, <2>2, <2>3, FS_Subset DEF IsMask
<1>5. ASSUME NEW r \in X, Under(h, r), r # h PROVE r[Len(h) + 1] \in bins
  <2>1. r \in Paths /\ Len(r) \in Nat
    BY <1>1, LenProperties DEF Paths
  <2>2. Len(h) <= Len(r) /\ \A i \in 1 .. Len(h) : r[i] = h[i]
    BY <1>5 DEF Under
  <2>3. Len(h) # Len(r)
    BY <1>3, <1>5, <2>1, <2>2, SeqEqual DEF Paths
  <2>4. Len(h) \in 0 .. Len(r) - 1 /\ Len(h) \in 0 .. Len(r) /\ Len(h) + 1 \in 1 .. Len(r)
    BY <1>3, <2>1, <2>2, <2>3
  <2> DEFINE u == SubSeq(r, 1, Len(h))
             b == r[Len(h) + 1]
             c == Append(h, b)
  <2>5. u \in Paths /\ Len(u) = Len(h) /\ \A i \in 1 .. Len(h) : u[i] = r[i]
    BY <2>1, <2>4, Beginning
  <2>6. b \in DOMAIN w[u] /\ Len(h) < B[r[1]]
    BY <1>1, <2>4 DEF Descends
  <2>7. b \in Nat
    BY <2>1, <2>4, ElementOfSeq DEF Paths
  <2> HIDE DEF u, b
  <2>8. u = h
    BY <1>3, <2>2, <2>5, SeqEqual DEF Paths
  <2>9. /\ Len(c) = Len(h) + 1 /\ (\A i \in 1 .. Len(h) : c[i] = h[i]) /\ c[Len(h) + 1] = b
    BY <1>3, <2>7, Extended
  <2> HIDE DEF c
  <2>10. c[1] = r[1]
    BY <1>3, <2>2, <2>9 DEF b
  <2>11. b \in DOMAIN node /\ Len(h) < B[c[1]]
    BY <2>6, <2>8, <2>10
  <2> QED
    BY <2>11 DEF b, c
<1>6. AheadInOrder(X, next) /\ Rest(X, next) = Rest(X, ahead) \ {h}
  <2> DEFINE t == Tail(ahead)
  <2>1. /\ \A i \in bins : Append(Head(ahead), i) \in X
        /\ \A r \in X : Under(Head(ahead), r) /\ r # Head(ahead) => r[Len(Head(ahead)) + 1] \in bins
    BY <1>4, <1>5
  <2>2. next = Brood(Head(ahead), bins) \o Tail(ahead) /\ ahead # <<>>
    OBVIOUS
  <2>3. X \in SUBSET Paths /\ AheadInOrder(X, ahead) /\ bins \in SUBSET Nat /\ IsFiniteSet(bins)
    BY <1>1, <1>2, <1>4
  <2>4. AheadInOrder(X, next) /\ Rest(X, next) = Rest(X, ahead) \ {Head(ahead)}
    BY ONLY <2>1, <2>2, <2>3, HeadWritten
  <2> QED
    BY <2>4
<1>7. n + 1 = Cardinality(X \ Rest(X, next))
  <2>1. X \ Rest(X, next) = (X \ Rest(X, ahead)) \cup {h} /\ h \notin X \ Rest(X, ahead)
    BY <1>3, <1>6
  <2>2. IsFiniteSet(X \ Rest(X, ahead))
    BY <1>1, FS_Subset
  <2>3. Cardinality((X \ Rest(X, ahead)) \cup {h}) = Cardinality(X \ Rest(X, ahead)) + 1
    BY <2>1, <2>2, FS_AddElement
  <2> QED
    BY <1>2, <2>1, <2>3
<1>8. DOMAIN more = X \ Rest(X, next) /\ \A q \in DOMAIN more : more[q] = w[q]
  <2>1. DOMAIN more = DOMAIN ns \cup {h} /\ more[h] = node /\ \A q \in DOMAIN ns \ {h} : more[q] = ns[q]
    OBVIOUS
  <2> QED
    BY <1>2, <1>3, <1>6, <2>1
<1> QED
  BY <1>6, <1>7, <1>8 DEF Following, X

\* When nothing is ahead, every node was read.
LEMMA FollowedAll ==
  ASSUME NEW B, NEW w, Grown(B, w), NEW ns, Grown(B, ns), NEW n, Following(w, ns, <<>>, n)
  PROVE  ns = w /\ n = Cardinality(DOMAIN w)
<1>1. Rest(DOMAIN w, <<>>) = {}
  BY DEF Rest
<1>2. DOMAIN w \ {} = DOMAIN w
  OBVIOUS
<1>3. DOMAIN ns = DOMAIN w /\ n = Cardinality(DOMAIN w) /\ \A q \in DOMAIN w : ns[q] = w[q]
  BY <1>1, <1>2 DEF Following
<1>4. ns = [q \in DOMAIN ns |-> ns[q]] /\ w = [q \in DOMAIN w |-> w[q]]
  BY DEF Grown
<1> QED
  BY <1>3, <1>4

-----------------------------------------------------------------------------
(* The invariant of a reader.                                              *)

\* How deep the tries of the schema go, and the header of the file as it was sent.
LevelsBelow == ReaderOf(config).below
Sent == Header(config, Serialize(written))

PartOf(ns, w) == DOMAIN ns \subseteq DOMAIN w /\ \A q \in DOMAIN ns : ns[q] = w[q]

\* The file, and what it may be if it is not as it was written: only files of whole tries
\* are damaged, and once the header is read the damage is not in it.
FileInv ==
  /\ whole => file = Serialize(written) /\ head = Sent
  /\ ~ whole => AllThere(LevelsBelow, written)
  /\ ~ whole /\ root = "header" => \/ head = Sent /\ file \in Damaged(Serialize(written))
                                   \/ head \in DamagedHeaders(Sent)
  /\ ~ whole /\ root \notin {"header", "throws"} => head = Sent /\ file \in Damaged(Serialize(written))

\* What was read: in the file of a whole trie every node so far, unless the reader has gone
\* on inside a node (inside), or past the end of the file (the last case).
ReadingInv ==
  /\ root = "header" => expected = <<(<<>>)>> /\ readNodes = <<>> /\ place = 0 /\ ~ inside
  /\ root = "reading" => PartRead(LevelsBelow, readNodes, expected)
  /\ root = "node" => Grown(LevelsBelow, readNodes)
  /\ root = "reading" /\ inside /\ AllThere(LevelsBelow, written) => ~ whole /\ config \notin OneDim
  /\ root = "reading" /\ ~ inside /\ AllThere(LevelsBelow, written) =>
       \/ Following(written, readNodes, expected, place)
       \/ ~ whole /\ config \notin OneDim /\ place >= Len(file) /\ PartOf(readNodes, written)

DSInv ==
  /\ config \in Registered /\ place \in Nat
  /\ root \in {"header", "throws", "reading", "node", "null"}
  /\ Grown(LevelsBelow, written)
  /\ FileInv /\ ReadingInv
  /\ ReadBack /\ NothingMadeUp

\* A file is of a trie of nodes, as it was written or damaged.
LEMMA InitReads ==
  ASSUME TriesAssumption PROVE DSInit => DSInv
<1> SUFFICES ASSUME DSInit PROVE DSInv
  OBVIOUS
<1>1. /\ config \in Registered /\ root = "header" /\ place = 0 /\ inside = FALSE
      /\ expected = <<(<<>>)>> /\ readNodes = <<>>
  BY DEF DSInit
<1>2. PICK t \in Tries[config] : written = NodesOf(t)
  BY DEF DSInit
<1>3. Grown(LevelsBelow, written) /\ AllThere(LevelsBelow, written)
  BY <1>1, <1>2, TriesGrown DEF LevelsBelow
<1>4. \/ whole = TRUE /\ file = Serialize(written) /\ head = Sent
      \/ whole = FALSE /\ file \in Damaged(Serialize(written)) /\ head = Sent
      \/ whole = FALSE /\ file = Serialize(written) /\ head \in DamagedHeaders(Sent)
  BY DEF DSInit, Sent
<1>5. FileInv
  BY <1>1, <1>3, <1>4 DEF FileInv
<1>6. ReadingInv
  BY <1>1 DEF ReadingInv
<1>7. ReadBack /\ NothingMadeUp
  BY <1>1 DEF ReadBack, NothingMadeUp
<1> QED
  BY <1>1, <1>3, <1>5, <1>6, <1>7 DEF DSInv

\* Behind a header that was sent the reader is the schema's.
LEMMA ReaderKnown ==
  ASSUME DSInv, head = Sent
  PROVE  Reader = ReaderOf(config) /\ (Complete(written) => AllThere(LevelsBelow, written))
<1>1. config \in Registered
  BY DEF DSInv
<1>2. Sent.config = config
  BY <1>1, SentAccepted DEF Sent
<1>3. Reader = ReaderOf(config)
  BY <1>2 DEF Reader
<1>4. Complete(written) => AllThere(LevelsBelow, written)
  BY <1>3 DEF Complete, AllThere, BinsRead, LevelsBelow
<1> QED
  BY <1>3, <1>4

\* The header is read: no damaged one is taken, and every other one is.
LEMMA HeaderStep ==
  ASSUME TriesAssumption, DSInv, ReadHeader PROVE DSInv'
<1>1. /\ root = "header" /\ root' = (IF HeaderAccepted(head) THEN "reading" ELSE "throws")
      /\ config' = config /\ head' = head /\ written' = written /\ whole' = whole /\ file' = file
      /\ place' = place /\ inside' = inside /\ expected' = expected /\ readNodes' = readNodes
  BY DEF ReadHeader
<1>2. /\ config \in Registered /\ Grown(LevelsBelow, written) /\ FileInv /\ place \in Nat
      /\ expected = <<(<<>>)>> /\ readNodes = <<>> /\ place = 0 /\ ~ inside
  BY <1>1 DEF DSInv, ReadingInv
<1>3. LevelsBelow' = LevelsBelow /\ Sent' = Sent
  BY <1>1 DEF LevelsBelow, Sent
<1>4. HeaderAccepted(head) <=> head = Sent
  <2>1. DOMAIN written \in SUBSET Paths /\ IsFiniteSet(DOMAIN written)
    BY <1>2 DEF Grown
  <2>2. Len(Serialize(written)) \in Nat
    BY <2>1, SerializeIs
  <2>3. HeaderAccepted(Sent)
    BY <1>2, SentAccepted DEF Sent
  <2>4. \A d \in DamagedHeaders(Sent) : ~ HeaderAccepted(d)
    BY <1>2, <2>2, DamagedRefused DEF Sent
  <2>5. head = Sent \/ head \in DamagedHeaders(Sent)
    BY <1>1, <1>2 DEF FileInv
  <2> QED
    BY <2>3, <2>4, <2>5
<1>5. Grown(LevelsBelow, written)'
  BY <1>1, <1>2, <1>3 DEF Grown, Descends
<1>6. FileInv'
  <2>1. AllThere(LevelsBelow, written)' <=> AllThere(LevelsBelow, written)
    BY <1>1, <1>3
  <2>2. ~ whole /\ head = Sent => file \in Damaged(Serialize(written))
    <3>1. ~ whole => (head = Sent /\ file \in Damaged(Serialize(written))) \/ head \in DamagedHeaders(Sent)
      BY <1>1, <1>2 DEF FileInv
    <3>2. head \in DamagedHeaders(Sent) => head # Sent
      <4>1. DOMAIN written \in SUBSET Paths /\ IsFiniteSet(DOMAIN written)
        BY <1>2 DEF Grown
      <4>2. Len(Serialize(written)) \in Nat
        BY <4>1, SerializeIs
      <4>3. \A d \in DamagedHeaders(Sent) : ~ HeaderAccepted(d)
        BY <1>2, <4>2, DamagedRefused DEF Sent
      <4> QED
        BY <1>4, <4>3
    <3> QED
      BY <3>1, <3>2
  <2> QED
    BY <1>1, <1>2, <1>3, <1>4, <2>1, <2>2 DEF FileInv
<1>7. ReadingInv'
  <2>1. <<>> \in DOMAIN written /\ DOMAIN written \in SUBSET Paths
    BY <1>2 DEF Grown
  <2>2. PartRead(LevelsBelow, readNodes, expected) /\ Following(written, readNodes, expected, place)
    BY <1>2, <2>1, ReadingStarts
  <2>3. PartRead(LevelsBelow, readNodes, expected)' /\ Following(written, readNodes, expected, place)'
    BY <1>1, <1>3, <2>2
  <2> QED
    BY <1>1, <1>2, <2>3 DEF ReadingInv
<1>8. ReadBack' /\ NothingMadeUp'
  <2>1. whole => root' = "reading"
    BY <1>1, <1>2, <1>4 DEF FileInv
  <2> QED
    BY <1>1, <2>1 DEF ReadBack, NothingMadeUp
<1> QED
  BY <1>1, <1>2, <1>5, <1>6, <1>7, <1>8 DEF DSInv

\* A step that reads leaves the file alone.
LEMMA WhileReading ==
  ASSUME DSInv, root = "reading", UNCHANGED <<config, head, written, whole, file>>
  PROVE  /\ LevelsBelow' = LevelsBelow /\ head = Sent /\ (~ whole => file \in Damaged(Serialize(written)))
         /\ whole => file = Serialize(written)
         /\ Reader = ReaderOf(config) /\ (Complete(written)' => AllThere(LevelsBelow, written))
<1>1. FileInv
  BY DEF DSInv
<1>2. head = Sent /\ (~ whole => file \in Damaged(Serialize(written))) /\ (whole => file = Serialize(written))
  BY <1>1 DEF FileInv
<1>3. LevelsBelow' = LevelsBelow
  BY DEF LevelsBelow
<1>4. Reader = ReaderOf(config) /\ (Complete(written) => AllThere(LevelsBelow, written))
  BY <1>2, ReaderKnown
<1>5. Complete(written)' => Complete(written)
  BY DEF Complete, BinsRead, Reader
<1> QED
  BY <1>2, <1>3, <1>4, <1>5

\* A step of reading that leaves the file alone keeps what is known of it.
LEMMA FileKept ==
  ASSUME DSInv, root = "reading", UNCHANGED <<config, head, written, whole, file>>,
         place' \in Nat, root' \in {"reading", "node", "null"}, ReadingInv', ReadBack', NothingMadeUp'
  PROVE  DSInv'
<1>1. FileInv /\ Grown(LevelsBelow, written) /\ config \in Registered
  BY DEF DSInv
<1>2. head = Sent /\ (~ whole => file \in Damaged(Serialize(written))) /\ (whole => file = Serialize(written))
  BY WhileReading
<1>3. LevelsBelow' = LevelsBelow /\ Sent' = Sent
  BY DEF LevelsBelow, Sent
<1>4. Grown(LevelsBelow, written)' /\ AllThere(LevelsBelow, written)' = AllThere(LevelsBelow, written)
  BY <1>1, <1>3
<1>5. FileInv'
  BY <1>1, <1>2, <1>3, <1>4 DEF FileInv
<1> QED
  BY <1>1, <1>4, <1>5 DEF DSInv

\* Reading a node.
LEMMA GotNode ==
  ASSUME DSInv, Reading, UNCHANGED <<config, head, written, whole, file>>, NEW node, IsMask(node), Got(node)
  PROVE  /\ root' = "reading" /\ PartRead(LevelsBelow, readNodes, expected)'
         /\ AllThere(LevelsBelow, written) /\ Following(written, readNodes, expected, place)
              /\ node = written[Head(expected)] =>
              \A n : n = place + 1 => Following(written, readNodes', expected', n)
<1> DEFINE h == Head(expected)
           B == LevelsBelow
           bins == BinsBelow(B, h, node)
           more == With(readNodes, h, node)
           next == Brood(h, bins) \o Tail(expected)
<1>1. root = "reading" /\ expected # <<>>
  BY DEF Reading
<1>2. LevelsBelow' = LevelsBelow /\ Reader = ReaderOf(config)
  BY <1>1, WhileReading
<1>3. readNodes' = more /\ expected' = next /\ root' = root
  BY <1>2 DEF Got, ChildrenRead, BinsRead, LevelsBelow, BinsBelow, With
<1>4. PartRead(B, readNodes, expected) /\ Grown(B, written)
  BY <1>1 DEF DSInv, ReadingInv
<1>5. h = Head(expected)
  OBVIOUS
<1>6. bins = BinsBelow(B, h, node)
  OBVIOUS
<1>7. more = With(readNodes, h, node)
  OBVIOUS
<1>8. next = Brood(h, bins) \o Tail(expected)
  OBVIOUS
<1>9. IsMask(node)
  OBVIOUS
<1> HIDE DEF h, B, bins, more, next
<1>10. PartRead(B, more, next)
  BY ONLY <1>1, <1>4, <1>5, <1>6, <1>7, <1>8, <1>9, ReadsOn
<1>11. AllThere(B, written) /\ Following(written, readNodes, expected, place) /\ node = written[h] =>
        Following(written, more, next, place + 1)
  BY ONLY <1>1, <1>4, <1>5, <1>6, <1>7, <1>8, FollowsOn
<1> QED
  BY <1>1, <1>2, <1>3, <1>10, <1>11 DEF B, h

\* Failing to.
LEMMA FailedNode ==
  ASSUME TriesAssumption, DSInv, Reading, UNCHANGED <<config, head, written, whole, file>>, Failed
  PROVE  /\ readNodes' = readNodes
         /\ \/ root' = "null"
            \/ root' = "reading" /\ config \notin OneDim /\ PartRead(LevelsBelow, readNodes, expected)'
<1>1. root = "reading" /\ expected # <<>> /\ config \in Registered /\ PartRead(LevelsBelow, readNodes, expected)
  BY DEF Reading, DSInv, ReadingInv
<1>2. LevelsBelow' = LevelsBelow /\ Reader = ReaderOf(config)
  BY <1>1, WhileReading
<1>3. readNodes' = readNodes
  BY DEF Failed
<1>4. \/ root' = "null"
      \/ /\ Head(expected) # <<>> /\ Reader.child # "null"
         /\ root' = root /\ expected' = Tail(expected)
  BY DEF Failed
<1>5. Reader.child = IF config \in OneDim THEN "null" ELSE "skip"
  BY <1>1, <1>2, ReaderIs
<1>6. CASE Head(expected) # <<>> /\ Reader.child # "null" /\ root' = root /\ expected' = Tail(expected)
  <2>1. PartRead(LevelsBelow, readNodes, expected')
    BY <1>1, <1>6, ReadsPast
  <2> QED
    BY <1>1, <1>2, <1>3, <1>5, <1>6, <2>1
<1> QED
  BY <1>3, <1>4, <1>6

\* What lies at the reader's place, as long as it has lost no node: the node ahead, unless
\* the file was damaged there.
LEMMA PlaceIs ==
  ASSUME DSInv, Reading, Following(written, readNodes, expected, place), NEW n, n = place + 1
  PROVE  /\ IsNode(n) => file[n] = written[Head(expected)]
         /\ ~ IsNode(n) => ~ whole /\ (place >= Len(file) \/ file[n] = Piece)
<1> DEFINE h == Head(expected)
           N == Cardinality(DOMAIN written)
           w == Serialize(written)
<1>1. root = "reading" /\ expected # <<>> /\ Grown(LevelsBelow, written)
  BY DEF Reading, DSInv
<1>2. place \in Nat /\ n \in 1 .. N /\ h \in DOMAIN written /\ w[n] = written[h]
  BY <1>1, NodeAt
<1>3. /\ DOMAIN written \in SUBSET Paths /\ IsFiniteSet(DOMAIN written) /\ <<>> \in DOMAIN written
      /\ \A q \in DOMAIN written : written[q] \notin {EOF, Piece}
  BY <1>1 DEF Grown, IsMask
<1>4. N \in Nat /\ DOMAIN w = 1 .. N + 1
  BY <1>3, SerializeIs
<1>5. (~ whole => file \in Damaged(w)) /\ (whole => file = w)
  BY <1>1 DEF DSInv, FileInv
<1>6. written[h] \notin {EOF, Piece}
  BY <1>2, <1>3
<1> HIDE DEF h, N, w
<1>7. CASE whole
  <2>1. n \in DOMAIN w
    BY <1>2, <1>4
  <2> QED
    BY <1>2, <1>5, <1>6, <1>7, <2>1 DEF IsNode, h
<1>8. CASE ~ whole
  <2>1. /\ Len(file) \in Nat /\ DOMAIN file = 1 .. Len(file)
        /\ \A k \in 1 .. N : k \in DOMAIN file => file[k] \in {w[k], Piece}
    BY <1>3, <1>5, <1>8, DamagedIs DEF N, w
  <2>2. n \in DOMAIN file => file[n] \in {written[h], Piece}
    BY <1>2, <2>1
  <2>3. n \notin DOMAIN file => place >= Len(file)
    BY <1>2, <2>1
  <2> QED
    BY <1>6, <1>8, <2>2, <2>3 DEF IsNode, h
<1> QED
  BY <1>7, <1>8

\* A node is read, or cannot be.
LEMMA ChildStep ==
  ASSUME TriesAssumption, DSInv, ReadChild PROVE DSInv'
<1> DEFINE n == place + 1
<1>1. /\ Reading /\ root = "reading" /\ ~ inside /\ place \in Nat /\ config \in Registered
      /\ UNCHANGED <<config, head, written, whole, file>>
  BY DEF ReadChild, Reading, DSInv
<1>2. AllThere(LevelsBelow, written) =>
        \/ Following(written, readNodes, expected, place)
        \/ ~ whole /\ config \notin OneDim /\ place >= Len(file) /\ PartOf(readNodes, written)
  BY <1>1 DEF DSInv, ReadingInv
<1>3. /\ LevelsBelow' = LevelsBelow /\ (~ whole => file \in Damaged(Serialize(written)))
      /\ (whole => file = Serialize(written))
      /\ (Complete(written)' => AllThere(LevelsBelow, written))
  BY <1>1, WhileReading
<1>4. /\ DOMAIN written \in SUBSET Paths /\ IsFiniteSet(DOMAIN written) /\ DOMAIN written # {}
  BY DEF DSInv, Grown
<1>5. Len(file) \in Nat /\ DOMAIN file = 1 .. Len(file)
  <2>1. CASE whole
    BY <1>3, <1>4, <2>1, SerializeIs
  <2>2. CASE ~ whole
    BY <1>3, <1>4, <2>2, DamagedIs
  <2> QED
    BY <2>1, <2>2
<1>6. AllThere(LevelsBelow, written)' = AllThere(LevelsBelow, written) /\ config' = config /\ whole' = whole /\ file' = file
      /\ written' = written
  BY <1>1, <1>3
<1>7. CASE IsNode(n) /\ Got(file[n]) /\ place' = n /\ inside' = inside
  <2> DEFINE node == file[n]
             N == Cardinality(DOMAIN written)
  <2> HIDE DEF n
  <2>0. Got(node) /\ IsNode(n)
    BY <1>7
  <2>1. IsMask(node)
    <3>1. \A q \in DOMAIN written : IsMask(written[q])
      BY DEF DSInv, Grown
    <3>2. CASE whole
      <4> DEFINE w == Serialize(written)
      <4>1. /\ N \in Nat /\ DOMAIN w = 1 .. N + 1 /\ w[N + 1] = EOF
            /\ \A k \in 1 .. N : w[k] = InFile(written)[k]
            /\ \A q \in DOMAIN written : InFile(written)[Rank(DOMAIN written, q) + 1] = written[q]
            /\ \A k \in 1 .. N : \E q \in DOMAIN written : Rank(DOMAIN written, q) + 1 = k
        BY <1>4, SerializeIs
      <4>0. file = w
        BY <1>3, <3>2
      <4> HIDE DEF N, w
      <4>2. n \in 1 .. N
        BY <2>0, <4>0, <4>1 DEF IsNode
      <4>3. \E q \in DOMAIN written : node = written[q]
        BY <4>0, <4>1, <4>2
      <4> QED
        BY <3>1, <4>3
    <3>3. CASE ~ whole
      <4>1. AllThere(LevelsBelow, written)
        BY <3>3 DEF DSInv, FileInv
      <4>2. ~ (place >= Len(file))
        BY <1>1, <1>5, <2>0 DEF IsNode, n
      <4>3. Following(written, readNodes, expected, place)
        BY <1>2, <4>1, <4>2
      <4>4. node = written[Head(expected)]
        BY <1>1, <2>0, <4>3, PlaceIs DEF n
      <4>5. Head(expected) \in DOMAIN written
        BY <1>1, <4>3, NodeAt DEF DSInv, Reading
      <4> QED
        BY <3>1, <4>4, <4>5
    <3> QED
      BY <3>2, <3>3
  <2> HIDE DEF node
  <2>2. /\ root' = "reading" /\ PartRead(LevelsBelow, readNodes, expected)'
        /\ AllThere(LevelsBelow, written) /\ Following(written, readNodes, expected, place)
             /\ node = written[Head(expected)] =>
             \A m : m = place + 1 => Following(written, readNodes', expected', m)
    BY <1>1, <2>0, <2>1, GotNode
  <2>3. AllThere(LevelsBelow, written) => Following(written, readNodes', expected', n)
    <3>1. Following(written, readNodes, expected, place) => node = written[Head(expected)]
      BY <1>1, <2>0, PlaceIs DEF node, n
    <3>2. ~ (place >= Len(file))
      BY <1>1, <1>5, <2>0 DEF IsNode, n
    <3> QED
      BY <1>2, <2>2, <3>1, <3>2 DEF n
  <2>4. ReadingInv'
    <3>1. AllThere(LevelsBelow, written)' => Following(written, readNodes, expected, place)'
      BY <1>6, <1>7, <2>3
    <3>2. ~ inside'
      BY <1>1, <1>7
    <3> QED
      BY <2>2, <3>1, <3>2 DEF ReadingInv
  <2>5. ReadBack' /\ NothingMadeUp'
    BY <2>2 DEF ReadBack, NothingMadeUp
  <2>6. place' \in Nat
    BY <1>1, <1>7 DEF n
  <2> QED
    BY <1>1, <2>2, <2>4, <2>5, <2>6, FileKept
<1>8. CASE ~ IsNode(n) /\ Failed /\ place' = place /\ inside' = (place < Len(file) /\ file[n] = Piece)
  <2>1. /\ readNodes' = readNodes
        /\ \/ root' = "null"
           \/ root' = "reading" /\ config \notin OneDim /\ PartRead(LevelsBelow, readNodes, expected)'
    BY <1>1, <1>8, FailedNode
  <2>2. inside' <=> place < Len(file) /\ file[n] = Piece
    BY <1>8, Zenon
  <2>3. AllThere(LevelsBelow, written) =>
          /\ ~ whole /\ (place >= Len(file) \/ file[n] = Piece)
          /\ PartOf(readNodes, written)
    <3>1. Following(written, readNodes, expected, place) => ~ whole /\ (place >= Len(file) \/ file[n] = Piece)
      BY <1>1, <1>8, PlaceIs
    <3>2. Following(written, readNodes, expected, place) => PartOf(readNodes, written)
      BY DEF Following, PartOf
    <3> QED
      BY <1>2, <3>1, <3>2
  <2>4. ReadingInv'
    <3>1. CASE root' = "null"
      BY <3>1 DEF ReadingInv
    <3>2. CASE root' = "reading" /\ config \notin OneDim /\ PartRead(LevelsBelow, readNodes, expected)'
      <4>1. AllThere(LevelsBelow, written)' => ~ whole' /\ config' \notin OneDim
        BY <1>6, <2>3, <3>2
      <4>2. AllThere(LevelsBelow, written)' /\ ~ inside' => place' >= Len(file')
        BY <1>1, <1>5, <1>6, <1>8, <2>2, <2>3
      <4>3. AllThere(LevelsBelow, written)' => PartOf(readNodes, written)'
        BY <1>6, <2>1, <2>3
      <4> QED
        BY <3>2, <4>1, <4>2, <4>3 DEF ReadingInv
    <3> QED
      BY <2>1, <3>1, <3>2
  <2>5. ReadBack' /\ NothingMadeUp'
    <3>1. whole' => ~ Complete(written)'
      BY <1>3, <1>6, <2>3
    <3>2. root' \notin {"node", "throws"}
      BY <2>1
    <3> QED
      BY <3>1, <3>2 DEF ReadBack, NothingMadeUp
  <2> QED
    BY <1>1, <1>8, <2>1, <2>4, <2>5, FileKept
<1> QED
  BY <1>1, <1>7, <1>8 DEF ReadChild

\* Inside a node the reader may take what is left for nodes; it is not back in the file.
LEMMA StrayStep ==
  ASSUME TriesAssumption, DSInv, ReadStray PROVE DSInv'
<1>1. /\ Reading /\ root = "reading" /\ inside /\ place \in Nat /\ config \in Registered
      /\ UNCHANGED <<config, head, written, whole, file, place, inside>>
  BY DEF ReadStray, Reading, DSInv
<1>2. Failed \/ \E i \in 0 .. 1 : Got([j \in {i} |-> 1])
  BY DEF ReadStray
<1>3. /\ LevelsBelow' = LevelsBelow /\ (Complete(written)' => AllThere(LevelsBelow, written))
  BY <1>1, WhileReading
<1>4. AllThere(LevelsBelow, written) => ~ whole /\ config \notin OneDim
  BY <1>1 DEF DSInv, ReadingInv
<1>5. root' = "null" \/ (root' = "reading" /\ PartRead(LevelsBelow, readNodes, expected)')
  <2>1. CASE Failed
    BY <1>1, <2>1, FailedNode
  <2>2. CASE \E i \in 0 .. 1 : Got([j \in {i} |-> 1])
    <3>1. PICK i \in 0 .. 1 : Got([j \in {i} |-> 1])
      BY <2>2
    <3> DEFINE node == [j \in {i} |-> 1]
    <3>2. DOMAIN node = {i} /\ {i} \in SUBSET Nat
      OBVIOUS
    <3>5. IsFiniteSet({i})
      BY FS_Singleton
    <3>3. node \notin {EOF, Piece}
      BY DEF TriesAssumption
    <3>4. Got(node)
      BY <3>1
    <3> HIDE DEF node
    <3>6. IsMask(node)
      BY <3>2, <3>3, <3>5 DEF IsMask
    <3> QED
      BY <1>1, <3>4, <3>6, GotNode
  <2> QED
    BY <1>2, <2>1, <2>2
<1>6. AllThere(LevelsBelow, written)' => ~ whole' /\ config' \notin OneDim
  BY <1>1, <1>3, <1>4
<1>7. ReadingInv'
  BY <1>1, <1>5, <1>6 DEF ReadingInv
<1>8. ReadBack' /\ NothingMadeUp'
  <2>1. whole' => ~ Complete(written)'
    BY <1>1, <1>3, <1>4
  <2>2. root' # "node"
    BY <1>5
  <2> QED
    BY <2>1, <2>2 DEF ReadBack, NothingMadeUp
<1>9. place' \in Nat /\ root' \in {"reading", "node", "null"}
  BY <1>1, <1>5
<1> QED
  BY <1>1, <1>7, <1>8, <1>9, FileKept

\* At the end of the nodes, whatever the reader has is of the file, or it went on inside a
\* node, or it is of two dimensions.
LEMMA EndStep ==
  ASSUME TriesAssumption, DSInv, VerifyEnd PROVE DSInv'
<1>1. /\ root = "reading" /\ expected = <<>> /\ place \in Nat /\ config \in Registered
      /\ UNCHANGED <<config, head, written, whole, file, place, inside, readNodes>>
      /\ root' \in IF inside THEN {"node", Reader.noEnd} ELSE IF AtEnd THEN {"node"} ELSE {Reader.noEnd}
  BY DEF VerifyEnd, DSInv
<1>2. /\ LevelsBelow' = LevelsBelow /\ head = Sent /\ (whole => file = Serialize(written))
      /\ (~ whole => file \in Damaged(Serialize(written)))
      /\ Reader = ReaderOf(config) /\ (Complete(written)' => AllThere(LevelsBelow, written))
  BY <1>1, WhileReading
<1>3. Grown(LevelsBelow, written) /\ Grown(LevelsBelow, readNodes)
  <2>1. PartRead(LevelsBelow, readNodes, <<>>)
    BY <1>1 DEF DSInv, ReadingInv
  <2>2. Grown(LevelsBelow, readNodes)
    BY <2>1, ReadingEnds
  <2> QED
    BY <2>2 DEF DSInv
<1>4. Reader.noEnd = IF config \in TwoDim THEN "node" ELSE "null"
  BY <1>1, <1>2, ReaderIs
<1>5. root' \in {"node", "null"}
  BY <1>1, <1>4
<1>6. ~ whole => AllThere(LevelsBelow, written)
  BY <1>1 DEF DSInv, FileInv
<1>7. /\ inside /\ AllThere(LevelsBelow, written) => ~ whole /\ config \notin OneDim
      /\ ~ inside /\ AllThere(LevelsBelow, written) =>
           \/ Following(written, readNodes, <<>>, place)
           \/ ~ whole /\ config \notin OneDim /\ place >= Len(file) /\ PartOf(readNodes, written)
  BY <1>1 DEF DSInv, ReadingInv
<1>8. Following(written, readNodes, <<>>, place) => readNodes = written /\ place = Cardinality(DOMAIN written)
  BY <1>3, FollowedAll
<1>9. DOMAIN written \in SUBSET Paths /\ IsFiniteSet(DOMAIN written) /\ DOMAIN written # {}
  BY <1>3 DEF Grown
<1>10. Len(file) \in Nat /\ DOMAIN file = 1 .. Len(file)
  <2>1. CASE whole
    BY <1>2, <1>9, <2>1, SerializeIs
  <2>2. CASE ~ whole
    BY <1>2, <1>9, <2>2, DamagedIs
  <2> QED
    BY <2>1, <2>2
<1>11. whole /\ AllThere(LevelsBelow, written) => root' = "node" /\ readNodes = written
  <2> SUFFICES ASSUME whole, AllThere(LevelsBelow, written) PROVE root' = "node" /\ readNodes = written
    OBVIOUS
  <2> DEFINE N == Cardinality(DOMAIN written)
             w == Serialize(written)
  <2>1. ~ inside /\ readNodes = written /\ place = N
    BY <1>7, <1>8
  <2>2. N \in Nat /\ DOMAIN w = 1 .. N + 1 /\ w[N + 1] = EOF
    BY <1>9, SerializeIs
  <2>3. file = w
    BY <1>2
  <2> HIDE DEF N, w
  <2>4. AtEnd
    BY <2>1, <2>2, <2>3 DEF AtEnd
  <2> QED
    BY <1>1, <2>1, <2>4
<1>12. ReadBack'
  <2>1. whole' /\ Complete(written)' => root' = "node" /\ readNodes' = written'
    BY <1>1, <1>2, <1>11
  <2> QED
    BY <2>1 DEF ReadBack
<1>13. NothingMadeUp'
  <2> SUFFICES ASSUME root' = "node", ~ whole'
               PROVE  /\ head' = Header(config', Serialize(written'))
                      /\ \/ readNodes' = written'
                         \/ config' \notin OneDim /\ inside'
                         \/ config' \in TwoDim /\ PartOf(readNodes', written')
    BY DEF NothingMadeUp, PartOf
  <2>1. head' = Header(config', Serialize(written'))
    BY <1>1, <1>2 DEF Sent
  <2>2. \/ readNodes = written
        \/ config \notin OneDim /\ inside
        \/ config \in TwoDim /\ PartOf(readNodes, written)
    <3>1. CASE inside
      BY <1>1, <1>6, <1>7, <3>1
    <3>2. CASE ~ inside /\ Following(written, readNodes, <<>>, place)
      BY <1>8, <3>2
    <3>3. CASE ~ inside /\ place >= Len(file) /\ PartOf(readNodes, written)
      <4>1. ~ AtEnd
        BY <1>1, <1>10, <3>3 DEF AtEnd
      <4>2. root' = Reader.noEnd
        BY <1>1, <3>3, <4>1
      <4>3. config \in TwoDim
        BY <1>4, <4>2
      <4> QED
        BY <3>3, <4>3
    <3> QED
      BY <1>1, <1>6, <1>7, <3>1, <3>2, <3>3
  <2> QED
    BY <1>1, <2>1, <2>2
<1>14. ReadingInv'
  <2>1. Grown(LevelsBelow, readNodes)'
    BY <1>1, <1>2, <1>3
  <2> QED
    BY <1>5, <2>1 DEF ReadingInv
<1> QED
  BY <1>1, <1>5, <1>12, <1>13, <1>14, FileKept

\* What was read is written again.
LEMMA AgainStep ==
  ASSUME TriesAssumption, DSInv, WriteAgain PROVE DSInv'
<1>1. /\ root = "node" /\ written' = readNodes /\ whole' = TRUE /\ file' = Serialize(readNodes)
      /\ head' = Header(config, file') /\ place' = 0 /\ inside' = FALSE
      /\ expected' = <<(<<>>)>> /\ readNodes' = <<>> /\ root' = "header" /\ config' = config
  BY DEF WriteAgain
<1>2. config \in Registered /\ Grown(LevelsBelow, readNodes)
  BY <1>1 DEF DSInv, ReadingInv
<1>3. LevelsBelow' = LevelsBelow
  BY <1>1 DEF LevelsBelow
<1>4. Grown(LevelsBelow, written)'
  BY <1>1, <1>2, <1>3
<1>5. FileInv'
  BY <1>1 DEF FileInv, Sent
<1>6. ReadingInv'
  BY <1>1 DEF ReadingInv
<1>7. ReadBack' /\ NothingMadeUp'
  BY <1>1 DEF ReadBack, NothingMadeUp
<1> QED
  BY <1>1, <1>2, <1>4, <1>5, <1>6, <1>7 DEF DSInv

\* Every step of deserialization keeps the invariant.
LEMMA DSStep ==
  ASSUME TriesAssumption, DSInv, [DSNext]_DSvars PROVE DSInv'
<1>1. CASE ReadHeader
  BY <1>1, HeaderStep
<1>2. CASE ReadChild
  BY <1>2, ChildStep
<1>3. CASE ReadStray
  BY <1>3, StrayStep
<1>4. CASE VerifyEnd
  BY <1>4, EndStep
<1>5. CASE WriteAgain
  BY <1>5, AgainStep
<1>6. CASE UNCHANGED DSvars
  <2>1. UNCHANGED <<config, head, written, whole, file, place, inside, expected, readNodes, root>>
    BY <1>6 DEF DSvars
  <2>2. LevelsBelow' = LevelsBelow /\ Sent' = Sent
    BY <2>1 DEF LevelsBelow, Sent
  <2>3. Reader' = Reader
    BY <2>1 DEF Reader
  <2>4. FileInv' /\ ReadingInv' /\ Grown(LevelsBelow, written)'
    BY <2>1, <2>2 DEF DSInv, FileInv, ReadingInv
  <2>5. Complete(written)' = Complete(written)
    BY <2>1, <2>3 DEF Complete, BinsRead
  <2>6. ReadBack' /\ NothingMadeUp'
    BY <2>1, <2>5 DEF DSInv, ReadBack, NothingMadeUp
  <2> QED
    BY <2>1, <2>4, <2>6 DEF DSInv
<1> QED
  BY <1>1, <1>2, <1>3, <1>4, <1>5, <1>6 DEF DSNext

\* What the serializer of any of the nine schemas writes, its deserializer reads back node
\* for node, again and again, whatever the trie (airtree-core/src/serdes).
THEOREM ReaderReadsBack == ASSUME TriesAssumption PROVE DSSpec => []ReadBack
<1>1. DSInit => DSInv
  BY InitReads
<1>2. DSInv /\ [DSNext]_DSvars => DSInv'
  BY DSStep
<1>3. DSInv => ReadBack
  BY DEF DSInv
<1> QED
  BY <1>1, <1>2, <1>3, PTL DEF DSSpec

\* And from a damaged file none of them makes up a trie: the header's damage is seen, and of
\* a damaged trie what is returned is the one written, or of two dimensions and a part of it,
\* unless the reader went on inside a node.
THEOREM ReaderMakesNothingUp == ASSUME TriesAssumption PROVE DSSpec => []NothingMadeUp
<1>1. DSInit => DSInv
  BY InitReads
<1>2. DSInv /\ [DSNext]_DSvars => DSInv'
  BY DSStep
<1>3. DSInv => NothingMadeUp
  BY DEF DSInv
<1> QED
  BY <1>1, <1>2, <1>3, PTL DEF DSSpec

=============================================================================
