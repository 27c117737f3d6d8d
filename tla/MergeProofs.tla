----------------------------- MODULE MergeProofs -----------------------------
(***************************************************************************)
(* Proofs about MergeAirTrees, for any inputs.  Both merges walk a union   *)
(* (TrieProofs' Tour): StreamInv and FoldInv say how the calls and loops   *)
(* in progress, the scratch and the cursors stand to the place of that     *)
(* walk.  From these follow what is written at every moment, that the      *)
(* header agrees with the root, and that a merge implements HistogramSum.  *)
(***************************************************************************)
EXTENDS MergeAirTrees, TrieProofs

\* The operators of StreamMerge's instance of TrieWire are TrieWire's: its Depth is
\* another, and they do not depend on it.
LEMMA StreamTerms ==
  /\ \A t : /\ Stream!Wire(t) = Wire(t) /\ Stream!Encode(t) = Encode(t)
            /\ Stream!Torn(t) = Torn(t) /\ Stream!Overlong(t) = Overlong(t)
            /\ Stream!Union(t) = Union(t) /\ Stream!Observed(t) = Observed(t)
            /\ Stream!SumTokens(t) = SumTokens(t) /\ Stream!SumFunction(t) = SumFunction(t)
            /\ Stream!Cardinality(t) = Cardinality(t) /\ Stream!Min(t) = Min(t)
            /\ Stream!Front(t) = Front(t) /\ Stream!Last(t) = Last(t)
  /\ \A t, u : Stream!IsPrefix(t, u) = IsPrefix(t, u)
  /\ Stream!MaxDepth = MaxDepth
<1>1. \A f, S : Stream!SumFunctionOnSet(f, S) = SumFunctionOnSet(f, S)
  BY DEF Stream!SumFunctionOnSet, SumFunctionOnSet, Stream!FoldFunctionOnSet, FoldFunctionOnSet,
         Stream!MapThenFoldSet, MapThenFoldSet
<1>2. \A f : Stream!SumFunction(f) = SumFunction(f)
  BY <1>1 DEF Stream!SumFunction, SumFunction
<1>3. \A t, u : Stream!IsStrictPrefix(t, u) = IsStrictPrefix(t, u)
  BY DEF Stream!IsStrictPrefix, IsStrictPrefix, Stream!IsPrefix, IsPrefix
<1>4. \A t, q : Stream!Below(t, q) = Below(t, q)
  BY <1>3 DEF Stream!Below, Below
<1>5. \A t, q : Stream!Token(t, q) = Token(t, q)
  BY <1>1, <1>4 DEF Stream!Token, Token, Stream!BinAfter, BinAfter
<1>6. \A t, q : Stream!Before(t, q) = Before(t, q)
  BY <1>3 DEF Stream!Before, Before, Stream!Min, Min
<1>7. \A t : Stream!Nodes(t) = Nodes(t)
  BY DEF Stream!Nodes, Nodes
<1>8. \A t : Stream!Encode(t) = Encode(t)
  <2> SUFFICES ASSUME NEW t PROVE Stream!Encode(t) = Encode(t)
    OBVIOUS
  <2> DEFINE X == Nodes(t)
             theirs == [q \in X |-> Cardinality({r \in X : Stream!Before(r, q)})]
             ours   == [q \in X |-> Cardinality({r \in X : Before(r, q)})]
  <2>1. Stream!Encode(t) = [k \in 1 .. Cardinality(X) |-> Stream!Token(t, CHOOSE q \in X : theirs[q] = k - 1)]
    BY DEF Stream!Encode, Stream!Nodes, Nodes, Stream!Cardinality, Cardinality, Stream!IsFiniteSet, IsFiniteSet
  <2>2. Encode(t) = [k \in 1 .. Cardinality(X) |-> Token(t, CHOOSE q \in X : ours[q] = k - 1)]
    BY DEF Encode
  <2>3. theirs = ours
    BY <1>6
  <2> HIDE DEF theirs, ours, X
  <2>4. \A k : Stream!Token(t, CHOOSE q \in X : theirs[q] = k - 1) = Token(t, CHOOSE q \in X : ours[q] = k - 1)
    BY <1>5, <2>3
  <2> QED
    BY <2>1, <2>2, <2>4
<1>9. \A t : Stream!Wire(t) = Wire(t)
  BY <1>8 DEF Stream!Wire, Wire
<1>10. \A t : Stream!Union(t) = Union(t)
  BY <1>2 DEF Stream!Union, Union
<1>11. \A t : Stream!SumTokens(t) = SumTokens(t)
  BY <1>2 DEF Stream!SumTokens, SumTokens
<1>12. \A t : Stream!Observed(t) = Observed(t)
  BY <1>2 DEF Stream!Observed, Observed
<1>13. \A t : Stream!Torn(t) = Torn(t)
  BY DEF Stream!Torn, Torn
<1>14. \A t : Stream!Overlong(t) = Overlong(t)
  BY DEF Stream!Overlong, Overlong, Stream!Front, Front
<1>15. Stream!MaxDepth = MaxDepth
  BY DEF Stream!MaxDepth, MaxDepth
<1>16. \A t : Stream!Cardinality(t) = Cardinality(t)
  BY DEF Stream!Cardinality, Cardinality, Stream!IsFiniteSet, IsFiniteSet
<1>17. \A t : Stream!Min(t) = Min(t) /\ Stream!Front(t) = Front(t) /\ Stream!Last(t) = Last(t)
  BY DEF Stream!Min, Min, Stream!Front, Front, Stream!Last, Last
<1>18. \A t, u : Stream!IsPrefix(t, u) = IsPrefix(t, u)
  BY DEF Stream!IsPrefix, IsPrefix
<1> QED
  BY <1>2, <1>8, <1>9, <1>10, <1>11, <1>12, <1>13, <1>14, <1>15, <1>16, <1>17, <1>18

\* The same for PairwiseMerge's.
LEMMA FoldTerms ==
  /\ \A t : /\ Pairwise!Wire(t) = Wire(t) /\ Pairwise!Encode(t) = Encode(t)
            /\ Pairwise!Torn(t) = Torn(t) /\ Pairwise!Overlong(t) = Overlong(t)
            /\ Pairwise!Union(t) = Union(t) /\ Pairwise!Observed(t) = Observed(t)
            /\ Pairwise!SumTokens(t) = SumTokens(t) /\ Pairwise!SumFunction(t) = SumFunction(t)
            /\ Pairwise!Cardinality(t) = Cardinality(t) /\ Pairwise!Min(t) = Min(t)
            /\ Pairwise!Front(t) = Front(t) /\ Pairwise!Last(t) = Last(t)
  /\ \A t, u : Pairwise!IsPrefix(t, u) = IsPrefix(t, u)
  /\ Pairwise!MaxDepth = MaxDepth
<1>1. \A f, S : Pairwise!SumFunctionOnSet(f, S) = SumFunctionOnSet(f, S)
  BY DEF Pairwise!SumFunctionOnSet, SumFunctionOnSet, Pairwise!FoldFunctionOnSet, FoldFunctionOnSet,
         Pairwise!MapThenFoldSet, MapThenFoldSet
<1>2. \A f : Pairwise!SumFunction(f) = SumFunction(f)
  BY <1>1 DEF Pairwise!SumFunction, SumFunction
<1>3. \A t, u : Pairwise!IsStrictPrefix(t, u) = IsStrictPrefix(t, u)
  BY DEF Pairwise!IsStrictPrefix, IsStrictPrefix, Pairwise!IsPrefix, IsPrefix
<1>4. \A t, q : Pairwise!Below(t, q) = Below(t, q)
  BY <1>3 DEF Pairwise!Below, Below
<1>5. \A t, q : Pairwise!Token(t, q) = Token(t, q)
  BY <1>1, <1>4 DEF Pairwise!Token, Token, Pairwise!BinAfter, BinAfter
<1>6. \A t, q : Pairwise!Before(t, q) = Before(t, q)
  BY <1>3 DEF Pairwise!Before, Before, Pairwise!Min, Min
<1>7. \A t : Pairwise!Nodes(t) = Nodes(t)
  BY DEF Pairwise!Nodes, Nodes
<1>8. \A t : Pairwise!Encode(t) = Encode(t)
  <2> SUFFICES ASSUME NEW t PROVE Pairwise!Encode(t) = Encode(t)
    OBVIOUS
  <2> DEFINE X == Nodes(t)
             theirs == [q \in X |-> Cardinality({r \in X : Pairwise!Before(r, q)})]
             ours   == [q \in X |-> Cardinality({r \in X : Before(r, q)})]
  <2>1. Pairwise!Encode(t) = [k \in 1 .. Cardinality(X) |-> Pairwise!Token(t, CHOOSE q \in X : theirs[q] = k - 1)]
    BY DEF Pairwise!Encode, Pairwise!Nodes, Nodes, Pairwise!Cardinality, Cardinality, Pairwise!IsFiniteSet, IsFiniteSet
  <2>2. Encode(t) = [k \in 1 .. Cardinality(X) |-> Token(t, CHOOSE q \in X : ours[q] = k - 1)]
    BY DEF Encode
  <2>3. theirs = ours
    BY <1>6
  <2> HIDE DEF theirs, ours, X
  <2>4. \A k : Pairwise!Token(t, CHOOSE q \in X : theirs[q] = k - 1) = Token(t, CHOOSE q \in X : ours[q] = k - 1)
    BY <1>5, <2>3
  <2> QED
    BY <2>1, <2>2, <2>4
<1>9. \A t : Pairwise!Wire(t) = Wire(t)
  BY <1>8 DEF Pairwise!Wire, Wire
<1>10. \A t : Pairwise!Union(t) = Union(t)
  BY <1>2 DEF Pairwise!Union, Union
<1>11. \A t : Pairwise!SumTokens(t) = SumTokens(t)
  BY <1>2 DEF Pairwise!SumTokens, SumTokens
<1>12. \A t : Pairwise!Observed(t) = Observed(t)
  BY <1>2 DEF Pairwise!Observed, Observed
<1>13. \A t : Pairwise!Torn(t) = Torn(t)
  BY DEF Pairwise!Torn, Torn
<1>14. \A t : Pairwise!Overlong(t) = Overlong(t)
  BY DEF Pairwise!Overlong, Overlong, Pairwise!Front, Front
<1>15. Pairwise!MaxDepth = MaxDepth
  BY DEF Pairwise!MaxDepth, MaxDepth
<1>16. \A t : Pairwise!Cardinality(t) = Cardinality(t)
  BY DEF Pairwise!Cardinality, Cardinality, Pairwise!IsFiniteSet, IsFiniteSet
<1>17. \A t : Pairwise!Min(t) = Min(t) /\ Pairwise!Front(t) = Front(t) /\ Pairwise!Last(t) = Last(t)
  BY DEF Pairwise!Min, Min, Pairwise!Front, Front, Pairwise!Last, Last
<1>18. \A t, u : Pairwise!IsPrefix(t, u) = IsPrefix(t, u)
  BY DEF Pairwise!IsPrefix, IsPrefix
<1> QED
  BY <1>2, <1>8, <1>9, <1>10, <1>11, <1>12, <1>13, <1>14, <1>15, <1>16, <1>17, <1>18

\* One bin per level, whatever the root bin.
AllLevels == [i \in Nat |-> MaxDepth]

\* The histograms that are streamed are tries of a 1D schema.
LEMMA StreamLevelled ==
  ASSUME NEW t \in StreamTries
  PROVE  Levelled(t, AllLevels)
<1>1. DOMAIN t \subseteq Stream!Leaves /\ IsFiniteSet(DOMAIN t) /\ \A p \in DOMAIN t : t[p] \in Nat
  BY TriesAssumption
<1>2. ASSUME NEW p \in DOMAIN t
      PROVE  /\ p \in Paths \ {<<>>} /\ Len(p) = AllLevels[p[1]] /\ Len(p) <= MaxDepth
             /\ \A d \in 1 .. Len(p) : p[d] \in NodeBins(d)
  <2>1. PICK d \in 1 .. MaxDepth : p \in [1 .. d -> 0 .. Max({Bins[e] : e \in 1 .. d}) - 1]
    BY <1>1 DEF Stream!Leaves, Stream!MaxDepth, MaxDepth, Stream!Max, Max
  <2>2. (\A e \in 1 .. Len(p) : p[e] \in NodeBins(e)) /\ Len(p) = StreamDepth[p[1]]
    BY <1>1 DEF Stream!Leaves, Stream!NodeBins, NodeBins
  <2>3. p \in Paths \ {<<>>} /\ Len(p) = d /\ p[1] \in NodeBins(1) /\ p[1] \in Nat
    BY <2>1, <2>2, LeafIs
  <2>4. Len(p) = MaxDepth
    BY <2>2, <2>3, LevelsAssumption
  <2>5. MaxDepth \in Nat
    BY BinsAssumption DEF MaxDepth
  <2> QED
    BY <2>2, <2>3, <2>4, <2>5 DEF AllLevels
<1> QED
  BY <1>1, <1>2 DEF Levelled, IsTrie

\* Those that are folded are tries of the other's.
LEMMA FoldLevelled ==
  ASSUME NEW t \in FoldTries
  PROVE  Levelled(t, Depth)
<1>1. DOMAIN t \subseteq Leaves /\ IsFiniteSet(DOMAIN t) /\ \A p \in DOMAIN t : t[p] \in Nat
  BY TriesAssumption
<1>2. ASSUME NEW p \in DOMAIN t
      PROVE  /\ p \in Paths \ {<<>>} /\ Len(p) = Depth[p[1]] /\ Len(p) <= MaxDepth
             /\ \A d \in 1 .. Len(p) : p[d] \in NodeBins(d)
  <2>1. PICK d \in 1 .. MaxDepth : p \in [1 .. d -> 0 .. Max({Bins[e] : e \in 1 .. d}) - 1]
    BY <1>1 DEF Leaves
  <2>2. (\A e \in 1 .. Len(p) : p[e] \in NodeBins(e)) /\ Len(p) = Depth[p[1]]
    BY <1>1 DEF Leaves
  <2>3. p \in Paths \ {<<>>} /\ Len(p) = d
    BY <2>1, <2>2, LeafIs
  <2> QED
    BY <2>1, <2>2, <2>3
<1> QED
  BY <1>1, <1>2 DEF Levelled, IsTrie

\* The bins left to visit, call by call or loop by loop.
Todos(calls) == [l \in 1 .. Len(calls) |-> calls[l].todo]

\* They are sets of bins.
LEMMA TodosAre ==
  ASSUME NEW R, NEW st \in Seq(R), \A c \in R : c.todo \in SUBSET Nat
  PROVE  /\ Len(st) \in Nat /\ Todos(st) \in Seq(SUBSET Nat) /\ Len(Todos(st)) = Len(st)
         /\ \A l \in 1 .. Len(st) : Todos(st)[l] = st[l].todo
<1>1. Len(st) \in Nat /\ \A l \in 1 .. Len(st) : st[l] \in R
  BY LenProperties, ElementOfSeq
<1>2. Todos(st) \in [1 .. Len(st) -> SUBSET Nat]
  BY <1>1 DEF Todos
<1> QED
  BY <1>1, <1>2, SeqDef DEF Todos

-----------------------------------------------------------------------------
\* What a streaming merge is given: files that are whole, cut or one node too long.
StreamInputs ==
  /\ Len(files) \in Nat \ {0} /\ DOMAIN tries = 1 .. Len(files)
  /\ \A k \in 1 .. Len(files) :
       /\ tries[k] \in StreamTries
       /\ files[k] = Wire(tries[k]) \/ files[k] \in Torn(Wire(tries[k])) \/ files[k] = Overlong(Wire(tries[k]))

\* No file is damaged.
StreamWhole == \A k \in 1 .. Len(files) : files[k] = Wire(tries[k])

\* All were written with one configuration.
SameConfigs == \A k \in 1 .. Len(files) : configs[k] = configs[1]

\* The calls in progress.
Calls == Seq([have : SUBSET (1 .. Len(files)), todo : SUBSET Nat])

\* The call at depth l is about the first l - 1 bins of the path at hand: it is made for
\* the inputs that have that node, and where they are several the scratch of level l,
\* up to the level last read, holds their masks of it.
StreamFrames(at, read) ==
  \A l \in 1 .. Len(stack) :
    /\ stack[l].have = Sharing(tries, SubSeq(at, 1, l - 1))
    /\ l <= read /\ Cardinality(stack[l].have) > 1 =>
         \A k \in stack[l].have : masks[l][k] = DOMAIN Token(tries[k], SubSeq(at, 1, l - 1))

\* A call that has yet to read its node; a call in its loop.
StreamAhead(at)  == Ahead(tries, cursor, out, at, Todos(stack)) /\ StreamFrames(at, Len(stack) - 1)
StreamBehind(at) == Behind(tries, cursor, out, at, Todos(stack)) /\ StreamFrames(at, Len(stack))

\* The inductive invariant of the streaming merge.
StreamInv ==
  /\ StreamInputs
  /\ pc \in {"start", "visit", "loop", "eof", "done", "corrupt", "mismatch"}
  /\ cursor \in [1 .. Len(files) -> Nat] /\ stack \in Calls /\ DOMAIN masks = 1 .. MaxDepth
  /\ pc = "start" => cursor = [k \in 1 .. Len(files) |-> 1] /\ out = <<>>
  /\ pc \in {"visit", "loop", "eof", "corrupt"} => Len(files) > 1 /\ SameConfigs
  /\ pc = "visit" => \E at : StreamAhead(at)
  /\ pc = "loop"  => \E at : StreamBehind(at)
  /\ pc = "eof"   => /\ out = Encode(Union(tries))
                     /\ \A k \in 1 .. Len(files) : cursor[k] = Cardinality(Nodes(tries[k])) + 1
  /\ pc = "done"  => IF Len(files) = 1 THEN out = files[1]
                     ELSE SameConfigs /\ StreamWhole /\ out = Wire(Union(tries))
  /\ pc = "corrupt" => ~ StreamWhole
  /\ pc \notin {"start", "mismatch"} =>
       header = [trie |-> Observed(Union(tries)), special |-> SumFunction(Stream!Specials) % CountMod]

\* Its inputs are a forest of tries.
LEMMA StreamForest ==
  ASSUME StreamInputs
  PROVE  /\ Forest(tries, AllLevels)
         /\ \A k \in 1 .. Len(files) : Levelled(tries[k], AllLevels) /\ IsTrie(tries[k])
<1>1. \A k \in 1 .. Len(files) : Levelled(tries[k], AllLevels)
  BY StreamLevelled DEF StreamInputs
<1>2. IsFiniteSet(1 .. Len(files)) /\ 1 \in 1 .. Len(files)
  BY FS_Interval DEF StreamInputs
<1> QED
  BY <1>1, <1>2 DEF Forest, StreamInputs, Levelled

\* A list in which one entry is replaced.
LEMMA Replaced ==
  ASSUME NEW R, NEW st \in Seq(R), NEW n \in 1 .. Len(st), NEW c \in R, NEW new, new = [st EXCEPT ![n] = c]
  PROVE  new \in Seq(R) /\ Len(new) = Len(st) /\ \A l \in 1 .. Len(st) : new[l] = IF l = n THEN c ELSE st[l]
BY ExceptSeq

\* The bins that the calls in progress have left.
LEMMA CallTodos ==
  ASSUME NEW st \in Calls
  PROVE  /\ Len(st) \in Nat /\ Todos(st) \in Seq(SUBSET Nat) /\ Len(Todos(st)) = Len(st)
         /\ \A l \in 1 .. Len(st) : Todos(st)[l] = st[l].todo
<1> DEFINE R == [have : SUBSET (1 .. Len(files)), todo : SUBSET Nat]
<1>1. st \in Seq(R) /\ \A c \in R : c.todo \in SUBSET Nat
  BY DEF Calls
<1> HIDE DEF R
<1> QED
  BY <1>1, TodosAre

\* What the walk finds at the cursor of an input that has the node.
LEMMA StreamReads ==
  ASSUME StreamInputs, NEW at, StreamAhead(at), stack \in Calls
  PROVE  /\ Len(stack) \in 1 .. MaxDepth /\ Len(stack) = Len(at) + 1 /\ at \in Paths
         /\ Stream!Top.have = Sharing(tries, at)
         /\ Sharing(tries, at) # {} /\ Sharing(tries, at) \subseteq 1 .. Len(files)
         /\ \A k \in Sharing(tries, at) :
              /\ Stream!HasNode(k) => Stream!NodeAt(k) = Token(tries[k], at)
              /\ files[k] = Wire(tries[k]) => Stream!HasNode(k)
<1>1. Forest(tries, AllLevels) /\ Ahead(tries, cursor, out, at, Todos(stack))
  BY StreamForest DEF StreamAhead, StreamFrames
<1>2. /\ at \in Paths /\ Len(at) \in Nat /\ Len(at) + 1 \in 1 .. MaxDepth
      /\ Len(Todos(stack)) = Len(at) + 1
      /\ Sharing(tries, at) # {} /\ Sharing(tries, at) \subseteq DOMAIN tries
  BY <1>1, WalkAt
<1>3. Len(stack) = Len(at) + 1 /\ Len(stack) \in Nat
  BY <1>2, CallTodos
<1>4. stack[Len(stack)].have = Sharing(tries, at)
  <2>1. Len(stack) \in 1 .. Len(stack) /\ Len(stack) - 1 = Len(at)
    BY <1>2, <1>3
  <2>2. SubSeq(at, 1, Len(at)) = at
    BY <1>2, SubSeqFull DEF Paths
  <2> QED
    BY <2>1, <2>2 DEF StreamAhead, StreamFrames
<1>5. DOMAIN tries = 1 .. Len(files)
  BY DEF StreamInputs
<1>6. ASSUME NEW k \in Sharing(tries, at)
      PROVE  /\ Stream!HasNode(k) => Stream!NodeAt(k) = Token(tries[k], at)
             /\ files[k] = Wire(tries[k]) => Stream!HasNode(k)
  <2> DEFINE n == Cardinality(Nodes(tries[k]))
  <2>1. k \in 1 .. Len(files) /\ Levelled(tries[k], AllLevels) /\ at \in Nodes(tries[k])
    BY <1>2, <1>5, StreamForest DEF Sharing
  <2>2. cursor[k] \in 1 .. n /\ Encode(tries[k])[cursor[k]] = Token(tries[k], at)
    BY <1>1, WalkReads
  <2>3. files[k] = Wire(tries[k]) \/ files[k] \in Torn(Wire(tries[k])) \/ files[k] = Overlong(Wire(tries[k]))
    BY <2>1 DEF StreamInputs
  <2>4. /\ Len(files[k]) \in Nat
        /\ \A j \in 1 .. n : j <= Len(files[k]) => files[k][j] = Encode(tries[k])[j]
        /\ files[k] = Wire(tries[k]) => n + 1 <= Len(files[k])
    BY <2>1, <2>3, FileIs
  <2>5. Token(tries[k], at) # EOF
    BY <2>1, TokenUnlikeEOF
  <2>6. n \in Nat
    BY <2>1, EncodeIs DEF Levelled
  <2> HIDE DEF n
  <2> QED
    BY <2>2, <2>4, <2>5, <2>6 DEF Stream!HasNode, Stream!NodeAt
<1> QED
  BY <1>2, <1>3, <1>4, <1>5, <1>6 DEF Stream!Top, Stream!Level

\* A node that is copied or merged: the walk has read it and is in its loop.
LEMMA StreamVisited ==
  ASSUME StreamInputs, NEW at, StreamAhead(at), stack \in Calls, cursor \in [1 .. Len(files) -> Nat],
         tries' = tries, files' = files,
         cursor' = [k \in 1 .. Len(files) |-> IF k \in Sharing(tries, at) THEN cursor[k] + 1 ELSE cursor[k]],
         NEW token, token = Token(Union(tries), at), out' = Append(out, token),
         stack' = Stream!Visiting(Stream!Top.have, Stream!ChildBins(DOMAIN token)),
         \A l \in 1 .. Len(stack) - 1 : masks'[l] = masks[l],
         Cardinality(Sharing(tries, at)) > 1 =>
           \A k \in Sharing(tries, at) : masks'[Len(stack)][k] = DOMAIN Token(tries[k], at)
  PROVE  StreamBehind(at)' /\ stack' \in Calls /\ cursor' \in [1 .. Len(files) -> Nat]
<1> DEFINE n == Len(stack)
           H == Sharing(tries, at)
           C == Stream!ChildBins(DOMAIN token)
<1>1. Forest(tries, AllLevels) /\ Ahead(tries, cursor, out, at, Todos(stack)) /\ DOMAIN tries = 1 .. Len(files)
  BY StreamForest DEF StreamAhead, StreamInputs
<1>2. /\ n \in 1 .. MaxDepth /\ n = Len(at) + 1 /\ at \in Paths /\ Len(at) \in Nat
      /\ Stream!Top.have = H /\ H \subseteq 1 .. Len(files)
  BY StreamReads DEF Paths
<1>3. DOMAIN token \in SUBSET Nat
  BY <1>1, <1>2, SharedToken
<1>4. Onward(tries, AllLevels, at, C)
  <2>1. \A b \in DOMAIN token : Append(at, b)[1] \in Nat
    <3>1. ASSUME NEW b \in DOMAIN token
          PROVE  Append(at, b)[1] \in Nat
      <4>1. Append(at, b) \in Paths /\ Len(Append(at, b)) = Len(at) + 1
        BY <1>2, <1>3, Extended
      <4>2. 1 \in 1 .. Len(Append(at, b))
        BY <1>2, <4>1
      <4> QED
        BY <4>1, <4>2 DEF Paths
    <3> QED
      BY <3>1
  <2>2. \A b \in DOMAIN token : AllLevels[Append(at, b)[1]] = MaxDepth
    BY <2>1 DEF AllLevels
  <2>3. MaxDepth \in Nat
    BY BinsAssumption DEF MaxDepth
  <2>4. C = IF n = MaxDepth THEN {} ELSE DOMAIN token
    BY StreamTerms DEF Stream!ChildBins, Stream!IsLeafLevel, Stream!Level
  <2> HIDE DEF C
  <2> QED
    BY <1>2, <2>2, <2>3, <2>4 DEF Onward
<1>5. C \in SUBSET Nat
  BY <1>3 DEF Stream!ChildBins
<1> HIDE DEF C
<1>6. stack' = [stack EXCEPT ![n] = [have |-> H, todo |-> C]]
  BY <1>2 DEF Stream!Visiting, Stream!Level, C
<1>7. [have |-> H, todo |-> C] \in [have : SUBSET (1 .. Len(files)), todo : SUBSET Nat]
  BY <1>2, <1>5
<1>8. /\ stack' \in Calls /\ Len(stack') = n
      /\ \A l \in 1 .. n : stack'[l] = IF l = n THEN [have |-> H, todo |-> C] ELSE stack[l]
  <2>1. n \in 1 .. Len(stack) /\ n \in Nat
    BY <1>2
  <2> HIDE DEF H
  <2> DEFINE F == [have : SUBSET (1 .. Len(files)), todo : SUBSET Nat]
             f == [have |-> H, todo |-> C]
  <2>2. stack \in Seq(F) /\ f \in F /\ stack' = [stack EXCEPT ![n] = f]
    BY <1>6, <1>7 DEF Calls
  <2> HIDE DEF F, f, n
  <2>3. /\ stack' \in Seq(F) /\ Len(stack') = Len(stack)
        /\ \A l \in 1 .. Len(stack) : stack'[l] = IF l = n THEN f ELSE stack[l]
    BY <2>1, <2>2, Replaced
  <2> QED
    BY <2>3 DEF Calls, F, f, n
<1>9. /\ Todos(stack) \in Seq(SUBSET Nat) /\ Len(Todos(stack)) = n
      /\ Todos(stack') \in Seq(SUBSET Nat) /\ Len(Todos(stack')) = n
      /\ \A l \in 1 .. n : Todos(stack)[l] = stack[l].todo /\ Todos(stack')[l] = stack'[l].todo
  <2>1. stack \in Calls /\ stack' \in Calls /\ Len(stack) = n /\ Len(stack') = n
    BY <1>8
  <2> HIDE DEF n
  <2> QED
    BY <2>1, CallTodos
<1>10. ReadOn(Todos(stack'), Todos(stack), C)
  BY <1>5, <1>8, <1>9 DEF ReadOn
<1>11. Moved(tries, at, cursor, cursor')
  BY <1>1 DEF Moved
<1>12. Behind(tries, cursor', out', at, Todos(stack'))
  BY <1>1, <1>4, <1>10, <1>11, WalkVisits
<1>13. StreamFrames(at, n)'
  <2> SUFFICES ASSUME NEW l \in 1 .. n
               PROVE  /\ stack'[l].have = Sharing(tries, SubSeq(at, 1, l - 1))
                      /\ Cardinality(stack'[l].have) > 1 =>
                           \A k \in stack'[l].have : masks'[l][k] = DOMAIN Token(tries[k], SubSeq(at, 1, l - 1))
    BY <1>8 DEF StreamFrames
  <2>1. CASE l = n
    <3>1. SubSeq(at, 1, l - 1) = at
      <4>1. l - 1 = Len(at)
        BY <1>2, <2>1
      <4>2. SubSeq(at, 1, Len(at)) = at
        BY <1>2, SubSeqFull DEF Paths
      <4> QED
        BY <4>1, <4>2
    <3>2. stack'[l].have = H
      BY <1>8, <2>1
    <3> QED
      BY <2>1, <3>1, <3>2
  <2>2. CASE l # n
    <3>1. l <= n - 1 /\ l \in 1 .. Len(stack) - 1 /\ l \in 1 .. Len(stack) /\ stack'[l] = stack[l] /\ masks'[l] = masks[l]
      BY <1>2, <1>8, <2>2
    <3> QED
      BY <3>1 DEF StreamAhead, StreamFrames
  <2> QED
    BY <2>1, <2>2
<1>14. cursor' \in [1 .. Len(files) -> Nat]
  OBVIOUS
<1>15. StreamBehind(at)'
  BY <1>8, <1>12, <1>13 DEF StreamBehind
<1> QED
  BY <1>8, <1>14, <1>15

\* A function on 1 .. m is a list of m.
LEMMA Listed ==
  ASSUME NEW m \in Nat, NEW f, NEW e, f = [k \in 1 .. m |-> e[k]]
  PROVE  Len(f) = m /\ DOMAIN f = 1 .. m
<1> DEFINE S == {e[k] : k \in 1 .. m}
<1>1. f \in [1 .. m -> S]
  OBVIOUS
<1> HIDE DEF S
<1>2. f \in Seq(S)
  BY <1>1, SeqDef
<1> QED
  BY <1>1, <1>2, LenProperties

\* The first state's inputs are as StreamInputs says.
LEMMA StreamInputsFirst ==
  ASSUME Stream!Init
  PROVE  StreamInputs
<1>1. PICK m \in 1 .. MaxInputs : tries \in [1 .. m -> StreamTries]
  BY DEF Stream!Init
<1>2. m \in Nat \ {0}
  BY <1>1, InputsAssumption
<1>3. ASSUME NEW e, files = [k \in 1 .. m |-> e[k]]
      PROVE  Len(files) = m /\ \A k \in 1 .. m : files[k] = e[k]
  BY <1>2, <1>3, Listed
<1>4. CASE files = [k \in DOMAIN tries |-> Stream!Wire(tries[k])]
  <2> DEFINE e == [k \in 1 .. m |-> Wire(tries[k])]
  <2>1. files = [k \in 1 .. m |-> e[k]]
    BY <1>1, <1>4, StreamTerms
  <2> HIDE DEF e
  <2>2. Len(files) = m /\ \A k \in 1 .. m : files[k] = e[k]
    BY <1>3, <2>1
  <2> QED
    BY <1>1, <1>2, <2>2 DEF StreamInputs, e
<1>5. ASSUME NEW d \in DOMAIN tries,
             NEW w \in Stream!Torn(Stream!Wire(tries[d])) \cup {Stream!Overlong(Stream!Wire(tries[d]))},
             files = [k \in DOMAIN tries |-> IF k = d THEN w ELSE Stream!Wire(tries[k])]
      PROVE  StreamInputs
  <2> DEFINE e == [k \in 1 .. m |-> IF k = d THEN w ELSE Wire(tries[k])]
  <2>1. files = [k \in 1 .. m |-> e[k]]
    BY <1>1, <1>5, StreamTerms
  <2>2. \A k \in 1 .. m : e[k] = Wire(tries[k]) \/ e[k] \in Torn(Wire(tries[k])) \/ e[k] = Overlong(Wire(tries[k]))
    BY <1>5, StreamTerms
  <2> HIDE DEF e
  <2>3. Len(files) = m /\ \A k \in 1 .. m : files[k] = e[k]
    BY <1>3, <2>1
  <2> QED
    BY <1>1, <1>2, <2>2, <2>3 DEF StreamInputs
<1> QED
  BY <1>4, <1>5 DEF Stream!Init

\* StreamInv holds of the first state.
LEMMA StreamInit ==
  ASSUME Stream!Init
  PROVE  StreamInv
<1>1. StreamInputs
  BY StreamInputsFirst
<1>2. DOMAIN tries = 1 .. Len(files)
  BY <1>1 DEF StreamInputs
<1>3. /\ pc = "start" /\ out = <<>> /\ stack = <<>>
      /\ cursor = [k \in 1 .. Len(files) |-> 1]
      /\ DOMAIN masks = 1 .. Stream!MaxDepth
  BY <1>2 DEF Stream!Init
<1>4. stack \in Calls
  BY <1>3 DEF Calls
<1> QED
  BY <1>1, <1>3, <1>4, StreamTerms DEF StreamInv

\* It is kept where the merge throws: mixed configurations, a truncated input.
LEMMA StreamRefuses ==
  ASSUME StreamInv, Stream!RejectMixed \/ Stream!Truncated
  PROVE  StreamInv'
<1>1. CASE Stream!RejectMixed
  BY <1>1 DEF StreamInv, Stream!RejectMixed, Stream!inputs, StreamInputs, Calls
<1>2. CASE Stream!Truncated
  <2>1. /\ pc = "visit" /\ pc' = "corrupt"
        /\ UNCHANGED <<tries, files, configs, header, cursor, masks, stack, out>>
    BY <1>2 DEF Stream!Truncated, Stream!inputs
  <2>2. PICK at : StreamAhead(at)
    BY <2>1 DEF StreamInv
  <2>3. ~ StreamWhole
    <3>1. PICK k \in Sharing(tries, at) : ~ Stream!HasNode(k) /\ k \in 1 .. Len(files)
      BY <1>2, <2>2, StreamReads DEF Stream!Truncated, StreamInv
    <3>2. files[k] # Wire(tries[k])
      BY <2>2, <3>1, StreamReads DEF StreamInv
    <3> QED
      BY <3>1, <3>2 DEF StreamWhole
  <2> QED
    BY <2>1, <2>3 DEF StreamInv, StreamInputs, Calls, StreamWhole, SameConfigs, Stream!Specials, Stream!N
<1> QED
  BY <1>1, <1>2

\* Wrapping twice is wrapping once.
LEMMA ModuloTwice ==
  ASSUME NEW m \in Nat \ {0}, NEW a \in Int
  PROVE  a % m \in Int /\ (a % m) % m = a % m
<1>1. a % m \in Int
  BY DivisionExists
<1>2. PICK b \in Int : b = 0
  OBVIOUS
<1>3. /\ ((a % m) + b) % m = (a + b) % m
      /\ (a + (b % m)) % m = (a + b) % m
      /\ (a % m) % m = a % m
  BY ModuloAdds
<1> QED
  BY <1>1, <1>3

\* It is kept where a single input is returned.
LEMMA StreamReturnsOnly ==
  ASSUME StreamInv, Stream!ReturnOnly
  PROVE  StreamInv'
<1>1. /\ pc = "start" /\ Len(files) = 1 /\ out' = files[1] /\ pc' = "done"
      /\ header' = [trie |-> Observed(tries[1]), special |-> Stream!Specials[1]]
      /\ UNCHANGED <<tries, files, configs, cursor, masks, stack>>
  BY StreamTerms DEF Stream!ReturnOnly, Stream!inputs, Stream!N
<1>2. StreamInputs
  BY DEF StreamInv
<1>3. DOMAIN tries = {1} /\ IsTrie(tries[1])
  BY <1>1, <1>2, StreamForest DEF StreamInputs
<1>4. Observed(Union(tries)) = Observed(tries[1])
  BY <1>3, UnionOfOne
<1>5. SumFunction(Stream!Specials) % CountMod = Stream!Specials[1]
  <2>1. DOMAIN Stream!Specials = {1} /\ Stream!Specials[1] = 1 % CountMod
    BY <1>1 DEF Stream!Specials, Stream!N
  <2>2. 1 % CountMod \in Int /\ (1 % CountMod) % CountMod = 1 % CountMod
    <3>1. CountMod \in Nat \ {0} /\ 1 \in Int
      BY ModAssumption
    <3> QED
      BY <3>1, ModuloTwice
  <2>3. SumFunctionOnSet(Stream!Specials, {1}) = Stream!Specials[1]
    BY <2>1, <2>2, SumOne
  <2> QED
    BY <2>1, <2>2, <2>3 DEF SumFunction
<1>6. Stream!Specials' = Stream!Specials
  BY <1>1 DEF Stream!Specials, Stream!N
<1> QED
  BY <1>1, <1>4, <1>5, <1>6 DEF StreamInv, StreamInputs, Calls

\* Where the headers are summed and the roots are to be visited.
LEMMA StreamStarts ==
  ASSUME StreamInv, Stream!Start
  PROVE  StreamInv'
<1>1. /\ pc = "start" /\ Len(files) > 1 /\ pc' = "visit" /\ SameConfigs
      /\ header' = [trie    |-> SumFunction([k \in 1 .. Len(files) |-> Observed(tries[k])]) % CountMod,
                    special |-> SumFunction(Stream!Specials) % CountMod]
      /\ stack' = <<[have |-> 1 .. Len(files), todo |-> {}]>>
      /\ UNCHANGED <<tries, files, configs, cursor, masks, out>>
  BY StreamTerms DEF Stream!Start, Stream!inputs, Stream!N, SameConfigs
<1>2. StreamInputs /\ cursor = [k \in 1 .. Len(files) |-> 1] /\ out = <<>>
  BY <1>1 DEF StreamInv
<1>3. Forest(tries, AllLevels) /\ DOMAIN tries = 1 .. Len(files) /\ \A k \in DOMAIN tries : IsTrie(tries[k])
  BY <1>2, StreamForest DEF StreamInputs
<1>4. stack' \in Calls' /\ Len(stack') = 1
  BY <1>1 DEF Calls
<1>5. Todos(stack') = <<{}>>
  <2>1. Todos(stack') = [l \in 1 .. 1 |-> stack'[l].todo] /\ stack'[1].todo = {}
    BY <1>1, <1>4 DEF Todos
  <2> QED
    BY <2>1
<1>6. Ahead(tries, cursor, <<>>, <<>>, Todos(stack')) /\ Sharing(tries, <<>>) = DOMAIN tries
  BY <1>2, <1>3, <1>5, WalkStarts
<1>7. StreamAhead(<<>>)'
  <2>1. SubSeq(<<>>, 1, 0) = <<>>
    BY SubSeqEmpty
  <2>2. stack'[1].have = Sharing(tries, SubSeq(<<>>, 1, 1 - 1))
    <3>1. stack'[1].have = Sharing(tries, <<>>)
      BY <1>1, <1>3, <1>6
    <3>2. 1 - 1 = 0
      OBVIOUS
    <3> QED
      BY <2>1, <3>1, <3>2
  <2>3. StreamFrames(<<>>, Len(stack) - 1)'
    BY <1>1, <1>4, <2>2 DEF StreamFrames
  <2> QED
    BY <1>1, <1>2, <1>6, <2>3 DEF StreamAhead
<1>8. header'.trie = Observed(Union(tries))
  <2>1. Observed(Union(tries)) = SumFunction([k \in DOMAIN tries |-> Observed(tries[k])]) % CountMod
    BY <1>3, ObservedOfUnion DEF Forest
  <2> QED
    BY <1>1, <1>3, <2>1
<1>9. header' = [trie |-> Observed(Union(tries)), special |-> SumFunction(Stream!Specials) % CountMod]'
  BY <1>1, <1>8 DEF Stream!Specials, Stream!N
<1> QED
  BY <1>1, <1>4, <1>7, <1>9 DEF StreamInv, StreamInputs, SameConfigs

\* Where a node of one input is copied.
LEMMA StreamCopies ==
  ASSUME StreamInv, Stream!CopyNode
  PROVE  StreamInv'
<1>1. /\ pc = "visit" /\ pc' = "loop"
      /\ UNCHANGED <<tries, files, configs, header, masks>>
  BY DEF Stream!CopyNode, Stream!inputs
<1>2. PICK at : StreamAhead(at)
  BY <1>1 DEF StreamInv
<1>3. /\ StreamInputs /\ stack \in Calls /\ cursor \in [1 .. Len(files) -> Nat]
      /\ Len(files) > 1 /\ SameConfigs
  BY <1>1 DEF StreamInv
<1>4. PICK k \in Stream!Top.have :
        /\ Stream!Top.have = {k} /\ Stream!HasNode(k)
        /\ out' = Append(out, Stream!NodeAt(k))
        /\ cursor' = [cursor EXCEPT ![k] = @ + 1]
        /\ stack' = Stream!Visiting(Stream!Top.have, Stream!ChildBins(DOMAIN Stream!NodeAt(k)))
  BY DEF Stream!CopyNode
<1>5. /\ at \in Paths /\ Sharing(tries, at) = {k} /\ k \in 1 .. Len(files)
      /\ Stream!NodeAt(k) = Token(tries[k], at)
  BY <1>2, <1>3, <1>4, StreamReads
<1>6. Token(Union(tries), at) = Token(tries[k], at)
  <2> DEFINE fs == [j \in {k} |-> Token(tries[k], at)]
  <2>1. Forest(tries, AllLevels) /\ IsTrie(tries[k])
    BY <1>3, <1>5, StreamForest
  <2>2. Token(Union(tries), at) = SumTokens([j \in Sharing(tries, at) |-> Token(tries[j], at)])
    BY <1>5, <2>1, SharedToken
  <2>3. [j \in Sharing(tries, at) |-> Token(tries[j], at)] = fs
    BY <1>5
  <2>4. SumTokens(fs) = Token(tries[k], at)
    BY <1>5, <2>1, SumTokensOfOne
  <2> QED
    BY <2>2, <2>3, <2>4
<1>7. cursor' = [j \in 1 .. Len(files) |-> IF j \in Sharing(tries, at) THEN cursor[j] + 1 ELSE cursor[j]]
  BY <1>3, <1>4, <1>5
<1>8. Cardinality(Sharing(tries, at)) = 1
  BY <1>5, FS_Singleton
<1>9. StreamBehind(at)' /\ stack' \in Calls /\ cursor' \in [1 .. Len(files) -> Nat]
  <2> DEFINE token == Token(Union(tries), at)
  <2>1. /\ token = Token(Union(tries), at) /\ out' = Append(out, token)
        /\ stack' = Stream!Visiting(Stream!Top.have, Stream!ChildBins(DOMAIN token))
    BY <1>4, <1>5, <1>6
  <2>2. ~ (Cardinality(Sharing(tries, at)) > 1)
    BY <1>8
  <2> HIDE DEF token
  <2> QED
    BY <1>1, <1>2, <1>3, <1>7, <2>1, <2>2, StreamVisited
<1> QED
  BY <1>1, <1>3, <1>9 DEF StreamInv, StreamInputs, Calls, SameConfigs, Stream!Specials, Stream!N

\* Where a node of several inputs is merged.
LEMMA StreamMerges ==
  ASSUME StreamInv, Stream!MergeNode
  PROVE  StreamInv'
<1>1. /\ pc = "visit" /\ pc' = "loop"
      /\ UNCHANGED <<tries, files, configs, header>>
  BY DEF Stream!MergeNode, Stream!inputs
<1>2. PICK at : StreamAhead(at)
  BY <1>1 DEF StreamInv
<1>3. /\ StreamInputs /\ stack \in Calls /\ cursor \in [1 .. Len(files) -> Nat]
      /\ Len(files) > 1 /\ SameConfigs /\ DOMAIN masks = 1 .. MaxDepth
  BY <1>1 DEF StreamInv
<1> DEFINE H == Sharing(tries, at)
           fs == [k \in Stream!Top.have |-> Stream!NodeAt(k)]
           gs == [k \in H |-> Token(tries[k], at)]
           token == Token(Union(tries), at)
<1>4. /\ Len(stack) \in 1 .. MaxDepth /\ at \in Paths /\ Stream!Top.have = H /\ H \subseteq 1 .. Len(files)
      /\ \A k \in H : Stream!HasNode(k) => Stream!NodeAt(k) = Token(tries[k], at)
  BY <1>2, <1>3, StreamReads
<1>5. \A k \in H : Stream!NodeAt(k) = Token(tries[k], at)
  BY <1>4 DEF Stream!MergeNode
<1>6. fs = gs
  BY <1>4, <1>5
<1>7. token = SumTokens(gs)
  <2>1. Forest(tries, AllLevels)
    BY <1>3, StreamForest
  <2> QED
    BY <1>4, <2>1, SharedToken
<1>8. /\ out' = Append(out, SumTokens(fs))
      /\ stack' = Stream!Visiting(Stream!Top.have, Stream!ChildBins(DOMAIN SumTokens(fs)))
  BY StreamTerms DEF Stream!MergeNode
<1>9. cursor' = [k \in 1 .. Len(files) |-> IF k \in H THEN cursor[k] + 1 ELSE cursor[k]]
  BY <1>4 DEF Stream!MergeNode, Stream!N
<1>10. /\ DOMAIN masks' = 1 .. MaxDepth
       /\ \A l \in 1 .. Len(stack) - 1 : masks'[l] = masks[l]
       /\ \A k \in H : masks'[Len(stack)][k] = DOMAIN Token(tries[k], at)
  <2> DEFINE new == [k \in 1 .. Len(files) |-> IF k \in H THEN DOMAIN Stream!NodeAt(k) ELSE masks[Len(stack)][k]]
  <2>1. masks' = [masks EXCEPT ![Len(stack)] = new]
    BY <1>4 DEF Stream!MergeNode, Stream!N, Stream!Level
  <2>2. \A k \in H : new[k] = DOMAIN Token(tries[k], at)
    BY <1>4, <1>5
  <2> HIDE DEF new, H
  <2>3. Len(stack) \in DOMAIN masks
    BY <1>3, <1>4
  <2> QED
    BY <1>3, <1>4, <2>1, <2>2, <2>3
<1>11. StreamBehind(at)' /\ stack' \in Calls /\ cursor' \in [1 .. Len(files) -> Nat]
  <2>1. /\ token = Token(Union(tries), at) /\ out' = Append(out, token)
        /\ stack' = Stream!Visiting(Stream!Top.have, Stream!ChildBins(DOMAIN token))
    BY <1>6, <1>7, <1>8
  <2> HIDE DEF token, fs, gs
  <2> QED
    BY <1>1, <1>2, <1>3, <1>9, <1>10, <2>1, StreamVisited
<1> QED
  BY <1>1, <1>3, <1>10, <1>11 DEF StreamInv, StreamInputs, Calls, SameConfigs, Stream!Specials, Stream!N

\* Where the ends of all inputs are verified: they are at their markers exactly if no
\* file is damaged.
LEMMA StreamVerifies ==
  ASSUME StreamInv, Stream!VerifyEnd
  PROVE  StreamInv'
<1>1. /\ pc = "eof" /\ pc' \in {"done", "corrupt"}
      /\ pc' = "done" => Stream!AllAtEnd /\ out' = Append(out, EOF)
      /\ pc' = "corrupt" => ~ Stream!AllAtEnd /\ out' = out
      /\ UNCHANGED <<tries, files, configs, header, cursor, masks, stack>>
  BY DEF Stream!VerifyEnd, Stream!inputs
<1>2. /\ StreamInputs /\ Len(files) > 1 /\ SameConfigs
      /\ out = Encode(Union(tries))
      /\ \A k \in 1 .. Len(files) : cursor[k] = Cardinality(Nodes(tries[k])) + 1
  BY <1>1 DEF StreamInv
<1>3. ASSUME NEW k \in 1 .. Len(files)
      PROVE  cursor[k] <= Len(files[k]) /\ files[k][cursor[k]] = EOF <=> files[k] = Wire(tries[k])
  <2>1. /\ Levelled(tries[k], AllLevels)
        /\ files[k] = Wire(tries[k]) \/ files[k] \in Torn(Wire(tries[k])) \/ files[k] = Overlong(Wire(tries[k]))
    BY <1>2, StreamForest DEF StreamInputs
  <2> QED
    BY <1>2, <2>1, FileIs
<1>4. Stream!AllAtEnd <=> StreamWhole
  BY <1>3 DEF Stream!AllAtEnd, StreamWhole, Stream!N
<1>5. Append(out, EOF) = Wire(Union(tries))
  BY <1>2 DEF Wire
<1> QED
  BY <1>1, <1>2, <1>4, <1>5 DEF StreamInv, StreamInputs, Calls, StreamWhole, SameConfigs, Stream!Specials, Stream!N

\* A list of calls, its last one replaced and another begun in it.
LEMMA Called ==
  ASSUME NEW R, NEW st \in Seq(R), Len(st) > 0, NEW c \in R, NEW d \in R,
         NEW new, new = Append([st EXCEPT ![Len(st)] = c], d)
  PROVE  /\ new \in Seq(R) /\ Len(new) = Len(st) + 1 /\ Len(st) \in Nat
         /\ \A l \in 1 .. Len(new) : new[l] = IF l = Len(new) THEN d ELSE IF l = Len(st) THEN c ELSE st[l]
<1> DEFINE n == Len(st)
           v == [st EXCEPT ![n] = c]
<1>1. n \in 1 .. Len(st) /\ n \in Nat
  BY LenProperties
<1>2. v \in Seq(R) /\ Len(v) = n /\ \A l \in 1 .. n : v[l] = IF l = n THEN c ELSE st[l]
  BY <1>1, Replaced
<1> HIDE DEF v
<1>3. /\ Append(v, d) \in Seq(R) /\ Len(Append(v, d)) = n + 1
      /\ \A i \in 1 .. n : Append(v, d)[i] = v[i]
      /\ Append(v, d)[n + 1] = d
  BY <1>2, AppendProperties
<1>4. new = Append(v, d)
  BY DEF v
<1> QED
  BY <1>1, <1>2, <1>3, <1>4

\* A list of calls without its last one.
LEMMA Finished ==
  ASSUME NEW R, NEW st \in Seq(R), Len(st) > 0, NEW new, new = Front(st)
  PROVE  /\ new \in Seq(R) /\ Len(new) = Len(st) - 1 /\ Len(st) \in Nat
         /\ \A l \in 1 .. Len(new) : new[l] = st[l]
<1> DEFINE m == Len(st) - 1
<1>1. m \in Nat /\ Len(st) = m + 1 /\ \A l \in 1 .. m : st[l] \in R
  BY LenProperties, ElementOfSeq
<1> HIDE DEF m
<1>2. new = SubSeq(st, 1, m)
  BY <1>1 DEF Front, m
<1>3. /\ new \in Seq(R)
      /\ Len(new) = IF 1 <= m THEN m - 1 + 1 ELSE 0
      /\ \A i \in 1 .. m - 1 + 1 : new[i] = st[1 + i - 1]
  BY <1>1, <1>2, SubSeqProperties
<1> QED
  BY <1>1, <1>3

\* The masks in the scratch say which inputs have the child.
LEMMA StreamPopulating ==
  ASSUME StreamInputs, NEW at, StreamBehind(at), stack \in Calls, NEW i, i \in Stream!Top.todo,
         at \in Paths, i \in Nat, Sharing(tries, Append(at, i)) # {},
         \A k \in DOMAIN tries : k \in Sharing(tries, Append(at, i)) <=> i \in DOMAIN Token(tries[k], at)
  PROVE  Stream!Populating(i) = Sharing(tries, Append(at, i))
<1> DEFINE n == Len(stack)
           H == Sharing(tries, at)
           K == Sharing(tries, Append(at, i))
<1>1. Forest(tries, AllLevels) /\ Behind(tries, cursor, out, at, Todos(stack)) /\ DOMAIN tries = 1 .. Len(files)
  BY StreamForest DEF StreamBehind, StreamInputs
<1>2. n \in Nat /\ n = Len(at) + 1 /\ Len(at) \in Nat /\ H # {} /\ H \subseteq 1 .. Len(files)
  BY <1>1, WalkAt, CallTodos
<1>3. K \subseteq H
  BY <1>1, SharingShrinks
<1>4. /\ stack[n].have = H
      /\ Cardinality(H) > 1 => \A k \in H : masks[n][k] = DOMAIN Token(tries[k], at)
  <2>1. n \in 1 .. n /\ n - 1 = Len(at) /\ n <= n
    BY <1>2
  <2>2. SubSeq(at, 1, Len(at)) = at
    BY SubSeqFull DEF Paths
  <2> QED
    BY <2>1, <2>2 DEF StreamBehind, StreamFrames
<1>5. Stream!Top.have = H
  BY <1>4 DEF Stream!Top, Stream!Level
<1>6. IsFiniteSet(H)
  BY <1>1, <1>2, FS_Subset DEF Forest
<1> HIDE DEF H, K
<1>7. CASE Cardinality(H) = 1
  <2>1. K = H
    <3>1. PICK k : k \in K
      BY DEF K
    <3>2. \E x : H = {x}
      BY <1>6, <1>7, FS_Singleton
    <3> QED
      BY <1>3, <3>1, <3>2
  <2> QED
    BY <1>5, <1>7, <2>1, StreamTerms DEF Stream!Populating, K
<1>8. CASE Cardinality(H) # 1
  <2>1. Cardinality(H) > 1
    <3>1. Cardinality(H) \in Nat /\ Cardinality(H) # 0
      BY <1>2, <1>6, FS_CardinalityType, FS_EmptySet
    <3> QED
      BY <1>8, <3>1
  <2>2. Stream!Populating(i) = {k \in H : i \in masks[n][k]}
    BY <1>5, <1>8, StreamTerms DEF Stream!Populating, Stream!Level
  <2>3. \A k \in H : i \in masks[n][k] <=> k \in K
    BY <1>1, <1>2, <1>4, <2>1 DEF K
  <2> QED
    BY <1>3, <2>2, <2>3 DEF K
<1> QED
  BY <1>7, <1>8

\* Where the loop calls itself for the next child.
LEMMA StreamDescends ==
  ASSUME StreamInv, Stream!NextChild
  PROVE  StreamInv'
<1> DEFINE F == [have : SUBSET (1 .. Len(files)), todo : SUBSET Nat]
           n == Len(stack)
           i == Min(Stream!Top.todo)
           c == [have |-> Stream!Top.have, todo |-> Stream!Top.todo \ {i}]
           d == [have |-> Stream!Populating(i), todo |-> {}]
<1>1. /\ pc = "loop" /\ pc' = "visit" /\ stack[n].todo # {}
      /\ stack' = Append([stack EXCEPT ![n] = c], d)
      /\ UNCHANGED <<tries, files, configs, header, cursor, masks, out>>
  BY StreamTerms DEF Stream!NextChild, Stream!inputs, Stream!Visiting, Stream!Top, Stream!Level
<1>2. PICK at : StreamBehind(at)
  BY <1>1 DEF StreamInv
<1>3. StreamInputs /\ stack \in Calls /\ Len(files) > 1 /\ SameConfigs
  BY <1>1 DEF StreamInv
<1>4. /\ Forest(tries, AllLevels) /\ DOMAIN tries = 1 .. Len(files)
      /\ Behind(tries, cursor, out, at, Todos(stack)) /\ StreamFrames(at, n)
  BY <1>2, <1>3, StreamForest DEF StreamBehind, StreamInputs
<1>5. /\ at \in Paths /\ n = Len(at) + 1 /\ Len(at) \in Nat /\ n \in Nat
      /\ Len(Todos(stack)) = n /\ \A l \in 1 .. n : Todos(stack)[l] = stack[l].todo
  BY <1>3, <1>4, WalkAt, CallTodos
<1>6. n \in 1 .. n /\ stack[n] \in F
  <2>1. stack \in Seq(F) /\ n \in 1 .. n
    BY <1>3, <1>5 DEF Calls
  <2> HIDE DEF F
  <2> QED
    BY <2>1, ElementOfSeq
<1>7. /\ stack[n].todo \in SUBSET Nat
      /\ i \in stack[n].todo /\ (\A b \in stack[n].todo : i <= b) /\ i \in Nat
  <2>1. stack[n].todo \in SUBSET Nat
    BY <1>6
  <2>2. Stream!Top.todo = stack[n].todo
    BY DEF Stream!Top, Stream!Level
  <2>3. i \in stack[n].todo /\ \A b \in stack[n].todo : i <= b
    BY <1>1, <2>1, <2>2, LeastNat
  <2> HIDE DEF i
  <2> QED
    BY <2>1, <2>3
<1> HIDE DEF i
<1>8. c \in F /\ d \in F
  <2>1. c \in F
    BY <1>6 DEF Stream!Top, Stream!Level
  <2>2. Stream!Populating(i) \subseteq stack[n].have
    BY DEF Stream!Populating, Stream!Top, Stream!Level
  <2>3. d \in F
    BY <1>6, <2>2
  <2> QED
    BY <2>1, <2>3
<1>9. /\ stack' \in Seq(F) /\ Len(stack') = n + 1
      /\ \A l \in 1 .. n + 1 : stack'[l] = IF l = n + 1 THEN d ELSE IF l = n THEN c ELSE stack[l]
  <2>1. stack \in Seq(F) /\ Len(stack) > 0
    BY <1>3, <1>5 DEF Calls
  <2> HIDE DEF F, c, d
  <2> QED
    BY <1>1, <1>8, <2>1, Called DEF n
<1>10. stack' \in Calls
  BY <1>9 DEF Calls
<1>11. /\ Todos(stack') \in Seq(SUBSET Nat) /\ Len(Todos(stack')) = n + 1
       /\ \A l \in 1 .. n + 1 : Todos(stack')[l] = stack'[l].todo
  <2> HIDE DEF n
  <2> QED
    BY <1>9, <1>10, CallTodos
<1>12. Deeper(Todos(stack'), Todos(stack), i)
  <2>1. c.todo = stack[n].todo \ {i} /\ d.todo = {}
    BY DEF Stream!Top, Stream!Level
  <2>2. ASSUME NEW l \in 1 .. n + 1
        PROVE  Todos(stack')[l] = IF l = n + 1 THEN {} ELSE IF l = n THEN Todos(stack)[l] \ {i} ELSE Todos(stack)[l]
    <3>1. l # n + 1 => l \in 1 .. n
      BY <1>5
    <3> HIDE DEF c, d, n
    <3> QED
      BY <1>5, <1>9, <1>11, <2>1, <3>1
  <2> HIDE DEF c, d, n
  <2> QED
    BY <1>5, <1>6, <1>7, <1>11, <2>2 DEF Deeper
<1>13. /\ Ahead(tries, cursor, out, Append(at, i), Todos(stack'))
       /\ \A k \in DOMAIN tries : k \in Sharing(tries, Append(at, i)) <=> i \in DOMAIN Token(tries[k], at)
  BY <1>4, <1>12, WalkEnters
<1>14. Stream!Populating(i) = Sharing(tries, Append(at, i))
  <2>1. Sharing(tries, Append(at, i)) # {}
    BY <1>4, <1>13, WalkAt
  <2>2. i \in Stream!Top.todo
    BY <1>7 DEF Stream!Top, Stream!Level
  <2> QED
    BY <1>2, <1>3, <1>5, <1>7, <1>13, <2>1, <2>2, StreamPopulating
<1>15. \A l \in 1 .. n + 1 :
         /\ stack'[l].have = Sharing(tries, SubSeq(Append(at, i), 1, l - 1))
         /\ l <= n /\ Cardinality(stack'[l].have) > 1 =>
              \A k \in stack'[l].have : masks[l][k] = DOMAIN Token(tries[k], SubSeq(Append(at, i), 1, l - 1))
  <2> DEFINE to == Append(at, i)
  <2>1. to \in Paths /\ Len(to) = n /\ \A j \in 1 .. n - 1 : to[j] = at[j]
    BY <1>5, <1>7, Extended
  <2>2. \A l \in 1 .. n : SubSeq(to, 1, l - 1) = SubSeq(at, 1, l - 1)
    <3> SUFFICES ASSUME NEW l \in 1 .. n
                 PROVE  SubSeq(to, 1, l - 1) = SubSeq(at, 1, l - 1)
      OBVIOUS
    <3>1. l - 1 \in 0 .. Len(to) /\ l - 1 <= Len(at) /\ \A j \in 1 .. l - 1 : to[j] = at[j]
      BY <1>5, <2>1
    <3> HIDE DEF to
    <3> QED
      BY <1>5, <2>1, <3>1, SameBeginning
  <2>3. SubSeq(to, 1, n + 1 - 1) = to
    <3>1. n + 1 - 1 = Len(to)
      BY <1>5, <2>1
    <3>2. SubSeq(to, 1, Len(to)) = to
      BY <2>1, SubSeqFull DEF Paths
    <3> QED
      BY <3>1, <3>2
  <2> SUFFICES ASSUME NEW l \in 1 .. n + 1
               PROVE  /\ stack'[l].have = Sharing(tries, SubSeq(to, 1, l - 1))
                      /\ l <= n /\ Cardinality(stack'[l].have) > 1 =>
                           \A k \in stack'[l].have : masks[l][k] = DOMAIN Token(tries[k], SubSeq(to, 1, l - 1))
    OBVIOUS
  <2>4. CASE l = n + 1
    <3>1. ~ (l <= n)
      BY <1>5, <2>4
    <3>2. stack'[l].have = Stream!Populating(i)
      <4>1. d.have = Stream!Populating(i)
        OBVIOUS
      <4> HIDE DEF c, d, n
      <4> QED
        BY <1>9, <2>4, <4>1
    <3>3. SubSeq(to, 1, l - 1) = to
      BY <2>3, <2>4
    <3>4. stack'[l].have = Sharing(tries, to)
      BY <1>14, <3>2
    <3> QED
      BY <3>1, <3>3, <3>4
  <2>5. CASE l # n + 1
    <3>1. l \in 1 .. n /\ l <= n
      BY <1>5, <2>5
    <3>2. stack'[l].have = stack[l].have
      <4>1. c.have = stack[n].have
        BY DEF Stream!Top, Stream!Level
      <4> HIDE DEF c, d, n
      <4> QED
        BY <1>9, <2>5, <4>1
    <3>3. /\ stack[l].have = Sharing(tries, SubSeq(at, 1, l - 1))
          /\ Cardinality(stack[l].have) > 1 =>
               \A k \in stack[l].have : masks[l][k] = DOMAIN Token(tries[k], SubSeq(at, 1, l - 1))
      BY <1>4, <3>1 DEF StreamFrames
    <3> HIDE DEF to, n
    <3> QED
      BY <2>2, <3>1, <3>2, <3>3
  <2> QED
    BY <2>4, <2>5
<1>16. PICK to : to = Append(at, i)
  OBVIOUS
<1>17. StreamAhead(to)'
  <2>1. Len(stack') - 1 = n /\ Len(stack') = n + 1
    BY <1>5, <1>9
  <2>2. StreamFrames(to, Len(stack) - 1)'
    <3> HIDE DEF n, d, c
    <3> QED
      BY <1>1, <1>15, <1>16, <2>1 DEF StreamFrames
  <2> HIDE DEF n
  <2> QED
    BY <1>1, <1>13, <1>16, <2>2 DEF StreamAhead
<1>18. StreamInputs' /\ Calls' = Calls /\ SameConfigs'
  BY <1>1, <1>3 DEF StreamInputs, Calls, SameConfigs
<1> HIDE DEF c, d, n, F
<1> QED
  BY <1>1, <1>3, <1>10, <1>17, <1>18 DEF StreamInv, Stream!Specials, Stream!N

\* Where a call returns.
LEMMA StreamReturns ==
  ASSUME StreamInv, Stream!Return
  PROVE  StreamInv'
<1> DEFINE F == [have : SUBSET (1 .. Len(files)), todo : SUBSET Nat]
           n == Len(stack)
<1>1. /\ pc = "loop" /\ pc' = (IF n = 1 THEN "eof" ELSE "loop") /\ stack[n].todo = {}
      /\ stack' = Front(stack)
      /\ UNCHANGED <<tries, files, configs, header, cursor, masks, out>>
  BY StreamTerms DEF Stream!Return, Stream!inputs, Stream!Top, Stream!Level
<1>2. PICK at : StreamBehind(at)
  BY <1>1 DEF StreamInv
<1>3. StreamInputs /\ stack \in Calls /\ Len(files) > 1 /\ SameConfigs
  BY <1>1 DEF StreamInv
<1>4. /\ Forest(tries, AllLevels) /\ DOMAIN tries = 1 .. Len(files)
      /\ Behind(tries, cursor, out, at, Todos(stack)) /\ StreamFrames(at, n)
  BY <1>2, <1>3, StreamForest DEF StreamBehind, StreamInputs
<1>5. /\ at \in Paths /\ n = Len(at) + 1 /\ Len(at) \in Nat /\ n \in Nat
      /\ Len(Todos(stack)) = n /\ \A l \in 1 .. n : Todos(stack)[l] = stack[l].todo
  BY <1>3, <1>4, WalkAt, CallTodos
<1>6. /\ stack' \in Seq(F) /\ Len(stack') = n - 1
      /\ \A l \in 1 .. n - 1 : stack'[l] = stack[l]
  <2>1. stack \in Seq(F) /\ Len(stack) > 0
    BY <1>3, <1>5 DEF Calls
  <2> HIDE DEF F
  <2> QED
    BY <1>1, <2>1, Finished DEF n
<1>7. stack' \in Calls
  BY <1>6 DEF Calls
<1>8. StreamInputs' /\ Calls' = Calls /\ SameConfigs'
  BY <1>1, <1>3 DEF StreamInputs, Calls, SameConfigs
<1>9. CASE n = 1
  <2>1. Todos(stack)[1] = {} /\ Len(Todos(stack)) = 1
    <3>1. Len(Todos(stack)) = n /\ 1 \in 1 .. n
      BY <1>5, <1>9
    <3>2. Todos(stack)[1] = stack[1].todo
      BY <1>5, <3>1
    <3>3. stack[1].todo = {}
      BY <1>1, <1>9
    <3> QED
      BY <3>1, <3>2, <3>3, <1>9
  <2>2. out = Encode(Union(tries)) /\ \A k \in DOMAIN tries : cursor[k] = Cardinality(Nodes(tries[k])) + 1
    BY <1>4, <2>1, WalkEnds
  <2> HIDE DEF n, F
  <2> QED
    BY <1>1, <1>3, <1>4, <1>7, <1>8, <1>9, <2>2 DEF StreamInv, Stream!Specials, Stream!N
<1>10. CASE n # 1
  <2> DEFINE to == SubSeq(at, 1, Len(at) - 1)
  <2>1. /\ Todos(stack') \in Seq(SUBSET Nat) /\ Len(Todos(stack')) = n - 1
        /\ \A l \in 1 .. n - 1 : Todos(stack')[l] = stack'[l].todo
    <3> HIDE DEF n
    <3> QED
      BY <1>6, <1>7, CallTodos
  <2>2. Shallower(Todos(stack'), Todos(stack))
    <3>1. \A l \in 1 .. n - 1 : l \in 1 .. n
      BY <1>5
    <3>2. n \in 1 .. n /\ n > 1
      BY <1>5, <1>10
    <3> HIDE DEF n
    <3> QED
      BY <1>1, <1>5, <1>6, <2>1, <3>1, <3>2 DEF Shallower
  <2>3. Behind(tries, cursor, out, to, Todos(stack'))
    BY <1>4, <2>2, WalkReturns
  <2>4. /\ to \in Paths /\ \A l \in 1 .. n - 1 : SubSeq(to, 1, l - 1) = SubSeq(at, 1, l - 1)
    <3>1. Len(at) - 1 \in 0 .. Len(at) /\ n - 1 = Len(at)
      BY <1>5, <1>10
    <3>2. to \in Paths /\ Len(to) = Len(at) - 1 /\ \A j \in 1 .. Len(at) - 1 : to[j] = at[j]
      BY <1>5, <3>1, Beginning
    <3> HIDE DEF to
    <3>3. ASSUME NEW l \in 1 .. n - 1
          PROVE  SubSeq(to, 1, l - 1) = SubSeq(at, 1, l - 1)
      <4>1. l - 1 \in 0 .. Len(to) /\ l - 1 <= Len(at) /\ \A j \in 1 .. l - 1 : to[j] = at[j]
        BY <1>5, <3>1, <3>2
      <4> QED
        BY <1>5, <3>2, <4>1, SameBeginning
    <3> QED
      BY <3>2, <3>3
  <2>5. ASSUME NEW l \in 1 .. n - 1
        PROVE  /\ stack'[l].have = Sharing(tries, SubSeq(to, 1, l - 1))
               /\ Cardinality(stack'[l].have) > 1 =>
                    \A k \in stack'[l].have : masks[l][k] = DOMAIN Token(tries[k], SubSeq(to, 1, l - 1))
    <3>1. l \in 1 .. n /\ l <= n
      BY <1>5
    <3>2. /\ stack[l].have = Sharing(tries, SubSeq(at, 1, l - 1))
          /\ Cardinality(stack[l].have) > 1 =>
               \A k \in stack[l].have : masks[l][k] = DOMAIN Token(tries[k], SubSeq(at, 1, l - 1))
      BY <1>4, <3>1 DEF StreamFrames
    <3> HIDE DEF to, n
    <3> QED
      BY <1>6, <2>4, <3>2
  <2>6. StreamBehind(to)'
    <3> HIDE DEF to, n
    <3>1. StreamFrames(to, Len(stack))'
      BY <1>1, <1>6, <2>5 DEF StreamFrames
    <3>2. Behind(tries, cursor, out, to, Todos(stack))'
      BY <1>1, <2>3
    <3> QED
      BY <3>1, <3>2 DEF StreamBehind
  <2> HIDE DEF n, F, to
  <2> QED
    BY <1>1, <1>3, <1>7, <1>8, <1>10, <2>6 DEF StreamInv, Stream!Specials, Stream!N
<1> QED
  BY <1>9, <1>10

\* Where nothing changes.
LEMMA StreamStays ==
  ASSUME StreamInv, UNCHANGED Stream!vars
  PROVE  StreamInv'
<1>1. UNCHANGED <<tries, files, configs, pc, header, cursor, masks, stack, out>>
  BY DEF Stream!vars
<1>2. /\ StreamInputs' = StreamInputs /\ Calls' = Calls /\ SameConfigs' = SameConfigs
      /\ StreamWhole' = StreamWhole /\ Stream!Specials' = Stream!Specials
  BY <1>1 DEF StreamInputs, Calls, SameConfigs, StreamWhole, Stream!Specials, Stream!N
<1>3. \A at : StreamAhead(at)' = StreamAhead(at) /\ StreamBehind(at)' = StreamBehind(at)
  BY <1>1 DEF StreamAhead, StreamBehind, StreamFrames
<1> QED
  BY <1>1, <1>2, <1>3 DEF StreamInv

\* What a walk has written is the beginning of the union's file.
LEMMA WalkWrites ==
  ASSUME NEW ts, NEW D, Forest(ts, D), NEW c, NEW o, NEW at, NEW todo,
         Ahead(ts, c, o, at, todo) \/ Behind(ts, c, o, at, todo)
  PROVE  IsPrefix(o, Wire(Union(ts)))
<1> DEFINE X == Nodes(Union(ts))
<1>1. PICK left : o = SubSeq(Encode(Union(ts)), 1, Cardinality(X \ left))
  BY DEF Ahead, Behind, Tour
<1>2. IsTrie(Union(ts))
  BY UnionLevelled DEF Levelled
<1>3. IsFiniteSet(X)
  BY ForestNodes
<1>4. Cardinality(X \ left) \in 0 .. Cardinality(X)
  <2>1. X \ left \subseteq X
    OBVIOUS
  <2>2. Cardinality(X \ left) <= Cardinality(X) /\ IsFiniteSet(X \ left)
    BY <1>3, <2>1, FS_Subset
  <2>3. Cardinality(X \ left) \in Nat /\ Cardinality(X) \in Nat
    BY <1>3, <2>2, FS_CardinalityType
  <2> QED
    BY <2>2, <2>3
<1> QED
  BY <1>1, <1>2, <1>4, PrefixOfWire

\* And all of it but the marker, when the walk is over.
LEMMA AllWritten ==
  ASSUME NEW t, IsTrie(t)
  PROVE  IsPrefix(Encode(t), Wire(t)) /\ IsPrefix(Wire(t), Wire(t))
<1> DEFINE n == Cardinality(Nodes(t))
<1>1. n \in Nat /\ Len(Encode(t)) = n
  BY EncodeIs
<1> HIDE DEF n
<1>2. SubSeq(Encode(t), 1, n) = Encode(t)
  <2>1. PICK S : Encode(t) \in Seq(S)
    BY WireIs
  <2> QED
    BY <1>1, <2>1, SubSeqFull
<1>3. IsPrefix(SubSeq(Encode(t), 1, n), Wire(t))
  <2>1. n \in 0 .. n
    BY <1>1
  <2> QED
    BY <2>1, PrefixOfWire DEF n
<1>4. Len(Wire(t)) \in Nat
  BY WireIs
<1>5. IsPrefix(Wire(t), Wire(t))
  BY <1>4 DEF IsPrefix
<1> QED
  BY <1>2, <1>3, <1>5

\* StreamInv says what is written at every moment,
LEMMA StreamOutput ==
  ASSUME StreamInv
  PROVE  Stream!OutputSoFar
<1> SUFFICES ASSUME StreamWhole, pc \notin {"start", "mismatch"}
             PROVE  IsPrefix(out, Wire(Union(tries))) /\ pc # "corrupt"
  BY StreamTerms DEF Stream!OutputSoFar, Stream!AllWhole, Stream!N, StreamWhole
<1>1. pc # "corrupt"
  BY DEF StreamInv
<1>2. StreamInputs /\ Forest(tries, AllLevels)
  BY StreamForest DEF StreamInv
<1>3. IsTrie(Union(tries))
  BY <1>2, UnionLevelled DEF Levelled
<1>4. CASE pc = "visit"
  BY <1>2, <1>4, WalkWrites DEF StreamInv, StreamAhead
<1>5. CASE pc = "loop"
  BY <1>2, <1>5, WalkWrites DEF StreamInv, StreamBehind
<1>6. CASE pc = "eof"
  BY <1>3, <1>6, AllWritten DEF StreamInv
<1>7. CASE pc = "done" /\ Len(files) = 1
  <2>1. out = Wire(tries[1])
    BY <1>7 DEF StreamInv, StreamWhole
  <2>2. DOMAIN tries = {1} /\ IsTrie(tries[1])
    BY <1>2, <1>7, StreamForest DEF StreamInputs
  <2>3. Wire(Union(tries)) = Wire(tries[1])
    BY <2>2, UnionOfOne DEF Wire
  <2> QED
    BY <1>1, <2>1, <2>2, <2>3, AllWritten
<1>8. CASE pc = "done" /\ Len(files) # 1
  <2>1. out = Wire(Union(tries))
    BY <1>8 DEF StreamInv
  <2> QED
    BY <1>1, <1>3, <2>1, AllWritten
<1> QED
  BY <1>1, <1>4, <1>5, <1>6, <1>7, <1>8 DEF StreamInv

\* and what the header holds in the end.
LEMMA StreamHeader ==
  ASSUME StreamInv
  PROVE  Stream!HeaderTotals
BY StreamTerms DEF StreamInv, Stream!HeaderTotals

\* StreamInv is inductive.
LEMMA StreamStep ==
  ASSUME StreamInv, Stream!Next \/ UNCHANGED Stream!vars
  PROVE  StreamInv'
<1>1. CASE Stream!Next
  <2>1. CASE Stream!ReturnOnly
    BY <2>1, StreamReturnsOnly
  <2>2. CASE Stream!RejectMixed \/ Stream!Truncated
    BY <2>2, StreamRefuses
  <2>3. CASE Stream!Start
    BY <2>3, StreamStarts
  <2>4. CASE Stream!CopyNode
    BY <2>4, StreamCopies
  <2>5. CASE Stream!MergeNode
    BY <2>5, StreamMerges
  <2>6. CASE Stream!NextChild
    BY <2>6, StreamDescends
  <2>7. CASE Stream!Return
    BY <2>7, StreamReturns
  <2>8. CASE Stream!VerifyEnd
    BY <2>8, StreamVerifies
  <2>9. CASE Stream!Ended
    BY <2>9, StreamStays DEF Stream!Ended
  <2> QED
    BY <1>1, <2>1, <2>2, <2>3, <2>4, <2>5, <2>6, <2>7, <2>8, <2>9 DEF Stream!Next, Stream!Walk
<1>2. CASE UNCHANGED Stream!vars
  BY <1>2, StreamStays
<1> QED
  BY <1>1, <1>2

\* What a fold is given: files that are whole or cut.
FoldInputs ==
  /\ Len(files) \in Nat \ {0} /\ DOMAIN tries = 1 .. Len(files) /\ tries \in Seq(FoldTries)
  /\ \A k \in 1 .. Len(files) : files[k] = Wire(tries[k]) \/ files[k] \in Torn(Wire(tries[k]))

\* No file is cut.
FoldWhole == \A k \in 1 .. Len(files) : files[k] = Wire(tries[k])

\* The inputs merged when the current step of the fold began, and the two tries it
\* merges.
Earlier == SubSeq(tries, 1, right - 1)
Pair    == <<Union(Earlier), tries[right]>>

\* The histogram of the inputs read so far.
SoFar   == Pairwise!SoFar

\* A loop in progress.
IsFrame(c) ==
  /\ c = [pop |-> c.pop, todo |-> c.todo, deep |-> c.deep, slot |-> c.slot]
  /\ c.todo \in SUBSET Nat

\* The loops in progress.
Framed(st) == \E R : st \in Seq(R) /\ \A c \in R : IsFrame(c)

\* The loop at depth l is about the first l - 1 bins of the path at hand: it has the
\* masks of both tries there, and the depth that the root bin has.
FoldFrames(at) ==
  \A l \in 1 .. Len(stack) :
    /\ stack[l].pop = [s \in {1, 2} |-> DOMAIN Token(Pair[s], SubSeq(at, 1, l - 1))]
    /\ l > 1 => stack[l].deep = Depth[at[1]]

\* The two-way merge is in the loop of the node `at`.
FoldAt(at) == Behind(Pair, cursor, out, at, Todos(stack)) /\ FoldFrames(at)

\* Where a fold of whole inputs is, for the schemas without 2DxF's break.
FoldProgress ==
  /\ pc \in {"fold", "root", "loop", "eof", "done"}
  /\ pc \in {"fold", "done"} => acc = Wire(SoFar)
  /\ pc \in {"root", "loop", "eof"} => acc = Wire(Union(Earlier))
  /\ pc = "root" => cursor = <<1, 1>> /\ out = <<>>
  /\ pc = "loop" => Framed(stack) /\ \E at : FoldAt(at)
  /\ pc = "eof"  => /\ out = Encode(SoFar)
                    /\ \A s \in {1, 2} : cursor[s] = Cardinality(Nodes(Pair[s])) + 1

\* What is known of the root for every schema: 2DxF's break loses leaves below it only.
RootProgress ==
  /\ pc \in {"fold", "done"} => acc[1] = Token(SoFar, <<>>)
  /\ pc = "root" => acc[1] = Token(Union(Earlier), <<>>) /\ cursor = <<1, 1>> /\ out = <<>>
  /\ pc \in {"loop", "eof"} => /\ \E S : out \in Seq(S)
                               /\ Len(out) > 0 /\ out[1] = Token(SoFar, <<>>)

\* The inductive invariant of the fold.
FoldInv ==
  /\ FoldInputs /\ right \in 1 .. Len(files)
  /\ header = Observed(SoFar)
  /\ pc \in {"root", "loop", "eof"} => right > 1
  /\ pc = "done" => right = Len(files)
  /\ FoldWhole => RootProgress
  /\ FoldWhole /\ ~ LeavesEarly => FoldProgress

\* Each input is a trie of the schema.
LEMMA FoldEach ==
  ASSUME FoldInputs, NEW k \in 1 .. Len(files)
  PROVE  Levelled(tries[k], Depth) /\ IsTrie(tries[k])
<1>1. Len(tries) = Len(files)
  BY LenProperties DEF FoldInputs
<1>2. tries[k] \in FoldTries
  BY <1>1, ElementOfSeq DEF FoldInputs
<1> QED
  BY <1>2, FoldLevelled DEF Levelled

\* The tries at the beginning of the list.
LEMMA FoldFirst ==
  ASSUME FoldInputs, NEW m \in 0 .. Len(files)
  PROVE  LET ts == SubSeq(tries, 1, m) IN DOMAIN ts = 1 .. m /\ \A k \in 1 .. m : ts[k] = tries[k]
<1>1. Len(tries) = Len(files)
  BY LenProperties DEF FoldInputs
<1>2. m \in Nat /\ \A k \in 1 .. m : tries[k] \in FoldTries
  BY <1>1, ElementOfSeq DEF FoldInputs
<1>3. /\ SubSeq(tries, 1, m) \in Seq(FoldTries)
      /\ Len(SubSeq(tries, 1, m)) = IF 1 <= m THEN m - 1 + 1 ELSE 0
      /\ \A i \in 1 .. m - 1 + 1 : SubSeq(tries, 1, m)[i] = tries[1 + i - 1]
  BY <1>2, SubSeqProperties DEF FoldInputs
<1>4. Len(SubSeq(tries, 1, m)) = m /\ \A i \in 1 .. m : SubSeq(tries, 1, m)[i] = tries[i]
  BY <1>2, <1>3
<1>5. DOMAIN SubSeq(tries, 1, m) = 1 .. Len(SubSeq(tries, 1, m))
  BY <1>3, LenProperties
<1> QED
  BY <1>4, <1>5

\* One more input is one more trie in the union.
LEMMA FoldMore ==
  ASSUME FoldInputs, NEW r \in Nat, r > 0, r + 1 <= Len(files),
         NEW pair, pair = <<Union(SubSeq(tries, 1, r)), tries[r + 1]>>,
         NEW all, all = SubSeq(tries, 1, r + 1)
  PROVE  OneMore(Depth, all, r, SubSeq(tries, 1, r), pair)
<1> DEFINE fewer == SubSeq(tries, 1, r)
<1>1. r + 1 \in 0 .. Len(files) /\ r \in 0 .. Len(files)
  BY DEF FoldInputs
<1>2. DOMAIN all = 1 .. r + 1 /\ \A k \in 1 .. r + 1 : all[k] = tries[k]
  BY <1>1, FoldFirst
<1>3. DOMAIN fewer = 1 .. r /\ \A k \in 1 .. r : fewer[k] = tries[k]
  BY <1>1, FoldFirst
<1>4. DOMAIN pair = {1, 2} /\ pair[1] = Union(fewer) /\ pair[2] = tries[r + 1]
  OBVIOUS
<1>5. \A k \in 1 .. r + 1 : Levelled(all[k], Depth)
  <2>1. \A k \in 1 .. r + 1 : k \in 1 .. Len(files)
    BY <1>1 DEF FoldInputs
  <2> QED
    BY <1>2, <2>1, FoldEach
<1>6. /\ \A k \in 1 .. r : fewer[k] = all[k]
      /\ all[r + 1] = tries[r + 1]
  BY <1>1, <1>2, <1>3
<1> HIDE DEF fewer
<1> QED
  BY <1>2, <1>3, <1>4, <1>5, <1>6 DEF OneMore

\* A step of the fold is a merge of two tries.
LEMMA FoldPair ==
  ASSUME FoldInputs, right \in 1 .. Len(files), right > 1
  PROVE  /\ Forest(Pair, Depth) /\ DOMAIN Pair = {1, 2}
         /\ Pair[1] = Union(Earlier) /\ Pair[2] = tries[right]
         /\ Union(Pair) = SoFar /\ IsTrie(SoFar) /\ IsTrie(Union(Earlier))
<1> DEFINE r == right - 1
<1>1. r \in Nat /\ r > 0 /\ right = r + 1 /\ r + 1 <= Len(files)
  BY DEF FoldInputs
<1>2. SoFar = Union(SubSeq(tries, 1, right)) /\ Earlier = SubSeq(tries, 1, r)
  BY FoldTerms DEF SoFar, Pairwise!SoFar, Earlier
<1>3. Pair = <<Union(SubSeq(tries, 1, r)), tries[r + 1]>> /\ SubSeq(tries, 1, right) = SubSeq(tries, 1, r + 1)
  BY <1>1, <1>2 DEF Pair
<1> DEFINE all == SubSeq(tries, 1, right)
<1> HIDE DEF r, all
<1>4. OneMore(Depth, all, r, Earlier, Pair)
  BY <1>1, <1>2, <1>3, FoldMore DEF all
<1>5. Forest(all, Depth) /\ Forest(Earlier, Depth) /\ Forest(Pair, Depth) /\ Union(Pair) = Union(all)
  BY <1>4, UnionOfMore
<1>6. IsTrie(Union(all)) /\ IsTrie(Union(Earlier))
  BY <1>5, UnionLevelled DEF Levelled
<1>7. DOMAIN Pair = {1, 2} /\ Pair[1] = Union(Earlier) /\ Pair[2] = tries[right]
  BY DEF Pair
<1> QED
  BY <1>2, <1>5, <1>6, <1>7 DEF all

\* What the two buffers hold at the cursors is the node, where they have it.
LEMMA FoldReads ==
  ASSUME FoldInputs, right \in 1 .. Len(files), right > 1,
         acc = Wire(Union(Earlier)), files[right] = Wire(tries[right]),
         NEW o, NEW at, NEW todo, Ahead(Pair, cursor, o, at, todo)
  PROVE  /\ at \in Paths /\ Sharing(Pair, at) \subseteq {1, 2}
         /\ \A s \in Sharing(Pair, at) : Pairwise!HasNode(s) /\ Pairwise!NodeAt(s) = Token(Pair[s], at)
         /\ Pairwise!Sum(Sharing(Pair, at)) = Token(Union(Pair), at)
         /\ UNION {DOMAIN Pairwise!NodeAt(s) : s \in Sharing(Pair, at)} = DOMAIN Token(Union(Pair), at)
<1>1. Forest(Pair, Depth) /\ DOMAIN Pair = {1, 2} /\ Pair[1] = Union(Earlier) /\ Pair[2] = tries[right]
  BY FoldPair
<1>2. at \in Paths /\ Sharing(Pair, at) \subseteq {1, 2}
  BY <1>1, WalkAt
<1>3. ASSUME NEW s \in Sharing(Pair, at)
      PROVE  Pairwise!HasNode(s) /\ Pairwise!NodeAt(s) = Token(Pair[s], at)
  <2> DEFINE n == Cardinality(Nodes(Pair[s]))
  <2>1. Pairwise!Buffer(s) = Wire(Pair[s])
    BY <1>1, <1>2 DEF Pairwise!Buffer
  <2>2. Levelled(Pair[s], Depth) /\ IsTrie(Pair[s])
    BY <1>1, <1>2 DEF Forest, Levelled
  <2>3. cursor[s] \in 1 .. n /\ Encode(Pair[s])[cursor[s]] = Token(Pair[s], at)
    BY <1>1, WalkReads
  <2>4. /\ n \in Nat /\ Len(Wire(Pair[s])) = n + 1
        /\ \A k \in 1 .. n : Wire(Pair[s])[k] = Encode(Pair[s])[k]
    BY <2>2, WireIs
  <2>5. Token(Pair[s], at) # EOF
    BY <1>1, <1>2, <2>2, TokenUnlikeEOF DEF Sharing
  <2> HIDE DEF n
  <2> QED
    BY <2>1, <2>3, <2>4, <2>5 DEF Pairwise!HasNode, Pairwise!NodeAt
<1>4. Token(Union(Pair), at) = SumTokens([s \in Sharing(Pair, at) |-> Token(Pair[s], at)])
  BY <1>1, <1>2, SharedToken
<1>5. Pairwise!Sum(Sharing(Pair, at)) = Token(Union(Pair), at)
  <2>1. [s \in Sharing(Pair, at) |-> Pairwise!NodeAt(s)] = [s \in Sharing(Pair, at) |-> Token(Pair[s], at)]
    BY <1>3
  <2> QED
    BY <1>4, <2>1, FoldTerms DEF Pairwise!Sum
<1>6. UNION {DOMAIN Pairwise!NodeAt(s) : s \in Sharing(Pair, at)} = DOMAIN Token(Union(Pair), at)
  <2> DEFINE fs == [s \in Sharing(Pair, at) |-> Token(Pair[s], at)]
  <2>1. DOMAIN SumTokens(fs) = UNION {DOMAIN fs[s] : s \in DOMAIN fs}
    <3> HIDE DEF fs
    <3> QED
      BY DEF SumTokens
  <2>2. UNION {DOMAIN fs[s] : s \in DOMAIN fs} = UNION {DOMAIN Pairwise!NodeAt(s) : s \in Sharing(Pair, at)}
    BY <1>3
  <2> QED
    BY <1>4, <2>1, <2>2
<1> QED
  BY <1>2, <1>3, <1>5, <1>6

\* The first token of a file is the root's.
LEMMA RootFirst ==
  ASSUME NEW D, NEW t, Levelled(t, D)
  PROVE  Wire(t)[1] = Token(t, <<>>) /\ <<>> \in Paths
<1> DEFINE ts == <<t>>
           c == <<1>>
           todo == <<{}>>
<1>1. Forest(ts, D) /\ DOMAIN ts = {1} /\ ts[1] = t
  <2>1. DOMAIN ts = {1} /\ ts[1] = t /\ IsFiniteSet({1})
    BY FS_Singleton
  <2> HIDE DEF ts
  <2> QED
    BY <2>1 DEF Forest
<1>2. (\A k \in DOMAIN ts : c[k] = 1) /\ c[1] = 1
  BY <1>1
<1> HIDE DEF ts, c, todo
<1>3. Ahead(ts, c, <<>>, <<>>, todo) /\ Sharing(ts, <<>>) = {1}
  BY <1>1, <1>2, WalkStarts DEF todo
<1>4. 1 \in 1 .. Cardinality(Nodes(t)) /\ Encode(t)[1] = Token(t, <<>>)
  BY <1>1, <1>2, <1>3, WalkReads
<1>5. Wire(t)[1] = Encode(t)[1]
  BY <1>4, WireIs DEF Levelled
<1>6. <<>> \in Paths
  BY DEF Paths
<1> QED
  BY <1>4, <1>5, <1>6

\* A place that is no node has nothing in it.
LEMMA NotANode ==
  ASSUME NEW t, IsTrie(t), NEW q \in Paths, q \notin Nodes(t)
  PROVE  DOMAIN Token(t, q) = {}
<1>1. Below(t, q) = {}
  BY BelowIs, NodeIs
<1>2. DOMAIN Token(t, q) = {BinAfter(p, q) : p \in Below(t, q)}
  BY TokenIs
<1> QED
  BY <1>1, <1>2

\* The inputs so far are a trie of the schema.
LEMMA SoFarIs ==
  ASSUME FoldInputs, right \in 1 .. Len(files)
  PROVE  Levelled(SoFar, Depth) /\ SoFar = Union(SubSeq(tries, 1, right))
<1> DEFINE ts == SubSeq(tries, 1, right)
<1>1. right \in 0 .. Len(files) /\ right \in Nat /\ 1 \in 1 .. right
  BY DEF FoldInputs
<1>2. DOMAIN ts = 1 .. right /\ \A k \in 1 .. right : ts[k] = tries[k]
  BY <1>1, FoldFirst
<1>3. \A k \in 1 .. right : Levelled(tries[k], Depth)
  <2>1. \A k \in 1 .. right : k \in 1 .. Len(files)
    BY DEF FoldInputs
  <2> QED
    BY <2>1, FoldEach
<1>4. SoFar = Union(ts)
  BY FoldTerms DEF SoFar, Pairwise!SoFar
<1>5. IsFiniteSet(1 .. right)
  BY <1>1, FS_Interval
<1> HIDE DEF ts
<1>6. Forest(ts, Depth)
  BY <1>1, <1>2, <1>3, <1>5 DEF Forest
<1> QED
  BY <1>4, <1>6, UnionLevelled DEF ts

\* A cut file has lost its marker.
LEMMA FoldWholeIs ==
  ASSUME FoldInputs
  PROVE  Pairwise!AllWhole <=> FoldWhole
<1>1. ASSUME NEW k \in 1 .. Len(files)
      PROVE  files[k] # <<>> /\ Last(files[k]) = EOF <=> files[k] = Wire(tries[k])
  <2> DEFINE n == Cardinality(Nodes(tries[k]))
             w == Wire(tries[k])
             E == Encode(tries[k])
             f == files[k]
  <2>1. Levelled(tries[k], Depth) /\ IsTrie(tries[k])
    BY FoldEach
  <2>2. n \in Nat \ {0} /\ Len(w) = n + 1 /\ (\A i \in 1 .. n : w[i] = E[i]) /\ w[n + 1] = EOF
    BY <2>1, WireIs
  <2>3. PICK S : w \in Seq(S)
    BY <2>1, WireIs
  <2>4. \A i \in 1 .. n : E[i] # EOF
    BY <2>1, NoEOFInside
  <2>5. f = w \/ f \in Torn(w)
    BY DEF FoldInputs
  <2> HIDE DEF n, w, E, f
  <2>6. CASE f = w
    BY <2>2, <2>3, <2>6 DEF Last, f, w
  <2>7. CASE f \in Torn(w)
    <3>1. PICK m \in 0 .. Len(w) - 1 : f = SubSeq(w, 1, m)
      BY <2>7 DEF Torn
    <3>2. m \in Nat /\ m <= n /\ \A i \in 1 .. m : w[i] \in S
      BY <2>2, <2>3, <3>1
    <3>3. /\ f \in Seq(S) /\ Len(f) = IF 1 <= m THEN m - 1 + 1 ELSE 0
          /\ \A i \in 1 .. m - 1 + 1 : f[i] = w[1 + i - 1]
      BY <2>3, <3>1, <3>2, SubSeqProperties
    <3>4. Len(f) = m /\ \A i \in 1 .. m : f[i] = w[i]
      BY <3>2, <3>3
    <3>5. f # w
      BY <2>2, <3>2, <3>4
    <3>6. f # <<>> => Last(f) # EOF
      <4>1. f # <<>> => m > 0
        BY <3>3, <3>4, EmptySeq
      <4>2. m > 0 => Last(f) = E[m] /\ m \in 1 .. n
        BY <2>2, <3>2, <3>4 DEF Last
      <4> QED
        BY <2>4, <3>2, <4>1, <4>2
    <3> QED
      BY <3>5, <3>6 DEF f, w
  <2> QED
    BY <2>5, <2>6, <2>7
<1> QED
  BY <1>1, FoldTerms DEF Pairwise!AllWhole, Pairwise!N, FoldWhole

\* FoldInv holds of the first state.
LEMMA FoldInit ==
  ASSUME Pairwise!Init
  PROVE  FoldInv
<1>1. PICK m \in 1 .. MaxInputs : tries \in [1 .. m -> FoldTries]
  BY DEF Pairwise!Init
<1>2. m \in Nat \ {0}
  BY <1>1, InputsAssumption
<1>3. tries \in Seq(FoldTries) /\ DOMAIN tries = 1 .. m
  BY <1>1, <1>2, SeqDef
<1>4. Len(files) = m /\ \A k \in 1 .. m : files[k] = Wire(tries[k]) \/ files[k] \in Torn(Wire(tries[k]))
  <2>1. ASSUME NEW e, files = [k \in 1 .. m |-> e[k]]
        PROVE  Len(files) = m /\ \A k \in 1 .. m : files[k] = e[k]
    BY <1>2, <2>1, Listed
  <2>2. CASE files = [k \in DOMAIN tries |-> Pairwise!Wire(tries[k])]
    <3> DEFINE e == [k \in 1 .. m |-> Wire(tries[k])]
    <3>1. files = [k \in 1 .. m |-> e[k]]
      BY <1>1, <2>2, FoldTerms
    <3> HIDE DEF e
    <3>2. Len(files) = m /\ \A k \in 1 .. m : files[k] = e[k]
      BY <2>1, <3>1
    <3> QED
      BY <3>2 DEF e
  <2>3. ASSUME NEW d \in DOMAIN tries, NEW w \in Pairwise!Torn(Pairwise!Wire(tries[d])),
               files = [k \in DOMAIN tries |-> IF k = d THEN w ELSE Pairwise!Wire(tries[k])]
        PROVE  Len(files) = m /\ \A k \in 1 .. m : files[k] = Wire(tries[k]) \/ files[k] \in Torn(Wire(tries[k]))
    <3> DEFINE e == [k \in 1 .. m |-> IF k = d THEN w ELSE Wire(tries[k])]
    <3>1. files = [k \in 1 .. m |-> e[k]]
      BY <1>1, <2>3, FoldTerms
    <3>2. \A k \in 1 .. m : e[k] = Wire(tries[k]) \/ e[k] \in Torn(Wire(tries[k]))
      BY <2>3, FoldTerms
    <3> HIDE DEF e
    <3>3. Len(files) = m /\ \A k \in 1 .. m : files[k] = e[k]
      BY <2>1, <3>1
    <3> QED
      BY <3>2, <3>3
  <2> QED
    BY <2>2, <2>3 DEF Pairwise!Init
<1>5. FoldInputs
  BY <1>2, <1>3, <1>4 DEF FoldInputs
<1>6. pc = "fold" /\ acc = files[1] /\ right = 1 /\ header = Observed(tries[1])
  BY FoldTerms DEF Pairwise!Init
<1>7. right \in 1 .. Len(files) /\ 1 \in 1 .. Len(files)
  BY <1>2, <1>4, <1>6
<1>8. Encode(SoFar) = Encode(tries[1]) /\ Observed(SoFar) = Observed(tries[1])
  <2> DEFINE ts == SubSeq(tries, 1, right)
  <2>1. right \in 0 .. Len(files)
    BY <1>7 DEF FoldInputs
  <2>2. DOMAIN ts = 1 .. 1 /\ ts[1] = tries[1]
    BY <1>5, <1>6, <2>1, FoldFirst
  <2>3. IsTrie(tries[1]) /\ SoFar = Union(ts)
    BY <1>5, <1>7, FoldEach, SoFarIs
  <2> HIDE DEF ts
  <2>4. DOMAIN ts = {1}
    BY <2>2
  <2> QED
    BY <2>2, <2>3, <2>4, UnionOfOne
<1>9. FoldWhole => acc = Wire(SoFar) /\ acc[1] = Token(SoFar, <<>>)
  <2>1. FoldWhole => acc = Wire(SoFar)
    BY <1>6, <1>7, <1>8 DEF FoldWhole, Wire
  <2>2. Wire(SoFar)[1] = Token(SoFar, <<>>)
    BY <1>5, <1>7, SoFarIs, RootFirst
  <2> QED
    BY <2>1, <2>2
<1> QED
  BY <1>5, <1>6, <1>7, <1>8, <1>9 DEF FoldInv, FoldProgress, RootProgress

\* What holds of a step whatever the buffers hold: the header is the sum of the headers
\* so far, and the inputs are left alone.
LEMMA FoldBase ==
  ASSUME FoldInv, Pairwise!Next \/ UNCHANGED Pairwise!vars
  PROVE  /\ FoldInputs' /\ (right \in 1 .. Len(files))'
         /\ (header = Observed(SoFar))'
         /\ (pc \in {"root", "loop", "eof"} => right > 1)'
         /\ (pc = "done" => right = Len(files))'
         /\ FoldWhole' = FoldWhole /\ UNCHANGED <<tries, files>>
<1>1. FoldInputs /\ right \in 1 .. Len(files) /\ right \in Nat
  BY DEF FoldInv, FoldInputs
<1>2. UNCHANGED <<tries, files>>
  BY DEF Pairwise!Next, Pairwise!Merge, Pairwise!NextInput, Pairwise!FoldDone, Pairwise!MergeRoots,
         Pairwise!RootTruncated, Pairwise!FirstOnly, Pairwise!SecondOnly, Pairwise!InBoth, Pairwise!Descend,
         Pairwise!Leaf, Pairwise!LeafMissing, Pairwise!PassOver, Pairwise!NullChild, Pairwise!LoopDone,
         Pairwise!AddEOF, Pairwise!Ended, Pairwise!vars, Pairwise!inputs
<1>3. FoldInputs' /\ FoldWhole' = FoldWhole
  BY <1>1, <1>2 DEF FoldInputs, FoldWhole
<1>4. CASE Pairwise!NextInput
  <2>1. /\ right < Len(files) /\ right' = right + 1 /\ pc' = "root"
        /\ header' = (header + Observed(tries[right + 1])) % CountMod
    BY <1>4, FoldTerms DEF Pairwise!NextInput, Pairwise!N
  <2>2. right + 1 \in 1 .. Len(files) /\ right > 0 /\ right + 1 <= Len(files) /\ right + 1 > 1
    BY <1>1, <2>1 DEF FoldInputs
  <2>3. SoFar = Union(SubSeq(tries, 1, right)) /\ SoFar' = Union(SubSeq(tries, 1, right + 1))
    BY <1>2, <2>1, FoldTerms DEF SoFar, Pairwise!SoFar
  <2>4. Observed(SoFar') = (Observed(SoFar) + Observed(tries[right + 1])) % CountMod
    <3> DEFINE all  == SubSeq(tries, 1, right + 1)
               few  == SubSeq(tries, 1, right)
               pair == <<Union(few), tries[right + 1]>>
    <3>1. OneMore(Depth, all, right, few, pair)
      BY <1>1, <2>2, FoldMore
    <3>2. right + 1 \in 0 .. Len(files) /\ right + 1 \in 1 .. right + 1
      BY <1>1, <2>2 DEF FoldInputs
    <3>3. all[right + 1] = tries[right + 1]
      BY <1>1, <3>2, FoldFirst
    <3> HIDE DEF all, few, pair
    <3>4. Observed(Union(all)) = (Observed(Union(few)) + Observed(all[right + 1])) % CountMod
      BY <3>1, UnionOfMore
    <3> QED
      BY <2>3, <3>3, <3>4 DEF all, few
  <2>5. header = Observed(SoFar)
    BY DEF FoldInv
  <2> QED
    BY <1>2, <1>3, <2>1, <2>2, <2>4, <2>5
<1>5. CASE ~ Pairwise!NextInput
  <2>1. UNCHANGED <<right, header>>
    BY <1>5
       DEF Pairwise!Next, Pairwise!Merge, Pairwise!FoldDone, Pairwise!MergeRoots,
         Pairwise!RootTruncated, Pairwise!FirstOnly, Pairwise!SecondOnly, Pairwise!InBoth, Pairwise!Descend,
         Pairwise!Leaf, Pairwise!LeafMissing, Pairwise!PassOver, Pairwise!NullChild, Pairwise!LoopDone,
         Pairwise!AddEOF, Pairwise!Ended, Pairwise!vars
  <2>2. SoFar' = SoFar
    BY <1>2, <2>1, FoldTerms DEF SoFar, Pairwise!SoFar
  <2>3. pc' \in {"root", "loop", "eof"} => pc \in {"root", "loop", "eof"}
    BY <1>5
       DEF Pairwise!Next, Pairwise!Merge, Pairwise!FoldDone, Pairwise!MergeRoots,
         Pairwise!RootTruncated, Pairwise!FirstOnly, Pairwise!SecondOnly, Pairwise!InBoth, Pairwise!Descend, Pairwise!Looping,
         Pairwise!Leaf, Pairwise!LeafMissing, Pairwise!PassOver, Pairwise!NullChild, Pairwise!LoopDone,
         Pairwise!AddEOF, Pairwise!Ended, Pairwise!vars
  <2>4. pc' = "done" => pc = "done" \/ right = Len(files)
    BY <1>5
       DEF Pairwise!Next, Pairwise!Merge, Pairwise!FoldDone, Pairwise!MergeRoots, Pairwise!N,
         Pairwise!RootTruncated, Pairwise!FirstOnly, Pairwise!SecondOnly, Pairwise!InBoth, Pairwise!Descend, Pairwise!Looping,
         Pairwise!Leaf, Pairwise!LeafMissing, Pairwise!PassOver, Pairwise!NullChild, Pairwise!LoopDone,
         Pairwise!AddEOF, Pairwise!Ended, Pairwise!vars
  <2> QED
    BY <1>1, <1>2, <1>3, <2>1, <2>2, <2>3, <2>4 DEF FoldInv
<1> QED
  BY <1>4, <1>5

\* The sum of the two roots is the root of the union.
LEMMA RootSum ==
  ASSUME FoldInputs, right \in 1 .. Len(files), right > 1, FoldWhole,
         acc[1] = Token(Union(Earlier), <<>>), cursor = <<1, 1>>
  PROVE  Pairwise!Sum(Pairwise!Sides) = Token(SoFar, <<>>)
<1>1. /\ Forest(Pair, Depth) /\ DOMAIN Pair = {1, 2} /\ Union(Pair) = SoFar
      /\ Pair[1] = Union(Earlier) /\ Pair[2] = tries[right]
  BY FoldPair
<1>2. files[right] = Wire(tries[right]) /\ Levelled(tries[right], Depth)
  BY FoldEach DEF FoldWhole
<1>3. files[right][1] = Token(tries[right], <<>>) /\ <<>> \in Paths
  BY <1>2, RootFirst
<1>4. Sharing(Pair, <<>>) = {1, 2}
  BY <1>1, ForestNodes DEF Sharing
<1>5. Token(SoFar, <<>>) = SumTokens([s \in {1, 2} |-> Token(Pair[s], <<>>)])
  BY <1>1, <1>3, <1>4, SharedToken
<1>6. \A s \in {1, 2} : Pairwise!NodeAt(s) = Token(Pair[s], <<>>)
  BY <1>1, <1>3 DEF Pairwise!NodeAt, Pairwise!Buffer
<1>7. [s \in {1, 2} |-> Pairwise!NodeAt(s)] = [s \in {1, 2} |-> Token(Pair[s], <<>>)]
  BY <1>6
<1> QED
  BY <1>5, <1>7, FoldTerms DEF Pairwise!Sum, Pairwise!Sides

\* Writing on does not change what was written first.
LEMMA AppendKeeps ==
  ASSUME NEW o, \E S : o \in Seq(S), Len(o) > 0, NEW x
  PROVE  /\ \E S : Append(o, x) \in Seq(S)
         /\ Len(Append(o, x)) > 0 /\ Append(o, x)[1] = o[1]
<1>1. PICK S : o \in Seq(S)
  OBVIOUS
<1> DEFINE T == S \cup {x}
<1>2. x \in T /\ S \subseteq T
  OBVIOUS
<1> HIDE DEF T
<1>3. o \in Seq(T)
  BY <1>1, <1>2, SeqMonotonic
<1>4. Len(o) \in Nat /\ 1 \in 1 .. Len(o)
  BY <1>3, LenProperties
<1> QED
  BY <1>2, <1>3, <1>4, AppendProperties

\* The root's part of FoldInv is kept.
LEMMA RootStep ==
  ASSUME FoldInv, FoldWhole, Pairwise!Next \/ UNCHANGED Pairwise!vars
  PROVE  RootProgress'
<1>1. FoldInputs /\ right \in 1 .. Len(files) /\ right \in Nat /\ RootProgress
  BY DEF FoldInv, FoldInputs
<1>2. UNCHANGED <<tries, files>>
  BY FoldBase
<1>3. CASE Pairwise!NextInput
  <2>1. /\ pc = "fold" /\ right' = right + 1 /\ pc' = "root" /\ acc' = acc /\ cursor' = <<1, 1>> /\ out' = <<>>
    BY <1>3 DEF Pairwise!NextInput
  <2>2. right + 1 - 1 = right
    BY <1>1
  <2>3. Union(Earlier)' = SoFar
    BY <1>1, <1>2, <2>1, <2>2, SoFarIs DEF Earlier
  <2> QED
    BY <1>1, <2>1, <2>3 DEF RootProgress
<1>4. ASSUME UNCHANGED <<right, tries>>
      PROVE  SoFar' = SoFar /\ Union(Earlier)' = Union(Earlier)
  BY <1>4, FoldTerms DEF SoFar, Pairwise!SoFar, Earlier
<1>5. CASE Pairwise!MergeRoots
  <2>1. /\ pc = "root" /\ pc' = "loop" /\ UNCHANGED right /\ out' = <<Pairwise!Sum(Pairwise!Sides)>>
    BY <1>5 DEF Pairwise!MergeRoots
  <2>2. right > 1 /\ acc[1] = Token(Union(Earlier), <<>>) /\ cursor = <<1, 1>>
    BY <1>1, <2>1 DEF FoldInv, RootProgress
  <2>3. Pairwise!Sum(Pairwise!Sides) = Token(SoFar, <<>>)
    BY <1>1, <2>2, RootSum
  <2>4. /\ out' \in Seq({Token(SoFar, <<>>)}) /\ Len(out') > 0 /\ out'[1] = Token(SoFar, <<>>)
    BY <2>1, <2>3
  <2> QED
    BY <1>2, <1>4, <2>1, <2>4 DEF RootProgress
<1>6. CASE Pairwise!FoldDone \/ Pairwise!RootTruncated \/ Pairwise!Ended \/ UNCHANGED Pairwise!vars
           \/ Pairwise!NullChild \/ Pairwise!PassOver \/ Pairwise!LoopDone
  <2>1. /\ UNCHANGED <<right, acc, out, cursor>>
        /\ \/ pc' = pc \/ pc' \in {"refused", "trap"}
           \/ pc = "fold" /\ pc' = "done"
           \/ pc = "loop" /\ pc' \in {"loop", "eof"}
    BY <1>6 DEF Pairwise!FoldDone, Pairwise!RootTruncated, Pairwise!Ended, Pairwise!vars,
                Pairwise!NullChild, Pairwise!PassOver, Pairwise!LoopDone
  <2> QED
    BY <1>1, <1>2, <1>4, <2>1 DEF RootProgress
<1>7. CASE Pairwise!FirstOnly \/ Pairwise!SecondOnly \/ Pairwise!InBoth
  <2>1. /\ pc = "loop" /\ pc' = "loop" /\ UNCHANGED right /\ \E x : out' = Append(out, x)
    BY <1>7 DEF Pairwise!FirstOnly, Pairwise!SecondOnly, Pairwise!InBoth, Pairwise!Looping,
                Pairwise!Descend, Pairwise!Leaf, Pairwise!LeafMissing
  <2>2. (\E S : out \in Seq(S)) /\ Len(out) > 0 /\ out[1] = Token(SoFar, <<>>)
    BY <1>1, <2>1 DEF RootProgress
  <2>3. (\E S : out' \in Seq(S)) /\ Len(out') > 0 /\ out'[1] = out[1]
    BY <2>1, <2>2, AppendKeeps
  <2> QED
    BY <1>2, <1>4, <2>1, <2>2, <2>3 DEF RootProgress
<1>8. CASE Pairwise!AddEOF
  <2>1. /\ pc = "eof" /\ pc' = "fold" /\ UNCHANGED right /\ acc' = Append(out, EOF)
    BY <1>8 DEF Pairwise!AddEOF
  <2>2. (\E S : out \in Seq(S)) /\ Len(out) > 0 /\ out[1] = Token(SoFar, <<>>)
    BY <1>1, <2>1 DEF RootProgress
  <2>3. acc'[1] = out[1]
    BY <2>1, <2>2, AppendKeeps
  <2> QED
    BY <1>2, <1>4, <2>1, <2>2, <2>3 DEF RootProgress
<1> QED
  BY <1>3, <1>5, <1>6, <1>7, <1>8 DEF Pairwise!Next, Pairwise!Merge

\* The two buffers of a step of the fold are whole.
Buffered ==
  /\ FoldInputs /\ right \in 1 .. Len(files) /\ right > 1
  /\ acc = Wire(Union(Earlier)) /\ files[right] = Wire(tries[right])

\* The bins that the loops have left.
LEMMA FrameTodos ==
  ASSUME NEW st, Framed(st)
  PROVE  /\ Len(st) \in Nat /\ Todos(st) \in Seq(SUBSET Nat) /\ Len(Todos(st)) = Len(st)
         /\ \A l \in 1 .. Len(st) : Todos(st)[l] = st[l].todo /\ IsFrame(st[l])
<1>1. PICK R : st \in Seq(R) /\ \A c \in R : IsFrame(c)
  BY DEF Framed
<1>2. \A c \in R : c.todo \in SUBSET Nat
  BY <1>1 DEF IsFrame
<1>3. /\ Len(st) \in Nat /\ Todos(st) \in Seq(SUBSET Nat) /\ Len(Todos(st)) = Len(st)
      /\ \A l \in 1 .. Len(st) : Todos(st)[l] = st[l].todo
  BY <1>1, <1>2, TodosAre
<1>4. \A l \in 1 .. Len(st) : IsFrame(st[l])
  BY <1>1, ElementOfSeq
<1> QED
  BY <1>3, <1>4

\* A loop with other bins left.
LEMMA FrameLeft ==
  ASSUME NEW f, NEW p, NEW t, NEW d, NEW s, f = [pop |-> p, todo |-> t, deep |-> d, slot |-> s], NEW x
  PROVE  [f EXCEPT !.todo = x] = [pop |-> p, todo |-> x, deep |-> d, slot |-> s]
OBVIOUS

\* The loop at hand without the bin it is at.
LEMMA FoldAdvanced ==
  ASSUME ~ LeavesEarly, Framed(stack), Len(stack) > 0, Pairwise!Looping, NEW i, i = Pairwise!Bin
  PROVE  /\ i \in Nat
         /\ Framed(Pairwise!Advanced) /\ Len(Pairwise!Advanced) = Len(stack)
         /\ \A l \in 1 .. Len(stack) :
              /\ Pairwise!Advanced[l].pop = stack[l].pop /\ Pairwise!Advanced[l].deep = stack[l].deep
              /\ Pairwise!Advanced[l].todo = IF l = Len(stack) THEN stack[l].todo \ {i} ELSE stack[l].todo
         /\ \E next : Deeper(next, Todos(stack), i)
<1> DEFINE n == Len(stack)
           c == [stack[n] EXCEPT !.todo = stack[n].todo \ {i}]
           new == [stack EXCEPT ![n] = c]
<1>1. n \in Nat /\ n \in 1 .. n /\ IsFrame(stack[n]) /\ stack[n].todo \in SUBSET Nat /\ stack[n].todo # {}
  BY FrameTodos DEF IsFrame, Pairwise!Looping, Pairwise!Top, Pairwise!Level
<1>2. i \in stack[n].todo /\ i \in Nat /\ \A b \in stack[n].todo : i <= b
  <2>1. i = Min(stack[n].todo)
    BY FoldTerms DEF Pairwise!Bin, Pairwise!Top, Pairwise!Level
  <2>2. i \in stack[n].todo /\ \A b \in stack[n].todo : i <= b
    BY <1>1, <2>1, LeastNat
  <2> QED
    BY <1>1, <2>2
<1>3. Pairwise!Advanced = new
  BY DEF Pairwise!Advanced, Pairwise!Rest, Pairwise!Bin, Pairwise!Top, Pairwise!Level
<1>4. IsFrame(c) /\ c.pop = stack[n].pop /\ c.deep = stack[n].deep /\ c.todo = stack[n].todo \ {i}
  <2> DEFINE f == stack[n]
             x == f.todo \ {i}
  <2>1. f = [pop |-> f.pop, todo |-> f.todo, deep |-> f.deep, slot |-> f.slot] /\ f.todo \in SUBSET Nat
    BY <1>1 DEF IsFrame
  <2>2. c = [f EXCEPT !.todo = x]
    OBVIOUS
  <2> HIDE DEF f, c, x
  <2>3. c = [pop |-> f.pop, todo |-> x, deep |-> f.deep, slot |-> f.slot]
    BY <2>1, <2>2, FrameLeft
  <2>4. c.pop = f.pop /\ c.todo = x /\ c.deep = f.deep /\ c.slot = f.slot
    BY <2>3
  <2> QED
    BY <2>1, <2>3, <2>4 DEF IsFrame, f, x
<1>5. PICK R : stack \in Seq(R) /\ \A x \in R : IsFrame(x)
  BY DEF Framed
<1> DEFINE T == R \cup {c}
<1> HIDE DEF c
<1>6. stack \in Seq(T) /\ c \in T /\ \A x \in T : IsFrame(x)
  <2>1. R \subseteq T /\ c \in T /\ \A x \in T : IsFrame(x)
    BY <1>4, <1>5
  <2> HIDE DEF T
  <2> QED
    BY <1>5, <2>1, SeqMonotonic
<1> HIDE DEF T
<1>7. new \in Seq(T) /\ Len(new) = n /\ \A l \in 1 .. n : new[l] = IF l = n THEN c ELSE stack[l]
  BY <1>1, <1>6, Replaced
<1> HIDE DEF new
<1>8. Framed(new)
  BY <1>6, <1>7 DEF Framed
<1>9. \A l \in 1 .. n : /\ new[l].pop = stack[l].pop /\ new[l].deep = stack[l].deep
                        /\ new[l].todo = IF l = n THEN stack[l].todo \ {i} ELSE stack[l].todo
  BY <1>4, <1>7
<1>10. \E next : Deeper(next, Todos(stack), i)
  <2> DEFINE todo == Todos(stack)
             less == todo[n] \ {i}
  <2>1. todo \in Seq(SUBSET Nat) /\ Len(todo) = n /\ todo[n] = stack[n].todo
    BY <1>1, FrameTodos
  <2>2. less \in SUBSET Nat /\ {} \in SUBSET Nat
    BY <1>1, <2>1
  <2> HIDE DEF todo, less
  <2>3. PICK next : next = Append([todo EXCEPT ![Len(todo)] = less], {})
    OBVIOUS
  <2>4. /\ next \in Seq(SUBSET Nat) /\ Len(next) = Len(todo) + 1 /\ Len(todo) \in Nat
        /\ \A l \in 1 .. Len(next) : next[l] = IF l = Len(next) THEN {} ELSE IF l = Len(todo) THEN less ELSE todo[l]
    BY <1>1, <2>1, <2>2, <2>3, Called
  <2>5. i \in todo[Len(todo)] /\ \A b \in todo[Len(todo)] : i <= b
    BY <1>2, <2>1
  <2>6. \A l : l = Len(todo) => less = todo[l] \ {i}
    BY <2>1 DEF less
  <2>7. Deeper(next, todo, i)
    BY <2>4, <2>5, <2>6 DEF Deeper
  <2> QED
    BY <2>7 DEF todo
<1> QED
  BY <1>2, <1>3, <1>7, <1>8, <1>9, <1>10

\* The child that the loop is at: who has it, what it holds and how deep it lies.
LEMMA FoldChild ==
  ASSUME Buffered, Framed(stack), NEW at, FoldAt(at), NEW i, i = Pairwise!Bin,
         NEW next, Deeper(next, Todos(stack), i), NEW to, to = Append(at, i)
  PROVE  /\ at \in Paths /\ to \in Paths /\ i \in Nat
         /\ Len(stack) = Len(at) + 1 /\ Len(at) \in Nat /\ Len(to) = Len(stack)
         /\ Ahead(Pair, cursor, out, to, next)
         /\ Pairwise!Holders = Sharing(Pair, to)
         /\ Pairwise!Deep = Depth[to[1]]
<1> DEFINE n == Len(stack)
<1>1. Forest(Pair, Depth) /\ DOMAIN Pair = {1, 2} /\ Behind(Pair, cursor, out, at, Todos(stack))
  BY FoldPair DEF Buffered, FoldAt
<1>2. /\ at \in Paths /\ i \in Nat /\ Len(Todos(stack)) = Len(at) + 1
      /\ Ahead(Pair, cursor, out, to, next)
      /\ \A s \in DOMAIN Pair : s \in Sharing(Pair, to) <=> i \in DOMAIN Token(Pair[s], at)
  BY <1>1, WalkEnters
<1>3. n = Len(at) + 1 /\ Len(at) \in Nat /\ n \in 1 .. n
  BY <1>2, FrameTodos DEF Paths
<1>4. /\ to \in Paths /\ Len(to) = n
      /\ (\A l \in 1 .. Len(at) : to[l] = at[l]) /\ to[Len(at) + 1] = i
  BY <1>2, <1>3, Extended
<1>5. stack[n].pop = [s \in {1, 2} |-> DOMAIN Token(Pair[s], at)] /\ (n > 1 => stack[n].deep = Depth[at[1]])
  <2>1. n - 1 = Len(at) /\ SubSeq(at, 1, Len(at)) = at
    BY <1>2, <1>3, SubSeqFull DEF Paths
  <2>2. /\ stack[n].pop = [s \in {1, 2} |-> DOMAIN Token(Pair[s], SubSeq(at, 1, n - 1))]
        /\ n > 1 => stack[n].deep = Depth[at[1]]
    BY <1>3 DEF FoldAt, FoldFrames
  <2> HIDE DEF n
  <2> QED
    BY <2>1, <2>2
<1>6. Pairwise!Holders = Sharing(Pair, to)
  <2>1. Pairwise!Holders = {s \in {1, 2} : i \in DOMAIN Token(Pair[s], at)}
    BY <1>5 DEF Pairwise!Holders, Pairwise!Sides, Pairwise!Top, Pairwise!Level
  <2>2. Sharing(Pair, to) \subseteq {1, 2}
    BY <1>1 DEF Sharing
  <2> QED
    BY <1>1, <1>2, <2>1, <2>2
<1>7. Pairwise!Deep = Depth[to[1]]
  <2>1. CASE n = 1
    <3>1. to[1] = i
      BY <1>3, <1>4, <2>1
    <3> QED
      BY <2>1, <3>1 DEF Pairwise!Deep, Pairwise!Level
  <2>2. CASE n # 1
    <3>1. to[1] = at[1] /\ n > 1
      BY <1>3, <1>4, <2>2
    <3> QED
      BY <1>5, <2>2, <3>1 DEF Pairwise!Deep, Pairwise!Level, Pairwise!Top
  <2> QED
    BY <2>1, <2>2
<1> QED
  BY <1>2, <1>3, <1>4, <1>6, <1>7

\* A list of frames and one more.
LEMMA FrameAdded ==
  ASSUME NEW st, Framed(st), NEW f, IsFrame(f), NEW new, new = Append(st, f)
  PROVE  /\ Framed(new) /\ Len(new) = Len(st) + 1 /\ Len(st) \in Nat
         /\ \A l \in 1 .. Len(new) : new[l] = IF l = Len(new) THEN f ELSE st[l]
<1>1. PICK R : st \in Seq(R) /\ \A x \in R : IsFrame(x)
  BY DEF Framed
<1> DEFINE T == R \cup {f}
<1>2. R \subseteq T /\ f \in T /\ \A x \in T : IsFrame(x)
  BY <1>1
<1> HIDE DEF T
<1>3. st \in Seq(T)
  BY <1>1, <1>2, SeqMonotonic
<1>4. /\ new \in Seq(T) /\ Len(new) = Len(st) + 1 /\ Len(st) \in Nat
      /\ \A l \in 1 .. Len(st) : new[l] = st[l]
      /\ new[Len(st) + 1] = f
  BY <1>2, <1>3, AppendProperties, LenProperties
<1> QED
  BY <1>2, <1>4 DEF Framed

\* A node that is visited with children of its own to visit.
LEMMA FoldDescends ==
  ASSUME Buffered, ~ LeavesEarly, Framed(stack), NEW at, FoldAt(at), Pairwise!Looping, Pairwise!Descend
  PROVE  Framed(stack)' /\ \E to : FoldAt(to)'
<1> DEFINE n == Len(stack)
           H == Pairwise!Holders
           A == Pairwise!Advanced
<1>1. PICK i : i = Pairwise!Bin
  OBVIOUS
<1>2. Forest(Pair, Depth) /\ DOMAIN Pair = {1, 2} /\ Union(Pair) = SoFar
  BY FoldPair DEF Buffered
<1>3. n > 0 /\ n \in Nat
  <2>1. Behind(Pair, cursor, out, at, Todos(stack))
    BY DEF FoldAt
  <2>2. Len(Todos(stack)) = Len(at) + 1 /\ Len(at) \in Nat
    BY <1>2, <2>1, WalkAt
  <2> QED
    BY <2>2, FrameTodos
<1>4. /\ i \in Nat
      /\ Framed(A) /\ Len(A) = n
      /\ \A l \in 1 .. n : /\ A[l].pop = stack[l].pop /\ A[l].deep = stack[l].deep
                           /\ A[l].todo = IF l = n THEN stack[l].todo \ {i} ELSE stack[l].todo
      /\ \E next : Deeper(next, Todos(stack), i)
  BY <1>1, <1>3, FoldAdvanced
<1>5. PICK next : Deeper(next, Todos(stack), i)
  BY <1>4
<1>6. PICK to : to = Append(at, i)
  OBVIOUS
<1>7. /\ at \in Paths /\ to \in Paths /\ n = Len(at) + 1 /\ Len(at) \in Nat /\ Len(to) = n
      /\ Ahead(Pair, cursor, out, to, next) /\ H = Sharing(Pair, to) /\ Pairwise!Deep = Depth[to[1]]
      /\ \A j \in 1 .. Len(at) : to[j] = at[j]
  <2>1. \A j \in 1 .. Len(at) : Append(at, i)[j] = at[j]
    BY <1>1, <1>5, FoldChild, Extended
  <2> QED
    BY <1>1, <1>5, <1>6, <2>1, FoldChild
<1> HIDE DEF H, A
<1>8. PICK token : token = Token(Union(Pair), to)
  OBVIOUS
<1>9. /\ H \subseteq {1, 2}
      /\ \A s \in H : Pairwise!NodeAt(s) = Token(Pair[s], to)
      /\ Pairwise!Sum(H) = token
      /\ UNION {DOMAIN Pairwise!NodeAt(s) : s \in H} = DOMAIN token
      /\ DOMAIN token \in SUBSET Nat
  BY <1>2, <1>7, <1>8, FoldReads, SharedToken DEF Buffered
<1> DEFINE pop == [s \in {1, 2} |-> IF s \in H THEN DOMAIN Pairwise!NodeAt(s) ELSE {}]
           f == [pop |-> pop, todo |-> DOMAIN token, deep |-> Pairwise!Deep, slot |-> Pairwise!Slot]
<1>10. /\ n + 1 < Pairwise!Deep
       /\ out' = Append(out, token)
       /\ cursor' = [s \in {1, 2} |-> IF s \in H THEN cursor[s] + 1 ELSE cursor[s]]
       /\ stack' = Append(A, f)
       /\ UNCHANGED <<tries, right>>
  BY <1>9 DEF Pairwise!Descend, Pairwise!Level, Pairwise!Passed, Pairwise!Sides, Pairwise!inputs, H, A
<1>11. pop = [s \in {1, 2} |-> DOMAIN Token(Pair[s], to)]
  <2>1. ASSUME NEW s \in {1, 2}
        PROVE  pop[s] = DOMAIN Token(Pair[s], to)
    <3>1. CASE s \in H
      BY <1>9, <3>1
    <3>2. CASE s \notin H
      <4>1. IsTrie(Pair[s]) /\ to \notin Nodes(Pair[s])
        BY <1>2, <1>7, <3>2 DEF Forest, Levelled, Sharing
      <4> QED
        BY <1>7, <3>2, <4>1, NotANode
    <3> QED
      BY <3>1, <3>2
  <2> QED
    BY <2>1
<1>12. IsFrame(f) /\ f.pop = pop /\ f.deep = Pairwise!Deep /\ f.todo = DOMAIN token
  BY <1>9 DEF IsFrame
<1> HIDE DEF f, pop
<1>13. /\ Framed(stack') /\ Len(stack') = n + 1
       /\ \A l \in 1 .. n + 1 : stack'[l] = IF l = n + 1 THEN f ELSE A[l]
  <2>1. PICK new : new = Append(A, f)
    OBVIOUS
  <2>2. Framed(A) /\ IsFrame(f)
    BY <1>4, <1>12
  <2>3. Framed(new) /\ Len(new) = Len(A) + 1
    BY <2>1, <2>2, FrameAdded
  <2>4. \A l \in 1 .. Len(new) : new[l] = IF l = Len(new) THEN f ELSE A[l]
    BY <2>1, <2>2, FrameAdded
  <2>5. Len(new) = n + 1 /\ stack' = new
    BY <1>4, <1>10, <2>1, <2>3
  <2> HIDE DEF n
  <2> QED
    BY <2>3, <2>4, <2>5
<1>14. ReadOn(Todos(stack'), next, DOMAIN token)
  <2>1. /\ Todos(stack') \in Seq(SUBSET Nat) /\ Len(Todos(stack')) = n + 1
        /\ \A l \in 1 .. n + 1 : Todos(stack')[l] = stack'[l].todo
    BY <1>13, FrameTodos
  <2>2. /\ Len(Todos(stack)) = n /\ \A l \in 1 .. n : Todos(stack)[l] = stack[l].todo
    BY FrameTodos
  <2>3. ASSUME NEW l \in 1 .. n + 1
        PROVE  Todos(stack')[l] = IF l = n + 1 THEN DOMAIN token ELSE next[l]
    <3>1. CASE l = n + 1
      BY <1>12, <1>13, <2>1, <3>1
    <3>2. CASE l # n + 1
      <4>1. l \in 1 .. n
        BY <1>3, <3>2
      <4>2. Todos(stack')[l] = IF l = n THEN stack[l].todo \ {i} ELSE stack[l].todo
        BY <1>4, <1>13, <2>1, <3>2, <4>1
      <4>3. next[l] = IF l = n THEN Todos(stack)[l] \ {i} ELSE Todos(stack)[l]
        BY <1>5, <2>2, <3>2 DEF Deeper
      <4> QED
        BY <2>2, <3>2, <4>1, <4>2, <4>3
    <3> QED
      BY <3>1, <3>2
  <2>4. Len(next) = n + 1
    BY <1>5, <2>2 DEF Deeper
  <2> QED
    BY <1>9, <2>1, <2>3, <2>4 DEF ReadOn
<1>15. Onward(Pair, Depth, to, DOMAIN token)
  <2>1. ASSUME NEW b \in Nat
        PROVE  Append(to, b)[1] = to[1]
    <3>1. 1 \in 1 .. Len(to)
      BY <1>3, <1>7
    <3> QED
      BY <1>7, <3>1, Extended
  <2>2. \A b \in Nat : Len(to) + 1 < Depth[Append(to, b)[1]]
    BY <1>7, <1>10, <2>1
  <2> QED
    BY <1>8, <2>2 DEF Onward
<1>16. Moved(Pair, to, cursor, cursor')
  BY <1>2, <1>7, <1>10 DEF Moved
<1>17. Behind(Pair, cursor', out', to, Todos(stack'))
  BY <1>2, <1>7, <1>8, <1>10, <1>14, <1>15, <1>16, WalkVisits
<1>18. Pair' = Pair
  BY <1>10 DEF Pair, Earlier
<1>19. ASSUME NEW l \in 1 .. n + 1
       PROVE  /\ stack'[l].pop = [s \in {1, 2} |-> DOMAIN Token(Pair[s], SubSeq(to, 1, l - 1))]
              /\ l > 1 => stack'[l].deep = Depth[to[1]]
  <2>1. CASE l = n + 1
    <3>1. SubSeq(to, 1, l - 1) = to
      <4>1. l - 1 = Len(to)
        BY <1>3, <1>7, <2>1
      <4> QED
        BY <1>7, <4>1, SubSeqFull DEF Paths
    <3>2. stack'[l] = f
      BY <1>13, <2>1
    <3> QED
      BY <1>7, <1>11, <1>12, <3>1, <3>2
  <2>2. CASE l # n + 1
    <3>1. l \in 1 .. n /\ stack'[l] = A[l]
      BY <1>3, <1>13, <2>2
    <3>2. /\ stack[l].pop = [s \in {1, 2} |-> DOMAIN Token(Pair[s], SubSeq(at, 1, l - 1))]
          /\ l > 1 => stack[l].deep = Depth[at[1]]
      BY <3>1 DEF FoldAt, FoldFrames
    <3>3. SubSeq(to, 1, l - 1) = SubSeq(at, 1, l - 1)
      <4>1. l - 1 \in 0 .. Len(to) /\ l - 1 <= Len(at) /\ \A j \in 1 .. l - 1 : to[j] = at[j]
        BY <1>3, <1>7, <3>1
      <4> QED
        BY <1>7, <4>1, SameBeginning
    <3>4. l > 1 => to[1] = at[1]
      BY <1>3, <1>7, <3>1
    <3> QED
      BY <1>4, <3>1, <3>2, <3>3, <3>4
  <2> QED
    BY <2>1, <2>2
<1> HIDE DEF n
<1>20. FoldFrames(to)'
  BY <1>13, <1>18, <1>19 DEF FoldFrames
<1>21. FoldAt(to)'
  BY <1>17, <1>18, <1>20 DEF FoldAt
<1> QED
  BY <1>13, <1>21

\* A node all of whose bins are leaves.
LEMMA FoldLeaf ==
  ASSUME Buffered, ~ LeavesEarly, Framed(stack), NEW at, FoldAt(at), Pairwise!Looping, Pairwise!Leaf
  PROVE  Framed(stack)' /\ FoldAt(at)'
<1> DEFINE n == Len(stack)
           H == Pairwise!Holders
           A == Pairwise!Advanced
<1>1. PICK i : i = Pairwise!Bin
  OBVIOUS
<1>2. Forest(Pair, Depth) /\ DOMAIN Pair = {1, 2} /\ Union(Pair) = SoFar
  BY FoldPair DEF Buffered
<1>3. n > 0 /\ n \in Nat
  <2>1. Behind(Pair, cursor, out, at, Todos(stack))
    BY DEF FoldAt
  <2>2. Len(Todos(stack)) = Len(at) + 1 /\ Len(at) \in Nat
    BY <1>2, <2>1, WalkAt
  <2> QED
    BY <2>2, FrameTodos
<1>4. /\ i \in Nat
      /\ Framed(A) /\ Len(A) = n
      /\ \A l \in 1 .. n : /\ A[l].pop = stack[l].pop /\ A[l].deep = stack[l].deep
                           /\ A[l].todo = IF l = n THEN stack[l].todo \ {i} ELSE stack[l].todo
      /\ \E next : Deeper(next, Todos(stack), i)
  BY <1>1, <1>3, FoldAdvanced
<1>5. PICK next : Deeper(next, Todos(stack), i)
  BY <1>4
<1>6. PICK to : to = Append(at, i)
  OBVIOUS
<1>7. /\ at \in Paths /\ to \in Paths /\ n = Len(at) + 1 /\ Len(at) \in Nat /\ Len(to) = n
      /\ Ahead(Pair, cursor, out, to, next) /\ H = Sharing(Pair, to) /\ Pairwise!Deep = Depth[to[1]]
      /\ \A j \in 1 .. Len(at) : to[j] = at[j]
  <2>1. \A j \in 1 .. Len(at) : Append(at, i)[j] = at[j]
    BY <1>1, <1>5, FoldChild, Extended
  <2> QED
    BY <1>1, <1>5, <1>6, <2>1, FoldChild
<1> HIDE DEF H, A
<1>8. PICK token : token = Token(Union(Pair), to)
  OBVIOUS
<1>9. H \subseteq {1, 2} /\ Pairwise!Sum(H) = token
  BY <1>2, <1>7, <1>8, FoldReads DEF Buffered
<1>10. /\ n + 1 = Pairwise!Deep
       /\ out' = Append(out, token)
       /\ cursor' = [s \in {1, 2} |-> IF s \in H THEN cursor[s] + 1 ELSE cursor[s]]
       /\ stack' = A
       /\ UNCHANGED <<tries, right>>
  BY <1>9 DEF Pairwise!Leaf, Pairwise!Level, Pairwise!Passed, Pairwise!Sides, Pairwise!inputs, H, A
<1>11. /\ Len(next) = n + 1 /\ next \in Seq(SUBSET Nat) /\ next[n + 1] = {}
       /\ \A l \in 1 .. n : next[l] = IF l = n THEN stack[l].todo \ {i} ELSE stack[l].todo
  <2>1. /\ Len(Todos(stack)) = n /\ \A l \in 1 .. n : Todos(stack)[l] = stack[l].todo
    BY FrameTodos
  <2>2. n + 1 \in 1 .. n + 1 /\ \A l \in 1 .. n : l # n + 1 /\ l \in 1 .. n + 1
    BY <1>3
  <2> HIDE DEF n
  <2> QED
    BY <1>5, <2>1, <2>2 DEF Deeper
<1>12. ReadOn(next, next, {})
  BY <1>3, <1>11 DEF ReadOn
<1>13. Onward(Pair, Depth, to, {})
  <2>1. ASSUME NEW b \in Nat
        PROVE  Append(to, b)[1] = to[1]
    <3>1. 1 \in 1 .. Len(to)
      BY <1>3, <1>7
    <3> QED
      BY <1>7, <3>1, Extended
  <2>2. \A b \in Nat : ~ (Len(to) + 1 < Depth[Append(to, b)[1]])
    BY <1>3, <1>7, <1>10, <2>1
  <2> QED
    BY <2>2 DEF Onward
<1>14. Moved(Pair, to, cursor, cursor')
  BY <1>2, <1>7, <1>10 DEF Moved
<1>15. Behind(Pair, cursor', out', to, next)
  BY <1>2, <1>7, <1>8, <1>10, <1>12, <1>13, <1>14, WalkVisits
<1>16. Shallower(Todos(stack'), next)
  <2>1. /\ Todos(stack') \in Seq(SUBSET Nat) /\ Len(Todos(stack')) = n
        /\ \A l \in 1 .. n : Todos(stack')[l] = stack'[l].todo
    BY <1>4, <1>10, FrameTodos
  <2>2. \A l \in 1 .. n : Todos(stack')[l] = next[l]
    BY <1>4, <1>10, <1>11, <2>1
  <2>3. n + 1 > 1 /\ n = n + 1 - 1
    BY <1>3
  <2> HIDE DEF n
  <2> QED
    BY <1>11, <2>1, <2>2, <2>3 DEF Shallower
<1>17. SubSeq(to, 1, Len(to) - 1) = at
  <2>1. Len(to) - 1 = Len(at) /\ Len(to) - 1 \in 0 .. Len(to)
    BY <1>3, <1>7
  <2>2. SubSeq(to, 1, Len(to) - 1) = SubSeq(at, 1, Len(to) - 1)
    BY <1>7, <2>1, SameBeginning
  <2> QED
    BY <1>7, <2>1, <2>2, SubSeqFull DEF Paths
<1>18. Behind(Pair, cursor', out', at, Todos(stack'))
  BY <1>2, <1>15, <1>16, <1>17, WalkReturns
<1>19. Pair' = Pair
  BY <1>10 DEF Pair, Earlier
<1>20. FoldFrames(at)'
  <2>1. \A l \in 1 .. n : /\ stack[l].pop = [s \in {1, 2} |-> DOMAIN Token(Pair[s], SubSeq(at, 1, l - 1))]
                          /\ l > 1 => stack[l].deep = Depth[at[1]]
    BY DEF FoldFrames, FoldAt
  <2>2. \A l \in 1 .. n : stack'[l].pop = stack[l].pop /\ stack'[l].deep = stack[l].deep
    BY <1>4, <1>10
  <2>3. Len(stack') = n
    BY <1>4, <1>10
  <2> HIDE DEF n
  <2> QED
    BY <1>19, <2>1, <2>2, <2>3 DEF FoldFrames
<1>21. FoldAt(at)'
  BY <1>18, <1>19, <1>20 DEF FoldAt
<1> QED
  BY <1>4, <1>10, <1>21

\* The same inputs, the same tries.
LEMMA FoldStays ==
  ASSUME UNCHANGED <<tries, right>>
  PROVE  SoFar' = SoFar /\ Earlier' = Earlier /\ Pair' = Pair
BY FoldTerms DEF SoFar, Pairwise!SoFar, Earlier, Pair

\* The two roots are merged.
LEMMA FoldBegins ==
  ASSUME Buffered, cursor = <<1, 1>>, out = <<>>, Pairwise!MergeRoots
  PROVE  Framed(stack)' /\ FoldAt(<<>>)'
<1> DEFINE todo == <<{}>>
           C == Pairwise!BinsBelow(Pairwise!Sides)
           pop == [s \in {1, 2} |-> DOMAIN Pairwise!NodeAt(s)]
           f == [pop |-> pop, todo |-> C, deep |-> 1, slot |-> {1, 2}]
<1>1. Forest(Pair, Depth) /\ DOMAIN Pair = {1, 2}
  BY FoldPair DEF Buffered
<1>2. cursor[1] = 1 /\ cursor[2] = 1 /\ <<>> \in Paths
  BY DEF Paths
<1>3. Ahead(Pair, cursor, <<>>, <<>>, todo) /\ Sharing(Pair, <<>>) = {1, 2}
  BY <1>1, <1>2, WalkStarts
<1> HIDE DEF todo
<1>4. /\ \A s \in {1, 2} : Pairwise!NodeAt(s) = Token(Pair[s], <<>>)
      /\ Pairwise!Sum({1, 2}) = Token(Union(Pair), <<>>)
      /\ UNION {DOMAIN Pairwise!NodeAt(s) : s \in {1, 2}} = DOMAIN Token(Union(Pair), <<>>)
  <2>1. PICK o : o = out
    OBVIOUS
  <2>2. PICK at : at = <<>>
    OBVIOUS
  <2>3. Ahead(Pair, cursor, o, at, todo) /\ Sharing(Pair, at) = {1, 2}
    BY <1>3, <2>1, <2>2
  <2>4. \A s \in Sharing(Pair, at) : Pairwise!NodeAt(s) = Token(Pair[s], at)
    BY <2>3, FoldReads DEF Buffered
  <2>5. Pairwise!Sum(Sharing(Pair, at)) = Token(Union(Pair), at)
    BY <2>3, FoldReads DEF Buffered
  <2>6. UNION {DOMAIN Pairwise!NodeAt(s) : s \in Sharing(Pair, at)} = DOMAIN Token(Union(Pair), at)
    BY <2>3, FoldReads DEF Buffered
  <2> QED
    BY <2>2, <2>3, <2>4, <2>5, <2>6
<1>5. PICK token : token = Token(Union(Pair), <<>>)
  OBVIOUS
<1>6. DOMAIN token \in SUBSET Nat
  BY <1>1, <1>2, <1>5, SharedToken
<1>7. C = {i \in DOMAIN token : Depth[i] > 1}
  BY <1>4, <1>5 DEF Pairwise!BinsBelow, Pairwise!Sides
<1> HIDE DEF C
<1>8. /\ out' = Append(<<>>, token)
      /\ cursor' = [s \in {1, 2} |-> IF s \in {1, 2} THEN cursor[s] + 1 ELSE cursor[s]]
      /\ stack' = <<f>>
      /\ UNCHANGED <<tries, right>>
  BY <1>4, <1>5 DEF Pairwise!MergeRoots, Pairwise!Passed, Pairwise!Sides, Pairwise!inputs, C
<1>9. IsFrame(f) /\ f.pop = pop /\ f.todo = C
  BY <1>6, <1>7 DEF IsFrame
<1>10. pop = [s \in {1, 2} |-> DOMAIN Token(Pair[s], <<>>)]
  BY <1>4
<1> HIDE DEF f, pop
<1>11. Framed(stack') /\ Len(stack') = 1 /\ stack'[1] = f
  <2>1. stack' \in Seq({f}) /\ Len(stack') = 1 /\ stack'[1] = f
    BY <1>8
  <2> QED
    BY <1>9, <2>1 DEF Framed
<1>12. /\ Todos(stack') \in Seq(SUBSET Nat) /\ Len(Todos(stack')) = 1 /\ Todos(stack')[1] = C
  BY <1>9, <1>11, FrameTodos
<1>13. ReadOn(Todos(stack'), todo, C)
  <2>1. Len(todo) = 1
    BY DEF todo
  <2> QED
    BY <1>6, <1>7, <1>12, <2>1 DEF ReadOn
<1>14. Onward(Pair, Depth, <<>>, C)
  <2>1. \A b \in Nat : Append(<<>>, b)[1] = b
    OBVIOUS
  <2>2. Len(<<>>) + 1 = 1
    OBVIOUS
  <2>3. \A b \in Nat : b \in C <=> b \in DOMAIN token /\ 1 < Depth[b]
    <3>1. \A b \in DOMAIN token : Depth[b] \in Int
      <4>1. ASSUME NEW b \in DOMAIN token
            PROVE  b \in NodeBins(1)
        <5>1. Levelled(Union(Pair), Depth) /\ IsTrie(Union(Pair))
          BY <1>1, UnionLevelled DEF Levelled
        <5>2. PICK p \in Below(Union(Pair), <<>>) : b = BinAfter(p, <<>>)
          <6>1. DOMAIN Token(Union(Pair), <<>>) = {BinAfter(p, <<>>) : p \in Below(Union(Pair), <<>>)}
            BY <1>2, <5>1, TokenIs
          <6> QED
            BY <1>5, <6>1
        <5>3. p \in DOMAIN Union(Pair) /\ 1 \in 1 .. Len(p) /\ b = p[1]
          <6>1. p \in DOMAIN Union(Pair) /\ Len(<<>>) < Len(p)
            BY <1>2, <5>1, <5>2, BelowIs
          <6>2. Len(p) \in Nat
            BY <5>1, <6>1 DEF IsTrie, Paths
          <6> QED
            BY <5>2, <6>1, <6>2 DEF BinAfter
        <5> QED
          BY <5>1, <5>3 DEF Levelled
      <4> QED
        BY <4>1, DepthAssumption, BinsAssumption DEF NodeBins
    <3> QED
      BY <1>7, <3>1
  <2> QED
    BY <1>5, <2>1, <2>2, <2>3 DEF Onward
<1>15. Moved(Pair, <<>>, cursor, cursor')
  BY <1>1, <1>3, <1>8 DEF Moved
<1>16. Behind(Pair, cursor', out', <<>>, Todos(stack'))
  BY <1>1, <1>3, <1>5, <1>8, <1>13, <1>14, <1>15, WalkVisits
<1>17. Pair' = Pair
  BY <1>8, FoldStays
<1>18. FoldFrames(<<>>)'
  <2>1. SubSeq(<<>>, 1, 0) = <<>>
    BY SubSeqEmpty
  <2>2. \A l \in 1 .. 1 : l = 1 /\ l - 1 = 0 /\ ~ (l > 1)
    OBVIOUS
  <2>3. stack'[1].pop = [s \in {1, 2} |-> DOMAIN Token(Pair[s], SubSeq(<<>>, 1, 0))]
    BY <1>9, <1>10, <1>11, <2>1
  <2>4. \A l \in 1 .. 1 : /\ stack'[l].pop = [s \in {1, 2} |-> DOMAIN Token(Pair[s], SubSeq(<<>>, 1, l - 1))]
                          /\ l > 1 => stack'[l].deep = Depth[<<>>[1]]
    BY <2>2, <2>3
  <2>5. Len(stack') = 1
    BY <1>11
  <2> QED
    BY <1>17, <2>4, <2>5 DEF FoldFrames
<1> QED
  BY <1>11, <1>16, <1>17, <1>18 DEF FoldAt

\* No child is found missing.
LEMMA FoldHolders ==
  ASSUME Buffered, ~ LeavesEarly, Framed(stack), NEW at, FoldAt(at), Pairwise!Looping
  PROVE  \A s \in Pairwise!Holders : Pairwise!HasNode(s)
<1>1. PICK i : i = Pairwise!Bin
  OBVIOUS
<1>2. Forest(Pair, Depth) /\ DOMAIN Pair = {1, 2}
  BY FoldPair DEF Buffered
<1>3. Len(stack) > 0
  <2>1. Behind(Pair, cursor, out, at, Todos(stack))
    BY DEF FoldAt
  <2>2. Len(Todos(stack)) = Len(at) + 1 /\ Len(at) \in Nat
    BY <1>2, <2>1, WalkAt
  <2> QED
    BY <2>2, FrameTodos
<1>4. PICK next : Deeper(next, Todos(stack), i)
  BY <1>1, <1>3, FoldAdvanced
<1>5. PICK to : to = Append(at, i)
  OBVIOUS
<1>6. Ahead(Pair, cursor, out, to, next) /\ Pairwise!Holders = Sharing(Pair, to)
  BY <1>1, <1>4, <1>5, FoldChild
<1> QED
  BY <1>6, FoldReads DEF Buffered

\* A loop is done.
LEMMA FoldReturns ==
  ASSUME Buffered, Framed(stack), NEW at, FoldAt(at), Pairwise!LoopDone
  PROVE  /\ Len(stack) > 1 => Framed(stack)' /\ \E to : FoldAt(to)'
         /\ ~ (Len(stack) > 1) => /\ out = Encode(SoFar)
                                  /\ \A s \in {1, 2} : cursor[s] = Cardinality(Nodes(Pair[s])) + 1
<1> DEFINE n == Len(stack)
<1>1. /\ stack[n].todo = {} /\ stack' = Front(stack)
      /\ UNCHANGED <<tries, right, cursor, out>>
  BY FoldTerms DEF Pairwise!LoopDone, Pairwise!Top, Pairwise!Level, Pairwise!inputs
<1>2. /\ Forest(Pair, Depth) /\ DOMAIN Pair = {1, 2} /\ Union(Pair) = SoFar
      /\ Behind(Pair, cursor, out, at, Todos(stack))
  BY FoldPair DEF Buffered, FoldAt
<1>3. /\ at \in Paths /\ n = Len(at) + 1 /\ Len(at) \in Nat /\ n \in Nat
      /\ Len(Todos(stack)) = n /\ \A l \in 1 .. n : Todos(stack)[l] = stack[l].todo
  BY <1>2, WalkAt, FrameTodos
<1>4. CASE n = 1
  <2>1. Todos(stack)[1] = {} /\ Len(Todos(stack)) = 1
    <3> HIDE DEF n
    <3>1. stack[1].todo = {}
      BY <1>1, <1>4
    <3>2. 1 \in 1 .. n /\ Len(Todos(stack)) = 1
      BY <1>3, <1>4
    <3> QED
      BY <1>3, <3>1, <3>2
  <2>2. out = Encode(Union(Pair)) /\ \A s \in DOMAIN Pair : cursor[s] = Cardinality(Nodes(Pair[s])) + 1
    BY <1>2, <2>1, WalkEnds
  <2> QED
    BY <1>2, <1>4, <2>2
<1>5. CASE n # 1
  <2>1. PICK R : stack \in Seq(R) /\ \A c \in R : IsFrame(c)
    BY DEF Framed
  <2>2. /\ stack' \in Seq(R) /\ Len(stack') = n - 1
        /\ \A l \in 1 .. n - 1 : stack'[l] = stack[l]
    <3>1. Len(stack) > 0
      BY <1>3
    <3> QED
      BY <1>1, <2>1, <3>1, Finished
  <2>3. Framed(stack')
    BY <2>1, <2>2 DEF Framed
  <2>4. /\ Todos(stack') \in Seq(SUBSET Nat) /\ Len(Todos(stack')) = n - 1
        /\ \A l \in 1 .. n - 1 : Todos(stack')[l] = stack'[l].todo
    BY <2>2, <2>3, FrameTodos
  <2>5. Shallower(Todos(stack'), Todos(stack))
    <3>1. \A l \in 1 .. n - 1 : l \in 1 .. n
      BY <1>3
    <3>2. n \in 1 .. n /\ n > 1
      BY <1>3, <1>5
    <3> HIDE DEF n
    <3> QED
      BY <1>1, <1>3, <2>2, <2>4, <3>1, <3>2 DEF Shallower
  <2>6. PICK to : to = SubSeq(at, 1, Len(at) - 1)
    OBVIOUS
  <2>7. Behind(Pair, cursor, out, to, Todos(stack'))
    BY <1>2, <2>5, <2>6, WalkReturns
  <2>8. Len(at) - 1 \in 0 .. Len(at) /\ n - 1 = Len(at) /\ Len(at) > 0
    BY <1>3, <1>5
  <2>9. to \in Paths /\ Len(to) = Len(at) - 1 /\ \A j \in 1 .. Len(at) - 1 : to[j] = at[j]
    BY <1>3, <2>6, <2>8, Beginning
  <2>10. ASSUME NEW l \in 1 .. n - 1
         PROVE  /\ stack'[l].pop = [s \in {1, 2} |-> DOMAIN Token(Pair[s], SubSeq(to, 1, l - 1))]
                /\ l > 1 => stack'[l].deep = Depth[to[1]]
    <3>1. l \in 1 .. n
      BY <1>3
    <3>2. /\ stack[l].pop = [s \in {1, 2} |-> DOMAIN Token(Pair[s], SubSeq(at, 1, l - 1))]
          /\ l > 1 => stack[l].deep = Depth[at[1]]
      BY <3>1 DEF FoldAt, FoldFrames
    <3>3. SubSeq(to, 1, l - 1) = SubSeq(at, 1, l - 1)
      <4>1. l - 1 \in 0 .. Len(to) /\ l - 1 <= Len(at) /\ \A j \in 1 .. l - 1 : to[j] = at[j]
        BY <1>3, <2>8, <2>9
      <4> QED
        BY <1>3, <2>9, <4>1, SameBeginning
    <3>4. l > 1 => to[1] = at[1]
      BY <1>3, <2>8, <2>9
    <3> QED
      BY <2>2, <3>2, <3>3, <3>4
  <2>11. Pair' = Pair
    BY <1>1, FoldStays
  <2> HIDE DEF n
  <2>12. FoldFrames(to)'
    BY <2>2, <2>10, <2>11 DEF FoldFrames
  <2>13. FoldAt(to)'
    BY <1>1, <2>7, <2>11, <2>12 DEF FoldAt
  <2> QED
    BY <1>3, <1>5, <2>3, <2>13 DEF n
<1> QED
  BY <1>4, <1>5

\* The fold's place is kept: in no step of a merge of whole buffers is a root or a child
\* found missing.
LEMMA FoldStep ==
  ASSUME FoldInv, FoldWhole, ~ LeavesEarly, Pairwise!Next \/ UNCHANGED Pairwise!vars
  PROVE  FoldProgress'
<1>1. FoldInputs /\ right \in 1 .. Len(files) /\ right \in Nat /\ FoldProgress
  BY DEF FoldInv, FoldInputs
<1>2. UNCHANGED <<tries, files>>
  BY FoldBase
<1>3. pc \in {"root", "loop", "eof"} => Buffered
  BY <1>1 DEF FoldInv, FoldProgress, Buffered, FoldWhole
<1>4. CASE Pairwise!NextInput
  <2>1. /\ pc = "fold" /\ right' = right + 1 /\ pc' = "root" /\ acc' = acc /\ cursor' = <<1, 1>> /\ out' = <<>>
    BY <1>4 DEF Pairwise!NextInput
  <2>2. right + 1 - 1 = right
    BY <1>1
  <2>3. Union(Earlier)' = SoFar
    BY <1>1, <1>2, <2>1, <2>2, SoFarIs DEF Earlier
  <2> QED
    BY <1>1, <2>1, <2>3 DEF FoldProgress
<1>5. CASE Pairwise!FoldDone \/ Pairwise!Ended \/ UNCHANGED Pairwise!vars
  <2>1. CASE Pairwise!FoldDone
    <3>1. pc = "fold" /\ pc' = "done" /\ UNCHANGED <<right, acc>>
      BY <2>1 DEF Pairwise!FoldDone
    <3> QED
      BY <1>1, <1>2, <3>1, FoldStays DEF FoldProgress
  <2>2. CASE Pairwise!Ended \/ UNCHANGED Pairwise!vars
    <3>1. UNCHANGED <<pc, acc, right, cursor, stack, out>>
      BY <2>2 DEF Pairwise!Ended, Pairwise!vars
    <3>2. \A at : FoldAt(at)' = FoldAt(at)
      <4>1. Pair' = Pair
        BY <1>2, <3>1, FoldStays
      <4>2. Todos(stack)' = Todos(stack)
        BY <3>1
      <4>3. \A at : FoldFrames(at)' = FoldFrames(at)
        BY <3>1, <4>1 DEF FoldFrames
      <4> QED
        BY <3>1, <4>1, <4>2, <4>3 DEF FoldAt
    <3> QED
      BY <1>1, <1>2, <3>1, <3>2, FoldStays DEF FoldProgress
  <2> QED
    BY <1>5, <2>1, <2>2
<1>6. CASE Pairwise!MergeRoots
  <2>1. pc = "root" /\ pc' = "loop" /\ UNCHANGED <<right, acc>>
    BY <1>6 DEF Pairwise!MergeRoots
  <2>2. Framed(stack)' /\ FoldAt(<<>>)'
    BY <1>1, <1>3, <1>6, <2>1, FoldBegins DEF FoldProgress
  <2> QED
    BY <1>1, <1>2, <2>1, <2>2, FoldStays DEF FoldProgress
<1>7. ~ Pairwise!RootTruncated
  <2> SUFFICES ASSUME Pairwise!RootTruncated
               PROVE  FALSE
    OBVIOUS
  <2> DEFINE todo == <<{}>>
  <2>1. pc = "root" /\ \E s \in {1, 2} : ~ Pairwise!HasNode(s)
    BY DEF Pairwise!RootTruncated, Pairwise!Sides
  <2>2. Buffered /\ cursor = <<1, 1>>
    BY <1>1, <1>3, <2>1 DEF FoldProgress
  <2>3. Forest(Pair, Depth) /\ DOMAIN Pair = {1, 2} /\ cursor[1] = 1 /\ cursor[2] = 1
    BY <2>2, FoldPair DEF Buffered
  <2>4. Ahead(Pair, cursor, <<>>, <<>>, todo) /\ Sharing(Pair, <<>>) = {1, 2}
    BY <2>3, WalkStarts
  <2> HIDE DEF todo
  <2>5. \A s \in {1, 2} : Pairwise!HasNode(s)
    BY <2>2, <2>4, FoldReads DEF Buffered
  <2> QED
    BY <2>1, <2>5
<1>8. pc = "loop" => Framed(stack) /\ \E at : FoldAt(at)
  BY <1>1 DEF FoldProgress
<1>9. pc = "loop" /\ Pairwise!Looping => \A s \in Pairwise!Holders : Pairwise!HasNode(s)
  BY <1>3, <1>8, FoldHolders
<1>10. ~ Pairwise!NullChild
  BY <1>9 DEF Pairwise!NullChild, Pairwise!Looping
<1>11. ~ Pairwise!PassOver
  BY <1>9 DEF Pairwise!PassOver, Pairwise!Looping
<1>12. CASE Pairwise!FirstOnly \/ Pairwise!SecondOnly \/ Pairwise!InBoth
  <2>1. pc = "loop" /\ Pairwise!Looping
    BY <1>12 DEF Pairwise!FirstOnly, Pairwise!SecondOnly, Pairwise!InBoth, Pairwise!Looping
  <2>2. ~ (Pairwise!InBoth /\ Pairwise!LeafMissing)
    <3>1. ASSUME Pairwise!InBoth, Pairwise!LeafMissing
          PROVE  FALSE
      <4>1. \A s \in {1, 2} : Pairwise!HasNode(s) /\ 3 - s \in {1, 2}
        BY <1>9, <2>1, <3>1 DEF Pairwise!InBoth, Pairwise!Sides
      <4> QED
        BY <3>1, <4>1 DEF Pairwise!LeafMissing, Pairwise!Sides
    <3> QED
      BY <3>1
  <2>3. Pairwise!Descend \/ Pairwise!Leaf
    BY <1>12, <2>2 DEF Pairwise!FirstOnly, Pairwise!SecondOnly, Pairwise!InBoth
  <2>4. UNCHANGED <<pc, acc, right>>
    BY <2>3 DEF Pairwise!Descend, Pairwise!Leaf
  <2>5. Framed(stack)' /\ \E to : FoldAt(to)'
    BY <1>3, <1>8, <2>1, <2>3, FoldDescends, FoldLeaf
  <2> QED
    BY <1>1, <1>2, <2>1, <2>4, <2>5, FoldStays DEF FoldProgress
<1>13. CASE Pairwise!LoopDone
  <2>1. /\ pc = "loop" /\ pc' = IF Len(stack) > 1 THEN "loop" ELSE "eof"
        /\ UNCHANGED <<acc, right, cursor, out>>
    BY <1>13 DEF Pairwise!LoopDone, Pairwise!Level
  <2>2. /\ Len(stack) > 1 => Framed(stack)' /\ \E to : FoldAt(to)'
        /\ ~ (Len(stack) > 1) => /\ out = Encode(SoFar)
                                 /\ \A s \in {1, 2} : cursor[s] = Cardinality(Nodes(Pair[s])) + 1
    BY <1>3, <1>8, <1>13, <2>1, FoldReturns
  <2> QED
    BY <1>1, <1>2, <2>1, <2>2, FoldStays DEF FoldProgress
<1>14. CASE Pairwise!AddEOF
  <2>1. pc = "eof" /\ pc' = "fold" /\ UNCHANGED right /\ acc' = Append(out, EOF)
    BY <1>14 DEF Pairwise!AddEOF
  <2> QED
    BY <1>1, <1>2, <2>1, FoldStays DEF FoldProgress, Wire
<1> QED
  BY <1>4, <1>5, <1>6, <1>7, <1>10, <1>11, <1>12, <1>13, <1>14 DEF Pairwise!Next, Pairwise!Merge

\* FoldInv is inductive.
LEMMA FoldNext ==
  ASSUME FoldInv, Pairwise!Next \/ UNCHANGED Pairwise!vars
  PROVE  FoldInv'
<1>1. /\ FoldInputs' /\ (right \in 1 .. Len(files))'
      /\ (header = Observed(SoFar))'
      /\ (pc \in {"root", "loop", "eof"} => right > 1)'
      /\ (pc = "done" => right = Len(files))'
      /\ FoldWhole' = FoldWhole
  BY FoldBase
<1>2. FoldWhole => RootProgress'
  BY RootStep
<1>3. FoldWhole /\ ~ LeavesEarly => FoldProgress'
  BY FoldStep
<1> QED
  BY <1>1, <1>2, <1>3 DEF FoldInv

\* FoldInv says what the header and the root are in the end,
LEMMA FoldHeader ==
  ASSUME FoldInv
  PROVE  Pairwise!HeaderTotals
<1> SUFFICES ASSUME FoldWhole, pc = "done"
             PROVE  header = SumFunction(acc[1]) % CountMod
  BY FoldTerms, FoldWholeIs DEF Pairwise!HeaderTotals, FoldInv
<1>1. acc[1] = Token(SoFar, <<>>) /\ header = Observed(SoFar)
  BY DEF FoldInv, RootProgress
<1>2. IsTrie(SoFar)
  BY SoFarIs DEF FoldInv, Levelled
<1> QED
  BY <1>1, <1>2, ObservedAtRoot

\* what is written at every moment,
LEMMA FoldOutput ==
  ASSUME FoldInv, ~ LeavesEarly
  PROVE  Pairwise!OutputSoFar
<1> SUFFICES ASSUME FoldWhole
             PROVE  /\ pc \in {"root", "loop", "eof"} => IsPrefix(out, Wire(SoFar))
                    /\ pc \notin {"refused", "trap"}
  BY FoldTerms, FoldWholeIs DEF Pairwise!OutputSoFar, FoldInv, SoFar
<1>1. FoldProgress /\ FoldInputs /\ right \in 1 .. Len(files)
  BY DEF FoldInv
<1>2. IsTrie(SoFar)
  BY <1>1, SoFarIs DEF Levelled
<1>3. ASSUME pc = "root"
      PROVE  IsPrefix(out, Wire(SoFar))
  <2>1. out = <<>> /\ Len(Wire(SoFar)) \in Nat
    BY <1>1, <1>2, <1>3, WireIs DEF FoldProgress
  <2> QED
    BY <2>1 DEF IsPrefix
<1>4. ASSUME pc = "loop"
      PROVE  IsPrefix(out, Wire(SoFar))
  <2>1. Forest(Pair, Depth) /\ Union(Pair) = SoFar
    BY <1>1, <1>4, FoldPair DEF FoldInv
  <2>2. PICK at : Behind(Pair, cursor, out, at, Todos(stack))
    BY <1>1, <1>4 DEF FoldProgress, FoldAt
  <2>3. IsPrefix(out, Wire(Union(Pair)))
    BY <2>1, <2>2, WalkWrites
  <2> QED
    BY <2>1, <2>3
<1>5. ASSUME pc = "eof"
      PROVE  IsPrefix(out, Wire(SoFar))
  BY <1>1, <1>2, <1>5, AllWritten DEF FoldProgress
<1> QED
  BY <1>1, <1>3, <1>4, <1>5 DEF FoldProgress

\* and where the cursors are when a step of the fold is closed.
LEMMA FoldEnds ==
  ASSUME FoldInv, ~ LeavesEarly
  PROVE  Pairwise!BothAtEnd
<1> SUFFICES ASSUME FoldWhole, pc = "eof", NEW s \in {1, 2}
             PROVE  cursor[s] = Len(Pairwise!Buffer(s)) /\ Pairwise!NodeAt(s) = EOF
  BY FoldWholeIs DEF Pairwise!BothAtEnd, Pairwise!Sides, FoldInv
<1> DEFINE n == Cardinality(Nodes(Pair[s]))
<1>1. /\ FoldInputs /\ right \in 1 .. Len(files) /\ right > 1
      /\ acc = Wire(Union(Earlier)) /\ files[right] = Wire(tries[right])
      /\ cursor[s] = n + 1
  BY DEF FoldInv, FoldProgress, FoldWhole
<1>2. Pair[1] = Union(Earlier) /\ Pair[2] = tries[right] /\ IsTrie(Pair[1]) /\ IsTrie(Pair[2])
  BY <1>1, FoldPair, FoldEach
<1>3. Pairwise!Buffer(s) = Wire(Pair[s]) /\ IsTrie(Pair[s])
  BY <1>1, <1>2 DEF Pairwise!Buffer
<1>4. Len(Wire(Pair[s])) = n + 1 /\ Wire(Pair[s])[n + 1] = EOF
  BY <1>3, WireIs
<1> HIDE DEF n
<1> QED
  BY <1>1, <1>3, <1>4 DEF Pairwise!NodeAt

-----------------------------------------------------------------------------
\* The inductive invariant of a merge, of whichever kind.
MergeInv ==
  /\ streaming \in BOOLEAN /\ DOMAIN files = 1 .. Len(files)
  /\ streaming => StreamInv
  /\ ~ streaming => FoldInv /\ \A k \in 1 .. Len(files) : configs[k] = Config

\* MergeInv holds of the first state.
LEMMA MergeBegins == Init => MergeInv
<1> SUFFICES ASSUME Init
             PROVE  MergeInv
  OBVIOUS
<1>1. CASE streaming = TRUE /\ Stream!Init
  <2>1. StreamInv
    BY <1>1, StreamInit
  <2>2. DOMAIN tries = 1 .. Len(files) /\ DOMAIN files = DOMAIN tries
    BY <1>1, <2>1 DEF StreamInv, StreamInputs, Stream!Init
  <2> QED
    BY <1>1, <2>1, <2>2 DEF MergeInv
<1>2. CASE streaming = FALSE /\ Pairwise!Init /\ configs = [k \in DOMAIN tries |-> Config]
  <2>1. FoldInv
    BY <1>2, FoldInit
  <2>2. DOMAIN tries = 1 .. Len(files) /\ DOMAIN files = DOMAIN tries
    BY <1>2, <2>1 DEF FoldInv, FoldInputs, Pairwise!Init
  <2> QED
    BY <1>2, <2>1, <2>2 DEF MergeInv
<1> QED
  BY <1>1, <1>2 DEF Init

\* What a step of the streaming merge leaves alone.
LEMMA StreamKeeps ==
  ASSUME Stream!Next \/ UNCHANGED Stream!vars
  PROVE  /\ UNCHANGED <<tries, files, configs>>
         /\ pc \in {"done", "corrupt", "mismatch"} => UNCHANGED <<pc, out>>
         /\ pc' = "mismatch" => pc = "mismatch" \/ \E k \in 1 .. Len(files) : configs[k] # configs[1]
<1>1. CASE Stream!ReturnOnly
  BY <1>1 DEF Stream!ReturnOnly, Stream!inputs
<1>2. CASE Stream!RejectMixed
  BY <1>2 DEF Stream!RejectMixed, Stream!inputs, Stream!N
<1>3. CASE Stream!Start
  BY <1>3 DEF Stream!Start, Stream!inputs
<1>4. CASE Stream!CopyNode
  BY <1>4 DEF Stream!CopyNode, Stream!inputs
<1>5. CASE Stream!MergeNode
  BY <1>5 DEF Stream!MergeNode, Stream!inputs
<1>6. CASE Stream!Truncated
  BY <1>6 DEF Stream!Truncated, Stream!inputs
<1>7. CASE Stream!NextChild
  BY <1>7 DEF Stream!NextChild, Stream!inputs
<1>8. CASE Stream!Return
  BY <1>8 DEF Stream!Return, Stream!inputs
<1>9. CASE Stream!VerifyEnd
  <2>1. pc = "eof" /\ pc' \in {"done", "corrupt"} /\ UNCHANGED <<tries, files, configs>>
    BY <1>9 DEF Stream!VerifyEnd, Stream!inputs
  <2> QED
    BY <2>1
<1>10. CASE Stream!Ended \/ UNCHANGED Stream!vars
  BY <1>10 DEF Stream!Ended, Stream!vars
<1> QED
  BY <1>1, <1>2, <1>3, <1>4, <1>5, <1>6, <1>7, <1>8, <1>9, <1>10 DEF Stream!Next, Stream!Walk

\* MergeInv is inductive.
LEMMA MergeSteps == MergeInv /\ [Next]_vars => MergeInv'
<1> SUFFICES ASSUME MergeInv, [Next]_vars
             PROVE  MergeInv'
  OBVIOUS
<1>1. streaming' = streaming /\ streaming \in BOOLEAN /\ DOMAIN files = 1 .. Len(files)
  BY DEF MergeInv, Next, vars
<1>2. CASE streaming
  <2>1. Stream!Next \/ UNCHANGED Stream!vars
    BY <1>2 DEF Next, vars, Stream!vars
  <2>2. StreamInv' /\ UNCHANGED files
    BY <1>2, <2>1, StreamStep, StreamKeeps DEF MergeInv
  <2> QED
    BY <1>1, <1>2, <2>2 DEF MergeInv
<1>3. CASE ~ streaming
  <2>1. (Pairwise!Next \/ UNCHANGED Pairwise!vars) /\ UNCHANGED configs
    BY <1>3 DEF Next, vars, Pairwise!vars
  <2>2. FoldInv /\ \A k \in 1 .. Len(files) : configs[k] = Config
    BY <1>3 DEF MergeInv
  <2>3. FoldInv' /\ UNCHANGED files
    BY <2>1, <2>2, FoldNext, FoldBase
  <2> QED
    BY <1>1, <1>3, <2>1, <2>2, <2>3 DEF MergeInv
<1> QED
  BY <1>2, <1>3

\* In every merge its walk is where MergeInv says, for all inputs, any number of them,
\* any shape of the trie and any width of the counters.
THEOREM MergeInvariance == Spec => []MergeInv
BY MergeBegins, MergeSteps, PTL DEF Spec

\* OutputSoFar: at every moment of a merge of whole inputs what is written is the
\* beginning of the histogram of all their values (NWayMerge.cpp's mergeSubtree, and the
\* pairwise merges of airtree-merge/src/trie2d, 3d and 4d but 2DxF's).
THEOREM OutputInOrder == ASSUME ~ LeavesEarly PROVE Spec => []OutputSoFar
<1>1. MergeInv => OutputSoFar
  BY StreamOutput, FoldOutput DEF MergeInv, OutputSoFar
<1> QED
  BY <1>1, MergeInvariance, PTL

\* HeaderTotals: the merged trie_count is the number of values under the merged root,
\* in every schema (2DxF's too).
THEOREM HeaderAgrees == Spec => []HeaderTotals
<1>1. MergeInv => HeaderTotals
  BY StreamHeader, FoldHeader DEF MergeInv, HeaderTotals
<1> QED
  BY <1>1, MergeInvariance, PTL

\* BothAtEnd: when a step of the fold closes the merged buffer, both its buffers are at
\* their markers, though the code does not look (but 2DxF's).
THEOREM BuffersReadUp == ASSUME ~ LeavesEarly PROVE Spec => []BothAtEnd
<1>1. MergeInv => BothAtEnd
  BY FoldEnds DEF MergeInv, BothAtEnd
<1> QED
  BY <1>1, MergeInvariance, PTL

-----------------------------------------------------------------------------
\* The operators of the contract's instance of TrieWire are TrieWire's.
LEMMA ContractTerms ==
  /\ \A t : Contract!Wire(t) = Wire(t)
  /\ \A t : Contract!Union(t) = Union(t)
<1>1. \A f, S : Contract!SumFunctionOnSet(f, S) = SumFunctionOnSet(f, S)
  BY DEF Contract!SumFunctionOnSet, SumFunctionOnSet, Contract!FoldFunctionOnSet, FoldFunctionOnSet,
         Contract!MapThenFoldSet, MapThenFoldSet
<1>2. \A f : Contract!SumFunction(f) = SumFunction(f)
  BY <1>1 DEF Contract!SumFunction, SumFunction
<1>3. \A t, u : Contract!IsStrictPrefix(t, u) = IsStrictPrefix(t, u)
  BY DEF Contract!IsStrictPrefix, IsStrictPrefix, Contract!IsPrefix, IsPrefix
<1>4. \A t, q : Contract!Below(t, q) = Below(t, q)
  BY <1>3 DEF Contract!Below, Below
<1>5. \A t, q : Contract!Token(t, q) = Token(t, q)
  BY <1>1, <1>4 DEF Contract!Token, Token, Contract!BinAfter, BinAfter
<1>6. \A t, q : Contract!Before(t, q) = Before(t, q)
  BY <1>3 DEF Contract!Before, Before, Contract!Min, Min
<1>7. ASSUME NEW t
      PROVE  Contract!Encode(t) = Encode(t)
  <2> DEFINE X == Nodes(t)
             theirs == [q \in X |-> Cardinality({r \in X : Contract!Before(r, q)})]
             ours   == [q \in X |-> Cardinality({r \in X : Before(r, q)})]
  <2>1. Contract!Encode(t) = [k \in 1 .. Cardinality(X) |-> Contract!Token(t, CHOOSE q \in X : theirs[q] = k - 1)]
    BY DEF Contract!Encode, Contract!Nodes, Nodes, Contract!Cardinality, Cardinality, Contract!IsFiniteSet, IsFiniteSet
  <2>2. Encode(t) = [k \in 1 .. Cardinality(X) |-> Token(t, CHOOSE q \in X : ours[q] = k - 1)]
    BY DEF Encode
  <2>3. theirs = ours
    BY <1>6
  <2> HIDE DEF theirs, ours, X
  <2>4. \A k : Contract!Token(t, CHOOSE q \in X : theirs[q] = k - 1) = Token(t, CHOOSE q \in X : ours[q] = k - 1)
    BY <1>5, <2>3
  <2> QED
    BY <2>1, <2>2, <2>4
<1>8. \A t : Contract!Wire(t) = Wire(t)
  BY <1>7 DEF Contract!Wire, Wire
<1>9. \A t : Contract!Union(t) = Union(t)
  BY <1>2 DEF Contract!Union, Union
<1> QED
  BY <1>8, <1>9

\* The contract's predicates, as the invariants have them.
LEMMA Promises ==
  ASSUME MergeInv
  PROVE  /\ Contract!Single <=> Len(files) = 1
         /\ Contract!Compatible <=> SameConfigs
         /\ Contract!Whole <=> StreamWhole
         /\ 1 \in 1 .. Len(files)
<1>1. DOMAIN files = 1 .. Len(files) /\ Len(files) \in Nat \ {0}
  BY DEF MergeInv, StreamInv, FoldInv, StreamInputs, FoldInputs
<1> QED
  BY <1>1, ContractTerms DEF Contract!Single, Contract!Compatible, Contract!Whole, SameConfigs, StreamWhole

\* A step of the streaming merge is a step of the contract, or changes nothing it sees.
LEMMA StreamImplements ==
  ASSUME MergeInv, MergeInv', streaming, streaming', Stream!Next \/ UNCHANGED Stream!vars
  PROVE  Contract!Next \/ UNCHANGED <<Contract!given, Outcome, Bytes>>
<1>1. Claimed /\ Claimed' /\ StreamInv /\ StreamInv'
  BY DEF Claimed, MergeInv
<1>2. /\ UNCHANGED <<tries, files, configs>>
      /\ pc \in {"done", "corrupt", "mismatch"} => UNCHANGED <<pc, out>>
      /\ pc' = "mismatch" => pc = "mismatch" \/ \E k \in 1 .. Len(files) : configs[k] # configs[1]
  BY StreamKeeps
<1>3. UNCHANGED Contract!given
  BY <1>2 DEF Contract!given
<1>4. CASE pc \in {"done", "corrupt", "mismatch"}
  <2>1. Outcome' = Outcome /\ Bytes' = Bytes
    BY <1>1, <1>2, <1>4 DEF Outcome, Bytes
  <2> QED
    BY <1>3, <2>1
<1>5. CASE pc \notin {"done", "corrupt", "mismatch"}
  <2>1. pc \notin {"refused", "trap"} /\ pc' \in {"start", "visit", "loop", "eof", "done", "corrupt", "mismatch"}
    BY <1>1 DEF StreamInv
  <2>2. Outcome = "pending" /\ Bytes = <<>>
    BY <1>5, <2>1 DEF Outcome, Bytes
  <2>3. CASE pc' = "done"
    <3>1. Outcome' = "done" /\ Bytes' = out'
      BY <1>1, <2>3 DEF Outcome, Bytes
    <3>2. CASE Len(files) = 1
      <4>1. out' = files[1]
        BY <1>1, <1>2, <2>3, <3>2 DEF StreamInv
      <4> QED
        BY <1>3, <2>2, <3>1, <3>2, <4>1, Promises DEF Contract!Next, Contract!PassOn
    <3>3. CASE Len(files) # 1
      <4>1. SameConfigs' /\ StreamWhole' /\ out' = Wire(Union(tries))
        BY <1>1, <1>2, <2>3, <3>3 DEF StreamInv
      <4>2. SameConfigs /\ StreamWhole
        BY <1>2, <4>1 DEF SameConfigs, StreamWhole
      <4> QED
        BY <1>3, <2>2, <3>1, <4>1, <4>2, Promises, ContractTerms DEF Contract!Next, Contract!Accept
    <3> QED
      BY <3>2, <3>3
  <2>4. CASE pc' \in {"corrupt", "mismatch"}
    <3>1. Outcome' = "refused" /\ Bytes' = <<>>
      BY <1>1, <2>4 DEF Outcome, Bytes
    <3>2. Len(files) # 1 /\ ~ (SameConfigs /\ StreamWhole)
      <4>1. CASE pc' = "corrupt"
        <5>1. (Len(files) > 1)' /\ ~ StreamWhole'
          BY <1>1, <4>1 DEF StreamInv
        <5> QED
          BY <1>2, <5>1 DEF StreamWhole
      <4>2. CASE pc' = "mismatch"
        <5>1. PICK k \in 1 .. Len(files) : configs[k] # configs[1]
          BY <1>2, <1>5, <4>2
        <5>2. Len(files) = 1 => k = 1
          BY <5>1
        <5> QED
          BY <5>1, <5>2 DEF SameConfigs
      <4> QED
        BY <2>4, <4>1, <4>2
    <3> QED
      BY <1>3, <2>2, <3>1, <3>2, Promises DEF Contract!Next, Contract!Refuse
  <2>5. CASE pc' \notin {"done", "corrupt", "mismatch"}
    <3>1. Outcome' = "pending" /\ Bytes' = <<>>
      BY <2>1, <2>5 DEF Outcome, Bytes
    <3> QED
      BY <1>3, <2>2, <3>1
  <2> QED
    BY <2>3, <2>4, <2>5
<1> QED
  BY <1>4, <1>5

\* What a finished fold leaves alone.
LEMMA FoldKeeps ==
  ASSUME Pairwise!Next \/ UNCHANGED Pairwise!vars, pc = "done"
  PROVE  UNCHANGED <<pc, acc>>
BY DEF Pairwise!Next, Pairwise!Merge, Pairwise!NextInput, Pairwise!FoldDone, Pairwise!MergeRoots,
       Pairwise!RootTruncated, Pairwise!FirstOnly, Pairwise!SecondOnly, Pairwise!InBoth, Pairwise!Looping,
       Pairwise!PassOver, Pairwise!NullChild, Pairwise!LoopDone, Pairwise!AddEOF, Pairwise!Ended, Pairwise!vars

\* So is a step of the fold.
LEMMA FoldImplements ==
  ASSUME MergeInv, MergeInv', ~ LeavesEarly, ~ streaming, ~ streaming',
         Pairwise!Next \/ UNCHANGED Pairwise!vars, UNCHANGED configs
  PROVE  Contract!Next \/ UNCHANGED <<Contract!given, Outcome, Bytes>>
<1>1. FoldInv /\ FoldInv'
  BY DEF MergeInv
<1>2. UNCHANGED <<tries, files, configs>> /\ UNCHANGED Contract!given
  BY <1>1, FoldBase DEF Contract!given
<1>3. FoldInputs /\ right \in 1 .. Len(files)
  BY <1>1 DEF FoldInv
<1>4. (Claimed <=> FoldWhole) /\ (Claimed' <=> FoldWhole)
  <2>1. Claimed <=> FoldWhole
    BY <1>3, FoldWholeIs DEF Claimed
  <2>2. Pairwise!AllWhole' <=> Pairwise!AllWhole
    BY <1>2, FoldTerms DEF Pairwise!AllWhole, Pairwise!N
  <2> QED
    BY <2>1, <2>2 DEF Claimed
<1>5. CASE ~ FoldWhole
  <2>1. Outcome = "pending" /\ Outcome' = "pending" /\ Bytes = <<>> /\ Bytes' = <<>>
    BY <1>4, <1>5 DEF Outcome, Bytes
  <2> QED
    BY <1>2, <2>1
<1>6. CASE FoldWhole
  <2>1. FoldProgress /\ FoldProgress'
    <3>1. FoldWhole'
      BY <1>1, <1>6, FoldBase
    <3> QED
      BY <1>1, <1>6, <3>1 DEF FoldInv
  <2>2. pc \notin {"corrupt", "mismatch", "refused", "trap"} /\ pc' \notin {"corrupt", "mismatch", "refused", "trap"}
    BY <2>1 DEF FoldProgress
  <2>3. CASE pc = "done"
    <3>1. UNCHANGED <<pc, acc>>
      BY <2>3, FoldKeeps
    <3>2. Outcome' = Outcome /\ Bytes' = Bytes
      BY <1>4, <1>6, <3>1 DEF Outcome, Bytes
    <3> QED
      BY <1>2, <3>2
  <2>4. CASE pc # "done" /\ pc' # "done"
    <3>1. Outcome = "pending" /\ Outcome' = "pending" /\ Bytes = <<>> /\ Bytes' = <<>>
      BY <2>2, <2>4 DEF Outcome, Bytes
    <3> QED
      BY <1>2, <3>1
  <2>5. CASE pc # "done" /\ pc' = "done"
    <3>1. Outcome = "pending" /\ Outcome' = "done" /\ Bytes = <<>> /\ Bytes' = acc'
      BY <1>4, <1>6, <2>2, <2>5 DEF Outcome, Bytes
    <3>2. acc' = Wire(SoFar)' /\ (right = Len(files))'
      BY <1>1, <2>1, <2>5 DEF FoldProgress, FoldInv
    <3>3. acc' = Wire(Union(tries))
      <4>1. SoFar' = Union(SubSeq(tries, 1, right'))
        BY <1>2, FoldTerms DEF SoFar, Pairwise!SoFar
      <4>2. SubSeq(tries, 1, Len(files)) = tries
        <5>1. Len(tries) = Len(files) /\ tries \in Seq(FoldTries)
          BY <1>3, LenProperties DEF FoldInputs
        <5> QED
          BY <5>1, SubSeqFull
      <4>3. SoFar' = Union(tries)
        BY <1>2, <3>2, <4>1, <4>2
      <4>4. Wire(SoFar)' = Wire(SoFar')
        BY DEF Wire, Encode
      <4> QED
        BY <3>2, <4>3, <4>4
    <3>4. SameConfigs /\ StreamWhole
      <4>1. \A k \in 1 .. Len(files) : configs[k] = Config
        BY DEF MergeInv
      <4>2. 1 \in 1 .. Len(files)
        BY Promises
      <4> QED
        BY <1>6, <4>1, <4>2 DEF SameConfigs, StreamWhole, FoldWhole
    <3> QED
      BY <1>2, <3>1, <3>3, <3>4, Promises, ContractTerms DEF Contract!Next, Contract!Accept
  <2> QED
    BY <2>3, <2>4, <2>5
<1> QED
  BY <1>5, <1>6

\* The first states are the contract's.
LEMMA ContractBegins == Init => Contract!Init
<1>1. ASSUME Init
      PROVE  pc \in {"start", "fold"}
  BY <1>1 DEF Init, Stream!Init, Pairwise!Init
<1>2. ASSUME pc \in {"start", "fold"}
      PROVE  Outcome = "pending" /\ Bytes = <<>>
  BY <1>2 DEF Outcome, Bytes
<1> QED
  BY <1>1, <1>2 DEF Contract!Init

\* A step of a merge is a step of the contract, or changes nothing it sees.
LEMMA ContractSteps ==
  ASSUME ~ LeavesEarly
  PROVE  MergeInv /\ MergeInv' /\ [Next]_vars => [Contract!Next]_<<Contract!given, Outcome, Bytes>>
<1> SUFFICES ASSUME MergeInv, MergeInv', [Next]_vars
             PROVE  Contract!Next \/ UNCHANGED <<Contract!given, Outcome, Bytes>>
  OBVIOUS
<1>1. streaming' = streaming
  BY DEF Next, vars
<1>2. CASE streaming
  <2>1. Stream!Next \/ UNCHANGED Stream!vars
    BY <1>2 DEF Next, vars, Stream!vars
  <2> QED
    BY <1>1, <1>2, <2>1, StreamImplements
<1>3. CASE ~ streaming
  <2>1. (Pairwise!Next \/ UNCHANGED Pairwise!vars) /\ UNCHANGED configs
    BY <1>3 DEF Next, vars, Pairwise!vars
  <2> QED
    BY <1>1, <1>3, <2>1, FoldImplements
<1> QED
  BY <1>2, <1>3

\* A merge implements HistogramSum: it returns the bytes of the histogram of all the
\* values, or it throws where the configurations differ or an input is damaged, and it
\* does nothing else, whichever of the two ways it goes (but 2DxF's).
THEOREM MergeImplementsSum == ASSUME ~ LeavesEarly PROVE Spec => ImplementsSum
<1>1. Init => Contract!Init
  BY ContractBegins
<1>2. MergeInv /\ MergeInv' /\ [Next]_vars => [Contract!Next]_<<Contract!given, Outcome, Bytes>>
  BY ContractSteps
<1> QED
  BY <1>1, <1>2, MergeInvariance, PTL DEF Spec, ImplementsSum, Contract!Spec

=============================================================================
