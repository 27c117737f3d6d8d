--------------------------- MODULE PairwiseMerge ----------------------------
(***************************************************************************)
(* mergeAirTrees for the 2D to 4D schemas: a left fold of the two-buffer   *)
(* merges of airtree-merge/src/trie2d, trie3d and trie4d.  Each of those   *)
(* merges the two roots, then goes through the root bins in order; below a *)
(* bin there is a level per ordinary dimension (Depth), walked by nested   *)
(* loops that at each bin find the child in the first buffer only, in the  *)
(* second only, or in both.  The loops are a stack of frames here, one for *)
(* each node whose children are being visited.                             *)
(*                                                                         *)
(* What the merges do with a buffer that ends early is modelled too: a     *)
(* child that cannot be read is a null pointer, which is dereferenced      *)
(* ("trap": undefined behaviour, a fault) except where two deepest nodes   *)
(* are merged and the other one stands for both.                           *)
(***************************************************************************)
EXTENDS TrieWire

CONSTANTS
  Tries,          \* the histograms an input may hold
  MaxInputs,      \* bound: the number of inputs
  MayTear,        \* whether one input may be cut short
  LeavesEarly,    \* 2DxF: the loop over the first buffer's own leaves has a `break`
  ChecksOffsets   \* 2DxP: a root bin of both buffers is passed over at the end of one

VARIABLES
  tries,      \* what the inputs were written from (the code never sees it)
  files,      \* the inputs, headers aside
  pc,         \* where the merge is
  acc,        \* the merge of the inputs so far: the first buffer
  right,      \* the input being merged into it: the second buffer
  header,     \* trie_count of the merged header
  cursor,     \* the next token of the first and of the second buffer
  stack,      \* the nodes whose children are being visited, the root first
  out         \* the merged buffer, header aside

inputs == <<tries, files>>
vars == <<tries, files, pc, acc, right, header, cursor, stack, out>>

N == Len(files)

Init ==
  /\ tries \in UNION {[1 .. m -> Tries] : m \in 1 .. MaxInputs}
  /\ \/ files = [k \in DOMAIN tries |-> Wire(tries[k])]
     \/ \* bound: at most one input is cut short
        /\ MayTear
        /\ \E d \in DOMAIN tries : \E w \in Torn(Wire(tries[d])) :
             files = [k \in DOMAIN tries |-> IF k = d THEN w ELSE Wire(tries[k])]
  /\ pc = "fold"
  /\ acc = files[1]
  /\ right = 1
  /\ header = Observed(tries[1])
  /\ cursor = <<1, 1>>
  /\ stack = <<>>
  /\ out = <<>>

-----------------------------------------------------------------------------
Sides     == {1, 2}
Buffer(s) == IF s = 1 THEN acc ELSE files[right]
HasNode(s) == cursor[s] <= Len(Buffer(s)) /\ Buffer(s)[cursor[s]] # EOF
NodeAt(s)  == Buffer(s)[cursor[s]]
Passed(S)  == [s \in Sides |-> IF s \in S THEN cursor[s] + 1 ELSE cursor[s]]

Sum(S) == SumTokens([s \in S |-> NodeAt(s)])

Level == Len(stack)
Top   == stack[Level]

\* Mutant: the second header's counts are not added.
NextInputUncounted ==
  /\ pc = "fold" /\ right < N
  /\ right' = right + 1
  /\ header' = header
  /\ cursor' = <<1, 1>>
  /\ out' = <<>>
  /\ pc' = "root"
  /\ UNCHANGED <<inputs, acc, stack>>

\* The fold: the next input is merged into what there is.
NextInput ==
  /\ pc = "fold" /\ right < N
  /\ right' = right + 1
  /\ header' = (header + Observed(tries[right + 1])) % CountMod
  /\ cursor' = <<1, 1>>
  /\ out' = <<>>
  /\ pc' = "root"
  /\ UNCHANGED <<inputs, acc, stack>>

FoldDone ==
  /\ pc = "fold" /\ right = N
  /\ pc' = "done"
  /\ UNCHANGED <<inputs, acc, right, header, cursor, stack, out>>

\* Mutant: the loop stops before the last root bin.
BinsBelowLast(S) == {i \in UNION {DOMAIN NodeAt(s) : s \in S} : Depth[i] > 1 /\ i < Bins[1] - 1}

\* The root bins that have a level below (nDims # 0).
BinsBelow(S) == {i \in UNION {DOMAIN NodeAt(s) : s \in S} : Depth[i] > 1}

\* Root_merge and Root_merge_TLE.
MergeRoots ==
  /\ pc = "root" /\ \A s \in Sides : HasNode(s)
  /\ out' = <<Sum(Sides)>>
  /\ cursor' = Passed(Sides)
  /\ stack' = <<[pop |-> [s \in Sides |-> DOMAIN NodeAt(s)],
                 todo |-> BinsBelow(Sides), deep |-> 1, slot |-> Sides]>>
  /\ pc' = "loop"
  /\ UNCHANGED <<inputs, acc, right, header>>

\* throws "mergeAirTree: truncated root node"
RootTruncated ==
  /\ pc = "root" /\ \E s \in Sides : ~ HasNode(s)
  /\ pc' = "refused"
  /\ UNCHANGED <<inputs, acc, right, header, cursor, stack, out>>

-----------------------------------------------------------------------------
\* The bin a loop is at, the buffers that have a child there, and its depth.
Bin     == Min(Top.todo)
Holders == {s \in Sides : Bin \in Top.pop[s]}
Deep    == IF Level = 1 THEN Depth[Bin] ELSE Top.deep
Slot    == IF Level = 1 THEN Holders ELSE Top.slot

\* What the loop has left after this bin: nothing, where 2DxF breaks out of it.
Rest == IF LeavesEarly /\ Level = 2 /\ Slot = {1} THEN {} ELSE Top.todo \ {Bin}

Advanced == [stack EXCEPT ![Level].todo = Rest]

Looping == pc = "loop" /\ Top.todo # {}

\* A child with children of its own: its node is written, then they are visited.
Descend ==
  /\ Level + 1 < Deep /\ \A s \in Holders : HasNode(s)
  /\ out' = Append(out, Sum(Holders))
  /\ cursor' = Passed(Holders)
  /\ stack' = Append(Advanced,
                [pop  |-> [s \in Sides |-> IF s \in Holders THEN DOMAIN NodeAt(s) ELSE {}],
                 todo |-> UNION {DOMAIN NodeAt(s) : s \in Holders},
                 deep |-> Deep, slot |-> Slot])
  /\ UNCHANGED <<inputs, pc, acc, right, header>>

\* A leaf of one buffer, copied, or of both, added.
Leaf ==
  /\ Level + 1 = Deep /\ \A s \in Holders : HasNode(s)
  /\ out' = Append(out, Sum(Holders))
  /\ cursor' = Passed(Holders)
  /\ stack' = Advanced
  /\ UNCHANGED <<inputs, pc, acc, right, header>>

\* Two deepest nodes, one of which cannot be read: the other stands for both.
LeafMissing ==
  /\ Level + 1 = MaxDepth
  /\ \E s \in Sides :
       /\ HasNode(s) /\ ~ HasNode(3 - s)
       /\ out' = Append(out, NodeAt(s))
       /\ cursor' = Passed({s})
  /\ stack' = Advanced
  /\ UNCHANGED <<inputs, pc, acc, right, header>>

\* The three branches of each loop.
FirstOnly  == Looping /\ Holders = {1} /\ (Descend \/ Leaf)
SecondOnly == Looping /\ Holders = {2} /\ (Descend \/ Leaf)
InBoth     == Looping /\ Holders = Sides /\ (Descend \/ Leaf \/ LeafMissing)

\* 2DxP: `offset1 < buffer1.size() && offset2 < buffer2.size()`; a buffer cut
\* inside a node fails further on instead.
PassOver ==
  /\ Looping /\ Level = 1 /\ Holders = Sides
  /\ ChecksOffsets /\ \E s \in Sides : ~ HasNode(s)
  /\ stack' = Advanced
  /\ UNCHANGED <<inputs, pc, acc, right, header, cursor, out>>

NullChild ==
  /\ Looping /\ \E s \in Holders : ~ HasNode(s)
  /\ ~ (Level + 1 = MaxDepth /\ Holders = Sides /\ \E s \in Sides : HasNode(s))
  /\ pc' = "trap"
  /\ UNCHANGED <<inputs, acc, right, header, cursor, stack, out>>

LoopDone ==
  /\ pc = "loop" /\ Top.todo = {}
  /\ stack' = Front(stack)
  /\ pc' = IF Level > 1 THEN "loop" ELSE "eof"
  /\ UNCHANGED <<inputs, acc, right, header, cursor, out>>

\* add_EOF; whether the inputs are at theirs is not looked at.
AddEOF ==
  /\ pc = "eof"
  /\ acc' = Append(out, EOF)
  /\ pc' = "fold"
  /\ UNCHANGED <<inputs, right, header, cursor, stack, out>>

Ended == pc \in {"done", "refused", "trap"} /\ UNCHANGED vars

Merge == \/ NextInput \/ FoldDone \/ MergeRoots \/ RootTruncated
         \/ FirstOnly \/ SecondOnly \/ InBoth \/ PassOver \/ NullChild
         \/ LoopDone \/ AddEOF

Next == Merge \/ Ended

Spec == Init /\ [][Next]_vars

-----------------------------------------------------------------------------
\* A cut file has lost its marker.
AllWhole == \A k \in 1 .. N : files[k] # <<>> /\ Last(files[k]) = EOF
SoFar    == Union(SubSeq(tries, 1, right))

(***************************************************************************)
(* Both buffers are read in the order they were written: while a merge of  *)
(* whole buffers runs, what is written is the beginning of the histogram   *)
(* of all the values so far, and no child is ever found missing.           *)
(***************************************************************************)
OutputSoFar ==
  AllWhole => /\ pc \in {"root", "loop", "eof"} => IsPrefix(out, Wire(SoFar))
              /\ pc \notin {"refused", "trap"}

(***************************************************************************)
(* Nothing is read twice or skipped: when the merged buffer is closed both *)
(* cursors are at their buffers' markers, which the code does not verify.  *)
(***************************************************************************)
BothAtEnd ==
  AllWhole /\ pc = "eof" => \A s \in Sides : /\ cursor[s] = Len(Buffer(s))
                                             /\ NodeAt(s) = EOF

(***************************************************************************)
(* "Merges remain byte-identical to a histogram generated from all the raw *)
(* values" (CHANGELOG.md, 1.6.3), for any number of inputs.                *)
(***************************************************************************)
ByteIdentical ==
  AllWhole /\ pc \in {"fold", "done"} => acc = Wire(SoFar)

\* Header and root agree: the fold's trie_count is the sum of the root's counts.
HeaderTotals ==
  AllWhole /\ pc = "done" =>
    header = SumFunction(acc[1]) % CountMod

=============================================================================
