---------------------------- MODULE StreamMerge -----------------------------
(***************************************************************************)
(* mergeAirTrees for the 1D schemas (airtree-merge/src/NWayMerge.cpp): the *)
(* inputs are walked side by side in depth-first order.  A node that only  *)
(* one input has is copied as it is, with all its subtree; a node that     *)
(* several have is read from each, summed and written again.               *)
(*                                                                         *)
(* The recursion of mergeSubtree and skipSubtree is an explicit stack.  A  *)
(* frame holds the call's `have` (inputs that populate the subtree) and    *)
(* the bins of its loop that are still to visit.  The masks read at a      *)
(* level are kept in that level's scratch, shared by every call at that    *)
(* level, and looked up again after each child returns.                    *)
(***************************************************************************)
EXTENDS TrieWire

CONSTANTS
  Tries,       \* the histograms an input may hold
  MaxInputs,   \* bound: the number of inputs
  Config,      \* the configuration of the first input
  Others       \* other configurations the last input may have

VARIABLES
  tries,       \* what the inputs were written from (the code never sees it)
  files,       \* the inputs, headers aside
  configs,     \* the configuration in each header
  pc,          \* where the merge is
  header,      \* [trie, special]: the merged observation and special counts
  cursor,      \* the next token to read of each input
  masks,       \* scratch[level].masks: the mask last read at a level from each input
  stack,       \* the calls in progress, innermost last
  out          \* the merged file, header aside

inputs == <<tries, files, configs>>
vars == <<tries, files, configs, pc, header, cursor, masks, stack, out>>

N == Len(files)

\* The specials counted in each header: any fixed numbers that differ between inputs.
Specials == [k \in 1 .. N |-> k % CountMod]

Init ==
  /\ tries \in UNION {[1 .. m -> Tries] : m \in 1 .. MaxInputs}
  /\ \* bound: at most one input is damaged
     \/ files = [k \in DOMAIN tries |-> Wire(tries[k])]
     \/ \E d \in DOMAIN tries :
          \E w \in Torn(Wire(tries[d])) \cup {Overlong(Wire(tries[d]))} :
             files = [k \in DOMAIN tries |-> IF k = d THEN w ELSE Wire(tries[k])]
  /\ \* bound: at most the last input has another configuration
     \/ configs = [k \in DOMAIN tries |-> Config]
     \/ /\ Len(tries) > 1 /\ files[1] = Wire(tries[1])
        /\ \E c \in Others : configs = [k \in DOMAIN tries |-> IF k = Len(tries) THEN c ELSE Config]
  /\ pc = "start"
  /\ header = [trie |-> 0, special |-> 0]
  /\ cursor = [k \in DOMAIN tries |-> 1]
  /\ masks = [l \in 1 .. MaxDepth |-> [k \in DOMAIN tries |-> {}]]
  /\ stack = <<>>
  /\ out = <<>>

-----------------------------------------------------------------------------
\* A token that readPopulatedMask and deserializeCounts accept is at the cursor.
HasNode(k) == cursor[k] <= Len(files[k]) /\ files[k][cursor[k]] # EOF
NodeAt(k)  == files[k][cursor[k]]

Level == Len(stack)
Top   == stack[Level]
IsLeafLevel == Level = MaxDepth

Visiting(have, todo) == [stack EXCEPT ![Level] = [have |-> have, todo |-> todo]]

\* A leaf has no children to visit.
ChildBins(mask) == IF IsLeafLevel THEN {} ELSE mask

\* mergeAirTrees: one input is returned as it is.
ReturnOnly ==
  /\ pc = "start" /\ N = 1
  /\ out' = files[1]
  /\ header' = [trie |-> Observed(tries[1]), special |-> Specials[1]]
  /\ pc' = "done"
  /\ UNCHANGED <<inputs, cursor, masks, stack>>

RejectMixed ==
  /\ pc = "start" /\ \E k \in 1 .. N : configs[k] # configs[1]
  /\ pc' = "mismatch"
  /\ UNCHANGED <<inputs, header, cursor, masks, stack, out>>

\* mergeStreaming: the headers are summed, then the root is visited.
Start ==
  /\ pc = "start" /\ N > 1 /\ \A k \in 1 .. N : configs[k] = configs[1]
  /\ header' = [trie    |-> SumFunction([k \in 1 .. N |-> Observed(tries[k])]) % CountMod,
                special |-> SumFunction(Specials) % CountMod]
  /\ stack' = <<[have |-> 1 .. N, todo |-> {}]>>
  /\ pc' = "visit"
  /\ UNCHANGED <<inputs, cursor, masks, out>>

\* skipSubtree, and the bytes it passed copied.
CopyNode ==
  /\ pc = "visit" /\ \E k \in Top.have : Top.have = {k} /\ HasNode(k) /\
       /\ out' = Append(out, NodeAt(k))
       /\ cursor' = [cursor EXCEPT ![k] = @ + 1]
       /\ stack' = Visiting(Top.have, ChildBins(DOMAIN NodeAt(k)))
  /\ pc' = "loop"
  /\ UNCHANGED <<inputs, header, masks>>

\* mergeSubtree of a shared node.
MergeNode ==
  /\ pc = "visit" /\ Cardinality(Top.have) > 1 /\ \A k \in Top.have : HasNode(k)
  /\ LET merged == SumTokens([k \in Top.have |-> NodeAt(k)])
     IN  /\ out' = Append(out, merged)
         /\ stack' = Visiting(Top.have, ChildBins(DOMAIN merged))
  /\ masks' = [masks EXCEPT ![Level] =
                 [k \in 1 .. N |-> IF k \in Top.have THEN DOMAIN NodeAt(k) ELSE @[k]]]
  /\ cursor' = [k \in 1 .. N |-> IF k \in Top.have THEN cursor[k] + 1 ELSE cursor[k]]
  /\ pc' = "loop"
  /\ UNCHANGED <<inputs, header>>

\* corrupt("truncated input"): thrown, whatever was written is dropped.
Truncated ==
  /\ pc = "visit" /\ \E k \in Top.have : ~ HasNode(k)
  /\ pc' = "corrupt"
  /\ UNCHANGED <<inputs, header, cursor, masks, stack, out>>

\* Mutant: one scratch for all levels, overwritten by the children.
LastReadPopulating(i) ==
  IF Cardinality(Top.have) = 1 THEN Top.have
  ELSE {k \in Top.have : \E l \in Level .. MaxDepth : i \in masks[l][k]}

\* The inputs of this call that populate bin i, by the masks in the scratch.
Populating(i) ==
  IF Cardinality(Top.have) = 1 THEN Top.have
  ELSE {k \in Top.have : i \in masks[Level][k]}

NextChild ==
  /\ pc = "loop" /\ Top.todo # {}
  /\ LET i == Min(Top.todo)
     IN  stack' = Append(Visiting(Top.have, Top.todo \ {i}),
                         [have |-> Populating(i), todo |-> {}])
  /\ pc' = "visit"
  /\ UNCHANGED <<inputs, header, cursor, masks, out>>

Return ==
  /\ pc = "loop" /\ Top.todo = {}
  /\ stack' = Front(stack)
  /\ pc' = IF Level = 1 THEN "eof" ELSE "loop"
  /\ UNCHANGED <<inputs, header, cursor, masks, out>>

\* Mutant: only the first input's marker is looked at.
FirstAtEnd == cursor[1] <= Len(files[1]) /\ files[1][cursor[1]] = EOF

\* Every input must end where its trie does.
AllAtEnd == \A k \in 1 .. N : cursor[k] <= Len(files[k]) /\ files[k][cursor[k]] = EOF

VerifyEnd ==
  /\ pc = "eof"
  /\ IF AllAtEnd THEN pc' = "done" /\ out' = Append(out, EOF)
                 ELSE pc' = "corrupt" /\ UNCHANGED out
  /\ UNCHANGED <<inputs, header, cursor, masks, stack>>

Ended == pc \in {"done", "corrupt", "mismatch"} /\ UNCHANGED vars

Walk == \/ ReturnOnly \/ RejectMixed \/ Start \/ CopyNode \/ MergeNode
        \/ Truncated \/ NextChild \/ Return \/ VerifyEnd

Next == Walk \/ Ended

Spec == Init /\ [][Next]_vars

-----------------------------------------------------------------------------
AllWhole == \A k \in 1 .. N : files[k] = Wire(tries[k])

(***************************************************************************)
(* At every moment of a merge of whole inputs, what is written is the      *)
(* beginning of the histogram of all their values: the copied subtrees and *)
(* the summed nodes interleave in depth-first order, and each input's      *)
(* cursor is where its share of the current subtree starts, though the     *)
(* masks that say whose turn it is sit in scratch that deeper calls reuse. *)
(***************************************************************************)
OutputSoFar ==
  AllWhole /\ pc \notin {"start", "mismatch"} =>
    /\ IsPrefix(out, Wire(Union(tries)))
    /\ pc # "corrupt"

(***************************************************************************)
(* The header's trie_count is the number of values under the merged root,  *)
(* and the special counts are the sums of all the inputs'.                 *)
(***************************************************************************)
HeaderTotals ==
  pc = "done" => /\ header.trie = Observed(Union(tries))
                 /\ header.special = SumFunction(Specials) % CountMod

=============================================================================
