--------------------------- MODULE PopulatedBins ----------------------------
(***************************************************************************)
(* What every 1D query does first (airtree-query/src/meta                  *)
(* /PopulatedBins.cpp): it walks the file of a 1D trie without building    *)
(* the trie, collects the bins that hold anything and sorts them by the    *)
(* place of their numbers in the table.  A file that is cut, or in which   *)
(* something follows the trie, makes the constructor throw.                *)
(*                                                                         *)
(* The nested loops over the masks are a stack of frames: the node's path  *)
(* and the children still to read.                                         *)
(***************************************************************************)
EXTENDS TrieWire

CONSTANTS
  Position,   \* the place in the table of each path: positionOf
  Digit       \* the sort takes the places digit by digit (11 bits in the code)

BinCount == Cardinality(Leaves)

ASSUME PositionAssumption == /\ Position \in [Leaves -> 0 .. BinCount - 1]
                             /\ \A p, q \in Leaves : Position[p] = Position[q] => p = q
ASSUME DigitAssumption == Digit \in Nat /\ Digit > 1

\* A 1D trie has two levels (1DxT, 1DxF) or three (1DxP) below every root bin.
ASSUME OneDimAssumption == MaxDepth > 1 /\ \A i \in NodeBins(1) : Depth[i] = MaxDepth

VARIABLES
  trie,        \* what the file was written from (the code never sees it)
  stream,      \* the file, header aside
  pc,          \* where the constructor is
  cursor,      \* the next token
  stack,       \* the nodes whose children are being read, the root first
  trieCount,   \* the sum of the root's counts
  shift,       \* the weight of the digit to sort by
  bins         \* the bins found: [position, code, count]

reading == <<trie, stream, pc, cursor, stack, trieCount, shift, bins>>

\* The constructor is called for the file of t, or what has become of it.
Open(t) ==
  /\ trie = t
  /\ stream \in {Wire(t), Overlong(Wire(t))} \cup Torn(Wire(t))
  /\ pc = "root"
  /\ cursor = 1
  /\ stack = <<>>
  /\ trieCount = 0
  /\ shift = 1
  /\ bins = <<>>

-----------------------------------------------------------------------------
\* readPopulatedMask and deserializeCounts (or skipCounts) accept what follows.
HasNode == cursor <= Len(stream) /\ stream[cursor] # EOF
Node    == stream[cursor]

Level == Len(stack)
NextChild == Append(stack[Level].path, Min(stack[Level].todo))

\* The loop that reads the child goes on with the next one.
Advanced == [stack EXCEPT ![Level].todo = @ \ {Min(@)}]

ReadRoot ==
  /\ pc = "root" /\ HasNode
  /\ trieCount' = SumFunction(Node) % CountMod
  /\ stack' = <<[path |-> <<>>, todo |-> DOMAIN Node]>>
  /\ cursor' = cursor + 1
  /\ pc' = "walk"
  /\ UNCHANGED <<trie, stream, shift, bins>>

\* readMaskOnly: the children of an inner node are found, its counts are not used.
ReadInner ==
  /\ pc = "walk" /\ stack[Level].todo # {} /\ Level + 1 < MaxDepth /\ HasNode
  /\ stack' = Append(Advanced, [path |-> NextChild, todo |-> DOMAIN Node])
  /\ cursor' = cursor + 1
  /\ UNCHANGED <<trie, stream, pc, trieCount, shift, bins>>

\* emit, for each bin of a deepest node.
Emitted(path) ==
  LET found == Nth({i \in DOMAIN Node : Node[i] > 0})
  IN  [k \in DOMAIN found |-> [position |-> Position[Append(path, found[k])],
                               code     |-> Append(path, found[k]),
                               count    |-> Node[found[k]]]]

ReadLeaf ==
  /\ pc = "walk" /\ stack[Level].todo # {} /\ Level + 1 = MaxDepth /\ HasNode
  /\ bins' = bins \o Emitted(NextChild)
  /\ stack' = Advanced
  /\ cursor' = cursor + 1
  /\ UNCHANGED <<trie, stream, pc, trieCount, shift>>

EndLoop ==
  /\ pc = "walk" /\ stack[Level].todo = {}
  /\ stack' = Front(stack)
  /\ pc' = IF Level = 1 THEN "eof" ELSE "walk"
  /\ UNCHANGED <<trie, stream, cursor, trieCount, shift, bins>>

AtEndMarker == cursor <= Len(stream) /\ stream[cursor] = EOF

VerifyEndMarker ==
  /\ pc = "eof" /\ AtEndMarker
  /\ pc' = "sort"
  /\ UNCHANGED <<trie, stream, cursor, stack, trieCount, shift, bins>>

\* truncated(): no object is constructed.
Throw ==
  /\ \/ pc = "root" /\ ~ HasNode
     \/ pc = "walk" /\ stack[Level].todo # {} /\ ~ HasNode
     \/ pc = "eof" /\ ~ AtEndMarker
  /\ pc' = "thrown"
  /\ UNCHANGED <<trie, stream, cursor, stack, trieCount, shift, bins>>

DigitOf(k, weight) == (bins[k].position \div weight) % Digit

\* Mutant: a pass goes through the bins from the back.
PutBeforeBackwards(k, weight) ==
  {j \in DOMAIN bins : \/ DigitOf(j, weight) < DigitOf(k, weight)
                       \/ DigitOf(j, weight) = DigitOf(k, weight) /\ j > k}

\* The bins that a pass puts before bin k: those of lesser digits, for which the
\* offsets leave room, and those of the same digit that it comes to first.
PutBefore(k, weight) ==
  {j \in DOMAIN bins : \/ DigitOf(j, weight) < DigitOf(k, weight)
                       \/ DigitOf(j, weight) = DigitOf(k, weight) /\ j < k}

\* The bins by one digit of their places, those of equal digits in the order they had.
ByDigit(weight) ==
  [m \in DOMAIN bins |-> bins[CHOOSE k \in DOMAIN bins : Cardinality(PutBefore(k, weight)) = m - 1]]

\* sortByPosition: a pass for each digit that the greatest place has.
SortPass ==
  /\ pc = "sort" /\ (BinCount - 1) \div shift > 0
  /\ bins' = ByDigit(shift)
  /\ shift' = shift * Digit
  /\ UNCHANGED <<trie, stream, pc, cursor, stack, trieCount>>

Sorted ==
  /\ pc = "sort" /\ (BinCount - 1) \div shift = 0
  /\ pc' = "ready"
  /\ UNCHANGED <<trie, stream, cursor, stack, trieCount, shift, bins>>

Read == \/ ReadRoot \/ ReadInner \/ ReadLeaf \/ EndLoop
        \/ VerifyEndMarker \/ Throw \/ SortPass \/ Sorted

-----------------------------------------------------------------------------
(***************************************************************************)
(* An object exists exactly for a whole file, and then its bins are those  *)
(* the trie populates, each once, in the order of their numbers, and the   *)
(* total is that of the trie: with cuts at any node and a node too many,   *)
(* and passes of the sort that each undo the order but for its own digit.  *)
(***************************************************************************)
ReadsHistogram ==
  /\ pc = "thrown" => stream # Wire(trie)
  /\ pc = "ready" =>
       /\ stream = Wire(trie)
       /\ trieCount = Observed(trie)
       /\ Len(bins) = Cardinality(DOMAIN trie)
       /\ \A k \in DOMAIN bins : /\ bins[k].code \in DOMAIN trie
                                /\ bins[k].position = Position[bins[k].code]
                                /\ bins[k].count = trie[bins[k].code]
       /\ \A j, k \in DOMAIN bins : j < k => bins[j].position < bins[k].position

=============================================================================
