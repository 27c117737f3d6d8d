--------------------------- MODULE MergeAirTrees ----------------------------
(***************************************************************************)
(* mergeAirTrees of airtree-merge/src/NWayMerge.cpp, for all schemas: the  *)
(* 1D schemas have levels to stream through (streamingLevels) and go to    *)
(* StreamMerge; the others have none and are folded two at a time by       *)
(* PairwiseMerge.  Whichever it is, the caller is promised the same.       *)
(***************************************************************************)
EXTENDS TrieWire

CONSTANTS
  StreamDepth,    \* the paths of the 1D schema
  StreamTries,    \* the histograms an input may hold, of the 1D schema
  FoldTries,      \* and of the others
  MaxInputs,      \* bound: the number of inputs
  Config,         \* the configuration of the first input
  Others,         \* other configurations the last input may have
  MayTear,        \* whether one input of a fold may be cut short
  LeavesEarly, ChecksOffsets  \* see PairwiseMerge

ASSUME InputsAssumption == MaxInputs \in Nat \ {0} /\ Config \notin Others
ASSUME FlagsAssumption  == {MayTear, LeavesEarly, ChecksOffsets} \subseteq BOOLEAN

VARIABLES
  streaming,                                   \* whether the schema has levels
  tries, files, configs,                       \* the inputs
  pc, header, cursor, stack, out,              \* of both merges
  masks,                                       \* of StreamMerge
  acc, right                                   \* of PairwiseMerge

vars == <<streaming, tries, files, configs, pc, header, cursor, stack, out, masks, acc, right>>

Stream   == INSTANCE StreamMerge WITH Depth <- StreamDepth, Tries <- StreamTries
Pairwise == INSTANCE PairwiseMerge WITH Tries <- FoldTries

\* Every path of a 1D schema has one bin per level.
ASSUME LevelsAssumption == StreamDepth \in [NodeBins(1) -> {MaxDepth}]

ASSUME TriesAssumption ==
  /\ \A t \in StreamTries : DOMAIN t \subseteq Stream!Leaves /\ IsFiniteSet(DOMAIN t)
  /\ \A t \in FoldTries   : DOMAIN t \subseteq Leaves /\ IsFiniteSet(DOMAIN t)
  /\ \A t \in StreamTries \cup FoldTries : \A p \in DOMAIN t : t[p] \in Nat

Init ==
  \/ streaming = TRUE /\ Stream!Init /\ acc = <<>> /\ right = 0
  \/ /\ streaming = FALSE /\ Pairwise!Init
     /\ configs = [k \in DOMAIN tries |-> Config] /\ masks = <<>>

Next ==
  /\ \/ streaming /\ Stream!Next /\ UNCHANGED <<acc, right>>
     \/ ~ streaming /\ Pairwise!Next /\ UNCHANGED <<configs, masks>>
  /\ UNCHANGED streaming

Spec == Init /\ [][Next]_vars

-----------------------------------------------------------------------------
(***************************************************************************)
(* At every moment of a merge of whole inputs, what is written is the      *)
(* beginning of the histogram of all the values read: subtrees that are    *)
(* copied and nodes that are summed interleave in depth-first order, and   *)
(* each input is read in the order it was written, though the masks that   *)
(* say whose turn it is lie in scratch that deeper calls reuse (1D) or in  *)
(* loops written out for each of the three cases (2D to 4D).               *)
(***************************************************************************)
OutputSoFar == IF streaming THEN Stream!OutputSoFar ELSE Pairwise!OutputSoFar

\* Header and root agree: the merged trie_count is the number of values under the
\* root, whether the headers are summed at once or fold by fold.
HeaderTotals == IF streaming THEN Stream!HeaderTotals ELSE Pairwise!HeaderTotals

\* Nothing is read twice or skipped: a fold's step ends with both buffers at their
\* markers, which the code verifies in 1D only.
BothAtEnd == ~ streaming => Pairwise!BothAtEnd

(***************************************************************************)
(* mergeAirTrees implements HistogramSum: it returns the bytes of the      *)
(* histogram of all the values; or it throws, if the configurations differ *)
(* or if one of several inputs is cut short or has a node too many.  Of a  *)
(* cut 2D to 4D input this is not claimed: two leaves of which one cannot  *)
(* be read count as one (PairwiseMerge's LeafMissing).                     *)
(***************************************************************************)
Claimed == streaming \/ Pairwise!AllWhole

Outcome == CASE Claimed /\ pc = "done" -> "done"
          [] Claimed /\ pc \in {"corrupt", "mismatch", "refused", "trap"} -> "refused"
          [] OTHER -> "pending"

Bytes == IF Outcome # "done" THEN <<>> ELSE IF streaming THEN out ELSE acc

Contract == INSTANCE HistogramSum WITH status <- Outcome, result <- Bytes

ImplementsSum == Contract!Spec

=============================================================================
