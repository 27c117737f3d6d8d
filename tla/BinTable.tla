------------------------------ MODULE BinTable ------------------------------
(***************************************************************************)
(* The table of a histogram's bins (airtree-query/src/meta/Histogram.cpp): *)
(* a label for each bin, in the order of the labels.  A number is an       *)
(* integer that stands for the double in its place in the order.  The bin  *)
(* of a positive number is the one with the next label towards zero, and   *)
(* so is that of a negative one (what Encoding checks of the codes); the   *)
(* number zero has no bin.  It has no state.                               *)
(***************************************************************************)
EXTENDS Integers, FiniteSets

CONSTANTS
  BinCount,  \* the bins of a dimension
  Labels,    \* the number that stands for each bin, ascending
  Low, High  \* minus and plus infinity

ASSUME TableAssumption ==
  /\ BinCount \in Nat \ {0}
  /\ Labels \in [0 .. BinCount - 1 -> Int]
  /\ \A i, j \in 0 .. BinCount - 1 : i < j => Labels[i] < Labels[j]
  /\ Low \in Int /\ High \in Int
  /\ \A i \in 0 .. BinCount - 1 : Low < Labels[i] /\ Labels[i] < High

Bins == 0 .. BinCount - 1
LastBin == BinCount - 1

\* Where the generator files a number.
Holds(i, v) ==
  IF v > 0
  THEN 0 < Labels[i] /\ Labels[i] <= v /\ \A j \in Bins : Labels[j] <= v => j <= i
  ELSE v < 0 /\ Labels[i] < 0 /\ v <= Labels[i] /\ \A j \in Bins : v <= Labels[j] => i <= j

\* The label of a bin; past the table there is infinity.
FPNumber(i) == IF i \in Bins THEN Labels[i] ELSE High

\* std::lower_bound: the first bin with a label of at least v, or BinCount.
BinIndex(v) ==
  CHOOSE i \in 0 .. BinCount :
     /\ \A j \in Bins : j < i => Labels[j] < v
     /\ i < BinCount => v <= Labels[i]

=============================================================================
