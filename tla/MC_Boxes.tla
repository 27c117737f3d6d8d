------------------------------ MODULE MC_Boxes ------------------------------
(* Four bins with labels on both sides of zero, points on, between and      *)
(* beyond labels and at zero.  A behaviour is that of a single query in 3D  *)
(* (the constants) or of a 2D batch (the instance Batch); they share the    *)
(* variables of the same names.                                             *)
EXTENDS BoxQuery

MC_Labels == [i \in 0 .. 3 |-> <<-6, -3, 3, 6>>[i + 1]]
MC_High == 99
MC_Low  == -99

(* Single: sides that end on, between, below and above all labels and at    *)
(* infinity, some with no label in them.                                    *)
Box(sides) == [lo |-> [d \in DOMAIN sides |-> sides[d][1]], hi |-> [d \in DOMAIN sides |-> sides[d][2]]]

MC_Sides3  == {<<MC_Low, MC_High>>, <<MC_Low, -7>>, <<-7, 3>>, <<-7, 4>>, <<-4, 8>>, <<3, 3>>, <<3, 4>>,
               <<4, 5>>, <<4, MC_High>>, <<8, MC_High>>}
MC_Boxes3  == {Box(sides) : sides \in [1 .. 3 -> MC_Sides3]}
MC_Points3 == {<<-5, 4, 7>>, <<7, -5, 4>>, <<4, 7, -5>>, <<3, 3, 0>>}

(* Batch: two boxes that are equal, nested, overlapping, apart, empty,      *)
(* unbounded or below the table, with no side that matches or some.         *)
MC_Boxes2  ==
  {Box(<<x, y>>) : x \in {<<MC_Low, MC_High>>, <<-6, 1>>, <<-4, 1>>, <<3, 6>>, <<4, 5>>, <<3, 8>>},
                   y \in {<<MC_Low, MC_High>>, <<-4, 1>>, <<-4, 5>>, <<MC_Low, -7>>}}
MC_Points2 == {<<-5, 3>>, <<-4, -4>>, <<3, -5>>, <<7, 7>>, <<7, -5>>}

VARIABLES queries, cache, found, results

Batch == INSTANCE BoxBatch WITH Dims <- 2, Points <- MC_Points2, Boxes <- MC_Boxes2, MaxQueries <- 2

singleOnly == <<box, safe, total, totalCount>>
batchOnly  == <<queries, cache, found, results>>

IsBatch == queries # <<>>

MC_Init ==
  \/ Init /\ queries = <<>> /\ cache = <<>> /\ found = <<>> /\ results = <<>>
  \/ Batch!Init /\ box = <<>> /\ safe = <<>> /\ total = <<>> /\ totalCount = 0

MC_Next == IF IsBatch THEN Batch!Next /\ UNCHANGED singleOnly ELSE Next /\ UNCHANGED batchOnly

MC_Spec == MC_Init /\ [][MC_Next]_<<vars, batchOnly>>

(* The properties of a single query are BoxQuery's: a batch is never at the *)
(* places they speak of.                                                     *)

\* Every answer of a batch counts the points with labels in its box, and is what getCounts
\* returns, or more around the box: the counts kept between boxes change no answer.
BatchCorrect == IsBatch => Batch!BatchCorrect
=============================================================================
