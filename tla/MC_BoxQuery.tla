---------------------------- MODULE MC_BoxQuery -----------------------------
(* Two dimensions, four bins a side with labels on both sides of zero,      *)
(* points between and beyond labels and at zero, boxes with bounds between, *)
(* below and above labels and at infinity.                                  *)
EXTENDS BoxQuery

MC_Labels == [i \in 0 .. 3 |-> <<-6, -3, 3, 6>>[i + 1]]
MC_High == 99
MC_Low  == -99

Bounds(vs) == {b \in [lo : vs, hi : vs] : b.lo <= b.hi /\ b.lo # MC_High /\ b.hi # MC_Low}

MC_Points == [1 .. 2 -> {-5, 0, 3, 7}]

MC_Boxes == {[lo |-> <<x.lo, y.lo>>, hi |-> <<x.hi, y.hi>>] :
               x, y \in Bounds({MC_Low, -7, -4, 3, 5, 8, MC_High})}
=============================================================================
