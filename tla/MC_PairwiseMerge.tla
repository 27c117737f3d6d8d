-------------------------- MODULE MC_PairwiseMerge --------------------------
(* A 2D trie in small: root bin 0 stands for the pairs of special values    *)
(* (no level below), bin 1 for the pairs with one (one level), bin 2 for    *)
(* the pairs of ordinary numbers (two levels), each with two bins.          *)
EXTENDS PairwiseMerge

MC_Bins == <<3, 2, 2>>
MC_Depth == [i \in 0 .. 2 |-> i + 1]

At(ps, c) == [p \in ps |-> c]

MC_Tries ==
  { At({}, 1), At({<<0>>, <<2, 1, 0>>}, 2), At({<<1, 0>>, <<1, 1>>}, 1),
    At({<<1, 1>>, <<2, 0, 0>>}, 3), At({<<2, 0, 0>>, <<2, 0, 1>>}, 1),
    At({<<2, 0, 1>>, <<2, 1, 0>>}, 2), At(Leaves, 1) }
=============================================================================
