-------------------------- MODULE MC_MergeAirTrees --------------------------
(* A merge of up to three inputs, node by node (MergeAirTrees); a session   *)
(* of up to three programs, merges among them, on one disk (Programs); or   *)
(* threads of one process that share tables (TableCache).  A behaviour is   *)
(* of one of them, chosen at first; the others stand still.                 *)
(*                                                                          *)
(* Merges: of three levels: the root of three bins, inner nodes and leaves  *)
(* of two.                                                                  *)
(* 1D: all paths have three bins (as 1D Precise has levels of 256, 64 and   *)
(* 64).  The tries reach every way two or three inputs can share a node: an *)
(* empty one, values in one place, and pairs under one parent, under one    *)
(* grandparent and under the root.  Counts are kept modulo 4, so sums wrap. *)
(* 2D: root bin 0 stands for the pairs of special values (no level below),  *)
(* bin 1 for the pairs with one (one level), bin 2 for the pairs of         *)
(* ordinary numbers (two levels).                                           *)
EXTENDS MergeAirTrees, Programs, TableCache

VARIABLE subject   \* "merge", "programs" or "tables"

MC_Bins == <<3, 2, 2>>
MC_StreamDepth == [i \in 0 .. 2 |-> 3]
MC_Depth == [i \in 0 .. 2 |-> i + 1]

At(ps, c) == [p \in ps |-> c]

MC_StreamTries ==
  { At({}, 1), At({<<0, 0, 0>>}, 1), At({<<1, 0, 1>>}, 3),
    At({<<0, 0, 0>>, <<0, 0, 1>>}, 1), At({<<0, 0, 1>>, <<0, 1, 0>>}, 2),
    At({<<0, 1, 0>>, <<1, 1, 1>>}, 3) }

MC_FoldTries ==
  { At({}, 1), At({<<0>>, <<2, 1, 0>>}, 2), At({<<1, 0>>, <<1, 1>>}, 1),
    At({<<1, 1>>, <<2, 0, 0>>}, 3), At({<<2, 0, 0>>, <<2, 0, 1>>}, 1),
    At({<<2, 0, 1>>, <<2, 1, 0>>}, 2), At(Leaves, 1) }

-----------------------------------------------------------------------------
(* Programs: two histograms, one of them perhaps missing or cut, of equal   *)
(* or different schemas, a data file of one or two columns, and an output.  *)
MC_Names == {"raw", "first", "second", "result"}
MC_Data  == {"d1", "d2"}

Of(d) == [e \in MC_Data |-> IF e = d THEN 1 ELSE 0]
Histogram(s, d) == [kind |-> "histogram", schema |-> s, of |-> Of(d)]

Invoke(tools, inputs, outputs, options) ==
  [tool : tools, ins : inputs, out : outputs, option : options]

MC_Jobs ==
  Invoke(Merges, {<<"first", "second">>}, {"first", "result"}, {"none"})
    \cup Invoke(Queries, {<<"first">>, <<"result">>}, {"result"}, {"none"})
    \cup Invoke(Exports, {<<"first">>}, {"result"}, {"csv", "arrow"})
    \cup Invoke({"generate"}, {<<"raw">>}, {"first"}, {"1DxP", "2DxP"})

MC_Disks ==
  { [n \in MC_Names |->
       CASE n = "raw" -> WholeFile([kind |-> "data", schema |-> c, of |-> Of("d1")])
         [] n = "first" -> f [] n = "second" -> g [] n = "result" -> Absent] :
    c \in {"1", "2"},
    f \in {Absent} \cup {WholeFile(Histogram(s, "d1")) : s \in {"1DxP", "2DxP"}},
    g \in {Absent, Part(Histogram("1DxP", "d2"))} \cup {WholeFile(Histogram(s, "d2")) : s \in {"1DxP", "2DxP", "2DxF"}} }

-----------------------------------------------------------------------------
(* Tables: three threads, two lengths and one that no table has; two codes  *)
(* share a label.                                                           *)
MC_Label == [b \in 1 .. 2 |-> IF b = 1 THEN [c \in 0 .. 1 |-> 1 - 2 * c]
                                      ELSE [c \in 0 .. 3 |-> <<1, 1, -1, -4>>[c + 1]]]

NoDisk == [n \in Names |-> Absent]

-----------------------------------------------------------------------------
\* The merge that stands still meanwhile: one empty histogram, not begun.
StillMerge ==
  /\ streaming = TRUE /\ tries = <<At({}, 1)>>
  /\ files = <<Wire(At({}, 1))>> /\ configs = <<Config>>
  /\ Init

NoPrograms ==
  /\ disk = NoDisk /\ before = NoDisk /\ job = CHOOSE j \in Jobs : TRUE
  /\ step = "ended" /\ got = <<>> /\ answer = Garbage /\ failed = FALSE
  /\ monitor = "none" /\ status = "killed" /\ begun = 0

NoThreads ==
  /\ lock = NoThread /\ cache = [b \in Lengths |-> NoTable] /\ at = [t \in Threads |-> "off"]
  /\ want = [t \in Threads |-> CHOOSE b \in Lengths : TRUE] /\ table = [t \in Threads |-> NoTable]
  /\ held = [t \in Threads |-> {}] /\ calls = [t \in Threads |-> 0]

MCInit == \/ subject = "merge"    /\ Init       /\ NoPrograms   /\ NoThreads
          \/ subject = "programs" /\ StillMerge /\ ProgramsInit /\ NoThreads
          \/ subject = "tables"   /\ StillMerge /\ NoPrograms   /\ CacheInit

SessionOver == step = "ended" /\ begun = MaxPrograms /\ UNCHANGED programVars

\* No thread has the mutex (that one waits for ever for it is for Answered to find).
TablesRest == (\A t \in Threads : at[t] \in {"idle", "lock"}) /\ UNCHANGED cachevars

MCNext ==
  /\ UNCHANGED subject
  /\ \/ subject = "merge"    /\ Next                          /\ UNCHANGED <<programVars, cachevars>>
     \/ subject = "programs" /\ (ProgramsNext \/ SessionOver) /\ UNCHANGED <<vars, cachevars>>
     \/ subject = "tables"   /\ (CacheNext \/ TablesRest)     /\ UNCHANGED <<vars, programVars>>

all == <<vars, programVars, cachevars, subject>>

MCSpec == MCInit /\ [][MCNext]_all /\ CacheFairness
=============================================================================
