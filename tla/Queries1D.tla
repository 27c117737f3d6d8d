----------------------------- MODULE Queries1D ------------------------------
(***************************************************************************)
(* The queries on a 1D histogram (airtree-query/src/percentile, cdf, topk, *)
(* minmax), asked of an object that PopulatedBins has constructed.  Each   *)
(* walks the bins in the order of their numbers, up or down, and puts the  *)
(* special values that the header counts in by code of its own: infinities *)
(* at the ends, zeros where the sign of the bins changes, or after them if *)
(* it never does.  A loop is a fold over the bins; its state is that of    *)
(* the loop's variables.                                                   *)
(*                                                                         *)
(* A number is an integer, its place among the doubles: -0 comes before    *)
(* +0, and no other number lies between them.  A bin has a label; that of  *)
(* a positive bin is its least number, that of a negative one its          *)
(* greatest.  A fraction is given in units of 1 / Scale.                   *)
(***************************************************************************)
EXTENDS PopulatedBins

CONSTANTS
  Labels,           \* the table: the label of each place, ascending
  NegInf, PosInf,   \* the infinities
  Data,             \* the numbers a histogram may be made from
  MaxValues,        \* bound: how many of them
  Parts,            \* percentages are in parts of this (100 in the code)
  Asked,            \* the numbers that the CDF may be asked for
  Scale             \* a multiple of what the code divides by

NegZero == 0
PosZero == 1
Specials == {NegInf, NegZero, PosZero, PosInf}
Places   == 0 .. BinCount - 1

ASSUME LabelsAssumption ==
  /\ Labels \in [Places -> Int] /\ {NegInf, PosInf} \cup Data \cup Asked \subseteq Int
  /\ \A i, j \in Places : i < j => Labels[i] < Labels[j]
  /\ \A i \in Places : NegInf < Labels[i] /\ Labels[i] < PosInf /\ Labels[i] \notin Specials
  /\ \A v \in Data \cup Asked : NegInf <= v /\ v <= PosInf
ASSUME ScaleAssumption == Parts \in Nat \ {0} /\ Scale \in Nat \ {0} /\ MaxValues \in 0 .. CountMod - 1

VARIABLES
  values,    \* what the histogram was made from, ascending (the code never sees it)
  answer     \* to the last query

vars == <<reading, values, answer>>

\* The greatest label towards zero: where the generator files a number.
Holds(i, v) ==
  IF v > PosZero THEN PosZero < Labels[i] /\ Labels[i] <= v /\ \A j \in Places : Labels[j] <= v => j <= i
                 ELSE Labels[i] < NegZero /\ v <= Labels[i] /\ \A j \in Places : v <= Labels[j] => i <= j

\* Special values are counted in the header; no other number in Data lies nearer to
\* zero than every label.
Filed(v) == v \notin Specials

TrieOf(vs) ==
  [p \in {q \in Leaves : \E k \in DOMAIN vs : Filed(vs[k]) /\ Holds(Position[q], vs[k])} |->
     Cardinality({k \in DOMAIN vs : Filed(vs[k]) /\ Holds(Position[p], vs[k])})]

Ascending == UNION {{vs \in [1 .. m -> Data] : \A k \in 2 .. m : vs[k - 1] <= vs[k]} : m \in 0 .. MaxValues}

Init ==
  /\ values \in Ascending
  /\ Open(TrieOf(values))
  /\ answer = [query |-> "none"]

\* The header's count of a special value.
Special(z) == Cardinality({k \in DOMAIN values : values[k] = z})

-----------------------------------------------------------------------------
\* getFPNumber: past the table there is infinity.
Label(i) == IF i \in Places THEN Labels[i] ELSE PosInf

NoPlace == BinCount

SpecialEntry(z) == [value |-> z, place |-> NoPlace, count |-> Special(z)]
BinEntry(b)     == [value |-> Labels[b.position], place |-> b.position, count |-> b.count]

\* Trie and special counts, in 32 bits.
SpecialTotal == MapThenSumSet(Special, Specials) % CountMod
Total == (trieCount + SpecialTotal) % CountMod

-----------------------------------------------------------------------------
(* Percentile::calculatePercentile: a fold over the bins whose state is that *)
(* of the loop: zeros_handled, cumulative_count and the result, if there is. *)

Exactly(v) == [value |-> Scale * v, lower |-> v, upper |-> v]

\* The bounds of the bin the quantile fell in, and the quantile interpolated from
\* the bin's label towards the next one.
InBin(e, rank, before) ==
  [lower |-> IF e.value > PosZero THEN e.value ELSE IF e.place = 0 THEN NegInf ELSE Label(e.place - 1),
   upper |-> IF e.value > PosZero THEN Label(e.place + 1) ELSE e.value,
   value |-> IF e.place = BinCount - 1 THEN Scale * e.value
             ELSE Scale * e.value
                    + ((rank - Parts * before) * Scale * (Label(e.place + 1) - e.value)) \div (Parts * e.count)]

\* An entry is counted; if that reaches the rank, the result is what it says.
Past(s, count, rank, result) ==
  IF s.result # <<>> THEN s
  ELSE [s EXCEPT !.cumulative = @ + count,
                 !.result = IF Parts * (s.cumulative + count) >= rank THEN <<result>> ELSE <<>>]

PastSpecial(s, z, rank) == Past(s, Special(z), rank, Exactly(z))

\* Mutant: zeros_handled is not set.
PastZerosAgain(s, rank) ==
  IF s.zeros THEN s ELSE PastSpecial(PastSpecial(s, NegZero, rank), PosZero, rank)

\* The zeros, once.
PastZeros(s, rank) ==
  IF s.zeros THEN s
  ELSE [PastSpecial(PastSpecial(s, NegZero, rank), PosZero, rank) EXCEPT !.zeros = TRUE]

PastBin(s, b, rank) ==
  LET t == IF Labels[b.position] >= NegZero /\ s.result = <<>> THEN PastZeros(s, rank) ELSE s
  IN  Past(t, b.count, rank, InBin(BinEntry(b), rank, t.cumulative))

Percentile(p) ==
  LET rank   == p * Total
      begun  == PastSpecial([zeros |-> FALSE, cumulative |-> 0, result |-> <<>>], NegInf, rank)
      walked == FoldLeft(LAMBDA s, b : PastBin(s, b, rank), begun, bins)
      ended  == PastSpecial(PastZeros(walked, rank), PosInf, rank)
  IN  IF Total = 0 \/ ended.result = <<>> THEN Exactly(NegInf) ELSE Head(ended.result)

-----------------------------------------------------------------------------
(* CDF::calculateCDF, before the division by the total: the state of the    *)
(* loop is which zeros were handled, the sum, and whether it was left.      *)

\* A kind of zero is handled once, and counts if it is not above v.
WithZero(s, z, v) ==
  IF z \in s.zeros THEN s
  ELSE [s EXCEPT !.zeros = @ \cup {z}, !.cumulative = @ + (IF z <= v THEN Scale * Special(z) ELSE 0)]

WithZeros(s, v) == WithZero(WithZero(s, NegZero, v), PosZero, v)

\* A bin counts in full from the next label on; the loop is left at the one that v
\* falls in, of which a part counts if interpolated, and at any beyond it.
WithBin(s, b, v, interpolate) ==
  LET label == Label(b.position)
      next  == Label(b.position + 1)
      t     == IF label >= NegZero THEN WithZeros(s, v) ELSE s
  IN  CASE s.left    -> s
        [] v < label -> [t EXCEPT !.left = TRUE]
        [] next <= v -> [t EXCEPT !.cumulative = @ + Scale * b.count]
        [] OTHER     -> [t EXCEPT !.left = TRUE,
                                  !.cumulative = @ + IF interpolate /\ next # PosInf
                                                     THEN (Scale * b.count * (v - label)) \div (next - label) ELSE 0]

\* Mutant: the zeros that the loop did not come to are forgotten.
SettledInLoop(s, v) == s

\* What the loop did not come to.
Settled(s, v) == WithZeros(s, v)

CDF(v, interpolate) ==
  LET begun == [zeros |-> {}, cumulative |-> Scale * Special(NegInf), left |-> FALSE]
  IN  CASE Total = 0  -> 0
        [] v = PosInf -> Scale * Total
        [] v = NegInf -> begun.cumulative
        [] OTHER      -> Settled(FoldLeft(LAMBDA s, b : WithBin(s, b, v, interpolate), begun, bins), v).cumulative

-----------------------------------------------------------------------------
(* TopK::fetchTopK: from the greatest down; the state of the loop is        *)
(* zeros_handled, cumulative_count, top_k_bins and whether it returned.     *)

\* As the code reports an entry; the place is known from the bin's code.
Reported(e) == [lower |-> e.value, upper |-> IF e.place = NoPlace THEN e.value ELSE Label(e.place + 1),
                count |-> e.count, place |-> e.place]

Taking(s, e, n) ==
  IF s.enough THEN s
  ELSE [s EXCEPT !.cumulative = @ + e.count, !.entries = Append(@, Reported(e)),
                 !.enough = s.cumulative + e.count >= n]

TakingSpecial(s, z, n) == IF Special(z) = 0 THEN s ELSE Taking(s, SpecialEntry(z), n)

TakingZeros(s, n) ==
  IF s.zeros THEN s
  ELSE [TakingSpecial(TakingSpecial(s, PosZero, n), NegZero, n) EXCEPT !.zeros = TRUE]

\* Mutant: the zeros are taken before any bin, as they are from the other end.
TakingBinAsUp(s, b, n) ==
  Taking(IF Label(b.position) >= NegZero THEN TakingZeros(s, n) ELSE s, BinEntry(b), n)

\* The zeros are taken when the first bin below them comes.
TakingBin(s, b, n) ==
  Taking(IF Label(b.position) < NegZero THEN TakingZeros(s, n) ELSE s, BinEntry(b), n)

TopK(parts) ==
  LET total  == SpecialTotal + MapThenSumSet(LAMBDA k : bins[k].count, DOMAIN bins)
      n      == Max({1, (total * parts) \div Parts})
      begun  == TakingSpecial([zeros |-> FALSE, cumulative |-> 0, entries |-> <<>>, enough |-> FALSE], PosInf, n)
      walked == FoldLeft(LAMBDA s, b : TakingBin(s, b, n), begun, Reverse(bins))
  IN  IF total = 0 THEN <<>> ELSE TakingSpecial(TakingZeros(walked, n), NegInf, n).entries

-----------------------------------------------------------------------------
(* MinMax *)

Only(zs) == [k \in DOMAIN zs |-> SpecialEntry(zs[k])]

\* Those of some special values that there are, in the order they are asked for.
Present(zs) == SelectSeq(Only(zs), LAMBDA e : e.count > 0)

\* What a walk reports: its first entry, if it has one.
FirstReported(entries) == IF entries = <<>> THEN {} ELSE {Reported(Head(entries))}

\* getMinValue: the loop returns at the first bin, or at a zero below it.
MinValue ==
  LET zeros == Present(<<NegZero, PosZero>>)
      bin   == IF bins = <<>> THEN <<>> ELSE <<BinEntry(Head(bins))>>
  IN  CASE Special(NegInf) > 0 -> {Reported(SpecialEntry(NegInf))}
        [] Special(NegInf) = 0 /\ bins # <<>> ->
             FirstReported(IF Head(bin).value >= NegZero THEN zeros \o bin ELSE bin)
        [] OTHER -> FirstReported(zeros \o Present(<<PosInf>>))

\* Mutant: the zeros come in the order that getMinValue has them in.
MaxValueZerosUp ==
  LET zeros == Present(<<NegZero, PosZero>>)
      bin   == IF bins = <<>> THEN <<>> ELSE <<BinEntry(Last(bins))>>
  IN  CASE Special(PosInf) > 0 -> {Reported(SpecialEntry(PosInf))}
        [] Special(PosInf) = 0 /\ bins # <<>> ->
             FirstReported(IF Head(bin).value < NegZero THEN zeros \o bin ELSE bin)
        [] OTHER -> FirstReported(zeros \o Present(<<NegInf>>))

\* getMaxValue: the same from the other end.
MaxValue ==
  LET zeros == Present(<<PosZero, NegZero>>)
      bin   == IF bins = <<>> THEN <<>> ELSE <<BinEntry(Last(bins))>>
  IN  CASE Special(PosInf) > 0 -> {Reported(SpecialEntry(PosInf))}
        [] Special(PosInf) = 0 /\ bins # <<>> ->
             FirstReported(IF Head(bin).value < NegZero THEN zeros \o bin ELSE bin)
        [] OTHER -> FirstReported(zeros \o Present(<<NegInf>>))

\* updateMinResults and updateMaxResults: an entry replaces those kept, joins them or is
\* passed over.
Updated(s, e, better) ==
  CASE e.count = 0       -> s
    [] better            -> [count |-> e.count, kept |-> {Reported(e)}]
    [] e.count = s.count -> [s EXCEPT !.kept = @ \cup {Reported(e)}]
    [] OTHER             -> s

\* In the order that getMin and getMax look at them.
Entries == Only(<<NegInf, NegZero, PosZero, PosInf>>) \o [k \in DOMAIN bins |-> BinEntry(bins[k])]

LeastCount ==
  FoldLeft(LAMBDA s, e : Updated(s, e, e.count < s.count), [count |-> CountMod - 1, kept |-> {}], Entries).kept
GreatestCount ==
  FoldLeft(LAMBDA s, e : Updated(s, e, e.count > s.count), [count |-> 0, kept |-> {}], Entries).kept

-----------------------------------------------------------------------------
Construct == Read /\ UNCHANGED <<values, answer>>

Answer(a) == pc = "ready" /\ answer' = a /\ UNCHANGED <<reading, values>>

AskPercentile ==
  \E p \in 0 .. Parts : Answer([query |-> "percentile", of |-> p, is |-> Percentile(p)])

AskCDF ==
  \E v \in Asked, i \in BOOLEAN : Answer([query |-> "cdf", of |-> v, interpolate |-> i, is |-> CDF(v, i)])

\* getTopK throws unless 0 < k <= 100.
AskTopK ==
  \E k \in 1 .. Parts : Answer([query |-> "topk", of |-> k, is |-> TopK(k)])

AskMinMax ==
  Answer([query |-> "minmax", least |-> LeastCount, greatest |-> GreatestCount,
          first |-> MinValue, last |-> MaxValue])

Next == Construct \/ AskPercentile \/ AskCDF \/ AskTopK \/ AskMinMax

Spec == Init /\ [][Next]_vars

-----------------------------------------------------------------------------
\* Where a value is counted.
PlaceOf(v) == IF Filed(v) THEN CHOOSE i \in Places : Holds(i, v) ELSE NoPlace

\* The value is one of those that a reported entry stands for.
In(v, e) == IF e.place = NoPlace THEN v = e.lower ELSE PlaceOf(v) = e.place

(***************************************************************************)
(* The bounds a percentile comes with hold the true quantile, the least    *)
(* value that p percent of the values do not exceed: half open on the side *)
(* away from zero, whatever infinities and zeros lie around; and outside   *)
(* the negative bins the interpolated value lies within them.              *)
(***************************************************************************)
QuantileInBounds ==
  (answer.query = "percentile" /\ answer.of > 0 /\ values # <<>>) =>
     LET q == values[Min({k \in DOMAIN values : Parts * k >= answer.of * Len(values)})]
         b == answer.is
     IN  /\ b.lower <= q /\ q <= b.upper
         /\ b.lower < b.upper => IF q > PosZero THEN q < b.upper ELSE b.lower < q
         /\ q >= NegZero => Scale * b.lower <= b.value /\ b.value <= Scale * b.upper

(***************************************************************************)
(* How far the CDF is off: at v it is the number of values up to v less    *)
(* those in two bins, the one labelled last before v and, below zero, the  *)
(* one v itself falls in; zeros and infinities up to v all count, wherever *)
(* the loop was left.  Interpolation adds no more than the first of these  *)
(* bins holds.  Infinity is answered with all the values, and no number    *)
(* with more than a greater one.  That it is off below zero by a bin that  *)
(* v does not lie in is against the documentation: see CDFCountsBelow.     *)
(***************************************************************************)
CDFSkipsItsBins ==
  /\ answer.query = "cdf" =>
       /\ answer.of = PosInf => answer.is = Scale * Len(values)
       /\ \A v \in Asked : answer.of < v => answer.is <= CDF(v, answer.interpolate)
  /\ (answer.query = "cdf" /\ answer.of \notin {NegInf, PosInf}) =>
     LET v       == answer.of
         floor   == {i \in Places : Labels[i] <= v /\ v < Label(i + 1)}
         split   == floor \cup (IF Filed(v) THEN {PlaceOf(v)} ELSE {})
         counted == Scale * Cardinality({k \in DOMAIN values : values[k] <= v /\ PlaceOf(values[k]) \notin split})
     IN  /\ counted <= answer.is
         /\ answer.is <= counted + (IF answer.interpolate THEN
              Scale * Cardinality({k \in DOMAIN values : PlaceOf(values[k]) \in floor}) ELSE 0)

(***************************************************************************)
(* "Returns the probability mass <= the given value", less the bin that    *)
(* the value lies in unless interpolated ("the bin's lower-edge            *)
(* probability", docs/cpp-api.md:284-286): values in bins wholly below it  *)
(* are counted.                                                            *)
(***************************************************************************)
CDFCountsBelow ==
  answer.query = "cdf" =>
    answer.is >= Scale * Cardinality({k \in DOMAIN values :
                   values[k] <= answer.of /\ ~ (Filed(answer.of) /\ PlaceOf(values[k]) = PlaceOf(answer.of))})

(***************************************************************************)
(* "Bins from the upper tail until their cumulative count reaches k% of    *)
(* the total" (docs/cpp-api.md): the entries returned hold exactly the     *)
(* greatest values, each counted once, no entry more than needed, and k    *)
(* percent of the total but for a fraction of a value.                     *)
(***************************************************************************)
TopKIsTail ==
  (answer.query = "topk" /\ values # <<>>) =>
     LET entries == answer.is
         upTo(n) == MapThenSumSet(LAMBDA e : entries[e].count, 1 .. n)
         held    == {k \in DOMAIN values : \E e \in DOMAIN entries : In(values[k], entries[e])}
         sum     == upTo(Len(entries))
     IN  /\ sum = Cardinality(held) /\ \A k \in held : k .. Len(values) \subseteq held
         /\ Parts * (sum + 1) > answer.of * Len(values)
         /\ Len(entries) > 1 =>
              Parts * upTo(Len(entries) - 1) < answer.of * Len(values)

(***************************************************************************)
(* getMinValue and getMaxValue find the places of the least and greatest   *)
(* value; getMin and getMax all the places with the fewest and the most    *)
(* values, special values included.                                        *)
(***************************************************************************)
ExtremesFound ==
  answer.query = "minmax" =>
     LET mates(k) == {j \in DOMAIN values : IF Filed(values[k]) THEN PlaceOf(values[j]) = PlaceOf(values[k])
                                                              ELSE values[j] = values[k]}
         counts   == {Cardinality(mates(k)) : k \in DOMAIN values}
         reported(set, n) ==
           \A k \in DOMAIN values :
             Cardinality(mates(k)) = n <=> \E e \in set : In(values[k], e) /\ e.count = n
     IN  IF values = <<>> THEN UNION {answer.least, answer.greatest, answer.first, answer.last} = {}
         ELSE /\ \E e \in answer.first : In(values[1], e) /\ answer.first = {e}
              /\ \E e \in answer.last : In(Last(values), e) /\ answer.last = {e}
              /\ reported(answer.least, Min(counts)) /\ reported(answer.greatest, Max(counts))

=============================================================================
