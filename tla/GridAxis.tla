------------------------------ MODULE GridAxis ------------------------------
(***************************************************************************)
(* One axis of a grid (airtree-query/src/grid/GridQuery.cpp): how the      *)
(* range asked for is cut along the edges of bins into intervals, and into *)
(* which of them each bin, each infinity and zero goes.  Steps are divided *)
(* exactly, where the code does so in doubles.  It has no state.           *)
(***************************************************************************)
EXTENDS BinTable, Codes

\* buildBinTable: the interval of a bin, which excludes the label of the next one
\* away from zero.
Lower(i)   == IF Labels[i] >= 0 THEN Labels[i] ELSE IF i > 0 THEN Labels[i - 1] ELSE Low
Upper(i)   == IF Labels[i] < 0 THEN Labels[i] ELSE FPNumber(i + 1)
LowerIn(i) == Labels[i] >= 0
UpperIn(i) == Labels[i] < 0

\* makeFinitePart; a part also knows the bins it covers.
Part(lo, hi, edge) ==
  [kind |-> "finite", lower |-> Lower(lo), upper |-> Upper(hi),
   lowerIn |-> LowerIn(lo), upperIn |-> UpperIn(hi), edge |-> edge, bins |-> lo .. hi]

PointPart(kind, v) ==
  [kind |-> kind, lower |-> v, upper |-> v, lowerIn |-> TRUE, upperIn |-> TRUE,
   edge |-> FALSE, bins |-> {}]

\* v to the power of n.
Power(v, n) == LET p[k \in 0 .. n] == IF k = 0 THEN 1 ELSE v * p[k - 1] IN p[n]

\* How many of the boundaries between n steps from lo to hi are at most v; equal
\* quotients make the steps if scaling is multiplicative.
Group(v, lo, hi, spec) ==
  LET n == spec.steps
      passed == {g \in 0 .. n - 1 :
                   IF spec.mult THEN Power(v, n) * Power(lo, g) >= Power(lo, n) * Power(hi, g)
                                ELSE (v - lo) * n >= (hi - lo) * g}
  IN  Max(passed)

\* addInteriorParts: runs of bins whose lower ends lie in one step.
Interior(ilo, ihi, spec) ==
  LET lo == Lower(ilo)  hi == Upper(ihi)
      first == {p \in ilo .. ihi :
                  p = ilo \/ (spec.steps > 1 /\ Group(Lower(p), lo, hi, spec) # Group(Lower(p - 1), lo, hi, spec))}
      starts == InOrder([p \in first |-> p], first)
  IN  [k \in DOMAIN starts |-> Part(starts[k], IF k = Len(starts) THEN ihi ELSE starts[k + 1] - 1, FALSE)]

-----------------------------------------------------------------------------
NegInfEnd(spec) == spec.min = Low
PosInfEnd(spec) == spec.max = High
Open(spec)      == NegInfEnd(spec) \/ PosInfEnd(spec)

\* An extent of no values has its ends the wrong way round (`has` is false).
NoExtent == [min |-> High, max |-> Low]

\* The range with an end at infinity moved to where the data end.
Resolved(spec, ext) == [min |-> IF NegInfEnd(spec) THEN ext.min ELSE spec.min,
                        max |-> IF PosInfEnd(spec) THEN ext.max ELSE spec.max]

HaveFinite(spec, ext) ==
  /\ Open(spec) => ext # NoExtent
  /\ Resolved(spec, ext).min <= Resolved(spec, ext).max

\* What multiplicative scaling is refused for once the ends are known.
Scalable(spec, ext) ==
  spec.mult => LET r == Resolved(spec, ext) IN HaveFinite(spec, ext) /\ r.min > 0 /\ r.max > r.min

\* Mutant: a bin that ends with the range's first number is passed over.
InScopeStrict(r) ==
  {i \in Bins : Upper(i) > r.min /\ (Lower(i) < r.max \/ (Lower(i) = r.max /\ LowerIn(i)))}

\* The bins that overlap the range.
InScope(r) ==
  {i \in Bins : /\ Upper(i) > r.min \/ (Upper(i) = r.min /\ UpperIn(i))
                /\ Lower(i) < r.max \/ (Lower(i) = r.max /\ LowerIn(i))}

Fully(i, r) == Lower(i) >= r.min /\ Upper(i) <= r.max

\* A bin that sticks out of the range is a part by itself, an edge.
FiniteParts(spec, r) ==
  IF InScope(r) = {} THEN <<>>
  ELSE LET lo == Min(InScope(r))
           hi == Max(InScope(r))
           lowEdge  == ~ Fully(lo, r)
           highEdge == hi # lo /\ ~ Fully(hi, r)
           ilo == IF lowEdge THEN lo + 1 ELSE lo
           ihi == IF highEdge THEN hi - 1 ELSE hi
       IN  (IF lowEdge THEN <<Part(lo, lo, TRUE)>> ELSE <<>>)
             \o (IF ilo <= ihi THEN Interior(ilo, ihi, spec) ELSE <<>>)
             \o (IF highEdge THEN <<Part(hi, hi, TRUE)>> ELSE <<>>)

ContainsZero(part) ==
  /\ part.kind = "finite"
  /\ part.lower < 0 \/ (part.lower = 0 /\ part.lowerIn)
  /\ part.upper > 0 \/ (part.upper = 0 /\ part.upperIn)

\* The part that starts at zero, or else one around it.
ZeroParts(parts) ==
  LET at == {k \in DOMAIN parts : parts[k].kind = "finite" /\ parts[k].lower = 0}
  IN  IF at # {} THEN at ELSE {k \in DOMAIN parts : ContainsZero(parts[k])}

\* Mutant: zero's own part goes behind the finite ones.
WithZeroLast(parts) ==
  LET after == {k \in DOMAIN parts : parts[k].kind = "posinf"}
      at    == IF after = {} THEN Len(parts) + 1 ELSE Min(after)
  IN  InsertAt(parts, at, PointPart("finite", 0))

\* Zero's own part goes before the first one of positive numbers.
WithZero(parts) ==
  LET after == {k \in DOMAIN parts : \/ parts[k].kind = "posinf"
                                     \/ parts[k].kind = "finite" /\ parts[k].lower >= 0}
      at    == IF after = {} THEN Len(parts) + 1 ELSE Min(after)
  IN  InsertAt(parts, at, PointPart("finite", 0))

(***************************************************************************)
(* buildAxisModel: the intervals in order; `zero` is the one that zeros go *)
(* to, 0 if they are dropped.                                              *)
(***************************************************************************)
AxisModel(spec, ext) ==
  LET r      == Resolved(spec, ext)
      finite == HaveFinite(spec, ext)
      parts  == (IF NegInfEnd(spec) THEN <<PointPart("neginf", Low)>> ELSE <<>>)
                  \o (IF finite THEN FiniteParts(spec, r) ELSE <<>>)
                  \o (IF PosInfEnd(spec) THEN <<PointPart("posinf", High)>> ELSE <<>>)
      zeroIn == finite /\ r.min <= 0 /\ 0 <= r.max
      all    == IF zeroIn /\ ZeroParts(parts) = {} THEN WithZero(parts) ELSE parts
  IN  [intervals |-> all, zero |-> IF zeroIn THEN Min(ZeroParts(all)) ELSE 0]

\* partitionIndex of what a record says of the axis: its bin, an infinity or zero;
\* 0 if it is outside.
PartitionIndex(model, ax) ==
  LET ivs == model.intervals
      here == {k \in DOMAIN ivs :
                 CASE ax.kind = "finite" -> ax.bin \in ivs[k].bins
                   [] ax.kind = "zero"   -> k = model.zero
                   [] OTHER              -> ivs[k].kind = ax.kind}
  IN  IF here = {} THEN 0 ELSE Min(here)

=============================================================================
