----------------------------- MODULE GridProofs -----------------------------
(***************************************************************************)
(* Any number of threads may ask one GridQuery object for any grids over   *)
(* any histogram.  What a leaf says of each axis is decoded from its path  *)
(* (emitRecord); the intervals of an axis are those of its bins, edges,    *)
(* zero and infinities, in order and apart; a number falls in the one that *)
(* has its bin; the cells of a grid are numbered without gaps.  With the   *)
(* extent, written by one thread, once, and read by none before it is      *)
(* whole, these give what holds of every state (GridInv), and from it that *)
(* the intervals part the axis, that the rows count the points in them and *)
(* that no point in the ranges is lost.                                    *)
(***************************************************************************)
EXTENDS GridQuery, CommonProofs

-----------------------------------------------------------------------------
(* Bins and the parts that are made of them.                               *)

\* The bins of a table and their ends.
LEMMA TableIs ==
  /\ BinCount \in Nat \ {0} /\ Bins = 0 .. BinCount - 1 /\ IsFiniteSet(Bins)
  /\ \A i \in Bins : Labels[i] \in Int /\ Low < Labels[i] /\ Labels[i] < High /\ Labels[i] # 0
  /\ \A i, j \in Bins : i < j => Labels[i] < Labels[j]
  /\ Low \in Int /\ High \in Int /\ Low < 0 /\ 0 < High
<1>1. BinCount \in Nat \ {0} /\ Bins = 0 .. BinCount - 1 /\ Low \in Int /\ High \in Int
  BY TableAssumption DEF Bins
<1>2. IsFiniteSet(0 .. BinCount - 1)
  BY <1>1, FS_Interval
<1>3. \A i \in Bins : Labels[i] \in Int /\ Low < Labels[i] /\ Labels[i] < High
  BY <1>1, TableAssumption
<1>4. \A i, j \in Bins : i < j => Labels[i] < Labels[j]
  BY <1>1, TableAssumption
<1>5. (\A i \in Bins : Labels[i] # 0) /\ Low < 0 /\ 0 < High
  BY GridAssumption
<1> QED
  BY <1>1, <1>2, <1>3, <1>4, <1>5

\* The interval of a bin, which is not empty and on one side of zero.
LEMMA BinIs ==
  ASSUME NEW i \in Bins
  PROVE  /\ Lower(i) \in Int /\ Upper(i) \in Int /\ Lower(i) < Upper(i)
         /\ Low <= Lower(i) /\ Upper(i) <= High /\ Lower(i) # 0
         /\ LowerIn(i) <=> Labels[i] > 0
         /\ UpperIn(i) <=> Labels[i] < 0
         /\ LowerIn(i) \in BOOLEAN /\ UpperIn(i) \in BOOLEAN
         /\ Lower(i) <= Labels[i] /\ Labels[i] <= Upper(i)
         /\ LowerIn(i) => Lower(i) = Labels[i] /\ Labels[i] < Upper(i)
         /\ UpperIn(i) => Upper(i) = Labels[i] /\ Lower(i) < Labels[i]
<1>1. Labels[i] \in Int /\ Low < Labels[i] /\ Labels[i] < High /\ Labels[i] # 0 /\ Low \in Int /\ High \in Int
  BY TableIs
<1>2. CASE Labels[i] > 0
  <2>1. Lower(i) = Labels[i] /\ Upper(i) = FPNumber(i + 1) /\ LowerIn(i) = TRUE /\ UpperIn(i) = FALSE
    BY <1>1, <1>2 DEF Lower, Upper, LowerIn, UpperIn
  <2>2. FPNumber(i + 1) \in Int /\ Labels[i] < FPNumber(i + 1) /\ FPNumber(i + 1) <= High
    <3>1. CASE i + 1 \in Bins
      <4>1. i < i + 1
        BY TableIs
      <4> QED
        BY <3>1, <4>1, TableIs DEF FPNumber
    <3>2. CASE i + 1 \notin Bins
      BY <1>1, <3>2 DEF FPNumber
    <3> QED
      BY <3>1, <3>2
  <2>3. LowerIn(i) /\ ~ UpperIn(i) /\ LowerIn(i) \in BOOLEAN /\ UpperIn(i) \in BOOLEAN
    BY <2>1
  <2>4. /\ Lower(i) \in Int /\ Upper(i) \in Int /\ Lower(i) < Upper(i)
        /\ Low <= Lower(i) /\ Upper(i) <= High /\ Lower(i) # 0
        /\ Lower(i) = Labels[i] /\ Labels[i] < Upper(i) /\ Labels[i] <= Upper(i)
        /\ Labels[i] > 0 /\ ~ (Labels[i] < 0) /\ Lower(i) <= Labels[i]
    BY <1>1, <1>2, <2>1, <2>2
  <2> QED
    BY <2>3, <2>4
<1>3. CASE Labels[i] < 0
  <2>1. Upper(i) = Labels[i] /\ LowerIn(i) = FALSE /\ UpperIn(i) = TRUE
        /\ Lower(i) = IF i > 0 THEN Labels[i - 1] ELSE Low
    BY <1>1, <1>3 DEF Lower, Upper, LowerIn, UpperIn
  <2>2. Lower(i) \in Int /\ Lower(i) < Labels[i] /\ Low <= Lower(i) /\ Lower(i) # 0
    <3>1. CASE i > 0
      <4>1. i - 1 \in Bins /\ i - 1 < i
        BY <3>1, TableIs
      <4>2. Labels[i - 1] \in Int /\ Labels[i - 1] < Labels[i] /\ Low < Labels[i - 1] /\ Labels[i - 1] # 0
        BY <4>1, TableIs
      <4> QED
        BY <1>1, <2>1, <3>1, <4>2
    <3>2. CASE ~ (i > 0)
      BY <1>1, <1>3, <2>1, <3>2
    <3> QED
      BY <3>1, <3>2
  <2>3. ~ LowerIn(i) /\ UpperIn(i) /\ LowerIn(i) \in BOOLEAN /\ UpperIn(i) \in BOOLEAN
    BY <2>1
  <2>4. /\ Lower(i) \in Int /\ Upper(i) \in Int /\ Lower(i) < Upper(i)
        /\ Low <= Lower(i) /\ Upper(i) <= High /\ Lower(i) # 0
        /\ Upper(i) = Labels[i] /\ Lower(i) < Labels[i] /\ Labels[i] <= Upper(i)
        /\ Labels[i] < 0 /\ ~ (Labels[i] > 0) /\ Lower(i) <= Labels[i]
    BY <1>1, <1>3, <2>1, <2>2
  <2> QED
    BY <2>3, <2>4
<1> QED
  BY <1>1, <1>2, <1>3

\* Bins lie in their order without overlapping, and both ends ascend.
LEMMA BinsAscend ==
  ASSUME NEW i \in Bins, NEW j \in Bins, i < j
  PROVE  /\ Upper(i) <= Lower(j) /\ Lower(i) < Lower(j) /\ Upper(i) < Upper(j)
         /\ Upper(i) < Lower(j) \/ ~ (UpperIn(i) /\ LowerIn(j))
<1>1. Labels[i] \in Int /\ Labels[j] \in Int /\ Labels[i] < Labels[j] /\ Labels[i] # 0 /\ Labels[j] # 0
  BY TableIs
<1>2. i \in Int /\ j \in Int /\ i + 1 \in Bins /\ j - 1 \in Bins
  BY TableIs
<1>3. Upper(i) <= Lower(j)
  <2>1. CASE Labels[j] < 0
    <3>1. Upper(i) = Labels[i] /\ Lower(j) = Labels[j - 1]
      BY <1>1, <1>2, <2>1, TableIs DEF Upper, Lower
    <3>2. CASE i = j - 1
      BY <1>1, <3>1, <3>2
    <3>3. CASE i < j - 1
      <4>1. Labels[i] < Labels[j - 1] /\ Labels[j - 1] \in Int
        BY <1>2, <3>3, TableIs
      <4> QED
        BY <1>1, <3>1, <4>1
    <3> QED
      BY <1>2, <3>2, <3>3
  <2>2. CASE Labels[j] > 0 /\ Labels[i] < 0
    <3>1. Upper(i) = Labels[i] /\ Lower(j) = Labels[j]
      BY <1>1, <2>2 DEF Upper, Lower
    <3> QED
      BY <1>1, <3>1
  <2>3. CASE Labels[i] > 0
    <3>1. Upper(i) = Labels[i + 1] /\ Lower(j) = Labels[j]
      BY <1>1, <1>2, <2>3 DEF Upper, Lower, FPNumber
    <3>2. CASE i + 1 = j
      BY <1>1, <3>1, <3>2
    <3>3. CASE i + 1 < j
      <4>1. Labels[i + 1] < Labels[j] /\ Labels[i + 1] \in Int
        BY <1>2, <3>3, TableIs
      <4> QED
        BY <1>1, <3>1, <4>1
    <3> QED
      BY <1>2, <3>2, <3>3
  <2> QED
    BY <1>1, <2>1, <2>2, <2>3
<1>4. /\ Lower(i) \in Int /\ Upper(i) \in Int /\ Lower(i) < Upper(i)
      /\ Lower(j) \in Int /\ Upper(j) \in Int /\ Lower(j) < Upper(j)
  BY BinIs
<1>5. Upper(i) < Lower(j) \/ ~ (UpperIn(i) /\ LowerIn(j))
  <2> SUFFICES ASSUME UpperIn(i), LowerIn(j) PROVE Upper(i) < Lower(j)
    OBVIOUS
  <2>1. Upper(i) = Labels[i] /\ Lower(j) = Labels[j]
    BY BinIs
  <2> QED
    BY <1>1, <2>1
<1> QED
  BY <1>3, <1>4, <1>5

\* One interval ends before another begins.
Apart(p, q) == p.upper < q.lower \/ (p.upper = q.lower /\ ~ (p.upperIn /\ q.lowerIn))

\* Which kind of part of bins there are: one that sticks out of a range, and what begins
\* with one of F inside it.
Edges == {Part(b, b, TRUE) : b \in Bins}
Inners(F, last) == UNION {{Part(a, c, FALSE) : c \in a .. last} : a \in F}

NegPart  == PointPart("neginf", Low)
PosPart  == PointPart("posinf", High)
ZeroPart == PointPart("finite", 0)

\* A part of bins from a to c.
Spans(p, a, c) ==
  /\ a \in Bins /\ c \in Bins /\ a <= c
  /\ p.kind = "finite" /\ p.bins = a .. c
  /\ p.lower = Lower(a) /\ p.upper = Upper(c) /\ p.lowerIn = LowerIn(a) /\ p.upperIn = UpperIn(c)

\* A part between the inner bounds is one of the inner parts.
LEMMA InnerIs ==
  ASSUME NEW F, NEW last, NEW a \in F, NEW c \in a .. last
  PROVE  Part(a, c, FALSE) \in Inners(F, last)
<1>1. Part(a, c, FALSE) \in {Part(a, d, FALSE) : d \in a .. last}
  OBVIOUS
<1> QED
  BY <1>1 DEF Inners

\* A part made of a range of bins spans them.
LEMMA PartIs ==
  ASSUME NEW a \in Bins, NEW c \in Bins, a <= c, NEW e
  PROVE  Spans(Part(a, c, e), a, c) /\ Part(a, c, e).edge = e
BY DEF Part, Spans

\* The parts of bins there are.
Pieces(F, last) == Edges \cup Inners(F, last)

\* Every part spans a range of bins: an edge a single one, an inner part from an inner bound.
LEMMA PiecesSpan ==
  ASSUME NEW F \in SUBSET Bins, NEW last \in Bins, NEW p \in Pieces(F, last)
  PROVE  \E a, c \in Bins : /\ Spans(p, a, c)
                            /\ p.edge => a = c
                            /\ ~ p.edge => a \in F /\ c <= last
                            /\ p.edge \in BOOLEAN
<1>1. CASE p \in Edges
  <2>1. PICK b \in Bins : p = Part(b, b, TRUE)
    BY <1>1 DEF Edges
  <2>2. b <= b
    BY TableIs
  <2>3. Spans(p, b, b) /\ p.edge = TRUE
    BY <2>1, <2>2, PartIs
  <2> QED
    BY <2>3
<1>2. CASE p \in Inners(F, last)
  <2>0. PICK a \in F : \E c \in a .. last : p = Part(a, c, FALSE)
    BY <1>2 DEF Inners
  <2>1. PICK c \in a .. last : p = Part(a, c, FALSE)
    BY <2>0
  <2>2. a \in Bins /\ c \in Bins /\ a <= c /\ c <= last
    BY <2>1, TableIs
  <2>3. Spans(p, a, c) /\ p.edge = FALSE
    BY <2>1, <2>2, PartIs
  <2> QED
    BY <2>2, <2>3
<1> QED
  BY <1>1, <1>2 DEF Pieces

\* Parts of separate bins are apart, in the order of these.
LEMMA SpansApart ==
  ASSUME NEW p, NEW a, NEW c, Spans(p, a, c), NEW q, NEW b, NEW d, Spans(q, b, d), c < b
  PROVE  Apart(p, q)
<1>1. c \in Bins /\ b \in Bins /\ p.upper = Upper(c) /\ q.lower = Lower(b) /\ p.upperIn = UpperIn(c) /\ q.lowerIn = LowerIn(b)
  BY DEF Spans
<1>2. Upper(c) <= Lower(b) /\ (Upper(c) < Lower(b) \/ ~ (UpperIn(c) /\ LowerIn(b)))
  BY <1>1, BinsAscend
<1>3. Upper(c) \in Int /\ Lower(b) \in Int
  BY <1>1, BinIs
<1> QED
  BY <1>1, <1>2, <1>3 DEF Apart

\* What the ends of a part are.
LEMMA SpanEnds ==
  ASSUME NEW p, NEW a, NEW c, Spans(p, a, c)
  PROVE  /\ p.lower \in Int /\ p.upper \in Int /\ p.lower < p.upper
         /\ Low <= p.lower /\ p.upper <= High /\ p.lower # 0
         /\ p.lowerIn \in BOOLEAN /\ p.upperIn \in BOOLEAN
         /\ p.lowerIn => Low < p.lower
         /\ p.upperIn => p.upper < High
<1>1. a \in Bins /\ c \in Bins /\ a <= c /\ a \in Int /\ c \in Int
  BY TableIs DEF Spans
<1>2. p.lower = Lower(a) /\ p.upper = Upper(c) /\ p.lowerIn = LowerIn(a) /\ p.upperIn = UpperIn(c)
  BY DEF Spans
<1>3. Lower(a) < Upper(c)
  <2>1. CASE a = c
    BY <1>1, <2>1, BinIs
  <2>2. CASE a < c
    <3>1. Upper(a) <= Lower(c) /\ Lower(a) < Upper(a) /\ Lower(c) < Upper(c)
      BY <1>1, <2>2, BinIs, BinsAscend
    <3>2. Upper(a) \in Int /\ Lower(c) \in Int /\ Upper(c) \in Int /\ Lower(a) \in Int
      BY <1>1, BinIs
    <3> QED
      BY <3>1, <3>2
  <2> QED
    BY <1>1, <2>1, <2>2
<1>4. /\ Lower(a) \in Int /\ Low <= Lower(a) /\ Lower(a) # 0 /\ LowerIn(a) \in BOOLEAN
      /\ LowerIn(a) => Lower(a) = Labels[a]
  BY <1>1, BinIs
<1>5. /\ Upper(c) \in Int /\ Upper(c) <= High /\ UpperIn(c) \in BOOLEAN
      /\ UpperIn(c) => Upper(c) = Labels[c]
  BY <1>1, BinIs
<1>6. Low < Labels[a] /\ Labels[c] < High
  BY <1>1, TableIs
<1> QED
  BY <1>2, <1>3, <1>4, <1>5, <1>6
-----------------------------------------------------------------------------
(* Sequences of intervals that ascend.                                     *)

Ascending(s) == \A j, k \in DOMAIN s : j < k => Apart(s[j], s[k])

\* The elements of sequences put one behind the other.
LEMMA Joined ==
  ASSUME NEW S, NEW s \in Seq(S), NEW t \in Seq(S)
  PROVE  s \o t \in Seq(S) /\ Range(s \o t) = Range(s) \cup Range(t)
<1> DEFINE m == Len(s)
           n == Len(t)
<1>1. m \in Nat /\ n \in Nat /\ DOMAIN s = 1 .. m /\ DOMAIN t = 1 .. n
  BY LenProperties
<1>2. s \o t \in Seq(S) /\ DOMAIN (s \o t) = 1 .. m + n
  <2>1. s \o t \in Seq(S) /\ Len(s \o t) = m + n
    BY ConcatProperties
  <2> QED
    BY <2>1, LenProperties
<1>3. (\A k \in 1 .. m : (s \o t)[k] = s[k]) /\ \A k \in m + 1 .. m + n : (s \o t)[k] = t[k - m]
  BY ConcatProperties
<1> HIDE DEF m, n
<1>4. Range(s \o t) \subseteq Range(s) \cup Range(t)
  <2> SUFFICES ASSUME NEW k \in 1 .. m + n PROVE (s \o t)[k] \in Range(s) \cup Range(t)
    BY <1>2 DEF Range
  <2>1. CASE k \in 1 .. m
    BY <1>1, <1>3, <2>1 DEF Range
  <2>2. CASE k \in m + 1 .. m + n
    <3>1. k - m \in 1 .. n
      BY <1>1, <2>2
    <3> QED
      BY <1>1, <1>3, <2>2, <3>1 DEF Range
  <2> QED
    BY <1>1, <2>1, <2>2
<1>5. Range(s) \cup Range(t) \subseteq Range(s \o t)
  <2>1. ASSUME NEW k \in 1 .. m PROVE s[k] \in Range(s \o t)
    <3>1. k \in 1 .. m + n
      BY <1>1
    <3> QED
      BY <1>2, <1>3, <3>1 DEF Range
  <2>2. ASSUME NEW k \in 1 .. n PROVE t[k] \in Range(s \o t)
    <3>1. m + k \in 1 .. m + n /\ m + k \in m + 1 .. m + n /\ (m + k) - m = k
      BY <1>1
    <3>2. (s \o t)[m + k] = t[k]
      BY <1>3, <3>1
    <3> QED
      BY <1>2, <3>1, <3>2 DEF Range
  <2> QED
    BY <1>1, <2>1, <2>2 DEF Range
<1> QED
  BY <1>2, <1>4, <1>5

\* They ascend if the ones before are apart from those behind.
LEMMA JoinAscends ==
  ASSUME NEW S, NEW s \in Seq(S), NEW t \in Seq(S), Ascending(s), Ascending(t),
         \A p \in Range(s), q \in Range(t) : Apart(p, q)
  PROVE  Ascending(s \o t)
<1> DEFINE m == Len(s)
           n == Len(t)
<1>1. m \in Nat /\ n \in Nat /\ DOMAIN s = 1 .. m /\ DOMAIN t = 1 .. n
  BY LenProperties
<1>2. s \o t \in Seq(S) /\ DOMAIN (s \o t) = 1 .. m + n
  <2>1. s \o t \in Seq(S) /\ Len(s \o t) = m + n
    BY ConcatProperties
  <2> QED
    BY <2>1, LenProperties
<1>3. (\A k \in 1 .. m : (s \o t)[k] = s[k]) /\ \A k \in m + 1 .. m + n : (s \o t)[k] = t[k - m]
  BY ConcatProperties
<1> HIDE DEF m, n
<1>4. SUFFICES ASSUME NEW j \in 1 .. m + n, NEW k \in 1 .. m + n, j < k
               PROVE  Apart((s \o t)[j], (s \o t)[k])
  BY <1>2 DEF Ascending
<1>5. CASE k <= m
  <2>1. j \in 1 .. m /\ k \in 1 .. m
    BY <1>1, <1>4, <1>5
  <2> QED
    BY <1>1, <1>3, <1>4, <2>1 DEF Ascending
<1>6. CASE j <= m /\ m < k
  <2>1. j \in 1 .. m /\ k \in m + 1 .. m + n /\ k - m \in 1 .. n
    BY <1>1, <1>6
  <2>2. s[j] \in Range(s) /\ t[k - m] \in Range(t)
    BY <1>1, <2>1 DEF Range
  <2> QED
    BY <1>3, <2>1, <2>2
<1>7. CASE m < j
  <2>1. j \in m + 1 .. m + n /\ k \in m + 1 .. m + n /\ j - m \in 1 .. n /\ k - m \in 1 .. n /\ j - m < k - m
    BY <1>1, <1>4, <1>7
  <2>2. Apart(t[j - m], t[k - m])
    BY <1>1, <2>1 DEF Ascending
  <2> QED
    BY <1>3, <2>1, <2>2
<1> QED
  BY <1>1, <1>4, <1>5, <1>6, <1>7

\* An interval by itself, and none.
LEMMA OneIs ==
  ASSUME NEW p
  PROVE  /\ <<p>> \in Seq({p}) /\ Range(<<p>>) = {p} /\ Ascending(<<p>>)
         /\ Range(<<>>) = {} /\ Ascending(<<>>)
<1>1. DOMAIN <<p>> = 1 .. 1 /\ <<p>>[1] = p /\ DOMAIN <<>> = 1 .. 0
  OBVIOUS
<1>2. Range(<<p>>) = {p}
  BY <1>1 DEF Range
<1>3. Range(<<>>) = {}
  BY <1>1 DEF Range
<1>4. Ascending(<<p>>)
  BY <1>1 DEF Ascending
<1>5. Ascending(<<>>)
  BY <1>1 DEF Ascending
<1> QED
  BY <1>2, <1>3, <1>4, <1>5

\* An interval put between those before it and those behind.
LEMMA Inserted ==
  ASSUME NEW S, NEW s \in Seq(S), NEW e \in S, NEW i \in 1 .. Len(s) + 1, Ascending(s),
         \A k \in 1 .. i - 1 : Apart(s[k], e), \A k \in i .. Len(s) : Apart(e, s[k])
  PROVE  InsertAt(s, i, e) \in Seq(S) /\ Range(InsertAt(s, i, e)) = Range(s) \cup {e} /\ Ascending(InsertAt(s, i, e))
<1> DEFINE n == Len(s)
           a == SubSeq(s, 1, i - 1)
           c == SubSeq(s, i, n)
<1>0. n \in Nat /\ DOMAIN s = 1 .. n /\ i \in 1 .. n + 1
  BY LenProperties
<1>1. a \in Seq(S) /\ Len(a) = i - 1 /\ DOMAIN a = 1 .. i - 1 /\ \A k \in 1 .. i - 1 : a[k] = s[k]
  <2>1. a \in Seq(S) /\ Len(a) = i - 1 /\ \A k \in 1 .. i - 1 : a[k] = s[1 + k - 1]
    BY <1>0, SubSeqProperties
  <2>2. DOMAIN a = 1 .. i - 1
    BY <2>1, LenProperties
  <2>3. \A k \in 1 .. i - 1 : 1 + k - 1 = k
    BY <1>0
  <2> QED
    BY <2>1, <2>2, <2>3
<1>2. c \in Seq(S) /\ DOMAIN c = 1 .. n - i + 1 /\ \A k \in 1 .. n - i + 1 : c[k] = s[i + k - 1]
  <2>1. c \in Seq(S) /\ Len(c) = n - i + 1 /\ \A k \in 1 .. n - i + 1 : c[k] = s[i + k - 1]
    BY <1>0, SubSeqProperties
  <2> QED
    BY <2>1, LenProperties
<1>3. \A k \in 1 .. n - i + 1 : i + k - 1 \in i .. n /\ i + k - 1 \in 1 .. n
  BY <1>0
<1> HIDE DEF n, a, c
<1>4. Ascending(a)
  <2> SUFFICES ASSUME NEW j \in 1 .. i - 1, NEW k \in 1 .. i - 1, j < k PROVE Apart(a[j], a[k])
    BY <1>1 DEF Ascending
  <2>1. j \in 1 .. n /\ k \in 1 .. n
    BY <1>0
  <2> QED
    BY <1>0, <1>1, <2>1 DEF Ascending
<1>5. Ascending(c)
  <2> SUFFICES ASSUME NEW j \in 1 .. n - i + 1, NEW k \in 1 .. n - i + 1, j < k PROVE Apart(c[j], c[k])
    BY <1>2 DEF Ascending
  <2>1. i + j - 1 \in 1 .. n /\ i + k - 1 \in 1 .. n /\ i + j - 1 < i + k - 1
    BY <1>0, <1>3
  <2>2. Apart(s[i + j - 1], s[i + k - 1])
    BY <1>0, <2>1 DEF Ascending
  <2> QED
    BY <1>2, <2>2
<1>6. Range(s) = Range(a) \cup Range(c)
  <2>1. ASSUME NEW k \in 1 .. n PROVE s[k] \in Range(a) \cup Range(c)
    <3>1. CASE k < i
      <4>1. k \in 1 .. i - 1
        BY <1>0, <3>1
      <4> QED
        BY <1>1, <4>1 DEF Range
    <3>2. CASE k >= i
      <4>1. k - i + 1 \in 1 .. n - i + 1 /\ i + (k - i + 1) - 1 = k
        BY <1>0, <3>2
      <4>2. c[k - i + 1] = s[k]
        BY <1>2, <4>1
      <4> QED
        BY <1>2, <4>1, <4>2 DEF Range
    <3> QED
      BY <1>0, <3>1, <3>2
  <2>2. ASSUME NEW k \in 1 .. i - 1 PROVE a[k] \in Range(s)
    <3>1. k \in 1 .. n
      BY <1>0
    <3> QED
      BY <1>0, <1>1, <3>1 DEF Range
  <2>3. ASSUME NEW k \in 1 .. n - i + 1 PROVE c[k] \in Range(s)
    BY <1>0, <1>2, <1>3 DEF Range
  <2>4. Range(s) \subseteq Range(a) \cup Range(c)
    BY <1>0, <2>1 DEF Range
  <2>5. Range(a) \subseteq Range(s)
    BY <1>1, <2>2 DEF Range
  <2>6. Range(c) \subseteq Range(s)
    BY <1>2, <2>3 DEF Range
  <2> QED
    BY <2>4, <2>5, <2>6
<1>7. \A p \in Range(a) : Apart(p, e)
  BY <1>1 DEF Range
<1>8. \A q \in Range(c) : Apart(e, q)
  <2>1. \A k \in i .. n : Apart(e, s[k])
    BY DEF n
  <2> QED
    BY <1>2, <1>3, <2>1 DEF Range
<1>9. \A p \in Range(a), q \in Range(c) : Apart(p, q)
  <2> SUFFICES ASSUME NEW j \in 1 .. i - 1, NEW k \in 1 .. n - i + 1 PROVE Apart(a[j], c[k])
    BY <1>1, <1>2 DEF Range
  <2>1. j \in 1 .. n /\ i + k - 1 \in 1 .. n /\ j < i + k - 1
    BY <1>0, <1>3
  <2>2. Apart(s[j], s[i + k - 1])
    BY <1>0, <2>1 DEF Ascending
  <2> QED
    BY <1>1, <1>2, <2>2
<1>10. <<e>> \in Seq(S) /\ Range(<<e>>) = {e} /\ Ascending(<<e>>)
  BY OneIs
<1>11. /\ a \o <<e>> \in Seq(S) /\ Range(a \o <<e>>) = Range(a) \cup {e} /\ Ascending(a \o <<e>>)
  <2>1. \A p \in Range(a), q \in Range(<<e>>) : Apart(p, q)
    BY <1>7, <1>10
  <2>2. a \o <<e>> \in Seq(S) /\ Range(a \o <<e>>) = Range(a) \cup Range(<<e>>)
    BY <1>1, <1>10, Joined
  <2>3. Ascending(a \o <<e>>)
    BY <1>1, <1>4, <1>10, <2>1, JoinAscends
  <2> QED
    BY <1>10, <2>2, <2>3
<1>12. /\ (a \o <<e>>) \o c \in Seq(S) /\ Range((a \o <<e>>) \o c) = (Range(a) \cup {e}) \cup Range(c)
       /\ Ascending((a \o <<e>>) \o c)
  <2>1. \A p \in Range(a \o <<e>>), q \in Range(c) : Apart(p, q)
    BY <1>8, <1>9, <1>11
  <2> DEFINE b == a \o <<e>>
  <2>2. b \in Seq(S) /\ Range(b) = Range(a) \cup {e} /\ Ascending(b)
    BY <1>11
  <2>3. \A p \in Range(b), q \in Range(c) : Apart(p, q)
    BY <2>1
  <2> HIDE DEF b
  <2>4. b \o c \in Seq(S) /\ Range(b \o c) = Range(b) \cup Range(c)
    BY <1>2, <2>2, Joined
  <2>5. Ascending(b \o c)
    BY <1>2, <1>5, <2>2, <2>3, JoinAscends
  <2>6. b \o c \in Seq(S) /\ Range(b \o c) = (Range(a) \cup {e}) \cup Range(c) /\ Ascending(b \o c)
    BY <2>2, <2>4, <2>5
  <2> QED
    BY <2>6 DEF b
<1>13. InsertAt(s, i, e) = (a \o <<e>>) \o c
  BY DEF InsertAt, a, c, n
<1> QED
  BY <1>6, <1>12, <1>13
-----------------------------------------------------------------------------
(* The steps of a range.                                                   *)

Powers(p, v, n) == p[0] = 1 /\ \A k \in 1 .. n : p[k] = v * p[k - 1]

\* Powers are made from one exponent to the next (the pow of addInteriorParts).
LEMMA PowerIs ==
  ASSUME NEW v \in Nat, NEW n \in Nat
  PROVE  \E p \in [0 .. n -> Nat] : Powers(p, v, n) /\ Power(v, n) = p[n]
<1> DEFINE step == [k \in 1 .. n |-> [x \in Nat |-> v * x]]
           Eq(p) == p = [k \in 0 .. n |-> IF k = 0 THEN 1 ELSE v * p[k - 1]]
<1>1. step \in [1 .. n -> [Nat -> Nat]]
  BY ProductOfNaturals
<1>2. PICK g \in [0 .. n -> Nat] : Follows(g, step, n, 1)
  <2> HIDE DEF step
  <2> QED
    BY <1>1, Recursion
<1>3. Powers(g, v, n)
  <2>1. \A k \in 1 .. n : k - 1 \in 0 .. n /\ g[k - 1] \in Nat
    OBVIOUS
  <2>2. \A k \in 1 .. n : step[k][g[k - 1]] = v * g[k - 1]
    BY <2>1
  <2> HIDE DEF step
  <2> QED
    BY <1>2, <2>2 DEF Follows, Powers
<1>4. Eq(g)
  <2>1. g = [k \in 0 .. n |-> g[k]]
    OBVIOUS
  <2>2. \A k \in 0 .. n : g[k] = IF k = 0 THEN 1 ELSE v * g[k - 1]
    BY <1>3 DEF Powers
  <2> QED
    BY <2>1, <2>2
<1> DEFINE p == CHOOSE p : Eq(p)
<1>5. Eq(p)
  BY <1>4
<1>6. Power(v, n) = p[n]
  BY DEF Power
<1> HIDE DEF p
<1>7. p = [k \in 0 .. n |-> p[k]] /\ p[0] = 1 /\ \A k \in 1 .. n : p[k] = v * p[k - 1]
  <2>1. \A k \in 0 .. n : p[k] = IF k = 0 THEN 1 ELSE v * p[k - 1]
    BY <1>5, Zenon
  <2>2. p = [k \in 0 .. n |-> p[k]]
    BY <1>5, Zenon
  <2>3. 0 \in 0 .. n /\ \A k \in 1 .. n : k \in 0 .. n /\ k # 0
    OBVIOUS
  <2> QED
    BY <2>1, <2>2, <2>3, Zenon
<1> DEFINE Good == {k \in 0 .. n : p[k] \in Nat}
<1>8. 0 \in Good
  BY <1>7
<1>9. ASSUME NEW k \in 1 .. n, k - 1 \in Good
      PROVE  k \in Good
  <2>1. p[k - 1] \in Nat
    BY <1>9
  <2>2. v * p[k - 1] \in Nat
    BY <2>1, ProductOfNaturals
  <2>3. p[k] = v * p[k - 1]
    BY <1>7
  <2>4. p[k] \in Nat
    BY <2>2, <2>3
  <2> QED
    BY <2>4
<1>10. \A k \in 0 .. n : k \in Good
  <2> HIDE DEF Good
  <2> QED
    BY <1>8, <1>9, CountingUp
<1>11. p \in [0 .. n -> Nat]
  BY <1>7, <1>10
<1> QED
  BY <1>6, <1>7, <1>11 DEF Powers

\* Products of larger numbers are larger.
LEMMA ProductsGrow ==
  ASSUME NEW a \in Nat, NEW b \in Nat, NEW c \in Nat, NEW d \in Nat, a <= b, c <= d
  PROVE  a * c <= b * d
<1>1. PICK x \in Nat : x = a * c
  BY ProductOfNaturals
<1>2. PICK y \in Nat : y = b * c
  BY ProductOfNaturals
<1>3. PICK z \in Nat : z = b * d
  BY ProductOfNaturals
<1>4. a * c <= b * c
  BY Z3
<1>5. b * c <= b * d
  BY Z3
<1>6. x <= y /\ y <= z
  BY <1>1, <1>2, <1>3, <1>4, <1>5
<1> QED
  BY <1>1, <1>3, <1>6

\* Powers of larger numbers are larger.
LEMMA PowersGrow ==
  ASSUME NEW v \in Nat, NEW w \in Nat, v <= w, NEW n \in Nat
  PROVE  Power(v, n) \in Nat /\ Power(w, n) \in Nat /\ Power(v, n) <= Power(w, n)
<1>1. PICK p \in [0 .. n -> Nat] : Powers(p, v, n) /\ Power(v, n) = p[n]
  BY PowerIs
<1>2. PICK q \in [0 .. n -> Nat] : Powers(q, w, n) /\ Power(w, n) = q[n]
  BY PowerIs
<1> DEFINE Good == {k \in 0 .. n : p[k] <= q[k]}
<1>3. 0 \in Good
  BY <1>1, <1>2 DEF Powers
<1>4. ASSUME NEW k \in 1 .. n, k - 1 \in Good
      PROVE  k \in Good
  <2>1. p[k - 1] \in Nat /\ q[k - 1] \in Nat /\ p[k - 1] <= q[k - 1]
    BY <1>4
  <2>2. v * p[k - 1] <= w * q[k - 1]
    BY <2>1, ProductsGrow
  <2>3. p[k] = v * p[k - 1] /\ q[k] = w * q[k - 1]
    BY <1>1, <1>2 DEF Powers
  <2>4. p[k] <= q[k]
    BY <2>2, <2>3
  <2> QED
    BY <2>4
<1>5. \A k \in 0 .. n : k \in Good
  <2> HIDE DEF Good
  <2> QED
    BY <1>3, <1>4, CountingUp
<1>6. n \in Good /\ p[n] \in Nat /\ q[n] \in Nat
  BY <1>5
<1> QED
  BY <1>1, <1>2, <1>6

\* What Group takes the greatest of.
Reached(v, lo, hi, spec, g) ==
  IF spec.mult THEN Power(v, spec.steps) * Power(lo, g) >= Power(lo, spec.steps) * Power(hi, g)
               ELSE (v - lo) * spec.steps >= (hi - lo) * g
Passed(v, lo, hi, spec) == {g \in 0 .. spec.steps - 1 : Reached(v, lo, hi, spec, g)}

\* How a range can be divided.
Divisible(lo, hi, spec) ==
  /\ lo \in Int /\ hi \in Int /\ lo <= hi /\ spec.steps \in Nat \ {0} /\ spec.mult \in BOOLEAN
  /\ spec.mult => lo >= 0

\* A greater number has passed the same boundaries, and any number the first one.
LEMMA PassedGrows ==
  ASSUME NEW lo, NEW hi, NEW spec, Divisible(lo, hi, spec),
         NEW v \in Int, NEW w \in Int, lo <= v, v <= w
  PROVE  0 \in Passed(v, lo, hi, spec) /\ Passed(v, lo, hi, spec) \subseteq Passed(w, lo, hi, spec)
<1> DEFINE n == spec.steps
<1>1. n \in Nat /\ n > 0 /\ 0 \in 0 .. n - 1 /\ lo \in Int /\ hi \in Int /\ lo <= hi
  BY DEF Divisible
<1>2. CASE spec.mult
  <2>1. lo \in Nat /\ v \in Nat /\ w \in Nat /\ hi \in Nat
    BY <1>1, <1>2 DEF Divisible
  <2>2. Reached(v, lo, hi, spec, 0)
    <3>1. Power(lo, 0) = 1
      <4>1. PICK p \in [0 .. 0 -> Nat] : Powers(p, lo, 0) /\ Power(lo, 0) = p[0]
        BY <2>1, PowerIs
      <4> QED
        BY <4>1 DEF Powers
    <3>2. Power(hi, 0) = 1
      <4>1. PICK p \in [0 .. 0 -> Nat] : Powers(p, hi, 0) /\ Power(hi, 0) = p[0]
        BY <2>1, PowerIs
      <4> QED
        BY <4>1 DEF Powers
    <3>3. PICK a \in Nat, b \in Nat : a = Power(lo, n) /\ b = Power(v, n) /\ a <= b
      BY <1>1, <2>1, PowersGrow
    <3>4. b * 1 >= a * 1
      BY <3>3
    <3> QED
      BY <1>2, <3>1, <3>2, <3>3, <3>4 DEF Reached
  <2>3. ASSUME NEW g \in 0 .. n - 1, Reached(v, lo, hi, spec, g)
        PROVE  Reached(w, lo, hi, spec, g)
    <3>0. g \in Nat
      BY <1>1
    <3>1. PICK a \in Nat, b \in Nat : a = Power(v, n) /\ b = Power(w, n) /\ a <= b
      BY <1>1, <2>1, PowersGrow
    <3>2. PICK c \in Nat : c = Power(lo, g)
      BY <2>1, <3>0, PowersGrow
    <3>3. PICK d \in Nat : d = Power(lo, n)
      BY <1>1, <2>1, PowersGrow
    <3>4. PICK e \in Nat : e = Power(hi, g)
      BY <2>1, <3>0, PowersGrow
    <3>5. PICK x \in Nat : x = a * c
      BY ProductOfNaturals
    <3>6. PICK y \in Nat : y = b * c
      BY ProductOfNaturals
    <3>7. PICK z \in Nat : z = d * e
      BY ProductOfNaturals
    <3>8. x >= z
      BY <1>2, <2>3, <3>1, <3>2, <3>3, <3>4, <3>5, <3>7 DEF Reached
    <3>9. a * c <= b * c
      BY <3>1, ProductsGrow
    <3>10. y >= z
      BY <3>5, <3>6, <3>8, <3>9
    <3> QED
      BY <1>2, <3>1, <3>2, <3>3, <3>4, <3>6, <3>7, <3>10 DEF Reached
  <2> QED
    BY <1>1, <2>2, <2>3 DEF Passed
<1>3. CASE ~ spec.mult
  <2>1. v - lo \in Nat /\ w - lo \in Nat /\ hi - lo \in Nat /\ v - lo <= w - lo
    BY <1>1
  <2>2. PICK a \in Nat : a = (v - lo) * n
    BY <1>1, <2>1, ProductOfNaturals
  <2>3. PICK b \in Nat : b = (w - lo) * n
    BY <1>1, <2>1, ProductOfNaturals
  <2>4. a <= b
    <3>1. (v - lo) * n <= (w - lo) * n
      BY <1>1, <2>1, ProductsGrow
    <3> QED
      BY <2>2, <2>3, <3>1
  <2>5. Reached(v, lo, hi, spec, 0)
    <3>1. (hi - lo) * 0 = 0
      BY <1>1
    <3> QED
      BY <1>3, <2>2, <3>1 DEF Reached
  <2>6. ASSUME NEW g \in 0 .. n - 1, Reached(v, lo, hi, spec, g)
        PROVE  Reached(w, lo, hi, spec, g)
    <3>1. PICK c \in Nat : c = (hi - lo) * g
      BY <1>1, <2>1, ProductOfNaturals
    <3>2. a >= c
      BY <1>3, <2>2, <2>6, <3>1 DEF Reached
    <3>3. b >= c
      BY <2>4, <3>2
    <3> QED
      BY <1>3, <2>3, <3>1, <3>3 DEF Reached
  <2> QED
    BY <1>1, <2>5, <2>6 DEF Passed
<1> QED
  BY <1>2, <1>3

\* So the step of a number is one of those asked for, and grows with the number.
LEMMA GroupGrows ==
  ASSUME NEW lo, NEW hi, NEW spec, Divisible(lo, hi, spec),
         NEW v \in Int, NEW w \in Int, lo <= v, v <= w
  PROVE  /\ Group(v, lo, hi, spec) \in 0 .. spec.steps - 1 /\ Group(w, lo, hi, spec) \in 0 .. spec.steps - 1
         /\ Group(v, lo, hi, spec) <= Group(w, lo, hi, spec)
<1> DEFINE a == Passed(v, lo, hi, spec)
           b == Passed(w, lo, hi, spec)
           n == spec.steps
<1>1. 0 \in a /\ a \subseteq b
  BY PassedGrows
<1>2. n \in Nat /\ IsFiniteSet(0 .. n - 1) /\ 0 .. n - 1 \in SUBSET Int
  <2>1. n \in Nat /\ n - 1 \in Int
    BY DEF Divisible
  <2> HIDE DEF n
  <2> QED
    BY <2>1, FS_Interval
<1>3. a \subseteq 0 .. n - 1 /\ b \subseteq 0 .. n - 1
  BY DEF Passed
<1>4. Group(v, lo, hi, spec) = Max(a) /\ Group(w, lo, hi, spec) = Max(b)
  BY DEF Group, Passed, Reached
<1> HIDE DEF a, b, n
<1>5. a \in SUBSET Int /\ IsFiniteSet(a) /\ a # {} /\ b \in SUBSET Int /\ IsFiniteSet(b) /\ b # {}
  BY <1>1, <1>2, <1>3, FS_Subset
<1>6. Max(a) \in a /\ \A k \in a : k <= Max(a)
  BY <1>5, GreatestElement
<1>7. Max(b) \in b /\ \A k \in b : k <= Max(b)
  BY <1>5, GreatestElement
<1>8. Max(a) \in 0 .. n - 1 /\ Max(b) \in 0 .. n - 1 /\ Max(a) <= Max(b)
  BY <1>1, <1>3, <1>6, <1>7
<1> QED
  BY <1>4, <1>8 DEF n
-----------------------------------------------------------------------------
(* Parts laid over bins.                                                   *)

\* Parts of P that ascend and cover the bins from lo to hi.
Covering(s, lo, hi) == \A b \in lo .. hi : \E p \in Range(s) : b \in p.bins
Between(p, lo, hi)  == \E a, c \in Bins : Spans(p, a, c) /\ lo <= a /\ c <= hi
Laid(s, P, lo, hi) ==
  /\ s \in Seq(P) /\ Ascending(s) /\ Covering(s, lo, hi)
  /\ \A p \in Range(s) : Between(p, lo, hi)

\* What is laid on one side and on the other.
LEMMA LaidJoined ==
  ASSUME NEW P, NEW lo \in Int, NEW m \in Int, NEW hi \in Int, lo <= m + 1, m <= hi,
         NEW s, NEW t, Laid(s, P, lo, m), Laid(t, P, m + 1, hi)
  PROVE  Laid(s \o t, P, lo, hi)
<1>1. s \in Seq(P) /\ t \in Seq(P) /\ Ascending(s) /\ Ascending(t)
  BY DEF Laid
<1>2. s \o t \in Seq(P) /\ Range(s \o t) = Range(s) \cup Range(t)
  BY <1>1, Joined
<1>3. ASSUME NEW p \in Range(s), NEW q \in Range(t)
      PROVE  Apart(p, q)
  <2>1. PICK a \in Bins, c \in Bins : Spans(p, a, c) /\ c <= m
    BY DEF Laid, Between
  <2>2. PICK b \in Bins, d \in Bins : Spans(q, b, d) /\ m + 1 <= b
    BY DEF Laid, Between
  <2>3. c < b
    BY <2>1, <2>2, TableIs
  <2> QED
    BY <2>1, <2>2, <2>3, SpansApart
<1>4. Ascending(s \o t)
  BY <1>1, <1>3, JoinAscends
<1>5. Covering(s \o t, lo, hi)
  <2> SUFFICES ASSUME NEW b \in lo .. hi PROVE \E p \in Range(s) \cup Range(t) : b \in p.bins
    BY <1>2 DEF Covering
  <2>1. b \in lo .. m \/ b \in m + 1 .. hi
    OBVIOUS
  <2> QED
    BY <2>1 DEF Laid, Covering
<1>6. ASSUME NEW p \in Range(s \o t)
      PROVE  Between(p, lo, hi)
  <2>1. CASE p \in Range(s)
    <3>1. PICK a \in Bins, c \in Bins : Spans(p, a, c) /\ lo <= a /\ c <= m
      BY <2>1 DEF Laid, Between
    <3>2. c <= hi
      BY <3>1, TableIs
    <3> QED
      BY <3>1, <3>2 DEF Between
  <2>2. CASE p \in Range(t)
    <3>1. PICK a \in Bins, c \in Bins : Spans(p, a, c) /\ m + 1 <= a /\ c <= hi
      BY <2>2 DEF Laid, Between
    <3>2. lo <= a
      BY <3>1, TableIs
    <3> QED
      BY <3>1, <3>2 DEF Between
  <2> QED
    BY <1>2, <2>1, <2>2
<1> QED
  BY <1>2, <1>4, <1>5, <1>6 DEF Laid

\* Nothing is laid over no bins, and an edge over its own.
LEMMA NothingLaid ==
  ASSUME NEW P, NEW lo \in Int
  PROVE  Laid(<<>>, P, lo, lo - 1)
<1>1. <<>> \in Seq(P) /\ Range(<<>>) = {} /\ Ascending(<<>>)
  BY OneIs, EmptySeq
<1>2. lo .. lo - 1 = {}
  OBVIOUS
<1> QED
  BY <1>1, <1>2 DEF Laid, Covering

\* An edge by itself is laid out.
LEMMA EdgeLaid ==
  ASSUME NEW P, NEW b \in Bins, Part(b, b, TRUE) \in P
  PROVE  Laid(<<Part(b, b, TRUE)>>, P, b, b)
<1> DEFINE p == Part(b, b, TRUE)
<1>1. b \in Int /\ b <= b /\ b .. b = {b}
  BY TableIs
<1>2. Spans(p, b, b)
  BY <1>1, PartIs
<1>3. p \in P
  OBVIOUS
<1> HIDE DEF p
<1>4. Range(<<p>>) = {p} /\ Ascending(<<p>>)
  BY OneIs
<1>5. <<p>> \in Seq(P)
  BY <1>3
<1>6. b \in p.bins
  BY <1>1, <1>2 DEF Spans
<1>7. Covering(<<p>>, b, b)
  BY <1>1, <1>4, <1>6 DEF Covering
<1>8. Between(p, b, b)
  BY <1>1, <1>2 DEF Between
<1>9. Laid(<<p>>, P, b, b)
  BY <1>4, <1>5, <1>7, <1>8 DEF Laid
<1> QED
  BY <1>9 DEF p

\* The bins that runs of one step begin with.
First(ilo, ihi, spec) ==
  {p \in ilo .. ihi :
     \/ p = ilo
     \/ /\ spec.steps > 1
        /\ Group(Lower(p), Lower(ilo), Upper(ihi), spec) # Group(Lower(p - 1), Lower(ilo), Upper(ihi), spec)}

\* There are no more of them than steps: each begins a greater one.
LEMMA FirstFew ==
  ASSUME NEW ilo \in Bins, NEW ihi \in Bins, ilo <= ihi, NEW spec, Divisible(Lower(ilo), Upper(ihi), spec)
  PROVE  /\ First(ilo, ihi, spec) \subseteq ilo .. ihi /\ ilo \in First(ilo, ihi, spec)
         /\ First(ilo, ihi, spec) \subseteq Bins /\ First(ilo, ihi, spec) \in SUBSET Int
         /\ IsFiniteSet(First(ilo, ihi, spec))
         /\ Cardinality(First(ilo, ihi, spec)) \in Nat /\ Cardinality(First(ilo, ihi, spec)) <= spec.steps
<1> DEFINE F == First(ilo, ihi, spec)
           lo == Lower(ilo)
           hi == Upper(ihi)
           n == spec.steps
           g == [p \in F |-> Group(Lower(p), lo, hi, spec)]
<1>1. n \in Nat /\ n > 0 /\ ilo \in Int /\ ihi \in Int
  BY TableIs DEF Divisible
<1>2. F \subseteq ilo .. ihi /\ ilo \in F
  BY <1>1 DEF First
<1>3. ilo .. ihi \subseteq Bins /\ F \subseteq Bins /\ F \in SUBSET Int /\ IsFiniteSet(F)
  <2>1. ilo .. ihi \subseteq Bins /\ ilo .. ihi \in SUBSET Int /\ IsFiniteSet(ilo .. ihi)
    BY <1>1, TableIs, FS_Interval
  <2> HIDE DEF F
  <2> QED
    BY <1>2, <2>1, FS_Subset
<1>4. \A p \in ilo .. ihi : Lower(p) \in Int /\ lo <= Lower(p)
  <2> TAKE p \in ilo .. ihi
  <2>1. p \in Bins
    BY <1>3
  <2>2. CASE p = ilo
    BY <2>1, <2>2, BinIs
  <2>3. CASE p # ilo
    <3>1. ilo < p
      BY <1>1, <2>3
    <3> QED
      BY <2>1, <3>1, BinIs, BinsAscend
  <2> QED
    BY <2>2, <2>3
<1> HIDE DEF lo, hi
<1>5. Divisible(lo, hi, spec)
  BY DEF lo, hi
<1>6. \A p \in F : g[p] \in 0 .. n - 1
  <2> TAKE p \in F
  <2>1. Lower(p) \in Int /\ lo <= Lower(p) /\ Lower(p) <= Lower(p)
    BY <1>2, <1>4
  <2>2. Group(Lower(p), lo, hi, spec) \in 0 .. n - 1
    BY <1>5, <2>1, GroupGrows
  <2> QED
    BY <2>2
<1>7. ASSUME NEW p \in F, NEW q \in F, p < q
      PROVE  g[p] # g[q]
  <2>1. q # ilo /\ p <= q - 1 /\ q - 1 \in ilo .. ihi /\ p \in ilo .. ihi /\ q \in ilo .. ihi
    BY <1>1, <1>2, <1>7
  <2>2. Group(Lower(q), lo, hi, spec) # Group(Lower(q - 1), lo, hi, spec)
    BY <2>1 DEF First, lo, hi
  <2>3. Lower(p) <= Lower(q - 1)
    <3>1. CASE p = q - 1
      BY <1>4, <2>1, <3>1
    <3>2. CASE p < q - 1
      <4>1. p \in Bins /\ q - 1 \in Bins
        BY <1>3, <2>1
      <4>2. Lower(p) < Lower(q - 1)
        BY <3>2, <4>1, BinsAscend
      <4> QED
        BY <1>4, <2>1, <4>2
    <3> QED
      BY <1>1, <2>1, <3>1, <3>2
  <2>4. Lower(q - 1) <= Lower(q)
    <3>1. q - 1 \in Bins /\ q \in Bins /\ q - 1 < q
      BY <1>3, <2>1
    <3>2. Lower(q - 1) < Lower(q)
      BY <3>1, BinsAscend
    <3> QED
      BY <1>4, <2>1, <3>2
  <2>5. /\ Group(Lower(p), lo, hi, spec) \in 0 .. n - 1 /\ Group(Lower(q - 1), lo, hi, spec) \in 0 .. n - 1
        /\ Group(Lower(p), lo, hi, spec) <= Group(Lower(q - 1), lo, hi, spec)
    BY <1>4, <1>5, <2>1, <2>3, GroupGrows
  <2>6. /\ Group(Lower(q), lo, hi, spec) \in 0 .. n - 1
        /\ Group(Lower(q - 1), lo, hi, spec) <= Group(Lower(q), lo, hi, spec)
    BY <1>4, <1>5, <2>1, <2>4, GroupGrows
  <2>7. Group(Lower(p), lo, hi, spec) # Group(Lower(q), lo, hi, spec)
    BY <1>1, <2>2, <2>5, <2>6
  <2> QED
    BY <2>7
<1>8. Cardinality(F) \in Nat /\ Cardinality(F) <= n
  <2>1. g \in [F -> 0 .. n - 1]
    BY <1>6
  <2>2. \A p, q \in F : p # q => g[p] # g[q]
    <3> SUFFICES ASSUME NEW p \in F, NEW q \in F, p # q PROVE g[p] # g[q]
      OBVIOUS
    <3> HIDE DEF g, F
    <3>1. p < q \/ q < p
      BY <1>3
    <3> QED
      BY <1>7, <3>1
  <2> HIDE DEF g, F
  <2>3. g \in Injection(F, 0 .. n - 1)
    BY <2>1, <2>2 DEF Injection, IsInjective
  <2>4. IsFiniteSet(0 .. n - 1) /\ Cardinality(0 .. n - 1) = n
    <3>1. n - 1 \in Int /\ 0 \in Int /\ ~ (0 > n - 1) /\ (n - 1) - 0 + 1 = n
      BY <1>1
    <3> HIDE DEF n
    <3> QED
      BY <3>1, FS_Interval
  <2>5. Cardinality(F) <= Cardinality(0 .. n - 1)
    BY <2>3, <2>4, FS_Injection
  <2> QED
    BY <1>3, <2>4, <2>5, FS_CardinalityType
<1> HIDE DEF F
<1> QED
  BY <1>2, <1>3, <1>8 DEF F
\* What is found at each place of a set of numbers.
Ranked(starts, F, n) ==
  /\ starts = [k \in 1 .. n |-> starts[k]]
  /\ \A k \in 1 .. n : starts[k] \in F
  /\ \A j, k \in 1 .. n : j < k => starts[j] < starts[k]
  /\ \A d \in F : \E k \in 1 .. n : starts[k] = d

\* The elements of a finite set in order are ranked by it.
LEMMA InOrderRanks ==
  ASSUME NEW F \in SUBSET Int, IsFiniteSet(F)
  PROVE  Ranked(InOrder([p \in F |-> p], F), F, Cardinality(F)) /\ Cardinality(F) \in Nat
<1> DEFINE f == [p \in F |-> p]
           starts == InOrder(f, F)
           n == Cardinality(F)
<1>1. /\ n \in Nat
      /\ \A d \in F : PlaceIn(F, d) \in 1 .. n
      /\ \A d, e \in F : d < e => PlaceIn(F, d) < PlaceIn(F, e)
      /\ \A k \in 1 .. n : \E d \in F : PlaceIn(F, d) = k
  BY PlacesTaken
<1>2. starts = [k \in 1 .. n |-> starts[k]] /\ \A d \in F : starts[PlaceIn(F, d)] = f[d]
  BY InOrderIs
<1>3. \A d \in F : f[d] = d
  OBVIOUS
<1> HIDE DEF f, starts, n
<1>4. ASSUME NEW k \in 1 .. n
      PROVE  starts[k] \in F /\ PlaceIn(F, starts[k]) = k
  <2>1. PICK d \in F : PlaceIn(F, d) = k
    BY <1>1
  <2>2. starts[k] = d
    BY <1>2, <1>3, <2>1
  <2> QED
    BY <2>1, <2>2
<1>5. ASSUME NEW j \in 1 .. n, NEW k \in 1 .. n, j < k
      PROVE  starts[j] < starts[k]
  <2>1. starts[j] \in F /\ starts[k] \in F /\ PlaceIn(F, starts[j]) = j /\ PlaceIn(F, starts[k]) = k
    BY <1>4
  <2>2. starts[j] # starts[k]
    BY <1>5, <2>1
  <2>3. CASE starts[k] < starts[j]
    <3>1. k < j
      BY <1>1, <2>1, <2>3
    <3> QED
      BY <1>1, <1>5, <3>1
  <2>4. starts[j] \in Int /\ starts[k] \in Int
    BY <2>1
  <2> QED
    BY <2>2, <2>3, <2>4
<1>6. \A d \in F : \E k \in 1 .. n : starts[k] = d
  BY <1>1, <1>2, <1>3
<1>7. Ranked(starts, F, n)
  BY <1>2, <1>4, <1>5, <1>6 DEF Ranked
<1> QED
  BY <1>1, <1>7 DEF starts, f, n

Starts(ilo, ihi, spec) == InOrder([p \in First(ilo, ihi, spec) |-> p], First(ilo, ihi, spec))

\* The last bin of a run.
RunEnd(starts, n, ihi, k) == IF k = n THEN ihi ELSE starts[k + 1] - 1

Runs(starts, n, ihi) == [k \in 1 .. n |-> Part(starts[k], RunEnd(starts, n, ihi, k), FALSE)]

\* What Interior makes of them.
LEMMA InteriorIs ==
  ASSUME NEW ilo, NEW ihi, NEW spec, NEW n \in Nat, Ranked(Starts(ilo, ihi, spec), First(ilo, ihi, spec), n)
  PROVE  Interior(ilo, ihi, spec) = Runs(Starts(ilo, ihi, spec), n, ihi)
<1> DEFINE starts == Starts(ilo, ihi, spec)
<1>1. starts = [k \in 1 .. n |-> starts[k]]
  BY DEF Ranked
<1>2. Interior(ilo, ihi, spec) =
        [k \in DOMAIN starts |-> Part(starts[k], IF k = Len(starts) THEN ihi ELSE starts[k + 1] - 1, FALSE)]
  BY DEF Interior, First, Starts
<1> HIDE DEF starts
<1>3. Len(starts) = n /\ DOMAIN starts = 1 .. n
  BY <1>1
<1>4. Interior(ilo, ihi, spec) = Runs(starts, n, ihi)
  BY <1>2, <1>3 DEF RunEnd, Runs
<1> QED
  BY <1>4 DEF starts

\* The runs are laid over the bins that lie in the range.
LEMMA InteriorLaid ==
  ASSUME NEW ilo \in Bins, NEW ihi \in Bins, ilo <= ihi, NEW spec, Divisible(Lower(ilo), Upper(ihi), spec),
         NEW P, Inners(First(ilo, ihi, spec), ihi) \subseteq P
  PROVE  Laid(Interior(ilo, ihi, spec), P, ilo, ihi)
<1> DEFINE F == First(ilo, ihi, spec)
           n == Cardinality(F)
           starts == Starts(ilo, ihi, spec)
           last(k) == RunEnd(starts, n, ihi, k)
           runs == Interior(ilo, ihi, spec)
<1>1. F \subseteq ilo .. ihi /\ ilo \in F /\ F \subseteq Bins /\ F \in SUBSET Int /\ IsFiniteSet(F)
  BY FirstFew
<1>2. Ranked(starts, F, n) /\ n \in Nat
  BY <1>1, InOrderRanks DEF Starts
<1>3. runs = [k \in 1 .. n |-> Part(starts[k], last(k), FALSE)]
  <2>1. runs = Runs(starts, n, ihi)
    BY <1>2, InteriorIs
  <2> QED
    BY <2>1 DEF Runs
<1>4. Inners(F, ihi) \subseteq P /\ ilo \in Int /\ ihi \in Int
  BY TableIs
<1> HIDE DEF F, n, starts, runs
<1>5. /\ \A k \in 1 .. n : starts[k] \in F
      /\ \A j, k \in 1 .. n : j < k => starts[j] < starts[k]
      /\ \A d \in F : \E k \in 1 .. n : starts[k] = d
  BY <1>2 DEF Ranked
<1>6. ASSUME NEW k \in 1 .. n
      PROVE  /\ starts[k] \in F /\ last(k) \in Bins /\ starts[k] <= last(k) /\ last(k) <= ihi
             /\ \A j \in 1 .. n : k < j => last(k) < starts[j]
  <2>1. starts[k] \in F /\ starts[k] \in Int /\ starts[k] <= ihi /\ ilo <= starts[k]
    <3>1. starts[k] \in F
      BY <1>5
    <3>2. starts[k] \in ilo .. ihi
      BY <1>1, <3>1
    <3> QED
      BY <1>4, <3>1, <3>2
  <2>2. CASE k = n
    <3>1. last(k) = ihi
      BY <2>2 DEF RunEnd
    <3>2. \A j \in 1 .. n : ~ (k < j)
      BY <2>2
    <3> QED
      BY <1>4, <2>1, <3>1, <3>2
  <2>3. CASE k # n
    <3>1. k + 1 \in 1 .. n /\ k < k + 1
      BY <1>2, <2>3
    <3>2. last(k) = starts[k + 1] - 1
      BY <2>3 DEF RunEnd
    <3>3. starts[k + 1] \in F /\ starts[k] < starts[k + 1]
      BY <1>5, <3>1
    <3>4. starts[k + 1] \in Int /\ starts[k + 1] <= ihi
      <4>1. starts[k + 1] \in ilo .. ihi
        BY <1>1, <3>3
      <4> QED
        BY <1>4, <4>1
    <3>5. last(k) \in Bins
      BY <1>4, <2>1, <3>2, <3>3, <3>4, TableIs
    <3>6. ASSUME NEW j \in 1 .. n, k < j
          PROVE  last(k) < starts[j]
      <4>1. starts[j] \in Int
        BY <1>1, <1>5
      <4>2. CASE j = k + 1
        BY <3>2, <3>4, <4>1, <4>2
      <4>3. CASE k + 1 < j
        <5>1. starts[k + 1] < starts[j]
          BY <1>5, <3>1, <4>3
        <5> QED
          BY <3>2, <3>4, <4>1, <5>1
      <4> QED
        BY <3>6, <4>2, <4>3
    <3>7. starts[k] <= last(k) /\ last(k) <= ihi
      BY <1>4, <2>1, <3>2, <3>3, <3>4
    <3> HIDE DEF last
    <3> QED
      BY <2>1, <3>5, <3>6, <3>7
  <2> QED
    BY <2>2, <2>3
<1> HIDE DEF last
<1>7. ASSUME NEW k \in 1 .. n
      PROVE  Spans(runs[k], starts[k], last(k)) /\ runs[k] \in P
  <2>1. runs[k] = Part(starts[k], last(k), FALSE)
    BY <1>3
  <2>0. starts[k] \in F /\ last(k) \in Bins /\ starts[k] <= last(k) /\ last(k) <= ihi
    BY <1>6
  <2>2. starts[k] \in Bins /\ last(k) \in Bins /\ starts[k] <= last(k) /\ last(k) \in starts[k] .. ihi
    <3>1. starts[k] \in Bins /\ starts[k] \in Int /\ last(k) \in Int
      <4>1. starts[k] \in Bins
        BY <1>1, <2>0
      <4>2. Bins \subseteq Int
        BY TableIs
      <4> QED
        BY <2>0, <4>1, <4>2
    <3> QED
      BY <1>4, <2>0, <3>1
  <2>3. runs[k] \in Inners(F, ihi)
    BY <2>0, <2>1, <2>2, InnerIs
  <2>4. Spans(Part(starts[k], last(k), FALSE), starts[k], last(k))
    BY <2>2, PartIs
  <2> QED
    BY <1>4, <2>1, <2>3, <2>4
<1>8. DOMAIN runs = 1 .. n /\ runs \in Seq(P)
  <2>1. runs = [k \in 1 .. n |-> runs[k]]
    BY <1>3
  <2>2. runs \in [1 .. n -> P]
    BY <1>7, <2>1
  <2> QED
    BY <1>2, <2>2
<1>9. Ascending(runs)
  <2> SUFFICES ASSUME NEW j \in 1 .. n, NEW k \in 1 .. n, j < k PROVE Apart(runs[j], runs[k])
    BY <1>8 DEF Ascending
  <2>1. Spans(runs[j], starts[j], last(j)) /\ Spans(runs[k], starts[k], last(k)) /\ last(j) < starts[k]
    BY <1>6, <1>7
  <2> QED
    BY <2>1, SpansApart
<1>10. Covering(runs, ilo, ihi)
  <2> SUFFICES ASSUME NEW b \in ilo .. ihi PROVE \E p \in Range(runs) : b \in p.bins
    BY DEF Covering
  <2> DEFINE upTo == {p \in F : p <= b}
  <2>1. upTo \in SUBSET Int /\ IsFiniteSet(upTo) /\ upTo # {}
    <3>1. upTo \subseteq F /\ ilo \in upTo
      BY <1>1, <1>4
    <3> HIDE DEF upTo
    <3> QED
      BY <1>1, <3>1, FS_Subset
  <2>2. Max(upTo) \in upTo /\ \A p \in upTo : p <= Max(upTo)
    <3> HIDE DEF upTo
    <3> QED
      BY <2>1, GreatestElement
  <2>3. PICK m \in F : m <= b /\ \A p \in F : p <= b => p <= m
    BY <2>2
  <2>4. PICK k \in 1 .. n : starts[k] = m
    BY <1>5
  <2>5. b <= last(k)
    <3>1. CASE k = n
      BY <3>1 DEF last, RunEnd
    <3>2. CASE k # n
      <4>1. k + 1 \in 1 .. n /\ k < k + 1
        BY <1>2, <3>2
      <4>2. starts[k + 1] \in F /\ m < starts[k + 1]
        BY <1>5, <2>4, <4>1
      <4>3. m \in Int /\ starts[k + 1] \in Int
        BY <1>1, <4>2
      <4>4. ~ (starts[k + 1] <= b)
        BY <2>3, <4>2, <4>3
      <4>5. last(k) = starts[k + 1] - 1
        BY <3>2 DEF last, RunEnd
      <4> QED
        BY <1>4, <4>3, <4>4, <4>5
    <3> QED
      BY <3>1, <3>2
  <2>6. runs[k].bins = m .. last(k) /\ last(k) \in Int /\ m \in Int
    BY <1>1, <1>6, <1>7, <2>4, TableIs DEF Spans
  <2>7. b \in runs[k].bins
    BY <1>4, <2>3, <2>5, <2>6
  <2> QED
    BY <1>8, <2>7 DEF Range
<1>11. \A p \in Range(runs) : Between(p, ilo, ihi)
  <2> SUFFICES ASSUME NEW k \in 1 .. n PROVE Between(runs[k], ilo, ihi)
    BY <1>8 DEF Range
  <2>1. Spans(runs[k], starts[k], last(k)) /\ starts[k] \in Bins /\ last(k) \in Bins
    BY <1>1, <1>6, <1>7
  <2>2. starts[k] \in ilo .. ihi /\ last(k) <= ihi
    BY <1>1, <1>6
  <2>3. ilo <= starts[k]
    BY <1>4, <2>2
  <2> QED
    BY <2>1, <2>2, <2>3 DEF Between
<1>12. Laid(runs, P, ilo, ihi)
  BY <1>8, <1>9, <1>10, <1>11 DEF Laid
<1> QED
  BY <1>12 DEF runs
-----------------------------------------------------------------------------
(* The parts of a range.                                                   *)

\* Where the parts inside a range may begin and must end.
InnerBounds(F, last, spec, r) ==
  /\ F \in SUBSET Bins /\ last \in Bins
  /\ IsFiniteSet(F) /\ Cardinality(F) \in Nat /\ Cardinality(F) <= spec.steps
  /\ \A a \in F : r.min <= Lower(a)
  /\ F # {} => Upper(last) <= r.max

\* Parts that ascend and cover the bins that overlap the range.
Fine(parts, F, last, r) ==
  /\ parts \in Seq(Pieces(F, last)) /\ Ascending(parts)
  /\ \A b \in InScope(r) : \E p \in Range(parts) : b \in p.bins

\* The bins that overlap a range, and the least and the greatest of these.
LEMMA ScopeIs ==
  ASSUME NEW r, r.min \in Int, r.max \in Int, InScope(r) # {}
  PROVE  /\ Min(InScope(r)) \in InScope(r) /\ Max(InScope(r)) \in InScope(r)
         /\ Min(InScope(r)) \in Bins /\ Max(InScope(r)) \in Bins /\ Min(InScope(r)) <= Max(InScope(r))
         /\ InScope(r) \subseteq Min(InScope(r)) .. Max(InScope(r))
         /\ \A i \in InScope(r) : r.min <= Upper(i) /\ Lower(i) <= r.max
<1>1. InScope(r) \subseteq Bins /\ Bins \subseteq Int /\ IsFiniteSet(Bins)
  BY TableIs DEF InScope
<1>2. InScope(r) \in SUBSET Int /\ IsFiniteSet(InScope(r))
  BY <1>1, FS_Subset
<1>3. Min(InScope(r)) \in InScope(r) /\ \A k \in InScope(r) : Min(InScope(r)) <= k
  BY <1>2, LeastIs
<1>4. Max(InScope(r)) \in InScope(r) /\ \A k \in InScope(r) : k <= Max(InScope(r))
  BY <1>2, GreatestElement
<1>5. \A i \in InScope(r) : r.min <= Upper(i) /\ Lower(i) <= r.max
  <2> TAKE i \in InScope(r)
  <2>1. i \in Bins
    BY <1>1
  <2>2. Lower(i) \in Int /\ Upper(i) \in Int
    BY <2>1, BinIs
  <2> QED
    BY <2>2 DEF InScope
<1>6. InScope(r) \subseteq Min(InScope(r)) .. Max(InScope(r))
  BY <1>2, <1>3, <1>4
<1> QED
  BY <1>1, <1>3, <1>4, <1>5, <1>6

\* What is asked for of an axis, and where its data end.
Asked(spec, r) ==
  /\ r.min \in Int /\ r.max \in Int /\ spec.steps \in Nat \ {0} /\ spec.mult \in BOOLEAN
  /\ spec.mult => r.min > 0

\* The bins from ilo to ihi lie in the range.
LEMMA InnerBinsFit ==
  ASSUME NEW r, NEW spec, Asked(spec, r), NEW ilo \in Bins, NEW ihi \in Bins, ilo <= ihi,
         r.min <= Lower(ilo), Upper(ihi) <= r.max
  PROVE  /\ Divisible(Lower(ilo), Upper(ihi), spec)
         /\ InnerBounds(First(ilo, ihi, spec), ihi, spec, r)
<1>1. r.min \in Int /\ r.max \in Int /\ ilo \in Int /\ ihi \in Int
  BY TableIs DEF Asked
<1>2. Lower(ilo) \in Int /\ Upper(ihi) \in Int /\ Lower(ilo) < Upper(ilo) /\ Upper(ilo) \in Int
  BY BinIs
<1>3. Upper(ilo) <= Upper(ihi)
  <2>1. CASE ilo = ihi
    BY <1>2, <2>1
  <2>2. CASE ilo < ihi
    <3>1. Upper(ilo) < Upper(ihi)
      BY <2>2, BinsAscend
    <3> QED
      BY <1>2, <3>1
  <2> QED
    BY <1>1, <2>1, <2>2
<1>4. Divisible(Lower(ilo), Upper(ihi), spec)
  BY <1>1, <1>2, <1>3 DEF Divisible, Asked
<1>5. /\ First(ilo, ihi, spec) \subseteq ilo .. ihi /\ First(ilo, ihi, spec) \subseteq Bins
      /\ IsFiniteSet(First(ilo, ihi, spec))
      /\ Cardinality(First(ilo, ihi, spec)) \in Nat /\ Cardinality(First(ilo, ihi, spec)) <= spec.steps
  BY <1>4, FirstFew
<1>6. ASSUME NEW a \in First(ilo, ihi, spec)
      PROVE  r.min <= Lower(a)
  <2>1. a \in Bins /\ a \in ilo .. ihi
    BY <1>5
  <2>2. CASE a = ilo
    BY <2>2
  <2>3. CASE ilo < a
    <3>1. Lower(ilo) < Lower(a) /\ Lower(a) \in Int
      BY <2>1, <2>3, BinsAscend, BinIs
    <3> QED
      BY <1>1, <1>2, <3>1
  <2> QED
    BY <1>1, <2>1, <2>2, <2>3
<1> QED
  BY <1>4, <1>5, <1>6 DEF InnerBounds

\* A single edge or none, over the bins from lo to before next.
EdgeIf(there, b) == IF there THEN <<Part(b, b, TRUE)>> ELSE <<>>

\* An edge, if it is there, is laid out before or after the inner parts.
LEMMA EdgesLaid ==
  ASSUME NEW there \in BOOLEAN, NEW b \in Bins, NEW P, Edges \subseteq P
  PROVE  /\ Laid(EdgeIf(there, b), P, b, IF there THEN b ELSE b - 1)
         /\ Laid(EdgeIf(there, b), P, IF there THEN b ELSE b + 1, b)
<1>1. b \in Int /\ (b + 1) - 1 = b
  BY TableIs
<1>2. CASE there
  <2>1. Part(b, b, TRUE) \in P
    BY DEF Edges
  <2>2. Laid(<<Part(b, b, TRUE)>>, P, b, b)
    BY <2>1, EdgeLaid
  <2> QED
    BY <1>2, <2>2 DEF EdgeIf
<1>3. CASE ~ there
  <2>1. Laid(<<>>, P, b, b - 1)
    BY <1>1, NothingLaid
  <2>2. Laid(<<>>, P, b + 1, (b + 1) - 1)
    BY <1>1, NothingLaid
  <2> QED
    BY <1>1, <1>3, <2>1, <2>2 DEF EdgeIf
<1> QED
  BY <1>2, <1>3

\* The parts of a range are fine: edges at its ends and runs between them.
LEMMA FinitePartsFine ==
  ASSUME NEW r, NEW spec, Asked(spec, r)
  PROVE  \E F, last : InnerBounds(F, last, spec, r) /\ Fine(FiniteParts(spec, r), F, last, r)
<1>1. r.min \in Int /\ r.max \in Int /\ spec.steps \in Nat
  BY DEF Asked
<1>2. CASE InScope(r) = {}
  <2>1. 0 \in Bins
    BY TableIs
  <2>2. InnerBounds({}, 0, spec, r)
    <3>1. IsFiniteSet({}) /\ Cardinality({}) = 0
      BY FS_EmptySet
    <3> QED
      BY <1>1, <2>1, <3>1 DEF InnerBounds
  <2>3. FiniteParts(spec, r) = <<>>
    BY <1>2 DEF FiniteParts
  <2>4. <<>> \in Seq(Pieces({}, 0)) /\ Ascending(<<>>)
    BY OneIs, EmptySeq
  <2>5. Fine(FiniteParts(spec, r), {}, 0, r)
    BY <1>2, <2>3, <2>4 DEF Fine
  <2> QED
    BY <2>2, <2>5
<1>3. CASE InScope(r) # {}
  <2> DEFINE lo == Min(InScope(r))
             hi == Max(InScope(r))
             low == ~ Fully(lo, r)
             high == hi # lo /\ ~ Fully(hi, r)
             ilo == IF low THEN lo + 1 ELSE lo
             ihi == IF high THEN hi - 1 ELSE hi
             mid == IF ilo <= ihi THEN Interior(ilo, ihi, spec) ELSE <<>>
  <2>1. /\ lo \in Bins /\ hi \in Bins /\ lo <= hi /\ InScope(r) \subseteq lo .. hi
        /\ r.min <= Upper(lo) /\ Lower(hi) <= r.max
    BY <1>1, <1>3, ScopeIs
  <2>2. FiniteParts(spec, r) = EdgeIf(low, lo) \o mid \o EdgeIf(high, hi)
    BY <1>3 DEF FiniteParts, EdgeIf
  <2>3. low \in BOOLEAN /\ high \in BOOLEAN
    BY DEF Fully
  <2>4. ~ low => r.min <= Lower(lo) /\ Upper(lo) <= r.max
    <3>1. Lower(lo) \in Int /\ Upper(lo) \in Int
      BY <2>1, BinIs
    <3> QED
      BY <1>1, <3>1 DEF Fully
  <2>5. hi # lo /\ ~ high => Upper(hi) <= r.max
    BY DEF Fully
  <2> HIDE DEF lo, hi, low, high
  <2>6. lo \in Int /\ hi \in Int /\ Bins \subseteq Int
    BY <2>1, TableIs
  <2>7. ilo \in Int /\ ihi \in Int /\ ilo <= ihi + 1 /\ lo <= ilo /\ ihi <= hi /\ (high => hi # lo)
    BY <2>1, <2>3, <2>6 DEF high
  <2>8. PICK F, last : /\ InnerBounds(F, last, spec, r)
                       /\ Laid(mid, Pieces(F, last), ilo, ihi)
    <3>1. CASE ilo <= ihi
      <4>1. ilo \in Bins /\ ihi \in Bins
        BY <2>1, <2>6, <2>7, <3>1, TableIs
      <4>2. r.min <= Lower(ilo)
        <5>1. CASE low
          <6>1. ilo = lo + 1 /\ lo < ilo
            BY <2>6, <5>1
          <6>2. Upper(lo) <= Lower(ilo)
            BY <2>1, <4>1, <6>1, BinsAscend
          <6>3. Upper(lo) \in Int /\ Lower(ilo) \in Int
            BY <2>1, <4>1, BinIs
          <6> QED
            BY <1>1, <2>1, <6>2, <6>3
        <5>2. CASE ~ low
          BY <2>4, <5>2
        <5> QED
          BY <5>1, <5>2
      <4>3. Upper(ihi) <= r.max
        <5>1. CASE high
          <6>1. ihi = hi - 1 /\ ihi < hi
            BY <2>6, <5>1
          <6>2. Upper(ihi) <= Lower(hi)
            BY <2>1, <4>1, <6>1, BinsAscend
          <6>3. Upper(ihi) \in Int /\ Lower(hi) \in Int
            BY <2>1, <4>1, BinIs
          <6> QED
            BY <1>1, <2>1, <6>2, <6>3
        <5>2. CASE ~ high /\ hi # lo
          BY <2>5, <5>2
        <5>3. CASE ~ high /\ hi = lo
          <6>1. ~ low /\ ihi = lo
            BY <2>6, <3>1, <5>3
          <6> QED
            BY <2>4, <6>1
        <5> QED
          BY <2>3, <5>1, <5>2, <5>3
      <4> DEFINE F == First(ilo, ihi, spec)
      <4> HIDE DEF ilo, ihi
      <4>4. Divisible(Lower(ilo), Upper(ihi), spec) /\ InnerBounds(F, ihi, spec, r)
        BY <3>1, <4>1, <4>2, <4>3, InnerBinsFit
      <4>5. Inners(F, ihi) \subseteq Pieces(F, ihi)
        BY DEF Pieces
      <4>6. Laid(Interior(ilo, ihi, spec), Pieces(F, ihi), ilo, ihi)
        BY <3>1, <4>1, <4>4, <4>5, InteriorLaid
      <4>7. mid = Interior(ilo, ihi, spec)
        BY <3>1
      <4> HIDE DEF mid
      <4> QED
        BY <4>4, <4>6, <4>7
    <3>2. CASE ~ (ilo <= ihi)
      <4>1. ihi = ilo - 1 /\ mid = <<>>
        BY <2>7, <3>2
      <4> HIDE DEF ilo, ihi, mid
      <4>2. Laid(mid, Pieces({}, lo), ilo, ihi)
        BY <2>7, <4>1, NothingLaid
      <4>3. InnerBounds({}, lo, spec, r)
        <5>1. IsFiniteSet({}) /\ Cardinality({}) = 0
          BY FS_EmptySet
        <5> QED
          BY <1>1, <2>1, <5>1 DEF InnerBounds
      <4> QED
        BY <4>2, <4>3
    <3> QED
      BY <3>1, <3>2
  <2> DEFINE P == Pieces(F, last)
  <2>9. Edges \subseteq P
    BY DEF Pieces
  <2>10. Laid(EdgeIf(low, lo), P, lo, ilo - 1)
    <3>1. Laid(EdgeIf(low, lo), P, lo, IF low THEN lo ELSE lo - 1)
      BY <2>1, <2>3, <2>9, EdgesLaid
    <3>2. ilo - 1 = IF low THEN lo ELSE lo - 1
      BY <2>6
    <3> HIDE DEF ilo, P
    <3> QED
      BY <3>1, <3>2
  <2>11. Laid(EdgeIf(high, hi), P, ihi + 1, hi)
    <3>1. Laid(EdgeIf(high, hi), P, IF high THEN hi ELSE hi + 1, hi)
      BY <2>1, <2>3, <2>9, EdgesLaid
    <3>2. ihi + 1 = IF high THEN hi ELSE hi + 1
      BY <2>6
    <3> HIDE DEF ihi, P
    <3> QED
      BY <3>1, <3>2
  <2> HIDE DEF ilo, ihi, mid, P
  <2>12. Laid(EdgeIf(low, lo) \o mid, P, lo, ihi)
    <3>1. Laid(mid, P, (ilo - 1) + 1, ihi)
      <4>1. (ilo - 1) + 1 = ilo
        BY <2>7
      <4> QED
        BY <2>8, <4>1 DEF P
    <3>2. ilo - 1 \in Int /\ lo <= (ilo - 1) + 1 /\ ilo - 1 <= ihi
      BY <2>6, <2>7
    <3> QED
      BY <2>6, <2>7, <2>10, <3>1, <3>2, LaidJoined
  <2>13. Laid((EdgeIf(low, lo) \o mid) \o EdgeIf(high, hi), P, lo, hi)
    <3>1. lo <= ihi + 1
      BY <2>6, <2>7
    <3> QED
      BY <2>6, <2>7, <2>11, <2>12, <3>1, LaidJoined
  <2>14. Laid(FiniteParts(spec, r), P, lo, hi)
    BY <2>2, <2>13
  <2>15. Fine(FiniteParts(spec, r), F, last, r)
    BY <2>1, <2>14 DEF Laid, Covering, Fine, P
  <2> QED
    BY <2>8, <2>15
<1> QED
  BY <1>2, <1>3
-----------------------------------------------------------------------------
(* The intervals of an axis.                                               *)

Intervals(F, last) == Pieces(F, last) \cup {NegPart, PosPart, ZeroPart}

\* The parts of the infinities and of zero are points.
LEMMA PointPartsAre ==
  /\ NegPart.kind = "neginf" /\ NegPart.lower = Low /\ NegPart.upper = Low
  /\ PosPart.kind = "posinf" /\ PosPart.lower = High /\ PosPart.upper = High
  /\ ZeroPart.kind = "finite" /\ ZeroPart.lower = 0 /\ ZeroPart.upper = 0
  /\ \A p \in {NegPart, PosPart, ZeroPart} :
       p.lowerIn = TRUE /\ p.upperIn = TRUE /\ p.edge = FALSE /\ p.bins = {}
BY DEF NegPart, PosPart, ZeroPart, PointPart

\* The other parts are not: they lie between the infinities and do not start at zero.
LEMMA PiecesAre ==
  ASSUME NEW F \in SUBSET Bins, NEW last \in Bins, NEW p \in Pieces(F, last)
  PROVE  /\ p.kind = "finite" /\ p.lower \in Int /\ p.upper \in Int /\ p.lower < p.upper
         /\ p.lower # 0
         /\ Apart(NegPart, p) /\ Apart(p, PosPart)
<1>1. PICK a \in Bins, c \in Bins : Spans(p, a, c)
  BY PiecesSpan
<1>2. p.kind = "finite"
  BY <1>1 DEF Spans
<1>3. /\ p.lower \in Int /\ p.upper \in Int /\ p.lower < p.upper /\ p.lower # 0
      /\ Low <= p.lower /\ p.upper <= High
      /\ p.lowerIn \in BOOLEAN /\ p.upperIn \in BOOLEAN
      /\ p.lowerIn => Low < p.lower
      /\ p.upperIn => p.upper < High
  BY <1>1, SpanEnds
<1>4. Low \in Int /\ High \in Int
  BY TableIs
<1>5. Apart(NegPart, p)
  <2>1. NegPart.upper = Low
    BY PointPartsAre
  <2>2. Low < p.lower \/ (Low = p.lower /\ ~ p.lowerIn)
    BY <1>3, <1>4
  <2> QED
    BY <2>1, <2>2 DEF Apart
<1>6. Apart(p, PosPart)
  <2>1. PosPart.lower = High
    BY PointPartsAre
  <2>2. p.upper < High \/ (p.upper = High /\ ~ p.upperIn)
    BY <1>3, <1>4
  <2> QED
    BY <2>1, <2>2 DEF Apart
<1> QED
  BY <1>2, <1>3, <1>5, <1>6

\* What the intervals of an axis are made of, before and after zero has found its place.
Given(spec, ext) ==
  /\ spec.min \in Int /\ spec.max \in Int /\ Low <= spec.min /\ spec.max <= High /\ spec.min <= spec.max
  /\ spec.steps \in Nat \ {0} /\ spec.mult \in BOOLEAN
  /\ ext.min \in Int /\ ext.max \in Int
  /\ Scalable(spec, ext)

\* A request whose open ends are taken from the extent (buildAxisModel).
LEMMA ResolvedIs ==
  ASSUME NEW spec, NEW ext, Given(spec, ext)
  PROVE  /\ Asked(spec, Resolved(spec, ext))
         /\ Resolved(spec, ext).min = IF NegInfEnd(spec) THEN ext.min ELSE spec.min
         /\ Resolved(spec, ext).max = IF PosInfEnd(spec) THEN ext.max ELSE spec.max
<1> DEFINE r == Resolved(spec, ext)
<1>1. /\ r.min = IF NegInfEnd(spec) THEN ext.min ELSE spec.min
      /\ r.max = IF PosInfEnd(spec) THEN ext.max ELSE spec.max
  BY DEF Resolved
<1>2. r.min \in Int /\ r.max \in Int
  BY <1>1 DEF Given
<1>3. spec.mult => r.min > 0
  BY DEF Given, Scalable
<1> QED
  BY <1>1, <1>2, <1>3 DEF Given, Asked

AxisParts(spec, ext) ==
  ((IF NegInfEnd(spec) THEN <<NegPart>> ELSE <<>>)
    \o (IF HaveFinite(spec, ext) THEN FiniteParts(spec, Resolved(spec, ext)) ELSE <<>>))
    \o (IF PosInfEnd(spec) THEN <<PosPart>> ELSE <<>>)

\* The parts but for zero's own.
Whole(parts, F, last, spec, ext) ==
  /\ parts \in Seq(Intervals(F, last)) /\ Ascending(parts)
  /\ HaveFinite(spec, ext) => \A b \in InScope(Resolved(spec, ext)) : \E p \in Range(parts) : b \in p.bins
  /\ ~ HaveFinite(spec, ext) => Range(parts) \subseteq {NegPart, PosPart}
  /\ NegPart \in Range(parts) <=> NegInfEnd(spec)
  /\ PosPart \in Range(parts) <=> PosInfEnd(spec)

\* The parts of an axis, but for zero's, are a whole.
LEMMA AxisPartsWhole ==
  ASSUME NEW spec, NEW ext, Given(spec, ext)
  PROVE  \E F, last : /\ InnerBounds(F, last, spec, Resolved(spec, ext))
                      /\ Whole(AxisParts(spec, ext), F, last, spec, ext)
                      /\ ZeroPart \notin Range(AxisParts(spec, ext))
<1> DEFINE r == Resolved(spec, ext)
           finite == HaveFinite(spec, ext)
           neg == IF NegInfEnd(spec) THEN <<NegPart>> ELSE <<>>
           fin == IF finite THEN FiniteParts(spec, r) ELSE <<>>
           pos == IF PosInfEnd(spec) THEN <<PosPart>> ELSE <<>>
<1>1. PICK F, last : InnerBounds(F, last, spec, r) /\ Fine(FiniteParts(spec, r), F, last, r)
  BY ResolvedIs, FinitePartsFine
<1> DEFINE S == Intervals(F, last)
<1>2. F \in SUBSET Bins /\ last \in Bins
  BY <1>1 DEF InnerBounds
<1>3. fin \in Seq(Pieces(F, last)) /\ fin \in Seq(S) /\ Ascending(fin) /\ Range(fin) \subseteq Pieces(F, last)
      /\ (finite => \A b \in InScope(r) : \E p \in Range(fin) : b \in p.bins) /\ (~ finite => Range(fin) = {})
  <2>1. fin \in Seq(Pieces(F, last)) /\ Ascending(fin)
    BY <1>1, OneIs, EmptySeq DEF Fine
  <2>2. finite => \A b \in InScope(r) : \E p \in Range(fin) : b \in p.bins
    BY <1>1 DEF Fine
  <2>3. ~ finite => Range(fin) = {}
    BY OneIs
  <2>4. Pieces(F, last) \subseteq S
    BY DEF Intervals
  <2> HIDE DEF fin, S
  <2>5. fin \in Seq(S)
    BY <2>1, <2>4
  <2>6. Range(fin) \subseteq Pieces(F, last)
    BY <2>1 DEF Range
  <2> QED
    BY <2>1, <2>2, <2>3, <2>5, <2>6
<1>4. neg \in Seq(S) /\ Ascending(neg) /\ Range(neg) = IF NegInfEnd(spec) THEN {NegPart} ELSE {}
  <2>1. <<NegPart>> \in Seq(S) /\ <<>> \in Seq(S)
    <3>1. NegPart \in S
      BY DEF Intervals
    <3> HIDE DEF S
    <3> QED
      BY <3>1
  <2>2. Range(<<NegPart>>) = {NegPart} /\ Ascending(<<NegPart>>) /\ Range(<<>>) = {} /\ Ascending(<<>>)
    BY OneIs
  <2> QED
    BY <2>1, <2>2
<1>5. pos \in Seq(S) /\ Ascending(pos) /\ Range(pos) = IF PosInfEnd(spec) THEN {PosPart} ELSE {}
  <2>1. <<PosPart>> \in Seq(S) /\ <<>> \in Seq(S)
    <3>1. PosPart \in S
      BY DEF Intervals
    <3> HIDE DEF S
    <3> QED
      BY <3>1
  <2>2. Range(<<PosPart>>) = {PosPart} /\ Ascending(<<PosPart>>) /\ Range(<<>>) = {} /\ Ascending(<<>>)
    BY OneIs
  <2> QED
    BY <2>1, <2>2
<1>6. \A p \in Range(fin) : p.kind = "finite" /\ p.lower # 0 /\ Apart(NegPart, p) /\ Apart(p, PosPart)
  BY <1>2, <1>3, PiecesAre
<1>7. Apart(NegPart, PosPart)
  <2>1. Low < High
    BY TableIs
  <2> QED
    BY <2>1, PointPartsAre DEF Apart
<1>8. AxisParts(spec, ext) = (neg \o fin) \o pos
  BY DEF AxisParts
<1> HIDE DEF neg, fin, pos, S, r, finite
<1>9. neg \o fin \in Seq(S) /\ Range(neg \o fin) = Range(neg) \cup Range(fin) /\ Ascending(neg \o fin)
  <2>1. \A p \in Range(neg), q \in Range(fin) : Apart(p, q)
    BY <1>4, <1>6
  <2>2. neg \o fin \in Seq(S) /\ Range(neg \o fin) = Range(neg) \cup Range(fin)
    BY <1>3, <1>4, Joined
  <2>3. Ascending(neg \o fin)
    BY <1>3, <1>4, <2>1, JoinAscends
  <2> QED
    BY <2>2, <2>3
<1> DEFINE a == neg \o fin
           all == a \o pos
<1> HIDE DEF a
<1>10. a \in Seq(S) /\ Range(a) = Range(neg) \cup Range(fin) /\ Ascending(a)
  BY <1>9 DEF a
<1>11. all \in Seq(S) /\ Range(all) = Range(a) \cup Range(pos)
  BY <1>5, <1>10, Joined
<1>12. Ascending(all)
  <2>1. \A p \in Range(a), q \in Range(pos) : Apart(p, q)
    BY <1>4, <1>5, <1>6, <1>7, <1>10
  <2> QED
    BY <1>5, <1>10, <2>1, JoinAscends
<1> HIDE DEF all
<1>13. Range(all) = Range(neg) \cup Range(fin) \cup Range(pos)
  BY <1>10, <1>11
<1>14. NegPart \in Range(all) <=> NegInfEnd(spec)
  <2>1. NegPart \notin Range(fin) /\ NegPart # PosPart
    BY <1>6, PointPartsAre
  <2> QED
    BY <1>4, <1>5, <1>13, <2>1
<1>15. PosPart \in Range(all) <=> PosInfEnd(spec)
  <2>1. PosPart \notin Range(fin) /\ NegPart # PosPart
    BY <1>6, PointPartsAre
  <2> QED
    BY <1>4, <1>5, <1>13, <2>1
<1>16. ZeroPart \notin Range(all)
  <2>1. ZeroPart \notin Range(fin) /\ ZeroPart # PosPart /\ ZeroPart # NegPart
    BY <1>6, PointPartsAre
  <2> QED
    BY <1>4, <1>5, <1>13, <2>1
<1>17. finite => \A b \in InScope(r) : \E p \in Range(all) : b \in p.bins
  BY <1>3, <1>13
<1>18. ~ finite => Range(all) \subseteq {NegPart, PosPart}
  BY <1>3, <1>4, <1>5, <1>13
<1>19. Whole(all, F, last, spec, ext)
  BY <1>11, <1>12, <1>14, <1>15, <1>17, <1>18 DEF Whole, S, r, finite
<1>20. AxisParts(spec, ext) = all
  BY <1>8 DEF all, a
<1> QED
  BY <1>1, <1>16, <1>19, <1>20 DEF r
\* Zero is in the range of an axis.
ZeroIn(spec, ext) ==
  HaveFinite(spec, ext) /\ Resolved(spec, ext).min <= 0 /\ 0 <= Resolved(spec, ext).max

\* What an interval of an axis is.
LEMMA IntervalsAre ==
  ASSUME NEW F \in SUBSET Bins, NEW last \in Bins, NEW p \in Intervals(F, last)
  PROVE  /\ p.lower \in Int /\ p.upper \in Int /\ p.lower <= p.upper
         /\ p.kind = "finite" <=> p \in Pieces(F, last) \cup {ZeroPart}
         /\ p.kind = "neginf" <=> p = NegPart
         /\ p.kind = "posinf" <=> p = PosPart
         /\ p.kind = "finite" /\ p.lower = 0 <=> p = ZeroPart
         /\ p \notin Pieces(F, last) => p.edge = FALSE /\ p.lower = p.upper /\ p.bins = {}
<1>1. Low \in Int /\ High \in Int
  BY TableIs
<1>2. CASE p \in Pieces(F, last)
  <2>1. p.kind = "finite" /\ p.lower \in Int /\ p.upper \in Int /\ p.lower < p.upper /\ p.lower # 0
    BY <1>2, PiecesAre
  <2>2. p # NegPart /\ p # PosPart /\ p # ZeroPart
    BY <2>1, PointPartsAre
  <2> QED
    BY <1>2, <2>1, <2>2
<1>3. CASE p \in {NegPart, PosPart, ZeroPart}
  <2>1. /\ p.lower \in Int /\ p.upper \in Int /\ p.lower = p.upper /\ p.edge = FALSE /\ p.bins = {}
    BY <1>1, <1>3, PointPartsAre
  <2>2. NegPart \notin Pieces(F, last) /\ PosPart \notin Pieces(F, last) /\ ZeroPart \notin Pieces(F, last)
    <3>1. \A q \in Pieces(F, last) : q.kind = "finite" /\ q.lower # 0
      BY PiecesAre
    <3> QED
      BY <3>1, PointPartsAre
  <2>3. NegPart # PosPart /\ NegPart # ZeroPart /\ PosPart # ZeroPart
    BY PointPartsAre
  <2> QED
    BY <1>3, <2>1, <2>2, <2>3, PointPartsAre
<1> QED
  BY <1>2, <1>3 DEF Intervals

\* A part around zero is one that zero is in.
LEMMA ContainsZeroIs ==
  ASSUME NEW p, p.kind = "finite"
  PROVE  ContainsZero(p) <=> In(0, p)
BY DEF ContainsZero, In

\* The place where WithZero puts zero's part.
LEMMA ZeroPlaced ==
  ASSUME NEW F \in SUBSET Bins, NEW last \in Bins, NEW parts \in Seq(Intervals(F, last)), Ascending(parts),
         ZeroPart \notin Range(parts), ZeroParts(parts) = {}
  PROVE  /\ WithZero(parts) \in Seq(Intervals(F, last)) /\ Ascending(WithZero(parts))
         /\ Range(WithZero(parts)) = Range(parts) \cup {ZeroPart}
<1> DEFINE S == Intervals(F, last)
           after == {k \in DOMAIN parts : \/ parts[k].kind = "posinf"
                                          \/ parts[k].kind = "finite" /\ parts[k].lower >= 0}
           n == Len(parts)
           at == IF after = {} THEN n + 1 ELSE Min(after)
<1>1. n \in Nat /\ DOMAIN parts = 1 .. n /\ \A k \in 1 .. n : parts[k] \in S /\ parts[k] \in Range(parts)
  BY LenProperties DEF Range
<1>2. ZeroPart \in S
  BY DEF Intervals
<1>3. at \in 1 .. n + 1 /\ (\A k \in 1 .. at - 1 : k \in 1 .. n /\ k \notin after)
      /\ \A k \in at .. n : at \in after /\ at \in 1 .. n /\ k \in 1 .. n
  <2>1. CASE after = {}
    BY <1>1, <2>1
  <2>2. CASE after # {}
    <3>1. after \subseteq 1 .. n
      BY <1>1
    <3> HIDE DEF after, n
    <3>2. after \in SUBSET Int /\ IsFiniteSet(after)
      <4>1. IsFiniteSet(1 .. n) /\ 1 .. n \subseteq Int
        BY <1>1, FS_Interval
      <4> QED
        BY <3>1, <4>1, FS_Subset
    <3>3. Min(after) \in after /\ \A k \in after : Min(after) <= k
      BY <2>2, <3>2, LeastIs
    <3>4. at = Min(after)
      BY <2>2
    <3> HIDE DEF at
    <3>5. at \in after /\ at \in 1 .. n /\ \A k \in after : at <= k
      BY <3>1, <3>3, <3>4
    <3>6. \A k \in 1 .. at - 1 : k \in 1 .. n /\ k \notin after
      BY <1>1, <3>5
    <3> QED
      BY <1>1, <3>5, <3>6
  <2> QED
    BY <2>1, <2>2
<1>4. WithZero(parts) = InsertAt(parts, at, ZeroPart)
  BY DEF WithZero, ZeroPart
<1>5. \A k \in 1 .. n : /\ parts[k].lower \in Int /\ parts[k].upper \in Int /\ parts[k].lower <= parts[k].upper
                        /\ ~ (parts[k].kind = "finite" /\ parts[k].lower = 0)
                        /\ ~ ContainsZero(parts[k])
  <2> TAKE k \in 1 .. n
  <2>1. parts[k] # ZeroPart /\ parts[k] \in S
    BY <1>1
  <2>2. ~ ContainsZero(parts[k])
    BY <1>1 DEF ZeroParts
  <2> DEFINE p == parts[k]
  <2>3. p \in Intervals(F, last) /\ p # ZeroPart
    BY <2>1
  <2> HIDE DEF p
  <2>4. p.lower \in Int /\ p.upper \in Int /\ p.lower <= p.upper /\ ~ (p.kind = "finite" /\ p.lower = 0)
    BY <2>3, IntervalsAre
  <2> QED
    BY <2>2, <2>4 DEF p
<1> HIDE DEF S, n, at
<1>6. ASSUME NEW k \in 1 .. at - 1
      PROVE  Apart(parts[k], ZeroPart)
  <2>1. k \in 1 .. n /\ k \notin after
    BY <1>3
  <2>2. parts[k] \in S
    BY <1>1, <2>1
  <2>3. CASE parts[k] = NegPart
    <3>1. NegPart.upper < ZeroPart.lower
      BY TableIs, PointPartsAre
    <3> QED
      BY <2>3, <3>1 DEF Apart
  <2>4. CASE parts[k] \in Pieces(F, last)
    <3>1. parts[k].kind = "finite"
      BY <2>4, PiecesAre
    <3>2. parts[k].lower < 0 /\ ~ ContainsZero(parts[k]) /\ parts[k].upper \in Int
      BY <1>1, <1>5, <2>1, <3>1
    <3>3. ~ (parts[k].upper > 0 \/ (parts[k].upper = 0 /\ parts[k].upperIn))
      BY <3>1, <3>2 DEF ContainsZero
    <3>4. parts[k].upper < 0 \/ (parts[k].upper = 0 /\ ~ parts[k].upperIn)
      BY <3>2, <3>3
    <3> QED
      BY <3>4, PointPartsAre DEF Apart
  <2>5. parts[k] # PosPart /\ parts[k] # ZeroPart
    BY <1>1, <2>1, PointPartsAre
  <2> QED
    BY <2>2, <2>3, <2>4, <2>5 DEF S, Intervals
<1>7. ASSUME NEW k \in at .. n
      PROVE  Apart(ZeroPart, parts[k])
  <2>1. at \in after /\ at \in 1 .. n /\ k \in 1 .. n
    BY <1>3
  <2>2. parts[at].lower \in Int /\ parts[at].upper \in Int /\ parts[at].lower <= parts[at].upper /\ parts[at].lower > 0
    <3>1. parts[at] \in S
      BY <1>1, <2>1
    <3>2. CASE parts[at].kind = "posinf"
      <4>1. parts[at] = PosPart
        BY <1>1, <2>1, <3>1, <3>2, IntervalsAre DEF S
      <4> QED
        BY <4>1, PointPartsAre, TableIs
    <3>3. CASE parts[at].kind = "finite" /\ parts[at].lower >= 0
      BY <1>5, <2>1, <3>3
    <3> QED
      BY <2>1, <3>2, <3>3
  <2>3. parts[k].lower > 0
    <3>1. CASE k = at
      BY <2>2, <3>1
    <3>2. CASE at < k
      <4>1. Apart(parts[at], parts[k])
        BY <1>1, <2>1, <3>2 DEF Ascending
      <4>2. parts[k].lower \in Int
        BY <1>5, <2>1
      <4> QED
        BY <2>2, <4>1, <4>2 DEF Apart
    <3> QED
      BY <1>1, <1>3, <2>1, <3>1, <3>2
  <2> QED
    BY <2>3, PointPartsAre DEF Apart
<1>8. at \in 1 .. Len(parts) + 1 /\ (\A k \in 1 .. at - 1 : Apart(parts[k], ZeroPart))
      /\ \A k \in at .. Len(parts) : Apart(ZeroPart, parts[k])
  BY <1>3, <1>6, <1>7 DEF n
<1>9. /\ InsertAt(parts, at, ZeroPart) \in Seq(S)
      /\ Range(InsertAt(parts, at, ZeroPart)) = Range(parts) \cup {ZeroPart}
      /\ Ascending(InsertAt(parts, at, ZeroPart))
  BY <1>2, <1>8, Inserted DEF S
<1> QED
  BY <1>4, <1>9 DEF S

\* The intervals of an axis, and where zeros go.
AxisFine(model, F, last, spec, ext) ==
  /\ InnerBounds(F, last, spec, Resolved(spec, ext))
  /\ model.intervals \in Seq(Intervals(F, last)) /\ Ascending(model.intervals)
  /\ HaveFinite(spec, ext) => \A b \in InScope(Resolved(spec, ext)) : \E p \in Range(model.intervals) : b \in p.bins
  /\ ~ HaveFinite(spec, ext) => Range(model.intervals) \subseteq {NegPart, PosPart}
  /\ NegPart \in Range(model.intervals) <=> NegInfEnd(spec)
  /\ PosPart \in Range(model.intervals) <=> PosInfEnd(spec)
  /\ ZeroPart \in Range(model.intervals) => ZeroIn(spec, ext)
  /\ IF ZeroIn(spec, ext) THEN model.zero \in DOMAIN model.intervals /\ In(0, model.intervals[model.zero])
                          ELSE model.zero = 0

\* Where zeros go is a part that zero is in, if there is one.
LEMMA ZeroGoes ==
  ASSUME NEW F \in SUBSET Bins, NEW last \in Bins, NEW all \in Seq(Intervals(F, last)), ZeroParts(all) # {}
  PROVE  Min(ZeroParts(all)) \in DOMAIN all /\ In(0, all[Min(ZeroParts(all))])
<1> DEFINE n == Len(all)
           zs == ZeroParts(all)
<1>1. n \in Nat /\ DOMAIN all = 1 .. n
  BY LenProperties
<1>2. zs \subseteq 1 .. n
  BY <1>1 DEF ZeroParts
<1>3. \A k \in zs : all[k].kind = "finite" /\ (all[k].lower = 0 \/ ContainsZero(all[k]))
  BY DEF ZeroParts, ContainsZero
<1> HIDE DEF n, zs
<1>4. zs # {} /\ zs \in SUBSET Int /\ IsFiniteSet(zs)
  <2>1. IsFiniteSet(1 .. n) /\ 1 .. n \subseteq Int
    BY <1>1, FS_Interval
  <2> QED
    BY <1>2, <2>1, FS_Subset DEF zs
<1>5. PICK z \in zs : z = Min(zs)
  BY <1>4, LeastIs
<1>6. z \in DOMAIN all /\ all[z] \in Intervals(F, last)
  BY <1>1, <1>2
<1>7. In(0, all[z])
  <2>1. CASE all[z].lower = 0
    <3>1. all[z] = ZeroPart
      <4> DEFINE p == all[z]
      <4>1. p \in Intervals(F, last) /\ p.kind = "finite" /\ p.lower = 0
        BY <1>3, <1>6, <2>1
      <4> HIDE DEF p
      <4>2. p = ZeroPart
        BY <4>1, IntervalsAre
      <4> QED
        BY <4>2 DEF p
    <3> QED
      BY <3>1, PointPartsAre DEF In
  <2>2. CASE ContainsZero(all[z])
    BY <1>3, <2>2, ContainsZeroIs
  <2> QED
    BY <1>3, <2>1, <2>2
<1> QED
  BY <1>5, <1>6, <1>7 DEF zs

\* What buildAxisModel makes of the parts.
LEMMA AxisModelIs ==
  ASSUME NEW spec, NEW ext, NEW parts, parts = AxisParts(spec, ext),
         NEW all, all = IF ZeroIn(spec, ext) /\ ZeroParts(parts) = {} THEN WithZero(parts) ELSE parts
  PROVE  /\ AxisModel(spec, ext).intervals = all
         /\ AxisModel(spec, ext).zero = IF ZeroIn(spec, ext) THEN Min(ZeroParts(all)) ELSE 0
BY DEF AxisModel, AxisParts, ZeroIn, NegPart, PosPart

\* So are the intervals of its model, zero's among them (buildAxisModel).
LEMMA AxisModelFine ==
  ASSUME NEW spec, NEW ext, Given(spec, ext)
  PROVE  \E F, last : AxisFine(AxisModel(spec, ext), F, last, spec, ext)
<1> DEFINE parts == AxisParts(spec, ext)
           all == IF ZeroIn(spec, ext) /\ ZeroParts(parts) = {} THEN WithZero(parts) ELSE parts
           model == AxisModel(spec, ext)
<1>1. PICK F, last : /\ InnerBounds(F, last, spec, Resolved(spec, ext))
                     /\ Whole(parts, F, last, spec, ext) /\ ZeroPart \notin Range(parts)
  BY AxisPartsWhole
<1>2. F \in SUBSET Bins /\ last \in Bins
  BY <1>1 DEF InnerBounds
<1>3. /\ model.intervals = all
      /\ model.zero = IF ZeroIn(spec, ext) THEN Min(ZeroParts(all)) ELSE 0
  BY AxisModelIs
<1> HIDE DEF parts
<1>4. parts \in Seq(Intervals(F, last)) /\ Ascending(parts)
  BY <1>1 DEF Whole
<1>5. CASE ZeroIn(spec, ext) /\ ZeroParts(parts) = {}
  <2>1. all = WithZero(parts)
    BY <1>5
  <2>2. all \in Seq(Intervals(F, last)) /\ Ascending(all) /\ Range(all) = Range(parts) \cup {ZeroPart}
    BY <1>1, <1>2, <1>4, <1>5, <2>1, ZeroPlaced
  <2> HIDE DEF all, model
  <2>3. ZeroParts(all) # {}
    <3>1. PICK k \in DOMAIN all : all[k] = ZeroPart
      BY <2>2 DEF Range
    <3>2. all[k].kind = "finite" /\ all[k].lower = 0
      BY <3>1, PointPartsAre
    <3> QED
      BY <3>2 DEF ZeroParts
  <2>4. Min(ZeroParts(all)) \in DOMAIN all /\ In(0, all[Min(ZeroParts(all))])
    BY <1>2, <2>2, <2>3, ZeroGoes
  <2>5. NegPart # ZeroPart /\ PosPart # ZeroPart
    BY PointPartsAre
  <2>6. HaveFinite(spec, ext)
    BY <1>5 DEF ZeroIn
  <2>7. AxisFine(model, F, last, spec, ext)
    BY <1>1, <1>3, <1>5, <2>2, <2>4, <2>5, <2>6 DEF AxisFine, Whole
  <2> QED
    BY <2>7 DEF model
<1>6. CASE ~ (ZeroIn(spec, ext) /\ ZeroParts(parts) = {})
  <2>1. all = parts
    BY <1>6
  <2> HIDE DEF all, model
  <2>2. ZeroIn(spec, ext) => Min(ZeroParts(all)) \in DOMAIN all /\ In(0, all[Min(ZeroParts(all))])
    BY <1>2, <1>4, <1>6, <2>1, ZeroGoes
  <2>3. AxisFine(model, F, last, spec, ext)
    BY <1>1, <1>3, <2>1, <2>2 DEF AxisFine, Whole
  <2> QED
    BY <2>3 DEF model
<1> QED
  BY <1>5, <1>6

\* What Partitioned says of one axis.
AscendsApart(ivs) ==
  \A j, k \in DOMAIN ivs : j < k =>
     \/ ivs[j].upper < ivs[k].lower
     \/ ivs[j].upper = ivs[k].lower /\ ~ (ivs[j].upperIn /\ ivs[k].lowerIn)
InnerOf(ivs) == {k \in DOMAIN ivs : ivs[k].kind = "finite" /\ ~ ivs[k].edge}
Within(ivs, spec) == \A k \in InnerOf(ivs) : spec.min <= ivs[k].lower /\ ivs[k].upper <= spec.max
Steps(ivs) == {k \in InnerOf(ivs) : ivs[k].lower # ivs[k].upper}

\* An interval inside the range asked for that is no edge.
LEMMA InnerWithin ==
  ASSUME NEW spec, NEW ext, Given(spec, ext), NEW F, NEW last,
         NEW model, AxisFine(model, F, last, spec, ext), NEW k \in InnerOf(model.intervals)
  PROVE  /\ spec.min <= model.intervals[k].lower /\ model.intervals[k].upper <= spec.max
         /\ model.intervals[k].lower # model.intervals[k].upper => \E a \in F : model.intervals[k].lower = Lower(a)
<1> DEFINE p == model.intervals[k]
           r == Resolved(spec, ext)
<1>1. /\ F \in SUBSET Bins /\ last \in Bins
      /\ \A a \in F : r.min <= Lower(a)
      /\ F # {} => Upper(last) <= r.max
  BY DEF AxisFine, InnerBounds
<1>2. model.intervals \in Seq(Intervals(F, last)) /\ k \in DOMAIN model.intervals /\ p.kind = "finite" /\ ~ p.edge
  BY DEF AxisFine, InnerOf
<1>3. p \in Intervals(F, last) /\ p \in Range(model.intervals)
  BY <1>2 DEF Range
<1>4. /\ r.min = IF NegInfEnd(spec) THEN ext.min ELSE spec.min
      /\ r.max = IF PosInfEnd(spec) THEN ext.max ELSE spec.max
      /\ r.min \in Int /\ r.max \in Int
  BY ResolvedIs DEF Asked
<1>5. spec.min \in Int /\ spec.max \in Int
  BY DEF Given
<1>6. p = ZeroPart => ZeroIn(spec, ext)
  BY <1>3 DEF AxisFine
<1> HIDE DEF p, r
<1>7. p \in Pieces(F, last) \cup {ZeroPart}
  BY <1>1, <1>2, <1>3, IntervalsAre
<1>8. CASE p = ZeroPart
  <2>1. r.min <= 0 /\ 0 <= r.max
    BY <1>6, <1>8 DEF ZeroIn, r
  <2>2. spec.min <= 0
    BY <1>4, <1>5, <2>1, TableIs DEF NegInfEnd
  <2>3. 0 <= spec.max
    BY <1>4, <1>5, <2>1, TableIs DEF PosInfEnd
  <2> QED
    BY <1>8, <2>2, <2>3, PointPartsAre DEF p
<1>9. CASE p \in Pieces(F, last)
  <2>1. PICK a \in Bins, c \in Bins : Spans(p, a, c) /\ a \in F /\ c <= last
    BY <1>1, <1>2, <1>9, PiecesSpan
  <2>2. p.lower = Lower(a) /\ p.upper = Upper(c)
    BY <2>1 DEF Spans
  <2>3. /\ Lower(a) \in Int /\ Upper(c) \in Int /\ Upper(last) \in Int
        /\ Low <= Lower(a) /\ Upper(last) <= High
    BY <1>1, BinIs
  <2>4. Upper(c) <= Upper(last)
    <3>1. CASE c = last
      BY <2>3, <3>1
    <3>2. CASE c < last
      BY <1>1, <2>3, <3>2, BinsAscend
    <3> QED
      BY <1>1, <2>1, <3>1, <3>2, TableIs
  <2>5. r.min <= Lower(a) /\ Upper(last) <= r.max
    BY <1>1, <2>1
  <2>6. spec.min <= Lower(a)
    BY <1>4, <1>5, <2>3, <2>5 DEF NegInfEnd
  <2>7. Upper(c) <= spec.max
    <3>1. CASE PosInfEnd(spec)
      BY <1>5, <2>3, <2>4, <3>1, TableIs DEF PosInfEnd
    <3>2. CASE ~ PosInfEnd(spec)
      BY <1>4, <1>5, <2>3, <2>4, <2>5, <3>2
    <3> QED
      BY <3>1, <3>2
  <2> QED
    BY <2>1, <2>2, <2>6, <2>7 DEF p
<1> QED
  BY <1>7, <1>8, <1>9

\* No more parts of bins lie in the range than steps are asked for.
LEMMA StepsFew ==
  ASSUME NEW spec, NEW ext, Given(spec, ext), NEW F, NEW last,
         NEW model, AxisFine(model, F, last, spec, ext)
  PROVE  Cardinality(Steps(model.intervals)) <= spec.steps
<1> DEFINE ivs == model.intervals
           K == Steps(ivs)
           g == [k \in K |-> CHOOSE a \in F : ivs[k].lower = Lower(a)]
<1>1. /\ F \in SUBSET Bins /\ last \in Bins /\ IsFiniteSet(F) /\ Cardinality(F) \in Nat /\ Cardinality(F) <= spec.steps
      /\ ivs \in Seq(Intervals(F, last)) /\ Ascending(ivs)
  BY DEF AxisFine, InnerBounds
<1>2. ASSUME NEW k \in K
      PROVE  g[k] \in F /\ ivs[k].lower = Lower(g[k])
  <2>1. k \in InnerOf(ivs) /\ ivs[k].lower # ivs[k].upper
    BY DEF Steps
  <2>2. \E a \in F : ivs[k].lower = Lower(a)
    BY <2>1, InnerWithin
  <2> QED
    BY <2>2
<1>3. ASSUME NEW k \in K
      PROVE  k \in Int /\ k \in DOMAIN ivs /\ ivs[k].lower \in Int /\ ivs[k].upper \in Int /\ ivs[k].lower < ivs[k].upper
  <2>1. k \in DOMAIN ivs /\ ivs[k].lower # ivs[k].upper
    BY DEF Steps, InnerOf
  <2>2. k \in Int /\ ivs[k] \in Intervals(F, last)
    BY <1>1, <2>1, LenProperties
  <2> DEFINE p == ivs[k]
  <2>3. p \in Intervals(F, last) /\ p.lower # p.upper
    BY <2>1, <2>2
  <2> HIDE DEF p
  <2>4. p.lower \in Int /\ p.upper \in Int /\ p.lower <= p.upper
    BY <1>1, <2>3, IntervalsAre
  <2>5. p.lower < p.upper
    BY <2>3, <2>4
  <2> QED
    BY <2>1, <2>2, <2>4, <2>5 DEF p
<1>4. ASSUME NEW j \in K, NEW k \in K, j < k
      PROVE  ivs[j].lower < ivs[k].lower
  <2>1. Apart(ivs[j], ivs[k])
    BY <1>1, <1>3, <1>4 DEF Ascending
  <2>2. /\ ivs[j].lower \in Int /\ ivs[j].upper \in Int /\ ivs[j].lower < ivs[j].upper
        /\ ivs[k].lower \in Int
    BY <1>3
  <2> QED
    BY <2>1, <2>2 DEF Apart
<1>5. \A j, k \in K : j # k => g[j] # g[k]
  <2> SUFFICES ASSUME NEW j \in K, NEW k \in K, j # k PROVE g[j] # g[k]
    OBVIOUS
  <2>1. j < k \/ k < j
    BY <1>3
  <2>2. ivs[j].lower # ivs[k].lower
    BY <1>3, <1>4, <2>1
  <2>3. ivs[j].lower = Lower(g[j]) /\ ivs[k].lower = Lower(g[k])
    BY <1>2
  <2> QED
    BY <2>2, <2>3, Zenon
<1>6. g \in [K -> F]
  BY <1>2
<1> HIDE DEF g, K
<1>7. g \in Injection(K, F)
  BY <1>5, <1>6 DEF Injection, IsInjective
<1>8. IsFiniteSet(K) /\ Cardinality(K) <= Cardinality(F)
  BY <1>1, <1>7, FS_Injection
<1>9. Cardinality(K) \in Nat
  BY <1>8, FS_CardinalityType
<1>10. spec.steps \in Nat
  BY DEF Given
<1>11. Cardinality(K) <= spec.steps
  BY <1>1, <1>8, <1>9, <1>10
<1> QED
  BY <1>11 DEF K, ivs

\* The intervals that buildAxisModel makes are parted as Partitioned says.
LEMMA AxisPartitioned ==
  ASSUME NEW spec, NEW ext, Given(spec, ext)
  PROVE  /\ AscendsApart(AxisModel(spec, ext).intervals) /\ Within(AxisModel(spec, ext).intervals, spec)
         /\ Cardinality(Steps(AxisModel(spec, ext).intervals)) <= spec.steps
<1> DEFINE model == AxisModel(spec, ext)
<1>1. PICK F, last : AxisFine(model, F, last, spec, ext)
  BY AxisModelFine
<1> HIDE DEF model
<1>2. AscendsApart(model.intervals)
  BY <1>1 DEF AxisFine, Ascending, Apart, AscendsApart
<1>3. Within(model.intervals, spec)
  BY <1>1, InnerWithin DEF Within
<1>4. Cardinality(Steps(model.intervals)) <= spec.steps
  BY <1>1, StepsFew
<1> QED
  BY <1>2, <1>3, <1>4 DEF model

\* What Partitioned asks of an axis.
PartedAxis(ivs, spec) == AscendsApart(ivs) /\ Within(ivs, spec) /\ Cardinality(Steps(ivs)) <= spec.steps

\* Partitioned, axis by axis.
LEMMA PartitionedIs ==
  (\A t \in Threads : \A d \in DOMAIN models[t] : PartedAxis(models[t][d].intervals, ask[t].axes[d])) => Partitioned
BY DEF Partitioned, PartedAxis, AscendsApart, Within, Steps, InnerOf

-----------------------------------------------------------------------------
(* What a leaf says of the points filed there.                             *)

\* What a reader of a number's leaf learns of it.
Said(v) == CASE v = High -> [kind |-> "posinf", bin |-> -1, value |-> High]
             [] v = Low  -> [kind |-> "neginf", bin |-> -1, value |-> Low]
             [] v = 0    -> [kind |-> "zero", bin |-> -1, value |-> 0]
             [] OTHER    -> [kind |-> "finite", bin |-> BinOf(v), value |-> Labels[BinOf(v)]]

Ordinary(v) == v # NaN /\ v # High /\ v # 0 /\ v # Low

\* A number of a point and its kind.
LEMMA NumberIs ==
  ASSUME NEW pt \in Points, NEW d \in Axes, NEW v, v = pt[d]
  PROVE  /\ v \in Int
         /\ KindOf(v) \in 0 .. 7
         /\ KindOf(v) \in SpecialKinds <=> ~ Ordinary(v)
         /\ KindOf(v) = 0 <=> v = NaN
         /\ KindOf(v) = 1 <=> v = High
         /\ KindOf(v) = 4 <=> v = 0
         /\ KindOf(v) = 7 <=> v = Low
<1>1. v \in Int /\ (v \in {Low, 0, High, NaN} \/ (Low < v /\ v < High /\ \E i \in Bins : Holds(i, v)))
  BY GridAssumption DEF Axes
<1>2. NaN > High /\ Low < 0 /\ 0 < High /\ NaN \in Int /\ Low \in Int /\ High \in Int
  BY GridAssumption, TableIs
<1>3. CASE Ordinary(v)
  <2>1. \E i \in Bins : Holds(i, v)
    BY <1>1, <1>3 DEF Ordinary
  <2>2. BinOf(v) \in Bins
    BY <2>1 DEF BinOf
  <2>3. CodeOf[BinOf(v)].kind \in {2, 3, 5, 6}
    BY <2>2, GridAssumption
  <2>4. KindOf(v) = CodeOf[BinOf(v)].kind
    BY <1>3 DEF KindOf, Ordinary
  <2> HIDE DEF KindOf
  <2>5. KindOf(v) \in {2, 3, 5, 6}
    BY <2>3, <2>4
  <2> QED
    BY <1>1, <1>3, <2>5 DEF SpecialKinds, Ordinary
<1>4. CASE ~ Ordinary(v)
  <2>1. v \in {Low, 0, High, NaN}
    BY <1>4 DEF Ordinary
  <2>2. v = NaN => KindOf(v) = 0
    BY <1>2 DEF KindOf
  <2>3. v = High => KindOf(v) = 1
    BY <1>2 DEF KindOf
  <2>4. v = 0 => KindOf(v) = 4
    BY <1>2 DEF KindOf
  <2>5. v = Low => KindOf(v) = 7
    BY <1>2 DEF KindOf
  <2> QED
    BY <1>1, <1>2, <1>4, <2>1, <2>2, <2>3, <2>4, <2>5 DEF SpecialKinds
<1> QED
  BY <1>3, <1>4

\* The bin of an ordinary number of a point.
LEMMA OrdinaryIs ==
  ASSUME NEW pt \in Points, NEW d \in Axes, NEW v, v = pt[d], Ordinary(v)
  PROVE  /\ BinOf(v) \in Bins /\ Holds(BinOf(v), v) /\ Low < v /\ v < High /\ v \in Int
         /\ KindOf(v) = CodeOf[BinOf(v)].kind
<1>1. v \in Int /\ (v \in {Low, 0, High, NaN} \/ (Low < v /\ v < High /\ \E i \in Bins : Holds(i, v)))
  BY GridAssumption DEF Axes
<1>2. Low < v /\ v < High /\ \E i \in Bins : Holds(i, v)
  BY <1>1 DEF Ordinary
<1>3. BinOf(v) \in Bins /\ Holds(BinOf(v), v)
  BY <1>2 DEF BinOf
<1>4. KindOf(v) = CodeOf[BinOf(v)].kind
  BY DEF KindOf, Ordinary
<1> QED
  BY <1>1, <1>2, <1>3, <1>4

KindsOf(pt)    == [d \in Axes |-> KindOf(pt[d])]
OrdinaryIn(pt) == {d \in Axes : KindOf(pt[d]) \notin SpecialKinds}
CodesOf(pt)    == InOrder([d \in OrdinaryIn(pt) |-> CodeOf[BinOf(pt[d])].code], OrdinaryIn(pt))
BitsOf(pt)     == Combine(CodesOf(pt), SizeBits)

\* What a path is, by the bits of its codes.
LEMMA PathIs ==
  ASSUME NEW pt
  PROVE  Path(pt) = <<Numeral(Eights, KindsOf(pt))>> \o Levels(BitsOf(pt), LevelBits)
BY DEF Path, BitsOf, CodesOf, OrdinaryIn, KindsOf

\* There are finitely many axes.
LEMMA AxesAre == Dims \in Nat \ {0} /\ Axes = 1 .. Dims /\ IsFiniteSet(Axes) /\ Axes \in SUBSET Int
<1>1. Dims \in Nat \ {0}
  BY GridAssumption
<1>2. IsFiniteSet(1 .. Dims)
  BY <1>1, FS_Interval
<1> QED
  BY <1>1, <1>2 DEF Axes

\* The ordinary axes of a point.
LEMMA OrdinaryAre ==
  ASSUME NEW pt \in Points
  PROVE  /\ OrdinaryIn(pt) \in SUBSET (1 .. Dims) /\ OrdinaryIn(pt) \in SUBSET Int /\ IsFiniteSet(OrdinaryIn(pt))
         /\ \A d \in Axes : d \in OrdinaryIn(pt) <=> Ordinary(pt[d])
<1>1. OrdinaryIn(pt) \in SUBSET Axes
  BY DEF OrdinaryIn
<1>2. OrdinaryIn(pt) \in SUBSET Int /\ IsFiniteSet(OrdinaryIn(pt))
  BY <1>1, AxesAre, FS_Subset
<1>3. \A d \in Axes : d \in OrdinaryIn(pt) <=> Ordinary(pt[d])
  BY NumberIs DEF OrdinaryIn
<1> QED
  BY <1>1, <1>2, <1>3, AxesAre

\* What the levels of a point's codes are, and what can be made of them.
LEMMA LevelsKept ==
  ASSUME NEW pt \in Points
  PROVE  \E m \in Nat : /\ Rejoins(Levels(BitsOf(pt), LevelBits), LevelBits, m, BitsOf(pt))
                        /\ OrdinaryIn(pt) # {} =>
                             Split(BitsOf(pt), Cardinality(OrdinaryIn(pt)), SizeBits) = CodesOf(pt)
<1> DEFINE S == OrdinaryIn(pt)
           C == {CodeOf[i].code : i \in Bins}
           g == [d \in OrdinaryIn(pt) |-> CodeOf[BinOf(pt[d])].code]
           bits == BitsOf(pt)
<1>1. S \in SUBSET (1 .. Dims) /\ Dims \in Nat
  BY OrdinaryAre, AxesAre
<1>2. Coded(C, SizeBits, LevelBits, Dims)
  BY GridAssumption
<1>3. \A d \in S : g[d] \in C
  <2> TAKE d \in S
  <2>1. d \in Axes /\ Ordinary(pt[d])
    BY <1>1, OrdinaryAre, AxesAre
  <2>2. BinOf(pt[d]) \in Bins
    BY <2>1, OrdinaryIs
  <2> QED
    BY <2>2
<1>4. CodesOf(pt) = InOrder(g, S) /\ bits = Combine(InOrder(g, S), SizeBits)
  BY DEF CodesOf, BitsOf
<1> HIDE DEF S, C, g, bits
<1>5. \E m \in Nat : /\ Rejoins(Levels(bits, LevelBits), LevelBits, m, bits)
                     /\ S # {} => Split(bits, Cardinality(S), SizeBits) = InOrder(g, S)
  BY <1>1, <1>2, <1>3, <1>4, CodesKept
<1> QED
  BY <1>4, <1>5 DEF S, bits

\* The first level of a path says the kinds of the numbers.
LEMMA KindsKept ==
  ASSUME NEW pt \in Points
  PROVE  /\ Path(pt)[1] = Numeral(Eights, KindsOf(pt)) /\ Path(pt)[1] \in Nat
         /\ DeconstructTLE(Path(pt)[1]) = KindsOf(pt)
<1>1. Dims \in Nat /\ Eights \in [1 .. Dims -> Nat \ {0}] /\ \A d \in 1 .. Dims : Eights[d] = 8
  BY AxesAre DEF Eights
<1>2. KindsOf(pt) \in [1 .. Dims -> Nat] /\ \A d \in 1 .. Dims : KindsOf(pt)[d] < 8
  <2>1. \A d \in Axes : KindOf(pt[d]) \in 0 .. 7
    BY NumberIs
  <2>2. KindsOf(pt) = [d \in 1 .. Dims |-> KindOf(pt[d])]
    BY DEF KindsOf, Axes
  <2> QED
    BY <2>1, <2>2, AxesAre
<1>3. \A d \in 1 .. Dims : KindsOf(pt)[d] < Eights[d]
  BY <1>1, <1>2
<1>4. Numeral(Eights, KindsOf(pt)) \in Nat /\ Digits(Eights, Numeral(Eights, KindsOf(pt))) = KindsOf(pt)
  BY <1>1, <1>2, <1>3, DigitsOfNumeral
<1> DEFINE levels == Levels(BitsOf(pt), LevelBits)
<1>5. \E m \in Nat : levels \in [1 .. m -> Nat]
  BY LevelsKept DEF Rejoins
<1>6. Path(pt) = <<Numeral(Eights, KindsOf(pt))>> \o levels
  BY PathIs
<1> HIDE DEF levels
<1>7. levels \in Seq(Nat)
  BY <1>5
<1>8. (<<Numeral(Eights, KindsOf(pt))>> \o levels)[1] = Numeral(Eights, KindsOf(pt))
  BY <1>4, <1>7
<1> QED
  BY <1>4, <1>6, <1>8 DEF DeconstructTLE

\* The bits of a path are those of its codes.
BitsIn(q) == FlattenSeq([k \in 1 .. Len(q) - 1 |-> Bits(q[k + 1], LevelBits[k])])

\* The bits of a point's path are those of its codes, and part into them again.
LEMMA BitsKept ==
  ASSUME NEW pt \in Points
  PROVE  /\ BitsIn(Path(pt)) = BitsOf(pt)
         /\ OrdinaryIn(pt) # {} =>
              Split(BitsIn(Path(pt)), Cardinality(OrdinaryIn(pt)), SizeBits) = CodesOf(pt)
<1> DEFINE levels == Levels(BitsOf(pt), LevelBits)
           tle == Numeral(Eights, KindsOf(pt))
           q == <<tle>> \o levels
<1>1. PICK m \in Nat : /\ Rejoins(levels, LevelBits, m, BitsOf(pt))
                       /\ OrdinaryIn(pt) # {} =>
                            Split(BitsOf(pt), Cardinality(OrdinaryIn(pt)), SizeBits) = CodesOf(pt)
  BY LevelsKept
<1>2. Path(pt) = q
  BY PathIs
<1>3. tle \in Nat
  BY KindsKept
<1> HIDE DEF levels, tle
<1>4. levels \in [1 .. m -> Nat] /\ FlattenSeq([k \in 1 .. m |-> Bits(levels[k], LevelBits[k])]) = BitsOf(pt)
  BY <1>1 DEF Rejoins
<1>5. levels \in Seq(Nat) /\ Len(levels) = m
  BY <1>4
<1>6. Len(q) - 1 = m /\ \A k \in 1 .. m : q[k + 1] = levels[k]
  BY <1>3, <1>5
<1> HIDE DEF q
<1>7. [k \in 1 .. Len(q) - 1 |-> Bits(q[k + 1], LevelBits[k])] = [k \in 1 .. m |-> Bits(levels[k], LevelBits[k])]
  BY <1>6
<1>8. BitsIn(q) = BitsOf(pt)
  BY <1>4, <1>7 DEF BitsIn
<1> QED
  BY <1>1, <1>2, <1>8

\* What emitRecord makes of the kinds and bits of a leaf.
ChunksIn(q, S) == IF S = {} THEN <<>> ELSE Split(BitsIn(q), Cardinality(S), SizeBits)
BinSaid(kind, code) == CHOOSE i \in Bins : CodeOf[i] = [kind |-> kind, code |-> code]
SaidAs(kind, code) ==
  CASE kind = 1 -> [kind |-> "posinf", bin |-> -1, value |-> High]
    [] kind = 7 -> [kind |-> "neginf", bin |-> -1, value |-> Low]
    [] kind = 4 -> [kind |-> "zero", bin |-> -1, value |-> 0]
    [] OTHER    -> [kind |-> "finite", bin |-> BinSaid(kind, code), value |-> Labels[BinSaid(kind, code)]]

OrdinaryBy(kinds) == {d \in Axes : kinds[d] \notin SpecialKinds}
AxisSaid(q, kinds, S, d) == SaidAs(kinds[d], ChunksIn(q, S)[PlaceIn(S, d)])

\* What a leaf says of an axis, given its kinds and its ordinary axes.
LEMMA AxisBinsIs ==
  ASSUME NEW q, NEW kinds, kinds = DeconstructTLE(q[1]), NEW S, S = OrdinaryBy(kinds), NEW d \in Axes
  PROVE  AxisBins(q)[d] = AxisSaid(q, kinds, S, d)
BY DEF AxisBins, AxisSaid, SaidAs, BinSaid, ChunksIn, BitsIn, OrdinaryBy

\* A leaf says of every number filed there but NaN what it is.
LEMMA Decoded ==
  ASSUME NEW pt \in Points, NEW d \in Axes, pt[d] # NaN
  PROVE  AxisBins(Path(pt))[d] = Said(pt[d])
<1> DEFINE q == Path(pt)
           S == OrdinaryIn(pt)
           v == pt[d]
           g == [e \in OrdinaryIn(pt) |-> CodeOf[BinOf(pt[e])].code]
           chunk == ChunksIn(q, S)[PlaceIn(S, d)]
<1>1. DeconstructTLE(q[1]) = KindsOf(pt)
  BY KindsKept
<1>2. S = OrdinaryBy(KindsOf(pt))
  BY DEF OrdinaryIn, KindsOf, OrdinaryBy
<1>3. AxisBins(q)[d] = AxisSaid(q, KindsOf(pt), S, d)
  <2> HIDE DEF S, q
  <2> QED
    BY <1>1, <1>2, AxisBinsIs
<1>4. AxisBins(q)[d] = SaidAs(KindOf(v), chunk)
  BY <1>3 DEF KindsOf, AxisSaid
<1>5. v \in Int /\ v # NaN
  BY NumberIs
<1>6. CASE v \in {High, 0, Low}
  <2>1. /\ v = High => KindOf(v) = 1
        /\ v = 0 => KindOf(v) = 4
        /\ v = Low => KindOf(v) = 7
    BY NumberIs
  <2>2. High # 0 /\ Low # 0 /\ High # Low
    BY TableIs
  <2> HIDE DEF v, chunk, q
  <2>3. SaidAs(KindOf(v), chunk) = Said(v)
    BY <1>6, <2>1, <2>2 DEF SaidAs, Said
  <2> QED
    BY <1>4, <2>3 DEF v, q
<1>7. CASE Ordinary(v)
  <2>1. /\ BinOf(v) \in Bins /\ KindOf(v) = CodeOf[BinOf(v)].kind
    BY <1>7, OrdinaryIs
  <2>2. d \in S /\ S # {}
    BY <1>7, OrdinaryAre
  <2>3. ChunksIn(q, S) = CodesOf(pt)
    BY <2>2, BitsKept DEF ChunksIn
  <2>4. chunk = g[d]
    <3>1. CodesOf(pt) = InOrder(g, S)
      BY DEF CodesOf
    <3>2. S \in SUBSET Int /\ IsFiniteSet(S)
      BY OrdinaryAre
    <3> HIDE DEF g, S
    <3>3. InOrder(g, S)[PlaceIn(S, d)] = g[d]
      BY <2>2, <3>2, InOrderIs
    <3> QED
      BY <2>3, <3>1, <3>3
  <2>5. chunk = CodeOf[BinOf(v)].code
    BY <2>2, <2>4
  <2> HIDE DEF chunk, q, v, S, g
  <2>6. CodeOf[BinOf(v)] = [kind |-> KindOf(v), code |-> chunk]
    <3>1. CodeOf[BinOf(v)] \in [kind : {2, 3, 5, 6}, code : Seq({0, 1})]
      BY <2>1, GridAssumption
    <3> QED
      BY <2>1, <2>5, <3>1
  <2>7. BinSaid(KindOf(v), chunk) = BinOf(v)
    <3> DEFINE b == BinSaid(KindOf(v), chunk)
    <3>1. b \in Bins /\ CodeOf[b] = [kind |-> KindOf(v), code |-> chunk]
      BY <2>1, <2>6 DEF BinSaid
    <3> HIDE DEF b
    <3>2. b = BinOf(v)
      BY <2>1, <2>6, <3>1, GridAssumption
    <3> QED
      BY <3>2 DEF b
  <2>8. KindOf(v) \in {2, 3, 5, 6}
    BY <2>1, GridAssumption
  <2>9. SaidAs(KindOf(v), chunk) = Said(v)
    BY <1>7, <2>7, <2>8 DEF SaidAs, Said, Ordinary
  <2> QED
    BY <1>4, <2>9 DEF q, v
<1> QED
  BY <1>5, <1>6, <1>7 DEF Ordinary

-----------------------------------------------------------------------------
(* Which interval a number is in.                                          *)

InBin(i, v) == /\ Lower(i) < v \/ (Lower(i) = v /\ LowerIn(i))
               /\ v < Upper(i) \/ (v = Upper(i) /\ UpperIn(i))

\* The number a bin holds lies in its interval, and its label does.
LEMMA HeldInBin ==
  ASSUME NEW i \in Bins, NEW v \in Int, Low < v, v < High, Holds(i, v)
  PROVE  InBin(i, v)
<1>1. Labels[i] \in Int /\ Bins = 0 .. BinCount - 1 /\ BinCount \in Nat \ {0} /\ i \in Int
  BY TableIs
<1>2. CASE v > 0
  <2>1. 0 < Labels[i] /\ Labels[i] <= v /\ \A j \in Bins : Labels[j] <= v => j <= i
    BY <1>2 DEF Holds
  <2>2. Lower(i) = Labels[i] /\ LowerIn(i) /\ Upper(i) = FPNumber(i + 1)
    BY <1>1, <2>1 DEF Lower, LowerIn, Upper
  <2>3. v < FPNumber(i + 1)
    <3>1. CASE i + 1 \in Bins
      <4>1. ~ (Labels[i + 1] <= v)
        BY <1>1, <2>1, <3>1
      <4>2. Labels[i + 1] \in Int
        BY <3>1, TableIs
      <4> QED
        BY <3>1, <4>1, <4>2 DEF FPNumber
    <3>2. CASE i + 1 \notin Bins
      BY <3>2 DEF FPNumber
    <3> QED
      BY <3>1, <3>2
  <2> QED
    BY <1>1, <2>1, <2>2, <2>3 DEF InBin
<1>3. CASE ~ (v > 0)
  <2>1. v < 0 /\ Labels[i] < 0 /\ v <= Labels[i] /\ \A j \in Bins : v <= Labels[j] => i <= j
    BY <1>3 DEF Holds
  <2>2. Upper(i) = Labels[i] /\ UpperIn(i) /\ Lower(i) = IF i > 0 THEN Labels[i - 1] ELSE Low
    BY <1>1, <2>1 DEF Lower, UpperIn, Upper
  <2>3. Lower(i) < v
    <3>1. CASE i > 0
      <4>1. i - 1 \in Bins
        BY <1>1, <3>1
      <4>2. ~ (v <= Labels[i - 1])
        BY <1>1, <2>1, <4>1
      <4>3. Labels[i - 1] \in Int
        BY <4>1, TableIs
      <4> QED
        BY <2>2, <3>1, <4>2, <4>3
    <3>2. CASE ~ (i > 0)
      BY <2>2, <3>2
    <3> QED
      BY <3>1, <3>2
  <2> QED
    BY <1>1, <2>1, <2>2, <2>3 DEF InBin
<1> QED
  BY <1>2, <1>3

\* The label of a bin is in its bin.
LEMMA LabelInBin ==
  ASSUME NEW i \in Bins
  PROVE  InBin(i, Labels[i])
<1>1. Labels[i] \in Int /\ (Labels[i] > 0 \/ Labels[i] < 0)
  BY TableIs
<1>2. /\ LowerIn(i) <=> Labels[i] > 0
      /\ UpperIn(i) <=> Labels[i] < 0
      /\ LowerIn(i) => Lower(i) = Labels[i] /\ Labels[i] < Upper(i)
      /\ UpperIn(i) => Upper(i) = Labels[i] /\ Lower(i) < Labels[i]
  BY BinIs
<1> QED
  BY <1>1, <1>2 DEF InBin

\* A number of a bin is in the parts that have the bin, and in no other.
LEMMA InPiece ==
  ASSUME NEW p, NEW a, NEW c, Spans(p, a, c), NEW i \in Bins, NEW v \in Int, InBin(i, v)
  PROVE  In(v, p) <=> i \in p.bins
<1>1. a \in Bins /\ c \in Bins /\ a <= c /\ p.bins = a .. c
  BY DEF Spans
<1>2. a \in Int /\ c \in Int /\ i \in Int
  BY <1>1, TableIs
<1>3. In(v, p) <=> /\ Lower(a) < v \/ (Lower(a) = v /\ LowerIn(a))
                   /\ v < Upper(c) \/ (v = Upper(c) /\ UpperIn(c))
  BY DEF Spans, In
<1>4. /\ Lower(a) \in Int /\ Upper(c) \in Int /\ Lower(i) \in Int /\ Upper(i) \in Int
  BY <1>1, BinIs
<1>5. a <= i => Lower(a) < v \/ (Lower(a) = v /\ LowerIn(a))
  <2>1. a < i => Lower(a) < Lower(i)
    BY <1>1, BinsAscend
  <2>2. a <= i => a < i \/ a = i
    BY <1>2
  <2> QED
    BY <1>4, <2>1, <2>2 DEF InBin
<1>6. i <= c => v < Upper(c) \/ (v = Upper(c) /\ UpperIn(c))
  <2>1. i < c => Upper(i) < Upper(c)
    BY <1>1, BinsAscend
  <2>2. i <= c => i < c \/ i = c
    BY <1>2
  <2> QED
    BY <1>4, <2>1, <2>2 DEF InBin
<1>7. i < a => ~ (Lower(a) < v \/ (Lower(a) = v /\ LowerIn(a)))
  <2>1. i < a => Upper(i) <= Lower(a) /\ (Upper(i) < Lower(a) \/ ~ (UpperIn(i) /\ LowerIn(a)))
    BY <1>1, BinsAscend
  <2> QED
    BY <1>4, <2>1 DEF InBin
<1>8. c < i => ~ (v < Upper(c) \/ (v = Upper(c) /\ UpperIn(c)))
  <2>1. c < i => Upper(c) <= Lower(i) /\ (Upper(c) < Lower(i) \/ ~ (UpperIn(c) /\ LowerIn(i)))
    BY <1>1, BinsAscend
  <2> QED
    BY <1>4, <2>1 DEF InBin
<1>9. i \in a .. c <=> a <= i /\ i <= c
  BY <1>2
<1>10. (i < a \/ a <= i) /\ (c < i \/ i <= c)
  BY <1>2
<1> QED
  BY <1>1, <1>3, <1>5, <1>6, <1>7, <1>8, <1>9, <1>10

\* Zero and the infinities lie in no bin, and no number in two intervals.
LEMMA PointsApart ==
  ASSUME NEW F \in SUBSET Bins, NEW last \in Bins, NEW p \in Pieces(F, last)
  PROVE  /\ ~ In(Low, p) /\ ~ In(High, p)
         /\ p.edge => ~ In(0, p)
<1>1. PICK a \in Bins, c \in Bins : Spans(p, a, c) /\ (p.edge => a = c)
  BY PiecesSpan
<1>2. /\ p.lower \in Int /\ p.upper \in Int
      /\ Low <= p.lower /\ p.upper <= High
      /\ p.lowerIn => Low < p.lower
      /\ p.upperIn => p.upper < High
  BY <1>1, SpanEnds
<1>3. Low \in Int /\ High \in Int
  BY TableIs
<1>4. ~ In(Low, p) /\ ~ In(High, p)
  BY <1>2, <1>3 DEF In
<1>5. p.edge => ~ In(0, p)
  <2> SUFFICES ASSUME p.edge PROVE ~ In(0, p)
    OBVIOUS
  <2>1. p.lower = Lower(a) /\ p.upper = Upper(a)
    BY <1>1 DEF Spans
  <2>2. Labels[a] \in Int /\ (Labels[a] > 0 \/ Labels[a] < 0)
    BY TableIs
  <2>3. /\ LowerIn(a) <=> Labels[a] > 0
        /\ UpperIn(a) <=> Labels[a] < 0
        /\ LowerIn(a) => Lower(a) = Labels[a]
        /\ UpperIn(a) => Upper(a) = Labels[a]
    BY BinIs
  <2>4. p.lower > 0 \/ p.upper < 0
    BY <2>1, <2>2, <2>3
  <2> QED
    BY <1>2, <2>4 DEF In
<1> QED
  BY <1>4, <1>5

\* A number is in one of two intervals that are apart.
LEMMA InOneOnly ==
  ASSUME NEW p, NEW q, p.lower \in Int, p.upper \in Int, q.lower \in Int, q.upper \in Int,
         Apart(p, q), NEW v \in Int
  PROVE  ~ (In(v, p) /\ In(v, q))
BY DEF Apart, In

\* Which intervals of an axis a number is in.
InThese(ivs, v) == {k \in DOMAIN ivs : In(v, ivs[k])}

\* There is at most one.
LEMMA InOne ==
  ASSUME NEW F \in SUBSET Bins, NEW last \in Bins, NEW ivs \in Seq(Intervals(F, last)), Ascending(ivs), NEW v \in Int
  PROVE  \A j, k \in InThese(ivs, v) : j = k
<1> SUFFICES ASSUME NEW j \in InThese(ivs, v), NEW k \in InThese(ivs, v), j # k PROVE FALSE
  OBVIOUS
<1>1. j \in DOMAIN ivs /\ k \in DOMAIN ivs /\ In(v, ivs[j]) /\ In(v, ivs[k])
  BY DEF InThese
<1>2. j \in Int /\ k \in Int /\ ivs[j] \in Intervals(F, last) /\ ivs[k] \in Intervals(F, last)
  BY <1>1, LenProperties
<1> DEFINE p == ivs[j]
           q == ivs[k]
<1>3. p \in Intervals(F, last) /\ q \in Intervals(F, last) /\ In(v, p) /\ In(v, q)
  BY <1>1, <1>2
<1>4. Apart(p, q) \/ Apart(q, p)
  BY <1>1, <1>2 DEF Ascending
<1> HIDE DEF p, q
<1>5. p.lower \in Int /\ p.upper \in Int /\ q.lower \in Int /\ q.upper \in Int
  BY <1>3, IntervalsAre
<1> QED
  BY <1>3, <1>4, <1>5, InOneOnly

\* The intervals that PartitionIndex chooses from.
Here(model, ax) ==
  {k \in DOMAIN model.intervals :
     CASE ax.kind = "finite" -> ax.bin \in model.intervals[k].bins
       [] ax.kind = "zero"   -> k = model.zero
       [] OTHER              -> model.intervals[k].kind = ax.kind}

\* The index of a bin is that of the first interval that has it, or zero (partitionIndex).
LEMMA PartitionIndexIs ==
  ASSUME NEW model, NEW ax
  PROVE  PartitionIndex(model, ax) = IF Here(model, ax) = {} THEN 0 ELSE Min(Here(model, ax))
BY DEF PartitionIndex, Here

\* Zero is in no interval if the range is without it.
LEMMA ZeroNowhere ==
  ASSUME NEW spec, NEW ext, Given(spec, ext), NEW F, NEW last, NEW model, AxisFine(model, F, last, spec, ext),
         ~ ZeroIn(spec, ext)
  PROVE  InThese(model.intervals, 0) = {}
<1> SUFFICES ASSUME NEW k \in DOMAIN model.intervals, In(0, model.intervals[k]) PROVE FALSE
  BY DEF InThese
<1> DEFINE p == model.intervals[k]
           r == Resolved(spec, ext)
<1>1. F \in SUBSET Bins /\ last \in Bins /\ model.intervals \in Seq(Intervals(F, last))
      /\ (\A a \in F : r.min <= Lower(a)) /\ (F # {} => Upper(last) <= r.max)
  BY DEF AxisFine, InnerBounds
<1>2. p \in Intervals(F, last) /\ p \in Range(model.intervals) /\ In(0, p)
  BY <1>1 DEF Range
<1>3. r.min \in Int /\ r.max \in Int
  BY ResolvedIs DEF Asked
<1>4. p # ZeroPart
  BY <1>2 DEF AxisFine
<1>5. HaveFinite(spec, ext) \/ p \in {NegPart, PosPart}
  BY <1>2 DEF AxisFine
<1> HIDE DEF p, r
<1>6. CASE p \in {NegPart, PosPart}
  BY <1>2, <1>6, PointPartsAre, TableIs DEF In
<1>7. CASE p \in Pieces(F, last) /\ HaveFinite(spec, ext)
  <2>1. ~ p.edge
    BY <1>1, <1>2, <1>7, PointsApart
  <2>2. PICK a \in Bins, c \in Bins : Spans(p, a, c) /\ a \in F /\ c <= last
    BY <1>1, <1>7, <2>1, PiecesSpan
  <2>3. p.lower = Lower(a) /\ p.upper = Upper(c)
    BY <2>2 DEF Spans
  <2>4. Lower(a) \in Int /\ Upper(c) \in Int /\ Upper(last) \in Int
    BY <1>1, BinIs
  <2>5. Upper(c) <= Upper(last)
    <3>1. c \in Int /\ last \in Int
      BY <1>1, TableIs
    <3>2. CASE c = last
      BY <2>4, <3>2
    <3>3. CASE c < last
      BY <1>1, <2>4, <3>3, BinsAscend
    <3> QED
      BY <2>2, <3>1, <3>2, <3>3
  <2>6. Lower(a) <= 0 /\ 0 <= Upper(c)
    BY <1>2, <2>3, <2>4 DEF In
  <2>7. r.min <= Lower(a) /\ Upper(last) <= r.max
    BY <1>1, <2>2
  <2>8. r.min <= 0 /\ 0 <= r.max
    BY <1>3, <2>4, <2>5, <2>6, <2>7
  <2> QED
    BY <1>7, <2>8 DEF ZeroIn, r
<1> QED
  BY <1>2, <1>4, <1>5, <1>6, <1>7 DEF Intervals

\* A number of a point that is no NaN.
IsNumber(v) ==
  /\ v \in Int
  /\ v \in {Low, 0, High} \/ (Ordinary(v) /\ Low < v /\ v < High /\ BinOf(v) \in Bins /\ InBin(BinOf(v), v))

\* What a record says of a number brings it to the interval that it is in.
LEMMA HereIs ==
  ASSUME NEW spec, NEW ext, Given(spec, ext), NEW F, NEW last, NEW model, AxisFine(model, F, last, spec, ext),
         NEW v, IsNumber(v)
  PROVE  Here(model, Said(v)) = InThese(model.intervals, v)
<1> DEFINE ivs == model.intervals
<1>1. F \in SUBSET Bins /\ last \in Bins /\ ivs \in Seq(Intervals(F, last)) /\ Ascending(ivs)
  BY DEF AxisFine, InnerBounds
<1>2. \A k \in DOMAIN ivs : ivs[k] \in Intervals(F, last)
  BY <1>1
<1>3. v \in Int /\ Low < 0 /\ 0 < High /\ Low \in Int /\ High \in Int
  BY TableIs DEF IsNumber
<1>4. CASE v = High
  <2>1. Said(v).kind = "posinf"
    BY <1>3, <1>4 DEF Said
  <2>2. Here(model, Said(v)) = {k \in DOMAIN ivs : ivs[k].kind = "posinf"}
    BY <2>1 DEF Here
  <2>3. ASSUME NEW p \in Intervals(F, last)
        PROVE  p.kind = "posinf" <=> In(v, p)
    <3>1. p \in Pieces(F, last) => ~ In(v, p) /\ p.kind # "posinf"
      BY <1>1, <1>4, PointsApart, PiecesAre
    <3>2. p \in {NegPart, ZeroPart} => ~ In(v, p) /\ p.kind # "posinf"
      BY <1>3, <1>4, PointPartsAre DEF In
    <3>3. p = PosPart => In(v, p) /\ p.kind = "posinf"
      BY <1>4, PointPartsAre DEF In
    <3> QED
      BY <3>1, <3>2, <3>3 DEF Intervals
  <2> QED
    BY <1>2, <2>2, <2>3 DEF InThese
<1>5. CASE v = Low
  <2>1. Said(v).kind = "neginf"
    BY <1>3, <1>5 DEF Said
  <2>2. Here(model, Said(v)) = {k \in DOMAIN ivs : ivs[k].kind = "neginf"}
    BY <2>1 DEF Here
  <2>3. ASSUME NEW p \in Intervals(F, last)
        PROVE  p.kind = "neginf" <=> In(v, p)
    <3>1. p \in Pieces(F, last) => ~ In(v, p) /\ p.kind # "neginf"
      BY <1>1, <1>5, PointsApart, PiecesAre
    <3>2. p \in {PosPart, ZeroPart} => ~ In(v, p) /\ p.kind # "neginf"
      BY <1>3, <1>5, PointPartsAre DEF In
    <3>3. p = NegPart => In(v, p) /\ p.kind = "neginf"
      BY <1>5, PointPartsAre DEF In
    <3> QED
      BY <3>1, <3>2, <3>3 DEF Intervals
  <2> QED
    BY <1>2, <2>2, <2>3 DEF InThese
<1>6. CASE v = 0
  <2>1. Said(v).kind = "zero"
    BY <1>3, <1>6 DEF Said
  <2>2. Here(model, Said(v)) = {k \in DOMAIN ivs : k = model.zero}
    BY <2>1 DEF Here
  <2>3. CASE ZeroIn(spec, ext)
    <3>1. model.zero \in DOMAIN ivs /\ In(0, ivs[model.zero])
      BY <2>3 DEF AxisFine
    <3>2. model.zero \in InThese(ivs, v)
      BY <1>6, <3>1 DEF InThese
    <3>3. \A j, k \in InThese(ivs, v) : j = k
      BY <1>1, <1>3, InOne
    <3> HIDE DEF ivs
    <3>4. InThese(ivs, v) \subseteq DOMAIN ivs
      BY DEF InThese
    <3> QED
      BY <2>2, <3>1, <3>2, <3>3, <3>4 DEF ivs
  <2>4. CASE ~ ZeroIn(spec, ext)
    <3>1. InThese(ivs, v) = {}
      BY <1>6, <2>4, ZeroNowhere
    <3>2. model.zero = 0
      BY <2>4 DEF AxisFine
    <3>3. 0 \notin DOMAIN ivs
      BY <1>1, LenProperties
    <3> QED
      BY <2>2, <3>1, <3>2, <3>3
  <2> QED
    BY <2>3, <2>4
<1>7. CASE v \notin {Low, 0, High}
  <2>1. Ordinary(v) /\ BinOf(v) \in Bins /\ InBin(BinOf(v), v) /\ Low < v /\ v < High
    BY <1>7 DEF IsNumber
  <2>2. Said(v).kind = "finite" /\ Said(v).bin = BinOf(v)
    BY <2>1 DEF Said, Ordinary
  <2>3. Here(model, Said(v)) = {k \in DOMAIN ivs : BinOf(v) \in ivs[k].bins}
    BY <2>2 DEF Here
  <2>4. ASSUME NEW p \in Intervals(F, last)
        PROVE  BinOf(v) \in p.bins <=> In(v, p)
    <3>1. CASE p \in Pieces(F, last)
      <4>1. PICK a \in Bins, c \in Bins : Spans(p, a, c)
        BY <1>1, <3>1, PiecesSpan
      <4> QED
        BY <1>3, <2>1, <4>1, InPiece
    <3>2. CASE p \in {NegPart, PosPart, ZeroPart}
      BY <1>3, <1>7, <2>1, <3>2, PointPartsAre DEF In
    <3> QED
      BY <3>1, <3>2 DEF Intervals
  <2> QED
    BY <1>2, <2>3, <2>4 DEF InThese
<1> QED
  BY <1>4, <1>5, <1>6, <1>7

\* So the index of a record is that of the interval its number is in, or zero.
LEMMA IndexIs ==
  ASSUME NEW spec, NEW ext, Given(spec, ext), NEW v, IsNumber(v)
  PROVE  LET model == AxisModel(spec, ext)
             ivs   == model.intervals
         IN  /\ PartitionIndex(model, Said(v)) # 0 =>
                  /\ PartitionIndex(model, Said(v)) \in DOMAIN ivs
                  /\ In(v, ivs[PartitionIndex(model, Said(v))])
             /\ \A j \in DOMAIN ivs : In(v, ivs[j]) => PartitionIndex(model, Said(v)) = j /\ j # 0
<1> DEFINE model == AxisModel(spec, ext)
           ivs == model.intervals
           here == InThese(ivs, v)
           index == PartitionIndex(model, Said(v))
<1>1. PICK F, last : AxisFine(model, F, last, spec, ext)
  BY AxisModelFine
<1>2. F \in SUBSET Bins /\ last \in Bins /\ ivs \in Seq(Intervals(F, last)) /\ Ascending(ivs) /\ v \in Int
  BY <1>1 DEF AxisFine, InnerBounds, IsNumber
<1> HIDE DEF model
<1>3. Here(model, Said(v)) = here
  BY <1>1, HereIs
<1>4. index = IF here = {} THEN 0 ELSE Min(here)
  BY <1>3, PartitionIndexIs
<1>5. \A j, k \in here : j = k
  BY <1>2, InOne
<1>6. \A k \in here : k \in DOMAIN ivs /\ In(v, ivs[k])
  BY DEF InThese
<1>7. \A k \in DOMAIN ivs : k \in Int /\ k # 0
  BY <1>2, LenProperties
<1>8. \A j \in DOMAIN ivs : In(v, ivs[j]) => j \in here
  BY DEF InThese
<1> HIDE DEF here
<1>9. ASSUME NEW j \in here
      PROVE  index = j
  <2>1. here = {j}
    BY <1>5
  <2>2. {j} \in SUBSET Int /\ IsFiniteSet({j}) /\ {j} # {}
    BY <1>6, <1>7, FS_Singleton
  <2>3. Min({j}) \in {j}
    BY <2>2, LeastIs
  <2>4. Min(here) = j
    BY <2>1, <2>3
  <2> QED
    BY <1>4, <2>4
<1>10. index # 0 => index \in DOMAIN ivs /\ In(v, ivs[index])
  <2> SUFFICES ASSUME index # 0 PROVE index \in DOMAIN ivs /\ In(v, ivs[index])
    OBVIOUS
  <2>1. PICK j \in here : TRUE
    BY <1>4
  <2>2. index \in here
    BY <1>9, <2>1
  <2> QED
    BY <1>6, <2>2
<1>11. \A j \in DOMAIN ivs : In(v, ivs[j]) => index = j /\ j # 0
  BY <1>7, <1>8, <1>9
<1> QED
  BY <1>10, <1>11 DEF model

\* An extent that the value of a number's record is within.
Covers(ext, v) == ext.min <= Said(v).value /\ Said(v).value <= ext.max

\* The value of a number's record lies where its number does.
LEMMA ValueIs ==
  ASSUME NEW v, IsNumber(v), v \notin {Low, High}
  PROVE  /\ Said(v).value \in Int /\ Low < Said(v).value /\ Said(v).value < High
         /\ v = 0 => Said(v).value = 0
         /\ v # 0 => Said(v).value = Labels[BinOf(v)]
<1>1. Low < 0 /\ 0 < High
  BY TableIs
<1>2. CASE v = 0
  BY <1>1, <1>2 DEF Said
<1>3. CASE v # 0
  <2>1. Ordinary(v) /\ BinOf(v) \in Bins
    BY <1>3 DEF IsNumber
  <2>2. Said(v).value = Labels[BinOf(v)]
    BY <2>1 DEF Said, Ordinary
  <2> QED
    BY <1>3, <2>1, <2>2, TableIs
<1> QED
  BY <1>2, <1>3

\* A range with a number and its record within has parts of bins.
LEMMA RangeHas ==
  ASSUME NEW spec, NEW ext, Given(spec, ext), NEW u, IsNumber(u), u \notin {Low, High},
         Open(spec) => Covers(ext, u) /\ spec.min <= Said(u).value /\ Said(u).value <= spec.max
  PROVE  HaveFinite(spec, ext)
<1> DEFINE w == Said(u).value
           r == Resolved(spec, ext)
<1>1. w \in Int /\ w < High /\ High \in Int
  BY ValueIs, TableIs
<1>2. /\ spec.min \in Int /\ spec.max \in Int /\ spec.min <= spec.max
      /\ ext.min \in Int /\ ext.max \in Int
  BY DEF Given
<1>3. /\ r.min = IF NegInfEnd(spec) THEN ext.min ELSE spec.min
      /\ r.max = IF PosInfEnd(spec) THEN ext.max ELSE spec.max
  BY ResolvedIs
<1>4. Open(spec) => ext.min <= w /\ w <= ext.max /\ spec.min <= w /\ w <= spec.max
  BY DEF Covers
<1> HIDE DEF w, r
<1>5. Open(spec) => ext # NoExtent
  <2> SUFFICES ASSUME Open(spec), ext = NoExtent PROVE FALSE
    OBVIOUS
  <2>1. ext.min = High
    BY DEF NoExtent
  <2> QED
    BY <1>1, <1>4, <2>1
<1>6. r.min <= r.max
  <2>1. CASE ~ Open(spec)
    BY <1>2, <1>3, <2>1 DEF Open
  <2>2. CASE Open(spec)
    BY <1>1, <1>2, <1>3, <1>4, <2>2
  <2> QED
    BY <2>1, <2>2
<1> QED
  BY <1>5, <1>6 DEF HaveFinite, r

\* A number in the range is in one of the intervals.
LEMMA Found ==
  ASSUME NEW spec, NEW ext, Given(spec, ext), NEW v, IsNumber(v), spec.min <= v, v <= spec.max,
         (Open(spec) /\ v \notin {Low, High}) =>
            /\ Covers(ext, v)
            /\ \E u : /\ IsNumber(u) /\ u \notin {Low, High} /\ Covers(ext, u)
                      /\ spec.min <= Said(u).value /\ Said(u).value <= spec.max
  PROVE  InThese(AxisModel(spec, ext).intervals, v) # {}
<1> DEFINE model == AxisModel(spec, ext)
           ivs == model.intervals
           r == Resolved(spec, ext)
<1>1. PICK F, last : AxisFine(model, F, last, spec, ext)
  BY AxisModelFine
<1> HIDE DEF model
<1>2. F \in SUBSET Bins /\ last \in Bins /\ ivs \in Seq(Intervals(F, last))
  BY <1>1 DEF AxisFine, InnerBounds
<1>3. v \in Int /\ Low \in Int /\ High \in Int /\ Low < 0 /\ 0 < High
  BY TableIs DEF IsNumber
<1>4. /\ spec.min \in Int /\ spec.max \in Int /\ spec.min <= spec.max /\ Low <= spec.min /\ spec.max <= High
      /\ ext.min \in Int /\ ext.max \in Int
  BY DEF Given
<1>5. /\ r.min = IF NegInfEnd(spec) THEN ext.min ELSE spec.min
      /\ r.max = IF PosInfEnd(spec) THEN ext.max ELSE spec.max
      /\ r.min \in Int /\ r.max \in Int
  BY ResolvedIs DEF Asked
<1>6. CASE v = Low
  <2>1. NegPart \in Range(ivs)
    <3>1. NegInfEnd(spec)
      BY <1>3, <1>4, <1>6 DEF NegInfEnd
    <3> QED
      BY <1>1, <3>1 DEF AxisFine
  <2>2. In(v, NegPart)
    BY <1>3, <1>6, PointPartsAre DEF In
  <2> QED
    BY <2>1, <2>2 DEF Range, InThese, model
<1>7. CASE v = High
  <2>1. PosPart \in Range(ivs)
    <3>1. PosInfEnd(spec)
      BY <1>3, <1>4, <1>7 DEF PosInfEnd
    <3> QED
      BY <1>1, <3>1 DEF AxisFine
  <2>2. In(v, PosPart)
    BY <1>3, <1>7, PointPartsAre DEF In
  <2> QED
    BY <2>1, <2>2 DEF Range, InThese, model
<1>8. CASE v \notin {Low, High}
  <2>1. PICK u : /\ IsNumber(u) /\ u \notin {Low, High}
                 /\ Open(spec) => Covers(ext, u) /\ spec.min <= Said(u).value /\ Said(u).value <= spec.max
    <3>1. CASE Open(spec)
      BY <1>8, <3>1
    <3>2. CASE ~ Open(spec)
      BY <1>8, <3>2
    <3> QED
      BY <3>1, <3>2
  <2>2. HaveFinite(spec, ext)
    BY <2>1, RangeHas
  <2>3. Open(spec) => ext.min <= Said(v).value /\ Said(v).value <= ext.max
    BY <1>8 DEF Covers
  <2>4. CASE v = 0
    <3>1. Said(v).value = 0
      BY <1>8, <2>4, ValueIs
    <3>2. r.min <= 0
      BY <1>5, <2>3, <2>4, <3>1 DEF Open
    <3>3. 0 <= r.max
      BY <1>5, <2>3, <2>4, <3>1 DEF Open
    <3>4. ZeroIn(spec, ext)
      BY <2>2, <3>2, <3>3 DEF ZeroIn
    <3>5. model.zero \in DOMAIN ivs /\ In(0, ivs[model.zero])
      BY <1>1, <3>4 DEF AxisFine
    <3> QED
      BY <2>4, <3>5 DEF InThese, model
  <2>5. CASE v # 0
    <3> DEFINE i == BinOf(v)
               l == Labels[i]
    <3>1. i \in Bins /\ InBin(i, v)
      BY <1>8, <2>5 DEF IsNumber
    <3>2. Said(v).value = l /\ l \in Int
      BY <1>8, <2>5, ValueIs
    <3>3. InBin(i, l)
      BY <3>1, LabelInBin
    <3>4. Lower(i) \in Int /\ Upper(i) \in Int
      BY <3>1, BinIs
    <3> HIDE DEF i, l
    <3>5. Upper(i) > r.min \/ (Upper(i) = r.min /\ UpperIn(i))
      <4>1. r.min <= v \/ r.min <= l
        BY <1>5, <2>3, <3>2 DEF Open
      <4> QED
        BY <1>3, <1>5, <3>1, <3>2, <3>3, <3>4, <4>1 DEF InBin
    <3>6. Lower(i) < r.max \/ (Lower(i) = r.max /\ LowerIn(i))
      <4>1. v <= r.max \/ l <= r.max
        BY <1>5, <2>3, <3>2 DEF Open
      <4> QED
        BY <1>3, <1>5, <3>1, <3>2, <3>3, <3>4, <4>1 DEF InBin
    <3>7. i \in InScope(r)
      BY <3>1, <3>5, <3>6 DEF InScope
    <3> HIDE DEF r
    <3>8. PICK p \in Range(ivs) : i \in p.bins
      BY <1>1, <2>2, <3>7 DEF AxisFine, r
    <3>9. p \in Intervals(F, last)
      BY <1>2 DEF Range
    <3>10. p \in Pieces(F, last)
      BY <3>8, <3>9, PointPartsAre DEF Intervals
    <3>11. PICK a \in Bins, c \in Bins : Spans(p, a, c)
      BY <1>2, <3>10, PiecesSpan
    <3>12. In(v, p)
      BY <1>3, <3>1, <3>8, <3>11, InPiece
    <3> QED
      BY <3>12 DEF Range, InThese, model
  <2> QED
    BY <2>4, <2>5
<1> QED
  BY <1>6, <1>7, <1>8

-----------------------------------------------------------------------------
(* Records and rows.                                                       *)

NoNaN(pt) == \A d \in Axes : pt[d] # NaN

\* The numbers of a point without NaN.
LEMMA PointNumber ==
  ASSUME NEW pt \in Points, NEW d \in Axes, pt[d] # NaN
  PROVE  IsNumber(pt[d])
<1> DEFINE v == pt[d]
<1>1. v \in Int
  BY NumberIs
<1>2. CASE Ordinary(v)
  <2>1. BinOf(v) \in Bins /\ Holds(BinOf(v), v) /\ Low < v /\ v < High
    BY <1>2, OrdinaryIs
  <2>2. InBin(BinOf(v), v)
    BY <1>1, <2>1, HeldInBin
  <2> QED
    BY <1>1, <1>2, <2>1, <2>2 DEF IsNumber
<1>3. CASE ~ Ordinary(v)
  BY <1>1, <1>3 DEF IsNumber, Ordinary
<1> QED
  BY <1>2, <1>3

\* The records that are visited are those of the points without NaN.
LEMMA VisitedAre ==
  ASSUME points \in Seq(Points), trie = TrieOf(points)
  PROVE  /\ \A k \in DOMAIN points : Path(points[k]) \in Visited <=> NoNaN(points[k])
         /\ \A q \in Visited : \E k \in DOMAIN points : q = Path(points[k])
<1>1. DOMAIN trie = {Path(points[k]) : k \in DOMAIN points}
  BY DEF TrieOf
<1>2. ASSUME NEW k \in DOMAIN points
      PROVE  Path(points[k]) \in Visited <=> NoNaN(points[k])
  <2> DEFINE pt == points[k]
  <2>1. pt \in Points
    OBVIOUS
  <2>2. DeconstructTLE(Path(pt)[1]) = KindsOf(pt)
    BY <2>1, KindsKept
  <2>3. \A d \in Axes : KindsOf(pt)[d] # 0 <=> pt[d] # NaN
    <3> TAKE d \in Axes
    <3>1. KindOf(pt[d]) = 0 <=> pt[d] = NaN
      BY <2>1, NumberIs
    <3> QED
      BY <3>1 DEF KindsOf
  <2>4. Path(pt) \in Visited <=> \A d \in Axes : DeconstructTLE(Path(pt)[1])[d] # 0
    BY <1>1 DEF Visited
  <2> QED
    BY <2>2, <2>3, <2>4 DEF NoNaN
<1>3. \A q \in Visited : \E k \in DOMAIN points : q = Path(points[k])
  BY <1>1 DEF Visited
<1> QED
  BY <1>2, <1>3

\* What an axis does with numbers: a record's index says which interval has its number.
Sorts(model) ==
  /\ Len(model.intervals) \in Nat /\ DOMAIN model.intervals = 1 .. Len(model.intervals)
  /\ \A v : IsNumber(v) =>
       /\ PartitionIndex(model, Said(v)) # 0 =>
            /\ PartitionIndex(model, Said(v)) \in DOMAIN model.intervals
            /\ In(v, model.intervals[PartitionIndex(model, Said(v))])
       /\ \A j \in DOMAIN model.intervals : In(v, model.intervals[j]) => PartitionIndex(model, Said(v)) = j
  /\ \A j \in DOMAIN model.intervals : ~ In(NaN, model.intervals[j])

\* The model of an axis sorts numbers as their bins (buildAxisModel, partitionIndex).
LEMMA ModelSorts ==
  ASSUME NEW spec, NEW ext, Given(spec, ext)
  PROVE  Sorts(AxisModel(spec, ext))
<1> DEFINE model == AxisModel(spec, ext)
<1>1. PICK F, last : AxisFine(model, F, last, spec, ext)
  BY AxisModelFine
<1>2. F \in SUBSET Bins /\ last \in Bins /\ model.intervals \in Seq(Intervals(F, last))
  BY <1>1 DEF AxisFine, InnerBounds
<1>3. \A v : IsNumber(v) =>
       /\ PartitionIndex(model, Said(v)) # 0 =>
            /\ PartitionIndex(model, Said(v)) \in DOMAIN model.intervals
            /\ In(v, model.intervals[PartitionIndex(model, Said(v))])
       /\ \A j \in DOMAIN model.intervals : In(v, model.intervals[j]) => PartitionIndex(model, Said(v)) = j
  BY IndexIs
<1> HIDE DEF model
<1>4. Len(model.intervals) \in Nat /\ DOMAIN model.intervals = 1 .. Len(model.intervals)
  BY <1>2, LenProperties
<1>5. ASSUME NEW p \in Intervals(F, last)
      PROVE  ~ In(NaN, p)
  <2>1. NaN \in Int /\ NaN > High /\ High \in Int /\ Low \in Int /\ Low < 0 /\ 0 < High
    BY GridAssumption, TableIs
  <2>2. CASE p \in Pieces(F, last)
    <3>1. PICK a \in Bins, c \in Bins : Spans(p, a, c)
      BY <1>2, <2>2, PiecesSpan
    <3>2. p.upper \in Int /\ p.upper <= High
      BY <3>1, SpanEnds
    <3> QED
      BY <2>1, <3>2 DEF In
  <2>3. CASE p \in {NegPart, PosPart, ZeroPart}
    BY <2>1, <2>3, PointPartsAre DEF In
  <2> QED
    BY <2>2, <2>3 DEF Intervals
<1>6. \A j \in DOMAIN model.intervals : ~ In(NaN, model.intervals[j])
  BY <1>2, <1>5
<1> QED
  BY <1>3, <1>4, <1>6 DEF Sorts, model

\* The shape of a grid that has cells, and how many.
Shaped(shape, product) ==
  /\ shape \in [1 .. Dims -> Nat \ {0}]
  /\ product \in [0 .. Dims -> Nat] /\ Products(product, shape, Dims)

\* A number below the product of its bases is spelt by its digits.
LEMMA SpeltBack ==
  ASSUME NEW m \in Nat, NEW shape \in [1 .. m -> Nat \ {0}],
         NEW product \in [0 .. m -> Nat], Products(product, shape, m), NEW row \in 0 .. product[m] - 1
  PROVE  Numeral(shape, Digits(shape, row)) = row
BY NumeralOfDigits

\* The place of a row, and the row of a place.
LEMMA PlaceIs ==
  ASSUME NEW shape, NEW product, Shaped(shape, product), NEW row \in 0 .. product[Dims] - 1
  PROVE  /\ \A d \in Axes : RowPlace(shape, row)[d] \in 1 .. shape[d]
         /\ \A cell : (\A d \in Axes : cell[d] = RowPlace(shape, row)[d]) => RowIndex(shape, cell) = row
<1>1. Dims \in Nat /\ Axes = 1 .. Dims
  BY AxesAre
<1> DEFINE p == Digits(shape, row)
<1>2. /\ p \in [1 .. Dims -> Nat] /\ Numeral(shape, p) = row
      /\ \A d \in 1 .. Dims : p[d] < shape[d]
  <2>1. /\ shape \in [1 .. Dims -> Nat \ {0}] /\ product \in [0 .. Dims -> Nat]
        /\ Products(product, shape, Dims)
    BY DEF Shaped
  <2> HIDE DEF p
  <2>2. Digits(shape, row) \in [1 .. Dims -> Nat]
    BY <1>1, <2>1, NumeralOfDigits
  <2>3. ASSUME NEW d \in 1 .. Dims
        PROVE  Digits(shape, row)[d] < shape[d]
    BY <1>1, <2>1, NumeralOfDigits
  <2>4. Numeral(shape, Digits(shape, row)) = row
    BY <1>1, <2>1, SpeltBack
  <2> QED
    BY <2>2, <2>3, <2>4 DEF p
<1>3. RowPlace(shape, row) = [d \in Axes |-> p[d] + 1]
  BY DEF RowPlace
<1> HIDE DEF p
<1>4. ASSUME NEW d \in Axes
      PROVE  RowPlace(shape, row)[d] \in 1 .. shape[d]
  <2>1. p[d] \in Nat /\ p[d] < shape[d] /\ shape[d] \in Nat
    BY <1>1, <1>2 DEF Shaped
  <2> QED
    BY <1>3, <2>1
<1>5. ASSUME NEW cell, \A d \in Axes : cell[d] = RowPlace(shape, row)[d]
      PROVE  RowIndex(shape, cell) = row
  <2>1. [d \in Axes |-> cell[d] - 1] = [d \in 1 .. Dims |-> p[d]]
    <3>1. \A d \in Axes : cell[d] - 1 = p[d]
      <4> TAKE d \in Axes
      <4>1. cell[d] = p[d] + 1 /\ p[d] \in Nat
        BY <1>1, <1>2, <1>3, <1>5
      <4> QED
        BY <4>1
    <3> QED
      BY <1>1, <3>1
  <2>2. [d \in Axes |-> cell[d] - 1] = p
    BY <1>2, <2>1
  <2> QED
    BY <1>2, <2>2 DEF RowIndex
<1> QED
  BY <1>4, <1>5

\* The place of a row is the cell it was numbered from (materializeRows).
LEMMA RowIs ==
  ASSUME NEW shape, NEW product, Shaped(shape, product), NEW cell, \A d \in Axes : cell[d] \in 1 .. shape[d]
  PROVE  \A d \in Axes : RowPlace(shape, RowIndex(shape, cell))[d] = cell[d]
<1>1. Dims \in Nat /\ Axes = 1 .. Dims
  BY AxesAre
<1> DEFINE p == [d \in Axes |-> cell[d] - 1]
<1>2. shape \in [1 .. Dims -> Nat \ {0}]
  BY DEF Shaped
<1>3. \A d \in Axes : shape[d] \in Nat /\ cell[d] \in Nat /\ cell[d] - 1 \in Nat /\ cell[d] - 1 < shape[d]
  BY <1>1, <1>2
<1>4. p \in [1 .. Dims -> Nat] /\ \A d \in 1 .. Dims : p[d] < shape[d]
  BY <1>1, <1>3
<1>5. \A d \in Axes : p[d] = cell[d] - 1
  OBVIOUS
<1>6. RowIndex(shape, cell) = Numeral(shape, p)
  BY DEF RowIndex
<1> HIDE DEF p
<1>7. Digits(shape, Numeral(shape, p)) = p
  BY <1>1, <1>2, <1>4, DigitsOfNumeral
<1>8. RowPlace(shape, RowIndex(shape, cell)) = [d \in Axes |-> p[d] + 1]
  BY <1>6, <1>7 DEF RowPlace
<1> QED
  BY <1>3, <1>5, <1>8

\* The cells with one more axis.
LEMMA AxisAdds ==
  ASSUME NEW cells \in Nat \cup {-1}, NEW n \in Nat \ {0}, NEW maxCells \in Nat
  PROVE  /\ WithAxis(cells, n, maxCells) \in Nat \cup {-1}
         /\ WithAxis(cells, n, maxCells) # -1 => cells \in Nat /\ WithAxis(cells, n, maxCells) = cells * n
<1>1. PICK q \in Nat : maxCells \div n = q
  BY QuotientIs
<1>2. WithAxis(cells, n, maxCells) = IF cells = -1 THEN -1 ELSE IF cells > q THEN -1 ELSE cells * n
  <2>1. n # 0
    OBVIOUS
  <2>2. CASE cells = -1
    <3>1. ~ (cells > q)
      BY <1>1, <2>2
    <3> QED
      BY <1>1, <2>1, <2>2, <3>1 DEF WithAxis
  <2>3. CASE cells # -1
    BY <1>1, <2>1, <2>3 DEF WithAxis
  <2> QED
    BY <2>2, <2>3
<1>3. cells # -1 => cells \in Nat /\ cells * n \in Nat
  BY ProductOfNaturals
<1> QED
  BY <1>2, <1>3

\* The cells of a grid that has some are the product of its shape.
LEMMA CellsAre ==
  ASSUME NEW m \in Nat, NEW shape \in [1 .. m -> Nat \ {0}], NEW maxCells \in Nat, Cells(shape, maxCells) # -1
  PROVE  \E product \in [0 .. m -> Nat] : Products(product, shape, m) /\ Cells(shape, maxCells) = product[m]
<1> DEFINE S == Nat \cup {-1}
           step == [k \in 1 .. m |-> [x \in S |-> WithAxis(x, shape[k], maxCells)]]
           Eq(p) == p = [d \in 0 .. m |-> IF d = 0 THEN 1 ELSE WithAxis(p[d - 1], shape[d], maxCells)]
           p == CHOOSE f : Eq(f)
<1>0. Len(shape) = m
  <2>1. shape \in Seq(Nat \ {0})
    OBVIOUS
  <2> QED
    BY <2>1
<1>1. step \in [1 .. m -> [S -> S]]
  BY AxisAdds
<1>2. PICK g \in [0 .. m -> S] : Follows(g, step, m, 1)
  <2>1. 1 \in S
    OBVIOUS
  <2> HIDE DEF step, S
  <2> QED
    BY <1>1, <2>1, Recursion
<1>3. Eq(g)
  <2>1. g = [k \in 0 .. m |-> g[k]]
    OBVIOUS
  <2>2. ASSUME NEW k \in 0 .. m
        PROVE  g[k] = IF k = 0 THEN 1 ELSE WithAxis(g[k - 1], shape[k], maxCells)
    <3>1. CASE k = 0
      BY <1>2, <3>1 DEF Follows
    <3>2. CASE k # 0
      <4>1. k \in 1 .. m /\ k - 1 \in 0 .. m /\ g[k - 1] \in S
        BY <3>2
      <4>2. g[k] = step[k][g[k - 1]]
        <5> HIDE DEF step, S
        <5> QED
          BY <1>2, <4>1 DEF Follows
      <4>3. step[k][g[k - 1]] = WithAxis(g[k - 1], shape[k], maxCells)
        BY <4>1
      <4> QED
        BY <3>2, <4>2, <4>3
    <3> QED
      BY <3>1, <3>2
  <2> QED
    BY <2>1, <2>2, Zenon
<1>4. Eq(p)
  BY <1>3
<1>5. Cells(shape, maxCells) = p[m]
  BY <1>0 DEF Cells
<1> HIDE DEF p
<1>6. p = [k \in 0 .. m |-> p[k]] /\ p[0] = 1 /\ \A k \in 1 .. m : p[k] = WithAxis(p[k - 1], shape[k], maxCells)
  <2>1. \A k \in 0 .. m : p[k] = IF k = 0 THEN 1 ELSE WithAxis(p[k - 1], shape[k], maxCells)
    BY <1>4, Zenon
  <2>2. p = [k \in 0 .. m |-> p[k]]
    BY <1>4, Zenon
  <2>3. 0 \in 0 .. m /\ \A k \in 1 .. m : k \in 0 .. m /\ k # 0
    OBVIOUS
  <2> QED
    BY <2>1, <2>2, <2>3, Zenon
<1> DEFINE Good == {k \in 0 .. m : p[k] \in S}
<1>7. \A k \in 0 .. m : k \in Good
  <2>1. 0 \in Good
    BY <1>6
  <2>2. ASSUME NEW k \in 1 .. m, k - 1 \in Good
        PROVE  k \in Good
    <3>1. p[k - 1] \in S
      BY <2>2
    <3>2. p[k] \in S
      <4>1. p[k] = WithAxis(p[k - 1], shape[k], maxCells) /\ shape[k] \in Nat \ {0}
        BY <1>6
      <4> QED
        BY <3>1, <4>1, AxisAdds
    <3> QED
      BY <3>2
  <2> HIDE DEF Good
  <2> QED
    BY <2>1, <2>2, CountingUp
<1>8. ASSUME NEW k \in 1 .. m, p[k] # -1
      PROVE  p[k - 1] # -1 /\ p[k] = p[k - 1] * shape[k]
  <2>1. k - 1 \in 0 .. m /\ p[k - 1] \in S
    BY <1>7
  <2>2. p[k] = WithAxis(p[k - 1], shape[k], maxCells) /\ shape[k] \in Nat \ {0}
    BY <1>6
  <2>3. p[k - 1] \in Nat /\ p[k] = p[k - 1] * shape[k]
    BY <1>8, <2>1, <2>2, AxisAdds
  <2> QED
    BY <2>3
<1> DEFINE Kept == {k \in 0 .. m : p[k] # -1}
<1>9. \A k \in 0 .. m : k \in Kept
  <2>1. m \in Kept
    BY <1>5
  <2>2. \A k \in 1 .. m : k \in Kept => k - 1 \in Kept
    BY <1>8
  <2> HIDE DEF Kept
  <2> QED
    BY <2>1, <2>2, CountingDown
<1>10. \A k \in 0 .. m : p[k] \in Nat
  BY <1>7, <1>9
<1>11. p \in [0 .. m -> Nat]
  BY <1>6, <1>10
<1>12. Products(p, shape, m)
  <2>1. \A k \in 1 .. m : p[k] # -1
    BY <1>9
  <2> QED
    BY <1>6, <1>8, <2>1 DEF Products
<1> QED
  BY <1>5, <1>11, <1>12

\* What a grid adds up to in a row.
CellOf(ms, q) == [d \in Axes |-> PartitionIndex(ms[d], AxisBins(q)[d])]
InRow(ms, q, row) == /\ \A d \in Axes : CellOf(ms, q)[d] # 0
                     /\ RowIndex(Shape(ms), CellOf(ms, q)) = row
RowCount(ms, row) == SumFunctionOnSet(trie, {q \in Visited : InRow(ms, q, row)})
CellsOf(t)        == Cells(Shape(models[t]), ask[t].maxCells)
CountsOf(t)       == [row \in 0 .. CellsOf(t) - 1 |-> RowCount(models[t], row)]

\* Counting gives each row the leaves that fall in it (bucketCb).
LEMMA CountsAre ==
  ASSUME NEW t \in Threads, CountRecords(t)
  PROVE  counts' = [counts EXCEPT ![t] = CountsOf(t)]
<1> DEFINE ms    == models[t]
           shape == Shape(ms)
           cell  == [q \in Visited |-> LET ax == AxisBins(q) IN [d \in Axes |-> PartitionIndex(ms[d], ax[d])]]
           inside == {q \in Visited : \A d \in Axes : cell[q][d] # 0}
<1>1. counts' = [counts EXCEPT ![t] =
                   [row \in 0 .. Cells(shape, ask[t].maxCells) - 1 |->
                      SumFunctionOnSet(trie, {q \in inside : RowIndex(shape, cell[q]) = row})]]
  BY DEF CountRecords
<1>2. \A q \in Visited : cell[q] = CellOf(ms, q)
  BY DEF CellOf
<1>3. ASSUME NEW row
      PROVE  {q \in inside : RowIndex(shape, cell[q]) = row} = {q \in Visited : InRow(ms, q, row)}
  <2> HIDE DEF cell, ms
  <2> QED
    BY <1>2 DEF InRow
<1>4. \A row : SumFunctionOnSet(trie, {q \in inside : RowIndex(shape, cell[q]) = row}) = RowCount(ms, row)
  <2> HIDE DEF cell, ms, inside, shape
  <2> QED
    BY <1>3 DEF RowCount
<1> HIDE DEF inside, cell
<1> QED
  BY <1>1, <1>4 DEF CountsOf, CellsOf

\* The axes of a grid, its shape and its rows.
Gridded(ms, product) ==
  /\ ms = [d \in Axes |-> ms[d]] /\ \A d \in Axes : Sorts(ms[d])
  /\ Shaped(Shape(ms), product)

InPlace(pt, ms, place) == \A d \in Axes : In(pt[d], ms[d].intervals[place[d]])

\* A record without NaN is counted in the row of the intervals that its numbers are in.
LEMMA RowOfPoint ==
  ASSUME NEW ms, NEW product, Gridded(ms, product), NEW row \in 0 .. product[Dims] - 1,
         NEW pt \in Points, NoNaN(pt)
  PROVE  InRow(ms, Path(pt), row) <=> InPlace(pt, ms, RowPlace(Shape(ms), row))
<1> DEFINE shape == Shape(ms)
           place == RowPlace(shape, row)
           q     == Path(pt)
           cell  == CellOf(ms, q)
<1>1. Shaped(shape, product) /\ \A d \in Axes : Sorts(ms[d])
  BY DEF Gridded
<1>2. \A d \in Axes : shape[d] = Len(ms[d].intervals)
  BY DEF Shape
<1>3. \A d \in Axes : IsNumber(pt[d])
  BY PointNumber DEF NoNaN
<1>4. \A d \in Axes : AxisBins(q)[d] = Said(pt[d])
  BY Decoded DEF NoNaN
<1>5. \A d \in Axes : cell[d] = PartitionIndex(ms[d], Said(pt[d]))
  BY <1>4 DEF CellOf
<1>6. /\ \A d \in Axes : place[d] \in 1 .. shape[d]
      /\ \A c : (\A d \in Axes : c[d] = place[d]) => RowIndex(shape, c) = row
  BY <1>1, PlaceIs
<1> HIDE DEF shape, place, q, cell
<1>7. ASSUME NEW d \in Axes
      PROVE  /\ cell[d] # 0 => cell[d] \in 1 .. shape[d] /\ In(pt[d], ms[d].intervals[cell[d]])
             /\ In(pt[d], ms[d].intervals[place[d]]) => cell[d] = place[d] /\ cell[d] # 0
  <2>1. /\ DOMAIN ms[d].intervals = 1 .. shape[d]
        /\ PartitionIndex(ms[d], Said(pt[d])) # 0 =>
             /\ PartitionIndex(ms[d], Said(pt[d])) \in DOMAIN ms[d].intervals
             /\ In(pt[d], ms[d].intervals[PartitionIndex(ms[d], Said(pt[d]))])
        /\ \A j \in DOMAIN ms[d].intervals : In(pt[d], ms[d].intervals[j]) => PartitionIndex(ms[d], Said(pt[d])) = j
    BY <1>1, <1>2, <1>3 DEF Sorts
  <2>2. place[d] \in DOMAIN ms[d].intervals /\ place[d] # 0
    BY <1>6, <2>1
  <2> QED
    BY <1>5, <2>1, <2>2
<1>8. ASSUME \A d \in Axes : cell[d] # 0, RowIndex(shape, cell) = row
      PROVE  \A d \in Axes : In(pt[d], ms[d].intervals[place[d]])
  <2>1. \A d \in Axes : cell[d] \in 1 .. shape[d] /\ In(pt[d], ms[d].intervals[cell[d]])
    BY <1>7, <1>8
  <2>2. \A d \in Axes : RowPlace(shape, RowIndex(shape, cell))[d] = cell[d]
    BY <1>1, <2>1, RowIs
  <2>3. \A d \in Axes : place[d] = cell[d]
    BY <1>8, <2>2 DEF place
  <2> QED
    BY <2>1, <2>3
<1>9. ASSUME \A d \in Axes : In(pt[d], ms[d].intervals[place[d]])
      PROVE  (\A d \in Axes : cell[d] # 0) /\ RowIndex(shape, cell) = row
  <2>1. \A d \in Axes : cell[d] = place[d] /\ cell[d] # 0
    BY <1>7, <1>9
  <2> QED
    BY <1>6, <2>1
<1>10. InRow(ms, q, row) <=> ((\A d \in Axes : cell[d] # 0) /\ RowIndex(shape, cell) = row)
  BY DEF InRow, cell, shape
<1>11. InPlace(pt, ms, place) <=> \A d \in Axes : In(pt[d], ms[d].intervals[place[d]])
  BY DEF InPlace
<1>12. InRow(ms, q, row) <=> InPlace(pt, ms, place)
  BY <1>8, <1>9, <1>10, <1>11
<1> QED
  BY <1>12 DEF q, place, shape

\* A point with a NaN is in no row.
LEMMA NaNOutside ==
  ASSUME NEW ms, NEW product, Gridded(ms, product), NEW row \in 0 .. product[Dims] - 1,
         NEW pt \in Points, ~ NoNaN(pt)
  PROVE  ~ InPlace(pt, ms, RowPlace(Shape(ms), row))
<1>1. PICK d \in Axes : pt[d] = NaN
  BY DEF NoNaN
<1>2. Shaped(Shape(ms), product) /\ Sorts(ms[d])
  BY DEF Gridded
<1>3. RowPlace(Shape(ms), row)[d] \in 1 .. Shape(ms)[d]
  BY <1>2, PlaceIs
<1>4. Shape(ms)[d] = Len(ms[d].intervals)
  BY DEF Shape
<1> DEFINE j == RowPlace(Shape(ms), row)[d]
<1>5. j \in DOMAIN ms[d].intervals
  BY <1>2, <1>3, <1>4 DEF Sorts
<1> HIDE DEF j
<1>6. ~ In(NaN, ms[d].intervals[j])
  BY <1>2, <1>5 DEF Sorts
<1> QED
  BY <1>1, <1>6 DEF InPlace, j

\* What a row counts.
LEMMA RowCounted ==
  ASSUME points \in Seq(Points), trie = TrieOf(points),
         NEW ms, NEW product, Gridded(ms, product), NEW row \in 0 .. product[Dims] - 1
  PROVE  RowCount(ms, row) = Cardinality({k \in DOMAIN points : InPlace(points[k], ms, RowPlace(Shape(ms), row))})
<1> DEFINE place == RowPlace(Shape(ms), row)
           K == {k \in DOMAIN points : InPlace(points[k], ms, place)}
           Q == {q \in Visited : InRow(ms, q, row)}
           h == [k \in DOMAIN points |-> Path(points[k])]
<1>1. /\ \A k \in DOMAIN points : Path(points[k]) \in Visited <=> NoNaN(points[k])
      /\ \A q \in Visited : \E k \in DOMAIN points : q = Path(points[k])
  BY VisitedAre
<1>2. ASSUME NEW k \in DOMAIN points
      PROVE  k \in K <=> h[k] \in Q
  <2> DEFINE pt == points[k]
  <2>1. pt \in Points
    OBVIOUS
  <2>2. CASE NoNaN(pt)
    <3>1. InRow(ms, Path(pt), row) <=> InPlace(pt, ms, place)
      BY <2>1, <2>2, RowOfPoint
    <3>2. Path(pt) \in Visited
      BY <1>1, <2>2
    <3> QED
      BY <3>1, <3>2
  <2>3. CASE ~ NoNaN(pt)
    <3>1. ~ InPlace(pt, ms, place)
      BY <2>1, <2>3, NaNOutside
    <3>2. Path(pt) \notin Visited
      BY <1>1, <2>3
    <3> QED
      BY <3>1, <3>2
  <2> QED
    BY <2>2, <2>3
<1>3. IsFiniteSet(DOMAIN points)
  <2>1. DOMAIN points = 1 .. Len(points) /\ Len(points) \in Nat
    BY LenProperties
  <2> QED
    BY <2>1, FS_Interval
<1>4. K \in SUBSET DOMAIN points /\ IsFiniteSet(K)
  BY <1>3, FS_Subset
<1>5. ASSUME NEW q \in Q
      PROVE  trie[q] = Cardinality(ClassOf(K, h, q))
  <2>1. q \in Visited /\ q \in {Path(points[k]) : k \in DOMAIN points}
    BY <1>1
  <2>2. trie[q] = Cardinality({k \in DOMAIN points : Path(points[k]) = q})
    BY <2>1 DEF TrieOf
  <2>3. {k \in DOMAIN points : Path(points[k]) = q} = {k \in K : h[k] = q}
    <3>1. \A k \in DOMAIN points : h[k] = Path(points[k])
      OBVIOUS
    <3> HIDE DEF h, Q, K
    <3> QED
      BY <1>2, <1>4, <3>1
  <2> HIDE DEF h, K, Q
  <2> QED
    BY <2>2, <2>3 DEF ClassOf
<1>6. IsFiniteSet(Q)
  <2>1. IsFiniteSet({h[k] : k \in DOMAIN points})
    <3> HIDE DEF h
    <3> QED
      BY <1>3, ImageFinite
  <2>2. Q \subseteq {h[k] : k \in DOMAIN points}
    BY <1>1
  <2> HIDE DEF Q, h
  <2> QED
    BY <2>1, <2>2, FS_Subset
<1>7. \A k \in K : h[k] \in Q
  <2> HIDE DEF h, Q
  <2> QED
    BY <1>2, <1>4
<1> HIDE DEF K, Q, h
<1>8. SumFunctionOnSet(trie, Q) = Cardinality(K)
  BY <1>4, <1>5, <1>6, <1>7, CountedByClassOf
<1> QED
  BY <1>8 DEF RowCount, Q, K

-----------------------------------------------------------------------------
(* The extent is shared safely.                                            *)

\* NoRace is inductive but for the type of pc.
RaceInv == pc \in [Threads -> Places] /\ NoRace

\* It holds at the start.
LEMMA Start == Init => RaceInv
BY DEF Init, RaceInv, NoRace, Places

\* A thread that goes elsewhere than to walk or to build its axes, from elsewhere than
\* the walk, disturbs nothing.
LEMMA MovesAside ==
  ASSUME RaceInv, NEW t \in Threads, NEW p \in Places \ {"walk", "models"},
         pc[t] # "walk", pc' = [pc EXCEPT ![t] = p], UNCHANGED <<once, ask>>
  PROVE  RaceInv'
BY DEF RaceInv, NoRace, NeedsExtent, Places

\* Checking a request keeps it.
LEMMA RequestChecked ==
  ASSUME RaceInv, NEW t \in Threads, CheckRequest(t)
  PROVE  RaceInv'
<1>1. pc[t] # "walk" /\ UNCHANGED <<once, ask>>
  BY DEF CheckRequest
<1>2. CASE pc' = [pc EXCEPT ![t] = "models"] /\ ~ NeedsExtent(t)
  BY <1>1, <1>2 DEF RaceInv, NoRace, NeedsExtent, Places
<1>3. CASE \E p \in {"invalid", "extent"} : pc' = [pc EXCEPT ![t] = p]
  BY <1>1, <1>3, MovesAside DEF Places
<1> QED
  BY <1>2, <1>3 DEF CheckRequest

\* Beginning the walk keeps it: no other thread walks.
LEMMA WalkBegun ==
  ASSUME RaceInv, NEW t \in Threads, BeginWalk(t)
  PROVE  RaceInv'
<1>1. \A u \in Threads : pc[u] # "walk"
  BY DEF BeginWalk, RaceInv, NoRace
<1>2. \A u \in Threads : pc'[u] = "walk" <=> u = t
  BY <1>1 DEF BeginWalk, RaceInv, Places
<1>3. \A u \in Threads : ~ (pc'[u] = "models" /\ NeedsExtent(u)')
  BY DEF BeginWalk, RaceInv, NoRace, NeedsExtent, Places
<1> QED
  BY <1>2, <1>3 DEF BeginWalk, RaceInv, NoRace, Places

\* Ending the walk keeps it: no thread walks any more.
LEMMA WalkEnded ==
  ASSUME RaceInv, NEW t \in Threads, EndWalk(t)
  PROVE  RaceInv'
<1>1. \A u \in Threads : pc'[u] # "walk"
  BY DEF EndWalk, RaceInv, NoRace, Places
<1> QED
  BY <1>1 DEF EndWalk, RaceInv, NoRace, Places

\* A thread that comes after the walk keeps it.
LEMMA WalkPassed ==
  ASSUME RaceInv, NEW t \in Threads, PassOnce(t)
  PROVE  RaceInv'
BY DEF PassOnce, RaceInv, NoRace, NeedsExtent, Places

\* Building the axes keeps it.
LEMMA ModelsBuilt ==
  ASSUME RaceInv, NEW t \in Threads, BuildModels(t)
  PROVE  RaceInv'
<1>1. pc[t] # "walk" /\ UNCHANGED <<once, ask>>
  BY DEF BuildModels
<1>2. \E p \in {"invalid", "exceeds", "done", "count"} : pc' = [pc EXCEPT ![t] = p]
  BY DEF BuildModels
<1> QED
  BY <1>1, <1>2, MovesAside DEF Places

\* Every step keeps it.
LEMMA RaceKept ==
  ASSUME RaceInv, [Next]_vars
  PROVE  RaceInv'
<1>1. CASE UNCHANGED vars
  BY <1>1 DEF vars, RaceInv, NoRace, NeedsExtent
<1>2. ASSUME NEW t \in Threads, Step(t) PROVE RaceInv'
  <2>1. CASE CheckRequest(t)
    BY <2>1, RequestChecked
  <2>2. CASE BeginWalk(t)
    BY <2>2, WalkBegun
  <2>3. CASE VisitRecord(t)
    BY <2>3 DEF VisitRecord, RaceInv, NoRace, NeedsExtent
  <2>4. CASE EndWalk(t)
    BY <2>4, WalkEnded
  <2>5. CASE PassOnce(t)
    BY <2>5, WalkPassed
  <2>6. CASE BuildModels(t)
    BY <2>6, ModelsBuilt
  <2>7. CASE CountRecords(t)
    BY <2>7, MovesAside DEF CountRecords, Places
  <2> QED
    BY <1>2, <2>1, <2>2, <2>3, <2>4, <2>5, <2>6, <2>7 DEF Step
<1> QED
  BY <1>1, <1>2 DEF Next, Ended

(***************************************************************************)
(* NoRace (GridQuery.cpp:784-813, call_once): one walk at a time, and no   *)
(* axis is built from an extent that is still being found.                 *)
(***************************************************************************)
THEOREM ExtentUnraced == Spec => []NoRace
<1>1. Init => RaceInv
  BY Start
<1>2. RaceInv /\ [Next]_vars => RaceInv'
  BY RaceKept
<1>3. RaceInv => NoRace
  BY DEF RaceInv
<1> QED
  BY <1>1, <1>2, <1>3, PTL DEF Spec

-----------------------------------------------------------------------------
(* What holds of every state.                                              *)

\* The elements of a finite set in some order are all there.
LEMMA SetInOrder ==
  ASSUME NEW S, IsFiniteSet(S)
  PROVE  SetToSeq(S) \in Seq(S) /\ Range(SetToSeq(S)) = S
<1> DEFINE n == Cardinality(S)
           f == SetToSeq(S)
<1>1. n \in Nat /\ ExistsBijection(1 .. n, S)
  BY FS_CardinalityType
<1>2. PICK g : g \in Bijection(1 .. n, S)
  BY <1>1 DEF ExistsBijection
<1>3. g \in [1 .. n -> S] /\ IsInjective(g)
  BY <1>2 DEF Bijection, Injection
<1>4. f \in [1 .. n -> S] /\ IsInjective(f)
  BY <1>3 DEF SetToSeq
<1>5. f \in Injection(1 .. n, S)
  BY <1>4 DEF Injection
<1>6. Cardinality(1 .. n) = n
  <2> HIDE DEF n
  <2>1. 1 \in Int /\ n \in Int /\ (1 > n => n = 0) /\ n - 1 + 1 = n
    BY <1>1
  <2> QED
    BY <2>1, FS_Interval
<1> HIDE DEF f, n
<1>7. f \in Surjection(1 .. n, S)
  BY <1>5, <1>6, FS_Injection DEF n
<1>8. Range(f) = S
  BY <1>4, <1>7 DEF Surjection, Range
<1>9. f \in Seq(S)
  BY <1>1, <1>4
<1> QED
  BY <1>8, <1>9 DEF f

SpecIs(spec) ==
  /\ spec.min \in Int /\ spec.max \in Int /\ Low <= spec.min /\ spec.max <= High /\ spec.min <= spec.max
  /\ spec.steps \in Nat \ {0} /\ spec.mult \in BOOLEAN

\* What is asked for by a request that is not refused at once.
LEMMA AskIs ==
  ASSUME NEW t \in Threads, NEW a \in Asks[t], ~ Malformed(a)
  PROVE  a.maxCells \in Nat /\ \A d \in Axes : SpecIs(a.axes[d])
<1>1. /\ a.maxCells \in Nat
      /\ a.axes \in Seq([min : Int, max : Int, steps : Nat, mult : BOOLEAN])
      /\ \A d \in DOMAIN a.axes : {a.axes[d].min, a.axes[d].max} \subseteq (Low .. High) \cup {NaN}
  BY AsksAssumption
<1>2. Len(a.axes) = Dims
  BY DEF Malformed
<1>3. DOMAIN a.axes = Axes
  BY <1>1, <1>2, LenProperties, AxesAre
<1>4. ASSUME NEW d \in Axes
      PROVE  SpecIs(a.axes[d])
  <2> DEFINE s == a.axes[d]
  <2>1. d \in DOMAIN a.axes
    BY <1>3
  <2>2. s \in [min : Int, max : Int, steps : Nat, mult : BOOLEAN]
    <3> DEFINE X == [min : Int, max : Int, steps : Nat, mult : BOOLEAN]
               axes == a.axes
    <3>1. axes \in Seq(X) /\ d \in DOMAIN axes
      BY <1>1, <2>1
    <3> HIDE DEF X, axes
    <3>2. axes[d] \in X
      BY <3>1
    <3> QED
      BY <3>2 DEF X, axes
  <2>3. {s.min, s.max} \subseteq (Low .. High) \cup {NaN}
    BY <1>1, <2>1
  <2>4. ~ (s.steps = 0 \/ s.min = NaN \/ s.max = NaN \/ s.min > s.max)
    BY <2>1 DEF Malformed
  <2> HIDE DEF s
  <2>5. s.min \in Low .. High /\ s.max \in Low .. High
    BY <2>3, <2>4
  <2>6. Low \in Int /\ High \in Int
    BY TableIs
  <2>7. SpecIs(s)
    BY <2>2, <2>4, <2>5, <2>6 DEF SpecIs
  <2> QED
    BY <2>7 DEF s
<1> QED
  BY <1>1, <1>4

ExtentOf(t, d) == IF Open(ask[t].axes[d]) THEN extent[d] ELSE NoExtent

\* A thread that has built its axes, from the whole extent if it needs one.
Built(t) ==
  /\ ~ Malformed(ask[t]) /\ (NeedsExtent(t) => once = "done")
  /\ models[t] = [d \in Axes |-> AxisModel(ask[t].axes[d], ExtentOf(t, d))]
  /\ \A d \in Axes : Scalable(ask[t].axes[d], ExtentOf(t, d))

HasCells(t) == CellsOf(t) # -1 /\ \A d \in Axes : Shape(models[t])[d] # 0

\* Where a thread is and what it has.
ThreadIs(t) ==
  /\ ask[t] \in Asks[t]
  /\ pc[t] \in {"extent", "walk", "models", "count", "done"} => ~ Malformed(ask[t])
  /\ models[t] = <<>> \/ Built(t)
  /\ pc[t] \in {"count", "done"} => Built(t)
  /\ pc[t] = "count" => HasCells(t)
  /\ counts[t] = <<>> \/ (pc[t] = "done" /\ HasCells(t) /\ counts[t] = CountsOf(t))

\* The extent is wide enough for a record.
Widened(q) ==
  \A d \in Axes : \/ AxisBins(q)[d].kind \in {"neginf", "posinf"}
                  \/ extent[d].min <= AxisBins(q)[d].value /\ AxisBins(q)[d].value <= extent[d].max

\* It is for every record that the walk has visited.
WalkIs ==
  /\ extent \in [Axes -> [min : Int, max : Int]]
  /\ once = "running" => walk \in Seq(Visited) /\ \A q \in Visited : q \in Range(walk) \/ Widened(q)
  /\ once = "done" => \A q \in Visited : Widened(q)

DataIs ==
  /\ points \in Seq(Points) /\ trie = TrieOf(points)
  /\ models = [t \in Threads |-> models[t]] /\ counts = [t \in Threads |-> counts[t]]

GridInv == RaceInv /\ DataIs /\ WalkIs /\ \A t \in Threads : ThreadIs(t)

\* No extent is a pair of numbers.
LEMMA NoExtentIs == NoExtent \in [min : Int, max : Int]
BY TableIs DEF NoExtent

\* The extent an axis is made with is a pair of numbers.
LEMMA ExtentIs ==
  ASSUME WalkIs, NEW t \in Threads, NEW d \in Axes
  PROVE  ExtentOf(t, d) \in [min : Int, max : Int]
BY NoExtentIs DEF WalkIs, ExtentOf

\* Each axis of a thread that has built its axes is made from what is given.
LEMMA BuiltGiven ==
  ASSUME WalkIs, NEW t \in Threads, ask[t] \in Asks[t], Built(t), NEW d \in Axes
  PROVE  /\ Given(ask[t].axes[d], ExtentOf(t, d))
         /\ models[t][d] = AxisModel(ask[t].axes[d], ExtentOf(t, d))
<1>1. SpecIs(ask[t].axes[d])
  BY AskIs DEF Built
<1>2. ExtentOf(t, d).min \in Int /\ ExtentOf(t, d).max \in Int
  BY ExtentIs
<1>3. Scalable(ask[t].axes[d], ExtentOf(t, d)) /\ models[t][d] = AxisModel(ask[t].axes[d], ExtentOf(t, d))
  BY DEF Built
<1> QED
  BY <1>1, <1>2, <1>3 DEF Given, SpecIs

\* There are finitely many records, each of a point without NaN, that says a number of
\* each axis.
LEMMA RecordIs ==
  ASSUME DataIs, NEW q \in Visited, NEW d \in Axes
  PROVE  \E k \in DOMAIN points :
           /\ q = Path(points[k]) /\ NoNaN(points[k]) /\ IsNumber(points[k][d])
           /\ AxisBins(q)[d] = Said(points[k][d])
<1>1. PICK k \in DOMAIN points : q = Path(points[k])
  BY VisitedAre DEF DataIs
<1>2. NoNaN(points[k]) /\ points[k] \in Points
  BY <1>1, VisitedAre DEF DataIs
<1> QED
  BY <1>1, <1>2, PointNumber, Decoded DEF NoNaN

\* What a leaf says of a number has a value, and is infinite only if the number is.
LEMMA SaidValue ==
  ASSUME NEW v, IsNumber(v)
  PROVE  /\ Said(v).value \in Int
         /\ v \in {Low, High} <=> Said(v).kind \in {"neginf", "posinf"}
<1>1. Low < 0 /\ 0 < High /\ Low \in Int /\ High \in Int
  BY TableIs
<1>2. CASE v \in {Low, High}
  BY <1>1, <1>2 DEF Said
<1>3. CASE v \notin {Low, High}
  <2>1. Said(v).value \in Int
    BY <1>3, ValueIs
  <2>2. Said(v).kind \in {"zero", "finite"}
    <3>1. CASE v = 0
      BY <1>1, <3>1 DEF Said
    <3>2. CASE v # 0
      BY <1>3, <3>2 DEF Said
    <3> QED
      BY <3>1, <3>2
  <2> QED
    BY <1>3, <2>1, <2>2
<1> QED
  BY <1>2, <1>3

\* There are finitely many leaves to visit.
LEMMA VisitedFinite ==
  ASSUME DataIs
  PROVE  IsFiniteSet(Visited)
<1> DEFINE h == [k \in DOMAIN points |-> Path(points[k])]
<1>1. DOMAIN points = 1 .. Len(points) /\ Len(points) \in Nat
  BY LenProperties DEF DataIs
<1>2. IsFiniteSet(DOMAIN points)
  BY <1>1, FS_Interval
<1>3. Visited \subseteq {h[k] : k \in DOMAIN points}
  BY VisitedAre DEF DataIs
<1> HIDE DEF h
<1>4. IsFiniteSet({h[k] : k \in DOMAIN points})
  BY <1>2, ImageFinite
<1> QED
  BY <1>3, <1>4, FS_Subset

\* So the intervals of every thread are parted as they should be.
LEMMA InvPartitioned ==
  ASSUME GridInv
  PROVE  Partitioned
<1> SUFFICES ASSUME NEW t \in Threads, NEW d \in DOMAIN models[t]
             PROVE  PartedAxis(models[t][d].intervals, ask[t].axes[d])
  BY PartitionedIs
<1>1. WalkIs /\ ask[t] \in Asks[t] /\ (models[t] = <<>> \/ Built(t))
  BY DEF GridInv, ThreadIs
<1>2. Built(t)
  BY <1>1
<1>3. d \in Axes
  BY <1>2 DEF Built
<1> DEFINE spec == ask[t].axes[d]
           ext == ExtentOf(t, d)
<1>4. Given(spec, ext) /\ models[t][d] = AxisModel(spec, ext)
  BY <1>1, <1>2, <1>3, BuiltGiven
<1> HIDE DEF ext
<1>5. PartedAxis(AxisModel(spec, ext).intervals, spec)
  BY <1>4, AxisPartitioned DEF PartedAxis
<1> QED
  BY <1>4, <1>5

\* A thread's grid of cells.
LEMMA GridHas ==
  ASSUME WalkIs, NEW t \in Threads, ask[t] \in Asks[t], Built(t), HasCells(t)
  PROVE  \E product : Gridded(models[t], product) /\ CellsOf(t) = product[Dims]
<1> DEFINE ms == models[t]
           shape == Shape(ms)
<1>1. ask[t].maxCells \in Nat /\ Dims \in Nat /\ Axes = 1 .. Dims
  BY AskIs, AxesAre DEF Built
<1>2. ASSUME NEW d \in Axes
      PROVE  Sorts(ms[d])
  BY <1>2, BuiltGiven, ModelSorts
<1>3. ms = [d \in Axes |-> ms[d]]
  BY DEF Built
<1>4. shape \in [1 .. Dims -> Nat \ {0}]
  <2>1. \A d \in Axes : Len(ms[d].intervals) \in Nat /\ Len(ms[d].intervals) # 0
    <3> TAKE d \in Axes
    <3>1. Len(ms[d].intervals) \in Nat
      BY <1>2 DEF Sorts
    <3>2. shape[d] = Len(ms[d].intervals) /\ shape[d] # 0
      BY DEF Shape, HasCells
    <3> QED
      BY <3>1, <3>2
  <2> QED
    BY <1>1, <2>1 DEF Shape
<1>5. Cells(shape, ask[t].maxCells) # -1 /\ CellsOf(t) = Cells(shape, ask[t].maxCells)
  BY DEF HasCells, CellsOf
<1> HIDE DEF ms
<1>6. PICK product \in [0 .. Dims -> Nat] :
        Products(product, shape, Dims) /\ Cells(shape, ask[t].maxCells) = product[Dims]
  BY <1>1, <1>4, <1>5, CellsAre
<1>7. Gridded(ms, product)
  BY <1>2, <1>3, <1>4, <1>6 DEF Gridded, Shaped
<1> QED
  BY <1>5, <1>6, <1>7 DEF ms

\* So each row counts the points that lie where it says.
LEMMA InvRowsExact ==
  ASSUME GridInv
  PROVE  RowsExact
<1> SUFFICES ASSUME NEW t \in Threads, pc[t] = "done", NEW row \in DOMAIN counts[t]
             PROVE  counts[t][row] =
                      Cardinality({k \in DOMAIN points : InPlace(points[k], models[t], RowPlace(Shape(models[t]), row))})
  BY DEF RowsExact, InPlace
<1>1. /\ WalkIs /\ ask[t] \in Asks[t] /\ Built(t)
      /\ counts[t] = <<>> \/ (HasCells(t) /\ counts[t] = CountsOf(t))
      /\ points \in Seq(Points) /\ trie = TrieOf(points)
  BY DEF GridInv, ThreadIs, DataIs
<1>2. HasCells(t) /\ counts[t] = CountsOf(t)
  BY <1>1
<1>3. row \in 0 .. CellsOf(t) - 1 /\ counts[t][row] = RowCount(models[t], row)
  BY <1>2 DEF CountsOf
<1>4. PICK product : Gridded(models[t], product) /\ CellsOf(t) = product[Dims]
  BY <1>1, <1>2, GridHas
<1> QED
  BY <1>1, <1>3, <1>4, RowCounted

\* A number is in one bin.
LEMMA HeldOnce ==
  ASSUME NEW i \in Bins, NEW j \in Bins, NEW v \in Int, Holds(i, v), Holds(j, v)
  PROVE  i = j /\ v # 0
<1>1. i \in Int /\ j \in Int /\ Labels[i] \in Int /\ Labels[j] \in Int
  BY TableIs
<1> QED
  BY <1>1 DEF Holds

\* So a point in the ranges is in the intervals of a row.
LEMMA LabelCovered ==
  ASSUME DataIs, WalkIs, once = "done", NEW d \in Axes, NEW spec, LabelWithin(spec, d)
  PROVE  \E u : /\ IsNumber(u) /\ u \notin {Low, High} /\ Covers(extent[d], u)
                /\ spec.min <= Said(u).value /\ Said(u).value <= spec.max
<1>1. PICK k \in DOMAIN points :
        /\ \A e \in Axes : points[k][e] # NaN
        /\ \/ points[k][d] = 0 /\ spec.min <= 0 /\ 0 <= spec.max
           \/ /\ points[k][d] \notin {Low, High}
              /\ \E i \in Bins : Holds(i, points[k][d]) /\ spec.min <= Labels[i] /\ Labels[i] <= spec.max
  BY DEF LabelWithin
<1> DEFINE pt == points[k]
           u == pt[d]
<1>2. pt \in Points /\ NoNaN(pt)
  BY <1>1 DEF DataIs, NoNaN
<1>3. IsNumber(u) /\ Path(pt) \in Visited /\ AxisBins(Path(pt))[d] = Said(u)
  BY <1>2, PointNumber, VisitedAre, Decoded DEF NoNaN, DataIs
<1>4. Widened(Path(pt))
  BY <1>3 DEF WalkIs
<1>5. u \in Int /\ u # NaN
  BY <1>2, NumberIs DEF NoNaN
<1>6. u \notin {Low, High} /\ spec.min <= Said(u).value /\ Said(u).value <= spec.max
  <2>1. CASE u = 0 /\ spec.min <= 0 /\ 0 <= spec.max
    <3>1. u \notin {Low, High}
      BY <2>1, TableIs
    <3>2. Said(u).value = 0
      BY <1>3, <2>1, <3>1, ValueIs
    <3> QED
      BY <2>1, <3>1, <3>2
  <2>2. CASE /\ u \notin {Low, High}
             /\ \E i \in Bins : Holds(i, u) /\ spec.min <= Labels[i] /\ Labels[i] <= spec.max
    <3>1. PICK i \in Bins : Holds(i, u) /\ spec.min <= Labels[i] /\ Labels[i] <= spec.max
      BY <2>2
    <3>2. u # 0
      BY <1>5, <3>1, HeldOnce
    <3>3. Ordinary(u)
      BY <1>5, <2>2, <3>2 DEF Ordinary
    <3>4. BinOf(u) \in Bins /\ Holds(BinOf(u), u)
      BY <1>2, <3>3, OrdinaryIs
    <3>5. BinOf(u) = i
      BY <1>5, <3>1, <3>4, HeldOnce
    <3>6. Said(u).value = Labels[i]
      BY <1>3, <2>2, <3>2, <3>5, ValueIs
    <3> QED
      BY <2>2, <3>1, <3>6
  <2> QED
    BY <1>1, <2>1, <2>2
<1>7. Covers(extent[d], u)
  <2>1. Said(u).kind \notin {"neginf", "posinf"}
    BY <1>3, <1>6, SaidValue
  <2> QED
    BY <1>3, <1>4, <2>1 DEF Widened, Covers
<1> QED
  BY <1>3, <1>6, <1>7

\* A point in the ranges asked for has an interval on each axis: the extent has its label.
LEMMA InvNothingLost ==
  ASSUME GridInv
  PROVE  NothingLost
<1> SUFFICES ASSUME NEW t \in Threads, pc[t] = "done", NEW k \in DOMAIN points,
                    \A d \in Axes : /\ ask[t].axes[d].min <= points[k][d] /\ points[k][d] <= ask[t].axes[d].max
                                    /\ Open(ask[t].axes[d]) => LabelWithin(ask[t].axes[d], d) \/ points[k][d] \in {Low, High},
                    NEW d \in Axes
             PROVE  \E i \in DOMAIN models[t][d].intervals : In(points[k][d], models[t][d].intervals[i])
  BY DEF NothingLost
<1>1. WalkIs /\ DataIs /\ ask[t] \in Asks[t] /\ Built(t)
  BY DEF GridInv, ThreadIs
<1> DEFINE pt == points[k]
           v == pt[d]
           spec == ask[t].axes[d]
           ext == ExtentOf(t, d)
<1>2. pt \in Points
  BY <1>1 DEF DataIs
<1>3. NoNaN(pt)
  <2> SUFFICES ASSUME NEW e \in Axes PROVE pt[e] # NaN
    BY DEF NoNaN
  <2>1. pt[e] \in Int /\ pt[e] <= ask[t].axes[e].max
    BY <1>2, NumberIs
  <2>2. SpecIs(ask[t].axes[e])
    BY <1>1, AskIs DEF Built
  <2>3. NaN \in Int /\ NaN > High /\ High \in Int
    BY GridAssumption, TableIs
  <2> QED
    BY <2>1, <2>2, <2>3 DEF SpecIs
<1>4. IsNumber(v) /\ Path(pt) \in Visited /\ AxisBins(Path(pt))[d] = Said(v)
  BY <1>1, <1>2, <1>3, PointNumber, VisitedAre, Decoded DEF NoNaN, DataIs
<1>5. Given(spec, ext) /\ models[t][d] = AxisModel(spec, ext)
  BY <1>1, BuiltGiven
<1>6. ASSUME Open(spec), v \notin {Low, High}
      PROVE  /\ Covers(ext, v)
             /\ \E u : /\ IsNumber(u) /\ u \notin {Low, High} /\ Covers(ext, u)
                       /\ spec.min <= Said(u).value /\ Said(u).value <= spec.max
  <2>1. once = "done"
    BY <1>1, <1>6 DEF Built, NeedsExtent
  <2>2. ext = extent[d]
    BY <1>6 DEF ExtentOf
  <2>3. Widened(Path(pt))
    BY <1>1, <1>4, <2>1 DEF WalkIs
  <2>4. Said(v).kind \notin {"neginf", "posinf"}
    BY <1>4, <1>6, SaidValue
  <2>5. Covers(extent[d], v)
    BY <1>4, <2>3, <2>4 DEF Widened, Covers
  <2>6. LabelWithin(spec, d)
    BY <1>6
  <2> HIDE DEF spec
  <2> QED
    BY <1>1, <2>1, <2>2, <2>5, <2>6, LabelCovered
<1>7. spec.min <= v /\ v <= spec.max
  OBVIOUS
<1> HIDE DEF v, spec, ext
<1>8. InThese(AxisModel(spec, ext).intervals, v) # {}
  BY <1>4, <1>5, <1>6, <1>7, Found
<1>9. InThese(models[t][d].intervals, v) # {}
  BY <1>5, <1>8
<1> QED
  BY <1>9 DEF InThese, v

-----------------------------------------------------------------------------
(* That it holds of every state.                                           *)

\* It holds at the start.
LEMMA InvStart == Init => GridInv
<1> SUFFICES ASSUME Init PROVE GridInv
  OBVIOUS
<1>1. RaceInv
  BY Start
<1>2. DataIs
  <2>1. PICK m \in 0 .. MaxPoints : points \in [1 .. m -> Points]
    BY DEF Init
  <2>2. m \in Nat
    BY <2>1, GridAssumption
  <2>3. points \in Seq(Points)
    BY <2>1, <2>2
  <2> QED
    BY <2>3 DEF Init, DataIs
<1>3. WalkIs
  BY NoExtentIs DEF Init, WalkIs
<1>4. \A t \in Threads : ThreadIs(t)
  BY DEF Init, ThreadIs
<1> QED
  BY <1>1, <1>2, <1>3, <1>4 DEF GridInv

\* What a step leaves of what a thread has: the extent changes only before it is done.
Stays(t) ==
  /\ UNCHANGED <<points, trie, ask>> /\ models'[t] = models[t] /\ counts'[t] = counts[t]
  /\ extent' = extent \/ once # "done"
  /\ once = "done" => once' = "done"

\* Axes built stay so.
LEMMA BuiltKept ==
  ASSUME NEW t \in Threads, Stays(t), Built(t)
  PROVE  Built(t)'
<1>1. ask' = ask /\ models'[t] = models[t]
  BY DEF Stays
<1>2. NeedsExtent(t)' <=> NeedsExtent(t)
  BY <1>1 DEF NeedsExtent
<1>3. ~ Malformed(ask[t])' /\ (NeedsExtent(t)' => once' = "done")
  BY <1>1, <1>2 DEF Built, Stays
<1>4. ASSUME NEW d \in Axes
      PROVE  ExtentOf(t, d)' = ExtentOf(t, d)
  <2>1. CASE extent' = extent
    BY <1>1, <2>1 DEF ExtentOf
  <2>2. CASE once # "done"
    <3>1. ~ Open(ask[t].axes[d])
      BY <2>2 DEF Built, NeedsExtent
    <3> QED
      BY <1>1, <3>1 DEF ExtentOf
  <2> QED
    BY <2>1, <2>2 DEF Stays
<1>5. models'[t] = [d \in Axes |-> AxisModel(ask'[t].axes[d], ExtentOf(t, d)')]
  <2>1. models[t] = [d \in Axes |-> AxisModel(ask[t].axes[d], ExtentOf(t, d))]
    BY DEF Built
  <2> QED
    BY <1>1, <1>4, <2>1
<1>6. \A d \in Axes : Scalable(ask'[t].axes[d], ExtentOf(t, d)')
  BY <1>1, <1>4 DEF Built
<1> QED
  BY <1>3, <1>5, <1>6 DEF Built

\* Nor does the grid change.
LEMMA GridKept ==
  ASSUME NEW t \in Threads, Stays(t)
  PROVE  /\ HasCells(t)' <=> HasCells(t)
         /\ CountsOf(t)' = CountsOf(t)
<1>1. ask' = ask /\ models'[t] = models[t] /\ trie' = trie
  BY DEF Stays
<1>2. CellsOf(t)' = CellsOf(t)
  BY <1>1 DEF CellsOf
<1>3. Visited' = Visited
  BY <1>1 DEF Visited
<1>4. HasCells(t)' <=> HasCells(t)
  BY <1>1, <1>2 DEF HasCells
<1>5. CountsOf(t)' = CountsOf(t)
  BY <1>1, <1>2, <1>3 DEF CountsOf, RowCount
<1> QED
  BY <1>4, <1>5

\* A thread that stays where it is.
LEMMA ThreadKept ==
  ASSUME NEW t \in Threads, Stays(t), pc'[t] = pc[t], ThreadIs(t)
  PROVE  ThreadIs(t)'
<1>1. ask' = ask /\ models'[t] = models[t] /\ counts'[t] = counts[t]
  BY DEF Stays
<1>2. /\ Built(t) => Built(t)'
      /\ HasCells(t)' <=> HasCells(t)
      /\ CountsOf(t)' = CountsOf(t)
  BY BuiltKept, GridKept
<1> QED
  BY <1>1, <1>2 DEF ThreadIs

\* One that moves on without building or counting anything.
LEMMA ThreadMoves ==
  ASSUME NEW t \in Threads, Stays(t), ThreadIs(t), pc[t] # "done",
         pc'[t] \notin {"count", "done"},
         pc'[t] \in {"extent", "walk", "models"} => ~ Malformed(ask[t])
  PROVE  ThreadIs(t)'
<1>1. ask' = ask /\ models'[t] = models[t] /\ counts'[t] = counts[t]
  BY DEF Stays
<1>2. Built(t) => Built(t)'
  BY BuiltKept
<1>3. counts[t] = <<>>
  BY DEF ThreadIs
<1> QED
  BY <1>1, <1>2, <1>3 DEF ThreadIs

\* What the threads have and what the walk has found are kept by a step that moves one of
\* them elsewhere.
LEMMA OthersKept ==
  ASSUME GridInv, NEW t \in Threads, \A u \in Threads : Stays(u) /\ (u # t => pc'[u] = pc[u]), ThreadIs(t)'
  PROVE  \A u \in Threads : ThreadIs(u)'
<1> SUFFICES ASSUME NEW u \in Threads PROVE ThreadIs(u)'
  OBVIOUS
<1>1. CASE u = t
  BY <1>1
<1>2. CASE u # t
  BY <1>2, ThreadKept DEF GridInv
<1> QED
  BY <1>1, <1>2

\* No step changes the data.
LEMMA DataKept ==
  ASSUME DataIs, NEW t \in Threads, Step(t)
  PROVE  DataIs'
<1>1. UNCHANGED <<points, trie>>
  BY DEF Step, CheckRequest, BeginWalk, VisitRecord, EndWalk, PassOnce, BuildModels, CountRecords
<1>2. models' = models \/ \E m : models' = [models EXCEPT ![t] = m]
  BY DEF Step, CheckRequest, BeginWalk, VisitRecord, EndWalk, PassOnce, BuildModels, CountRecords
<1>3. counts' = counts \/ \E c : counts' = [counts EXCEPT ![t] = c]
  BY CountsAre DEF Step, CheckRequest, BeginWalk, VisitRecord, EndWalk, PassOnce, BuildModels
<1>4. models' = [u \in Threads |-> models'[u]]
  BY <1>2 DEF DataIs
<1>5. counts' = [u \in Threads |-> counts'[u]]
  BY <1>3 DEF DataIs
<1> QED
  BY <1>1, <1>4, <1>5 DEF DataIs

\* What the walk has found stays, if nothing of it changes.
LEMMA WalkKept ==
  ASSUME WalkIs, UNCHANGED <<trie, once, walk, extent>>
  PROVE  WalkIs'
<1>1. Visited' = Visited
  BY DEF Visited
<1>2. \A q : Widened(q)' <=> Widened(q)
  BY DEF Widened
<1> QED
  BY <1>1, <1>2 DEF WalkIs

\* The threads when a request is checked or the walk of another is passed.
LEMMA ThreadsOnCheck ==
  ASSUME GridInv, NEW t \in Threads, CheckRequest(t)
  PROVE  WalkIs' /\ \A u \in Threads : ThreadIs(u)'
<1>1. UNCHANGED <<points, trie, once, walk, extent, ask, models, counts>> /\ pc[t] = "check"
  BY DEF CheckRequest
<1>2. pc \in [Threads -> Places] /\ ThreadIs(t) /\ WalkIs
  BY DEF GridInv, RaceInv
<1>3. \A u \in Threads : Stays(u) /\ (u # t => pc'[u] = pc[u])
  BY <1>1, <1>2 DEF Stays, CheckRequest
<1>4. pc'[t] \notin {"count", "done"} /\ (pc'[t] \in {"extent", "walk", "models"} => ~ Malformed(ask[t]))
  BY <1>2 DEF CheckRequest
<1>5. ThreadIs(t)'
  BY <1>1, <1>2, <1>3, <1>4, ThreadMoves
<1> QED
  BY <1>1, <1>2, <1>3, <1>5, OthersKept, WalkKept

\* The threads when one passes the walk of another.
LEMMA ThreadsOnPass ==
  ASSUME GridInv, NEW t \in Threads, PassOnce(t)
  PROVE  WalkIs' /\ \A u \in Threads : ThreadIs(u)'
<1>1. UNCHANGED <<points, trie, once, walk, extent, ask, models, counts>> /\ pc[t] = "extent"
  BY DEF PassOnce
<1>2. pc \in [Threads -> Places] /\ ThreadIs(t) /\ WalkIs
  BY DEF GridInv, RaceInv
<1>3. \A u \in Threads : Stays(u) /\ (u # t => pc'[u] = pc[u])
  BY <1>1, <1>2 DEF Stays, PassOnce
<1>4. pc'[t] = "models" /\ ~ Malformed(ask[t])
  BY <1>1, <1>2 DEF PassOnce, ThreadIs
<1>5. ThreadIs(t)'
  BY <1>1, <1>2, <1>3, <1>4, ThreadMoves
<1> QED
  BY <1>1, <1>2, <1>3, <1>5, OthersKept, WalkKept

\* The walk begins with every record to visit.
LEMMA ThreadsOnBegin ==
  ASSUME GridInv, NEW t \in Threads, BeginWalk(t)
  PROVE  WalkIs' /\ \A u \in Threads : ThreadIs(u)'
<1>1. /\ UNCHANGED <<points, trie, ask, models, counts>> /\ pc[t] = "extent"
      /\ once = "not" /\ once' = "running" /\ walk' = SetToSeq(Visited) /\ extent' = [d \in Axes |-> NoExtent]
  BY DEF BeginWalk
<1>2. pc \in [Threads -> Places] /\ ThreadIs(t) /\ DataIs
  BY DEF GridInv, RaceInv
<1>3. \A u \in Threads : Stays(u) /\ (u # t => pc'[u] = pc[u])
  BY <1>1, <1>2 DEF Stays, BeginWalk
<1>4. pc'[t] = "walk" /\ ~ Malformed(ask[t])
  BY <1>1, <1>2 DEF BeginWalk, ThreadIs
<1>5. ThreadIs(t)'
  BY <1>1, <1>2, <1>3, <1>4, ThreadMoves
<1>6. SetToSeq(Visited) \in Seq(Visited) /\ Range(SetToSeq(Visited)) = Visited
  BY <1>2, VisitedFinite, SetInOrder
<1>7. Visited' = Visited
  BY <1>1 DEF Visited
<1>8. WalkIs'
  <2>1. extent' \in [Axes -> [min : Int, max : Int]]
    BY <1>1, NoExtentIs
  <2>2. walk' \in Seq(Visited) /\ \A q \in Visited : q \in Range(walk')
    BY <1>1, <1>6
  <2> QED
    BY <1>1, <1>7, <2>1, <2>2 DEF WalkIs
<1> QED
  BY <1>3, <1>5, <1>8, OthersKept

\* The walk ends when it has visited every record.
LEMMA ThreadsOnEnd ==
  ASSUME GridInv, NEW t \in Threads, EndWalk(t)
  PROVE  WalkIs' /\ \A u \in Threads : ThreadIs(u)'
<1>1. /\ UNCHANGED <<points, trie, walk, extent, ask, models, counts>> /\ pc[t] = "walk"
      /\ walk = <<>> /\ once' = "done"
  BY DEF EndWalk
<1>2. pc \in [Threads -> Places] /\ ThreadIs(t) /\ WalkIs /\ once = "running"
  BY <1>1 DEF GridInv, RaceInv, NoRace
<1>3. \A u \in Threads : Stays(u) /\ (u # t => pc'[u] = pc[u])
  BY <1>1, <1>2 DEF Stays, EndWalk
<1>4. pc'[t] = "models" /\ ~ Malformed(ask[t])
  BY <1>1, <1>2 DEF EndWalk, ThreadIs
<1>5. ThreadIs(t)'
  BY <1>1, <1>2, <1>3, <1>4, ThreadMoves
<1>6. Visited' = Visited /\ \A q : Widened(q)' <=> Widened(q)
  BY <1>1 DEF Visited, Widened
<1>7. \A q \in Visited : Widened(q)
  <2>1. Range(walk) = {}
    BY <1>1, OneIs
  <2> QED
    BY <1>2, <2>1 DEF WalkIs
<1>8. WalkIs'
  BY <1>1, <1>2, <1>6, <1>7 DEF WalkIs
<1> QED
  BY <1>3, <1>5, <1>8, OthersKept

\* The extent of an axis when a record is visited.
WiderBy(ext, ax) ==
  IF ax.kind \in {"neginf", "posinf"} THEN ext
  ELSE [min |-> Min({ext.min, ax.value}), max |-> Max({ext.max, ax.value})]

\* It becomes wider, and wide enough for the record.
LEMMA Wider ==
  ASSUME NEW ext \in [min : Int, max : Int], NEW ax, ax.value \in Int
  PROVE  /\ WiderBy(ext, ax) \in [min : Int, max : Int]
         /\ WiderBy(ext, ax).min <= ext.min /\ ext.max <= WiderBy(ext, ax).max
         /\ \/ ax.kind \in {"neginf", "posinf"}
            \/ WiderBy(ext, ax).min <= ax.value /\ ax.value <= WiderBy(ext, ax).max
<1>1. ext.min \in Int /\ ext.max \in Int
  OBVIOUS
<1>2. \A a, b : IsFiniteSet({a, b})
  <2> TAKE a, b
  <2>1. IsFiniteSet({a})
    BY FS_Singleton
  <2>2. IsFiniteSet({a} \cup {b})
    BY <2>1, FS_AddElement
  <2>3. {a, b} = {a} \cup {b}
    OBVIOUS
  <2> QED
    BY <2>2, <2>3
<1>3. CASE ax.kind \in {"neginf", "posinf"}
  <2>1. WiderBy(ext, ax) = ext
    BY <1>3 DEF WiderBy
  <2> QED
    BY <1>1, <1>3, <2>1
<1>4. CASE ax.kind \notin {"neginf", "posinf"}
  <2> DEFINE low == Min({ext.min, ax.value})
             high == Max({ext.max, ax.value})
  <2>1. low \in {ext.min, ax.value} /\ \A k \in {ext.min, ax.value} : low <= k
    BY <1>1, <1>2, LeastIs
  <2>2. high \in {ext.max, ax.value} /\ \A k \in {ext.max, ax.value} : k <= high
    BY <1>1, <1>2, GreatestElement
  <2>3. WiderBy(ext, ax) = [min |-> low, max |-> high]
    BY <1>4 DEF WiderBy
  <2> HIDE DEF low, high
  <2>4. low \in Int /\ high \in Int /\ low <= ext.min /\ low <= ax.value /\ ext.max <= high /\ ax.value <= high
    BY <1>1, <2>1, <2>2
  <2> QED
    BY <2>3, <2>4
<1> QED
  BY <1>3, <1>4

\* Visiting a record makes the extent wide enough for it, and no less for those before.
LEMMA ThreadsOnVisit ==
  ASSUME GridInv, NEW t \in Threads, VisitRecord(t)
  PROVE  WalkIs' /\ \A u \in Threads : ThreadIs(u)'
<1>1. /\ UNCHANGED <<points, trie, once, ask, pc, models, counts>> /\ pc[t] = "walk"
      /\ walk # <<>> /\ walk' = Tail(walk)
  BY DEF VisitRecord
<1>2. ThreadIs(t) /\ WalkIs /\ DataIs /\ once = "running"
  BY <1>1 DEF GridInv, RaceInv, NoRace
<1>3. \A u \in Threads : Stays(u) /\ pc'[u] = pc[u]
  BY <1>1, <1>2 DEF Stays
<1>4. \A u \in Threads : ThreadIs(u)'
  BY <1>3, ThreadKept DEF GridInv
<1>5. extent' = [d \in Axes |-> WiderBy(extent[d], AxisBins(Head(walk))[d])]
  BY DEF VisitRecord, WiderBy
<1>6. /\ walk \in Seq(Visited) /\ extent \in [Axes -> [min : Int, max : Int]]
      /\ \A p \in Visited : p \in Range(walk) \/ Widened(p)
  BY <1>2 DEF WalkIs
<1>0. Head(walk) \in Visited /\ walk' \in Seq(Visited) /\ Head(walk) = walk[1]
  BY <1>1, <1>6, HeadTailProperties
<1>7. PICK q \in Visited : q = Head(walk)
  BY <1>0
<1>8. Visited' = Visited
  BY <1>1 DEF Visited
<1>9. ASSUME NEW p \in Range(walk)
      PROVE  p = q \/ p \in Range(walk')
  <2>1. PICK k \in DOMAIN walk : p = walk[k]
    BY DEF Range
  <2>2. /\ Len(walk) \in Nat /\ DOMAIN walk = 1 .. Len(walk) /\ k \in 1 .. Len(walk)
        /\ Len(walk') = Len(walk) - 1 /\ \A i \in 1 .. Len(walk') : walk'[i] = walk[i + 1]
        /\ DOMAIN walk' = 1 .. Len(walk')
    BY <1>0, <1>1, <1>6, <2>1, LenProperties, HeadTailProperties
  <2>3. CASE k = 1
    BY <1>0, <1>7, <2>1, <2>3
  <2>4. CASE k # 1
    <3>1. k - 1 \in 1 .. Len(walk') /\ walk'[k - 1] = walk[k - 1 + 1] /\ k - 1 + 1 = k
      BY <2>2, <2>4
    <3>2. walk'[k - 1] = p /\ k - 1 \in DOMAIN walk'
      BY <2>1, <2>2, <3>1
    <3> QED
      BY <3>2 DEF Range
  <2> QED
    BY <2>3, <2>4
<1>10. ASSUME NEW p \in Visited, NEW d \in Axes
       PROVE  AxisBins(p)[d].value \in Int
  <2>1. PICK k \in DOMAIN points : IsNumber(points[k][d]) /\ AxisBins(p)[d] = Said(points[k][d])
    BY <1>2, RecordIs
  <2> QED
    BY <2>1, SaidValue
<1>11. ASSUME NEW d \in Axes
       PROVE  /\ extent[d] \in [min : Int, max : Int] /\ extent'[d] \in [min : Int, max : Int]
              /\ extent'[d].min <= extent[d].min /\ extent[d].max <= extent'[d].max
              /\ \/ AxisBins(q)[d].kind \in {"neginf", "posinf"}
                 \/ extent'[d].min <= AxisBins(q)[d].value /\ AxisBins(q)[d].value <= extent'[d].max
  <2>1. extent[d] \in [min : Int, max : Int] /\ AxisBins(q)[d].value \in Int
    BY <1>6, <1>7, <1>10
  <2>2. extent'[d] = WiderBy(extent[d], AxisBins(q)[d])
    BY <1>5, <1>7
  <2> DEFINE ext == extent[d]
             ax == AxisBins(q)[d]
  <2>3. ext \in [min : Int, max : Int] /\ ax.value \in Int
    BY <2>1
  <2> HIDE DEF ext, ax
  <2>4. /\ WiderBy(ext, ax) \in [min : Int, max : Int]
        /\ WiderBy(ext, ax).min <= ext.min /\ ext.max <= WiderBy(ext, ax).max
        /\ \/ ax.kind \in {"neginf", "posinf"}
           \/ WiderBy(ext, ax).min <= ax.value /\ ax.value <= WiderBy(ext, ax).max
    BY <2>3, Wider
  <2> QED
    BY <2>1, <2>2, <2>4 DEF ext, ax
<1>12. extent' \in [Axes -> [min : Int, max : Int]]
  BY <1>5, <1>11
<1>13. Widened(q)'
  BY <1>11 DEF Widened
<1>14. ASSUME NEW p \in Visited, Widened(p)
       PROVE  Widened(p)'
  <2> SUFFICES ASSUME NEW d \in Axes, AxisBins(p)[d].kind \notin {"neginf", "posinf"}
               PROVE  extent'[d].min <= AxisBins(p)[d].value /\ AxisBins(p)[d].value <= extent'[d].max
    BY DEF Widened
  <2>1. extent[d].min <= AxisBins(p)[d].value /\ AxisBins(p)[d].value <= extent[d].max
    BY <1>14 DEF Widened
  <2>2. /\ extent[d].min \in Int /\ extent[d].max \in Int /\ extent'[d].min \in Int /\ extent'[d].max \in Int
        /\ extent'[d].min <= extent[d].min /\ extent[d].max <= extent'[d].max
    BY <1>11
  <2>3. AxisBins(p)[d].value \in Int
    BY <1>10
  <2> QED
    BY <2>1, <2>2, <2>3
<1>15. \A p \in Visited : p \in Range(walk') \/ Widened(p)'
  BY <1>6, <1>9, <1>13, <1>14
<1>16. WalkIs'
  BY <1>0, <1>1, <1>2, <1>8, <1>12, <1>15 DEF WalkIs
<1> QED
  BY <1>4, <1>16

\* What building the axes does: the request is refused, or they are built.
LEMMA BuildIs ==
  ASSUME NEW t \in Threads, BuildModels(t)
  PROVE  \/ models' = models /\ \E p \in {"invalid", "exceeds"} : pc' = [pc EXCEPT ![t] = p]
         \/ /\ \A d \in Axes : Scalable(ask[t].axes[d], ExtentOf(t, d))
            /\ \E ms : /\ ms = [d \in Axes |-> AxisModel(ask[t].axes[d], ExtentOf(t, d))]
                       /\ Cells(Shape(ms), ask[t].maxCells) # -1
                       /\ models' = [models EXCEPT ![t] = ms]
                       /\ pc' = [pc EXCEPT ![t] = IF \E d \in Axes : Shape(ms)[d] = 0 THEN "done" ELSE "count"]
<1> DEFINE ms == [d \in Axes |-> AxisModel(ask[t].axes[d], ExtentOf(t, d))]
<1>1. IF \E d \in Axes : ~ Scalable(ask[t].axes[d], ExtentOf(t, d))
      THEN pc' = [pc EXCEPT ![t] = "invalid"] /\ UNCHANGED models
      ELSE IF Cells(Shape(ms), ask[t].maxCells) = -1
      THEN pc' = [pc EXCEPT ![t] = "exceeds"] /\ UNCHANGED models
      ELSE /\ models' = [models EXCEPT ![t] = ms]
           /\ pc' = [pc EXCEPT ![t] = IF \E d \in Axes : Shape(ms)[d] = 0 THEN "done" ELSE "count"]
  BY Zenon DEF BuildModels, ExtentOf
<1>2. ms = [d \in Axes |-> AxisModel(ask[t].axes[d], ExtentOf(t, d))]
  OBVIOUS
<1> HIDE DEF ms
<1>3. CASE \E d \in Axes : ~ Scalable(ask[t].axes[d], ExtentOf(t, d))
  BY <1>1, <1>3
<1>4. CASE \A d \in Axes : Scalable(ask[t].axes[d], ExtentOf(t, d))
  <2>1. CASE Cells(Shape(ms), ask[t].maxCells) = -1
    BY <1>1, <1>4, <2>1
  <2>2. CASE Cells(Shape(ms), ask[t].maxCells) # -1
    BY <1>1, <1>2, <1>4, <2>2
  <2> QED
    BY <2>1, <2>2
<1> QED
  BY <1>3, <1>4

\* A thread that builds its axes has them of what it asked for, and of the whole extent.
LEMMA ThreadsOnBuild ==
  ASSUME GridInv, NEW t \in Threads, BuildModels(t)
  PROVE  WalkIs' /\ \A u \in Threads : ThreadIs(u)'
<1>1. UNCHANGED <<points, trie, once, walk, extent, ask, counts>> /\ pc[t] = "models"
  BY DEF BuildModels
<1>2. /\ pc \in [Threads -> Places] /\ ThreadIs(t) /\ WalkIs /\ DataIs
      /\ NeedsExtent(t) => once = "done"
  BY <1>1 DEF GridInv, RaceInv, NoRace
<1>3. WalkIs'
  BY <1>1, <1>2, WalkKept
<1>4. ~ Malformed(ask[t]) /\ counts[t] = <<>>
  BY <1>1, <1>2 DEF ThreadIs
<1>5. CASE models' = models /\ \E p \in {"invalid", "exceeds"} : pc' = [pc EXCEPT ![t] = p]
  <2>1. \A u \in Threads : Stays(u) /\ (u # t => pc'[u] = pc[u])
    BY <1>1, <1>2, <1>5 DEF Stays
  <2>2. pc'[t] \in {"invalid", "exceeds"}
    BY <1>2, <1>5
  <2>3. ThreadIs(t)'
    BY <1>1, <1>2, <2>1, <2>2, ThreadMoves
  <2> QED
    BY <1>3, <2>1, <2>3, OthersKept
<1>6. CASE ~ (models' = models /\ \E p \in {"invalid", "exceeds"} : pc' = [pc EXCEPT ![t] = p])
  <2>1. /\ \A d \in Axes : Scalable(ask[t].axes[d], ExtentOf(t, d))
        /\ \E ms : /\ ms = [d \in Axes |-> AxisModel(ask[t].axes[d], ExtentOf(t, d))]
                   /\ Cells(Shape(ms), ask[t].maxCells) # -1
                   /\ models' = [models EXCEPT ![t] = ms]
                   /\ pc' = [pc EXCEPT ![t] = IF \E d \in Axes : Shape(ms)[d] = 0 THEN "done" ELSE "count"]
    BY <1>6, BuildIs
  <2>2. PICK ms : /\ ms = [d \in Axes |-> AxisModel(ask[t].axes[d], ExtentOf(t, d))]
                  /\ Cells(Shape(ms), ask[t].maxCells) # -1
                  /\ models' = [models EXCEPT ![t] = ms]
                  /\ pc' = [pc EXCEPT ![t] = IF \E d \in Axes : Shape(ms)[d] = 0 THEN "done" ELSE "count"]
    BY <2>1
  <2>3. models = [u \in Threads |-> models[u]]
    BY <1>2 DEF DataIs
  <2>4. models'[t] = ms /\ \A u \in Threads : u # t => models'[u] = models[u] /\ pc'[u] = pc[u]
    BY <1>2, <2>2, <2>3
  <2>5. /\ pc'[t] = IF \E d \in Axes : Shape(ms)[d] = 0 THEN "done" ELSE "count"
        /\ ask' = ask /\ counts' = counts /\ extent' = extent /\ once' = once
    BY <1>1, <1>2, <2>2
  <2>6. Built(t)'
    <3>1. \A d \in Axes : ExtentOf(t, d)' = ExtentOf(t, d)
      BY <2>5 DEF ExtentOf
    <3>2. NeedsExtent(t)' <=> NeedsExtent(t)
      BY <2>5 DEF NeedsExtent
    <3>3. \A d \in Axes : Scalable(ask'[t].axes[d], ExtentOf(t, d)')
      BY <2>1, <2>5, <3>1
    <3>4. models'[t] = [d \in Axes |-> AxisModel(ask'[t].axes[d], ExtentOf(t, d)')]
      BY <2>2, <2>4, <2>5, <3>1
    <3>5. ~ Malformed(ask'[t]) /\ (NeedsExtent(t)' => once' = "done")
      BY <1>2, <1>4, <2>5, <3>2
    <3> QED
      BY <3>3, <3>4, <3>5 DEF Built
  <2>7. pc'[t] = "count" => HasCells(t)'
    <3>1. CellsOf(t)' = Cells(Shape(ms), ask[t].maxCells) /\ Shape(models[t])' = Shape(ms)
      BY <2>4, <2>5 DEF CellsOf, Shape
    <3>2. pc'[t] = "count" => \A d \in Axes : Shape(ms)[d] # 0
      BY <2>5
    <3> QED
      BY <2>2, <3>1, <3>2 DEF HasCells
  <2>8. ThreadIs(t)'
    <3>1. ask'[t] \in Asks[t] /\ ~ Malformed(ask'[t]) /\ counts'[t] = <<>>
      BY <1>2, <1>4, <2>5 DEF ThreadIs
    <3> QED
      BY <2>6, <2>7, <3>1 DEF ThreadIs
  <2>9. ASSUME NEW u \in Threads, u # t
        PROVE  ThreadIs(u)'
    <3>1. Stays(u) /\ pc'[u] = pc[u] /\ ThreadIs(u)
      BY <1>1, <2>4, <2>9 DEF Stays, GridInv
    <3> QED
      BY <3>1, ThreadKept
  <2> QED
    BY <1>3, <2>8, <2>9
<1> QED
  BY <1>5, <1>6

\* A thread that counts has the counts of its grid.
LEMMA ThreadsOnCount ==
  ASSUME GridInv, NEW t \in Threads, CountRecords(t)
  PROVE  WalkIs' /\ \A u \in Threads : ThreadIs(u)'
<1>1. UNCHANGED <<points, trie, once, walk, extent, ask, models>> /\ pc[t] = "count" /\ pc' = [pc EXCEPT ![t] = "done"]
  BY DEF CountRecords
<1>2. pc \in [Threads -> Places] /\ ThreadIs(t) /\ WalkIs /\ DataIs
  BY DEF GridInv, RaceInv
<1>3. WalkIs'
  BY <1>1, <1>2, WalkKept
<1>4. Built(t) /\ HasCells(t) /\ ask[t] \in Asks[t] /\ ~ Malformed(ask[t])
  BY <1>1, <1>2 DEF ThreadIs
<1>5. counts = [u \in Threads |-> counts[u]] /\ counts' = [counts EXCEPT ![t] = CountsOf(t)]
  BY <1>2, CountsAre DEF DataIs
<1>6. /\ pc'[t] = "done" /\ counts'[t] = CountsOf(t)
      /\ \A u \in Threads : u # t => counts'[u] = counts[u] /\ pc'[u] = pc[u]
  BY <1>1, <1>2, <1>5
<1>7. ThreadIs(t)'
  <2>1. ask' = ask /\ models' = models /\ trie' = trie /\ extent' = extent /\ once' = once
    BY <1>1
  <2>2. Built(t)'
    <3>1. \A d \in Axes : ExtentOf(t, d)' = ExtentOf(t, d)
      BY <2>1 DEF ExtentOf
    <3>2. NeedsExtent(t)' <=> NeedsExtent(t)
      BY <2>1 DEF NeedsExtent
    <3>3. models'[t] = [d \in Axes |-> AxisModel(ask'[t].axes[d], ExtentOf(t, d)')]
      <4>1. models[t] = [d \in Axes |-> AxisModel(ask[t].axes[d], ExtentOf(t, d))]
        BY <1>4 DEF Built
      <4> QED
        BY <2>1, <3>1, <4>1
    <3>4. \A d \in Axes : Scalable(ask'[t].axes[d], ExtentOf(t, d)')
      BY <1>4, <2>1, <3>1 DEF Built
    <3>5. ~ Malformed(ask'[t]) /\ (NeedsExtent(t)' => once' = "done")
      BY <1>4, <2>1, <3>2 DEF Built
    <3> QED
      BY <3>3, <3>4, <3>5 DEF Built
  <2>3. CellsOf(t)' = CellsOf(t) /\ Visited' = Visited
    BY <2>1 DEF CellsOf, Visited
  <2>4. HasCells(t)' /\ CountsOf(t)' = CountsOf(t)
    BY <1>4, <2>1, <2>3 DEF HasCells, CountsOf, RowCount
  <2>5. ask'[t] \in Asks[t] /\ ~ Malformed(ask'[t])
    BY <1>4, <2>1
  <2> QED
    BY <1>6, <2>2, <2>4, <2>5 DEF ThreadIs
<1>8. ASSUME NEW u \in Threads, u # t
      PROVE  ThreadIs(u)'
  <2>1. Stays(u) /\ pc'[u] = pc[u] /\ ThreadIs(u)
    BY <1>1, <1>6, <1>8 DEF Stays, GridInv
  <2> QED
    BY <2>1, ThreadKept
<1> QED
  BY <1>3, <1>7, <1>8

\* Every step keeps it.
LEMMA InvKept ==
  ASSUME GridInv, [Next]_vars
  PROVE  GridInv'
<1>1. RaceInv'
  BY RaceKept DEF GridInv
<1>2. CASE UNCHANGED vars
  <2>1. UNCHANGED <<points, trie, once, walk, extent, ask, pc, models, counts>>
    BY <1>2 DEF vars
  <2>2. WalkIs' /\ DataIs'
    BY <2>1, WalkKept DEF GridInv, DataIs
  <2>3. \A t \in Threads : ThreadIs(t)'
    BY <2>1, ThreadKept DEF GridInv, Stays
  <2> QED
    BY <1>1, <2>2, <2>3 DEF GridInv
<1>3. ASSUME NEW t \in Threads, Step(t)
      PROVE  GridInv'
  <2>1. DataIs'
    BY <1>3, DataKept DEF GridInv
  <2>2. WalkIs' /\ \A u \in Threads : ThreadIs(u)'
    <3>1. CASE CheckRequest(t)
      BY <3>1, ThreadsOnCheck
    <3>2. CASE BeginWalk(t)
      BY <3>2, ThreadsOnBegin
    <3>3. CASE VisitRecord(t)
      BY <3>3, ThreadsOnVisit
    <3>4. CASE EndWalk(t)
      BY <3>4, ThreadsOnEnd
    <3>5. CASE PassOnce(t)
      BY <3>5, ThreadsOnPass
    <3>6. CASE BuildModels(t)
      BY <3>6, ThreadsOnBuild
    <3>7. CASE CountRecords(t)
      BY <3>7, ThreadsOnCount
    <3> QED
      BY <1>3, <3>1, <3>2, <3>3, <3>4, <3>5, <3>6, <3>7 DEF Step
  <2> QED
    BY <1>1, <2>1, <2>2 DEF GridInv
<1> QED
  BY <1>2, <1>3 DEF Next, Ended

(***************************************************************************)
(* Partitioned (buildAxisModel, addInteriorParts, edgeBin): whatever a     *)
(* thread asks for, the intervals of each axis ascend and do not overlap,  *)
(* and those inside are in the range and no more than asked for.           *)
(***************************************************************************)
THEOREM IntervalsPart == Spec => []Partitioned
<1>1. Init => GridInv
  BY InvStart
<1>2. GridInv /\ [Next]_vars => GridInv'
  BY InvKept
<1>3. GridInv => Partitioned
  BY InvPartitioned
<1> QED
  BY <1>1, <1>2, <1>3, PTL DEF Spec

(***************************************************************************)
(* RowsExact (emitRecord, partitionIndex, bucketCb, materializeRows): for  *)
(* every histogram, every table of codes and every request, each row of a  *)
(* grid has the count of the points in the intervals it gives.             *)
(***************************************************************************)
THEOREM RowsCount == Spec => []RowsExact
<1>1. Init => GridInv
  BY InvStart
<1>2. GridInv /\ [Next]_vars => GridInv'
  BY InvKept
<1>3. GridInv => RowsExact
  BY InvRowsExact
<1> QED
  BY <1>1, <1>2, <1>3, PTL DEF Spec

(***************************************************************************)
(* NothingLost (ensureExtent, binInScope, edgeBin): every point in the     *)
(* ranges asked for is in an interval of each axis; with open ends, as far *)
(* as a label is in the range.                                             *)
(***************************************************************************)
THEOREM PointsFound == Spec => []NothingLost
<1>1. Init => GridInv
  BY InvStart
<1>2. GridInv /\ [Next]_vars => GridInv'
  BY InvKept
<1>3. GridInv => NothingLost
  BY InvNothingLost
<1> QED
  BY <1>1, <1>2, <1>3, PTL DEF Spec

=============================================================================
