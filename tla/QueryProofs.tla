---------------------------- MODULE QueryProofs -----------------------------
(***************************************************************************)
(* Proofs about the constructor of a query (PopulatedBins), for any 1D     *)
(* schema, table, data and digit of the sort: that there is an object      *)
(* exactly for a whole file, and that its bins are those of the histogram, *)
(* in the order of their labels.                                           *)
(*                                                                         *)
(* The argument: the loops are at a place of a depth-first walk of the     *)
(* trie (TrieProofs), so what lies at the cursor is the token of the node  *)
(* that the loops take it for, and the bins found are those of the nodes   *)
(* read (Walking).  Each pass of the sort puts the bins in the order of    *)
(* one digit more (Ordered), as it takes those of one digit in the order   *)
(* it finds them in.                                                       *)
(***************************************************************************)
EXTENDS Queries1D, TrieProofs

-----------------------------------------------------------------------------
(* Sorting.                                                                *)

\* Where each of n things comes in an order, given by the things before it.
LEMMA PlacesByOrder ==
  ASSUME NEW n \in Nat, NEW before \in [1 .. n -> SUBSET (1 .. n)],
         \A k \in 1 .. n : k \notin before[k],
         \A j, k \in 1 .. n : j # k => j \in before[k] \/ k \in before[j],
         \A i, j, k \in 1 .. n : i \in before[j] /\ j \in before[k] => i \in before[k]
  PROVE  \E place \in [1 .. n -> 1 .. n] :
           /\ \A k \in 1 .. n : place[k] = Cardinality(before[k]) + 1
           /\ \A j, k \in 1 .. n : place[j] < place[k] => j \in before[k]
           /\ \A j, k \in 1 .. n : place[j] = place[k] => j = k
           /\ \A m \in 1 .. n : \E k \in 1 .. n : place[k] = m
<1> DEFINE S == 1 .. n
           place == [k \in S |-> Cardinality(before[k]) + 1]
<1>1. IsFiniteSet(S) /\ Cardinality(S) = n
  BY FS_Interval
<1>2. ASSUME NEW k \in S
      PROVE  /\ IsFiniteSet(before[k]) /\ Cardinality(before[k]) \in Nat /\ Cardinality(before[k]) < n
  <2>1. before[k] \in SUBSET S /\ before[k] # S
    OBVIOUS
  <2>2. IsFiniteSet(before[k]) /\ Cardinality(before[k]) <= n /\ Cardinality(before[k]) # n
    BY <1>1, <2>1, FS_Subset
  <2> QED
    BY <2>2, FS_CardinalityType
<1>3. ASSUME NEW j \in S, NEW k \in S, j \in before[k]
      PROVE  Cardinality(before[j]) < Cardinality(before[k])
  <2>1. before[j] \in SUBSET before[k]
    BY <1>3
  <2>2. j \notin before[j]
    OBVIOUS
  <2>3. before[j] # before[k]
    BY <1>3, <2>2
  <2>4. Cardinality(before[j]) <= Cardinality(before[k]) /\ Cardinality(before[j]) # Cardinality(before[k])
    BY <1>2, <2>1, <2>3, FS_Subset
  <2> QED
    BY <1>2, <2>4
<1>4. \A k \in S : place[k] = Cardinality(before[k]) + 1 /\ place[k] \in S
  BY <1>2
<1>5. place \in [S -> S]
  BY <1>4
<1> HIDE DEF place
<1>6. ASSUME NEW j \in S, NEW k \in S PROVE j \in before[k] => place[j] < place[k]
  BY <1>2, <1>3, <1>4
<1>7. ASSUME NEW j \in S, NEW k \in S, place[j] <= place[k], j # k PROVE j \in before[k]
  <2>1. ~ (place[k] < place[j])
    BY <1>4, <1>7
  <2> QED
    BY <1>6, <1>7, <2>1
<1>8. \A j, k \in S : place[j] = place[k] => j = k
  <2> SUFFICES ASSUME NEW j \in S, NEW k \in S, place[j] = place[k], j # k PROVE FALSE
    OBVIOUS
  <2>1. place[j] <= place[k] /\ place[j] \in S /\ place[k] \in S
    BY <1>4
  <2>2. place[j] < place[k]
    BY <1>6, <1>7, <2>1
  <2> QED
    BY <2>1, <2>2
<1>9. \A m \in S : \E k \in S : place[k] = m
  <2>1. place \in Injection(S, S)
    BY <1>5, <1>8 DEF Injection, IsInjective
  <2>2. place \in Surjection(S, S)
    BY <1>1, <2>1, FS_Injection
  <2> QED
    BY <2>2 DEF Surjection
<1>10. \A j, k \in S : place[j] < place[k] => j \in before[k]
  <2> SUFFICES ASSUME NEW j \in S, NEW k \in S, place[j] < place[k] PROVE j \in before[k]
    OBVIOUS
  <2>1. place[j] <= place[k] /\ j # k
    BY <1>4
  <2> QED
    BY <1>7, <2>1
<1> QED
  BY <1>4, <1>5, <1>8, <1>9, <1>10 DEF S

\* One digit more of a number.
LEMMA OneDigitMore ==
  ASSUME NEW x \in Nat, NEW s \in Nat \ {0}, NEW b \in Nat \ {0}
  PROVE  /\ s * b \in Nat \ {0}
         /\ x % s \in 0 .. s - 1
         /\ (x \div s) % b \in 0 .. b - 1
         /\ x % (s * b) = s * ((x \div s) % b) + (x % s)
<1> DEFINE q == x \div s
           r == x % s
           p == q \div b
           d == q % b
<1>1. q \in Nat /\ r \in 0 .. s - 1 /\ x = s * q + r
  OBVIOUS
<1> HIDE DEF q, r
<1>2. p \in Int /\ d \in 0 .. b - 1 /\ q = b * p + d
  BY <1>1
<1> HIDE DEF p, d
<1>3. s * b \in Nat \ {0}
  BY ProductOfNaturals
<1>4. s * d + r \in 0 .. s * b - 1
  <2>1. s * d \in Nat /\ s * (b - 1 - d) \in Nat
    BY <1>2, ProductOfNaturals
  <2>2. s * (b - 1 - d) = s * b - s - s * d
    BY <1>2
  <2> QED
    BY <1>1, <1>3, <2>1, <2>2
<1>5. x = (s * b) * p + (s * d + r)
  BY <1>1, <1>2
<1>6. x % (s * b) = s * d + r
  <2> DEFINE m == s * b
             y == s * d + r
  <2>1. m \in Nat \ {0} /\ y \in 0 .. m - 1 /\ x = m * p + y /\ p \in Int
    BY <1>2, <1>3, <1>4, <1>5
  <2> HIDE DEF m, y
  <2>2. PICK k \in Int, z \in 0 .. m - 1 : x = m * k + z /\ x % m = z
    BY <2>1, DivisionExists
  <2>3. y = z
    BY <2>1, <2>2, RemainderUnique
  <2> QED
    BY <2>2, <2>3 DEF m, y
<1>7. r = x % s /\ d = (x \div s) % b
  BY DEF q, r, d
<1>8. x % s \in 0 .. s - 1 /\ (x \div s) % b \in 0 .. b - 1
  BY <1>1, <1>2, <1>7
<1>9. s * d + r = s * ((x \div s) % b) + (x % s)
  BY <1>7
<1>10. x % (s * b) = s * ((x \div s) % b) + (x % s)
  BY <1>6, <1>9
<1> QED
  BY <1>3, <1>8, <1>10

\* Numbers compare by their leading digit, then by the rest.
LEMMA LeadingDigit ==
  ASSUME NEW s \in Nat \ {0}, NEW d \in Nat, NEW e \in Nat, NEW u \in 0 .. s - 1, NEW v \in 0 .. s - 1,
         d < e \/ (d = e /\ u <= v)
  PROVE  s * d + u <= s * e + v
<1>1. CASE d = e
  <2>1. s * d = s * e /\ s * d \in Int /\ u <= v
    BY <1>1
  <2> QED
    BY <2>1
<1>2. CASE d < e
  <2>1. e - d - 1 \in Nat
    BY <1>2
  <2>2. s * (e - d - 1) \in Nat
    BY <2>1, ProductOfNaturals
  <2>3. s * (e - d - 1) = s * e - s * d - s
    OBVIOUS
  <2>4. s * e \in Int /\ s * d \in Int
    OBVIOUS
  <2> QED
    BY <2>2, <2>3, <2>4
<1> QED
  BY <1>1, <1>2

-----------------------------------------------------------------------------
\* The bin that is found at a path.
Entry(t, p) == [position |-> Position[p], code |-> p, count |-> t[p]]

\* The bins found are those of the paths in P, each once.
Listed(bs, t, P) ==
  /\ bs \in Seq({Entry(t, p) : p \in P})
  /\ \A p \in P : \E k \in DOMAIN bs : bs[k].code = p
  /\ \A j, k \in DOMAIN bs : bs[j].code = bs[k].code => j = k

\* They are in order, as far as the digits below the weight s go.
Ordered(bs, s) == \A j, k \in DOMAIN bs : j < k => bs[j].position % s <= bs[k].position % s

\* Pass bs of the sort by the digit of weight s puts bin k at place[k].
Moves(place, n, bs, s) ==
  /\ DOMAIN bs = 1 .. n
  /\ \A k \in 1 .. n : bs[place[k]] = bins[k]
  /\ \A m \in 1 .. n : \E k \in 1 .. n : place[k] = m
  /\ \A j, k \in 1 .. n : place[j] = place[k] => j = k
  /\ \A j, k \in 1 .. n : place[j] < place[k] => j \in PutBefore(k, s)

\* A pass puts each bin in another place, and no two in the same.
LEMMA PassMoves ==
  ASSUME NEW n \in Nat, NEW s \in Nat \ {0}, NEW bs,
         DOMAIN bins = 1 .. n, \A k \in 1 .. n : bins[k].position \in Nat, bs = ByDigit(s)
  PROVE  \E place \in [1 .. n -> 1 .. n] : Moves(place, n, bs, s)
<1> DEFINE before == [k \in 1 .. n |-> PutBefore(k, s)]
<1>1. \A k \in 1 .. n : DigitOf(k, s) \in Nat
  BY DigitAssumption DEF DigitOf
<1>2. \A j, k \in 1 .. n : j \in before[k] <=> \/ DigitOf(j, s) < DigitOf(k, s)
                                               \/ DigitOf(j, s) = DigitOf(k, s) /\ j < k
  BY DEF PutBefore
<1>3. before \in [1 .. n -> SUBSET (1 .. n)] /\ \A k \in 1 .. n : before[k] = PutBefore(k, s)
  BY DEF PutBefore
<1> HIDE DEF before
<1>4. \A k \in 1 .. n : k \notin before[k]
  BY <1>1, <1>2
<1>5. \A j, k \in 1 .. n : j # k => j \in before[k] \/ k \in before[j]
  BY <1>1, <1>2
<1>6. \A i, j, k \in 1 .. n : i \in before[j] /\ j \in before[k] => i \in before[k]
  <2> SUFFICES ASSUME NEW i \in 1 .. n, NEW j \in 1 .. n, NEW k \in 1 .. n, i \in before[j], j \in before[k]
               PROVE  i \in before[k]
    OBVIOUS
  <2>1. /\ DigitOf(i, s) < DigitOf(j, s) \/ (DigitOf(i, s) = DigitOf(j, s) /\ i < j)
        /\ DigitOf(j, s) < DigitOf(k, s) \/ (DigitOf(j, s) = DigitOf(k, s) /\ j < k)
    BY <1>2
  <2>2. DigitOf(i, s) < DigitOf(k, s) \/ (DigitOf(i, s) = DigitOf(k, s) /\ i < k)
    BY <1>1, <2>1
  <2> QED
    BY <1>2, <2>2
<1>7. PICK place \in [1 .. n -> 1 .. n] :
           /\ \A k \in 1 .. n : place[k] = Cardinality(before[k]) + 1
           /\ \A j, k \in 1 .. n : place[j] < place[k] => j \in before[k]
           /\ \A j, k \in 1 .. n : place[j] = place[k] => j = k
           /\ \A m \in 1 .. n : \E k \in 1 .. n : place[k] = m
  BY <1>3, <1>4, <1>5, <1>6, PlacesByOrder
<1>8. ASSUME NEW k \in 1 .. n PROVE bs[place[k]] = bins[k]
  <2>1. \A j \in 1 .. n : Cardinality(before[j]) = place[k] - 1 <=> j = k
    <3> SUFFICES ASSUME NEW j \in 1 .. n PROVE Cardinality(before[j]) = place[k] - 1 <=> j = k
      OBVIOUS
    <3>1. before[j] \in SUBSET (1 .. n) /\ IsFiniteSet(1 .. n)
      <4>1. IsFiniteSet(1 .. n)
        BY FS_Interval
      <4> QED
        BY <1>3, <4>1
    <3>2. Cardinality(before[j]) \in Nat
      BY <3>1, FS_Subset, FS_CardinalityType
    <3>3. place[j] = Cardinality(before[j]) + 1 /\ place[k] \in Int /\ place[j] \in Int
      BY <1>7
    <3>4. place[j] = place[k] => j = k
      BY <1>7
    <3>5. Cardinality(before[j]) = place[k] - 1 <=> place[j] = place[k]
      BY <3>2, <3>3
    <3> QED
      BY <3>4, <3>5
  <2>2. bs[place[k]] = bins[CHOOSE j \in 1 .. n : Cardinality(PutBefore(j, s)) = place[k] - 1]
    BY DEF ByDigit
  <2>3. (CHOOSE j \in 1 .. n : Cardinality(PutBefore(j, s)) = place[k] - 1) = k
    BY <1>3, <2>1
  <2> QED
    BY <2>2, <2>3
<1>9. DOMAIN bs = 1 .. n
  BY DEF ByDigit
<1>10. \A j, k \in 1 .. n : place[j] < place[k] => j \in PutBefore(k, s)
  BY <1>3, <1>7
<1> QED
  BY <1>7, <1>8, <1>9, <1>10 DEF Moves

\* It keeps the bins, and orders them by one digit more.
LEMMA PassSorts ==
  ASSUME NEW P, \A p \in P : Position[p] \in Nat, Listed(bins, trie, P), NEW s \in Nat \ {0}, Ordered(bins, s),
         NEW bs, bs = ByDigit(s)
  PROVE  Listed(bs, trie, P) /\ Ordered(bs, s * Digit)
<1> DEFINE E == {Entry(trie, p) : p \in P}
           n == Len(bins)
<1>1. bins \in Seq(E) /\ n \in Nat /\ DOMAIN bins = 1 .. n
  BY DEF Listed
<1>2. \A k \in 1 .. n : bins[k] \in E /\ bins[k].position \in Nat
  <2>1. \A e \in E : e.position \in Nat
    BY DEF Entry
  <2> QED
    BY <1>1, <2>1
<1> HIDE DEF n, E
<1>3. PICK place \in [1 .. n -> 1 .. n] : Moves(place, n, bs, s)
  <2>1. DOMAIN bins = 1 .. n /\ n \in Nat /\ \A k \in 1 .. n : bins[k].position \in Nat
    BY <1>1, <1>2
  <2> QED
    BY <2>1, PassMoves
<1> USE DEF Moves
<1>4. \A m \in 1 .. n : bs[m] \in E
  BY <1>2, <1>3
<1>5. bs \in Seq(E)
  <2>1. bs = [m \in 1 .. n |-> bs[m]]
    BY <1>1 DEF ByDigit
  <2>2. bs \in [1 .. n -> E]
    BY <1>4, <2>1
  <2> QED
    BY <1>1, <2>2, SeqDef
<1>6. \A p \in P : \E k \in DOMAIN bs : bs[k].code = p
  <2> SUFFICES ASSUME NEW p \in P PROVE \E k \in 1 .. n : bs[k].code = p
    BY <1>3
  <2>1. PICK k \in 1 .. n : bins[k].code = p
    BY <1>1 DEF Listed
  <2>2. place[k] \in 1 .. n /\ bs[place[k]] = bins[k]
    BY <1>3
  <2> QED
    BY <2>1, <2>2
<1>7. \A j, k \in DOMAIN bs : bs[j].code = bs[k].code => j = k
  <2> SUFFICES ASSUME NEW j \in 1 .. n, NEW k \in 1 .. n, bs[j].code = bs[k].code PROVE j = k
    BY <1>3
  <2>1. PICK a \in 1 .. n : place[a] = j
    BY <1>3
  <2>2. PICK b \in 1 .. n : place[b] = k
    BY <1>3
  <2>3. bins[a].code = bins[b].code
    BY <1>3, <2>1, <2>2
  <2>4. a = b
    BY <1>1, <2>3 DEF Listed
  <2> QED
    BY <2>1, <2>2, <2>4
<1>8. ASSUME NEW j \in 1 .. n, NEW k \in 1 .. n, j < k
      PROVE  bs[j].position % (s * Digit) <= bs[k].position % (s * Digit)
  <2>1. PICK a \in 1 .. n : place[a] = j
    BY <1>3
  <2>2. PICK b \in 1 .. n : place[b] = k
    BY <1>3
  <2>3. bs[j] = bins[a] /\ bs[k] = bins[b] /\ a \in PutBefore(b, s)
    BY <1>3, <1>8, <2>1, <2>2
  <2> DEFINE x == bins[a].position
             y == bins[b].position
  <2>4. x \in Nat /\ y \in Nat /\ Digit \in Nat \ {0}
    BY <1>2, DigitAssumption
  <2>5. /\ x % s \in 0 .. s - 1 /\ (x \div s) % Digit \in 0 .. Digit - 1
        /\ x % (s * Digit) = s * ((x \div s) % Digit) + (x % s)
    <3> HIDE DEF x
    <3> QED
      BY <2>4, OneDigitMore
  <2>6. /\ y % s \in 0 .. s - 1 /\ (y \div s) % Digit \in 0 .. Digit - 1
        /\ y % (s * Digit) = s * ((y \div s) % Digit) + (y % s)
    <3> HIDE DEF y
    <3> QED
      BY <2>4, OneDigitMore
  <2>7. \/ (x \div s) % Digit < (y \div s) % Digit
        \/ (x \div s) % Digit = (y \div s) % Digit /\ a < b
    BY <2>3 DEF PutBefore, DigitOf
  <2>8. a < b => x % s <= y % s
    BY <1>1 DEF Ordered
  <2> HIDE DEF x, y
  <2>9. s * ((x \div s) % Digit) + (x % s) <= s * ((y \div s) % Digit) + (y % s)
    <3>1. (x \div s) % Digit \in Nat /\ (y \div s) % Digit \in Nat
      BY <2>5, <2>6
    <3>2. (x \div s) % Digit < (y \div s) % Digit \/ ((x \div s) % Digit = (y \div s) % Digit /\ x % s <= y % s)
      BY <2>7, <2>8
    <3> QED
      BY <2>5, <2>6, <3>1, <3>2, LeadingDigit
  <2>10. x % (s * Digit) <= y % (s * Digit)
    BY <2>5, <2>6, <2>9
  <2> QED
    BY <2>3, <2>10 DEF x, y
<1> QED
  BY <1>3, <1>5, <1>6, <1>7, <1>8 DEF Listed, Ordered, E

-----------------------------------------------------------------------------
(* Tries of one dimension.                                                 *)

\* The bins' paths have all levels, and each a place in the table.
LEMMA LeafHasAll ==
  ASSUME NEW p \in Leaves
  PROVE  /\ p \in Paths \ {<<>>} /\ Len(p) = MaxDepth /\ Position[p] \in Nat
         /\ p[1] \in NodeBins(1) /\ \A d \in 1 .. Len(p) : p[d] \in NodeBins(d)
<1>1. p \in Paths \ {<<>>} /\ Len(p) \in 1 .. MaxDepth /\ Len(p) = Depth[p[1]]
      /\ \A d \in 1 .. Len(p) : p[d] \in NodeBins(d)
  BY LeafIsPath
<1>2. MaxDepth \in Nat
  BY BinsAssumption DEF MaxDepth
<1>3. 1 \in 1 .. Len(p)
  BY <1>1, <1>2
<1>4. p[1] \in NodeBins(1)
  BY <1>1, <1>3
<1>5. Len(p) = MaxDepth
  BY <1>1, <1>4, OneDimAssumption
<1>6. Position[p] \in Nat
  BY PositionAssumption
<1> QED
  BY <1>1, <1>4, <1>5, <1>6

\* They are finitely many.
LEMMA LeavesFinite == IsFiniteSet(Leaves) /\ BinCount \in Nat
<1> DEFINE top(d) == Max({Bins[e] : e \in 1 .. d})
           F == [d \in 1 .. MaxDepth |-> [1 .. d -> 0 .. top(d) - 1]]
<1>1. MaxDepth \in Nat /\ \A e \in 1 .. MaxDepth : Bins[e] \in Nat
  BY BinsAssumption DEF MaxDepth
<1>2. ASSUME NEW d \in 1 .. MaxDepth PROVE IsFiniteSet(F[d])
  <2> DEFINE B == {Bins[e] : e \in 1 .. d}
  <2>1. d \in Nat /\ d >= 1 /\ 1 .. d \subseteq 1 .. MaxDepth /\ IsFiniteSet(1 .. d)
    BY <1>1, FS_Interval
  <2>2. B \in SUBSET Int
    BY <1>1, <2>1
  <2>3. IsFiniteSet(B)
    BY <2>1, ImageFinite
  <2>4. B # {}
    <3>1. Bins[1] \in B
      BY <2>1
    <3> QED
      BY <3>1
  <2>5. Max(B) \in Int
    <3> HIDE DEF B
    <3> QED
      BY <2>2, <2>3, <2>4, GreatestElement
  <2>6. top(d) = Max(B)
    OBVIOUS
  <2> HIDE DEF top, B
  <2>7. IsFiniteSet(0 .. top(d) - 1)
    BY <2>5, <2>6, FS_Interval
  <2>8. IsFiniteSet([1 .. d -> 0 .. top(d) - 1])
    BY <2>1, <2>7, FunctionsFinite
  <2> QED
    BY <2>8
<1>3. IsFiniteSet(UNION {F[d] : d \in 1 .. MaxDepth})
  <2> DEFINE G == {F[d] : d \in 1 .. MaxDepth}
  <2> HIDE DEF F
  <2>1. IsFiniteSet(1 .. MaxDepth)
    BY <1>1, FS_Interval
  <2>2. IsFiniteSet(G)
    BY <2>1, ImageFinite
  <2>3. \A T \in G : IsFiniteSet(T)
    BY <1>2
  <2> HIDE DEF G
  <2>4. IsFiniteSet(UNION G)
    BY <2>2, <2>3, FS_UNION
  <2> QED
    BY <2>4 DEF G
<1>4. Leaves \subseteq UNION {F[d] : d \in 1 .. MaxDepth}
  BY DEF Leaves
<1> HIDE DEF F
<1>5. IsFiniteSet(Leaves)
  BY <1>3, <1>4, FS_Subset
<1> QED
  BY <1>5, FS_CardinalityType DEF BinCount

\* A histogram of one dimension, in which no count has wrapped.
Populated(t) ==
  /\ Levelled(t, Depth) /\ DOMAIN t \subseteq Leaves
  /\ \A p \in DOMAIN t : t[p] \in 1 .. CountMod - 1

\* A node with nodes below it has one in each bin that its token names.
LEMMA InnerNode ==
  ASSUME NEW t, Populated(t), NEW q \in Nodes(t), Len(q) + 1 < MaxDepth
  PROVE  /\ q \in Paths /\ Len(q) \in Nat /\ DOMAIN Token(t, q) \in SUBSET Nat
         /\ \A b \in Nat : b \in DOMAIN Token(t, q) <=> Append(q, b) \in Nodes(t)
<1>1. Levelled(t, Depth) /\ IsTrie(t)
  BY DEF Populated, Levelled
<1>2. q \in Paths /\ Len(q) \in Nat /\ DOMAIN Token(t, q) \in SUBSET Nat
  BY <1>1, NodeDepth, TokenIs
<1>3. ASSUME NEW b \in Nat PROVE b \in DOMAIN Token(t, q) <=> Append(q, b) \in Nodes(t)
  <2>1. Append(q, b) \in Nodes(t) <=> b \in DOMAIN Token(t, q) /\ Len(q) + 1 < Depth[Append(q, b)[1]]
    BY <1>1, <1>2, ChildIs
  <2>2. ASSUME b \in DOMAIN Token(t, q) PROVE Depth[Append(q, b)[1]] = MaxDepth
    <3>1. \A p \in DOMAIN t : Len(p) = Depth[p[1]]
      BY <1>1 DEF Levelled
    <3>2. PICK p \in DOMAIN t : p[1] = Append(q, b)[1]
      BY <1>1, <1>2, <2>2, <3>1, ChildOf
    <3>3. p[1] \in NodeBins(1)
      BY <3>2, LeafHasAll DEF Populated
    <3> QED
      BY <3>2, <3>3, OneDimAssumption
  <2> QED
    BY <2>1, <2>2
<1> QED
  BY <1>2, <1>3

\* A deepest node holds the counts of the bins themselves.
LEMMA DeepestNode ==
  ASSUME NEW t, Populated(t), NEW q \in Nodes(t), Len(q) + 1 = MaxDepth
  PROVE  /\ q \in Paths /\ Len(q) \in Nat /\ DOMAIN Token(t, q) \in SUBSET Nat /\ IsFiniteSet(DOMAIN Token(t, q))
         /\ \A b \in DOMAIN Token(t, q) :
              Append(q, b) \in DOMAIN t /\ Token(t, q)[b] = t[Append(q, b)] /\ Token(t, q)[b] > 0
         /\ \A p \in DOMAIN t : Under(q, p) => p[MaxDepth] \in DOMAIN Token(t, q) /\ p = Append(q, p[MaxDepth])
<1>1. Levelled(t, Depth) /\ IsTrie(t)
  BY DEF Populated, Levelled
<1>2. /\ q \in Paths /\ Len(q) \in Nat /\ DOMAIN Token(t, q) \in SUBSET Nat
      /\ DOMAIN Token(t, q) = {BinAfter(p, q) : p \in Below(t, q)}
      /\ \A i \in DOMAIN Token(t, q) : Token(t, q)[i] = SumFunctionOnSet(t, Inside(t, q, i)) % CountMod
  BY <1>1, NodeDepth, TokenIs
<1>3. Below(t, q) = {p \in DOMAIN t : Under(q, p)}
  <2>1. Below(t, q) = {p \in DOMAIN t : Len(q) < Len(p) /\ Under(q, p)}
    BY <1>1, <1>2, BelowIs
  <2>2. \A p \in DOMAIN t : Len(q) < Len(p)
    BY <1>2, LeafHasAll DEF Populated
  <2> QED
    BY <2>1, <2>2
<1>4. ASSUME NEW p \in DOMAIN t, Under(q, p)
      PROVE  p[MaxDepth] \in Nat /\ p = Append(q, p[MaxDepth]) /\ BinAfter(p, q) = p[MaxDepth]
  <2>1. p \in Paths /\ Len(p) = MaxDepth /\ MaxDepth \in 1 .. Len(p) /\ MaxDepth \in Nat
    <3>1. p \in Paths /\ Len(p) = MaxDepth
      BY LeafHasAll DEF Populated
    <3>2. MaxDepth \in Nat /\ MaxDepth > 1
      BY BinsAssumption, OneDimAssumption DEF MaxDepth
    <3> QED
      BY <3>1, <3>2
  <2>2. p[MaxDepth] \in Nat
    BY <2>1 DEF Paths
  <2> DEFINE a == Append(q, p[MaxDepth])
  <2>3. a \in Paths /\ Len(a) = Len(q) + 1 /\ (\A i \in 1 .. Len(q) : a[i] = q[i]) /\ a[Len(q) + 1] = p[MaxDepth]
    BY <1>2, <2>2, Extended
  <2> HIDE DEF a
  <2>4. \A i \in 1 .. Len(p) : p[i] = a[i]
    BY <1>2, <1>4, <2>1, <2>3 DEF Under
  <2>5. p = a
    BY <2>1, <2>3, <2>4, SeqEqual DEF Paths
  <2> QED
    BY <2>2, <2>5 DEF a, BinAfter
<1>5. DOMAIN Token(t, q) = {p[MaxDepth] : p \in Below(t, q)}
  <2>1. \A p \in Below(t, q) : BinAfter(p, q) = p[MaxDepth]
    BY <1>3, <1>4
  <2> QED
    BY <1>2, <2>1
<1>6. IsFiniteSet(DOMAIN Token(t, q))
  <2>1. IsFiniteSet(Below(t, q))
    BY <1>1, <1>3, FS_Subset DEF IsTrie
  <2> DEFINE f == [p \in Below(t, q) |-> p[MaxDepth]]
  <2>2. DOMAIN Token(t, q) = {f[p] : p \in Below(t, q)}
    BY <1>5
  <2> HIDE DEF f
  <2> QED
    BY <2>1, <2>2, ImageFinite
<1>7. ASSUME NEW b \in DOMAIN Token(t, q)
      PROVE  Append(q, b) \in DOMAIN t /\ Token(t, q)[b] = t[Append(q, b)] /\ Token(t, q)[b] > 0
  <2> DEFINE a == Append(q, b)
  <2>1. PICK p \in Below(t, q) : b = p[MaxDepth]
    BY <1>5
  <2>2. p = a /\ a \in DOMAIN t /\ a \in Below(t, q) /\ BinAfter(a, q) = b
    BY <1>3, <1>4, <2>1
  <2>3. Inside(t, q, b) = {a}
    <3>1. \A r \in Below(t, q) : BinAfter(r, q) = b => r = a
      BY <1>3, <1>4
    <3> HIDE DEF a
    <3> QED
      BY <2>2, <3>1 DEF Inside
  <2>4. t[a] \in 1 .. CountMod - 1 /\ t[a] \in Int
    BY <2>2, ModAssumption DEF Populated
  <2> HIDE DEF a
  <2>5. SumFunctionOnSet(t, {a}) = t[a]
    BY <2>4, SumOne
  <2>6. t[a] % CountMod = t[a]
    BY <2>4, ModAssumption, SmallModulo
  <2>7. Token(t, q)[b] = t[a]
    BY <1>2, <2>3, <2>5, <2>6
  <2> QED
    BY <2>2, <2>4, <2>7, ModAssumption DEF a
<1>8. ASSUME NEW p \in DOMAIN t, Under(q, p)
      PROVE  p[MaxDepth] \in DOMAIN Token(t, q) /\ p = Append(q, p[MaxDepth])
  BY <1>3, <1>4, <1>5, <1>8
<1> QED
  BY <1>2, <1>6, <1>7, <1>8

\* The histogram of any data is one of those.
LEMMA TrieOfData == ASSUME NEW vs \in Ascending PROVE Populated(TrieOf(vs))
<1> DEFINE t == TrieOf(vs)
           at(p) == {k \in DOMAIN vs : Filed(vs[k]) /\ Holds(Position[p], vs[k])}
<1>1. PICK m \in 0 .. MaxValues : DOMAIN vs = 1 .. m
  BY DEF Ascending
<1>2. m \in Nat /\ m <= CountMod - 1 /\ IsFiniteSet(1 .. m) /\ Cardinality(1 .. m) = m
  BY ScaleAssumption, ModAssumption, FS_Interval
<1>3. DOMAIN t \subseteq Leaves /\ \A p \in DOMAIN t : t[p] = Cardinality(at(p)) /\ at(p) # {}
  BY DEF TrieOf
<1>4. ASSUME NEW p \in DOMAIN t PROVE t[p] \in 1 .. CountMod - 1
  <2>1. at(p) \in SUBSET (1 .. m) /\ at(p) # {} /\ t[p] = Cardinality(at(p))
    BY <1>1, <1>3
  <2> HIDE DEF at, t
  <2>2. IsFiniteSet(at(p)) /\ Cardinality(at(p)) <= m
    BY <1>2, <2>1, FS_Subset
  <2>3. Cardinality(at(p)) \in Nat /\ Cardinality(at(p)) # 0
    BY <2>1, <2>2, FS_CardinalityType, FS_EmptySet
  <2> QED
    BY <1>2, <2>1, <2>2, <2>3, ModAssumption
<1> HIDE DEF t
<1>5. IsFiniteSet(DOMAIN t)
  BY <1>3, LeavesFinite, FS_Subset
<1>6. \A p \in DOMAIN t : t[p] \in Int
  BY <1>4, ModAssumption
<1>7. \A p \in DOMAIN t : p \in Paths \ {<<>>} /\ Len(p) = Depth[p[1]] /\ Len(p) <= MaxDepth
                          /\ \A d \in 1 .. Len(p) : p[d] \in NodeBins(d)
  <2>1. MaxDepth \in Nat
    BY BinsAssumption DEF MaxDepth
  <2> QED
    BY <1>3, <2>1, LeafHasAll, LeafIsPath
<1>8. Levelled(t, Depth)
  BY <1>5, <1>6, <1>7 DEF Levelled, IsTrie
<1> QED
  BY <1>3, <1>4, <1>8 DEF Populated, t

-----------------------------------------------------------------------------
(* Where the loops are.                                                    *)

\* A loop is that of a node, with the children it has yet to read; it has taken the first.
Frames == [path : Paths, todo : SUBSET Nat]
Ticked(st) == [st EXCEPT ![Len(st)].todo = @ \ {Min(@)}]

\* The node whose loop it is, and what the loops have yet to do.
Hand(st)  == st[Len(st)].path
Todos(st) == [l \in DOMAIN st |-> st[l].todo]

\* The next node, and what there is to do after it; the loops once it is read, if it is
\* not a deepest one.
NextOf(st) == Append(Hand(st), Min(st[Len(st)].todo))
NextTodos(st) == [l \in 1 .. Len(st) + 1 |-> IF l = Len(st) + 1 THEN {}
                                            ELSE IF l = Len(st) THEN st[l].todo \ {Min(st[l].todo)} ELSE st[l].todo]
Within(st, node) == Append(Ticked(st), [path |-> NextOf(st), todo |-> DOMAIN node])

\* The nodes read.
Seen(t, st) == Nodes(t) \ Left(Nodes(t), Hand(st), Todos(st), FALSE)

\* The bins of the deepest nodes among those in D.
FoundIn(t, D) == {p \in DOMAIN t : SubSeq(p, 1, MaxDepth - 1) \in D}

\* The frames are those of the node at hand and the nodes above it; the next token is
\* the one after those of the nodes read, and their bins have been found.
Walking(t, st, cur, bs) ==
  /\ st \in Seq(Frames) /\ Len(st) \in 1 .. MaxDepth - 1
  /\ \A l \in 1 .. Len(st) : Len(st[l].path) = l - 1 /\ Under(st[l].path, Hand(st))
  /\ Placed(Nodes(t), Hand(st), Todos(st), FALSE) /\ Parted(Nodes(t), Hand(st), Todos(st), FALSE)
  /\ cur = Cardinality(Seen(t, st)) + 1
  /\ Listed(bs, t, FoundIn(t, Seen(t, st)))

\* The node at is the next to be read, and todo is what there is to do after that.
AtHand(t, at, todo, cur) ==
  /\ Placed(Nodes(t), at, todo, TRUE) /\ Parted(Nodes(t), at, todo, TRUE)
  /\ cur = Cardinality(Nodes(t) \ Left(Nodes(t), at, todo, TRUE)) + 1

\* The file is what was written, whole, cut or one node too long.
OfFile(f, t) == f \in {Wire(t), Overlong(Wire(t))} \cup Torn(Wire(t))

\* What holds wherever the constructor is.
QueryInv ==
  /\ Populated(trie) /\ OfFile(stream, trie)
  /\ pc \in {"root", "walk", "eof", "sort", "ready", "thrown"}
  /\ pc = "root" => cursor = 1 /\ bins = <<>> /\ shift = 1
  /\ pc \in {"walk", "eof", "sort", "ready"} => trieCount = Observed(trie)
  /\ pc = "walk" => Walking(trie, stack, cursor, bins) /\ shift = 1
  /\ pc = "eof" => cursor = Cardinality(Nodes(trie)) + 1 /\ shift = 1
  /\ pc \in {"eof", "sort", "ready"} => Listed(bins, trie, DOMAIN trie)
  /\ pc \in {"sort", "ready"} => stream = Wire(trie)
  /\ pc = "sort" => shift \in Nat \ {0} /\ Ordered(bins, shift)
  /\ pc = "ready" => \A j, k \in DOMAIN bins : j < k => bins[j].position < bins[k].position
  /\ pc = "thrown" => stream # Wire(trie)

\* What the loops have to do.
LEMMA FramesAre ==
  ASSUME NEW st \in Seq(Frames)
  PROVE  /\ Len(st) \in Nat /\ DOMAIN st = 1 .. Len(st)
         /\ Todos(st) \in Seq(SUBSET Nat) /\ Len(Todos(st)) = Len(st)
         /\ \A l \in 1 .. Len(st) : st[l].path \in Paths /\ st[l].todo \in SUBSET Nat /\ Todos(st)[l] = st[l].todo
<1>1. Len(st) \in Nat /\ DOMAIN st = 1 .. Len(st)
  BY LenProperties
<1>2. \A l \in 1 .. Len(st) : st[l] \in Frames
  BY ElementOfSeq
<1>3. \A l \in 1 .. Len(st) : st[l].path \in Paths /\ st[l].todo \in SUBSET Nat
  BY <1>2 DEF Frames
<1>4. Todos(st) \in [1 .. Len(st) -> SUBSET Nat]
  BY <1>1, <1>3 DEF Todos
<1>5. Todos(st) \in Seq(SUBSET Nat) /\ Len(Todos(st)) = Len(st)
  BY <1>1, <1>4, SeqDef
<1> QED
  BY <1>1, <1>3, <1>5 DEF Todos

\* The innermost loop takes its next child.
LEMMA Ticks ==
  ASSUME NEW st \in Seq(Frames), Len(st) # 0
  PROVE  /\ Ticked(st) \in Seq(Frames) /\ Len(Ticked(st)) = Len(st)
         /\ \A l \in 1 .. Len(st) :
              /\ Ticked(st)[l].path = st[l].path
              /\ Ticked(st)[l].todo = IF l = Len(st) THEN st[l].todo \ {Min(st[l].todo)} ELSE st[l].todo
<1> DEFINE n == Len(st)
           i == Min(st[n].todo)
<1>1. n \in Nat /\ DOMAIN st = 1 .. n /\ n \in 1 .. n
  BY FramesAre
<1>2. \A l \in 1 .. n : st[l] \in Frames
  BY ElementOfSeq
<1>3. Ticked(st) = [st EXCEPT ![n] = [path |-> st[n].path, todo |-> st[n].todo \ {i}]]
  <2>1. st[n] \in Frames
    BY <1>1, <1>2
  <2>2. st[n] = [path |-> st[n].path, todo |-> st[n].todo]
    BY <2>1 DEF Frames
  <2>3. [st[n] EXCEPT !.todo = @ \ {i}] = [path |-> st[n].path, todo |-> st[n].todo \ {i}]
    <3>1. ASSUME NEW r \in Frames, NEW x PROVE [r EXCEPT !.todo = x] = [path |-> r.path, todo |-> x]
      BY DEF Frames
    <3> HIDE DEF i
    <3>2. [st[n] EXCEPT !.todo = st[n].todo \ {i}] = [path |-> st[n].path, todo |-> st[n].todo \ {i}]
      BY <2>1, <3>1
    <3> QED
      BY <3>2
  <2> QED
    BY <2>3 DEF Ticked
<1> DEFINE top == [path |-> st[n].path, todo |-> st[n].todo \ {i}]
<1>4. top \in Frames
  BY <1>1, <1>2 DEF Frames
<1>5. Ticked(st) = [l \in 1 .. n |-> IF l = n THEN top ELSE st[l]]
  BY <1>1, <1>3
<1>6. top.path = st[n].path /\ top.todo = st[n].todo \ {i}
  OBVIOUS
<1> HIDE DEF top, n
<1>7. Ticked(st) \in [1 .. n -> Frames]
  BY <1>2, <1>4, <1>5
<1>8. Ticked(st) \in Seq(Frames) /\ Len(Ticked(st)) = n
  BY <1>1, <1>7, SeqDef
<1>9. \A l \in 1 .. n : Ticked(st)[l] = IF l = n THEN top ELSE st[l]
  BY <1>5
<1> QED
  BY <1>6, <1>8, <1>9 DEF n, i

\* A loop within it starts.
LEMMA Pushed ==
  ASSUME NEW st \in Seq(Frames), Len(st) # 0, NEW fr \in Frames
  PROVE  /\ Append(Ticked(st), fr) \in Seq(Frames) /\ Len(Append(Ticked(st), fr)) = Len(st) + 1
         /\ Append(Ticked(st), fr)[Len(st) + 1] = fr
         /\ \A l \in 1 .. Len(st) : Append(Ticked(st), fr)[l] = Ticked(st)[l]
<1>1. Ticked(st) \in Seq(Frames) /\ Len(Ticked(st)) = Len(st)
  BY Ticks
<1> QED
  BY <1>1, AppendProperties

\* The frames of a walk, as the lemmas about walks (TrieProofs) have them.
LEMMA WalkingIs ==
  ASSUME NEW t, Populated(t), NEW st, NEW cur, NEW bs, Walking(t, st, cur, bs)
  PROVE  /\ Levelled(t, Depth) /\ IsTrie(t)
         /\ Nodes(t) \in SUBSET Paths /\ IsFiniteSet(Nodes(t))
         /\ st \in Seq(Frames) /\ Len(st) \in Nat \ {0} /\ Len(st) < MaxDepth /\ MaxDepth \in Nat
         /\ Hand(st) \in Nodes(t) /\ Hand(st) \in Paths /\ Len(Hand(st)) = Len(st) - 1
         /\ Todos(st) \in Seq(SUBSET Nat) /\ Len(Todos(st)) = Len(st)
         /\ \A l \in 1 .. Len(st) : st[l].path \in Paths /\ st[l].todo \in SUBSET Nat /\ Todos(st)[l] = st[l].todo
<1>1. Levelled(t, Depth) /\ IsTrie(t)
  BY DEF Populated, Levelled
<1>2. Nodes(t) \in SUBSET Paths /\ IsFiniteSet(Nodes(t))
  BY <1>1, NodesArePaths
<1>3. MaxDepth \in Nat
  BY BinsAssumption DEF MaxDepth
<1>4. st \in Seq(Frames) /\ Len(st) \in 1 .. MaxDepth - 1 /\ Placed(Nodes(t), Hand(st), Todos(st), FALSE)
  BY Zenon DEF Walking
<1>5. Len(st) \in Nat \ {0} /\ Len(st) < MaxDepth /\ Len(st) \in 1 .. Len(st)
  BY <1>3, <1>4
<1>6. Hand(st) \in Nodes(t) /\ Len(Hand(st)) = Len(st) - 1
  <2>1. \A l \in 1 .. Len(st) : Len(st[l].path) = l - 1
    BY Zenon DEF Walking
  <2>2. Len(st[Len(st)].path) = Len(st) - 1
    BY <1>5, <2>1, Zenon
  <2> QED
    BY <1>4, <2>2 DEF Placed, Hand
<1>7. /\ Todos(st) \in Seq(SUBSET Nat) /\ Len(Todos(st)) = Len(st)
      /\ \A l \in 1 .. Len(st) : st[l].path \in Paths /\ st[l].todo \in SUBSET Nat /\ Todos(st)[l] = st[l].todo
  BY <1>4, FramesAre
<1> QED
  BY <1>1, <1>2, <1>3, <1>4, <1>5, <1>6, <1>7

\* The node that the loop goes on to is the first of those not read.
LEMMA NextNode ==
  ASSUME NEW t, Populated(t), NEW st, NEW cur, NEW bs, Walking(t, st, cur, bs), st[Len(st)].todo # {}
  PROVE  /\ NextOf(st) \in Nodes(t) /\ NextOf(st) \in Paths
         /\ Len(NextOf(st)) = Len(st) /\ Under(Hand(st), NextOf(st))
         /\ NextTodos(st) \in Seq(SUBSET Nat) /\ Len(NextTodos(st)) = Len(st) + 1
         /\ \A l \in 1 .. Len(st) + 1 :
              NextTodos(st)[l] = IF l = Len(st) + 1 THEN {}
                                 ELSE IF l = Len(st) THEN st[l].todo \ {Min(st[l].todo)} ELSE st[l].todo
         /\ AtHand(t, NextOf(st), NextTodos(st), cur)
         /\ Left(Nodes(t), NextOf(st), NextTodos(st), TRUE) = Left(Nodes(t), Hand(st), Todos(st), FALSE)
<1> DEFINE n == Len(st)
           next == NextTodos(st)
           at == Hand(st)
           todo == Todos(st)
           i == Min(st[n].todo)
           X == Nodes(t)
<1>1. /\ X \in SUBSET Paths /\ n \in Nat \ {0} /\ at \in Paths /\ Len(at) = n - 1
      /\ todo \in Seq(SUBSET Nat) /\ Len(todo) = n
      /\ \A l \in 1 .. n : st[l].todo \in SUBSET Nat /\ todo[l] = st[l].todo
  BY WalkingIs
<1>2. Placed(X, at, todo, FALSE) /\ Parted(X, at, todo, FALSE)
  BY DEF Walking
<1>3. i \in todo[n] /\ (\A b \in todo[n] : i <= b) /\ i \in Nat
  BY <1>1, LeastNat
<1>4. NextOf(st) = Append(at, i)
  BY DEF NextOf
<1>5. next \in [1 .. n + 1 -> SUBSET Nat] /\ n + 1 \in Nat
  BY <1>1 DEF NextTodos
<1>13. \A l \in 1 .. n + 1 : next[l] = IF l = n + 1 THEN {} ELSE IF l = n THEN st[l].todo \ {i} ELSE st[l].todo
  BY Zenon DEF NextTodos
<1>6. ASSUME NEW l \in 1 .. n + 1
      PROVE  next[l] = IF l = n + 1 THEN {} ELSE IF l = n THEN todo[l] \ {i} ELSE todo[l]
  <2>1. next[l] = IF l = n + 1 THEN {} ELSE IF l = n THEN st[l].todo \ {i} ELSE st[l].todo
    BY <1>13
  <2>2. l # n + 1 => l \in 1 .. n
    BY <1>1
  <2>3. l \in 1 .. n => todo[l] = st[l].todo
    BY <1>1
  <2> HIDE DEF n, i, todo
  <2> QED
    BY <2>1, <2>2, <2>3
<1> HIDE DEF n, at, todo, i, X, next
<1>7. next \in Seq(SUBSET Nat) /\ Len(next) = n + 1
  BY <1>5, SeqDef
<1>8. Deeper(next, todo, i)
  BY <1>1, <1>3, <1>6, <1>7 DEF Deeper
<1>9. /\ Append(at, i) \in X
      /\ Placed(X, Append(at, i), next, TRUE) /\ Parted(X, Append(at, i), next, TRUE)
      /\ Left(X, Append(at, i), next, TRUE) = Left(X, at, todo, FALSE)
  BY <1>1, <1>2, <1>8, ChildEntered
<1>10. /\ Append(at, i) \in Paths /\ Len(Append(at, i)) = n
       /\ Under(at, Append(at, i))
  <2>1. /\ Append(at, i) \in Paths /\ Len(Append(at, i)) = Len(at) + 1
        /\ \A j \in 1 .. Len(at) : Append(at, i)[j] = at[j]
    BY <1>1, <1>3, Extended
  <2> QED
    BY <1>1, <2>1 DEF Under
<1>11. cur = Cardinality(X \ Left(X, at, todo, FALSE)) + 1
  BY DEF Walking, Seen, X, at, todo
<1>12. AtHand(t, Append(at, i), next, cur)
  BY <1>9, <1>11 DEF AtHand, X
<1> QED
  BY <1>4, <1>7, <1>9, <1>10, <1>12, <1>13 DEF n, at, todo, X, next, i

\* What lies in the file for the node at hand: its token, unless the file is cut.
LEMMA TokenThere ==
  ASSUME NEW t, Populated(t), NEW f, OfFile(f, t), NEW at, NEW todo, NEW cur,
         AtHand(t, at, todo, cur)
  PROVE  /\ cur \in Nat \ {0} /\ at \in Left(Nodes(t), at, todo, TRUE)
         /\ cur <= Len(f) => f[cur] = Token(t, at) /\ f[cur] # EOF
         /\ f = Wire(t) => cur <= Len(f)
         /\ Cardinality(Nodes(t) \ (Left(Nodes(t), at, todo, TRUE) \ {at})) = cur
<1> DEFINE X == Nodes(t)
           left == Left(X, at, todo, TRUE)
<1>1. Levelled(t, Depth) /\ IsTrie(t)
  BY DEF Populated, Levelled
<1>2. X \in SUBSET Paths /\ IsFiniteSet(X)
  BY <1>1, NodesArePaths
<1>3. at \in X /\ Placed(X, at, todo, TRUE) /\ Parted(X, at, todo, TRUE) /\ cur = Cardinality(X \ left) + 1
  BY DEF AtHand, Placed
<1>4. at \in left
  BY <1>2, <1>3 DEF Left, Under, Paths
<1>5. Rank(X, at) = Cardinality(X \ left)
  <2> HIDE DEF X
  <2> QED
    BY <1>2, <1>3, HereRank
<1>6. Rank(X, at) \in Nat /\ Rank(X, at) < Cardinality(X) /\ Cardinality(X) \in Nat
  <2> HIDE DEF X
  <2> QED
    BY <1>2, <1>3, RankRange, FS_CardinalityType
<1>7. cur \in 1 .. Cardinality(X) /\ Encode(t)[cur] = Token(t, at)
  <2>1. Encode(t)[Rank(X, at) + 1] = Token(t, at)
    BY <1>2, <1>3, EncodeAt
  <2>2. cur = Rank(X, at) + 1
    BY <1>3, <1>5
  <2> HIDE DEF X
  <2> QED
    BY <1>6, <2>1, <2>2
<1>8. Cardinality(X \ (left \ {at})) = cur
  <2>1. X \ (left \ {at}) = (X \ left) \cup {at} /\ at \notin X \ left
    BY <1>3, <1>4
  <2>2. IsFiniteSet(X \ left)
    BY <1>2, FS_Subset
  <2> HIDE DEF left, X
  <2>3. Cardinality((X \ left) \cup {at}) = Cardinality(X \ left) + 1
    BY <2>1, <2>2, FS_AddElement
  <2> QED
    BY <1>3, <2>1, <2>3 DEF left, X
<1>9. /\ Len(f) \in Nat
      /\ \A k \in 1 .. Cardinality(X) : k <= Len(f) => f[k] = Encode(t)[k]
      /\ f = Wire(t) <=> Cardinality(X) + 1 <= Len(f) /\ f[Cardinality(X) + 1] = EOF
  <2>1. f = Wire(t) \/ f \in Torn(Wire(t)) \/ f = Overlong(Wire(t))
    BY DEF OfFile
  <2> QED
    BY <1>1, <2>1, FileIs
<1>10. Token(t, at) # EOF
  BY <1>1, <1>3, TokenUnlikeEOF
<1> HIDE DEF X, left
<1>11. f = Wire(t) => cur <= Len(f)
  BY <1>6, <1>7, <1>9
<1>12. cur <= Len(f) => f[cur] = Token(t, at) /\ f[cur] # EOF
  BY <1>7, <1>9, <1>10
<1>13. cur \in Nat \ {0}
  BY <1>6, <1>7
<1> QED
  BY <1>4, <1>8, <1>11, <1>12, <1>13 DEF X, left

\* An inner node has been read: its own loop is the next one.
LEMMA InnerRead ==
  ASSUME NEW t, Populated(t), NEW f, OfFile(f, t), NEW st, NEW cur, NEW bs, Walking(t, st, cur, bs),
         st[Len(st)].todo # {}, Len(st) + 1 < MaxDepth, cur <= Len(f),
         NEW on, on = Within(st, f[cur])
  PROVE  Walking(t, on, cur + 1, bs)
<1> DEFINE n == Len(st)
           X == Nodes(t)
           to == NextOf(st)
           next == NextTodos(st)
           C == DOMAIN Token(t, to)
<1>1. /\ IsTrie(t) /\ X \in SUBSET Paths /\ IsFiniteSet(X) /\ st \in Seq(Frames)
      /\ Hand(st) \in Paths /\ Len(Hand(st)) = n - 1
  BY WalkingIs
<1>2. n \in Nat \ {0} /\ MaxDepth \in Nat
  BY WalkingIs
<1>3. /\ to \in X /\ to \in Paths /\ Len(to) = n /\ Under(Hand(st), to)
      /\ next \in Seq(SUBSET Nat) /\ Len(next) = n + 1
      /\ AtHand(t, to, next, cur)
      /\ Left(X, to, next, TRUE) = Left(X, Hand(st), Todos(st), FALSE)
  BY NextNode
<1>4. /\ f[cur] = Token(t, to) /\ to \in Left(X, to, next, TRUE)
      /\ Cardinality(X \ (Left(X, to, next, TRUE) \ {to})) = cur
  <2> HIDE DEF to, next
  <2> QED
    BY <1>3, TokenThere
<1>5. C \in SUBSET Nat /\ \A b \in Nat : b \in C <=> Append(to, b) \in X
  <2> HIDE DEF to
  <2> QED
    BY <1>2, <1>3, InnerNode
<1>6. /\ on \in Seq(Frames) /\ Len(on) = n + 1 /\ on[n + 1] = [path |-> to, todo |-> C]
      /\ \A l \in 1 .. n : on[l] = Ticked(st)[l]
  <2> DEFINE top == [path |-> to, todo |-> C]
  <2>1. on = Append(Ticked(st), top)
    BY <1>4 DEF Within
  <2>2. top \in Frames
    BY <1>3, <1>5 DEF Frames
  <2>3. Len(st) # 0
    BY <1>2
  <2> HIDE DEF top
  <2>4. st \in Seq(Frames)
    BY <1>1
  <2> HIDE DEF n, to, C
  <2>5. /\ on \in Seq(Frames) /\ Len(on) = Len(st) + 1 /\ on[Len(st) + 1] = top
        /\ \A l \in 1 .. Len(st) : on[l] = Ticked(st)[l]
    BY <2>1, <2>2, <2>3, <2>4, Pushed
  <2> QED
    BY <2>5 DEF top, n
<1>7. /\ on[n + 1].path = to /\ on[n + 1].todo = C
      /\ \A l \in 1 .. n : /\ on[l].path = st[l].path
                           /\ on[l].todo = IF l = n THEN st[l].todo \ {Min(st[l].todo)} ELSE st[l].todo
  <2>1. Len(st) # 0
    BY <1>2
  <2>2. \A l \in 1 .. n : Ticked(st)[l].path = st[l].path
                           /\ Ticked(st)[l].todo = IF l = n THEN st[l].todo \ {Min(st[l].todo)} ELSE st[l].todo
    BY <1>1, <2>1, Ticks
  <2> HIDE DEF n, to, C
  <2>3. on[n + 1] = [path |-> to, todo |-> C]
    BY <1>6
  <2>4. on[n + 1].path = to /\ on[n + 1].todo = C
    BY <2>3
  <2>5. \A l \in 1 .. n : on[l] = Ticked(st)[l]
    BY <1>6
  <2> QED
    BY <2>2, <2>4, <2>5
<1>8. Hand(on) = to
  BY <1>6, <1>7 DEF Hand
<1>9. Todos(on) \in Seq(SUBSET Nat) /\ Len(Todos(on)) = n + 1 /\ \A l \in 1 .. n + 1 : Todos(on)[l] = on[l].todo
  BY <1>6, FramesAre
<1>10. \A l \in 1 .. n + 1 : next[l] = IF l = n + 1 THEN {}
                                       ELSE IF l = n THEN st[l].todo \ {Min(st[l].todo)} ELSE st[l].todo
  BY NextNode
<1> HIDE DEF n, to, next, C, X
<1>11. ReadOn(Todos(on), next, C)
  <2>1. ASSUME NEW l \in 1 .. n + 1 PROVE Todos(on)[l] = IF l = n + 1 THEN C ELSE next[l]
    <3>1. l # n + 1 => l \in 1 .. n
      BY <1>2
    <3> QED
      BY <1>7, <1>9, <1>10, <3>1
  <2> QED
    BY <1>3, <1>5, <1>9, <2>1 DEF ReadOn
<1>12. /\ Placed(X, to, Todos(on), FALSE) /\ Parted(X, to, Todos(on), FALSE)
       /\ Left(X, to, Todos(on), FALSE) = Left(X, to, next, TRUE) \ {to}
  <2>1. Placed(X, to, next, TRUE) /\ Parted(X, to, next, TRUE)
    BY <1>3 DEF AtHand, X
  <2>2. \A b \in Nat : b \in C <=> Append(to, b) \in Nodes(t)
    BY <1>5 DEF X
  <2> QED
    BY <1>1, <1>11, <2>1, <2>2, ChildrenLeft DEF X
<1>13. Seen(t, on) = Seen(t, st) \cup {to} /\ Cardinality(Seen(t, on)) = cur
  BY <1>3, <1>4, <1>8, <1>12 DEF Seen, X
<1>14. ASSUME NEW l \in 1 .. n + 1 PROVE Len(on[l].path) = l - 1 /\ Under(on[l].path, to)
  <2>1. CASE l = n + 1
    <3>1. on[l].path = to /\ Len(to) = l - 1
      BY <1>2, <1>3, <1>7, <2>1
    <3> QED
      BY <1>2, <2>1, <3>1 DEF Under
  <2>2. CASE l # n + 1
    <3>1. l \in 1 .. n
      BY <1>2, <2>2
    <3>2. on[l].path = st[l].path
      BY <1>7, <3>1
    <3>3. Len(st[l].path) = l - 1 /\ Under(st[l].path, Hand(st))
      BY <3>1 DEF Walking, n
    <3>4. Under(st[l].path, to)
      BY <1>1, <1>2, <1>3, <3>1, <3>3 DEF Under
    <3> QED
      BY <3>2, <3>3, <3>4
  <2> QED
    BY <2>1, <2>2
<1>15. FoundIn(t, Seen(t, on)) = FoundIn(t, Seen(t, st))
  <2>1. ASSUME NEW p \in DOMAIN t PROVE SubSeq(p, 1, MaxDepth - 1) # to
    <3>1. p \in Paths /\ Len(p) = MaxDepth /\ MaxDepth > 1
      BY LeafHasAll, OneDimAssumption DEF Populated
    <3>2. Len(SubSeq(p, 1, MaxDepth - 1)) = MaxDepth - 1
      BY <1>2, <3>1, Beginning
    <3> QED
      BY <1>2, <1>3, <3>2 DEF n
  <2> QED
    BY <1>13, <2>1 DEF FoundIn
<1>16. Listed(bs, t, FoundIn(t, Seen(t, on)))
  BY <1>15 DEF Walking
<1>17. Len(on) \in 1 .. MaxDepth - 1
  BY <1>2, <1>6 DEF n
<1> QED
  BY <1>6, <1>8, <1>12, <1>13, <1>14, <1>16, <1>17 DEF Walking, X

\* A path that begins with a node lies under it.
LEMMA LeafUnder ==
  ASSUME NEW t, Populated(t), NEW p \in DOMAIN t, NEW q \in Paths, Len(q) = MaxDepth - 1
  PROVE  SubSeq(p, 1, MaxDepth - 1) = q <=> Under(q, p)
<1> DEFINE u == SubSeq(p, 1, MaxDepth - 1)
<1>1. p \in Paths /\ Len(p) = MaxDepth /\ MaxDepth \in Nat /\ MaxDepth > 1
  BY LeafHasAll, BinsAssumption, OneDimAssumption DEF Populated, MaxDepth
<1>2. MaxDepth - 1 \in 0 .. Len(p)
  BY <1>1
<1>3. u \in Paths /\ Len(u) = MaxDepth - 1 /\ \A i \in 1 .. MaxDepth - 1 : u[i] = p[i]
  BY <1>1, <1>2, Beginning
<1> HIDE DEF u
<1>4. ASSUME u = q PROVE Under(q, p)
  BY <1>1, <1>3, <1>4 DEF Under
<1>5. ASSUME Under(q, p) PROVE u = q
  <2>1. \A i \in 1 .. Len(q) : u[i] = q[i]
    BY <1>3, <1>5 DEF Under
  <2> QED
    BY <1>3, <2>1, SeqEqual DEF Paths
<1> QED
  BY <1>4, <1>5 DEF u

\* The bins of one more node, put behind those found.
LEMMA ListedMore ==
  ASSUME NEW t, NEW P, NEW Q, P \cap Q = {}, NEW as, Listed(as, t, P), NEW bs, Listed(bs, t, Q)
  PROVE  Listed(as \o bs, t, P \cup Q)
<1> DEFINE A == {Entry(t, p) : p \in P}
           B == {Entry(t, p) : p \in Q}
           S == {Entry(t, p) : p \in P \cup Q}
           m == Len(as)
           n == Len(bs)
           cs == as \o bs
<1>1. as \in Seq(A) /\ bs \in Seq(B)
  BY DEF Listed
<1>2. m \in Nat /\ n \in Nat /\ DOMAIN as = 1 .. m /\ DOMAIN bs = 1 .. n
  BY <1>1, LenProperties
<1>3. as \in Seq(S) /\ bs \in Seq(S)
  <2>1. A \subseteq S /\ B \subseteq S
    OBVIOUS
  <2> HIDE DEF A, B, S
  <2>2. as \in [1 .. m -> A] /\ bs \in [1 .. n -> B]
    BY <1>1, LenProperties
  <2>3. as \in [1 .. m -> S] /\ bs \in [1 .. n -> S]
    BY <2>1, <2>2
  <2> HIDE DEF m, n
  <2> QED
    BY <1>2, <2>3, SeqDef
<1>4. /\ cs \in Seq(S) /\ Len(cs) = m + n /\ DOMAIN cs = 1 .. m + n
      /\ \A k \in 1 .. m + n : cs[k] = IF k <= m THEN as[k] ELSE bs[k - m]
  <2>1. cs \in Seq(S) /\ Len(cs) = m + n
    BY <1>3, ConcatProperties
  <2>2. \A k \in 1 .. m + n : cs[k] = IF k <= m THEN as[k] ELSE bs[k - m]
    BY <1>3, ConcatProperties
  <2> QED
    BY <2>1, <2>2, LenProperties
<1>5. /\ \A k \in 1 .. m : as[k].code \in P
      /\ \A k \in 1 .. n : bs[k].code \in Q
  <2>1. \A k \in 1 .. m : as[k] \in A
    BY <1>1, <1>2, ElementOfSeq
  <2>2. \A k \in 1 .. n : bs[k] \in B
    BY <1>1, <1>2, ElementOfSeq
  <2>3. (\A e \in A : e.code \in P) /\ (\A e \in B : e.code \in Q)
    BY DEF Entry
  <2> HIDE DEF A, B
  <2> QED
    BY <2>1, <2>2, <2>3
<1>6. /\ \A p \in P : \E k \in 1 .. m : as[k].code = p
      /\ \A p \in Q : \E k \in 1 .. n : bs[k].code = p
      /\ \A j, k \in 1 .. m : as[j].code = as[k].code => j = k
      /\ \A j, k \in 1 .. n : bs[j].code = bs[k].code => j = k
  BY <1>2 DEF Listed
<1> HIDE DEF m, n, cs, A, B, S
<1>7. ASSUME NEW p \in P \cup Q PROVE \E k \in 1 .. m + n : cs[k].code = p
  <2>1. CASE p \in P
    <3>1. PICK k \in 1 .. m : as[k].code = p
      BY <1>6, <2>1
    <3>2. k \in 1 .. m + n /\ k <= m
      BY <1>2, <3>1
    <3> QED
      BY <1>4, <3>1, <3>2
  <2>2. CASE p \in Q
    <3>1. PICK k \in 1 .. n : bs[k].code = p
      BY <1>6, <2>2
    <3>2. m + k \in 1 .. m + n /\ ~ (m + k <= m) /\ (m + k) - m = k
      BY <1>2, <3>1
    <3> QED
      BY <1>4, <3>1, <3>2
  <2> QED
    BY <2>1, <2>2
<1>8. ASSUME NEW j \in 1 .. m + n, NEW k \in 1 .. m + n, cs[j].code = cs[k].code PROVE j = k
  <2>1. /\ j <= m => j \in 1 .. m
        /\ k <= m => k \in 1 .. m
        /\ ~ (j <= m) => j - m \in 1 .. n
        /\ ~ (k <= m) => k - m \in 1 .. n
    BY <1>2
  <2>2. cs[j] = (IF j <= m THEN as[j] ELSE bs[j - m]) /\ cs[k] = (IF k <= m THEN as[k] ELSE bs[k - m])
    BY <1>4
  <2>3. CASE j <= m /\ k <= m
    BY <1>6, <1>8, <2>1, <2>2, <2>3
  <2>4. CASE ~ (j <= m) /\ ~ (k <= m)
    <3>1. j - m = k - m
      BY <1>6, <1>8, <2>1, <2>2, <2>4
    <3> QED
      BY <1>2, <3>1
  <2>5. CASE j <= m /\ ~ (k <= m)
    BY <1>5, <1>8, <2>1, <2>2, <2>5
  <2>6. CASE ~ (j <= m) /\ k <= m
    BY <1>5, <1>8, <2>1, <2>2, <2>6
  <2> QED
    BY <2>3, <2>4, <2>5, <2>6
<1> QED
  BY <1>4, <1>7, <1>8 DEF Listed, cs, S

\* The bins of a deepest node.
Bunch(node, path) ==
  LET found == Nth({i \in DOMAIN node : node[i] > 0})
  IN  [k \in DOMAIN found |-> [position |-> Position[Append(path, found[k])],
                               code     |-> Append(path, found[k]),
                               count    |-> node[found[k]]]]

\* They are those of the paths that begin with it.
LEMMA BunchIs ==
  ASSUME NEW t, Populated(t), NEW q \in Nodes(t), Len(q) + 1 = MaxDepth
  PROVE  Listed(Bunch(Token(t, q), q), t, {p \in DOMAIN t : Under(q, p)})
<1> DEFINE node == Token(t, q)
           C == DOMAIN node
           P == {p \in DOMAIN t : Under(q, p)}
           nth == Nth(C)
           n == Cardinality(C)
           S == {Entry(t, p) : p \in P}
           bs == Bunch(node, q)
<1>1. /\ q \in Paths /\ Len(q) \in Nat /\ C \in SUBSET Nat /\ IsFiniteSet(C)
      /\ \A b \in C : Append(q, b) \in DOMAIN t /\ node[b] = t[Append(q, b)] /\ node[b] > 0
      /\ \A p \in P : p[MaxDepth] \in C /\ p = Append(q, p[MaxDepth])
  BY DeepestNode
<1>2. {i \in C : node[i] > 0} = C
  BY <1>1
<1>3. /\ \A k \in 1 .. n : nth[k] \in C
      /\ \A k, l \in 1 .. n : k < l => nth[k] < nth[l]
      /\ \A i \in C : \E k \in 1 .. n : nth[k] = i
  <2> HIDE DEF C
  <2> QED
    BY <1>1, NthOf
<1>4. n \in Nat /\ DOMAIN nth = 1 .. n
  <2>1. DOMAIN nth = 1 .. n
    BY DEF Nth
  <2> HIDE DEF C, nth
  <2> QED
    BY <1>1, <2>1, FS_CardinalityType
<1>5. bs = [k \in 1 .. n |-> [position |-> Position[Append(q, nth[k])], code |-> Append(q, nth[k]),
                              count |-> node[nth[k]]]]
  BY <1>2, <1>4 DEF Bunch
<1> HIDE DEF node, C, nth, n, bs
<1>6. ASSUME NEW k \in 1 .. n PROVE bs[k] = Entry(t, Append(q, nth[k])) /\ Append(q, nth[k]) \in P
  <2>1. nth[k] \in C /\ nth[k] \in Nat
    BY <1>1, <1>3
  <2>2. Under(q, Append(q, nth[k]))
    BY <1>1, <2>1, Extended DEF Under
  <2> QED
    BY <1>1, <1>5, <2>1, <2>2 DEF Entry
<1> HIDE DEF P
<1>7. bs \in Seq(S)
  <2>1. bs \in [1 .. n -> S]
    BY <1>5, <1>6
  <2> QED
    BY <1>4, <2>1, SeqDef
<1>8. DOMAIN bs = 1 .. n /\ \A k \in 1 .. n : bs[k].code = Append(q, nth[k])
  BY <1>5
<1>9. ASSUME NEW p \in P PROVE \E k \in 1 .. n : bs[k].code = p
  <2>1. PICK k \in 1 .. n : nth[k] = p[MaxDepth]
    BY <1>1, <1>3
  <2> QED
    BY <1>1, <1>8, <2>1
<1>10. ASSUME NEW j \in 1 .. n, NEW k \in 1 .. n, bs[j].code = bs[k].code PROVE j = k
  <2>1. nth[j] \in Nat /\ nth[k] \in Nat
    BY <1>1, <1>3
  <2>2. Append(q, nth[j])[Len(q) + 1] = nth[j] /\ Append(q, nth[k])[Len(q) + 1] = nth[k]
    BY <1>1, <2>1, Extended
  <2>3. nth[j] = nth[k]
    BY <1>8, <1>10, <2>2
  <2>4. ~ (j < k) /\ ~ (k < j)
    BY <1>3, <2>1, <2>3
  <2> QED
    BY <1>4, <2>4
<1> QED
  BY <1>7, <1>8, <1>9, <1>10 DEF Listed, P, bs, node

\* A deepest node has been read, and its bins are found.
LEMMA LeafRead ==
  ASSUME NEW t, Populated(t), NEW f, OfFile(f, t), NEW st, NEW cur, NEW bs, Walking(t, st, cur, bs),
         st[Len(st)].todo # {}, Len(st) + 1 = MaxDepth, cur <= Len(f)
  PROVE  Walking(t, Ticked(st), cur + 1, bs \o Bunch(f[cur], NextOf(st)))
<1> DEFINE n == Len(st)
           X == Nodes(t)
           on == Ticked(st)
           path == NextOf(st)
           next == NextTodos(st)
<1>1. /\ IsTrie(t) /\ X \in SUBSET Paths /\ IsFiniteSet(X) /\ st \in Seq(Frames)
      /\ Hand(st) \in X /\ Hand(st) \in Paths /\ Len(Hand(st)) = n - 1
  BY WalkingIs
<1>2. n \in Nat \ {0} /\ MaxDepth \in Nat
  BY WalkingIs
<1>3. /\ path \in X /\ path \in Paths /\ Len(path) = n /\ Under(Hand(st), path)
      /\ next \in Seq(SUBSET Nat) /\ Len(next) = n + 1
      /\ AtHand(t, path, next, cur)
      /\ Left(X, path, next, TRUE) = Left(X, Hand(st), Todos(st), FALSE)
  BY NextNode
<1>4. \A l \in 1 .. n + 1 : next[l] = IF l = n + 1 THEN {}
                                      ELSE IF l = n THEN st[l].todo \ {Min(st[l].todo)} ELSE st[l].todo
  BY NextNode
<1> HIDE DEF next, path
<1>5. /\ f[cur] = Token(t, path) /\ path \in Left(X, path, next, TRUE)
      /\ Cardinality(X \ (Left(X, path, next, TRUE) \ {path})) = cur
  BY <1>3, TokenThere
<1>6. /\ on \in Seq(Frames) /\ Len(on) = n
      /\ \A l \in 1 .. n : /\ on[l].path = st[l].path
                           /\ on[l].todo = IF l = n THEN st[l].todo \ {Min(st[l].todo)} ELSE st[l].todo
  <2>1. Len(st) # 0
    BY <1>2
  <2> QED
    BY <1>1, <2>1, Ticks
<1>7. Hand(on) = Hand(st)
  <2>1. Len(on) = n /\ n \in 1 .. n
    BY <1>2, <1>6
  <2>2. on[n].path = st[n].path
    BY <1>6, <2>1
  <2> QED
    BY <2>1, <2>2 DEF Hand
<1> HIDE DEF n, on
<1>8. Todos(on) \in Seq(SUBSET Nat) /\ Len(Todos(on)) = n /\ \A l \in 1 .. n : Todos(on)[l] = on[l].todo
  BY <1>6, FramesAre
<1>9. \A b \in Nat : Append(path, b) \notin X
  <2> SUFFICES ASSUME NEW b \in Nat, Append(path, b) \in X PROVE FALSE
    OBVIOUS
  <2>1. Levelled(t, Depth)
    BY DEF Populated
  <2>2. Len(Append(path, b)) + 1 \in 1 .. MaxDepth
    BY <2>1, NodeDepth
  <2>3. Len(Append(path, b)) = Len(path) + 1
    BY <1>3, Extended
  <2> QED
    BY <1>2, <1>3, <2>2, <2>3 DEF n
<1>10. ReadOn(next, next, {})
  <2>1. \A l \in 1 .. Len(next) : next[l] = IF l = Len(next) THEN {} ELSE next[l]
    BY <1>2, <1>3, <1>4
  <2> QED
    BY <1>3, <2>1 DEF ReadOn
<1>11. /\ Placed(X, path, next, FALSE) /\ Parted(X, path, next, FALSE)
       /\ Left(X, path, next, FALSE) = Left(X, path, next, TRUE) \ {path}
  <2>1. Placed(X, path, next, TRUE) /\ Parted(X, path, next, TRUE)
    BY <1>3 DEF AtHand
  <2>2. \A b \in Nat : b \in {} <=> Append(path, b) \in X
    BY <1>9
  <2> QED
    BY <1>1, <1>10, <2>1, <2>2, ChildrenLeft
<1>12. Shallower(Todos(on), next)
  <2>1. next[Len(next)] = {} /\ Len(next) > 1
    BY <1>2, <1>3, <1>4
  <2>2. ASSUME NEW l \in 1 .. n PROVE Todos(on)[l] = next[l]
    <3>1. l \in 1 .. n + 1 /\ l # n + 1
      BY <1>2
    <3>2. next[l] = IF l = n THEN st[l].todo \ {Min(st[l].todo)} ELSE st[l].todo
      BY <1>4, <3>1
    <3>3. Todos(on)[l] = on[l].todo
      BY <1>8
    <3>4. on[l].todo = IF l = n THEN st[l].todo \ {Min(st[l].todo)} ELSE st[l].todo
      BY <1>6
    <3> QED
      BY <3>2, <3>3, <3>4
  <2> QED
    BY <1>2, <1>3, <1>8, <2>1, <2>2 DEF Shallower
<1>13. /\ Placed(X, Hand(st), Todos(on), FALSE) /\ Parted(X, Hand(st), Todos(on), FALSE)
       /\ Left(X, Hand(st), Todos(on), FALSE) = Left(X, path, next, TRUE) \ {path}
  <2>1. Len(Hand(st)) = Len(path) - 1
    BY <1>1, <1>3
  <2> HIDE DEF X
  <2>2. X \in SUBSET Paths /\ Hand(st) \in X /\ Under(Hand(st), path)
    BY <1>1, <1>3
  <2>3. /\ Placed(X, Hand(st), Todos(on), FALSE) /\ Parted(X, Hand(st), Todos(on), FALSE)
        /\ Left(X, Hand(st), Todos(on), FALSE) = Left(X, path, next, FALSE)
    <3>1. Placed(X, path, next, FALSE) /\ Parted(X, path, next, FALSE)
      BY <1>11
    <3> QED
      BY <1>12, <2>1, <2>2, <3>1, ParentReached, ZenonT(60)
  <2> QED
    BY <1>11, <2>3
<1> HIDE DEF X
<1>14. Seen(t, on) = Seen(t, st) \cup {path} /\ path \notin Seen(t, st) /\ Cardinality(Seen(t, on)) = cur
  BY <1>3, <1>5, <1>7, <1>13 DEF Seen, X
<1>15. \A l \in 1 .. n : Len(on[l].path) = l - 1 /\ Under(on[l].path, Hand(on))
  BY <1>6, <1>7 DEF Walking, n
<1> DEFINE P == FoundIn(t, Seen(t, st))
           Q == {p \in DOMAIN t : Under(path, p)}
<1>16. \A p \in DOMAIN t : SubSeq(p, 1, MaxDepth - 1) = path <=> Under(path, p)
  <2>1. Len(path) = MaxDepth - 1
    BY <1>2, <1>3 DEF n
  <2> QED
    BY <1>3, <2>1, LeafUnder
<1>17. FoundIn(t, Seen(t, on)) = P \cup Q /\ P \cap Q = {}
  BY <1>14, <1>16 DEF FoundIn
<1>18. Listed(Bunch(f[cur], path), t, Q)
  <2>1. Len(path) + 1 = MaxDepth /\ path \in Nodes(t)
    BY <1>2, <1>3 DEF n, X
  <2> QED
    BY <1>5, <2>1, BunchIs
<1>19. Listed(bs, t, P)
  BY DEF Walking
<1> HIDE DEF P, Q
<1>20. Listed(bs \o Bunch(f[cur], path), t, FoundIn(t, Seen(t, on)))
  BY <1>17, <1>18, <1>19, ListedMore
<1>21. Len(on) \in 1 .. MaxDepth - 1
  BY <1>2, <1>6 DEF n
<1> QED
  BY <1>6, <1>7, <1>13, <1>14, <1>15, <1>20, <1>21 DEF Walking, X, on, path

\* A loop is done: its caller's goes on.
LEMMA LoopEnded ==
  ASSUME NEW t, Populated(t), NEW st, NEW cur, NEW bs, Walking(t, st, cur, bs),
         st[Len(st)].todo = {}, Len(st) # 1
  PROVE  Walking(t, Front(st), cur, bs)
<1> DEFINE n == Len(st)
           X == Nodes(t)
           on == Front(st)
<1>1. X \in SUBSET Paths /\ st \in Seq(Frames) /\ IsTrie(t)
  BY WalkingIs
<1>2. n \in Nat \ {0} /\ n < MaxDepth /\ MaxDepth \in Nat /\ n > 1
  <2>1. n \in Nat \ {0} /\ n < MaxDepth /\ MaxDepth \in Nat
    BY WalkingIs
  <2> QED
    BY <2>1
<1>3. Hand(st) \in X /\ Hand(st) \in Paths /\ Len(Hand(st)) = n - 1
  BY WalkingIs
<1>4. /\ Todos(st) \in Seq(SUBSET Nat) /\ Len(Todos(st)) = n
      /\ \A l \in 1 .. n : st[l].path \in Paths /\ st[l].todo \in SUBSET Nat /\ Todos(st)[l] = st[l].todo
  BY WalkingIs
<1>5. Placed(X, Hand(st), Todos(st), FALSE) /\ Parted(X, Hand(st), Todos(st), FALSE)
  BY Zenon DEF Walking
<1>6. \A l \in 1 .. n : Len(st[l].path) = l - 1 /\ Under(st[l].path, Hand(st))
  BY Zenon DEF Walking
<1>7. on \in Seq(Frames) /\ Len(on) = n - 1 /\ \A l \in 1 .. n - 1 : on[l] = st[l]
  <2>2. on = SubSeq(st, 1, n - 1)
    BY DEF Front
  <2>3. 1 \in 1 .. n + 1 /\ n - 1 \in 0 .. n
    BY <1>2
  <2> HIDE DEF on
  <2> QED
    BY <1>1, <1>2, <2>2, <2>3, SubSeqProperties
<1>8. Hand(on) = st[n - 1].path /\ n - 1 \in 1 .. n /\ n - 1 \in 1 .. n - 1
  BY <1>2, <1>7 DEF Hand
<1> HIDE DEF on, n
<1>9. Todos(on) \in Seq(SUBSET Nat) /\ Len(Todos(on)) = n - 1 /\ \A l \in 1 .. n - 1 : Todos(on)[l] = on[l].todo
  BY <1>7, FramesAre
<1>10. Hand(on) \in Paths /\ Len(Hand(on)) = Len(Hand(st)) - 1 /\ Under(Hand(on), Hand(st))
  BY <1>2, <1>3, <1>4, <1>6, <1>8
<1>11. Hand(on) \in X
  BY <1>1, <1>3, <1>10, NodesClosed
<1>12. Shallower(Todos(on), Todos(st))
  <2>1. Todos(st)[Len(Todos(st))] = {} /\ Len(Todos(st)) > 1
    BY <1>2, <1>4 DEF n
  <2>2. ASSUME NEW l \in 1 .. n - 1 PROVE Todos(on)[l] = Todos(st)[l]
    <3>1. l \in 1 .. n
      BY <1>2
    <3>2. Todos(on)[l] = on[l].todo /\ on[l] = st[l]
      BY <1>7, <1>9
    <3> QED
      BY <1>4, <3>1, <3>2
  <2> QED
    BY <1>4, <1>9, <2>1, <2>2 DEF Shallower
<1>13. /\ Placed(X, Hand(on), Todos(on), FALSE) /\ Parted(X, Hand(on), Todos(on), FALSE)
       /\ Left(X, Hand(on), Todos(on), FALSE) = Left(X, Hand(st), Todos(st), FALSE)
  <2> HIDE DEF X
  <2> QED
    BY <1>1, <1>5, <1>10, <1>11, <1>12, ParentReached, ZenonT(60)
<1>14. ASSUME NEW l \in 1 .. n - 1 PROVE Len(on[l].path) = l - 1 /\ Under(on[l].path, Hand(on))
  <2>1. l \in 1 .. n /\ on[l] = st[l]
    BY <1>2, <1>7
  <2>2. st[l].path \in Paths /\ Len(st[l].path) = l - 1 /\ Under(st[l].path, Hand(st))
    BY <1>4, <1>6, <2>1
  <2>3. Len(Hand(on)) = n - 2
    BY <1>3, <1>10, <1>2
  <2>4. Len(st[l].path) <= Len(Hand(on))
    BY <1>2, <2>2, <2>3
  <2>5. ASSUME NEW i \in 1 .. Len(st[l].path) PROVE Hand(on)[i] = st[l].path[i]
    <3>1. i \in 1 .. Len(Hand(on))
      BY <1>2, <2>2, <2>3
    <3>2. Hand(st)[i] = Hand(on)[i]
      BY <1>10, <3>1 DEF Under
    <3>3. Hand(st)[i] = st[l].path[i]
      BY <2>2 DEF Under
    <3> QED
      BY <3>2, <3>3
  <2>6. Under(st[l].path, Hand(on))
    BY <2>4, <2>5 DEF Under
  <2> QED
    BY <2>1, <2>2, <2>6
<1>15. Seen(t, on) = Seen(t, st)
  BY <1>13 DEF Seen, X
<1>16. cur = Cardinality(Seen(t, on)) + 1 /\ Listed(bs, t, FoundIn(t, Seen(t, on)))
  BY <1>15 DEF Walking
<1>17. Len(on) \in 1 .. MaxDepth - 1
  BY <1>2, <1>7
<1> QED
  BY <1>7, <1>13, <1>14, <1>16, <1>17 DEF Walking, X, on

\* The root's loop is done: every node has been read, and every bin found.
LEMMA LoopsEnded ==
  ASSUME NEW t, Populated(t), NEW st, NEW cur, NEW bs, Walking(t, st, cur, bs),
         st[Len(st)].todo = {}, Len(st) = 1
  PROVE  cur = Cardinality(Nodes(t)) + 1 /\ Listed(bs, t, DOMAIN t)
<1>1. /\ Todos(st) \in Seq(SUBSET Nat) /\ Len(Todos(st)) = Len(st)
      /\ \A l \in 1 .. Len(st) : Todos(st)[l] = st[l].todo
  BY WalkingIs
<1>2. DOMAIN Todos(st) = 1 .. 1 /\ Todos(st)[1] = {}
  BY <1>1
<1>3. Left(Nodes(t), Hand(st), Todos(st), FALSE) = {}
  BY <1>2 DEF Left
<1>4. Seen(t, st) = Nodes(t)
  BY <1>3 DEF Seen
<1>5. FoundIn(t, Nodes(t)) = DOMAIN t
  <2> SUFFICES ASSUME NEW p \in DOMAIN t PROVE SubSeq(p, 1, MaxDepth - 1) \in Nodes(t)
    BY DEF FoundIn
  <2> DEFINE u == SubSeq(p, 1, MaxDepth - 1)
  <2>1. p \in Paths /\ Len(p) = MaxDepth /\ MaxDepth \in Nat /\ MaxDepth > 1
    BY LeafHasAll, BinsAssumption, OneDimAssumption DEF Populated, MaxDepth
  <2>2. MaxDepth - 1 \in 0 .. Len(p)
    BY <2>1
  <2>3. u \in Paths /\ Len(u) = MaxDepth - 1 /\ \A i \in 1 .. MaxDepth - 1 : u[i] = p[i]
    BY <2>1, <2>2, Beginning
  <2>4. Len(u) < Len(p) /\ Under(u, p)
    BY <2>1, <2>3 DEF Under
  <2>5. IsTrie(t)
    BY DEF Populated, Levelled
  <2> HIDE DEF u
  <2>6. u \in Nodes(t)
    BY <2>3, <2>4, <2>5, NodeIs
  <2> QED
    BY <2>6 DEF u
<1> QED
  BY <1>4, <1>5 DEF Walking

\* The loops after the root is read.
Started(node) == <<[path |-> <<>>, todo |-> DOMAIN node]>>

\* The root is read: its loop starts.
LEMMA RootRead ==
  ASSUME NEW t, Populated(t), NEW f, OfFile(f, t)
  PROVE  /\ f = Wire(t) => 1 <= Len(f) /\ f[1] # EOF
         /\ 1 <= Len(f) => f[1] = Token(t, <<>>) /\ Walking(t, Started(f[1]), 2, <<>>)
<1> DEFINE X == Nodes(t)
           todo == <<{}>>
           C == DOMAIN Token(t, <<>>)
           on == Started(Token(t, <<>>))
<1>1. IsTrie(t) /\ X \in SUBSET Paths /\ IsFiniteSet(X) /\ <<>> \in X
  BY NodesArePaths DEF Populated, Levelled
<1>2. Left(X, <<>>, todo, TRUE) = X
  BY DEF Left, Under
<1>3. Placed(X, <<>>, todo, TRUE)
  BY <1>1 DEF Placed
<1> HIDE DEF todo, X
<1>4. Parted(X, <<>>, todo, TRUE)
  BY <1>2 DEF Parted
<1>5. AtHand(t, <<>>, todo, 1)
  <2>1. Cardinality(X \ Left(X, <<>>, todo, TRUE)) = 0
    BY <1>2, FS_EmptySet
  <2>2. 1 = Cardinality(X \ Left(X, <<>>, todo, TRUE)) + 1
    BY <2>1
  <2> QED
    BY <1>3, <1>4, <2>2, Zenon DEF AtHand, X
<1>6. /\ <<>> \in Left(X, <<>>, todo, TRUE)
      /\ 1 <= Len(f) => f[1] = Token(t, <<>>) /\ f[1] # EOF
      /\ f = Wire(t) => 1 <= Len(f)
      /\ Cardinality(X \ (Left(X, <<>>, todo, TRUE) \ {<<>>})) = 1
  <2>1. ASSUME NEW at, NEW cur, AtHand(t, at, todo, cur)
        PROVE  /\ at \in Left(Nodes(t), at, todo, TRUE)
               /\ cur <= Len(f) => f[cur] = Token(t, at) /\ f[cur] # EOF
               /\ f = Wire(t) => cur <= Len(f)
               /\ Cardinality(Nodes(t) \ (Left(Nodes(t), at, todo, TRUE) \ {at})) = cur
    BY <2>1, TokenThere
  <2> QED
    BY <1>5, <2>1, Zenon DEF X
<1>7. MaxDepth \in Nat /\ MaxDepth > 1
  BY BinsAssumption, OneDimAssumption DEF MaxDepth
<1>8. C \in SUBSET Nat /\ \A b \in Nat : b \in C <=> Append(<<>>, b) \in Nodes(t)
  <2>1. <<>> \in Nodes(t) /\ Len(<<>>) + 1 < MaxDepth
    BY <1>1, <1>7 DEF X
  <2> QED
    BY <2>1, InnerNode
<1>9. on \in Seq(Frames) /\ Len(on) = 1 /\ on[1].path = <<>> /\ on[1].todo = C
  <2>1. [path |-> <<>>, todo |-> C] \in Frames
    BY <1>8 DEF Frames, Paths
  <2>2. ASSUME NEW r \in Frames PROVE <<r>> \in Seq(Frames) /\ Len(<<r>>) = 1 /\ <<r>>[1] = r
    OBVIOUS
  <2> HIDE DEF C
  <2>3. [path |-> <<>>, todo |-> C].path = <<>> /\ [path |-> <<>>, todo |-> C].todo = C
    OBVIOUS
  <2>4. on = <<[path |-> <<>>, todo |-> C]>>
    BY Zenon DEF Started, C
  <2> QED
    BY <2>1, <2>2, <2>3, <2>4, Zenon
<1>10. Todos(on) \in Seq(SUBSET Nat) /\ Len(Todos(on)) = 1 /\ Todos(on)[1] = C /\ Hand(on) = <<>>
  <2> HIDE DEF on
  <2> QED
    BY <1>9, FramesAre DEF Hand
<1>11. ReadOn(Todos(on), todo, C)
  <2>1. Len(todo) = 1
    BY DEF todo
  <2> HIDE DEF on, C
  <2> QED
    BY <1>8, <1>10, <2>1 DEF ReadOn
<1> HIDE DEF on, C
<1>12. /\ Placed(X, <<>>, Todos(on), FALSE) /\ Parted(X, <<>>, Todos(on), FALSE)
       /\ Left(X, <<>>, Todos(on), FALSE) = Left(X, <<>>, todo, TRUE) \ {<<>>}
  BY <1>1, <1>3, <1>4, <1>8, <1>11, ChildrenLeft, Zenon DEF X
<1>13. Seen(t, on) = {<<>>} /\ Cardinality(Seen(t, on)) = 1
  <2>1. Seen(t, on) = X \ (Left(X, <<>>, todo, TRUE) \ {<<>>})
    BY <1>10, <1>12 DEF Seen, X
  <2> QED
    BY <1>1, <1>2, <1>6, <2>1
<1>14. FoundIn(t, Seen(t, on)) = {}
  <2> SUFFICES ASSUME NEW p \in DOMAIN t, SubSeq(p, 1, MaxDepth - 1) = <<>> PROVE FALSE
    BY <1>13 DEF FoundIn
  <2>1. p \in Paths /\ Len(p) = MaxDepth
    BY LeafHasAll DEF Populated
  <2>2. Len(SubSeq(p, 1, MaxDepth - 1)) = MaxDepth - 1
    BY <1>7, <2>1, Beginning
  <2>3. Len(<<>>) = 0
    OBVIOUS
  <2>4. MaxDepth - 1 = 0
    BY <2>2, <2>3
  <2> QED
    BY <1>7, <2>4
<1>15. Listed(<<>>, t, FoundIn(t, Seen(t, on)))
  BY <1>14 DEF Listed
<1>16. Len(on) \in 1 .. MaxDepth - 1
  BY <1>7, <1>9
<1>17. \A l \in 1 .. Len(on) : Len(on[l].path) = l - 1 /\ Under(on[l].path, Hand(on))
  BY <1>9, <1>10 DEF Under
<1>18. Walking(t, on, 2, <<>>)
  <2>1. 2 = Cardinality(Seen(t, on)) + 1
    BY <1>13
  <2>2. /\ Placed(Nodes(t), Hand(on), Todos(on), FALSE) /\ Parted(Nodes(t), Hand(on), Todos(on), FALSE)
        /\ on \in Seq(Frames)
    BY <1>9, <1>10, <1>12, Zenon DEF X
  <2> QED
    BY <1>15, <1>16, <1>17, <2>1, <2>2, Zenon DEF Walking
<1> QED
  BY <1>6, <1>18 DEF on

-----------------------------------------------------------------------------
(* What the constructor keeps.                                             *)

\* It is called for the file of a histogram.
LEMMA QueryInit == Init => QueryInv
<1> SUFFICES ASSUME Init PROVE QueryInv
  OBVIOUS
<1>1. values \in Ascending /\ Open(TrieOf(values))
  BY DEF Init
<1>2. trie = TrieOf(values) /\ OfFile(stream, trie) /\ pc = "root" /\ cursor = 1 /\ bins = <<>> /\ shift = 1
  BY <1>1 DEF Open, OfFile
<1>3. Populated(trie)
  BY <1>1, <1>2, TrieOfData
<1> QED
  BY <1>2, <1>3 DEF QueryInv

\* The root is read.
LEMMA RootStep == QueryInv /\ ReadRoot => QueryInv'
<1> SUFFICES ASSUME QueryInv, ReadRoot PROVE QueryInv'
  OBVIOUS
<1>1. Populated(trie) /\ OfFile(stream, trie) /\ cursor = 1 /\ bins = <<>> /\ shift = 1
  BY DEF QueryInv, ReadRoot
<1>2. /\ 1 <= Len(stream) /\ trieCount' = SumFunction(stream[1]) % CountMod
      /\ stack' = Started(stream[1]) /\ cursor' = cursor + 1 /\ pc' = "walk"
      /\ trie' = trie /\ stream' = stream /\ shift' = shift /\ bins' = bins
  BY <1>1 DEF ReadRoot, HasNode, Node, Started
<1>3. stream[1] = Token(trie, <<>>) /\ Walking(trie, stack', 2, <<>>)
  BY <1>1, <1>2, RootRead
<1>4. trieCount' = Observed(trie)
  <2>1. IsTrie(trie)
    BY <1>1 DEF Populated, Levelled
  <2> QED
    BY <1>2, <1>3, <2>1, ObservedAtRoot
<1>5. cursor' = 2
  BY <1>1, <1>2
<1>6. Walking(trie', stack', cursor', bins') /\ Populated(trie') /\ OfFile(stream', trie')
  BY <1>1, <1>2, <1>3, <1>5
<1> QED
  BY <1>1, <1>2, <1>4, <1>6 DEF QueryInv

\* Where the loops are, in the terms of the lemmas about them.
LEMMA LoopTerms ==
  ASSUME QueryInv, pc = "walk"
  PROVE  /\ Populated(trie) /\ OfFile(stream, trie) /\ trieCount = Observed(trie) /\ shift = 1
         /\ Walking(trie, stack, cursor, bins)
         /\ Advanced = Ticked(stack) /\ NextChild = NextOf(stack)
<1>1. Advanced = Ticked(stack) /\ NextChild = NextOf(stack)
  BY DEF Advanced, Ticked, NextChild, NextOf, Hand, Level
<1> QED
  BY <1>1 DEF QueryInv

\* An inner node is read.
LEMMA InnerStep == QueryInv /\ ReadInner => QueryInv'
<1> SUFFICES ASSUME QueryInv, ReadInner PROVE QueryInv'
  OBVIOUS
<1>1. pc = "walk" /\ stack[Len(stack)].todo # {} /\ Len(stack) + 1 < MaxDepth /\ cursor <= Len(stream)
  BY DEF ReadInner, HasNode, Level
<1>2. /\ Populated(trie) /\ OfFile(stream, trie) /\ trieCount = Observed(trie) /\ shift = 1
      /\ Walking(trie, stack, cursor, bins)
  BY <1>1, LoopTerms
<1>3. /\ stack' = Within(stack, stream[cursor]) /\ cursor' = cursor + 1
      /\ trie' = trie /\ stream' = stream /\ pc' = pc /\ trieCount' = trieCount /\ shift' = shift /\ bins' = bins
  BY <1>1, LoopTerms DEF ReadInner, Node, Within
<1>4. Walking(trie', stack', cursor', bins')
  BY <1>1, <1>2, <1>3, InnerRead
<1>5. Populated(trie') /\ OfFile(stream', trie') /\ trieCount' = Observed(trie')
  BY <1>2, <1>3
<1> QED
  BY <1>1, <1>2, <1>3, <1>4, <1>5 DEF QueryInv

\* A deepest node is read.
LEMMA LeafStep == QueryInv /\ ReadLeaf => QueryInv'
<1> SUFFICES ASSUME QueryInv, ReadLeaf PROVE QueryInv'
  OBVIOUS
<1>1. pc = "walk" /\ stack[Len(stack)].todo # {} /\ Len(stack) + 1 = MaxDepth /\ cursor <= Len(stream)
  BY DEF ReadLeaf, HasNode, Level
<1>2. /\ Populated(trie) /\ OfFile(stream, trie) /\ trieCount = Observed(trie) /\ shift = 1
      /\ Walking(trie, stack, cursor, bins)
  BY <1>1, LoopTerms
<1>3. Emitted(NextOf(stack)) = Bunch(stream[cursor], NextOf(stack))
  BY DEF Emitted, Bunch, Node
<1>4. /\ stack' = Ticked(stack) /\ cursor' = cursor + 1
      /\ bins' = bins \o Bunch(stream[cursor], NextOf(stack))
      /\ trie' = trie /\ stream' = stream /\ pc' = pc /\ trieCount' = trieCount /\ shift' = shift
  BY <1>1, <1>3, LoopTerms DEF ReadLeaf
<1>5. Walking(trie', stack', cursor', bins')
  BY <1>1, <1>2, <1>4, LeafRead
<1>6. Populated(trie') /\ OfFile(stream', trie') /\ trieCount' = Observed(trie')
  BY <1>2, <1>4
<1> QED
  BY <1>1, <1>2, <1>4, <1>5, <1>6 DEF QueryInv

\* A loop is done.
LEMMA EndStep == QueryInv /\ EndLoop => QueryInv'
<1> SUFFICES ASSUME QueryInv, EndLoop PROVE QueryInv'
  OBVIOUS
<1>1. pc = "walk" /\ stack[Len(stack)].todo = {}
  BY DEF EndLoop, Level
<1>2. /\ Populated(trie) /\ OfFile(stream, trie) /\ trieCount = Observed(trie) /\ shift = 1
      /\ Walking(trie, stack, cursor, bins)
  BY <1>1, LoopTerms
<1>3. /\ stack' = Front(stack) /\ pc' = IF Len(stack) = 1 THEN "eof" ELSE "walk"
      /\ trie' = trie /\ stream' = stream /\ cursor' = cursor /\ trieCount' = trieCount /\ shift' = shift /\ bins' = bins
  BY DEF EndLoop, Level
<1>4. Populated(trie') /\ OfFile(stream', trie') /\ trieCount' = Observed(trie') /\ shift' = 1
  BY <1>2, <1>3
<1>5. CASE Len(stack) = 1
  <2>1. cursor = Cardinality(Nodes(trie)) + 1 /\ Listed(bins, trie, DOMAIN trie)
    BY <1>1, <1>2, <1>5, LoopsEnded
  <2>2. cursor' = Cardinality(Nodes(trie')) + 1 /\ Listed(bins', trie', DOMAIN trie')
    BY <1>3, <2>1
  <2>3. pc' = "eof"
    BY <1>3, <1>5
  <2> QED
    BY <1>4, <2>2, <2>3 DEF QueryInv
<1>6. CASE Len(stack) # 1
  <2>1. Walking(trie, Front(stack), cursor, bins)
    BY <1>1, <1>2, <1>6, LoopEnded
  <2>2. Walking(trie', stack', cursor', bins')
    BY <1>3, <2>1
  <2>3. pc' = "walk"
    BY <1>3, <1>6
  <2> QED
    BY <1>4, <2>2, <2>3 DEF QueryInv
<1> QED
  BY <1>5, <1>6

\* Only a whole file has the marker where the nodes end.
LEMMA MarkerIs ==
  ASSUME QueryInv, pc = "eof"
  PROVE  AtEndMarker <=> stream = Wire(trie)
<1>1. Populated(trie) /\ OfFile(stream, trie) /\ cursor = Cardinality(Nodes(trie)) + 1
  BY DEF QueryInv
<1>2. Levelled(trie, Depth)
  BY <1>1 DEF Populated
<1>3. stream = Wire(trie) \/ stream \in Torn(Wire(trie)) \/ stream = Overlong(Wire(trie))
  BY <1>1 DEF OfFile
<1>4. stream = Wire(trie) <=> Cardinality(Nodes(trie)) + 1 <= Len(stream)
                              /\ stream[Cardinality(Nodes(trie)) + 1] = EOF
  BY <1>2, <1>3, FileIs
<1> QED
  BY <1>1, <1>4 DEF AtEndMarker

\* The marker is found.
LEMMA MarkerStep == QueryInv /\ VerifyEndMarker => QueryInv'
<1> SUFFICES ASSUME QueryInv, VerifyEndMarker PROVE QueryInv'
  OBVIOUS
<1>1. pc = "eof" /\ AtEndMarker /\ pc' = "sort"
      /\ trie' = trie /\ stream' = stream /\ trieCount' = trieCount /\ shift' = shift /\ bins' = bins
  BY DEF VerifyEndMarker
<1>2. /\ Populated(trie) /\ OfFile(stream, trie) /\ trieCount = Observed(trie) /\ shift = 1
      /\ Listed(bins, trie, DOMAIN trie)
  BY <1>1 DEF QueryInv
<1>3. stream = Wire(trie)
  BY <1>1, MarkerIs
<1>4. Ordered(bins, 1)
  <2> DEFINE E == {Entry(trie, p) : p \in DOMAIN trie}
  <2>1. bins \in Seq(E) /\ \A e \in E : e.position \in Nat
    <3>1. \A p \in DOMAIN trie : Position[p] \in Nat
      BY <1>2, LeafHasAll DEF Populated
    <3> QED
      BY <1>2, <3>1 DEF Listed, Entry
  <2> HIDE DEF E
  <2>2. ASSUME NEW k \in DOMAIN bins PROVE bins[k].position % 1 = 0
    <3>1. k \in 1 .. Len(bins)
      BY <2>1, LenProperties
    <3>2. bins[k].position \in Nat
      BY <2>1, <3>1, ElementOfSeq
    <3> QED
      BY <3>2
  <2> QED
    BY <2>2 DEF Ordered
<1>5. /\ Populated(trie') /\ OfFile(stream', trie') /\ trieCount' = Observed(trie') /\ shift' = 1
      /\ Listed(bins', trie', DOMAIN trie') /\ stream' = Wire(trie') /\ Ordered(bins', shift')
  BY <1>1, <1>2, <1>3, <1>4
<1> QED
  BY <1>1, <1>5 DEF QueryInv

\* Nothing is constructed, and the file was not whole.
LEMMA ThrowStep == QueryInv /\ Throw => QueryInv'
<1> SUFFICES ASSUME QueryInv, Throw PROVE QueryInv'
  OBVIOUS
<1>1. pc' = "thrown" /\ trie' = trie /\ stream' = stream /\ Populated(trie) /\ OfFile(stream, trie)
  BY DEF Throw, QueryInv
<1>2. CASE pc = "root" /\ ~ HasNode
  <2>1. cursor = 1
    BY <1>2 DEF QueryInv
  <2>2. stream = Wire(trie) => 1 <= Len(stream) /\ stream[1] # EOF
    BY <1>1, RootRead
  <2>3. stream # Wire(trie)
    BY <1>2, <2>1, <2>2 DEF HasNode
  <2> QED
    BY <1>1, <2>3 DEF QueryInv
<1>3. CASE pc = "walk" /\ stack[Level].todo # {} /\ ~ HasNode
  <2>1. Walking(trie, stack, cursor, bins) /\ stack[Len(stack)].todo # {}
    BY <1>3, LoopTerms DEF Level
  <2>2. AtHand(trie, NextOf(stack), NextTodos(stack), cursor)
    BY <1>1, <2>1, NextNode
  <2>3. /\ cursor <= Len(stream) => stream[cursor] # EOF
        /\ stream = Wire(trie) => cursor <= Len(stream)
    BY <1>1, <2>2, TokenThere
  <2>4. stream # Wire(trie)
    BY <1>3, <2>3 DEF HasNode
  <2> QED
    BY <1>1, <2>4 DEF QueryInv
<1>4. CASE pc = "eof" /\ ~ AtEndMarker
  <2>1. stream # Wire(trie)
    BY <1>4, MarkerIs
  <2> QED
    BY <1>1, <2>1 DEF QueryInv
<1> QED
  BY <1>2, <1>3, <1>4 DEF Throw

\* A pass of the sort.
LEMMA PassStep == QueryInv /\ SortPass => QueryInv'
<1> SUFFICES ASSUME QueryInv, SortPass PROVE QueryInv'
  OBVIOUS
<1>1. /\ pc = "sort" /\ bins' = ByDigit(shift) /\ shift' = shift * Digit
      /\ trie' = trie /\ stream' = stream /\ pc' = pc /\ trieCount' = trieCount
  BY DEF SortPass
<1>2. /\ Populated(trie) /\ OfFile(stream, trie) /\ trieCount = Observed(trie) /\ stream = Wire(trie)
      /\ Listed(bins, trie, DOMAIN trie) /\ shift \in Nat \ {0} /\ Ordered(bins, shift)
  BY <1>1 DEF QueryInv
<1>3. \A p \in DOMAIN trie : Position[p] \in Nat
  BY <1>2, LeafHasAll DEF Populated
<1>4. Listed(bins', trie, DOMAIN trie) /\ Ordered(bins', shift * Digit)
  BY <1>1, <1>2, <1>3, PassSorts
<1>5. shift * Digit \in Nat \ {0}
  <2>1. Digit \in Nat \ {0}
    BY DigitAssumption
  <2> QED
    BY <1>2, <2>1, ProductOfNaturals
<1>6. /\ Populated(trie') /\ OfFile(stream', trie') /\ trieCount' = Observed(trie') /\ stream' = Wire(trie')
      /\ Listed(bins', trie', DOMAIN trie') /\ shift' \in Nat \ {0} /\ Ordered(bins', shift')
  BY <1>1, <1>2, <1>4, <1>5
<1> QED
  BY <1>1, <1>6 DEF QueryInv

\* All digits have been sorted by: the bins are in order.
LEMMA SortedStep == QueryInv /\ Sorted => QueryInv'
<1> SUFFICES ASSUME QueryInv, Sorted PROVE QueryInv'
  OBVIOUS
<1>1. /\ pc = "sort" /\ (BinCount - 1) \div shift = 0 /\ pc' = "ready"
      /\ trie' = trie /\ stream' = stream /\ trieCount' = trieCount /\ bins' = bins
  BY DEF Sorted
<1>2. /\ Populated(trie) /\ OfFile(stream, trie) /\ trieCount = Observed(trie) /\ stream = Wire(trie)
      /\ Listed(bins, trie, DOMAIN trie) /\ shift \in Nat \ {0} /\ Ordered(bins, shift)
  BY <1>1 DEF QueryInv
<1> DEFINE E == {Entry(trie, p) : p \in DOMAIN trie}
<1>3. \A e \in E : e.code \in Leaves /\ e.position = Position[e.code] /\ e.position \in 0 .. BinCount - 1
  <2>1. \A p \in DOMAIN trie : p \in Leaves /\ Position[p] \in 0 .. BinCount - 1
    BY <1>2, PositionAssumption DEF Populated
  <2> QED
    BY <2>1 DEF Entry
<1>4. \A k \in DOMAIN bins : bins[k] \in E
  BY <1>2, LenProperties, ElementOfSeq DEF Listed
<1> HIDE DEF E
<1>5. BinCount - 1 < shift
  <2>1. BinCount \in Nat
    BY LeavesFinite
  <2>2. shift \in Nat \ {0}
    BY <1>2
  <2> QED
    BY <1>1, <2>1, <2>2
<1>6. ASSUME NEW j \in DOMAIN bins, NEW k \in DOMAIN bins, j < k PROVE bins[j].position < bins[k].position
  <2>1. /\ bins[j].position \in 0 .. BinCount - 1 /\ bins[k].position \in 0 .. BinCount - 1
    BY <1>3, <1>4
  <2>2. BinCount \in Nat /\ shift \in Nat \ {0}
    BY <1>2, LeavesFinite
  <2>3. bins[j].position % shift = bins[j].position /\ bins[k].position % shift = bins[k].position
    BY <1>5, <2>1, <2>2, SmallModulo
  <2>4. bins[j].position <= bins[k].position
    BY <1>2, <1>6, <2>3 DEF Ordered
  <2>5. j # k
    <3>1. j \in Nat /\ k \in Nat
      BY <1>2, LenProperties DEF Listed
    <3> QED
      BY <1>6, <3>1
  <2>6. bins[j].code # bins[k].code
    BY <1>2, <2>5 DEF Listed
  <2>7. bins[j].position # bins[k].position
    BY <1>3, <1>4, <2>6, PositionAssumption
  <2> QED
    BY <2>1, <2>2, <2>4, <2>7
<1>7. \A j, k \in DOMAIN bins' : j < k => bins'[j].position < bins'[k].position
  BY <1>1, <1>6
<1>8. /\ Populated(trie') /\ OfFile(stream', trie') /\ trieCount' = Observed(trie') /\ stream' = Wire(trie')
      /\ Listed(bins', trie', DOMAIN trie')
  BY <1>1, <1>2
<1> QED
  BY <1>1, <1>7, <1>8 DEF QueryInv

\* The questions asked of an object leave it as it is.
LEMMA ObjectKept == QueryInv /\ UNCHANGED reading => QueryInv'
  BY DEF QueryInv, reading

\* No step breaks it.
LEMMA QueryStep == QueryInv /\ [Next]_vars => QueryInv'
<1> SUFFICES ASSUME QueryInv, [Next]_vars PROVE QueryInv'
  OBVIOUS
<1>1. CASE Construct
  <2>1. Read
    BY <1>1 DEF Construct
  <2> QED
    BY <2>1, RootStep, InnerStep, LeafStep, EndStep, MarkerStep, ThrowStep, PassStep, SortedStep DEF Read
<1>2. CASE AskPercentile \/ AskCDF \/ AskTopK \/ AskMinMax
  BY <1>2, ObjectKept DEF AskPercentile, AskCDF, AskTopK, AskMinMax, Answer
<1>3. CASE UNCHANGED vars
  BY <1>3, ObjectKept DEF vars
<1> QED
  BY <1>1, <1>2, <1>3 DEF Next

\* The invariant of the constructor, from which the theorem follows.
THEOREM QueryInvariance == Spec => []QueryInv
<1> QED
  BY QueryInit, QueryStep, PTL DEF Spec

\* An object has as many bins as the histogram has.
LEMMA ListedAll ==
  ASSUME NEW t, Populated(t), NEW bs, Listed(bs, t, DOMAIN t)
  PROVE  /\ Len(bs) = Cardinality(DOMAIN t)
         /\ \A k \in DOMAIN bs : /\ bs[k].code \in DOMAIN t
                                /\ bs[k].position = Position[bs[k].code]
                                /\ bs[k].count = t[bs[k].code]
<1> DEFINE E == {Entry(t, p) : p \in DOMAIN t}
           n == Len(bs)
           f == [k \in 1 .. n |-> bs[k].code]
<1>1. bs \in Seq(E) /\ n \in Nat /\ DOMAIN bs = 1 .. n
  BY LenProperties DEF Listed
<1>2. \A e \in E : e.code \in DOMAIN t /\ e.position = Position[e.code] /\ e.count = t[e.code]
  BY DEF Entry
<1> HIDE DEF E
<1>3. \A k \in 1 .. n : bs[k] \in E
  BY <1>1, ElementOfSeq
<1>4. \A k \in 1 .. n : /\ bs[k].code \in DOMAIN t
                        /\ bs[k].position = Position[bs[k].code]
                        /\ bs[k].count = t[bs[k].code]
  BY <1>2, <1>3
<1> HIDE DEF n
<1>5. f \in Bijection(1 .. n, DOMAIN t)
  <2>1. f \in [1 .. n -> DOMAIN t]
    BY <1>4
  <2>2. \A j, k \in 1 .. n : f[j] = f[k] => j = k
    BY <1>1 DEF Listed
  <2>3. \A p \in DOMAIN t : \E k \in 1 .. n : f[k] = p
    BY <1>1 DEF Listed
  <2> HIDE DEF f
  <2> QED
    BY <2>1, <2>2, <2>3 DEF Bijection, Injection, IsInjective, Surjection
<1>6. IsFiniteSet(1 .. n) /\ Cardinality(1 .. n) = n
  BY <1>1, FS_Interval
<1>7. Cardinality(DOMAIN t) = n
  <2>1. ExistsBijection(1 .. n, DOMAIN t)
    BY <1>5 DEF ExistsBijection
  <2> HIDE DEF f
  <2> QED
    BY <1>6, <2>1, FS_Bijection
<1> QED
  BY <1>1, <1>4, <1>7 DEF n

\* A query object exists exactly for a whole file, and its bins are those of the
\* histogram it was written from, in the order of their labels.
THEOREM HistogramIsRead == Spec => []ReadsHistogram
<1>1. QueryInv => ReadsHistogram
  <2> SUFFICES ASSUME QueryInv PROVE ReadsHistogram
    OBVIOUS
  <2>1. pc = "thrown" => stream # Wire(trie)
    BY DEF QueryInv
  <2>2. ASSUME pc = "ready"
        PROVE  /\ stream = Wire(trie) /\ trieCount = Observed(trie)
               /\ Len(bins) = Cardinality(DOMAIN trie)
               /\ \A k \in DOMAIN bins : /\ bins[k].code \in DOMAIN trie
                                        /\ bins[k].position = Position[bins[k].code]
                                        /\ bins[k].count = trie[bins[k].code]
               /\ \A j, k \in DOMAIN bins : j < k => bins[j].position < bins[k].position
    <3>1. /\ Populated(trie) /\ stream = Wire(trie) /\ trieCount = Observed(trie)
          /\ Listed(bins, trie, DOMAIN trie)
          /\ \A j, k \in DOMAIN bins : j < k => bins[j].position < bins[k].position
      BY <2>2 DEF QueryInv
    <3> QED
      BY <3>1, ListedAll
  <2> QED
    BY <2>1, <2>2 DEF ReadsHistogram
<1> QED
  BY <1>1, QueryInvariance, PTL

=============================================================================
