----------------------------- MODULE TrieProofs ------------------------------
(***************************************************************************)
(* About tries and files (TrieWire), for every shape of trie, any number   *)
(* of values and any width of the counters: the order of a file; the       *)
(* nodes, tokens and totals of a union; and a walk that visits the nodes   *)
(* of a union in the order of its file while it reads each of the tries in *)
(* the order of that trie's own.                                           *)
(***************************************************************************)
EXTENDS TrieWire, CommonProofs

-----------------------------------------------------------------------------
\* The bins on the way to a node.
Paths == Seq(Nat)

\* The path r goes through the node q.
Under(q, r) == Len(q) <= Len(r) /\ \A i \in 1 .. Len(q) : r[i] = q[i]

\* The first bins of a path.
LEMMA Beginning ==
  ASSUME NEW q \in Paths, NEW n \in 0 .. Len(q)
  PROVE  /\ SubSeq(q, 1, n) \in Paths
         /\ Len(SubSeq(q, 1, n)) = n
         /\ \A i \in 1 .. n : SubSeq(q, 1, n)[i] = q[i]
<1>1. n \in Int /\ 1 \in Int /\ \A i \in 1 .. n : q[i] \in Nat
  BY DEF Paths
<1>2. SubSeq(q, 1, n) \in Seq(Nat)
  BY <1>1, SubSeqProperties
<1>3. Len(SubSeq(q, 1, n)) = IF 1 <= n THEN n - 1 + 1 ELSE 0
  BY <1>1, SubSeqProperties
<1>4. \A i \in 1 .. n - 1 + 1 : SubSeq(q, 1, n)[i] = q[1 + i - 1]
  BY <1>1, SubSeqProperties
<1> QED
  BY <1>2, <1>3, <1>4 DEF Paths

\* Two paths begin alike if they agree bin by bin.
LEMMA SameBeginning ==
  ASSUME NEW a \in Paths, NEW b \in Paths, NEW n \in 0 .. Len(a), n <= Len(b)
  PROVE  SubSeq(a, 1, n) = SubSeq(b, 1, n) <=> \A i \in 1 .. n : a[i] = b[i]
<1>1. n \in 0 .. Len(b)
  BY DEF Paths
<1>2. /\ SubSeq(a, 1, n) \in Seq(Nat) /\ Len(SubSeq(a, 1, n)) = n
      /\ SubSeq(b, 1, n) \in Seq(Nat) /\ Len(SubSeq(b, 1, n)) = n
      /\ \A i \in 1 .. n : SubSeq(a, 1, n)[i] = a[i] /\ SubSeq(b, 1, n)[i] = b[i]
  BY <1>1, Beginning DEF Paths
<1>3. ASSUME \A i \in 1 .. n : a[i] = b[i]
      PROVE  SubSeq(a, 1, n) = SubSeq(b, 1, n)
  <2>1. \A i \in 1 .. Len(SubSeq(a, 1, n)) : SubSeq(a, 1, n)[i] = SubSeq(b, 1, n)[i]
    BY <1>2, <1>3
  <2> QED
    BY <1>2, <2>1, SeqEqual
<1>4. ASSUME SubSeq(a, 1, n) = SubSeq(b, 1, n), NEW i \in 1 .. n
      PROVE  a[i] = b[i]
  BY <1>2, <1>4
<1> QED
  BY <1>3, <1>4

\* A node lies under another if its path goes on from the other's.
LEMMA StrictPrefixIs ==
  ASSUME NEW q \in Paths, NEW p \in Paths
  PROVE  IsStrictPrefix(q, p) <=> Len(q) < Len(p) /\ Under(q, p)
<1>1. Len(q) \in Nat /\ Len(p) \in Nat
  BY DEF Paths
<1>2. Len(q) <= Len(p) => (SubSeq(q, 1, Len(q)) = SubSeq(p, 1, Len(q)) <=> \A i \in 1 .. Len(q) : q[i] = p[i])
  BY <1>1, SameBeginning
<1>3. (Len(q) = Len(p) /\ \A i \in 1 .. Len(q) : q[i] = p[i]) => q = p
  BY SeqEqual DEF Paths
<1> QED
  BY <1>1, <1>2, <1>3 DEF IsStrictPrefix, IsPrefix, Under

\* A set of numbers has a least one.
LEMMA LeastNat ==
  ASSUME NEW S \in SUBSET Nat, S # {}
  PROVE  Min(S) \in S /\ \A x \in S : Min(S) <= x
<1>1. PICK n \in S : TRUE
  OBVIOUS
<1>2. \E m \in S : \A x \in S : m <= x
  <2> SUFFICES ASSUME \A m \in S : \E x \in S : x < m
               PROVE  FALSE
    OBVIOUS
  <2>1. IsFiniteSet(0 .. n)
    BY FS_Interval
  <2> DEFINE Good == {T \in SUBSET (0 .. n) : T \cap S = {} \/ \E m \in T \cap S : \A x \in T \cap S : m <= x}
  <2>2. {} \in Good
    OBVIOUS
  <2>3. ASSUME NEW T \in SUBSET (0 .. n), NEW x \in (0 .. n) \ T, T \in Good
        PROVE  T \cup {x} \in Good
    <3>1. CASE x \notin S
      <4>1. (T \cup {x}) \cap S = T \cap S
        BY <3>1
      <4> QED
        BY <2>3, <4>1
    <3>2. CASE x \in S
      <4>1. CASE T \cap S = {}
        <5>1. (T \cup {x}) \cap S = {x}
          BY <3>2, <4>1
        <5> QED
          BY <5>1
      <4>2. CASE T \cap S # {}
        <5>1. PICK m \in T \cap S : \A y \in T \cap S : m <= y
          BY <2>3, <4>2
        <5> DEFINE k == IF x <= m THEN x ELSE m
        <5>2. k \in (T \cup {x}) \cap S /\ \A y \in (T \cup {x}) \cap S : k <= y
          BY <3>2, <5>1
        <5> QED
          BY <5>2
      <4> QED
        BY <4>1, <4>2
    <3> QED
      BY <3>1, <3>2
  <2> HIDE DEF Good
  <2>4. 0 .. n \in Good
    <3>1. Good \in SUBSET SUBSET (0 .. n)
      BY DEF Good
    <3> QED
      BY <2>1, <2>2, <2>3, <3>1, FiniteInduction
  <2>5. PICK m \in (0 .. n) \cap S : \A x \in (0 .. n) \cap S : m <= x
    BY <1>1, <2>4 DEF Good
  <2>6. PICK x \in S : x < m
    BY <2>5
  <2> QED
    BY <2>5, <2>6
<1> QED
  BY <1>2 DEF Min

\* The order of a file, without the library's operators.
LEMMA BeforeIs ==
  ASSUME NEW a \in Paths, NEW b \in Paths
  PROVE  Before(a, b) <=>
           \/ Len(a) < Len(b) /\ Under(a, b)
           \/ \E d \in 1 .. Len(a) : /\ d <= Len(b)
                                     /\ \A i \in 1 .. d - 1 : a[i] = b[i]
                                     /\ a[d] < b[d]
<1>1. Len(a) \in Nat /\ Len(b) \in Nat
  BY DEF Paths
<1>2. Min({Len(a), Len(b)}) = IF Len(a) <= Len(b) THEN Len(a) ELSE Len(b)
  <2>1. {Len(a), Len(b)} \in SUBSET Nat /\ {Len(a), Len(b)} # {}
    BY <1>1
  <2>2. /\ Min({Len(a), Len(b)}) \in {Len(a), Len(b)}
        /\ \A x \in {Len(a), Len(b)} : Min({Len(a), Len(b)}) <= x
    BY <2>1, LeastNat
  <2> QED
    BY <1>1, <2>2
<1>3. ASSUME NEW d \in 1 .. Min({Len(a), Len(b)})
      PROVE  SubSeq(a, 1, d - 1) = SubSeq(b, 1, d - 1) <=> \A i \in 1 .. d - 1 : a[i] = b[i]
  <2>1. d - 1 \in 0 .. Len(a) /\ d - 1 <= Len(b)
    BY <1>1, <1>2
  <2> QED
    BY <2>1, SameBeginning
<1>4. 1 .. Min({Len(a), Len(b)}) = {d \in 1 .. Len(a) : d <= Len(b)}
  BY <1>1, <1>2
<1> QED
  BY <1>3, <1>4, StrictPrefixIs DEF Before

\* The order of a file is a strict total order: no node is before itself,
LEMMA BeforeIrreflexive == ASSUME NEW a \in Paths PROVE ~ Before(a, a)
<1>1. Len(a) \in Nat /\ \A d \in 1 .. Len(a) : a[d] \in Nat
  BY DEF Paths
<1> QED
  BY <1>1, BeforeIs

\* what comes before a node comes before the ones after it,
LEMMA BeforeTransitive ==
  ASSUME NEW a \in Paths, NEW b \in Paths, NEW c \in Paths, Before(a, b), Before(b, c)
  PROVE  Before(a, c)
<1>1. Len(a) \in Nat /\ Len(b) \in Nat /\ Len(c) \in Nat
  BY DEF Paths
<1>2. /\ \A i \in 1 .. Len(a) : a[i] \in Nat
      /\ \A i \in 1 .. Len(b) : b[i] \in Nat
      /\ \A i \in 1 .. Len(c) : c[i] \in Nat
  BY DEF Paths
<1>3. CASE (Len(a) < Len(b) /\ Under(a, b)) /\ (Len(b) < Len(c) /\ Under(b, c))
  <2>1. Len(a) < Len(c) /\ Under(a, c)
    BY <1>1, <1>3 DEF Under
  <2> QED
    BY <2>1, BeforeIs
<1>4. ASSUME Len(a) < Len(b), Under(a, b),
             NEW d \in 1 .. Len(b), d <= Len(c), \A i \in 1 .. d - 1 : b[i] = c[i], b[d] < c[d]
      PROVE  Before(a, c)
  <2>1. CASE d <= Len(a)
    <3>1. d \in 1 .. Len(a) /\ (\A i \in 1 .. d - 1 : a[i] = c[i]) /\ a[d] < c[d]
      BY <1>1, <1>2, <1>4, <2>1 DEF Under
    <3> QED
      BY <1>4, <3>1, BeforeIs
  <2>2. CASE d > Len(a)
    <3>1. Len(a) < Len(c) /\ Under(a, c)
      BY <1>1, <1>2, <1>4, <2>2 DEF Under
    <3> QED
      BY <3>1, BeforeIs
  <2> QED
    BY <1>1, <2>1, <2>2
<1>5. ASSUME Len(b) < Len(c), Under(b, c),
             NEW d \in 1 .. Len(a), d <= Len(b), \A i \in 1 .. d - 1 : a[i] = b[i], a[d] < b[d]
      PROVE  Before(a, c)
  <2>1. d <= Len(c) /\ (\A i \in 1 .. d - 1 : a[i] = c[i]) /\ a[d] < c[d]
    BY <1>1, <1>2, <1>5 DEF Under
  <2> QED
    BY <2>1, BeforeIs
<1>6. ASSUME NEW d \in 1 .. Len(a), d <= Len(b), \A i \in 1 .. d - 1 : a[i] = b[i], a[d] < b[d],
             NEW e \in 1 .. Len(b), e <= Len(c), \A i \in 1 .. e - 1 : b[i] = c[i], b[e] < c[e]
      PROVE  Before(a, c)
  <2>1. CASE d <= e
    <3>1. d <= Len(c) /\ (\A i \in 1 .. d - 1 : a[i] = c[i]) /\ a[d] < c[d]
      BY <1>1, <1>2, <1>6, <2>1
    <3> QED
      BY <3>1, BeforeIs
  <2>2. CASE e < d
    <3>1. e \in 1 .. Len(a) /\ (\A i \in 1 .. e - 1 : a[i] = c[i]) /\ a[e] < c[e]
      BY <1>1, <1>2, <1>6, <2>2
    <3> QED
      BY <1>6, <3>1, BeforeIs
  <2> QED
    BY <1>1, <2>1, <2>2
<1> QED
  BY <1>3, <1>4, <1>5, <1>6, BeforeIs

\* and of two nodes one comes first.
LEMMA BeforeTotal ==
  ASSUME NEW a \in Paths, NEW b \in Paths, a # b
  PROVE  Before(a, b) \/ Before(b, a)
<1>1. Len(a) \in Nat /\ Len(b) \in Nat
  BY DEF Paths
<1>2. /\ \A i \in 1 .. Len(a) : a[i] \in Nat
      /\ \A i \in 1 .. Len(b) : b[i] \in Nat
  BY DEF Paths
<1> DEFINE Differ == {d \in Nat : 1 <= d /\ d <= Len(a) /\ d <= Len(b) /\ a[d] # b[d]}
<1>3. CASE Differ = {}
  <2>1. \A i \in 1 .. Len(a) : i <= Len(b) => a[i] = b[i]
    BY <1>1, <1>3
  <2>2. CASE Len(a) < Len(b)
    <3>1. Under(a, b)
      BY <1>1, <2>1, <2>2 DEF Under
    <3> QED
      BY <2>2, <3>1, BeforeIs
  <2>3. CASE Len(b) < Len(a)
    <3>1. Under(b, a)
      BY <1>1, <2>1, <2>3 DEF Under
    <3> QED
      BY <2>3, <3>1, BeforeIs
  <2>4. CASE Len(a) = Len(b)
    <3>1. \A i \in 1 .. Len(a) : a[i] = b[i]
      BY <1>1, <2>1, <2>4
    <3> QED
      BY <2>4, <3>1, SeqEqual DEF Paths
  <2> QED
    BY <1>1, <2>2, <2>3, <2>4
<1>4. CASE Differ # {}
  <2> DEFINE d == Min(Differ)
  <2>1. d \in Differ /\ \A x \in Differ : d <= x
    BY <1>4, LeastNat
  <2> HIDE DEF d
  <2>2. \A i \in 1 .. d - 1 : a[i] = b[i]
    BY <1>1, <2>1
  <2>3. d \in 1 .. Len(a) /\ d \in 1 .. Len(b) /\ (a[d] < b[d] \/ b[d] < a[d])
    BY <1>1, <1>2, <2>1
  <2>4. d <= Len(b) /\ d <= Len(a)
    BY <2>1
  <2> QED
    BY <2>2, <2>3, <2>4, BeforeIs
<1> QED
  BY <1>3, <1>4

-----------------------------------------------------------------------------
\* The number of nodes of X that come before q.
Rank(X, q) == Cardinality({r \in X : Before(r, q)})

\* Later nodes have higher ranks.
LEMMA RankOrders ==
  ASSUME NEW X \in SUBSET Paths, IsFiniteSet(X), NEW q \in X, NEW r \in X, Before(q, r)
  PROVE  Rank(X, q) < Rank(X, r)
<1> DEFINE Q == {s \in X : Before(s, q)}
           R == {s \in X : Before(s, r)}
<1>1. q \in R /\ q \notin Q
  BY BeforeIrreflexive
<1>2. Q \subseteq R
  BY BeforeTransitive
<1>3. IsFiniteSet(R) /\ Q # R
  BY <1>1, FS_Subset
<1>4. Cardinality(Q) <= Cardinality(R) /\ Cardinality(Q) # Cardinality(R)
  BY <1>2, <1>3, FS_Subset
<1>5. Cardinality(Q) \in Nat /\ Cardinality(R) \in Nat
  BY <1>2, <1>3, FS_Subset, FS_CardinalityType
<1> QED
  BY <1>4, <1>5 DEF Rank

\* Ranks are the numbers up to the number of nodes.
LEMMA RankRange ==
  ASSUME NEW X \in SUBSET Paths, IsFiniteSet(X), NEW q \in X
  PROVE  Rank(X, q) \in Nat /\ Rank(X, q) < Cardinality(X)
<1> DEFINE Q == {s \in X : Before(s, q)}
<1>1. q \notin Q /\ Q \subseteq X
  BY BeforeIrreflexive
<1>2. Cardinality(Q) <= Cardinality(X) /\ Cardinality(Q) # Cardinality(X)
  BY <1>1, FS_Subset
<1>3. Cardinality(Q) \in Nat /\ Cardinality(X) \in Nat
  BY <1>1, FS_Subset, FS_CardinalityType
<1> QED
  BY <1>2, <1>3 DEF Rank

\* No two nodes have the same rank.
LEMMA RankUnique ==
  ASSUME NEW X \in SUBSET Paths, IsFiniteSet(X), NEW q \in X, NEW r \in X, Rank(X, q) = Rank(X, r)
  PROVE  q = r
<1> SUFFICES ASSUME q # r
             PROVE  FALSE
  OBVIOUS
<1>1. Rank(X, q) < Rank(X, r) \/ Rank(X, r) < Rank(X, q)
  BY BeforeTotal, RankOrders
<1>2. Rank(X, q) \in Nat /\ Rank(X, r) \in Nat
  BY RankRange
<1> QED
  BY <1>1, <1>2

\* In a file each node lies at its rank.
LEMMA EncodeAt ==
  ASSUME NEW t, Nodes(t) \in SUBSET Paths, IsFiniteSet(Nodes(t)), NEW q \in Nodes(t)
  PROVE  Encode(t)[Rank(Nodes(t), q) + 1] = Token(t, q)
<1> DEFINE X == Nodes(t)
           rank == [r \in X |-> Rank(X, r)]
           k == Rank(X, q) + 1
<1>1. Encode(t) = [j \in 1 .. Cardinality(X) |-> Token(t, CHOOSE r \in X : rank[r] = j - 1)]
  BY DEF Encode, Rank
<1>2. Rank(X, q) \in Nat /\ Rank(X, q) < Cardinality(X) /\ Cardinality(X) \in Nat
  BY RankRange, FS_CardinalityType
<1>3. k \in 1 .. Cardinality(X) /\ k - 1 = Rank(X, q)
  BY <1>2
<1>4. \A r \in X : rank[r] = k - 1 <=> r = q
  BY <1>3, RankUnique
<1>5. (CHOOSE r \in X : rank[r] = k - 1) = q
  BY <1>4
<1> HIDE DEF k, rank
<1>6. Encode(t)[k] = Token(t, q)
  BY <1>1, <1>3, <1>5
<1> QED
  BY <1>6 DEF k

\* The nodes of X that a depth-first walk has still to visit: the walk is at the node
\* `at`, which it has yet to read (here) or has read; todo[l] are the bins to visit in
\* the ancestor of length l - 1, or in `at` itself where l is the last.
Left(X, at, todo, here) ==
  {r \in X : \/ here /\ Under(at, r)
             \/ \E l \in DOMAIN todo : /\ l <= Len(r)
                                       /\ \A i \in 1 .. l - 1 : r[i] = at[i]
                                       /\ r[l] \in todo[l]}

\* X has a node of length l in bin b below the beginning of `at`.
Child(X, at, l, b) == \E r \in X : Len(r) = l /\ (\A i \in 1 .. l - 1 : r[i] = at[i]) /\ r[l] = b

\* The walk is at a node of X, and what is left in each loop are children that come
\* after the path it is on.
Placed(X, at, todo, here) ==
  /\ at \in X
  /\ todo \in Seq(SUBSET Nat) /\ Len(todo) = Len(at) + 1
  /\ \A l \in 1 .. Len(todo) : \A b \in todo[l] : Child(X, at, l, b) /\ (l <= Len(at) => at[l] < b)
  /\ here => todo[Len(todo)] = {}

\* All that has been visited comes before all that is left.
Parted(X, at, todo, here) ==
  \A d \in X \ Left(X, at, todo, here) : \A r \in Left(X, at, todo, here) : Before(d, r)

\* The node at hand is the first of those left.
LEMMA HereFirst ==
  ASSUME NEW X \in SUBSET Paths, NEW at, NEW todo, Placed(X, at, todo, TRUE),
         NEW r \in Left(X, at, todo, TRUE), r # at
  PROVE  Before(at, r)
<1>1. at \in Paths /\ r \in Paths /\ Len(at) \in Nat /\ Len(r) \in Nat
  BY DEF Placed, Left, Paths
<1>2. CASE Under(at, r)
  <2>1. Len(at) # Len(r)
    BY <1>1, <1>2, SeqEqual DEF Under, Paths
  <2>2. Len(at) < Len(r)
    BY <1>1, <1>2, <2>1 DEF Under
  <2> QED
    BY <1>1, <1>2, <2>2, BeforeIs
<1>3. CASE ~ Under(at, r)
  <2>1. PICK l \in DOMAIN todo : l <= Len(r) /\ (\A i \in 1 .. l - 1 : r[i] = at[i]) /\ r[l] \in todo[l]
    BY <1>3 DEF Left
  <2>2. DOMAIN todo = 1 .. Len(at) + 1 /\ todo[Len(at) + 1] = {}
    BY <1>1 DEF Placed
  <2>3. l \in 1 .. Len(at) /\ l \in 1 .. Len(todo)
    BY <1>1, <2>1, <2>2 DEF Placed
  <2>4. at[l] < r[l]
    BY <2>1, <2>3 DEF Placed
  <2>5. \A i \in 1 .. l - 1 : at[i] = r[i]
    BY <2>1
  <2> QED
    BY <1>1, <2>1, <2>3, <2>4, <2>5, BeforeIs
<1> QED
  BY <1>2, <1>3

\* So its rank, in all the nodes or in those of one input, is the number of nodes
\* visited: the cursor of every input that has the node is at it.
LEMMA HereRank ==
  ASSUME NEW X \in SUBSET Paths, NEW at, NEW todo, Placed(X, at, todo, TRUE), Parted(X, at, todo, TRUE),
         NEW Y \in SUBSET X, at \in Y
  PROVE  Rank(Y, at) = Cardinality(Y \ Left(X, at, todo, TRUE))
<1>1. at \in Paths /\ Len(at) \in Nat
  BY DEF Placed, Paths
<1>2. at \in Left(X, at, todo, TRUE)
  BY <1>1 DEF Left, Under, Placed
<1>3. ASSUME NEW r \in Y
      PROVE  Before(r, at) <=> r \notin Left(X, at, todo, TRUE)
  <2>1. ASSUME r \notin Left(X, at, todo, TRUE)
        PROVE  Before(r, at)
    BY <1>2, <2>1 DEF Parted
  <2>2. ASSUME Before(r, at), r \in Left(X, at, todo, TRUE)
        PROVE  FALSE
    <3>1. r = at \/ Before(at, r)
      BY <2>2, HereFirst
    <3>2. r \in Paths
      OBVIOUS
    <3> QED
      BY <1>1, <2>2, <3>1, <3>2, BeforeIrreflexive, BeforeTransitive
  <2> QED
    BY <2>1, <2>2
<1>4. {r \in Y : Before(r, at)} = Y \ Left(X, at, todo, TRUE)
  BY <1>3
<1> QED
  BY <1>4 DEF Rank

\* Reading the node at hand: its children are left to visit, and the order is kept.
LEMMA Visited ==
  ASSUME NEW X \in SUBSET Paths, NEW at, NEW todo, Placed(X, at, todo, TRUE), Parted(X, at, todo, TRUE),
         NEW C \in SUBSET Nat, \A b \in C : Child(X, at, Len(at) + 1, b),
         \A r \in X : (Under(at, r) /\ r # at) => r[Len(at) + 1] \in C,
         NEW next \in Seq(SUBSET Nat), Len(next) = Len(todo),
         \A l \in 1 .. Len(todo) : next[l] = IF l = Len(todo) THEN C ELSE todo[l]
  PROVE  /\ Placed(X, at, next, FALSE)
         /\ Parted(X, at, next, FALSE)
         /\ Left(X, at, next, FALSE) = Left(X, at, todo, TRUE) \ {at}
         /\ at \in Left(X, at, todo, TRUE)
<1> DEFINE n == Len(at) + 1
<1>1. at \in Paths /\ Len(at) \in Nat /\ at \in X /\ Len(todo) = n /\ todo[n] = {}
  BY DEF Placed, Paths
<1>2. DOMAIN todo = 1 .. n /\ DOMAIN next = 1 .. n
  BY <1>1
<1>3. Placed(X, at, next, FALSE)
  <2>1. ASSUME NEW l \in 1 .. n, NEW b \in next[l]
        PROVE  Child(X, at, l, b) /\ (l <= Len(at) => at[l] < b)
    <3>1. CASE l = n
      BY <1>1, <2>1, <3>1
    <3>2. CASE l # n
      BY <1>1, <2>1, <3>2 DEF Placed
    <3> QED
      BY <3>1, <3>2
  <2> QED
    BY <1>1, <2>1 DEF Placed
<1>4. ASSUME NEW r \in X
      PROVE  r \in Left(X, at, next, FALSE) <=> r \in Left(X, at, todo, TRUE) /\ r # at
  <2>1. r \in Paths /\ Len(r) \in Nat
    BY DEF Paths
  <2>2. CASE Under(at, r)
    <3>1. r \in Left(X, at, todo, TRUE)
      BY <2>2 DEF Left
    <3>2. ASSUME r # at
          PROVE  r \in Left(X, at, next, FALSE)
      <4>1. Len(r) # Len(at)
        BY <1>1, <2>1, <2>2, <3>2, SeqEqual DEF Under, Paths
      <4>2. n <= Len(r) /\ r[n] \in next[n] /\ n \in DOMAIN next
        BY <1>1, <1>2, <2>1, <2>2, <3>2, <4>1 DEF Under
      <4>3. \A i \in 1 .. n - 1 : r[i] = at[i]
        BY <1>1, <2>2 DEF Under
      <4> QED
        BY <4>2, <4>3 DEF Left
    <3>3. ASSUME r = at, r \in Left(X, at, next, FALSE)
          PROVE  FALSE
      <4>1. PICK l \in 1 .. n : l <= Len(r) /\ r[l] \in next[l]
        BY <1>2, <3>3 DEF Left
      <4>2. l # n /\ l <= Len(at) /\ at[l] \in todo[l] /\ l \in 1 .. Len(todo)
        BY <1>1, <3>3, <4>1
      <4>3. at[l] < at[l]
        BY <4>2 DEF Placed
      <4>4. at[l] \in Nat
        BY <1>1, <4>2 DEF Paths
      <4> QED
        BY <4>3, <4>4
    <3> QED
      BY <3>1, <3>2, <3>3
  <2>3. CASE ~ Under(at, r)
    <3>1. r # at
      BY <1>1, <2>3 DEF Under
    <3>2. ASSUME NEW l \in 1 .. n, l <= Len(r), \A i \in 1 .. l - 1 : r[i] = at[i]
          PROVE  l # n
      BY <1>1, <2>1, <2>3, <3>2 DEF Under
    <3>3. \A l \in 1 .. n : l # n => next[l] = todo[l]
      BY <1>1
    <3> QED
      BY <1>1, <1>2, <2>3, <3>1, <3>2, <3>3 DEF Left
  <2> QED
    BY <2>2, <2>3
<1>5. at \in Left(X, at, todo, TRUE)
  BY <1>1 DEF Left, Under
<1>6. Left(X, at, next, FALSE) = Left(X, at, todo, TRUE) \ {at}
  <2>1. Left(X, at, next, FALSE) \subseteq X /\ Left(X, at, todo, TRUE) \subseteq X
    BY DEF Left
  <2> QED
    BY <1>4, <2>1
<1>7. Parted(X, at, next, FALSE)
  <2> SUFFICES ASSUME NEW d \in X \ Left(X, at, next, FALSE), NEW r \in Left(X, at, next, FALSE)
               PROVE  Before(d, r)
    BY DEF Parted
  <2>1. r \in Left(X, at, todo, TRUE) /\ r # at
    BY <1>6
  <2>2. CASE d = at
    BY <2>1, <2>2, HereFirst
  <2>3. CASE d # at
    BY <1>6, <2>1, <2>3 DEF Parted
  <2> QED
    BY <2>2, <2>3
<1> QED
  BY <1>3, <1>5, <1>6, <1>7

\* Going on to the first child left: nothing is visited by that.
LEMMA Entered ==
  ASSUME NEW X \in SUBSET Paths, NEW at, NEW todo, Placed(X, at, todo, FALSE),
         NEW i \in todo[Len(todo)], \A b \in todo[Len(todo)] : i <= b,
         NEW to \in Paths, Len(to) = Len(todo), \A j \in 1 .. Len(to) : to[j] = IF j = Len(to) THEN i ELSE at[j],
         NEW next \in Seq(SUBSET Nat), Len(next) = Len(todo) + 1,
         \A l \in 1 .. Len(next) : next[l] = IF l = Len(next) THEN {}
                                             ELSE IF l = Len(todo) THEN todo[l] \ {i} ELSE todo[l]
  PROVE  /\ Placed(X, to, next, TRUE)
         /\ Left(X, to, next, TRUE) = Left(X, at, todo, FALSE)
<1> DEFINE n == Len(todo)
<1>1. at \in Paths /\ Len(at) \in Nat /\ at \in X /\ n = Len(at) + 1
  BY DEF Placed, Paths
<1>2. DOMAIN todo = 1 .. n /\ DOMAIN next = 1 .. n + 1 /\ n \in Nat /\ n \in DOMAIN todo
  BY <1>1
<1>3. \A l \in 1 .. n : todo[l] \in SUBSET Nat
  BY <1>2 DEF Placed
<1>4. i \in Nat /\ \A b \in todo[n] : b \in Nat
  BY <1>2, <1>3
<1>5. to \in X
  <2>1. PICK r \in X : Len(r) = n /\ (\A j \in 1 .. n - 1 : r[j] = at[j]) /\ r[n] = i
    BY <1>2 DEF Placed, Child
  <2>2. \A j \in 1 .. Len(to) : to[j] = r[j]
    BY <1>1, <2>1
  <2>3. to = r
    BY <2>1, <2>2, SeqEqual DEF Paths
  <2> QED
    BY <2>3
<1>6. Placed(X, to, next, TRUE)
  <2>1. ASSUME NEW l \in 1 .. n + 1, NEW b \in next[l]
        PROVE  Child(X, to, l, b) /\ (l <= Len(to) => to[l] < b)
    <3>1. l \in 1 .. n
      BY <1>2, <2>1
    <3>2. b \in todo[l]
      BY <2>1, <3>1
    <3>3. Child(X, at, l, b) /\ (l <= Len(at) => at[l] < b)
      BY <1>2, <3>1, <3>2 DEF Placed
    <3>4. Child(X, to, l, b)
      <4>1. \A j \in 1 .. l - 1 : to[j] = at[j]
        BY <1>1, <3>1
      <4> QED
        BY <3>3, <4>1 DEF Child
    <3>5. CASE l = n
      <4>1. b \in todo[n] \ {i}
        BY <2>1, <3>1, <3>5
      <4>2. i <= b /\ i # b /\ b \in Nat
        BY <1>4, <4>1
      <4>3. to[l] = i
        BY <1>2, <3>5
      <4> QED
        BY <1>4, <3>4, <4>2, <4>3
    <3>6. CASE l # n
      <4>1. l <= Len(at) /\ to[l] = at[l]
        BY <1>1, <3>1, <3>6
      <4> QED
        BY <3>3, <3>4, <4>1
    <3> QED
      BY <3>5, <3>6
  <2>2. next[Len(next)] = {}
    BY <1>2
  <2> QED
    BY <1>2, <1>5, <2>1, <2>2 DEF Placed
<1>7. ASSUME NEW r \in X
      PROVE  r \in Left(X, to, next, TRUE) <=> r \in Left(X, at, todo, FALSE)
  <2>1. r \in Paths /\ Len(r) \in Nat
    BY DEF Paths
  <2>2. Under(to, r) <=> n <= Len(r) /\ (\A j \in 1 .. n - 1 : r[j] = at[j]) /\ r[n] = i
    BY <1>1, <1>2 DEF Under
  <2>3. ASSUME NEW l \in 1 .. n
        PROVE  (\A j \in 1 .. l - 1 : r[j] = to[j]) <=> \A j \in 1 .. l - 1 : r[j] = at[j]
    BY <1>2
  <2>4. ASSUME r \in Left(X, to, next, TRUE)
        PROVE  r \in Left(X, at, todo, FALSE)
    <3>1. CASE Under(to, r)
      BY <1>2, <2>2, <3>1 DEF Left
    <3>2. CASE ~ Under(to, r)
      <4>1. PICK l \in 1 .. n + 1 : l <= Len(r) /\ (\A j \in 1 .. l - 1 : r[j] = to[j]) /\ r[l] \in next[l]
        BY <1>2, <2>4, <3>2 DEF Left
      <4>2. l \in 1 .. n
        BY <1>2, <4>1
      <4>3. r[l] \in todo[l]
        BY <4>1, <4>2
      <4> QED
        BY <1>2, <2>3, <4>1, <4>2, <4>3 DEF Left
    <3> QED
      BY <3>1, <3>2
  <2>5. ASSUME r \in Left(X, at, todo, FALSE)
        PROVE  r \in Left(X, to, next, TRUE)
    <3>1. PICK l \in 1 .. n : l <= Len(r) /\ (\A j \in 1 .. l - 1 : r[j] = at[j]) /\ r[l] \in todo[l]
      BY <1>2, <2>5 DEF Left
    <3>2. CASE l = n /\ r[l] = i
      BY <2>2, <3>1, <3>2 DEF Left
    <3>3. CASE ~ (l = n /\ r[l] = i)
      <4>1. l \in DOMAIN next /\ r[l] \in next[l]
        BY <1>2, <3>1, <3>3
      <4> QED
        BY <2>3, <3>1, <4>1 DEF Left
    <3> QED
      BY <3>2, <3>3
  <2> QED
    BY <2>4, <2>5
<1>8. Left(X, to, next, TRUE) \subseteq X /\ Left(X, at, todo, FALSE) \subseteq X
  BY DEF Left
<1> QED
  BY <1>6, <1>7, <1>8

\* A loop that is done goes back to its caller's: nothing is visited by that.
LEMMA Returned ==
  ASSUME NEW X \in SUBSET Paths, NEW at, NEW todo, Placed(X, at, todo, FALSE),
         todo[Len(todo)] = {}, Len(todo) > 1,
         NEW to \in X, Len(to) = Len(at) - 1, \A j \in 1 .. Len(to) : to[j] = at[j],
         NEW next \in Seq(SUBSET Nat), Len(next) = Len(todo) - 1, \A l \in 1 .. Len(next) : next[l] = todo[l]
  PROVE  /\ Placed(X, to, next, FALSE)
         /\ Left(X, to, next, FALSE) = Left(X, at, todo, FALSE)
<1> DEFINE n == Len(next)
<1>1. at \in Paths /\ Len(at) = n /\ n \in Nat /\ Len(todo) = n + 1 /\ Len(to) = n - 1
  BY DEF Placed, Paths
<1>2. DOMAIN todo = 1 .. n + 1 /\ DOMAIN next = 1 .. n
  BY <1>1 DEF Placed
<1>3. ASSUME NEW r, NEW l \in 1 .. n
      PROVE  (\A j \in 1 .. l - 1 : r[j] = to[j]) <=> \A j \in 1 .. l - 1 : r[j] = at[j]
  BY <1>1
<1>4. Placed(X, to, next, FALSE)
  <2>1. ASSUME NEW l \in 1 .. n, NEW b \in next[l]
        PROVE  Child(X, to, l, b) /\ (l <= Len(to) => to[l] < b)
    <3>1. l \in 1 .. Len(todo) /\ b \in todo[l]
      BY <1>1, <2>1
    <3>2. Child(X, at, l, b) /\ (l <= Len(at) => at[l] < b)
      BY <3>1 DEF Placed
    <3>3. Child(X, to, l, b)
      BY <1>3, <3>2 DEF Child
    <3>4. l <= Len(to) => l <= Len(at) /\ to[l] = at[l]
      BY <1>1
    <3> QED
      BY <3>2, <3>3, <3>4
  <2> QED
    BY <1>1, <2>1 DEF Placed
<1>5. ASSUME NEW r \in X
      PROVE  r \in Left(X, to, next, FALSE) <=> r \in Left(X, at, todo, FALSE)
  <2>1. \A l \in 1 .. n + 1 : r[l] \in todo[l] => l \in 1 .. n
    BY <1>1
  <2>2. \A l \in 1 .. n : next[l] = todo[l]
    OBVIOUS
  <2>3. ASSUME r \in Left(X, to, next, FALSE)
        PROVE  r \in Left(X, at, todo, FALSE)
    <3>1. PICK l \in 1 .. n : l <= Len(r) /\ (\A j \in 1 .. l - 1 : r[j] = to[j]) /\ r[l] \in next[l]
      BY <1>2, <2>3 DEF Left
    <3>2. l \in DOMAIN todo /\ r[l] \in todo[l] /\ \A j \in 1 .. l - 1 : r[j] = at[j]
      BY <1>1, <1>2, <1>3, <2>2, <3>1
    <3> QED
      BY <3>1, <3>2 DEF Left
  <2>4. ASSUME r \in Left(X, at, todo, FALSE)
        PROVE  r \in Left(X, to, next, FALSE)
    <3>1. PICK l \in 1 .. n + 1 : l <= Len(r) /\ (\A j \in 1 .. l - 1 : r[j] = at[j]) /\ r[l] \in todo[l]
      BY <1>2, <2>4 DEF Left
    <3>2. l \in 1 .. n
      BY <2>1, <3>1
    <3>3. l \in DOMAIN next /\ r[l] \in next[l] /\ \A j \in 1 .. l - 1 : r[j] = to[j]
      BY <1>2, <1>3, <2>2, <3>1, <3>2
    <3> QED
      BY <3>1, <3>3 DEF Left
  <2> QED
    BY <2>3, <2>4
<1>6. Left(X, to, next, FALSE) \subseteq X /\ Left(X, at, todo, FALSE) \subseteq X
  BY DEF Left
<1> QED
  BY <1>4, <1>5, <1>6

-----------------------------------------------------------------------------
\* A trie of finitely many values.
IsTrie(t) ==
  /\ IsFiniteSet(DOMAIN t)
  /\ DOMAIN t \subseteq Paths \ {<<>>}
  /\ \A p \in DOMAIN t : t[p] \in Int

\* The nodes of a trie are the root and the beginnings of its populated paths.
LEMMA NodeIs ==
  ASSUME NEW t, IsTrie(t), NEW q
  PROVE  q \in Nodes(t) <=> q = <<>> \/ (q \in Paths /\ \E p \in DOMAIN t : Len(q) < Len(p) /\ Under(q, p))
<1>1. ASSUME NEW p \in DOMAIN t, NEW d \in 1 .. Len(p) - 1, q = SubSeq(p, 1, d)
      PROVE  q \in Paths /\ Len(q) < Len(p) /\ Under(q, p)
  <2>1. p \in Paths /\ Len(p) \in Nat /\ d \in 0 .. Len(p)
    BY DEF IsTrie, Paths
  <2>2. q \in Paths /\ Len(q) = d /\ \A i \in 1 .. d : q[i] = p[i]
    BY <1>1, <2>1, Beginning
  <2> QED
    BY <2>1, <2>2 DEF Under
<1>2. ASSUME NEW p \in DOMAIN t, q \in Paths, q # <<>>, Len(q) < Len(p), Under(q, p)
      PROVE  \E d \in 1 .. Len(p) - 1 : q = SubSeq(p, 1, d)
  <2>1. p \in Paths /\ Len(p) \in Nat /\ Len(q) \in 1 .. Len(p) - 1
    BY <1>2 DEF IsTrie, Paths
  <2>2. SubSeq(p, 1, Len(q)) \in Seq(Nat) /\ Len(SubSeq(p, 1, Len(q))) = Len(q)
        /\ \A i \in 1 .. Len(q) : SubSeq(p, 1, Len(q))[i] = p[i]
    BY <2>1, Beginning DEF Paths
  <2>3. \A i \in 1 .. Len(q) : q[i] = SubSeq(p, 1, Len(q))[i]
    BY <1>2, <2>2 DEF Under
  <2>4. q = SubSeq(p, 1, Len(q))
    BY <1>2, <2>2, <2>3, SeqEqual DEF Paths
  <2> QED
    BY <2>1, <2>4
<1> QED
  BY <1>1, <1>2 DEF Nodes

\* A trie has finitely many nodes.
LEMMA NodesArePaths ==
  ASSUME NEW t, IsTrie(t)
  PROVE  Nodes(t) \in SUBSET Paths /\ IsFiniteSet(Nodes(t)) /\ <<>> \in Nodes(t)
<1>1. <<>> \in Paths
  BY DEF Paths
<1>2. Nodes(t) \in SUBSET Paths
  BY <1>1, NodeIs
<1>3. IsFiniteSet(Nodes(t))
  <2> DEFINE S(p) == {SubSeq(p, 1, d) : d \in 1 .. Len(p) - 1}
             f == [p \in DOMAIN t |-> S(p)]
  <2>1. ASSUME NEW p \in DOMAIN t
        PROVE  IsFiniteSet(S(p))
    <3> DEFINE D == 1 .. Len(p) - 1
               g == [d \in D |-> SubSeq(p, 1, d)]
    <3>1. IsFiniteSet(D)
      <4>1. Len(p) - 1 \in Int
        BY DEF IsTrie, Paths
      <4> QED
        BY <4>1, FS_Interval
    <3>2. S(p) = {g[d] : d \in D}
      OBVIOUS
    <3> HIDE DEF g, D
    <3>3. IsFiniteSet({g[d] : d \in D})
      BY <3>1, ImageFinite
    <3> QED
      BY <3>2, <3>3
  <2>2. {S(p) : p \in DOMAIN t} = {f[p] : p \in DOMAIN t}
    OBVIOUS
  <2>3. IsFiniteSet({f[p] : p \in DOMAIN t})
    <3> HIDE DEF f
    <3> QED
      BY ImageFinite DEF IsTrie
  <2>4. IsFiniteSet({S(p) : p \in DOMAIN t})
    BY <2>2, <2>3
  <2> HIDE DEF S
  <2>5. IsFiniteSet(UNION {S(p) : p \in DOMAIN t})
    BY <2>1, <2>4, FS_UNION
  <2>6. IsFiniteSet({<<>>} \cup UNION {S(p) : p \in DOMAIN t})
    BY <2>5, FS_Singleton, FS_Union
  <2> QED
    BY <2>6 DEF Nodes, S
<1>4. <<>> \in Nodes(t)
  BY DEF Nodes
<1> QED
  BY <1>2, <1>3, <1>4

\* Above a node are nodes.
LEMMA NodesClosed ==
  ASSUME NEW t, IsTrie(t), NEW q \in Nodes(t), NEW r \in Paths, Under(r, q)
  PROVE  r \in Nodes(t)
<1>1. q \in Paths /\ Len(q) \in Nat /\ Len(r) \in Nat
  BY NodesArePaths DEF Paths
<1>2. CASE q = <<>>
  <2>1. Len(r) = 0
    BY <1>1, <1>2 DEF Under
  <2>2. r = <<>>
    BY <2>1 DEF Paths
  <2> QED
    BY <2>2, NodeIs
<1>3. CASE q # <<>>
  <2>1. PICK p \in DOMAIN t : Len(q) < Len(p) /\ Under(q, p)
    BY <1>3, NodeIs
  <2>2. Len(p) \in Nat
    BY DEF IsTrie, Paths
  <2>3. Len(r) < Len(p) /\ Under(r, p)
    BY <1>1, <2>1, <2>2 DEF Under
  <2> QED
    BY <2>3, NodeIs
<1> QED
  BY <1>2, <1>3

\* The populated paths below a node.
LEMMA BelowIs ==
  ASSUME NEW t, IsTrie(t), NEW q \in Paths
  PROVE  Below(t, q) = {p \in DOMAIN t : Len(q) < Len(p) /\ Under(q, p)}
BY StrictPrefixIs DEF Below, IsTrie

\* The union of tries: populated where one of them is, with the sums of the counts.
LEMMA UnionIs ==
  ASSUME NEW ts, IsFiniteSet(DOMAIN ts), \A k \in DOMAIN ts : IsTrie(ts[k])
  PROVE  /\ IsTrie(Union(ts))
         /\ DOMAIN Union(ts) = UNION {DOMAIN ts[k] : k \in DOMAIN ts}
         /\ \A p \in DOMAIN Union(ts) :
              Union(ts)[p] = SumFunctionOnSet([k \in {k \in DOMAIN ts : p \in DOMAIN ts[k]} |-> ts[k][p]],
                                              {k \in DOMAIN ts : p \in DOMAIN ts[k]}) % CountMod
<1> DEFINE D == UNION {DOMAIN ts[k] : k \in DOMAIN ts}
           K(p) == {k \in DOMAIN ts : p \in DOMAIN ts[k]}
           c(p) == [k \in K(p) |-> ts[k][p]]
<1>1. DOMAIN Union(ts) = D
  BY DEF Union
<1>2. \A p \in D : Union(ts)[p] = SumFunctionOnSet(c(p), K(p)) % CountMod
  BY DEF Union, SumFunction
<1>3. ASSUME NEW p \in D
      PROVE  Union(ts)[p] \in Int
  <2> DEFINE s == SumFunctionOnSet(c(p), K(p))
  <2>1. s \in Int
    <3>1. \A k \in K(p) : c(p)[k] \in Int
      BY DEF IsTrie
    <3>2. IsFiniteSet(K(p))
      BY FS_Subset
    <3> QED
      BY <3>1, <3>2, SumType
  <2>2. Union(ts)[p] = s % CountMod
    BY <1>2
  <2> HIDE DEF s
  <2> QED
    BY <2>1, <2>2, ModAssumption
<1>4. IsFiniteSet(D)
  <2> DEFINE f == [k \in DOMAIN ts |-> DOMAIN ts[k]]
  <2>1. {DOMAIN ts[k] : k \in DOMAIN ts} = {f[k] : k \in DOMAIN ts}
    OBVIOUS
  <2> HIDE DEF f
  <2>2. IsFiniteSet({f[k] : k \in DOMAIN ts})
    BY ImageFinite
  <2> QED
    BY <2>1, <2>2, FS_UNION DEF IsTrie
<1>5. D \subseteq Paths \ {<<>>}
  BY DEF IsTrie
<1>6. IsTrie(Union(ts))
  BY <1>1, <1>3, <1>4, <1>5 DEF IsTrie
<1> QED
  BY <1>1, <1>2, <1>6

\* A union has the nodes of the tries it is of.
LEMMA NodesOfUnion ==
  ASSUME NEW ts, IsFiniteSet(DOMAIN ts), DOMAIN ts # {}, \A k \in DOMAIN ts : IsTrie(ts[k]), NEW q
  PROVE  q \in Nodes(Union(ts)) <=> \E k \in DOMAIN ts : q \in Nodes(ts[k])
<1>1. IsTrie(Union(ts)) /\ DOMAIN Union(ts) = UNION {DOMAIN ts[k] : k \in DOMAIN ts}
  BY UnionIs
<1> QED
  BY <1>1, NodeIs

\* Over any paths, the counts of a union are the sums of the tries' counts.
LEMMA SumOfUnion ==
  ASSUME NEW ts, IsFiniteSet(DOMAIN ts), \A k \in DOMAIN ts : IsTrie(ts[k]), NEW P \in SUBSET DOMAIN Union(ts)
  PROVE  /\ SumFunctionOnSet(Union(ts), P) % CountMod
              = SumFunctionOnSet([k \in DOMAIN ts |-> SumFunctionOnSet(ts[k], P \cap DOMAIN ts[k])], DOMAIN ts)
                  % CountMod
         /\ \A k \in DOMAIN ts : SumFunctionOnSet(ts[k], P \cap DOMAIN ts[k]) \in Int
<1> DEFINE K == DOMAIN ts
           H(p) == {k \in K : p \in DOMAIN ts[k]}
           z == [k \in K |-> [p \in P |-> IF p \in DOMAIN ts[k] THEN ts[k][p] ELSE 0]]
           column(p) == [k \in K |-> z[k][p]]
           total == [p \in P |-> SumFunctionOnSet(column(p), K)]
<1>1. IsFiniteSet(P) /\ IsTrie(Union(ts))
  BY UnionIs, FS_Subset DEF IsTrie
<1>2. \A k \in K : \A p \in P : z[k][p] = (IF p \in DOMAIN ts[k] THEN ts[k][p] ELSE 0) /\ z[k][p] \in Int
  BY DEF IsTrie
<1> HIDE DEF z
<1>3. ASSUME NEW p \in P
      PROVE  total[p] \in Int /\ Union(ts)[p] = total[p] % CountMod
  <2> DEFINE c == column(p)
             f == [k \in H(p) |-> ts[k][p]]
  <2>1. (\A k \in K : c[k] \in Int) /\ (\A k \in K \ H(p) : c[k] = 0) /\ (\A k \in H(p) : c[k] = f[k])
    BY <1>2
  <2>2. total[p] = SumFunctionOnSet(c, K) /\ H(p) \in SUBSET K
    OBVIOUS
  <2>3. Union(ts)[p] = SumFunctionOnSet(f, H(p)) % CountMod
    BY UnionIs
  <2> HIDE DEF c, f, H
  <2>4. SumFunctionOnSet(c, K) = SumFunctionOnSet(c, H(p)) /\ SumFunctionOnSet(c, K) \in Int
    BY <2>1, <2>2, SumSupport, SumType
  <2>5. SumFunctionOnSet(c, H(p)) = SumFunctionOnSet(f, H(p))
    BY <2>1, <2>2, SumSame, FS_Subset
  <2> QED
    BY <2>2, <2>3, <2>4, <2>5
<1>4. SumFunctionOnSet(Union(ts), P) % CountMod = SumFunctionOnSet(total, P) % CountMod
  <2> HIDE DEF total
  <2> QED
    BY <1>1, <1>3, SumModulo, ModAssumption
<1>5. SumFunctionOnSet([k \in K |-> SumFunctionOnSet(z[k], P)], K) = SumFunctionOnSet(total, P)
  <2>1. IsFiniteSet(K)
    OBVIOUS
  <2> HIDE DEF K
  <2>2. SumFunctionOnSet([k \in K |-> SumFunctionOnSet(z[k], P)], K)
          = SumFunctionOnSet([p \in P |-> SumFunctionOnSet([k \in K |-> z[k][p]], K)], P)
    BY <1>1, <1>2, <2>1, SumExchange
  <2> QED
    BY <2>2
<1>6. ASSUME NEW k \in K
      PROVE  /\ SumFunctionOnSet(z[k], P) = SumFunctionOnSet(ts[k], P \cap DOMAIN ts[k])
             /\ SumFunctionOnSet(ts[k], P \cap DOMAIN ts[k]) \in Int
  <2> DEFINE T == P \cap DOMAIN ts[k]
  <2>1. T \in SUBSET P /\ IsFiniteSet(T) /\ (\A p \in P : z[k][p] \in Int) /\ (\A p \in P \ T : z[k][p] = 0)
        /\ (\A p \in T : z[k][p] = ts[k][p] /\ ts[k][p] \in Int)
    BY <1>1, <1>2, FS_Subset DEF IsTrie
  <2> HIDE DEF T
  <2>2. SumFunctionOnSet(z[k], P) = SumFunctionOnSet(z[k], T)
    BY <1>1, <2>1, SumSupport
  <2>3. SumFunctionOnSet(z[k], T) = SumFunctionOnSet(ts[k], T) /\ SumFunctionOnSet(ts[k], T) \in Int
    BY <2>1, SumSame, SumType
  <2> QED
    BY <2>2, <2>3 DEF T
<1>7. [k \in K |-> SumFunctionOnSet(z[k], P)] = [k \in K |-> SumFunctionOnSet(ts[k], P \cap DOMAIN ts[k])]
  BY <1>6
<1> QED
  BY <1>4, <1>5, <1>6, <1>7

\* The populated paths below a node that go through one bin.
Inside(t, q, i) == {p \in Below(t, q) : BinAfter(p, q) = i}

\* The token of a node: the bins populated, with the wrapped number of values in each.
LEMMA TokenIs ==
  ASSUME NEW t, IsTrie(t), NEW q \in Paths
  PROVE  /\ DOMAIN Token(t, q) = {BinAfter(p, q) : p \in Below(t, q)}
         /\ DOMAIN Token(t, q) \in SUBSET Nat
         /\ \A i \in DOMAIN Token(t, q) :
              /\ Token(t, q)[i] = SumFunctionOnSet(t, Inside(t, q, i)) % CountMod
              /\ Token(t, q)[i] \in 0 .. CountMod - 1
<1>1. DOMAIN Token(t, q) = {BinAfter(p, q) : p \in Below(t, q)}
  BY DEF Token
<1>2. ASSUME NEW p \in Below(t, q)
      PROVE  BinAfter(p, q) \in Nat
  <2>1. p \in Paths /\ Len(q) < Len(p) /\ Len(q) \in Nat /\ Len(p) \in Nat
    BY BelowIs DEF IsTrie, Paths
  <2>2. Len(q) + 1 \in 1 .. Len(p)
    BY <2>1
  <2> QED
    BY <2>1, <2>2 DEF BinAfter, Paths
<1>3. ASSUME NEW i \in DOMAIN Token(t, q)
      PROVE  /\ Token(t, q)[i] = SumFunctionOnSet(t, Inside(t, q, i)) % CountMod
             /\ Token(t, q)[i] \in 0 .. CountMod - 1
  <2> DEFINE P == Inside(t, q, i)
             s == SumFunctionOnSet(t, P)
  <2>1. Token(t, q)[i] = s % CountMod
    BY <1>1 DEF Token, Inside
  <2>2. P \in SUBSET DOMAIN t
    BY DEF Below, Inside
  <2>3. s \in Int
    <3> HIDE DEF P
    <3>1. IsFiniteSet(P) /\ \A p \in P : t[p] \in Int
      BY <2>2, FS_Subset DEF IsTrie
    <3> QED
      BY <3>1, SumType
  <2> HIDE DEF s
  <2>4. s % CountMod \in 0 .. CountMod - 1
    BY <2>3, ModAssumption
  <2> QED
    BY <2>1, <2>4 DEF s
<1> QED
  BY <1>1, <1>2, <1>3

\* The token of a node of a union is the sum of the tokens of the tries that have the
\* node (mergeSubtree's and the pairwise merges' sums are of these).
LEMMA TokenOfUnion ==
  ASSUME NEW ts, IsFiniteSet(DOMAIN ts), \A k \in DOMAIN ts : IsTrie(ts[k]), NEW q \in Paths,
         NEW H \in SUBSET DOMAIN ts, \A k \in DOMAIN ts \ H : q \notin Nodes(ts[k])
  PROVE  Token(Union(ts), q) = SumTokens([k \in H |-> Token(ts[k], q)])
<1> DEFINE K == DOMAIN ts
           U == Union(ts)
           fs == [k \in H |-> Token(ts[k], q)]
<1>1. IsTrie(U) /\ DOMAIN U = UNION {DOMAIN ts[k] : k \in K}
  BY UnionIs
<1>2. \A p : p \in Below(U, q) <=> \E k \in K : p \in Below(ts[k], q)
  BY <1>1, BelowIs
<1>3. \A k \in K \ H : Below(ts[k], q) = {}
  BY BelowIs, NodeIs
<1>4. \A k \in H : DOMAIN fs[k] = {BinAfter(p, q) : p \in Below(ts[k], q)}
  BY TokenIs
<1>5. DOMAIN Token(U, q) = UNION {DOMAIN fs[k] : k \in H}
  <2>1. DOMAIN Token(U, q) = {BinAfter(p, q) : p \in Below(U, q)}
    BY <1>1, TokenIs
  <2> HIDE DEF U, fs
  <2>2. ASSUME NEW i \in DOMAIN Token(U, q)
        PROVE  \E k \in H : i \in DOMAIN fs[k]
    <3>1. PICK p \in Below(U, q) : i = BinAfter(p, q)
      BY <2>1
    <3>2. PICK k \in K : p \in Below(ts[k], q)
      BY <1>2, <3>1
    <3> QED
      BY <1>3, <1>4, <3>1, <3>2
  <2>3. ASSUME NEW k \in H, NEW i \in DOMAIN fs[k]
        PROVE  i \in DOMAIN Token(U, q)
    <3>1. PICK p \in Below(ts[k], q) : i = BinAfter(p, q)
      BY <1>4
    <3>2. p \in Below(U, q)
      BY <1>2, <3>1
    <3> QED
      BY <2>1, <3>1, <3>2
  <2> QED
    BY <2>2, <2>3
<1>6. ASSUME NEW i \in DOMAIN Token(U, q)
      PROVE  Token(U, q)[i] = SumFunction([k \in {k \in H : i \in DOMAIN fs[k]} |-> fs[k][i]]) % CountMod
  <2> DEFINE P == Inside(U, q, i)
             I == {k \in H : i \in DOMAIN fs[k]}
             g == [k \in I |-> fs[k][i]]
             s == [k \in K |-> SumFunctionOnSet(ts[k], P \cap DOMAIN ts[k])]
  <2>1. Token(U, q)[i] = SumFunctionOnSet(U, P) % CountMod
    <3> HIDE DEF U
    <3> QED
      BY <1>1, TokenIs
  <2>2. P \in SUBSET DOMAIN U
    BY DEF Below, Inside
  <2>3. ASSUME NEW k \in K
        PROVE  P \cap DOMAIN ts[k] = Inside(ts[k], q, i)
    BY <1>1, BelowIs DEF Inside
  <2>4. SumFunctionOnSet(U, P) % CountMod = SumFunctionOnSet(s, K) % CountMod /\ \A k \in K : s[k] \in Int
    <3> HIDE DEF P
    <3> QED
      BY <2>2, SumOfUnion
  <2>5. ASSUME NEW k \in K \ I
        PROVE  s[k] = 0
    <3>1. Inside(ts[k], q, i) = {}
      <4>1. CASE k \notin H
        BY <1>3, <4>1 DEF Inside
      <4>2. CASE k \in H
        <5>1. i \notin {BinAfter(p, q) : p \in Below(ts[k], q)}
          BY <1>4, <4>2
        <5> QED
          BY <5>1 DEF Inside
      <4> QED
        BY <4>1, <4>2
    <3>2. s[k] = SumFunctionOnSet(ts[k], {})
      BY <2>3, <3>1
    <3> QED
      BY <3>2, SumEmpty
  <2>6. ASSUME NEW k \in I
        PROVE  g[k] = s[k] % CountMod
    <3>1. IsTrie(ts[k]) /\ i \in DOMAIN Token(ts[k], q) /\ g[k] = Token(ts[k], q)[i]
      OBVIOUS
    <3>2. s[k] = SumFunctionOnSet(ts[k], Inside(ts[k], q, i))
      BY <2>3
    <3>3. Token(ts[k], q)[i] = SumFunctionOnSet(ts[k], Inside(ts[k], q, i)) % CountMod
      BY <3>1, TokenIs
    <3> QED
      BY <3>1, <3>2, <3>3
  <2>7. I \in SUBSET K /\ IsFiniteSet(I)
    BY FS_Subset
  <2>8. SumFunctionOnSet(g, I) = SumFunction(g)
    BY DEF SumFunction
  <2> HIDE DEF P, I, g, s, K
  <2>9. IsFiniteSet(K)
    BY DEF K
  <2>10. SumFunctionOnSet(s, K) = SumFunctionOnSet(s, I)
    BY <2>4, <2>5, <2>7, <2>9, SumSupport
  <2>11. SumFunctionOnSet(g, I) % CountMod = SumFunctionOnSet(s, I) % CountMod
    BY <2>4, <2>6, <2>7, SumModulo, ModAssumption
  <2>12. Token(U, q)[i] = SumFunction(g) % CountMod
    BY <2>1, <2>4, <2>8, <2>10, <2>11
  <2> QED
    BY <2>12 DEF g, I
<1>7. Token(U, q) = [i \in DOMAIN Token(U, q) |-> Token(U, q)[i]]
  BY DEF Token
<1>8. SumTokens(fs) = [i \in UNION {DOMAIN fs[k] : k \in H} |->
                         SumFunction([k \in {k \in H : i \in DOMAIN fs[k]} |-> fs[k][i]]) % CountMod]
  <2>1. DOMAIN fs = H
    OBVIOUS
  <2> HIDE DEF fs
  <2> QED
    BY <2>1 DEF SumTokens
<1> HIDE DEF fs, U
<1>9. Token(U, q) = SumTokens(fs)
  BY <1>5, <1>6, <1>7, <1>8
<1> QED
  BY <1>9 DEF fs, U

\* trie_count of a union is the sum of the tries', wrapped.
LEMMA ObservedOfUnion ==
  ASSUME NEW ts, IsFiniteSet(DOMAIN ts), \A k \in DOMAIN ts : IsTrie(ts[k])
  PROVE  Observed(Union(ts)) = SumFunction([k \in DOMAIN ts |-> Observed(ts[k])]) % CountMod
<1> DEFINE K == DOMAIN ts
           P == DOMAIN Union(ts)
           s == [k \in K |-> SumFunctionOnSet(ts[k], P \cap DOMAIN ts[k])]
           g == [k \in K |-> Observed(ts[k])]
<1>1. SumFunctionOnSet(Union(ts), P) % CountMod = SumFunctionOnSet(s, K) % CountMod
      /\ \A k \in K : s[k] \in Int
  <2>1. P \in SUBSET DOMAIN Union(ts)
    OBVIOUS
  <2> HIDE DEF P
  <2> QED
    BY <2>1, SumOfUnion
<1>2. ASSUME NEW k \in K
      PROVE  g[k] = s[k] % CountMod
  <2>1. P \cap DOMAIN ts[k] = DOMAIN ts[k]
    BY UnionIs
  <2>2. s[k] = SumFunctionOnSet(ts[k], DOMAIN ts[k])
    BY <2>1
  <2> QED
    BY <2>2 DEF Observed, SumFunction
<1>3. DOMAIN g = K /\ IsFiniteSet(K) /\ Observed(Union(ts)) = SumFunctionOnSet(Union(ts), P) % CountMod
  BY DEF Observed, SumFunction
<1> HIDE DEF s, K, P
<1>4. SumFunctionOnSet(g, K) % CountMod = SumFunctionOnSet(s, K) % CountMod
  <2> HIDE DEF g
  <2> QED
    BY <1>1, <1>2, <1>3, SumModulo, ModAssumption
<1>5. SumFunction(g) = SumFunctionOnSet(g, K)
  BY <1>3 DEF SumFunction
<1> HIDE DEF g
<1>6. Observed(Union(ts)) = SumFunction(g) % CountMod
  BY <1>1, <1>3, <1>4, <1>5
<1> QED
  BY <1>6 DEF g, K

\* trie_count is the sum of the root's counts, wrapped.
LEMMA ObservedAtRoot ==
  ASSUME NEW t, IsTrie(t)
  PROVE  Observed(t) = SumFunction(Token(t, <<>>)) % CountMod
<1> DEFINE V == DOMAIN Token(t, <<>>)
           h == [p \in DOMAIN t |-> p[1]]
           s == [i \in V |-> SumFunctionOnSet(t, {p \in DOMAIN t : h[p] = i})]
           g == Token(t, <<>>)
<1>1. <<>> \in Paths /\ Len(<<>>) = 0
  BY DEF Paths
<1>2. Below(t, <<>>) = DOMAIN t
  <2>1. \A p \in DOMAIN t : 0 < Len(p) /\ Under(<<>>, p)
    BY <1>1 DEF IsTrie, Paths, Under
  <2> QED
    BY <1>1, <2>1, BelowIs
<1>3. \A p \in DOMAIN t : BinAfter(p, <<>>) = p[1]
  BY <1>1 DEF BinAfter
<1>4. V = {p[1] : p \in DOMAIN t}
  <2>1. V = {BinAfter(p, <<>>) : p \in Below(t, <<>>)}
    BY <1>1, TokenIs
  <2> HIDE DEF V
  <2> QED
    BY <1>2, <1>3, <2>1
<1>5. IsFiniteSet(V) /\ \A p \in DOMAIN t : h[p] \in V
  <2>1. V = {h[p] : p \in DOMAIN t}
    BY <1>4
  <2> HIDE DEF h, V
  <2>2. IsFiniteSet(V)
    BY <2>1, ImageFinite DEF IsTrie
  <2> QED
    BY <2>1, <2>2
<1>6. ASSUME NEW i \in V
      PROVE  s[i] \in Int /\ g[i] = s[i] % CountMod
  <2> DEFINE P == {p \in DOMAIN t : h[p] = i}
  <2>1. P = Inside(t, <<>>, i)
    BY <1>2, <1>3 DEF Inside
  <2>2. g[i] = SumFunctionOnSet(t, P) % CountMod
    <3>1. \A j \in V : g[j] = SumFunctionOnSet(t, Inside(t, <<>>, j)) % CountMod
      BY <1>1, TokenIs
    <3> HIDE DEF P, g, V
    <3> QED
      BY <2>1, <3>1
  <2>3. P \in SUBSET DOMAIN t /\ s[i] = SumFunctionOnSet(t, P)
    OBVIOUS
  <2> HIDE DEF P, s, g
  <2>4. SumFunctionOnSet(t, P) \in Int
    BY <2>3, SumType, FS_Subset DEF IsTrie
  <2> QED
    BY <2>2, <2>3, <2>4
<1>7. SumFunctionOnSet(t, DOMAIN t) = SumFunctionOnSet(s, V)
  <2> HIDE DEF h, V
  <2> QED
    BY <1>5, SumPartition DEF IsTrie
<1>8. SumFunction(g) = SumFunctionOnSet(g, V)
  BY DEF SumFunction
<1> HIDE DEF s, V, g
<1>9. SumFunctionOnSet(g, V) % CountMod = SumFunctionOnSet(s, V) % CountMod
  BY <1>5, <1>6, SumModulo, ModAssumption
<1>10. Observed(t) = SumFunction(g) % CountMod
  BY <1>7, <1>8, <1>9 DEF Observed, SumFunction
<1> QED
  BY <1>10 DEF g

\* A place where a value can be counted is a path.
LEMMA LeafIs ==
  ASSUME NEW d \in 1 .. MaxDepth, NEW S, NEW p \in [1 .. d -> S], \A e \in 1 .. Len(p) : p[e] \in NodeBins(e)
  PROVE  p \in Paths \ {<<>>} /\ Len(p) = d /\ p[1] \in NodeBins(1) /\ p[1] \in Nat
<1>1. Len(Bins) \in Nat /\ \A e \in 1 .. Len(Bins) : Bins[e] \in Nat \ {0}
  BY BinsAssumption
<1>2. d \in Nat /\ d >= 1 /\ d <= Len(Bins)
  BY <1>1 DEF MaxDepth
<1>3. p \in Seq(S) /\ Len(p) = d
  BY <1>2, SeqDef
<1>4. \A e \in 1 .. d : p[e] \in Nat
  BY <1>1, <1>2, <1>3 DEF NodeBins
<1>5. p \in [1 .. d -> Nat]
  BY <1>4
<1> QED
  BY <1>2, <1>3, <1>4, <1>5, SeqDef DEF Paths

\* A place where a value can be counted is a path of as many bins as its root bin says.
LEMMA LeafIsPath ==
  ASSUME NEW p \in Leaves
  PROVE  /\ p \in Paths \ {<<>>} /\ Len(p) \in 1 .. MaxDepth /\ Len(p) = Depth[p[1]]
         /\ \A d \in 1 .. Len(p) : p[d] \in NodeBins(d)
<1>1. PICK d \in 1 .. MaxDepth : p \in [1 .. d -> 0 .. Max({Bins[e] : e \in 1 .. d}) - 1]
  BY DEF Leaves
<1>2. /\ \A e \in 1 .. Len(p) : p[e] \in NodeBins(e)
      /\ Len(p) = Depth[p[1]]
  BY DEF Leaves
<1>3. p \in Paths \ {<<>>} /\ Len(p) = d
  BY <1>1, <1>2, LeafIs
<1> QED
  BY <1>2, <1>3

\* A trie of a schema: D[i] is the length of the paths through root bin i.
Levelled(t, D) ==
  /\ IsTrie(t)
  /\ \A p \in DOMAIN t : /\ Len(p) = D[p[1]] /\ Len(p) <= MaxDepth
                         /\ \A d \in 1 .. Len(p) : p[d] \in NodeBins(d)

\* A path and one bin more.
LEMMA Extended ==
  ASSUME NEW q \in Paths, NEW b \in Nat
  PROVE  /\ Append(q, b) \in Paths
         /\ Len(Append(q, b)) = Len(q) + 1
         /\ \A i \in 1 .. Len(q) : Append(q, b)[i] = q[i]
         /\ Append(q, b)[Len(q) + 1] = b
BY AppendProperties DEF Paths

\* A child is a node exactly where its bin is populated and not yet the last of its paths.
LEMMA ChildOf ==
  ASSUME NEW D, NEW t, IsTrie(t), \A p \in DOMAIN t : Len(p) = D[p[1]], NEW q \in Paths, NEW b \in Nat
  PROVE  /\ Append(q, b) \in Nodes(t) <=> b \in DOMAIN Token(t, q) /\ Len(q) + 1 < D[Append(q, b)[1]]
         /\ b \in DOMAIN Token(t, q) => \E p \in DOMAIN t : p[1] = Append(q, b)[1]
<1> DEFINE c == Append(q, b)
<1>1. /\ c \in Paths /\ Len(c) = Len(q) + 1 /\ c[Len(q) + 1] = b /\ Len(q) \in Nat
      /\ \A i \in 1 .. Len(q) : c[i] = q[i]
  BY Extended DEF Paths
<1>2. c # <<>>
  BY <1>1
<1> HIDE DEF c
<1>3. \A p \in DOMAIN t : p \in Paths /\ Len(p) \in Nat
  BY DEF IsTrie, Paths
<1>4. ASSUME NEW p \in DOMAIN t
      PROVE  p \in Below(t, q) /\ BinAfter(p, q) = b <=> Len(c) <= Len(p) /\ Under(c, p)
  <2>1. p \in Below(t, q) <=> Len(q) < Len(p) /\ Under(q, p)
    BY BelowIs
  <2> QED
    BY <1>1, <1>3, <2>1 DEF Under, BinAfter
<1>5. ASSUME NEW p \in DOMAIN t, Under(c, p)
      PROVE  Len(p) = D[c[1]] /\ p[1] = c[1]
  BY <1>1, <1>5 DEF Under
<1>6. b \in DOMAIN Token(t, q) <=> \E p \in DOMAIN t : Len(c) <= Len(p) /\ Under(c, p)
  <2>1. DOMAIN Token(t, q) = {BinAfter(p, q) : p \in Below(t, q)}
    BY TokenIs
  <2>2. \A p \in Below(t, q) : p \in DOMAIN t
    BY DEF Below
  <2> QED
    BY <1>4, <2>1, <2>2
<1>7. c \in Nodes(t) <=> \E p \in DOMAIN t : Len(c) < Len(p) /\ Under(c, p)
  BY <1>1, <1>2, NodeIs
<1>8. (\E p \in DOMAIN t : Len(c) < Len(p) /\ Under(c, p))
        <=> (\E p \in DOMAIN t : Len(c) <= Len(p) /\ Under(c, p)) /\ Len(c) < D[c[1]]
  BY <1>1, <1>3, <1>5
<1>9. b \in DOMAIN Token(t, q) => \E p \in DOMAIN t : p[1] = c[1]
  BY <1>5, <1>6
<1> QED
  BY <1>1, <1>6, <1>7, <1>8, <1>9 DEF c

\* The children of a node are the bins its token names, down to the level of the leaves.
LEMMA ChildIs ==
  ASSUME NEW D, NEW t, Levelled(t, D), NEW q \in Paths, NEW b \in Nat
  PROVE  Append(q, b) \in Nodes(t) <=> b \in DOMAIN Token(t, q) /\ Len(q) + 1 < D[Append(q, b)[1]]
<1>1. IsTrie(t) /\ \A p \in DOMAIN t : Len(p) = D[p[1]]
  BY DEF Levelled
<1> QED
  BY <1>1, ChildOf

\* The tries to merge, all of one schema.
Forest(ts, D) == IsFiniteSet(DOMAIN ts) /\ DOMAIN ts # {} /\ \A k \in DOMAIN ts : Levelled(ts[k], D)

\* Their union is of the same schema.
LEMMA UnionLevelled ==
  ASSUME NEW ts, NEW D, Forest(ts, D)
  PROVE  Levelled(Union(ts), D)
<1>1. \A k \in DOMAIN ts : IsTrie(ts[k])
  BY DEF Forest, Levelled
<1>2. IsTrie(Union(ts)) /\ DOMAIN Union(ts) = UNION {DOMAIN ts[k] : k \in DOMAIN ts}
  BY <1>1, UnionIs DEF Forest
<1> QED
  BY <1>2 DEF Forest, Levelled

\* The nodes of the union, and of each trie.
LEMMA ForestNodes ==
  ASSUME NEW ts, NEW D, Forest(ts, D)
  PROVE  /\ Nodes(Union(ts)) \in SUBSET Paths /\ IsFiniteSet(Nodes(Union(ts))) /\ <<>> \in Nodes(Union(ts))
         /\ \A k \in DOMAIN ts : Nodes(ts[k]) \in SUBSET Nodes(Union(ts)) /\ <<>> \in Nodes(ts[k])
         /\ \A q \in Nodes(Union(ts)) : \E k \in DOMAIN ts : q \in Nodes(ts[k])
<1>1. \A k \in DOMAIN ts : IsTrie(ts[k])
  BY DEF Forest, Levelled
<1>2. IsTrie(Union(ts))
  BY UnionLevelled DEF Levelled
<1>3. \A q : q \in Nodes(Union(ts)) <=> \E k \in DOMAIN ts : q \in Nodes(ts[k])
  BY <1>1, NodesOfUnion DEF Forest
<1> QED
  BY <1>1, <1>2, <1>3, NodesArePaths

\* Every place in a file is the place of one node.
LEMMA EachPlaceTaken ==
  ASSUME NEW t, IsTrie(t)
  PROVE  /\ DOMAIN Encode(t) = 1 .. Cardinality(Nodes(t)) /\ Cardinality(Nodes(t)) \in Nat \ {0}
         /\ \A k \in 1 .. Cardinality(Nodes(t)) :
              \E q \in Nodes(t) : Rank(Nodes(t), q) + 1 = k /\ Encode(t)[k] = Token(t, q)
<1> DEFINE X == Nodes(t)
           n == Cardinality(X)
           f == [q \in X |-> Rank(X, q) + 1]
<1>1. X \in SUBSET Paths /\ IsFiniteSet(X) /\ <<>> \in X
  BY NodesArePaths
<1>2. n \in Nat /\ n # 0
  BY <1>1, FS_CardinalityType, FS_EmptySet
<1>3. DOMAIN Encode(t) = 1 .. n
  BY DEF Encode
<1> HIDE DEF X
<1>4. f \in Injection(X, 1 .. n)
  <2>1. \A q \in X : f[q] \in 1 .. n
    BY <1>1, <1>2, RankRange
  <2>2. \A q, r \in X : f[q] = f[r] => q = r
    <3>1. \A q \in X : Rank(X, q) \in Nat
      BY <1>1, RankRange
    <3>2. \A q, r \in X : Rank(X, q) = Rank(X, r) => q = r
      BY <1>1, RankUnique
    <3> QED
      BY <3>1, <3>2
  <2> QED
    BY <2>1, <2>2 DEF Injection, IsInjective
<1>5. f \in Surjection(X, 1 .. n)
  <2>1. IsFiniteSet(1 .. n) /\ Cardinality(1 .. n) = n
    BY <1>2, FS_Interval
  <2> HIDE DEF f
  <2> QED
    BY <1>4, <2>1, FS_Injection
<1>6. ASSUME NEW k \in 1 .. n
      PROVE  \E q \in X : Rank(X, q) + 1 = k /\ Encode(t)[k] = Token(t, q)
  <2>1. PICK q \in X : f[q] = k
    BY <1>5 DEF Surjection
  <2>2. Encode(t)[Rank(X, q) + 1] = Token(t, q)
    BY <1>1, EncodeAt DEF X
  <2> QED
    BY <2>1, <2>2
<1> QED
  BY <1>2, <1>3, <1>6 DEF X

\* A file is a sequence of tokens, one for each node.
LEMMA EncodeIs ==
  ASSUME NEW t, IsTrie(t)
  PROVE  /\ Encode(t) \in Seq({Token(t, q) : q \in Nodes(t)})
         /\ Len(Encode(t)) = Cardinality(Nodes(t))
         /\ Cardinality(Nodes(t)) \in Nat \ {0}
<1> DEFINE n == Cardinality(Nodes(t))
<1>1. DOMAIN Encode(t) = 1 .. n /\ n \in Nat \ {0} /\ \A k \in 1 .. n : \E q \in Nodes(t) : Encode(t)[k] = Token(t, q)
  BY EachPlaceTaken
<1>2. Encode(t) = [k \in 1 .. n |-> Encode(t)[k]]
  BY DEF Encode
<1> HIDE DEF n
<1>3. Encode(t) \in [1 .. n -> {Token(t, q) : q \in Nodes(t)}]
  BY <1>1, <1>2
<1> QED
  BY <1>1, <1>3, SeqDef DEF n

\* Two tries of the same nodes and tokens have the same file.
LEMMA EncodeSame ==
  ASSUME NEW t, IsTrie(t), NEW u, IsTrie(u), Nodes(t) = Nodes(u), \A q \in Nodes(t) : Token(t, q) = Token(u, q)
  PROVE  Encode(t) = Encode(u)
<1> DEFINE n == Cardinality(Nodes(t))
           S == {Token(t, q) : q \in Nodes(t)}
<1>1. \A k \in 1 .. n : Encode(t)[k] = Encode(u)[k]
  <2>1. ASSUME NEW k \in 1 .. n
        PROVE  Encode(t)[k] = Encode(u)[k]
    <3>1. PICK q \in Nodes(t) : Rank(Nodes(t), q) + 1 = k /\ Encode(t)[k] = Token(t, q)
      BY EachPlaceTaken
    <3>2. Encode(u)[Rank(Nodes(u), q) + 1] = Token(u, q)
      BY NodesArePaths, EncodeAt
    <3> QED
      BY <3>1, <3>2
  <2> QED
    BY <2>1
<1>2. {Token(u, q) : q \in Nodes(u)} = S
  OBVIOUS
<1>3. Encode(t) \in Seq(S) /\ Encode(u) \in Seq(S) /\ Len(Encode(t)) = n /\ Len(Encode(u)) = n
  BY <1>2, EncodeIs
<1> QED
  BY <1>1, <1>3, SeqEqual

\* How deep a node can lie.
LEMMA NodeDepth ==
  ASSUME NEW D, NEW t, Levelled(t, D), NEW q \in Nodes(t)
  PROVE  q \in Paths /\ Len(q) \in Nat /\ Len(q) + 1 \in 1 .. MaxDepth
<1>1. IsTrie(t) /\ q \in Paths /\ Len(q) \in Nat
  BY NodesArePaths DEF Levelled, Paths
<1>2. CASE q = <<>>
  <2>1. Len(Bins) \in Nat /\ Len(Bins) # 0
    BY BinsAssumption
  <2> QED
    BY <1>1, <1>2, <2>1 DEF MaxDepth
<1>3. CASE q # <<>>
  <2>1. PICK p \in DOMAIN t : Len(q) < Len(p) /\ Under(q, p)
    BY <1>1, <1>3, NodeIs
  <2>2. Len(p) \in Nat /\ Len(p) <= MaxDepth /\ MaxDepth \in Nat
    BY <1>1, BinsAssumption DEF Levelled, MaxDepth, IsTrie, Paths
  <2> QED
    BY <1>1, <2>1, <2>2
<1> QED
  BY <1>2, <1>3

\* No token is the end of file marker.
LEMMA TokenUnlikeEOF ==
  ASSUME NEW D, NEW t, Levelled(t, D), NEW q \in Nodes(t)
  PROVE  Token(t, q) # EOF
<1> DEFINE d == Len(q) + 1
           mask == DOMAIN Token(t, q)
<1>1. IsTrie(t) /\ q \in Paths /\ Len(q) \in Nat
  BY NodesArePaths DEF Levelled, Paths
<1>2. /\ mask = {BinAfter(p, q) : p \in Below(t, q)}
      /\ \A i \in mask : Token(t, q)[i] \in 0 .. CountMod - 1
  BY <1>1, TokenIs
<1>3. d \in 1 .. MaxDepth
  BY NodeDepth
<1>4. mask \in SUBSET NodeBins(d)
  <2>1. ASSUME NEW p \in Below(t, q)
        PROVE  BinAfter(p, q) \in NodeBins(d)
    <3>1. p \in DOMAIN t /\ Len(q) < Len(p)
      BY <1>1, BelowIs
    <3>2. Len(p) \in Nat
      BY <1>1, <3>1 DEF IsTrie, Paths
    <3> QED
      BY <1>1, <3>1, <3>2 DEF Levelled, BinAfter
  <2> QED
    BY <1>2, <2>1
<1>5. Token(t, q) \in [mask -> 0 .. CountMod - 1]
  <2>1. Token(t, q) = [i \in mask |-> Token(t, q)[i]]
    BY DEF Token
  <2> HIDE DEF mask
  <2> QED
    BY <1>2, <2>1
<1> QED
  BY <1>3, <1>4, <1>5, EOFAssumption

\* No marker inside a file.
LEMMA NoEOFInside ==
  ASSUME NEW D, NEW t, Levelled(t, D), NEW k \in 1 .. Cardinality(Nodes(t))
  PROVE  Encode(t)[k] # EOF
<1>1. IsTrie(t)
  BY DEF Levelled
<1> QED
  BY <1>1, EachPlaceTaken, TokenUnlikeEOF

\* A depth-first walk of the union of ts, at the node `at`: what it has written is the
\* beginning of the union's file, and the cursor of each trie is past the nodes of its
\* own that have been visited.
Tour(ts, cursor, out, at, todo, here) ==
  LET X    == Nodes(Union(ts))
      left == Left(X, at, todo, here)
  IN  /\ Placed(X, at, todo, here) /\ Parted(X, at, todo, here)
      /\ out = SubSeq(Encode(Union(ts)), 1, Cardinality(X \ left))
      /\ \A k \in DOMAIN ts : cursor[k] = Cardinality(Nodes(ts[k]) \ left) + 1

\* The walk is at a node it has yet to read, or has just read.
Ahead(ts, cursor, out, at, todo)  == Tour(ts, cursor, out, at, todo, TRUE)
Behind(ts, cursor, out, at, todo) == Tour(ts, cursor, out, at, todo, FALSE)

\* The tries that have a node.
Sharing(ts, q) == {k \in DOMAIN ts : q \in Nodes(ts[k])}

\* Where a walk can be.
LEMMA WalkAt ==
  ASSUME NEW ts, NEW D, Forest(ts, D), NEW cursor, NEW out, NEW at, NEW todo,
         Ahead(ts, cursor, out, at, todo) \/ Behind(ts, cursor, out, at, todo)
  PROVE  /\ at \in Paths /\ Len(at) \in Nat /\ Len(at) + 1 \in 1 .. MaxDepth
         /\ Len(todo) = Len(at) + 1 /\ todo \in Seq(SUBSET Nat)
         /\ Sharing(ts, at) # {} /\ Sharing(ts, at) \subseteq DOMAIN ts
<1> DEFINE X == Nodes(Union(ts))
<1>1. Placed(X, at, todo, TRUE) \/ Placed(X, at, todo, FALSE)
  BY DEF Ahead, Behind, Tour
<1>2. at \in X /\ todo \in Seq(SUBSET Nat) /\ Len(todo) = Len(at) + 1
  BY <1>1 DEF Placed
<1>3. Levelled(Union(ts), D)
  BY UnionLevelled
<1>4. at \in Paths /\ Len(at) \in Nat /\ Len(at) + 1 \in 1 .. MaxDepth
  BY <1>2, <1>3, NodeDepth
<1>5. Sharing(ts, at) # {} /\ Sharing(ts, at) \subseteq DOMAIN ts
  BY <1>2, ForestNodes DEF Sharing
<1> QED
  BY <1>2, <1>4, <1>5

\* A node of the union is the sum of those that share it.
LEMMA SharedToken ==
  ASSUME NEW ts, NEW D, Forest(ts, D), NEW q \in Paths
  PROVE  /\ Token(Union(ts), q) = SumTokens([k \in Sharing(ts, q) |-> Token(ts[k], q)])
         /\ DOMAIN Token(Union(ts), q) \in SUBSET Nat
<1>1. IsFiniteSet(DOMAIN ts) /\ \A k \in DOMAIN ts : IsTrie(ts[k])
  BY DEF Forest, Levelled
<1>2. (\A k \in DOMAIN ts \ Sharing(ts, q) : q \notin Nodes(ts[k])) /\ Sharing(ts, q) \in SUBSET DOMAIN ts
  BY DEF Sharing
<1>3. IsTrie(Union(ts))
  BY UnionLevelled DEF Levelled
<1> QED
  BY <1>1, <1>2, <1>3, TokenOfUnion, TokenIs

\* Only a trie that has a node has a child of it.
LEMMA SharingShrinks ==
  ASSUME NEW ts, NEW D, Forest(ts, D), NEW q \in Paths, NEW i \in Nat
  PROVE  Sharing(ts, Append(q, i)) \subseteq Sharing(ts, q)
<1>1. ASSUME NEW k \in DOMAIN ts, Append(q, i) \in Nodes(ts[k])
      PROVE  q \in Nodes(ts[k])
  <2>1. IsTrie(ts[k])
    BY DEF Forest, Levelled
  <2>2. Under(q, Append(q, i))
    BY Extended DEF Under, Paths
  <2> QED
    BY <1>1, <2>1, <2>2, NodesClosed
<1> QED
  BY <1>1 DEF Sharing

\* A walk starts at the root, which all have.
LEMMA WalkStarts ==
  ASSUME NEW ts, NEW D, Forest(ts, D), NEW cursor, \A k \in DOMAIN ts : cursor[k] = 1,
         NEW todo, todo = <<{}>>
  PROVE  /\ Ahead(ts, cursor, <<>>, <<>>, todo)
         /\ Sharing(ts, <<>>) = DOMAIN ts
<1> DEFINE X == Nodes(Union(ts))
<1>1. X \in SUBSET Paths /\ <<>> \in X
  BY ForestNodes
<1>2. Left(X, <<>>, todo, TRUE) = X
  BY DEF Left, Under
<1>3. Placed(X, <<>>, todo, TRUE)
  BY <1>1 DEF Placed
<1>4. \A k \in DOMAIN ts : Nodes(ts[k]) \subseteq X /\ <<>> \in Nodes(ts[k])
  BY ForestNodes
<1>5. X \ X = {} /\ \A k \in DOMAIN ts : Nodes(ts[k]) \ X = {}
  BY <1>4
<1>6. SubSeq(Encode(Union(ts)), 1, 0) = <<>>
  BY SubSeqEmpty
<1> HIDE DEF X
<1>7. Parted(X, <<>>, todo, TRUE)
  BY <1>2 DEF Parted
<1>8. Cardinality({}) = 0 /\ 0 + 1 = 1
  BY FS_EmptySet
<1>9. Sharing(ts, <<>>) = DOMAIN ts
  BY <1>4 DEF Sharing
<1>10. <<>> = SubSeq(Encode(Union(ts)), 1, Cardinality(X \ X))
  BY <1>5, <1>6, <1>8
<1>11. \A k \in DOMAIN ts : cursor[k] = Cardinality(Nodes(ts[k]) \ X) + 1
  BY <1>5, <1>8
<1> QED
  BY <1>2, <1>3, <1>7, <1>9, <1>10, <1>11 DEF Ahead, Behind, Tour, X

\* At the cursor of every trie that has the node at hand lies its token: the claim that
\* each input is read in the order in which it was written.
LEMMA WalkReads ==
  ASSUME NEW ts, NEW D, Forest(ts, D), NEW cursor, NEW out, NEW at, NEW todo,
         Ahead(ts, cursor, out, at, todo), NEW k \in Sharing(ts, at)
  PROVE  /\ cursor[k] \in 1 .. Cardinality(Nodes(ts[k]))
         /\ Encode(ts[k])[cursor[k]] = Token(ts[k], at)
<1> DEFINE X == Nodes(Union(ts))
           Y == Nodes(ts[k])
<1>1. X \in SUBSET Paths /\ IsFiniteSet(X) /\ Y \in SUBSET X /\ at \in Y /\ k \in DOMAIN ts
  BY ForestNodes DEF Sharing
<1>2. Placed(X, at, todo, TRUE) /\ Parted(X, at, todo, TRUE)
      /\ cursor[k] = Cardinality(Y \ Left(X, at, todo, TRUE)) + 1
  BY <1>1 DEF Ahead, Behind, Tour
<1> HIDE DEF X
<1>3. Rank(Y, at) = Cardinality(Y \ Left(X, at, todo, TRUE))
  <2> HIDE DEF Y
  <2> QED
    BY <1>1, <1>2, HereRank
<1>4. Y \in SUBSET Paths /\ IsFiniteSet(Y) /\ Cardinality(Y) \in Nat
  BY <1>1, FS_Subset, FS_CardinalityType
<1>5. Rank(Y, at) \in Nat /\ Rank(Y, at) < Cardinality(Y)
  <2> HIDE DEF Y
  <2> QED
    BY <1>1, <1>4, RankRange
<1>6. Encode(ts[k])[Rank(Y, at) + 1] = Token(ts[k], at)
  BY <1>1, <1>4, EncodeAt
<1> QED
  BY <1>2, <1>3, <1>4, <1>5, <1>6

\* The bins at a node that lead to further nodes.
Onward(ts, D, at, C) ==
  \A b \in Nat : b \in C <=> b \in DOMAIN Token(Union(ts), at) /\ Len(at) + 1 < D[Append(at, b)[1]]

\* What is left to do after a node is read: the bins C in its own loop.
ReadOn(next, todo, C) ==
  /\ C \in SUBSET Nat /\ next \in Seq(SUBSET Nat) /\ Len(next) = Len(todo)
  /\ \A l \in 1 .. Len(todo) : next[l] = IF l = Len(todo) THEN C ELSE todo[l]

\* A child is chosen, the least bin left, and entered.
Deeper(next, todo, i) ==
  /\ i \in todo[Len(todo)] /\ \A b \in todo[Len(todo)] : i <= b
  /\ next \in Seq(SUBSET Nat) /\ Len(next) = Len(todo) + 1
  /\ \A l \in 1 .. Len(next) : next[l] = IF l = Len(next) THEN {}
                                         ELSE IF l = Len(todo) THEN todo[l] \ {i} ELSE todo[l]

\* The call at hand has no bins left, and returns.
Shallower(next, todo) ==
  /\ todo[Len(todo)] = {} /\ Len(todo) > 1
  /\ next \in Seq(SUBSET Nat) /\ Len(next) = Len(todo) - 1
  /\ \A l \in 1 .. Len(next) : next[l] = todo[l]

\* Each of the tries that has the node is read one token on.
Moved(ts, at, cursor, moved) ==
  \A k \in DOMAIN ts : moved[k] = IF k \in Sharing(ts, at) THEN cursor[k] + 1 ELSE cursor[k]

\* The node at hand is read: where C are the bins that lead to its children, they are
\* what is left to do in its loop.
LEMMA ChildrenLeft ==
  ASSUME NEW t, IsTrie(t), NEW at, NEW todo,
         Placed(Nodes(t), at, todo, TRUE), Parted(Nodes(t), at, todo, TRUE),
         NEW C, \A b \in Nat : b \in C <=> Append(at, b) \in Nodes(t), NEW next, ReadOn(next, todo, C)
  PROVE  /\ Placed(Nodes(t), at, next, FALSE) /\ Parted(Nodes(t), at, next, FALSE)
         /\ Left(Nodes(t), at, next, FALSE) = Left(Nodes(t), at, todo, TRUE) \ {at}
         /\ at \in Left(Nodes(t), at, todo, TRUE)
<1> DEFINE X == Nodes(t)
<1>1. X \in SUBSET Paths
  BY NodesArePaths
<1>2. Placed(X, at, todo, TRUE) /\ Parted(X, at, todo, TRUE)
  OBVIOUS
<1>4. at \in X /\ at \in Paths /\ Len(at) \in Nat
  BY <1>1, <1>2 DEF Placed, Paths
<1>6. \A b \in Nat : b \in C <=> Append(at, b) \in X
  OBVIOUS
<1> HIDE DEF X
<1>7. C \in SUBSET Nat /\ \A b \in C : Child(X, at, Len(at) + 1, b)
  <2>1. C \in SUBSET Nat
    BY DEF ReadOn
  <2>2. ASSUME NEW b \in C
        PROVE  Child(X, at, Len(at) + 1, b)
    <3>1. b \in Nat /\ Append(at, b) \in X
      BY <1>6, <2>1
    <3>2. /\ Len(Append(at, b)) = Len(at) + 1
          /\ \A i \in 1 .. Len(at) : Append(at, b)[i] = at[i]
          /\ Append(at, b)[Len(at) + 1] = b
      BY <1>4, <3>1, Extended
    <3>3. \A i \in 1 .. (Len(at) + 1) - 1 : Append(at, b)[i] = at[i]
      BY <1>4, <3>2
    <3> QED
      BY <3>1, <3>2, <3>3 DEF Child
  <2> QED
    BY <2>1, <2>2
<1>8. ASSUME NEW r \in X, Under(at, r), r # at
      PROVE  r[Len(at) + 1] \in C
  <2>1. r \in Paths /\ Len(r) \in Nat
    BY <1>1 DEF Paths
  <2>2. Len(r) # Len(at)
    BY <1>4, <1>8, <2>1, SeqEqual DEF Under, Paths
  <2>3. Len(at) + 1 \in 1 .. Len(r) /\ r[Len(at) + 1] \in Nat
    BY <1>4, <1>8, <2>1, <2>2 DEF Under, Paths
  <2> DEFINE b == r[Len(at) + 1]
             c == Append(at, b)
  <2>4. /\ c \in Paths /\ Len(c) = Len(at) + 1
        /\ \A i \in 1 .. Len(at) : c[i] = at[i]
        /\ c[Len(at) + 1] = b
    <3> HIDE DEF b
    <3> QED
      BY <1>4, <2>3, Extended DEF b
  <2> HIDE DEF c
  <2>5. Under(c, r)
    BY <1>4, <1>8, <2>1, <2>3, <2>4 DEF Under
  <2>6. c \in X
    BY <2>4, <2>5, NodesClosed DEF X
  <2> QED
    BY <1>6, <2>3, <2>6 DEF c
<1> QED
  <2>1. \A r \in X : (Under(at, r) /\ r # at) => r[Len(at) + 1] \in C
    BY <1>8
  <2>2. X \in SUBSET Paths /\ Placed(X, at, todo, TRUE) /\ Parted(X, at, todo, TRUE)
    BY <1>1, <1>2
  <2>4. /\ next \in Seq(SUBSET Nat) /\ Len(next) = Len(todo)
        /\ \A l \in 1 .. Len(todo) : next[l] = IF l = Len(todo) THEN C ELSE todo[l]
    BY DEF ReadOn
  <2>3. /\ Placed(X, at, next, FALSE) /\ Parted(X, at, next, FALSE)
        /\ Left(X, at, next, FALSE) = Left(X, at, todo, TRUE) \ {at}
        /\ at \in Left(X, at, todo, TRUE)
    BY <1>7, <2>1, <2>2, <2>4, Visited, ZenonT(60)
  <2> QED
    BY <2>3 DEF X

\* The least bin left is entered: the child is at hand, and nothing is visited by that.
LEMMA ChildEntered ==
  ASSUME NEW X \in SUBSET Paths, NEW at, NEW todo, Placed(X, at, todo, FALSE), Parted(X, at, todo, FALSE),
         NEW i, NEW next, Deeper(next, todo, i)
  PROVE  /\ at \in Paths /\ i \in Nat /\ Len(todo) = Len(at) + 1 /\ Append(at, i) \in X
         /\ Placed(X, Append(at, i), next, TRUE) /\ Parted(X, Append(at, i), next, TRUE)
         /\ Left(X, Append(at, i), next, TRUE) = Left(X, at, todo, FALSE)
<1> DEFINE to == Append(at, i)
<1>1. at \in Paths /\ Len(at) \in Nat /\ todo \in Seq(SUBSET Nat) /\ Len(todo) = Len(at) + 1
  BY DEF Placed, Paths
<1>2. /\ i \in todo[Len(todo)] /\ \A b \in todo[Len(todo)] : i <= b
      /\ next \in Seq(SUBSET Nat) /\ Len(next) = Len(todo) + 1
      /\ \A l \in 1 .. Len(next) : next[l] = IF l = Len(next) THEN {}
                                             ELSE IF l = Len(todo) THEN todo[l] \ {i} ELSE todo[l]
  BY DEF Deeper
<1>3. i \in Nat
  BY <1>1, <1>2
<1>4. /\ to \in Paths /\ Len(to) = Len(at) + 1
      /\ \A j \in 1 .. Len(at) : to[j] = at[j]
      /\ to[Len(at) + 1] = i
  BY <1>1, <1>3, Extended
<1> HIDE DEF to
<1>5. \A j \in 1 .. Len(to) : to[j] = IF j = Len(to) THEN i ELSE at[j]
  BY <1>1, <1>4
<1>6. Placed(X, to, next, TRUE) /\ Left(X, to, next, TRUE) = Left(X, at, todo, FALSE)
  <2>1. to \in Paths /\ Len(to) = Len(todo)
    BY <1>1, <1>4
  <2> QED
    BY <1>2, <1>5, <2>1, Entered, ZenonT(60)
<1>7. Parted(X, to, next, TRUE) /\ to \in X
  BY <1>6 DEF Parted, Placed
<1> QED
  BY <1>1, <1>3, <1>6, <1>7 DEF to

\* A loop that is done is left for its caller's: nothing is visited by that.
LEMMA ParentReached ==
  ASSUME NEW X \in SUBSET Paths, NEW at, NEW todo, Placed(X, at, todo, FALSE), Parted(X, at, todo, FALSE),
         NEW next, Shallower(next, todo), NEW up \in X, Len(up) = Len(at) - 1, Under(up, at)
  PROVE  /\ Placed(X, up, next, FALSE) /\ Parted(X, up, next, FALSE)
         /\ Left(X, up, next, FALSE) = Left(X, at, todo, FALSE)
<1>1. /\ todo[Len(todo)] = {} /\ Len(todo) > 1
      /\ next \in Seq(SUBSET Nat) /\ Len(next) = Len(todo) - 1
      /\ \A l \in 1 .. Len(next) : next[l] = todo[l]
  BY DEF Shallower
<1>2. \A j \in 1 .. Len(up) : up[j] = at[j]
  BY DEF Under
<1>3. Placed(X, up, next, FALSE) /\ Left(X, up, next, FALSE) = Left(X, at, todo, FALSE)
  BY <1>1, <1>2, Returned, ZenonT(60)
<1> QED
  BY <1>3 DEF Parted

\* The node is read from all that have it, and its sum is written.
LEMMA WalkVisits ==
  ASSUME NEW ts, NEW D, Forest(ts, D), NEW cursor, NEW out, NEW at, NEW todo,
         Ahead(ts, cursor, out, at, todo),
         NEW C, Onward(ts, D, at, C), NEW next, ReadOn(next, todo, C), NEW moved, Moved(ts, at, cursor, moved)
  PROVE  Behind(ts, moved, Append(out, Token(Union(ts), at)), at, next)
<1> DEFINE X == Nodes(Union(ts))
           left == Left(X, at, todo, TRUE)
           less == Left(X, at, next, FALSE)
           E == Encode(Union(ts))
           token == Token(Union(ts), at)
<1>1. X \in SUBSET Paths /\ IsFiniteSet(X) /\ \A k \in DOMAIN ts : Nodes(ts[k]) \in SUBSET X
  BY ForestNodes
<1>2. /\ Placed(X, at, todo, TRUE) /\ Parted(X, at, todo, TRUE)
      /\ out = SubSeq(E, 1, Cardinality(X \ left))
      /\ \A k \in DOMAIN ts : cursor[k] = Cardinality(Nodes(ts[k]) \ left) + 1
  BY DEF Ahead, Behind, Tour
<1>3. Levelled(Union(ts), D) /\ IsTrie(Union(ts))
  BY UnionLevelled DEF Levelled
<1>4. at \in X /\ at \in Paths /\ Len(at) \in Nat
  BY <1>1, <1>2 DEF Placed, Paths
<1>5. DOMAIN Token(Union(ts), at) \in SUBSET Nat
  BY <1>3, <1>4, TokenIs
<1>6. \A b \in Nat : b \in C <=> Append(at, b) \in X
  BY <1>3, <1>4, <1>5, ChildIs DEF Onward
<1> HIDE DEF X
<1>9. /\ Placed(X, at, next, FALSE) /\ Parted(X, at, next, FALSE)
      /\ less = left \ {at} /\ at \in left
  BY <1>2, <1>3, <1>6, ChildrenLeft DEF X
<1> HIDE DEF left, less
<1>10. ASSUME NEW Y \in SUBSET X
       PROVE  /\ Cardinality(Y \ left) \in Nat /\ Cardinality(Y \ less) \in Nat
              /\ Cardinality(Y \ less) = IF at \in Y THEN Cardinality(Y \ left) + 1 ELSE Cardinality(Y \ left)
              /\ Cardinality(Y \ less) <= Cardinality(Y)
  <2>1. IsFiniteSet(Y) /\ IsFiniteSet(Y \ left) /\ IsFiniteSet(Y \ less)
    BY <1>1, FS_Subset
  <2>2. Y \ less = IF at \in Y THEN (Y \ left) \cup {at} ELSE Y \ left
    BY <1>9
  <2>3. at \notin Y \ left
    BY <1>9
  <2>4. Cardinality(Y \ left) \in Nat /\ Cardinality(Y \ less) \in Nat /\ Cardinality(Y \ less) <= Cardinality(Y)
    BY <2>1, FS_CardinalityType, FS_Subset
  <2>5. Cardinality((Y \ left) \cup {at}) = Cardinality(Y \ left) + 1
    BY <2>1, <2>3, FS_AddElement
  <2> QED
    BY <2>2, <2>4, <2>5
<1>11. Append(out, token) = SubSeq(E, 1, Cardinality(X \ less))
  <2> DEFINE n == Cardinality(X \ left)
             S == {Token(Union(ts), q) : q \in X}
  <2>1. E \in Seq(S) /\ Len(E) = Cardinality(X)
    BY <1>3, EncodeIs DEF X
  <2>2. n \in Nat /\ n + 1 = Cardinality(X \ less) /\ n + 1 <= Len(E)
    BY <1>4, <1>10, <2>1
  <2>3. Rank(X, at) = n
    BY <1>1, <1>2, <1>4, HereRank DEF left
  <2>4. E[n + 1] = token
    BY <1>1, <1>4, <2>3, EncodeAt DEF X
  <2> HIDE DEF n, S, E
  <2>5. Append(SubSeq(E, 1, n), E[n + 1]) = SubSeq(E, 1, n + 1)
    BY <2>1, <2>2, SubSeqRecursiveSecond
  <2> QED
    BY <1>2, <2>2, <2>4, <2>5 DEF n
<1>12. ASSUME NEW k \in DOMAIN ts
       PROVE  moved[k] = Cardinality(Nodes(ts[k]) \ less) + 1
  BY <1>1, <1>2, <1>10 DEF Sharing, Moved
<1> QED
  BY <1>9, <1>11, <1>12 DEF Ahead, Behind, Tour, X, less

\* The walk goes on to the least bin left; the tries that have that child are those
\* whose mask has the bin.
LEMMA WalkEnters ==
  ASSUME NEW ts, NEW D, Forest(ts, D), NEW cursor, NEW out, NEW at, NEW todo,
         Behind(ts, cursor, out, at, todo),
         NEW i, NEW next, Deeper(next, todo, i)
  PROVE  /\ at \in Paths /\ i \in Nat /\ Len(todo) = Len(at) + 1
         /\ Ahead(ts, cursor, out, Append(at, i), next)
         /\ \A k \in DOMAIN ts : k \in Sharing(ts, Append(at, i)) <=> i \in DOMAIN Token(ts[k], at)
<1> DEFINE X == Nodes(Union(ts))
           to == Append(at, i)
           L == Left(X, at, todo, FALSE)
<1>1. X \in SUBSET Paths
  BY ForestNodes
<1>2. Placed(X, at, todo, FALSE) /\ Parted(X, at, todo, FALSE)
  BY DEF Ahead, Behind, Tour
<1>3. /\ at \in Paths /\ i \in Nat /\ Len(todo) = Len(at) + 1 /\ to \in X
      /\ Placed(X, to, next, TRUE) /\ Parted(X, to, next, TRUE) /\ Left(X, to, next, TRUE) = L
  <2> HIDE DEF X
  <2> QED
    BY <1>1, <1>2, ChildEntered
<1> HIDE DEF to, X, L
<1>9. Ahead(ts, cursor, out, to, next)
  <2>1. /\ out = SubSeq(Encode(Union(ts)), 1, Cardinality(X \ L))
        /\ \A k \in DOMAIN ts : cursor[k] = Cardinality(Nodes(ts[k]) \ L) + 1
    BY DEF Ahead, Behind, Tour, X, L
  <2> QED
    BY <1>3, <2>1 DEF Ahead, Behind, Tour, X
<1>10. Len(at) + 1 < D[to[1]]
  <2>1. Levelled(Union(ts), D)
    BY UnionLevelled
  <2> QED
    BY <1>3, <2>1, ChildIs DEF to, X
<1>11. ASSUME NEW k \in DOMAIN ts
       PROVE  k \in Sharing(ts, to) <=> i \in DOMAIN Token(ts[k], at)
  <2>1. Levelled(ts[k], D)
    BY DEF Forest
  <2>2. to \in Nodes(ts[k]) <=> i \in DOMAIN Token(ts[k], at) /\ Len(at) + 1 < D[to[1]]
    BY <1>3, <2>1, ChildIs DEF to
  <2> QED
    BY <1>10, <2>2 DEF Sharing
<1> QED
  BY <1>3, <1>9, <1>11 DEF to

\* The walk goes back to the parent.
LEMMA WalkReturns ==
  ASSUME NEW ts, NEW D, Forest(ts, D), NEW cursor, NEW out, NEW at, NEW todo,
         Behind(ts, cursor, out, at, todo), NEW next, Shallower(next, todo)
  PROVE  /\ at \in Paths /\ Len(at) > 0
         /\ Behind(ts, cursor, out, SubSeq(at, 1, Len(at) - 1), next)
<1> DEFINE X == Nodes(Union(ts))
           to == SubSeq(at, 1, Len(at) - 1)
           L == Left(X, at, todo, FALSE)
<1>1. X \in SUBSET Paths
  BY ForestNodes
<1>2. Placed(X, at, todo, FALSE) /\ Parted(X, at, todo, FALSE)
  BY DEF Ahead, Behind, Tour
<1>10. /\ todo[Len(todo)] = {} /\ Len(todo) > 1
       /\ next \in Seq(SUBSET Nat) /\ Len(next) = Len(todo) - 1
       /\ \A l \in 1 .. Len(next) : next[l] = todo[l]
  BY DEF Shallower
<1>3. at \in Paths /\ at \in X /\ Len(at) \in Nat /\ Len(at) > 0 /\ Len(todo) = Len(at) + 1
  BY <1>1, <1>2, <1>10 DEF Placed, Paths
<1>4. to \in Paths /\ Len(to) = Len(at) - 1 /\ \A j \in 1 .. Len(to) : to[j] = at[j]
  <2>1. at \in Paths /\ Len(at) - 1 \in 0 .. Len(at)
    BY <1>3
  <2> QED
    BY <2>1, Beginning
<1> HIDE DEF to
<1>5. to \in X
  <2>1. Under(to, at)
    BY <1>3, <1>4 DEF Under
  <2>2. IsTrie(Union(ts))
    BY UnionLevelled DEF Levelled
  <2> QED
    BY <1>3, <1>4, <2>1, <2>2, NodesClosed
<1> HIDE DEF X, L
<1>11. Under(to, at)
  BY <1>3, <1>4 DEF Under
<1>6. Placed(X, to, next, FALSE) /\ Left(X, to, next, FALSE) = Left(X, at, todo, FALSE) /\ Parted(X, to, next, FALSE)
  BY <1>1, <1>2, <1>4, <1>5, <1>11, ParentReached
<1>8. /\ out = SubSeq(Encode(Union(ts)), 1, Cardinality(X \ L))
      /\ \A k \in DOMAIN ts : cursor[k] = Cardinality(Nodes(ts[k]) \ L) + 1
  BY DEF Ahead, Behind, Tour, X, L
<1>9. Behind(ts, cursor, out, to, next)
  BY <1>6, <1>8 DEF Ahead, Behind, Tour, X, L
<1> QED
  BY <1>3, <1>9 DEF to

\* Nothing is left: the union's file is written, and every cursor is past its last node.
LEMMA WalkEnds ==
  ASSUME NEW ts, NEW D, Forest(ts, D), NEW cursor, NEW out, NEW at, NEW todo,
         Behind(ts, cursor, out, at, todo), todo[1] = {}, Len(todo) = 1
  PROVE  /\ out = Encode(Union(ts))
         /\ \A k \in DOMAIN ts : cursor[k] = Cardinality(Nodes(ts[k])) + 1
<1> DEFINE X == Nodes(Union(ts))
<1>1. todo \in Seq(SUBSET Nat)
  BY DEF Ahead, Behind, Tour, Placed
<1>2. DOMAIN todo = {1}
  BY <1>1
<1>3. Left(X, at, todo, FALSE) = {}
  BY <1>2 DEF Left
<1>4. X \ {} = X /\ \A k \in DOMAIN ts : Nodes(ts[k]) \ {} = Nodes(ts[k])
  OBVIOUS
<1>5. /\ out = SubSeq(Encode(Union(ts)), 1, Cardinality(X))
      /\ \A k \in DOMAIN ts : cursor[k] = Cardinality(Nodes(ts[k])) + 1
  BY <1>3, <1>4 DEF Ahead, Behind, Tour
<1>6. Encode(Union(ts)) \in Seq({Token(Union(ts), q) : q \in X}) /\ Len(Encode(Union(ts))) = Cardinality(X)
  BY UnionLevelled, EncodeIs DEF Levelled
<1> HIDE DEF X
<1>7. SubSeq(Encode(Union(ts)), 1, Len(Encode(Union(ts)))) = Encode(Union(ts))
  BY <1>6, SubSeqFull
<1> QED
  BY <1>5, <1>6, <1>7

\* The token that a single trie has, copied, is the sum.
LEMMA SumTokensOfOne ==
  ASSUME NEW t, IsTrie(t), NEW q \in Paths, NEW k, NEW fs, fs = [j \in {k} |-> Token(t, q)]
  PROVE  SumTokens(fs) = Token(t, q)
<1> DEFINE f == Token(t, q)
<1>1. \A i \in DOMAIN f : f[i] \in 0 .. CountMod - 1
  BY TokenIs
<1>2. f = [i \in DOMAIN f |-> f[i]]
  BY DEF Token
<1> HIDE DEF f
<1>3. DOMAIN fs = {k} /\ fs[k] = f
  BY DEF f
<1>4. UNION {DOMAIN fs[j] : j \in DOMAIN fs} = DOMAIN f
  BY <1>3
<1>5. ASSUME NEW i \in DOMAIN f
      PROVE  SumFunction([j \in {j \in DOMAIN fs : i \in DOMAIN fs[j]} |-> fs[j][i]]) % CountMod = f[i]
  <2> DEFINE g == [j \in {k} |-> fs[j][i]]
  <2>1. {j \in DOMAIN fs : i \in DOMAIN fs[j]} = {k}
    BY <1>3
  <2>2. DOMAIN g = {k} /\ g[k] = f[i] /\ f[i] \in 0 .. CountMod - 1 /\ CountMod \in Nat \ {0}
    BY <1>1, <1>3, ModAssumption
  <2> HIDE DEF g
  <2>3. SumFunction(g) = f[i]
    BY <2>2, SumOne DEF SumFunction
  <2>4. f[i] % CountMod = f[i]
    BY <2>2, DivisionExists, RemainderUnique
  <2> QED
    BY <2>1, <2>3, <2>4 DEF g
<1> QED
  BY <1>2, <1>4, <1>5 DEF SumTokens, f

\* The union of a single trie is written as that trie is.
LEMMA UnionOfOne ==
  ASSUME NEW t, IsTrie(t), NEW ts, DOMAIN ts = {1}, ts[1] = t
  PROVE  Encode(Union(ts)) = Encode(t) /\ Observed(Union(ts)) = Observed(t)
<1>1. IsFiniteSet(DOMAIN ts) /\ \A k \in DOMAIN ts : IsTrie(ts[k])
  BY FS_Singleton
<1>2. IsTrie(Union(ts))
  BY <1>1, UnionIs
<1>3. Nodes(Union(ts)) = Nodes(t)
  BY <1>1, NodesOfUnion
<1>4. ASSUME NEW q \in Nodes(t)
      PROVE  Token(Union(ts), q) = Token(t, q)
  <2>1. q \in Paths
    BY NodesArePaths
  <2>2. Token(Union(ts), q) = SumTokens([k \in DOMAIN ts |-> Token(ts[k], q)])
    BY <1>1, <2>1, TokenOfUnion
  <2>3. [k \in DOMAIN ts |-> Token(ts[k], q)] = [k \in {1} |-> Token(t, q)]
    OBVIOUS
  <2> QED
    BY <2>1, <2>2, <2>3, SumTokensOfOne
<1>5. Observed(Union(ts)) = Observed(t)
  <2> DEFINE o == [k \in DOMAIN ts |-> Observed(ts[k])]
  <2>1. SumFunctionOnSet(t, DOMAIN t) \in Int
    BY SumType DEF IsTrie
  <2>2. Observed(t) \in Int /\ Observed(t) % CountMod = Observed(t)
    BY <2>1, ModAssumption, ModuloAdds, DivisionExists DEF Observed, SumFunction
  <2>3. o[1] = Observed(t) /\ DOMAIN o = {1}
    OBVIOUS
  <2>4. Observed(Union(ts)) = SumFunction(o) % CountMod
    BY <1>1, ObservedOfUnion
  <2> HIDE DEF o
  <2>5. SumFunction(o) = Observed(t)
    BY <2>2, <2>3, SumOne DEF SumFunction
  <2> QED
    BY <2>2, <2>4, <2>5
<1> QED
  BY <1>2, <1>3, <1>4, <1>5, EncodeSame

\* The tries ts are the r of fewer and one more; pair is the union of those and that one.
OneMore(D, ts, r, fewer, pair) ==
  /\ r \in Nat /\ r > 0 /\ DOMAIN ts = 1 .. r + 1 /\ \A k \in 1 .. r + 1 : Levelled(ts[k], D)
  /\ DOMAIN fewer = 1 .. r /\ \A k \in 1 .. r : fewer[k] = ts[k]
  /\ DOMAIN pair = {1, 2} /\ pair[1] = Union(fewer) /\ pair[2] = ts[r + 1]

\* A step of a fold: merging the union of the first r tries with the next one gives the
\* union of r + 1.
LEMMA UnionOfMore ==
  ASSUME NEW D, NEW ts, NEW r, NEW fewer, NEW pair, OneMore(D, ts, r, fewer, pair)
  PROVE  /\ Forest(ts, D) /\ Forest(fewer, D) /\ Forest(pair, D)
         /\ Union(pair) = Union(ts)
         /\ Observed(Union(ts)) = (Observed(Union(fewer)) + Observed(ts[r + 1])) % CountMod
<1> USE DEF OneMore
<1> DEFINE U == Union(fewer)
           t == ts[r + 1]
<1>1. Forest(ts, D) /\ Forest(fewer, D)
  <2>1. IsFiniteSet(1 .. r + 1) /\ IsFiniteSet(1 .. r) /\ 1 \in 1 .. r /\ 1 \in 1 .. r + 1
    BY FS_Interval
  <2>2. \A k \in 1 .. r : k \in 1 .. r + 1
    OBVIOUS
  <2> QED
    BY <2>1, <2>2 DEF Forest
<1>2. Levelled(U, D) /\ Levelled(t, D)
  BY <1>1, UnionLevelled
<1>3. Forest(pair, D)
  <2>1. IsFiniteSet({1, 2})
    <3>1. IsFiniteSet({1} \cup {2})
      BY FS_Singleton, FS_Union
    <3>2. {1} \cup {2} = {1, 2}
      OBVIOUS
    <3> QED
      BY <3>1, <3>2, Zenon
  <2> QED
    BY <1>2, <2>1 DEF Forest
<1>4. /\ \A k \in DOMAIN ts : IsTrie(ts[k])
      /\ \A k \in DOMAIN fewer : IsTrie(fewer[k])
      /\ \A k \in DOMAIN pair : IsTrie(pair[k])
      /\ IsFiniteSet(DOMAIN ts) /\ IsFiniteSet(DOMAIN fewer) /\ IsFiniteSet(DOMAIN pair)
  BY <1>1, <1>3 DEF Forest, Levelled
<1>5. /\ DOMAIN Union(pair) = DOMAIN U \cup DOMAIN t
      /\ DOMAIN Union(ts) = DOMAIN U \cup DOMAIN t
      /\ DOMAIN U = UNION {DOMAIN ts[k] : k \in 1 .. r}
  <2>1. DOMAIN Union(pair) = UNION {DOMAIN pair[k] : k \in {1, 2}}
    BY <1>4, UnionIs
  <2>2. DOMAIN Union(ts) = UNION {DOMAIN ts[k] : k \in 1 .. r + 1}
    BY <1>4, UnionIs
  <2>3. DOMAIN U = UNION {DOMAIN fewer[k] : k \in 1 .. r}
    BY <1>4, UnionIs
  <2>4. 1 .. r + 1 = (1 .. r) \cup {r + 1}
    OBVIOUS
  <2>5. DOMAIN U = UNION {DOMAIN ts[k] : k \in 1 .. r}
    BY <2>3
  <2> HIDE DEF U, t
  <2>6. DOMAIN Union(ts) = (UNION {DOMAIN ts[k] : k \in 1 .. r}) \cup DOMAIN t
    BY <2>2, <2>4 DEF t
  <2>7. DOMAIN Union(pair) = DOMAIN U \cup DOMAIN t
    BY <2>1 DEF U, t
  <2> QED
    BY <2>5, <2>6, <2>7
<1>6. ASSUME NEW p \in DOMAIN U \cup DOMAIN t
      PROVE  Union(pair)[p] = Union(ts)[p]
  <2> DEFINE K == {k \in 1 .. r + 1 : p \in DOMAIN ts[k]}
             K0 == {k \in 1 .. r : p \in DOMAIN ts[k]}
             f == [k \in K |-> ts[k][p]]
             f0 == [k \in K0 |-> ts[k][p]]
             J == {k \in {1, 2} : p \in DOMAIN pair[k]}
             g == [k \in J |-> pair[k][p]]
  <2>1. Union(ts)[p] = SumFunctionOnSet(f, K) % CountMod
    <3>1. {k \in DOMAIN ts : p \in DOMAIN ts[k]} = K
      OBVIOUS
    <3>2. p \in DOMAIN Union(ts)
      BY <1>5
    <3> HIDE DEF K, U, t
    <3>3. Union(ts)[p] = SumFunctionOnSet([k \in K |-> ts[k][p]], K) % CountMod
      BY <1>4, <3>1, <3>2, UnionIs
    <3> QED
      BY <3>3
  <2>2. Union(pair)[p] = SumFunctionOnSet(g, J) % CountMod
    <3>1. {k \in DOMAIN pair : p \in DOMAIN pair[k]} = J
      OBVIOUS
    <3>2. p \in DOMAIN Union(pair)
      BY <1>5
    <3> HIDE DEF J, U, t
    <3>3. Union(pair)[p] = SumFunctionOnSet([k \in J |-> pair[k][p]], J) % CountMod
      BY <1>4, <3>1, <3>2, UnionIs
    <3> QED
      BY <3>3
  <2>3. p \in DOMAIN U => U[p] = SumFunctionOnSet(f0, K0) % CountMod
    <3>1. {k \in DOMAIN fewer : p \in DOMAIN fewer[k]} = K0
      OBVIOUS
    <3>2. [k \in K0 |-> fewer[k][p]] = f0
      OBVIOUS
    <3> HIDE DEF K0, f0
    <3>3. p \in DOMAIN U => U[p] = SumFunctionOnSet([k \in K0 |-> fewer[k][p]], K0) % CountMod
      BY <1>4, <3>1, UnionIs
    <3> QED
      BY <3>2, <3>3
  <2>4. IsFiniteSet(K) /\ IsFiniteSet(K0)
    <3>1. K \subseteq 1 .. r + 1 /\ K0 \subseteq 1 .. r
      OBVIOUS
    <3>2. IsFiniteSet(1 .. r + 1) /\ IsFiniteSet(1 .. r)
      BY FS_Interval
    <3> HIDE DEF K, K0
    <3> QED
      BY <3>1, <3>2, FS_Subset
  <2>5. /\ \A k \in K : f[k] \in Int
        /\ \A k \in K0 : f0[k] \in Int /\ f[k] \in Int /\ f0[k] = f[k]
        /\ p \in DOMAIN t => t[p] \in Int
        /\ p \in DOMAIN U => U[p] \in Int
    <3>1. \A k \in 1 .. r + 1 : \A x \in DOMAIN ts[k] : ts[k][x] \in Int
      BY <1>4 DEF IsTrie
    <3>2. \A x \in DOMAIN U : U[x] \in Int
      BY <1>2 DEF Levelled, IsTrie
    <3> QED
      BY <3>1, <3>2
  <2>6. /\ g = [k \in J |-> pair[k][p]]
        /\ 1 \in J <=> p \in DOMAIN U
        /\ 2 \in J <=> p \in DOMAIN t
        /\ 1 \in J => g[1] = U[p]
        /\ 2 \in J => g[2] = t[p]
        /\ J \subseteq {1, 2}
    OBVIOUS
  <2>7. /\ p \in DOMAIN U <=> K0 # {}
        /\ K = IF p \in DOMAIN t THEN K0 \cup {r + 1} ELSE K0
        /\ r + 1 \notin K0
        /\ p \in DOMAIN t => f[r + 1] = t[p]
    <3>1. p \in DOMAIN U <=> K0 # {}
      BY <1>5
    <3>2. r + 1 \in 1 .. r + 1 /\ \A k : k \in 1 .. r + 1 <=> k \in 1 .. r \/ k = r + 1
      OBVIOUS
    <3>3. \A k : k \in K <=> k \in K0 \/ (k = r + 1 /\ p \in DOMAIN t)
      BY <3>2
    <3>4. r + 1 \notin K0
      OBVIOUS
    <3>5. p \in DOMAIN t => f[r + 1] = t[p]
      BY <3>2
    <3> HIDE DEF K, K0, f, t, U
    <3> QED
      BY <3>1, <3>3, <3>4, <3>5
  <2> HIDE DEF U, t, K, K0, f, f0, J, g
  <2>8. SumFunctionOnSet(f0, K0) = SumFunctionOnSet(f, K0) /\ SumFunctionOnSet(f, K0) \in Int
    BY <2>4, <2>5, SumSame, SumType
  <2>9. CASE p \in DOMAIN U /\ p \in DOMAIN t
    <3>1. SumFunctionOnSet(f, K) = t[p] + SumFunctionOnSet(f, K0)
      BY <2>4, <2>5, <2>7, <2>9, SumAdd
    <3>2. J = {1, 2}
      BY <2>6, <2>9
    <3>3. SumFunctionOnSet(g, {1, 2}) = U[p] + t[p]
      BY <2>5, <2>6, <2>9, SumTwo
    <3>4. ((SumFunctionOnSet(f, K0) % CountMod) + t[p]) % CountMod = (SumFunctionOnSet(f, K0) + t[p]) % CountMod
      BY <2>5, <2>8, <2>9, ModAssumption, ModuloAdds
    <3>5. SumFunctionOnSet(f, K0) + t[p] = t[p] + SumFunctionOnSet(f, K0)
      BY <2>5, <2>8, <2>9
    <3> QED
      BY <2>1, <2>2, <2>3, <2>8, <2>9, <3>1, <3>2, <3>3, <3>4, <3>5
  <2>10. CASE p \in DOMAIN U /\ p \notin DOMAIN t
    <3>1. K = K0 /\ J = {1}
      BY <2>6, <2>7, <2>10
    <3>2. SumFunctionOnSet(g, {1}) = U[p]
      BY <2>5, <2>6, <2>10, SumOne
    <3>3. (SumFunctionOnSet(f, K0) % CountMod) % CountMod = SumFunctionOnSet(f, K0) % CountMod
      BY <2>8, ModAssumption, ModuloAdds
    <3> QED
      BY <2>1, <2>2, <2>3, <2>8, <2>10, <3>1, <3>2, <3>3
  <2>11. CASE p \notin DOMAIN U
    <3>1. p \in DOMAIN t
      BY <2>11 DEF U, t
    <3>2. K = {r + 1} /\ J = {2}
      BY <2>6, <2>7, <2>11, <3>1
    <3>3. SumFunctionOnSet(g, {2}) = t[p] /\ SumFunctionOnSet(f, {r + 1}) = t[p]
      <4>1. g[2] = t[p] /\ f[r + 1] = t[p] /\ t[p] \in Int
        BY <2>5, <2>6, <2>7, <2>11, <3>1
      <4> QED
        BY <4>1, SumOne
    <3> QED
      BY <2>1, <2>2, <3>2, <3>3
  <2> QED
    BY <2>9, <2>10, <2>11
<1>7. Union(pair) = Union(ts)
  <2>1. /\ Union(pair) = [p \in DOMAIN Union(pair) |-> Union(pair)[p]]
        /\ Union(ts) = [p \in DOMAIN Union(ts) |-> Union(ts)[p]]
    BY DEF Union
  <2> HIDE DEF U, t
  <2> QED
    BY <1>5, <1>6, <2>1
<1>8. Observed(Union(pair)) = (Observed(U) + Observed(t)) % CountMod
  <2> DEFINE o == [k \in DOMAIN pair |-> Observed(pair[k])]
  <2>1. Observed(Union(pair)) = SumFunction(o) % CountMod
    BY <1>4, ObservedOfUnion
  <2>2. DOMAIN o = {1, 2} /\ o[1] = Observed(U) /\ o[2] = Observed(t)
    OBVIOUS
  <2>3. Observed(U) \in Int /\ Observed(t) \in Int
    <3>1. IsTrie(U) /\ IsTrie(t)
      BY <1>2 DEF Levelled
    <3>2. SumFunctionOnSet(U, DOMAIN U) \in Int /\ SumFunctionOnSet(t, DOMAIN t) \in Int
      BY <3>1, SumType DEF IsTrie
    <3> QED
      BY <3>2, ModAssumption DEF Observed, SumFunction
  <2> HIDE DEF o
  <2>4. SumFunction(o) = Observed(U) + Observed(t)
    BY <2>2, <2>3, SumTwo DEF SumFunction
  <2> QED
    BY <2>1, <2>4
<1> QED
  BY <1>1, <1>3, <1>7, <1>8

\* A file: the tokens, then the marker.
LEMMA WireIs ==
  ASSUME NEW t, IsTrie(t)
  PROVE  LET n == Cardinality(Nodes(t)) IN
         /\ n \in Nat \ {0} /\ Len(Encode(t)) = n
         /\ Len(Wire(t)) = n + 1 /\ \E S : Wire(t) \in Seq(S) /\ Encode(t) \in Seq(S)
         /\ \A k \in 1 .. n : Wire(t)[k] = Encode(t)[k]
         /\ Wire(t)[n + 1] = EOF
<1> DEFINE n == Cardinality(Nodes(t))
           S == {Token(t, q) : q \in Nodes(t)} \cup {EOF}
           E == Encode(t)
<1>1. E \in Seq({Token(t, q) : q \in Nodes(t)}) /\ Len(E) = n /\ n \in Nat \ {0}
  BY EncodeIs
<1> HIDE DEF n, E
<1>2. E \in Seq(S)
  BY <1>1, SeqMonotonic, ElementOfSeq, SeqDef
<1>3. EOF \in S
  OBVIOUS
<1> HIDE DEF S
<1>4. /\ Append(E, EOF) \in Seq(S) /\ Len(Append(E, EOF)) = Len(E) + 1
      /\ \A k \in 1 .. Len(E) : Append(E, EOF)[k] = E[k]
      /\ Append(E, EOF)[Len(E) + 1] = EOF
  BY <1>2, <1>3, AppendProperties
<1> QED
  BY <1>1, <1>2, <1>4 DEF Wire, n, E

\* The first tokens of a trie are the beginning of its file.
LEMMA PrefixOfWire ==
  ASSUME NEW t, IsTrie(t), NEW n \in 0 .. Cardinality(Nodes(t))
  PROVE  IsPrefix(SubSeq(Encode(t), 1, n), Wire(t))
<1> DEFINE E == Encode(t)
           w == Wire(t)
<1>1. PICK S : w \in Seq(S) /\ E \in Seq(S)
  BY WireIs
<1>2. /\ n \in Nat /\ n <= Len(E) /\ Len(w) = Len(E) + 1 /\ Len(E) \in Nat
      /\ \A k \in 1 .. Len(E) : w[k] = E[k]
  BY WireIs
<1> HIDE DEF E, w
<1>3. /\ SubSeq(E, 1, n) \in Seq(S) /\ Len(SubSeq(E, 1, n)) = n
      /\ \A i \in 1 .. n : SubSeq(E, 1, n)[i] = E[i]
  <2>1. \A i \in 1 .. n : E[i] \in S
    BY <1>1, <1>2
  <2>2. /\ SubSeq(E, 1, n) \in Seq(S)
        /\ Len(SubSeq(E, 1, n)) = IF 1 <= n THEN n - 1 + 1 ELSE 0
        /\ \A i \in 1 .. n - 1 + 1 : SubSeq(E, 1, n)[i] = E[1 + i - 1]
    BY <1>2, <2>1, SubSeqProperties
  <2> QED
    BY <1>2, <2>2
<1>4. /\ SubSeq(w, 1, n) \in Seq(S) /\ Len(SubSeq(w, 1, n)) = n
      /\ \A i \in 1 .. n : SubSeq(w, 1, n)[i] = w[i]
  <2>1. \A i \in 1 .. n : w[i] \in S
    BY <1>1, <1>2
  <2>2. /\ SubSeq(w, 1, n) \in Seq(S)
        /\ Len(SubSeq(w, 1, n)) = IF 1 <= n THEN n - 1 + 1 ELSE 0
        /\ \A i \in 1 .. n - 1 + 1 : SubSeq(w, 1, n)[i] = w[1 + i - 1]
    BY <1>2, <2>1, SubSeqProperties
  <2> QED
    BY <1>2, <2>2
<1>5. SubSeq(E, 1, n) = SubSeq(w, 1, n)
  <2>1. \A i \in 1 .. n : SubSeq(E, 1, n)[i] = SubSeq(w, 1, n)[i]
    BY <1>2, <1>3, <1>4
  <2> QED
    BY <1>3, <1>4, <2>1, SeqEqual
<1>6. SubSeq(SubSeq(E, 1, n), 1, n) = SubSeq(E, 1, n)
  BY <1>3, SubSeqFull
<1> QED
  BY <1>2, <1>3, <1>5, <1>6 DEF IsPrefix, E, w

\* A file that is whole, cut or one node too long: what lies where the trie's nodes do
\* is theirs, and only in a whole one the marker follows at once.
LEMMA FileIs ==
  ASSUME NEW D, NEW t, Levelled(t, D),
         NEW f, f = Wire(t) \/ f \in Torn(Wire(t)) \/ f = Overlong(Wire(t))
  PROVE  LET n == Cardinality(Nodes(t)) IN
         /\ Len(f) \in Nat
         /\ \A k \in 1 .. n : k <= Len(f) => f[k] = Encode(t)[k]
         /\ f = Wire(t) <=> n + 1 <= Len(f) /\ f[n + 1] = EOF
<1> DEFINE n == Cardinality(Nodes(t))
           w == Wire(t)
           E == Encode(t)
<1>1. IsTrie(t)
  BY DEF Levelled
<1>2. /\ n \in Nat \ {0} /\ Len(E) = n /\ Len(w) = n + 1
      /\ \A k \in 1 .. n : w[k] = E[k]
      /\ w[n + 1] = EOF
  BY <1>1, WireIs
<1>3. PICK S : w \in Seq(S) /\ E \in Seq(S)
  BY <1>1, WireIs
<1>4. \A k \in 1 .. n : E[k] # EOF
  BY NoEOFInside
<1>5. w = Append(E, EOF)
  BY DEF Wire
<1> HIDE DEF n, w, E
<1>6. CASE f = w
  BY <1>2, <1>6 DEF n, w, E
<1>7. CASE f \in Torn(w)
  <2>1. PICK m \in 0 .. Len(w) - 1 : f = SubSeq(w, 1, m)
    BY <1>7 DEF Torn
  <2>2. m \in Nat /\ m <= n /\ \A i \in 1 .. m : w[i] \in S
    BY <1>2, <1>3
  <2>3. /\ Len(f) = IF 1 <= m THEN m - 1 + 1 ELSE 0
        /\ \A i \in 1 .. m - 1 + 1 : f[i] = w[1 + i - 1]
    BY <2>1, <2>2, SubSeqProperties
  <2>4. Len(f) = m /\ \A i \in 1 .. m : f[i] = w[i]
    BY <2>2, <2>3
  <2>5. f # w
    BY <1>2, <2>2, <2>4
  <2> QED
    BY <1>2, <2>2, <2>4, <2>5 DEF n, w, E
<1>8. CASE f = Overlong(w)
  <2>1. Front(w) = E
    <3>1. Front(w) = SubSeq(w, 1, n)
      BY <1>2 DEF Front
    <3>2. n \in Int /\ \A i \in 1 .. n : w[i] \in S
      BY <1>2, <1>3
    <3>3. /\ Front(w) \in Seq(S)
          /\ Len(Front(w)) = IF 1 <= n THEN n - 1 + 1 ELSE 0
          /\ \A i \in 1 .. n - 1 + 1 : Front(w)[i] = w[1 + i - 1]
      BY <3>1, <3>2, SubSeqProperties
    <3>4. Len(Front(w)) = Len(E) /\ \A i \in 1 .. Len(E) : Front(w)[i] = E[i]
      BY <1>2, <3>3
    <3> QED
      BY <1>3, <3>3, <3>4, SeqEqual
  <2>2. Head(w) = E[1] /\ E[1] # EOF
    <3>1. 1 \in 1 .. n
      BY <1>2
    <3> QED
      BY <1>2, <1>3, <1>4, <3>1
  <2>3. E[1] \in S /\ EOF \in S
    <3>1. 1 \in 1 .. n /\ n + 1 \in 1 .. n + 1
      BY <1>2
    <3> QED
      BY <1>2, <1>3, <3>1
  <2>4. <<E[1], EOF>> \in Seq(S) /\ Len(<<E[1], EOF>>) = 2 /\ <<E[1], EOF>>[1] = E[1]
    BY <2>3
  <2>5. f = E \o <<E[1], EOF>>
    BY <1>8, <2>1, <2>2 DEF Overlong
  <2> DEFINE e == <<E[1], EOF>>
  <2> HIDE DEF e
  <2>6. /\ Len(E \o e) = Len(E) + Len(e)
        /\ \A i \in 1 .. Len(E) + Len(e) : (E \o e)[i] = IF i <= Len(E) THEN E[i] ELSE e[i - Len(E)]
    BY <1>3, <2>4, ConcatProperties DEF e
  <2>7. Len(e) = 2 /\ e[1] = E[1] /\ f = E \o e
    BY <2>4, <2>5 DEF e
  <2>8. Len(f) = n + 2 /\ (\A i \in 1 .. n : f[i] = E[i]) /\ f[n + 1] = E[1]
    <3>1. n + 1 - n = 1 /\ n + 1 \in 1 .. n + 2 /\ ~ (n + 1 <= n)
      BY <1>2
    <3> QED
      BY <1>2, <2>6, <2>7, <3>1
  <2> QED
    BY <1>2, <2>2, <2>8 DEF n, w, E
<1> QED
  BY <1>6, <1>7, <1>8 DEF w

\* A set of numbers has one of each rank, and higher ones have higher ranks.
LEMMA NthOf ==
  ASSUME NEW bins \in SUBSET Nat, IsFiniteSet(bins)
  PROVE  /\ \A k \in 1 .. Cardinality(bins) : Nth(bins)[k] \in bins
         /\ \A k, l \in 1 .. Cardinality(bins) : k < l => Nth(bins)[k] < Nth(bins)[l]
         /\ \A i \in bins : \E k \in 1 .. Cardinality(bins) : Nth(bins)[k] = i
<1> DEFINE nth == Nth(bins)
           n == Cardinality(bins)
           lower(i) == {j \in bins : j < i}
           rank == [i \in bins |-> Cardinality(lower(i)) + 1]
<1>1. n \in Nat
  BY FS_CardinalityType
<1>2. ASSUME NEW i
      PROVE  /\ lower(i) \in SUBSET bins /\ IsFiniteSet(lower(i)) /\ Cardinality(lower(i)) \in Nat
             /\ Cardinality(lower(i)) <= n
  <2>1. lower(i) \in SUBSET bins
    OBVIOUS
  <2> HIDE DEF lower
  <2> QED
    BY <2>1, FS_Subset, FS_CardinalityType
<1>3. ASSUME NEW i \in bins
      PROVE  /\ i \notin lower(i)
             /\ \A j \in bins : i < j => i \in lower(j) /\ lower(i) \in SUBSET lower(j)
  <2>1. i \notin lower(i)
    OBVIOUS
  <2>2. ASSUME NEW j \in bins, i < j, NEW k \in lower(i) PROVE k \in lower(j)
    <3>1. k \in bins /\ k < i /\ k \in Nat /\ i \in Nat /\ j \in Nat
      BY <2>2
    <3>2. k < j
      BY <3>1, <2>2
    <3> QED
      BY <3>1, <3>2
  <2> QED
    BY <2>1, <2>2
<1> HIDE DEF lower
<1>4. ASSUME NEW i \in bins PROVE Cardinality(lower(i)) < n
  <2>1. lower(i) # bins
    BY <1>3
  <2>2. Cardinality(lower(i)) # n
    BY <2>1, <1>2, FS_Subset
  <2> HIDE DEF n
  <2> QED
    BY <1>1, <1>2, <2>2
<1>5. ASSUME NEW i \in bins, NEW j \in bins, i < j
      PROVE  Cardinality(lower(i)) < Cardinality(lower(j))
  <2>1. lower(i) \in SUBSET lower(j) /\ lower(i) # lower(j)
    BY <1>3, <1>5
  <2>2. IsFiniteSet(lower(j))
    BY <1>2
  <2>3. Cardinality(lower(i)) <= Cardinality(lower(j)) /\ Cardinality(lower(i)) # Cardinality(lower(j))
    BY <2>1, <2>2, FS_Subset
  <2>4. Cardinality(lower(i)) \in Nat /\ Cardinality(lower(j)) \in Nat
    BY <1>2
  <2> QED
    BY <2>3, <2>4
<1> HIDE DEF n, nth
<1>6. \A i \in bins : rank[i] = Cardinality(lower(i)) + 1 /\ rank[i] \in 1 .. n /\ rank[i] - 1 = Cardinality(lower(i))
  BY <1>1, <1>2, <1>4
<1>7. rank \in [bins -> 1 .. n]
  BY <1>6
<1> HIDE DEF rank
<1>8. ASSUME NEW i \in bins, NEW j \in bins, Cardinality(lower(i)) = Cardinality(lower(j))
      PROVE  i = j
  <2>1. ~ (i < j) /\ ~ (j < i)
    BY <1>2, <1>5, <1>8
  <2> QED
    BY <2>1
<1>9. \A i, j \in bins : rank[i] = rank[j] => i = j
  <2> SUFFICES ASSUME NEW i \in bins, NEW j \in bins, rank[i] = rank[j] PROVE i = j
    OBVIOUS
  <2>1. Cardinality(lower(i)) = Cardinality(lower(j))
    BY <1>6
  <2> QED
    BY <2>1, <1>8
<1>10. \A k \in 1 .. n : \E i \in bins : rank[i] = k
  <2>1. rank \in Injection(bins, 1 .. n)
    BY <1>7, <1>9 DEF Injection, IsInjective
  <2>2. IsFiniteSet(1 .. n) /\ Cardinality(1 .. n) = n
    BY <1>1, FS_Interval
  <2>3. rank \in Surjection(bins, 1 .. n)
    BY <2>1, <2>2, FS_Injection DEF n
  <2> QED
    BY <2>3 DEF Surjection
<1>11. ASSUME NEW k \in 1 .. n
       PROVE  nth[k] \in bins /\ Cardinality(lower(nth[k])) = k - 1
  <2>1. PICK i \in bins : rank[i] = k
    BY <1>10
  <2>2. Cardinality(lower(i)) = k - 1
    BY <2>1, <1>6
  <2>3. nth[k] = CHOOSE j \in bins : Cardinality(lower(j)) = k - 1
    BY DEF lower, n, nth, Nth
  <2> QED
    BY <2>2, <2>3
<1>12. ASSUME NEW k \in 1 .. n, NEW l \in 1 .. n, k < l PROVE nth[k] < nth[l]
  <2>1. nth[k] \in bins /\ nth[l] \in bins
    BY <1>11
  <2>2. Cardinality(lower(nth[k])) = k - 1 /\ Cardinality(lower(nth[l])) = l - 1
    BY <1>11
  <2>3. k - 1 < l - 1 /\ k \in Nat /\ l \in Nat
    BY <1>1, <1>12
  <2>4. Cardinality(lower(nth[k])) < Cardinality(lower(nth[l]))
    BY <2>2, <2>3
  <2>5. ~ (nth[l] < nth[k])
    <3>1. nth[l] < nth[k] => Cardinality(lower(nth[l])) < Cardinality(lower(nth[k]))
      BY <2>1, <1>5
    <3> QED
      BY <3>1, <2>2, <2>3
  <2>6. nth[l] # nth[k]
    <3>1. nth[l] = nth[k] => Cardinality(lower(nth[l])) = Cardinality(lower(nth[k]))
      OBVIOUS
    <3>2. k - 1 # l - 1
      BY <2>3
    <3> QED
      BY <3>1, <3>2, <2>2
  <2>7. nth[k] \in Nat /\ nth[l] \in Nat
    BY <2>1
  <2> HIDE DEF lower
  <2> QED
    BY <2>7, <2>5, <2>6
<1>13. ASSUME NEW i \in bins PROVE rank[i] \in 1 .. n /\ nth[rank[i]] = i
  <2>1. rank[i] \in 1 .. n
    BY <1>6
  <2>2. nth[rank[i]] \in bins /\ Cardinality(lower(nth[rank[i]])) = rank[i] - 1
    BY <2>1, <1>11
  <2>3. rank[i] - 1 = Cardinality(lower(i))
    BY <1>6
  <2> QED
    BY <2>1, <2>2, <2>3, <1>8
<1> QED
  BY <1>11, <1>12, <1>13 DEF n, nth

=============================================================================
