---------------------------- MODULE CommonProofs ----------------------------
(***************************************************************************)
(* What the other proofs need of finite sets, numbers and sequences:       *)
(* induction over the subsets of a set, the library's sums and remainders, *)
(* least and greatest elements; then functions defined from one number to  *)
(* the next, digits and the numbers that they spell, the library's joined  *)
(* sequences, and from these that the codes of Codes are parted as they    *)
(* were combined and read from the levels that they fill.                  *)
(***************************************************************************)
EXTENDS Integers, FiniteSets, FiniteSetsExt, Functions, Codes, FiniteSetTheorems, SequenceTheorems, TLAPS

\* The image of a finite set is finite.
LEMMA ImageFinite ==
  ASSUME NEW S, IsFiniteSet(S), NEW f
  PROVE  IsFiniteSet({f[x] : x \in S})
<1> DEFINE T == {f[x] : x \in S}
           g == [x \in S |-> f[x]]
<1>1. g \in Surjection(S, T)
  BY DEF Surjection
<1> QED
  BY <1>1, FS_Surjection

\* Induction over the subsets of a finite set, as a fact about a set of sets.
LEMMA SubsetInduction ==
  ASSUME NEW S, IsFiniteSet(S), NEW Good \in SUBSET SUBSET S,
         \A T \in SUBSET S : (\A U \in SUBSET T : U # T => U \in Good) => T \in Good
  PROVE  S \in Good
<1> SUFFICES ASSUME S \notin Good
             PROVE  FALSE
  OBVIOUS
<1> DEFINE Bad == (SUBSET S) \ Good
<1>1. Bad \subseteq FiniteSubsetsOf(S) /\ Bad # {}
  BY FS_FiniteSubsetsOfFinite
<1>2. PICK T \in Bad : \A U \in Bad : ~ (<<U, T>> \in StrictSubsetOrdering(S))
  <2>1. IsWellFoundedOn(StrictSubsetOrdering(S), FiniteSubsetsOf(S))
    BY FS_StrictSubsetOrderingWellFounded
  <2> HIDE DEF Bad
  <2> QED
    BY <1>1, <2>1, WFMin
<1>3. \A U \in SUBSET T : U # T => U \in Good
  BY <1>2 DEF StrictSubsetOrdering
<1> QED
  BY <1>3

\* The same, one element at a time.
LEMMA FiniteInduction ==
  ASSUME NEW S, IsFiniteSet(S), NEW Good \in SUBSET SUBSET S, {} \in Good,
         \A T \in SUBSET S : \A x \in S \ T : T \in Good => T \cup {x} \in Good
  PROVE  S \in Good
<1>1. ASSUME NEW T \in SUBSET S, \A U \in SUBSET T : U # T => U \in Good
      PROVE  T \in Good
  <2>1. CASE T = {}
    BY <2>1
  <2>2. CASE T # {}
    <3>1. PICK x \in T : TRUE
      BY <2>2
    <3>2. T \ {x} \in Good
      BY <1>1, <3>1
    <3>3. T = (T \ {x}) \cup {x}
      BY <3>1
    <3> QED
      BY <3>1, <3>2, <3>3
  <2> QED
    BY <2>1, <2>2
<1> QED
  BY <1>1, SubsetInduction

\* The sum over a finite set as the library computes it: one element at a time, in
\* the order of CHOOSE.
Pick(s) == CHOOSE x \in s : TRUE

\* A table of the sums of all the subsets of T.
Eqn(g, f, T) == g = [s \in SUBSET T |-> IF s = {} THEN 0 ELSE f[Pick(s)] + g[s \ {Pick(s)}]]

\* What the library's fold is, all its layers expanded.
LEMMA SumIs ==
  ASSUME NEW f, NEW S
  PROVE  SumFunctionOnSet(f, S) = (CHOOSE g : Eqn(g, f, S))[S]
BY DEF SumFunctionOnSet, FoldFunctionOnSet, MapThenFoldSet, Eqn, Pick

\* Two tables of partial sums agree where both have an entry.
LEMMA EqnUnique ==
  ASSUME NEW f, NEW T, NEW U, IsFiniteSet(T), U \subseteq T, NEW g, NEW h, Eqn(g, f, T), Eqn(h, f, U)
  PROVE  g[U] = h[U]
<1> DEFINE Good == {V \in SUBSET U : g[V] = h[V]}
<1>1. IsFiniteSet(U)
  BY FS_Subset
<1>2. ASSUME NEW V \in SUBSET U, \A W \in SUBSET V : W # V => W \in Good
      PROVE  V \in Good
  <2>1. CASE V = {}
    BY <2>1 DEF Eqn
  <2>2. CASE V # {}
    <3>1. Pick(V) \in V
      BY <2>2 DEF Pick
    <3>2. V \ {Pick(V)} \in Good
      BY <1>2, <3>1
    <3>3. g[V] = f[Pick(V)] + g[V \ {Pick(V)}] /\ h[V] = f[Pick(V)] + h[V \ {Pick(V)}]
      BY <2>2 DEF Eqn
    <3> QED
      BY <3>2, <3>3
  <2> QED
    BY <2>1, <2>2
<1> HIDE DEF Good
<1>3. U \in Good
  <2>1. Good \in SUBSET SUBSET U
    BY DEF Good
  <2> QED
    BY <1>1, <1>2, <2>1, SubsetInduction
<1> QED
  BY <1>3 DEF Good

\* Every finite set has a table of partial sums.
LEMMA EqnExists ==
  ASSUME NEW f, NEW S, IsFiniteSet(S)
  PROVE  \E g : Eqn(g, f, S)
<1> DEFINE Good == {T \in SUBSET S : \E g : Eqn(g, f, T)}
           Value(V) == (CHOOSE g : Eqn(g, f, V))[V]
<1>1. ASSUME NEW T \in SUBSET S, \A U \in SUBSET T : U # T => U \in Good
      PROVE  T \in Good
  <2> DEFINE new == [V \in SUBSET T |-> IF V = {} THEN 0 ELSE f[Pick(V)] + Value(V \ {Pick(V)})]
  <2>1. ASSUME NEW V \in SUBSET T, V # {}
        PROVE  new[V \ {Pick(V)}] = Value(V \ {Pick(V)})
    <3> DEFINE W == V \ {Pick(V)}
    <3>1. Pick(V) \in V
      BY <2>1 DEF Pick
    <3>2. W \in Good /\ W \in SUBSET T
      BY <1>1, <3>1
    <3>3. PICK g : Eqn(g, f, W)
      BY <3>2
    <3>4. Eqn(CHOOSE h : Eqn(h, f, W), f, W)
      BY <3>3
    <3> DEFINE k == CHOOSE h : Eqn(h, f, W)
    <3>5. CASE W = {}
      <4>1. k[W] = 0
        BY <3>4, <3>5 DEF Eqn
      <4> QED
        BY <3>2, <3>5, <4>1
    <3>6. CASE W # {}
      <4>1. k[W] = f[Pick(W)] + k[W \ {Pick(W)}]
        BY <3>4, <3>6 DEF Eqn
      <4>2. Pick(W) \in W
        BY <3>6 DEF Pick
      <4>3. PICK j : Eqn(j, f, W \ {Pick(W)})
        BY <1>1, <3>2, <4>2
      <4>4. Eqn(CHOOSE h : Eqn(h, f, W \ {Pick(W)}), f, W \ {Pick(W)})
        BY <4>3
      <4>5. IsFiniteSet(W)
        BY <3>2, FS_Subset
      <4>6. k[W \ {Pick(W)}] = Value(W \ {Pick(W)})
        <5> HIDE DEF k, W
        <5>1. Eqn(k, f, W)
          BY <3>4 DEF k
        <5> QED
          BY <4>4, <4>5, <5>1, EqnUnique
      <4> QED
        BY <3>2, <3>6, <4>1, <4>6
    <3> QED
      BY <3>5, <3>6
  <2>2. Eqn(new, f, T)
    <3> HIDE DEF Value
    <3>1. new = [V \in SUBSET T |-> IF V = {} THEN 0 ELSE f[Pick(V)] + new[V \ {Pick(V)}]]
      BY <2>1
    <3> HIDE DEF new
    <3> QED
      BY <3>1 DEF Eqn
  <2> QED
    BY <2>2
<1> HIDE DEF Good
<1>2. S \in Good
  <2>1. Good \in SUBSET SUBSET S
    BY DEF Good
  <2> QED
    BY <1>1, <2>1, SubsetInduction
<1> QED
  BY <1>2 DEF Good

\* The sum of a set is that of one of its elements and of the rest.
LEMMA SumEquation ==
  ASSUME NEW f, NEW S, IsFiniteSet(S)
  PROVE  /\ S = {} => SumFunctionOnSet(f, S) = 0
         /\ S # {} => SumFunctionOnSet(f, S) = f[Pick(S)] + SumFunctionOnSet(f, S \ {Pick(S)})
<1> DEFINE g == CHOOSE h : Eqn(h, f, S)
           T == S \ {Pick(S)}
<1>1. Eqn(g, f, S) /\ SumFunctionOnSet(f, S) = g[S]
  BY EqnExists, SumIs
<1>2. ASSUME S # {}
      PROVE  g[T] = SumFunctionOnSet(f, T)
  <2>1. IsFiniteSet(T) /\ T \subseteq S
    BY FS_Subset
  <2>2. Eqn(CHOOSE h : Eqn(h, f, T), f, T)
    BY <2>1, EqnExists
  <2> HIDE DEF g, T
  <2> QED
    BY <1>1, <2>1, <2>2, EqnUnique, SumIs
<1> HIDE DEF g
<1> QED
  BY <1>1, <1>2 DEF Eqn

\* The sum of nothing is 0.
LEMMA SumEmpty == ASSUME NEW f PROVE SumFunctionOnSet(f, {}) = 0
BY SumEquation, FS_EmptySet

\* The sum of integers is an integer.
LEMMA SumType ==
  ASSUME NEW f, NEW S, IsFiniteSet(S), \A x \in S : f[x] \in Int
  PROVE  SumFunctionOnSet(f, S) \in Int
<1> DEFINE Good == {T \in SUBSET S : SumFunctionOnSet(f, T) \in Int}
<1>1. ASSUME NEW T \in SUBSET S, \A U \in SUBSET T : U # T => U \in Good
      PROVE  T \in Good
  <2>1. CASE T = {}
    BY <2>1, SumEmpty
  <2>2. CASE T # {}
    <3>1. Pick(T) \in T
      BY <2>2 DEF Pick
    <3>2. SumFunctionOnSet(f, T \ {Pick(T)}) \in Int
      BY <1>1, <3>1
    <3>3. SumFunctionOnSet(f, T) = f[Pick(T)] + SumFunctionOnSet(f, T \ {Pick(T)})
      BY <2>2, SumEquation, FS_Subset
    <3> QED
      BY <3>1, <3>2, <3>3
  <2> QED
    BY <2>1, <2>2
<1> HIDE DEF Good
<1>2. S \in Good
  <2>1. Good \in SUBSET SUBSET S
    BY DEF Good
  <2> QED
    BY <1>1, <2>1, SubsetInduction
<1> QED
  BY <1>2 DEF Good

\* The order of summation does not matter: any element may be taken out first.
LEMMA SumRemove ==
  ASSUME NEW f, NEW S, IsFiniteSet(S), \A x \in S : f[x] \in Int, NEW a \in S
  PROVE  SumFunctionOnSet(f, S) = f[a] + SumFunctionOnSet(f, S \ {a})
<1> DEFINE Good == {T \in SUBSET S : \A x \in T :
                      SumFunctionOnSet(f, T) = f[x] + SumFunctionOnSet(f, T \ {x})}
<1>1. ASSUME NEW T \in SUBSET S, \A U \in SUBSET T : U # T => U \in Good
      PROVE  T \in Good
  <2> SUFFICES ASSUME NEW x \in T
               PROVE  SumFunctionOnSet(f, T) = f[x] + SumFunctionOnSet(f, T \ {x})
    OBVIOUS
  <2> DEFINE y == Pick(T)
  <2>1. y \in T
    BY DEF Pick
  <2>2. SumFunctionOnSet(f, T) = f[y] + SumFunctionOnSet(f, T \ {y})
    BY SumEquation, FS_Subset
  <2> HIDE DEF y
  <2>3. CASE y = x
    BY <2>2, <2>3
  <2>4. CASE y # x
    <3>1. T \ {y} \in Good /\ T \ {x} \in Good /\ x \in T \ {y} /\ y \in T \ {x}
      BY <1>1, <2>1, <2>4
    <3> DEFINE W == (T \ {x}) \ {y}
    <3>2. W = (T \ {y}) \ {x} /\ W \in SUBSET S
      OBVIOUS
    <3>3. SumFunctionOnSet(f, T \ {y}) = f[x] + SumFunctionOnSet(f, W)
      BY <3>1, <3>2
    <3>4. SumFunctionOnSet(f, T \ {x}) = f[y] + SumFunctionOnSet(f, W)
      BY <3>1
    <3> HIDE DEF W
    <3>5. SumFunctionOnSet(f, W) \in Int
      BY <3>2, SumType, FS_Subset
    <3>6. f[x] \in Int /\ f[y] \in Int
      BY <2>1
    <3>7. f[y] + (f[x] + SumFunctionOnSet(f, W)) = f[x] + (f[y] + SumFunctionOnSet(f, W))
      BY <3>5, <3>6
    <3> QED
      BY <2>2, <3>3, <3>4, <3>7
  <2> QED
    BY <2>3, <2>4
<1> HIDE DEF Good
<1>2. S \in Good
  <2>1. Good \in SUBSET SUBSET S
    BY DEF Good
  <2> QED
    BY <1>1, <2>1, SubsetInduction
<1> QED
  BY <1>2 DEF Good

\* One element more adds its number to the sum.
LEMMA SumAdd ==
  ASSUME NEW f, NEW S, IsFiniteSet(S), \A x \in S : f[x] \in Int, NEW a, a \notin S, f[a] \in Int
  PROVE  SumFunctionOnSet(f, S \cup {a}) = f[a] + SumFunctionOnSet(f, S)
<1>1. IsFiniteSet(S \cup {a}) /\ (S \cup {a}) \ {a} = S
  BY FS_AddElement
<1> QED
  BY <1>1, SumRemove

\* The sum depends on the numbers in the set alone.
LEMMA SumSame ==
  ASSUME NEW f, NEW g, NEW S, IsFiniteSet(S), \A x \in S : f[x] = g[x]
  PROVE  SumFunctionOnSet(f, S) = SumFunctionOnSet(g, S)
<1> DEFINE Good == {T \in SUBSET S : SumFunctionOnSet(f, T) = SumFunctionOnSet(g, T)}
<1>1. ASSUME NEW T \in SUBSET S, \A U \in SUBSET T : U # T => U \in Good
      PROVE  T \in Good
  <2>1. CASE T = {}
    BY <2>1, SumEmpty
  <2>2. CASE T # {}
    <3>1. Pick(T) \in T
      BY <2>2 DEF Pick
    <3>2. T \ {Pick(T)} \in Good
      BY <1>1, <3>1
    <3>3. SumFunctionOnSet(f, T) = f[Pick(T)] + SumFunctionOnSet(f, T \ {Pick(T)})
      BY <2>2, SumEquation, FS_Subset
    <3>4. SumFunctionOnSet(g, T) = g[Pick(T)] + SumFunctionOnSet(g, T \ {Pick(T)})
      BY <2>2, SumEquation, FS_Subset
    <3> QED
      BY <3>1, <3>2, <3>3, <3>4
  <2> QED
    BY <2>1, <2>2
<1> HIDE DEF Good
<1>2. S \in Good
  <2>1. Good \in SUBSET SUBSET S
    BY DEF Good
  <2> QED
    BY <1>1, <2>1, SubsetInduction
<1> QED
  BY <1>2 DEF Good

\* A number has one remainder.
LEMMA RemainderUnique ==
  ASSUME NEW m \in Nat \ {0}, NEW q \in Int, NEW p \in Int, NEW r \in 0 .. m - 1, NEW s \in 0 .. m - 1,
         m * q + r = m * p + s
  PROVE  r = s
<1>1. m * (q - p) = s - r
  OBVIOUS
<1>2. ASSUME q - p >= 1 PROVE FALSE
  <2>1. m * (q - p) >= m
    BY <1>2
  <2> QED
    BY <1>1, <2>1
<1>3. ASSUME q - p <= -1 PROVE FALSE
  <2>1. m * (q - p) <= -m
    BY <1>3
  <2> QED
    BY <1>1, <2>1
<1>4. q = p
  BY <1>2, <1>3
<1> QED
  BY <1>4

\* And it has one: the remainder that % computes.
LEMMA DivisionExists ==
  ASSUME NEW m \in Nat \ {0}, NEW x \in Int
  PROVE  \E q \in Int, r \in 0 .. m - 1 : x = m * q + r /\ x % m = r
<1>1. x \div m \in Int /\ x % m \in 0 .. m - 1 /\ x = m * (x \div m) + (x % m)
  OBVIOUS
<1> DEFINE q == x \div m
           r == x % m
<1>2. q \in Int /\ r \in 0 .. m - 1 /\ x = m * q + r /\ x % m = r
  BY <1>1
<1> HIDE DEF q, r
<1> QED
  BY <1>2

\* Whole multiples of the modulus do not change a remainder.
LEMMA ModuloShift ==
  ASSUME NEW m \in Nat \ {0}, NEW x \in Int, NEW k \in Int
  PROVE  (x + m * k) % m = x % m
<1> DEFINE y == x + m * k
<1>1. y \in Int
  OBVIOUS
<1>2. PICK q \in Int, r \in 0 .. m - 1 : x = m * q + r /\ x % m = r
  BY DivisionExists
<1>3. y = m * (q + k) + r
  <2>1. x = m * q + r
    BY <1>2
  <2> QED
    BY <2>1
<1> HIDE DEF y
<1>4. PICK p \in Int, s \in 0 .. m - 1 : y = m * p + s /\ y % m = s
  BY <1>1, DivisionExists
<1>5. r = s
  <2>1. m * (q + k) + r = m * p + s /\ q + k \in Int
    BY <1>3, <1>4
  <2> QED
    BY <2>1, RemainderUnique
<1> QED
  BY <1>2, <1>4, <1>5 DEF y

\* A counter that wraps may wrap before an addition or after it.
LEMMA ModuloAdds ==
  ASSUME NEW m \in Nat \ {0}, NEW a \in Int, NEW b \in Int
  PROVE  /\ ((a % m) + b) % m = (a + b) % m
         /\ (a + (b % m)) % m = (a + b) % m
         /\ (a % m) % m = a % m
<1>1. PICK q \in Int, r \in 0 .. m - 1 : a = m * q + r /\ a % m = r
  BY DivisionExists
<1>2. PICK p \in Int, s \in 0 .. m - 1 : b = m * p + s /\ b % m = s
  BY DivisionExists
<1>3. a + b = (r + b) + m * q /\ a + b = (a + s) + m * p /\ a = r + m * q
  <2>1. a = m * q + r /\ b = m * p + s
    BY <1>1, <1>2
  <2> QED
    BY <2>1
<1>4. (a + b) % m = (r + b) % m /\ (a + b) % m = (a + s) % m /\ a % m = r % m
  <2> DEFINE u == r + b
             v == a + s
  <2>1. u \in Int /\ v \in Int /\ r \in Int
    OBVIOUS
  <2>2. a + b = u + m * q /\ a + b = v + m * p /\ a = r + m * q
    BY <1>3
  <2> HIDE DEF u, v
  <2>3. (u + m * q) % m = u % m /\ (v + m * p) % m = v % m /\ (r + m * q) % m = r % m
    BY <2>1, ModuloShift, Zenon
  <2> USE DEF u, v
  <2> QED
    BY <2>2, <2>3
<1> QED
  BY <1>1, <1>2, <1>4

-----------------------------------------------------------------------------
\* Zeros may be left out of a sum.
LEMMA SumSupport ==
  ASSUME NEW f, NEW S, IsFiniteSet(S), \A x \in S : f[x] \in Int, NEW T \in SUBSET S, \A x \in S \ T : f[x] = 0
  PROVE  SumFunctionOnSet(f, S) = SumFunctionOnSet(f, T)
<1> DEFINE Good == {R \in SUBSET (S \ T) : SumFunctionOnSet(f, T \cup R) = SumFunctionOnSet(f, T)}
<1>1. {} \in Good
  BY Zenon
<1>2. ASSUME NEW R \in SUBSET (S \ T), NEW x \in (S \ T) \ R, R \in Good
      PROVE  R \cup {x} \in Good
  <2> DEFINE W == T \cup R
  <2>1. W \in SUBSET S /\ x \notin W /\ x \in S
    OBVIOUS
  <2>2. SumFunctionOnSet(f, W \cup {x}) = f[x] + SumFunctionOnSet(f, W)
    BY <2>1, SumAdd, FS_Subset
  <2>3. T \cup (R \cup {x}) = W \cup {x} /\ f[x] = 0
    OBVIOUS
  <2> HIDE DEF W
  <2>4. SumFunctionOnSet(f, W) \in Int
    BY <2>1, SumType, FS_Subset
  <2>5. SumFunctionOnSet(f, W \cup {x}) = SumFunctionOnSet(f, W)
    BY <2>2, <2>3, <2>4
  <2> QED
    BY <1>2, <2>3, <2>5 DEF W
<1> HIDE DEF Good
<1>3. S \ T \in Good
  <2>1. Good \in SUBSET SUBSET (S \ T) /\ IsFiniteSet(S \ T)
    BY FS_Subset DEF Good
  <2> QED
    BY <1>1, <1>2, <2>1, FiniteInduction
<1>4. T \cup (S \ T) = S
  OBVIOUS
<1> QED
  BY <1>3, <1>4 DEF Good

\* Two sets with nothing in common are summed one by one.
LEMMA SumDisjoint ==
  ASSUME NEW f, NEW S, NEW T, IsFiniteSet(S), IsFiniteSet(T), S \cap T = {}, \A x \in S \cup T : f[x] \in Int
  PROVE  SumFunctionOnSet(f, S \cup T) = SumFunctionOnSet(f, S) + SumFunctionOnSet(f, T)
<1> DEFINE Good == {R \in SUBSET T : SumFunctionOnSet(f, S \cup R) = SumFunctionOnSet(f, S) + SumFunctionOnSet(f, R)}
<1>1. {} \in Good
  <2>1. SumFunctionOnSet(f, {}) = 0 /\ S \cup {} = S
    BY SumEmpty
  <2>2. SumFunctionOnSet(f, S) \in Int
    BY SumType
  <2>3. SumFunctionOnSet(f, S \cup {}) = SumFunctionOnSet(f, S) + SumFunctionOnSet(f, {})
    BY <2>1, <2>2
  <2> QED
    BY <2>3
<1>2. ASSUME NEW R \in SUBSET T, NEW x \in T \ R, R \in Good
      PROVE  R \cup {x} \in Good
  <2> DEFINE W == S \cup R
             F == SumFunctionOnSet(f, W)
             G == SumFunctionOnSet(f, S)
             H == SumFunctionOnSet(f, R)
  <2>1. IsFiniteSet(R) /\ IsFiniteSet(W) /\ x \notin W /\ x \notin R /\ f[x] \in Int
    BY FS_Subset, FS_Union
  <2>2. (\A y \in W : f[y] \in Int) /\ (\A y \in R : f[y] \in Int)
    OBVIOUS
  <2>3. S \cup (R \cup {x}) = W \cup {x}
    OBVIOUS
  <2> HIDE DEF W
  <2>4. SumFunctionOnSet(f, W \cup {x}) = f[x] + F /\ SumFunctionOnSet(f, R \cup {x}) = f[x] + H
    BY <2>1, <2>2, SumAdd
  <2>5. F \in Int /\ G \in Int /\ H \in Int
    BY <2>1, <2>2, SumType
  <2>6. F = G + H
    BY <1>2 DEF W
  <2> HIDE DEF F, G, H
  <2>7. f[x] + F = G + (f[x] + H)
    BY <2>1, <2>5, <2>6
  <2>8. SumFunctionOnSet(f, S \cup (R \cup {x})) = SumFunctionOnSet(f, S) + SumFunctionOnSet(f, R \cup {x})
    BY <2>3, <2>4, <2>7 DEF G
  <2> QED
    BY <2>8
<1> HIDE DEF Good
<1>3. T \in Good
  <2>1. Good \in SUBSET SUBSET T
    BY DEF Good
  <2> QED
    BY <1>1, <1>2, <2>1, FiniteInduction
<1> QED
  BY <1>3 DEF Good

\* A sum of counters that wrap is the sum of the numbers, wrapped.
LEMMA SumModulo ==
  ASSUME NEW m \in Nat \ {0}, NEW f, NEW g, NEW S, IsFiniteSet(S),
         \A x \in S : f[x] \in Int /\ g[x] = f[x] % m
  PROVE  SumFunctionOnSet(g, S) % m = SumFunctionOnSet(f, S) % m
<1> DEFINE Good == {T \in SUBSET S : SumFunctionOnSet(g, T) % m = SumFunctionOnSet(f, T) % m}
<1>1. {} \in Good
  BY SumEmpty
<1>2. ASSUME NEW T \in SUBSET S, NEW x \in S \ T, T \in Good
      PROVE  T \cup {x} \in Good
  <2>1. IsFiniteSet(T)
    BY FS_Subset
  <2>2. \A y \in S : g[y] \in Int
    OBVIOUS
  <2> DEFINE F == SumFunctionOnSet(f, T)
             G == SumFunctionOnSet(g, T)
  <2>3. SumFunctionOnSet(f, T \cup {x}) = f[x] + F /\ SumFunctionOnSet(g, T \cup {x}) = g[x] + G
    BY <2>1, <2>2, SumAdd
  <2>4. F \in Int /\ G \in Int /\ G % m = F % m /\ f[x] \in Int /\ g[x] \in Int
    BY <1>2, <2>1, <2>2, SumType
  <2> HIDE DEF F, G
  <2>5. (g[x] + G) % m = (f[x] + F) % m
    <3>1. (g[x] + G) % m = (g[x] + (G % m)) % m /\ (f[x] + F) % m = (f[x] + (F % m)) % m
      BY <2>4, ModuloAdds
    <3>2. ((f[x] % m) + (F % m)) % m = (f[x] + (F % m)) % m
      <4>1. F % m \in Int
        BY <2>4
      <4> DEFINE a == F % m
      <4> HIDE DEF a
      <4>2. ((f[x] % m) + a) % m = (f[x] + a) % m
        BY <2>4, <4>1, ModuloAdds DEF a
      <4> QED
        BY <4>2 DEF a
    <3>3. g[x] = f[x] % m
      OBVIOUS
    <3> QED
      BY <2>4, <3>1, <3>2, <3>3
  <2> QED
    BY <2>3, <2>5
<1> HIDE DEF Good
<1>3. S \in Good
  <2>1. Good \in SUBSET SUBSET S
    BY DEF Good
  <2> QED
    BY <1>1, <1>2, <2>1, FiniteInduction
<1> QED
  BY <1>3 DEF Good

\* The sum of sums, number by number.
LEMMA SumPlus ==
  ASSUME NEW f, NEW g, NEW h, NEW S, IsFiniteSet(S),
         \A x \in S : f[x] \in Int /\ g[x] \in Int /\ h[x] = f[x] + g[x]
  PROVE  SumFunctionOnSet(h, S) = SumFunctionOnSet(f, S) + SumFunctionOnSet(g, S)
<1> DEFINE Good == {T \in SUBSET S : SumFunctionOnSet(h, T) = SumFunctionOnSet(f, T) + SumFunctionOnSet(g, T)}
<1>1. {} \in Good
  BY SumEmpty
<1>2. ASSUME NEW T \in SUBSET S, NEW x \in S \ T, T \in Good
      PROVE  T \cup {x} \in Good
  <2>1. IsFiniteSet(T)
    BY FS_Subset
  <2>2. \A y \in S : h[y] \in Int
    OBVIOUS
  <2> DEFINE F == SumFunctionOnSet(f, T)
             G == SumFunctionOnSet(g, T)
             H == SumFunctionOnSet(h, T)
  <2>3. /\ SumFunctionOnSet(f, T \cup {x}) = f[x] + F
        /\ SumFunctionOnSet(g, T \cup {x}) = g[x] + G
        /\ SumFunctionOnSet(h, T \cup {x}) = h[x] + H
    BY <2>1, <2>2, SumAdd
  <2>4. F \in Int /\ G \in Int /\ H = F + G
    BY <1>2, <2>1, SumType
  <2> HIDE DEF F, G, H
  <2>5. h[x] + H = (f[x] + F) + (g[x] + G)
    BY <2>4
  <2> QED
    BY <2>3, <2>5
<1> HIDE DEF Good
<1>3. S \in Good
  <2>1. Good \in SUBSET SUBSET S
    BY DEF Good
  <2> QED
    BY <1>1, <1>2, <2>1, FiniteInduction
<1> QED
  BY <1>3 DEF Good

\* A table may be summed by rows or by columns.
LEMMA SumExchange ==
  ASSUME NEW A, IsFiniteSet(A), NEW B, IsFiniteSet(B), NEW h, \A a \in A : \A b \in B : h[a][b] \in Int
  PROVE  SumFunctionOnSet([a \in A |-> SumFunctionOnSet(h[a], B)], A)
           = SumFunctionOnSet([b \in B |-> SumFunctionOnSet([a \in A |-> h[a][b]], A)], B)
<1> DEFINE rows == [a \in A |-> SumFunctionOnSet(h[a], B)]
           column(b) == [a \in A |-> h[a][b]]
           columns(T) == [b \in B |-> SumFunctionOnSet(column(b), T)]
           Good == {T \in SUBSET A : SumFunctionOnSet(rows, T) = SumFunctionOnSet(columns(T), B)}
<1>1. \A b \in B : \A a \in A : column(b)[a] = h[a][b] /\ h[a][b] \in Int
  OBVIOUS
<1>2. \A a \in A : rows[a] \in Int
  BY SumType
<1>3. {} \in Good
  <2>1. SumFunctionOnSet(rows, {}) = 0
    BY SumEmpty
  <2>2. \A b \in B : columns({})[b] = 0
    BY SumEmpty
  <2>3. SumFunctionOnSet(columns({}), B) = SumFunctionOnSet(columns({}), {})
    <3> DEFINE c == columns({})
    <3>1. \A b \in B : c[b] = 0
      BY <2>2
    <3> HIDE DEF c
    <3>2. SumFunctionOnSet(c, B) = SumFunctionOnSet(c, {})
      BY <3>1, SumSupport
    <3> QED
      BY <3>2 DEF c
  <2> QED
    BY <2>1, <2>3, SumEmpty
<1>4. ASSUME NEW T \in SUBSET A, NEW x \in A \ T, T \in Good
      PROVE  T \cup {x} \in Good
  <2>1. IsFiniteSet(T)
    BY FS_Subset
  <2>2. SumFunctionOnSet(rows, T \cup {x}) = rows[x] + SumFunctionOnSet(rows, T)
    <3> HIDE DEF rows
    <3> QED
      BY <1>2, <2>1, SumAdd
  <2>3. \A b \in B : columns(T \cup {x})[b] = h[x][b] + columns(T)[b] /\ columns(T)[b] \in Int
    <3> SUFFICES ASSUME NEW b \in B
                 PROVE  /\ SumFunctionOnSet(column(b), T \cup {x}) = h[x][b] + SumFunctionOnSet(column(b), T)
                        /\ SumFunctionOnSet(column(b), T) \in Int
      OBVIOUS
    <3> DEFINE c == column(b)
    <3>1. \A a \in A : c[a] \in Int /\ c[a] = h[a][b]
      BY <1>1
    <3> HIDE DEF c
    <3>2. SumFunctionOnSet(c, T \cup {x}) = c[x] + SumFunctionOnSet(c, T) /\ SumFunctionOnSet(c, T) \in Int
      BY <2>1, <3>1, SumAdd, SumType
    <3> QED
      BY <3>1, <3>2 DEF c
  <2> DEFINE old == columns(T)
             new == columns(T \cup {x})
             row == h[x]
  <2>4. \A b \in B : new[b] = row[b] + old[b] /\ old[b] \in Int /\ row[b] \in Int
    BY <2>3
  <2>5. rows[x] = SumFunctionOnSet(row, B)
    OBVIOUS
  <2>6. SumFunctionOnSet(rows, T) = SumFunctionOnSet(old, B)
    BY <1>4
  <2> HIDE DEF old, new, row, rows
  <2>7. SumFunctionOnSet(new, B) = SumFunctionOnSet(row, B) + SumFunctionOnSet(old, B)
    BY <2>4, SumPlus
  <2>8. SumFunctionOnSet(rows, T \cup {x}) = SumFunctionOnSet(new, B)
    BY <2>2, <2>5, <2>6, <2>7
  <2> QED
    BY <2>8 DEF new
<1> HIDE DEF Good
<1>5. A \in Good
  <2>1. Good \in SUBSET SUBSET A
    BY DEF Good
  <2> QED
    BY <1>3, <1>4, <2>1, FiniteInduction
<1> QED
  BY <1>5 DEF Good

\* A set may be summed class by class.
LEMMA SumPartition ==
  ASSUME NEW f, NEW S, IsFiniteSet(S), \A x \in S : f[x] \in Int,
         NEW V, IsFiniteSet(V), NEW h, \A x \in S : h[x] \in V
  PROVE  SumFunctionOnSet(f, S) = SumFunctionOnSet([v \in V |-> SumFunctionOnSet(f, {x \in S : h[x] = v})], V)
<1> DEFINE z == [x \in S |-> [v \in V |-> IF h[x] = v THEN f[x] ELSE 0]]
<1>1. \A x \in S : \A v \in V : z[x][v] = (IF h[x] = v THEN f[x] ELSE 0) /\ z[x][v] \in Int
  OBVIOUS
<1> HIDE DEF z
<1>2. ASSUME NEW x \in S
      PROVE  SumFunctionOnSet(z[x], V) = f[x]
  <2>1. IsFiniteSet({h[x]}) /\ {h[x]} \in SUBSET V /\ \A v \in V \ {h[x]} : z[x][v] = 0
    BY <1>1, FS_Singleton
  <2>2. SumFunctionOnSet(z[x], V) = SumFunctionOnSet(z[x], {h[x]})
    BY <1>1, <2>1, SumSupport
  <2>3. {h[x]} \ {h[x]} = {} /\ z[x][h[x]] = f[x]
    BY <1>1
  <2>4. SumFunctionOnSet(z[x], {h[x]}) = z[x][h[x]] + SumFunctionOnSet(z[x], {h[x]} \ {h[x]})
    BY <1>1, <2>1, SumRemove
  <2>5. SumFunctionOnSet(z[x], {h[x]} \ {h[x]}) = 0
    BY <2>3, SumEmpty
  <2>6. f[x] \in Int
    OBVIOUS
  <2> QED
    BY <2>2, <2>3, <2>4, <2>5, <2>6
<1>3. ASSUME NEW v \in V
      PROVE  SumFunctionOnSet([x \in S |-> z[x][v]], S) = SumFunctionOnSet(f, {x \in S : h[x] = v})
  <2> DEFINE c == [x \in S |-> z[x][v]]
             T == {x \in S : h[x] = v}
  <2>1. (\A x \in S : c[x] \in Int) /\ (\A x \in S \ T : c[x] = 0) /\ (\A x \in T : c[x] = f[x]) /\ T \in SUBSET S
    BY <1>1
  <2> HIDE DEF c, T
  <2>2. SumFunctionOnSet(c, S) = SumFunctionOnSet(c, T)
    BY <2>1, SumSupport
  <2>3. SumFunctionOnSet(c, T) = SumFunctionOnSet(f, T)
    BY <2>1, SumSame, FS_Subset
  <2> QED
    BY <2>2, <2>3 DEF c, T
<1>4. SumFunctionOnSet([x \in S |-> SumFunctionOnSet(z[x], V)], S)
        = SumFunctionOnSet([v \in V |-> SumFunctionOnSet([x \in S |-> z[x][v]], S)], V)
  BY <1>1, SumExchange
<1>5. SumFunctionOnSet([x \in S |-> SumFunctionOnSet(z[x], V)], S) = SumFunctionOnSet(f, S)
  <2> DEFINE g == [x \in S |-> SumFunctionOnSet(z[x], V)]
  <2>1. \A x \in S : g[x] = f[x]
    BY <1>2
  <2> HIDE DEF g
  <2>2. SumFunctionOnSet(g, S) = SumFunctionOnSet(f, S)
    BY <2>1, SumSame
  <2> QED
    BY <2>2 DEF g
<1>6. [v \in V |-> SumFunctionOnSet([x \in S |-> z[x][v]], S)]
        = [v \in V |-> SumFunctionOnSet(f, {x \in S : h[x] = v})]
  BY <1>3
<1> QED
  BY <1>4, <1>5, <1>6

\* The sum of one number.
LEMMA SumOne ==
  ASSUME NEW f, NEW a, f[a] \in Int
  PROVE  SumFunctionOnSet(f, {a}) = f[a]
<1>1. SumFunctionOnSet(f, {} \cup {a}) = f[a] + SumFunctionOnSet(f, {})
  BY FS_EmptySet, SumAdd
<1>2. {} \cup {a} = {a} /\ SumFunctionOnSet(f, {}) = 0
  BY SumEmpty
<1> QED
  BY <1>1, <1>2

\* The sum of two.
LEMMA SumTwo ==
  ASSUME NEW f, NEW a, NEW b, a # b, f[a] \in Int, f[b] \in Int
  PROVE  SumFunctionOnSet(f, {a, b}) = f[a] + f[b]
<1> DEFINE S == {a}
<1>1. IsFiniteSet(S) /\ b \notin S /\ \A x \in S : f[x] \in Int
  BY FS_Singleton
<1>2. S \cup {b} = {a, b} /\ SumFunctionOnSet(f, S) = f[a]
  BY SumOne
<1> HIDE DEF S
<1>3. SumFunctionOnSet(f, S \cup {b}) = f[b] + SumFunctionOnSet(f, S)
  BY <1>1, SumAdd
<1>4. SumFunctionOnSet(f, {a, b}) = f[b] + f[a]
  BY <1>2, <1>3, Zenon
<1> QED
  BY <1>4

\* Counters that are not negative: fewer of them add up to no more, and any that is
\* not zero shows.
LEMMA SumBounds ==
  ASSUME NEW f, NEW S, IsFiniteSet(S), \A x \in S : f[x] \in Nat, NEW P \in SUBSET S
  PROVE  /\ SumFunctionOnSet(f, P) \in Nat /\ SumFunctionOnSet(f, P) <= SumFunctionOnSet(f, S)
         /\ \A a \in P : f[a] <= SumFunctionOnSet(f, P)
<1>1. ASSUME NEW Q, IsFiniteSet(Q), NEW R, R \subseteq Q, \A x \in Q : f[x] \in Nat
      PROVE  SumFunctionOnSet(f, R) \in Int /\ SumFunctionOnSet(f, R) <= SumFunctionOnSet(f, Q)
  <2> DEFINE W == Q \ R
             Good == {V \in SUBSET W : SumFunctionOnSet(f, R) <= SumFunctionOnSet(f, R \cup V)}
  <2>1. IsFiniteSet(W) /\ IsFiniteSet(R)
    BY <1>1, FS_Subset
  <2>2. SumFunctionOnSet(f, R) \in Int
    BY <1>1, <2>1, SumType
  <2>3. {} \in Good
    BY <2>2
  <2>4. ASSUME NEW V \in SUBSET W, NEW x \in W \ V, V \in Good
        PROVE  V \cup {x} \in Good
    <3> DEFINE U == R \cup V
    <3>1. IsFiniteSet(U) /\ x \notin U /\ \A y \in U : f[y] \in Int
      <4>1. U \subseteq Q /\ x \notin U
        BY <1>1
      <4> QED
        BY <1>1, <4>1, FS_Subset
    <3>2. f[x] \in Nat
      BY <1>1
    <3> HIDE DEF U
    <3>3. SumFunctionOnSet(f, U \cup {x}) = f[x] + SumFunctionOnSet(f, U)
      BY <3>1, <3>2, SumAdd
    <3>4. SumFunctionOnSet(f, U) \in Int
      BY <3>1, SumType
    <3>5. SumFunctionOnSet(f, R) <= SumFunctionOnSet(f, U \cup {x})
      BY <2>2, <2>4, <3>2, <3>3, <3>4 DEF U
    <3>6. U \cup {x} = R \cup (V \cup {x})
      BY DEF U
    <3> QED
      BY <3>5, <3>6
  <2>5. R \cup W = Q
    BY <1>1
  <2> HIDE DEF W
  <2>6. Good \in SUBSET SUBSET W
    OBVIOUS
  <2> HIDE DEF Good
  <2>7. W \in Good
    BY <2>1, <2>3, <2>4, <2>6, FiniteInduction
  <2> QED
    BY <2>2, <2>5, <2>7 DEF Good
<1>2. IsFiniteSet(P) /\ \A x \in P : f[x] \in Nat
  BY FS_Subset
<1>3. SumFunctionOnSet(f, {}) = 0
  BY SumEmpty
<1>4. SumFunctionOnSet(f, P) \in Int /\ SumFunctionOnSet(f, {}) <= SumFunctionOnSet(f, P)
  BY <1>1, <1>2, SumType
<1>5. ASSUME NEW a \in P PROVE f[a] <= SumFunctionOnSet(f, P)
  <2>1. SumFunctionOnSet(f, {a}) = f[a]
    BY <1>2, SumOne
  <2>2. {a} \subseteq P
    OBVIOUS
  <2> QED
    BY <1>1, <1>2, <2>1, <2>2
<1> QED
  BY <1>1, <1>3, <1>4, <1>5

\* The sum over a set is at most that over two sets that cover it.
LEMMA SumCovered ==
  ASSUME NEW f, NEW S, IsFiniteSet(S), NEW T, IsFiniteSet(T), \A x \in S \cup T : f[x] \in Nat,
         NEW U \in SUBSET (S \cup T)
  PROVE  SumFunctionOnSet(f, U) <= SumFunctionOnSet(f, S) + SumFunctionOnSet(f, T)
<1> DEFINE sum(V) == SumFunctionOnSet(f, V)
           Good == {V \in SUBSET T : sum(S \cup V) <= sum(S) + sum(V)}
<1>1. IsFiniteSet(S \cup T)
  BY FS_Union
<1>2. ASSUME NEW V \in SUBSET (S \cup T) PROVE IsFiniteSet(V) /\ sum(V) \in Nat /\ sum(V) <= sum(S \cup T)
  <2>1. IsFiniteSet(V)
    BY <1>1, FS_Subset
  <2> QED
    BY <1>1, <2>1, SumBounds
<1>3. {} \in Good
  <2>1. sum({}) = 0 /\ S \cup {} = S /\ sum(S) \in Nat
    BY <1>2, SumEmpty
  <2> HIDE DEF sum
  <2> QED
    BY <2>1
<1>4. ASSUME NEW V \in SUBSET T, NEW x \in T \ V, V \in Good
      PROVE  V \cup {x} \in Good
  <2>1. IsFiniteSet(V) /\ (\A y \in V : f[y] \in Int) /\ x \notin V /\ f[x] \in Nat
    <3>1. V \in SUBSET (S \cup T)
      OBVIOUS
    <3> QED
      BY <1>2, <3>1
  <2>2. sum(V \cup {x}) = f[x] + sum(V)
    BY <2>1, SumAdd
  <2>3. sum(V) \in Nat /\ sum(S) \in Nat /\ sum(S \cup V) \in Nat /\ IsFiniteSet(S \cup V)
    <3>1. V \in SUBSET (S \cup T) /\ S \in SUBSET (S \cup T) /\ S \cup V \in SUBSET (S \cup T)
      OBVIOUS
    <3> HIDE DEF sum
    <3> QED
      BY <1>2, <3>1
  <2>4. sum(S \cup V) <= sum(S) + sum(V)
    BY <1>4
  <2>5. sum(S \cup (V \cup {x})) <= f[x] + sum(S \cup V)
    <3>1. CASE x \in S
      <4>1. S \cup (V \cup {x}) = S \cup V
        BY <3>1
      <4> HIDE DEF sum
      <4> QED
        BY <2>1, <2>3, <4>1
    <3>2. CASE x \notin S
      <4>1. S \cup (V \cup {x}) = (S \cup V) \cup {x} /\ x \notin S \cup V /\ \A y \in S \cup V : f[y] \in Int
        BY <2>1, <3>2
      <4>2. sum((S \cup V) \cup {x}) = f[x] + sum(S \cup V)
        <5> DEFINE W == S \cup V
        <5>1. IsFiniteSet(W) /\ x \notin W /\ (\A y \in W : f[y] \in Int) /\ f[x] \in Int
          BY <2>1, <2>3, <4>1
        <5> HIDE DEF W
        <5>2. sum(W \cup {x}) = f[x] + sum(W)
          BY <5>1, SumAdd
        <5> QED
          BY <5>2 DEF W
      <4> HIDE DEF sum
      <4> QED
        BY <2>1, <2>3, <4>1, <4>2
    <3> QED
      BY <3>1, <3>2
  <2>6. sum(S \cup (V \cup {x})) \in Nat
    <3>1. S \cup (V \cup {x}) \in SUBSET (S \cup T)
      OBVIOUS
    <3> QED
      BY <1>2, <3>1
  <2> HIDE DEF sum
  <2>7. sum(S \cup (V \cup {x})) <= sum(S) + sum(V \cup {x})
    BY <2>1, <2>2, <2>3, <2>4, <2>5, <2>6
  <2> QED
    BY <2>7
<1>5. Good \in SUBSET SUBSET T
  OBVIOUS
<1> HIDE DEF Good
<1>6. T \in Good
  BY <1>3, <1>4, <1>5, FiniteInduction
<1>7. sum(U) \in Nat /\ sum(U) <= sum(S \cup T) /\ sum(S \cup T) \in Nat /\ sum(S) \in Nat /\ sum(T) \in Nat
  <2>1. S \cup T \in SUBSET (S \cup T) /\ S \in SUBSET (S \cup T) /\ T \in SUBSET (S \cup T)
    OBVIOUS
  <2> HIDE DEF sum
  <2> QED
    BY <1>2, <2>1
<1> HIDE DEF sum
<1>8. sum(S \cup T) <= sum(S) + sum(T)
  BY <1>6 DEF Good
<1>9. sum(U) <= sum(S) + sum(T)
  BY <1>7, <1>8
<1> QED
  BY <1>9 DEF sum

\* The sum of ones is how many there are.
LEMMA SumOnes ==
  ASSUME NEW f, NEW S, IsFiniteSet(S), \A x \in S : f[x] = 1
  PROVE  SumFunctionOnSet(f, S) = Cardinality(S)
<1> DEFINE Good == {V \in SUBSET S : SumFunctionOnSet(f, V) = Cardinality(V)}
<1>1. {} \in Good
  BY SumEmpty, FS_EmptySet
<1>2. ASSUME NEW V \in SUBSET S, NEW x \in S \ V, V \in Good
      PROVE  V \cup {x} \in Good
  <2>1. IsFiniteSet(V) /\ x \notin V /\ f[x] = 1 /\ \A y \in V : f[y] \in Int
    BY FS_Subset
  <2>2. SumFunctionOnSet(f, V \cup {x}) = 1 + Cardinality(V)
    BY <1>2, <2>1, SumAdd
  <2>3. Cardinality(V \cup {x}) = Cardinality(V) + 1 /\ Cardinality(V) \in Nat
    BY <2>1, FS_AddElement, FS_CardinalityType
  <2> QED
    BY <2>2, <2>3
<1>3. Good \in SUBSET SUBSET S
  OBVIOUS
<1> HIDE DEF Good
<1>4. S \in Good
  BY <1>1, <1>2, <1>3, FiniteInduction
<1> QED
  BY <1>4 DEF Good

\* The elements of S that a function sorts under v.
ClassOf(S, h, v) == {x \in S : h[x] = v}

\* Things may be counted class by class.
LEMMA CountedByClassOf ==
  ASSUME NEW S, IsFiniteSet(S), NEW V, IsFiniteSet(V), NEW h, \A x \in S : h[x] \in V,
         NEW g, \A v \in V : g[v] = Cardinality(ClassOf(S, h, v))
  PROVE  SumFunctionOnSet(g, V) = Cardinality(S)
<1> DEFINE f == [x \in S |-> 1]
           c == [v \in V |-> SumFunctionOnSet(f, {x \in S : h[x] = v})]
<1>1. SumFunctionOnSet(f, S) = Cardinality(S) /\ \A x \in S : f[x] \in Int
  BY SumOnes
<1>2. \A v \in V : c[v] = g[v]
  <2> SUFFICES ASSUME NEW v \in V PROVE c[v] = g[v]
    OBVIOUS
  <2> DEFINE R == ClassOf(S, h, v)
  <2>1. IsFiniteSet(R) /\ \A x \in R : f[x] = 1
    BY FS_Subset DEF ClassOf
  <2>2. c[v] = SumFunctionOnSet(f, R)
    BY DEF ClassOf
  <2>3. g[v] = Cardinality(R)
    OBVIOUS
  <2> HIDE DEF R, f, c
  <2>4. SumFunctionOnSet(f, R) = Cardinality(R)
    BY <2>1, SumOnes
  <2> QED
    BY <2>2, <2>3, <2>4
<1> HIDE DEF f
<1>3. SumFunctionOnSet(f, S) = SumFunctionOnSet(c, V)
  BY <1>1, SumPartition
<1> HIDE DEF c
<1>4. SumFunctionOnSet(c, V) = SumFunctionOnSet(g, V)
  BY <1>2, SumSame
<1> QED
  BY <1>1, <1>3, <1>4

\* The same, with the classes written out.
LEMMA CountedByClass ==
  ASSUME NEW S, IsFiniteSet(S), NEW V, IsFiniteSet(V), NEW h, \A x \in S : h[x] \in V,
         NEW g, \A v \in V : g[v] = Cardinality({x \in S : h[x] = v})
  PROVE  SumFunctionOnSet(g, V) = Cardinality(S)
<1>1. \A v \in V : g[v] = Cardinality(ClassOf(S, h, v))
  BY DEF ClassOf
<1> QED
  BY <1>1, CountedByClassOf

-----------------------------------------------------------------------------
(***************************************************************************)
(* Least and greatest elements.  A finite set of subsets has one that is   *)
(* minimal by inclusion; of the sets of all elements below another that is *)
(* the empty one.                                                          *)
(***************************************************************************)
\* An order on a finite set has a minimal element.
LEMMA LeastByOrder ==
  ASSUME NEW S, IsFiniteSet(S), S # {}, NEW R, \A x \in S : <<x, x>> \notin R,
         \A x, y, z \in S : <<x, y>> \in R /\ <<y, z>> \in R => <<x, z>> \in R
  PROVE  \E m \in S : \A k \in S : <<k, m>> \notin R
<1> DEFINE below == [x \in S |-> {y \in S : <<y, x>> \in R}]
           Family == {below[x] : x \in S}
<1>0. \A x \in S : below[x] \in SUBSET S /\ \A y \in S : y \in below[x] <=> <<y, x>> \in R
  OBVIOUS
<1> HIDE DEF below
<1>1. Family \subseteq FiniteSubsetsOf(S)
  <2>1. Family \subseteq SUBSET S
    BY <1>0
  <2> HIDE DEF Family
  <2> QED
    BY <2>1, FS_FiniteSubsetsOfFinite
<1>2. Family # {}
  <2>1. PICK x \in S : TRUE
    OBVIOUS
  <2>2. below[x] \in Family
    BY <2>1
  <2> QED
    BY <2>2
<1>3. \E T \in Family : \A U \in Family : ~ (<<U, T>> \in StrictSubsetOrdering(S))
  <2>1. IsWellFoundedOn(StrictSubsetOrdering(S), FiniteSubsetsOf(S))
    BY FS_StrictSubsetOrderingWellFounded
  <2> HIDE DEF Family
  <2> QED
    BY <1>1, <1>2, <2>1, WFMin
<1>4. PICK x \in S : \A z \in S : ~ (<<below[z], below[x]>> \in StrictSubsetOrdering(S))
  BY <1>3
<1>5. \A y \in S : <<y, x>> \notin R
  <2> SUFFICES ASSUME NEW y \in S, <<y, x>> \in R
               PROVE  FALSE
    OBVIOUS
  <2> HIDE DEF Family
  <2>1. below[y] \subseteq below[x]
    <3>1. ASSUME NEW z \in S, <<z, y>> \in R
          PROVE  <<z, x>> \in R
      BY <3>1
    <3> QED
      BY <1>0, <3>1
  <2>2. y \in below[x] /\ y \notin below[y] /\ below[x] \in SUBSET S /\ below[y] \in SUBSET S
    BY <1>0
  <2>3. <<below[y], below[x]>> \in StrictSubsetOrdering(S)
    BY <2>1, <2>2 DEF StrictSubsetOrdering
  <2> QED
    BY <1>4, <2>3
<1> QED
  BY <1>5

\* So there is one where a function is least.
LEMMA LeastByFunction ==
  ASSUME NEW S, IsFiniteSet(S), S # {}, NEW f \in [S -> Int]
  PROVE  \E m \in S : \A k \in S : f[m] <= f[k]
<1> DEFINE R == {p \in S \X S : f[p[1]] < f[p[2]]}
<1>1. \A x, y \in S : <<x, y>> \in R <=> f[x] < f[y]
  OBVIOUS
<1>2. \A x \in S : f[x] \in Int
  OBVIOUS
<1> HIDE DEF R
<1>3. \A x \in S : <<x, x>> \notin R
  BY <1>1, <1>2
<1>4. \A x, y, z \in S : <<x, y>> \in R /\ <<y, z>> \in R => <<x, z>> \in R
  BY <1>1, <1>2
<1>5. PICK m \in S : \A k \in S : <<k, m>> \notin R
  BY <1>3, <1>4, LeastByOrder
<1>6. \A k \in S : ~ (f[k] < f[m])
  BY <1>1, <1>5
<1> QED
  BY <1>2, <1>6

\* A finite set of numbers has a least element.
LEMMA LeastElement ==
  ASSUME NEW S \in SUBSET Int, IsFiniteSet(S), S # {}
  PROVE  \E m \in S : \A k \in S : m <= k
<1> DEFINE f == [x \in S |-> x]
<1>1. \E m \in S : \A k \in S : f[m] <= f[k]
  <2>1. f \in [S -> Int]
    OBVIOUS
  <2> HIDE DEF f
  <2> QED
    BY <2>1, LeastByFunction
<1> QED
  BY <1>1

\* The least and the greatest of a finite set of numbers.
LEMMA LeastIs ==
  ASSUME NEW S \in SUBSET Int, IsFiniteSet(S), S # {}
  PROVE  Min(S) \in S /\ \A k \in S : Min(S) <= k
BY LeastElement DEF Min

\* And a greatest one, which the library's Max finds.
LEMMA GreatestElement ==
  ASSUME NEW S \in SUBSET Int, IsFiniteSet(S), S # {}
  PROVE  Max(S) \in S /\ \A k \in S : k <= Max(S)
<1> DEFINE f == [x \in S |-> -x]
<1>1. \E m \in S : \A k \in S : f[m] <= f[k]
  <2>1. f \in [S -> Int]
    OBVIOUS
  <2> HIDE DEF f
  <2> QED
    BY <2>1, LeastByFunction
<1>2. \E m \in S : \A k \in S : m >= k
  BY <1>1
<1> QED
  BY <1>2 DEF Max

\* A number that is small enough is its own remainder.
LEMMA SmallModulo ==
  ASSUME NEW m \in Nat, NEW x \in 0 .. m - 1
  PROVE  x % m = x
<1>1. /\ x \div m \in Int /\ x = m * (x \div m) + (x % m)
      /\ 0 <= x % m /\ x % m < m
  OBVIOUS
<1>2. x \div m = 0
  BY <1>1, Z3
<1> QED
  BY <1>1, <1>2

\* The functions between two finite sets are finitely many.
LEMMA FunctionsFinite ==
  ASSUME NEW S, IsFiniteSet(S), NEW T, IsFiniteSet(T)
  PROVE  IsFiniteSet([S -> T])
<1> DEFINE F == [S -> T]
           G == SUBSET (S \X T)
           graph == [f \in F |-> {<<x, f[x]>> : x \in S}]
<1>1. IsFiniteSet(G)
  BY FS_Product, FS_SUBSET
<1>2. graph \in [F -> G]
  OBVIOUS
<1>3. ASSUME NEW f \in F, NEW g \in F, graph[f] = graph[g] PROVE f = g
  <2>1. {<<x, f[x]>> : x \in S} = {<<x, g[x]>> : x \in S}
    BY <1>3
  <2>2. ASSUME NEW x \in S PROVE f[x] = g[x]
    <3>1. <<x, f[x]>> \in {<<y, g[y]>> : y \in S}
      BY <2>1
    <3>2. PICK y \in S : <<x, f[x]>> = <<y, g[y]>>
      BY <3>1
    <3> QED
      BY <3>2
  <2> QED
    BY <2>2
<1> HIDE DEF F, G, graph
<1>4. graph \in Injection(F, G)
  BY <1>2, <1>3 DEF Injection, IsInjective
<1> QED
  BY <1>1, <1>4, FS_Injection DEF F

-----------------------------------------------------------------------------
\* Induction up to a number, as a fact about a set.
LEMMA CountingUp ==
  ASSUME NEW n \in Nat, NEW Good, 0 \in Good, \A k \in 1 .. n : k - 1 \in Good => k \in Good
  PROVE  \A k \in 0 .. n : k \in Good
<1> SUFFICES ASSUME (0 .. n) \ Good # {}
             PROVE  FALSE
  OBVIOUS
<1> DEFINE Bad == (0 .. n) \ Good
<1>0. Bad \subseteq 0 .. n /\ Bad # {}
  OBVIOUS
<1>1. Bad \in SUBSET Int /\ IsFiniteSet(Bad)
  <2>1. IsFiniteSet(0 .. n) /\ 0 .. n \subseteq Int
    BY FS_Interval
  <2> HIDE DEF Bad
  <2>2. IsFiniteSet(Bad)
    BY <1>0, <2>1, FS_Subset
  <2> QED
    BY <1>0, <2>1, <2>2
<1>2. PICK b \in Bad : \A k \in Bad : b <= k
  <2> HIDE DEF Bad
  <2> QED
    BY <1>0, <1>1, LeastElement
<1>3. b \in 1 .. n /\ b - 1 \in 0 .. n
  BY <1>2
<1>4. b - 1 \in Good
  BY <1>2, <1>3
<1> QED
  BY <1>2, <1>3, <1>4

\* Induction down from a number.
LEMMA CountingDown ==
  ASSUME NEW n \in Nat, NEW Good, n \in Good, \A k \in 1 .. n : k \in Good => k - 1 \in Good
  PROVE  \A k \in 0 .. n : k \in Good
<1> DEFINE Turned == {k \in 0 .. n : n - k \in Good}
<1>1. 0 \in Turned
  OBVIOUS
<1>2. ASSUME NEW k \in 1 .. n, k - 1 \in Turned
      PROVE  k \in Turned
  <2>1. n - (k - 1) \in Good /\ n - (k - 1) \in 1 .. n
    BY <1>2
  <2>2. (n - (k - 1)) - 1 = n - k
    BY <1>2
  <2> QED
    BY <1>2, <2>1, <2>2
<1>3. \A k \in 0 .. n : k \in Turned
  <2> HIDE DEF Turned
  <2> QED
    BY <1>1, <1>2, CountingUp
<1>4. \A k \in 0 .. n : n - k \in 0 .. n /\ n - (n - k) = k
  OBVIOUS
<1> QED
  BY <1>3, <1>4

\* A product of natural numbers is one.
LEMMA ProductOfNaturals ==
  ASSUME NEW a \in Nat, NEW b \in Nat
  PROVE  a * b \in Nat
<1>1. a * b \in Int /\ a >= 0 /\ b >= 0
  OBVIOUS
<1>2. a * b >= 0
  BY <1>1, Z3
<1> QED
  BY <1>1, <1>2

\* A function is defined by its first value and the step from each to the next.
Follows(g, step, n, c) == g[0] = c /\ \A k \in 1 .. n : g[k] = step[k][g[k - 1]]

\* A function defined from one number to the next exists.
LEMMA Recursion ==
  ASSUME NEW n \in Nat, NEW S, NEW c \in S, NEW step \in [1 .. n -> [S -> S]]
  PROVE  \E g \in [0 .. n -> S] : Follows(g, step, n, c)
<1> DEFINE Good == {m \in 0 .. n : \E g \in [0 .. m -> S] : Follows(g, step, m, c)}
<1>1. 0 \in Good
  <2> DEFINE g == [k \in 0 .. 0 |-> c]
  <2>1. g \in [0 .. 0 -> S] /\ Follows(g, step, 0, c)
    BY DEF Follows
  <2> QED
    BY <2>1
<1>2. ASSUME NEW m \in 1 .. n, m - 1 \in Good
      PROVE  m \in Good
  <2>1. PICK g \in [0 .. m - 1 -> S] : Follows(g, step, m - 1, c)
    BY <1>2
  <2> DEFINE h == [k \in 0 .. m |-> IF k = m THEN step[m][g[m - 1]] ELSE g[k]]
  <2>2. m - 1 \in 0 .. m - 1 /\ step[m][g[m - 1]] \in S
    BY <1>2
  <2>3. h \in [0 .. m -> S]
    BY <2>2
  <2>4. h[0] = c
    BY <2>1 DEF Follows
  <2>5. ASSUME NEW k \in 1 .. m
        PROVE  h[k] = step[k][h[k - 1]]
    <3>1. k - 1 \in 0 .. m - 1 /\ h[k - 1] = g[k - 1]
      OBVIOUS
    <3>2. CASE k = m
      BY <3>1, <3>2
    <3>3. CASE k # m
      <4>1. k \in 1 .. m - 1 /\ h[k] = g[k]
        BY <3>3
      <4>2. g[k] = step[k][g[k - 1]]
        BY <2>1, <4>1 DEF Follows
      <4> QED
        BY <3>1, <4>1, <4>2
    <3> QED
      BY <3>2, <3>3
  <2> HIDE DEF h
  <2>6. Follows(h, step, m, c)
    BY <2>4, <2>5 DEF Follows
  <2> QED
    BY <1>2, <2>3, <2>6
<1>3. \A m \in 0 .. n : m \in Good
  <2> HIDE DEF Good
  <2> QED
    BY <1>1, <1>2, CountingUp
<1>4. n \in 0 .. n
  OBVIOUS
<1> QED
  BY <1>3, <1>4

-----------------------------------------------------------------------------
\* The numbers that the first digits spell.
Spells(n, bases, digits, m) ==
  n[0] = 0 /\ \A k \in 1 .. m : n[k] = n[k - 1] * bases[k] + digits[k]

\* A numeral is what its digits spell, most significant first.
LEMMA NumeralIs ==
  ASSUME NEW m \in Nat, NEW bases \in [1 .. m -> Nat], NEW digits \in [1 .. m -> Nat]
  PROVE  \E n \in [0 .. m -> Nat] : Spells(n, bases, digits, m) /\ Numeral(bases, digits) = n[m]
<1> DEFINE step == [k \in 1 .. m |-> [x \in Nat |-> x * bases[k] + digits[k]]]
           Eq(n) == n = [k \in 0 .. Len(digits) |-> IF k = 0 THEN 0 ELSE n[k - 1] * bases[k] + digits[k]]
<1>0. ASSUME NEW x \in Nat, NEW k \in 1 .. m
      PROVE  x * bases[k] + digits[k] \in Nat
  <2>1. bases[k] \in Nat /\ digits[k] \in Nat
    OBVIOUS
  <2>2. x * bases[k] \in Nat
    BY <2>1, ProductOfNaturals
  <2> QED
    BY <2>1, <2>2
<1>1. step \in [1 .. m -> [Nat -> Nat]]
  BY <1>0
<1>2. PICK g \in [0 .. m -> Nat] : Follows(g, step, m, 0)
  <2> HIDE DEF step
  <2> QED
    BY <1>1, Recursion
<1>3. Spells(g, bases, digits, m)
  <2>1. \A k \in 1 .. m : k - 1 \in 0 .. m /\ g[k - 1] \in Nat
    OBVIOUS
  <2>2. \A k \in 1 .. m : step[k][g[k - 1]] = g[k - 1] * bases[k] + digits[k]
    BY <2>1
  <2> HIDE DEF step
  <2> QED
    BY <1>2, <2>2 DEF Follows, Spells
<1>4. Len(digits) = m
  OBVIOUS
<1>5. Eq(g)
  <2>1. g = [k \in 0 .. m |-> g[k]]
    OBVIOUS
  <2>2. \A k \in 0 .. m : g[k] = IF k = 0 THEN 0 ELSE g[k - 1] * bases[k] + digits[k]
    BY <1>3 DEF Spells
  <2> QED
    BY <1>4, <2>1, <2>2
<1> DEFINE n == CHOOSE n : Eq(n)
<1>6. Eq(n)
  BY <1>5
<1>7. Numeral(bases, digits) = n[m]
  BY <1>4 DEF Numeral
<1> HIDE DEF n
<1>8. DOMAIN n = 0 .. m /\ n = [k \in 0 .. m |-> n[k]] /\ n[0] = 0
      /\ \A k \in 1 .. m : n[k] = n[k - 1] * bases[k] + digits[k]
  BY <1>4, <1>6
<1>9. \A k \in 0 .. m : n[k] \in Nat
  <2> DEFINE Good == {k \in 0 .. m : n[k] \in Nat}
  <2>1. 0 \in Good
    BY <1>8
  <2>2. ASSUME NEW k \in 1 .. m, k - 1 \in Good
        PROVE  k \in Good
    <3>1. n[k - 1] \in Nat /\ bases[k] \in Nat /\ digits[k] \in Nat
      BY <2>2
    <3>2. n[k - 1] * bases[k] + digits[k] \in Nat
      BY <1>0, <2>2
    <3>3. n[k] = n[k - 1] * bases[k] + digits[k]
      BY <1>8
    <3>4. n[k] \in Nat
      BY <3>2, <3>3
    <3> QED
      BY <3>4
  <2>3. \A k \in 0 .. m : k \in Good
    <3> HIDE DEF Good
    <3> QED
      BY <2>1, <2>2, CountingUp
  <2> QED
    BY <2>3
<1>10. n \in [0 .. m -> Nat]
  BY <1>8, <1>9
<1> QED
  BY <1>7, <1>8, <1>10 DEF Spells

\* The digits, as what is left of the number at each place.
Divides(left, bases, number, m) ==
  left[m] = number /\ \A k \in 1 .. m : left[k - 1] = left[k] \div bases[k]

\* Quotient and remainder of natural numbers.
LEMMA QuotientIs ==
  ASSUME NEW a \in Nat, NEW b \in Nat \ {0}
  PROVE  \E q \in Nat, r \in 0 .. b - 1 : a = q * b + r /\ a \div b = q /\ a % b = r
<1>1. a \div b \in Int /\ a % b \in 0 .. b - 1 /\ a = b * (a \div b) + (a % b)
  OBVIOUS
<1> DEFINE q == a \div b
           r == a % b
<1>2. q \in Int /\ r \in 0 .. b - 1 /\ a = b * q + r /\ a \div b = q /\ a % b = r
  BY <1>1
<1> HIDE DEF q, r
<1>3. q >= 0
  BY <1>2, Z3
<1>4. b * q = q * b
  BY <1>2
<1> QED
  BY <1>2, <1>3, <1>4

\* They are the only ones.
LEMMA QuotientUnique ==
  ASSUME NEW q \in Nat, NEW b \in Nat \ {0}, NEW r \in 0 .. b - 1
  PROVE  (q * b + r) \div b = q /\ (q * b + r) % b = r
<1> DEFINE a == q * b + r
<1>1. a \in Nat
  BY ProductOfNaturals
<1> HIDE DEF a
<1>2. PICK p \in Nat, s \in 0 .. b - 1 : a = p * b + s /\ a \div b = p /\ a % b = s
  BY <1>1, QuotientIs
<1>3. p * b + s = q * b + r
  BY <1>2 DEF a
<1>4. p = q
  <2>1. ~ (p >= q + 1)
    <3> SUFFICES ASSUME p >= q + 1
                 PROVE  FALSE
      OBVIOUS
    <3>1. p * b >= (q + 1) * b
      BY <1>3, Z3
    <3> QED
      BY <1>3, <3>1, Z3
  <2>2. ~ (q >= p + 1)
    <3> SUFFICES ASSUME q >= p + 1
                 PROVE  FALSE
      OBVIOUS
    <3>1. q * b >= (p + 1) * b
      BY <1>3, Z3
    <3> QED
      BY <1>3, <3>1, Z3
  <2> QED
    BY <1>3, <2>1, <2>2
<1>5. s = r
  BY <1>3, <1>4
<1> QED
  BY <1>2, <1>4, <1>5 DEF a

\* Digits are the remainders of dividing from the last base back.
LEMMA DigitsIs ==
  ASSUME NEW m \in Nat, NEW bases \in [1 .. m -> Nat \ {0}], NEW number \in Nat
  PROVE  \E left \in [0 .. m -> Nat] :
           Divides(left, bases, number, m) /\ Digits(bases, number) = [k \in 1 .. m |-> left[k] % bases[k]]
<1> DEFINE step == [k \in 1 .. m |-> [x \in Nat |-> x \div bases[m - k + 1]]]
           Eq(f) == f = [k \in 0 .. Len(bases) |-> IF k = Len(bases) THEN number ELSE f[k + 1] \div bases[k + 1]]
<1>1. step \in [1 .. m -> [Nat -> Nat]]
  <2>1. ASSUME NEW x \in Nat, NEW k \in 1 .. m
        PROVE  x \div bases[m - k + 1] \in Nat
    <3>1. m - k + 1 \in 1 .. m
      OBVIOUS
    <3>2. bases[m - k + 1] \in Nat \ {0}
      BY <3>1
    <3> QED
      BY <3>2, QuotientIs
  <2> QED
    BY <2>1
<1>2. PICK g \in [0 .. m -> Nat] : Follows(g, step, m, number)
  <2> HIDE DEF step
  <2> QED
    BY <1>1, Recursion
<1> DEFINE turned == [k \in 0 .. m |-> g[m - k]]
<1>3. turned \in [0 .. m -> Nat] /\ turned[m] = number
  BY <1>2 DEF Follows
<1>4. \A k \in 0 .. m - 1 : turned[k] = turned[k + 1] \div bases[k + 1]
  <2> SUFFICES ASSUME NEW k \in 0 .. m - 1
               PROVE  turned[k] = turned[k + 1] \div bases[k + 1]
    OBVIOUS
  <2>1. PICK j \in 1 .. m : j = m - k
    OBVIOUS
  <2>2. j - 1 \in 0 .. m /\ j - 1 = m - (k + 1) /\ m - j + 1 = k + 1
    BY <2>1
  <2>3. g[j] = step[j][g[j - 1]] /\ g[j - 1] \in Nat
    <3> HIDE DEF step
    <3> QED
      BY <1>2, <2>2 DEF Follows
  <2>4. step[j][g[j - 1]] = g[j - 1] \div bases[k + 1]
    BY <2>2, <2>3
  <2> QED
    BY <2>1, <2>2, <2>3, <2>4
<1> HIDE DEF turned
<1>5. Len(bases) = m
  OBVIOUS
<1>6. Eq(turned)
  <2>1. turned = [k \in 0 .. m |-> turned[k]]
    BY <1>3
  <2>2. \A k \in 0 .. m : turned[k] = IF k = m THEN number ELSE turned[k + 1] \div bases[k + 1]
    BY <1>3, <1>4
  <2> QED
    BY <1>5, <2>1, <2>2
<1> DEFINE left == CHOOSE left : Eq(left)
<1>7. Eq(left)
  BY <1>6
<1>8. Digits(bases, number) = [k \in 1 .. m |-> left[k] % bases[k]]
  BY <1>5 DEF Digits
<1> HIDE DEF left
<1>9. DOMAIN left = 0 .. m /\ left = [k \in 0 .. m |-> left[k]] /\ left[m] = number
  BY <1>5, <1>7
<1>10. \A k \in 1 .. m : left[k - 1] = left[k] \div bases[k]
  <2> SUFFICES ASSUME NEW k \in 1 .. m
               PROVE  left[k - 1] = left[k] \div bases[k]
    OBVIOUS
  <2>1. k - 1 \in 0 .. m /\ k - 1 # m /\ (k - 1) + 1 = k
    OBVIOUS
  <2> HIDE DEF step
  <2> QED
    BY <1>5, <1>7, <2>1
<1> HIDE DEF step, Eq
<1>11. \A k \in 0 .. m : left[k] \in Nat
  <2> DEFINE Good == {k \in 0 .. m : left[k] \in Nat}
  <2>1. m \in Good
    BY <1>9
  <2>2. ASSUME NEW k \in 1 .. m, k \in Good
        PROVE  k - 1 \in Good
    <3>1. left[k] \in Nat /\ bases[k] \in Nat \ {0}
      BY <2>2
    <3>2. left[k] \div bases[k] \in Nat
      BY <3>1, QuotientIs
    <3> QED
      BY <1>10, <3>2
  <2>3. \A k \in 0 .. m : k \in Good
    <3> HIDE DEF Good
    <3> QED
      BY <2>1, <2>2, CountingDown
  <2> QED
    BY <2>3
<1>12. left \in [0 .. m -> Nat]
  BY <1>9, <1>11
<1> QED
  BY <1>8, <1>9, <1>10, <1>12 DEF Divides

\* Digits are read back from the number that they spell.
LEMMA DigitsOfNumeral ==
  ASSUME NEW m \in Nat, NEW bases \in [1 .. m -> Nat \ {0}], NEW digits \in [1 .. m -> Nat],
         \A k \in 1 .. m : digits[k] < bases[k]
  PROVE  Numeral(bases, digits) \in Nat /\ Digits(bases, Numeral(bases, digits)) = digits
<1>1. PICK n \in [0 .. m -> Nat] : Spells(n, bases, digits, m) /\ Numeral(bases, digits) = n[m]
  BY NumeralIs
<1>2. n[m] \in Nat
  OBVIOUS
<1>3. PICK left \in [0 .. m -> Nat] :
        Divides(left, bases, n[m], m) /\ Digits(bases, n[m]) = [k \in 1 .. m |-> left[k] % bases[k]]
  BY <1>2, DigitsIs
<1>4. ASSUME NEW k \in 1 .. m
      PROVE  n[k] \div bases[k] = n[k - 1] /\ n[k] % bases[k] = digits[k]
  <2>1. n[k - 1] \in Nat /\ bases[k] \in Nat \ {0} /\ digits[k] \in 0 .. bases[k] - 1
    OBVIOUS
  <2>2. n[k] = n[k - 1] * bases[k] + digits[k]
    BY <1>1 DEF Spells
  <2>3. /\ (n[k - 1] * bases[k] + digits[k]) \div bases[k] = n[k - 1]
        /\ (n[k - 1] * bases[k] + digits[k]) % bases[k] = digits[k]
    BY <2>1, QuotientUnique
  <2> QED
    BY <2>2, <2>3, Zenon
<1> DEFINE Good == {k \in 0 .. m : left[k] = n[k]}
<1>5. m \in Good
  BY <1>3 DEF Divides
<1>6. ASSUME NEW k \in 1 .. m, k \in Good
      PROVE  k - 1 \in Good
  <2>1. left[k - 1] = left[k] \div bases[k] /\ left[k] = n[k] /\ k - 1 \in 0 .. m
    BY <1>3, <1>6 DEF Divides
  <2> QED
    BY <1>4, <2>1
<1>7. \A k \in 0 .. m : k \in Good
  <2> HIDE DEF Good
  <2> QED
    BY <1>5, <1>6, CountingDown
<1>8. \A k \in 1 .. m : left[k] % bases[k] = digits[k]
  BY <1>4, <1>7
<1> QED
  BY <1>1, <1>2, <1>3, <1>8

\* The products of the first bases.
Products(product, bases, m) ==
  product[0] = 1 /\ \A k \in 1 .. m : product[k] = product[k - 1] * bases[k]

\* A number is spelt by its digits if there are enough of them.
LEMMA NumeralOfDigits ==
  ASSUME NEW m \in Nat, NEW bases \in [1 .. m -> Nat \ {0}],
         NEW product \in [0 .. m -> Nat], Products(product, bases, m), NEW number \in 0 .. product[m] - 1
  PROVE  /\ Digits(bases, number) \in [1 .. m -> Nat]
         /\ \A k \in 1 .. m : Digits(bases, number)[k] < bases[k]
         /\ Numeral(bases, Digits(bases, number)) = number
<1>0. number \in Nat /\ bases \in [1 .. m -> Nat]
  OBVIOUS
<1>1. PICK left \in [0 .. m -> Nat] :
        Divides(left, bases, number, m) /\ Digits(bases, number) = [k \in 1 .. m |-> left[k] % bases[k]]
  BY <1>0, DigitsIs
<1> DEFINE digits == [k \in 1 .. m |-> left[k] % bases[k]]
<1>2. ASSUME NEW k \in 1 .. m
      PROVE  /\ digits[k] \in 0 .. bases[k] - 1
             /\ left[k] = left[k - 1] * bases[k] + digits[k]
  <2>1. left[k] \in Nat /\ bases[k] \in Nat \ {0}
    OBVIOUS
  <2>2. left[k - 1] = left[k] \div bases[k]
    BY <1>1 DEF Divides
  <2>3. PICK q \in Nat, r \in 0 .. bases[k] - 1 :
          left[k] = q * bases[k] + r /\ left[k] \div bases[k] = q /\ left[k] % bases[k] = r
    BY <2>1, QuotientIs
  <2> QED
    BY <2>2, <2>3
<1>3. digits \in [1 .. m -> Nat] /\ DOMAIN digits = 1 .. m
  <2>1. \A k \in 1 .. m : digits[k] \in Nat
    BY <1>2
  <2> QED
    BY <2>1
<1> HIDE DEF digits
<1>4. PICK n \in [0 .. m -> Nat] : Spells(n, bases, digits, m) /\ Numeral(bases, digits) = n[m]
  BY <1>0, <1>3, NumeralIs
<1>5. left[0] = 0
  <2> DEFINE Good == {k \in 0 .. m : left[k] < product[k]}
  <2>1. m \in Good
    BY <1>1 DEF Divides
  <2>2. ASSUME NEW k \in 1 .. m, k \in Good
        PROVE  k - 1 \in Good
    <3>0. product[k] = product[k - 1] * bases[k] /\ left[k] < product[k]
      BY <2>2 DEF Products
    <3>1. /\ left[k] = left[k - 1] * bases[k] + digits[k] /\ product[k] = product[k - 1] * bases[k]
          /\ left[k] < product[k] /\ digits[k] \in Nat
      BY <1>2, <1>3, <3>0
    <3>2. left[k - 1] \in Nat /\ product[k - 1] \in Nat /\ bases[k] \in Nat \ {0} /\ k - 1 \in 0 .. m
      OBVIOUS
    <3>3. left[k - 1] < product[k - 1]
      <4> DEFINE a == left[k - 1]  p == product[k - 1]  b == bases[k]  d == digits[k]
      <4> HIDE DEF a, p, b, d
      <4>1. a \in Nat /\ p \in Nat /\ b \in Nat /\ d \in Nat /\ a * b + d < p * b
        BY <3>1, <3>2 DEF a, b, p, d
      <4>2. ~ (a >= p)
        <5> SUFFICES ASSUME a >= p
                     PROVE  FALSE
          OBVIOUS
        <5>1. a * b >= p * b
          BY <4>1, Z3
        <5>2. PICK x \in Int, y \in Int : x = a * b /\ y = p * b
          BY <4>1
        <5>3. x >= y
          BY <5>1, <5>2
        <5>4. x + d < y
          BY <4>1, <5>2
        <5> QED
          BY <4>1, <5>3, <5>4
      <4> QED
        BY <3>2, <4>2 DEF a, p
    <3> QED
      BY <3>2, <3>3
  <2>3. \A k \in 0 .. m : k \in Good
    <3> HIDE DEF Good
    <3> QED
      BY <2>1, <2>2, CountingDown
  <2>4. left[0] < product[0] /\ product[0] = 1 /\ left[0] \in Nat
    <3>1. 0 \in Good
      BY <2>3
    <3> QED
      BY <3>1 DEF Products
  <2> QED
    BY <2>4
<1> DEFINE Same == {k \in 0 .. m : n[k] = left[k]}
<1>6. 0 \in Same
  BY <1>4, <1>5 DEF Spells
<1>7. ASSUME NEW k \in 1 .. m, k - 1 \in Same
      PROVE  k \in Same
  <2>1. n[k] = n[k - 1] * bases[k] + digits[k]
    BY <1>4 DEF Spells
  <2> QED
    BY <1>2, <1>7, <2>1
<1>8. \A k \in 0 .. m : k \in Same
  <2> HIDE DEF Same
  <2> QED
    BY <1>6, <1>7, CountingUp
<1>9. n[m] = left[m] /\ left[m] = number
  BY <1>1, <1>8 DEF Divides
<1>10. Digits(bases, number) = digits
  BY <1>1 DEF digits
<1>11. \A k \in 1 .. m : digits[k] < bases[k]
  <2> SUFFICES ASSUME NEW k \in 1 .. m
               PROVE  digits[k] < bases[k]
    OBVIOUS
  <2>1. digits[k] \in 0 .. bases[k] - 1 /\ bases[k] \in Nat
    BY <1>2
  <2> QED
    BY <2>1
<1> QED
  BY <1>3, <1>4, <1>9, <1>10, <1>11

\* Bits are read back from their number.
LEMMA BitsOfNumber ==
  ASSUME NEW bits \in Seq({0, 1})
  PROVE  Number(bits) \in Nat /\ Bits(Number(bits), Len(bits)) = bits
<1> DEFINE m == Len(bits)
<1>1. m \in Nat /\ bits \in [1 .. m -> {0, 1}]
  BY LenProperties
<1> HIDE DEF m
<1>2. Twos(m) \in [1 .. m -> Nat \ {0}] /\ bits \in [1 .. m -> Nat] /\ \A k \in 1 .. m : bits[k] < Twos(m)[k]
  BY <1>1 DEF Twos
<1>3. Numeral(Twos(m), bits) \in Nat /\ Digits(Twos(m), Numeral(Twos(m), bits)) = bits
  BY <1>1, <1>2, DigitsOfNumeral
<1> QED
  BY <1>3 DEF Number, Bits, m

-----------------------------------------------------------------------------
\* What a part of two joined sequences is.
LEMMA PartOfLeft ==
  ASSUME NEW S, NEW s \in Seq(S), NEW t \in Seq(S), NEW m \in Int, NEW n \in Int, 1 <= m, n <= Len(s)
  PROVE  SubSeq(s \o t, m, n) = SubSeq(s, m, n)
<1>1. CASE n < m
  BY <1>1, SubSeqEmpty
<1>2. CASE m <= n
  <2>1. m \in 1 .. Len(s) /\ n \in 1 .. Len(s)
    BY <1>2, LenProperties
  <2> QED
    BY <2>1, SubSeqOfConcat1
<1> QED
  BY <1>1, <1>2

\* A part of the right of two sequences joined.
LEMMA PartOfRight ==
  ASSUME NEW S, NEW s \in Seq(S), NEW t \in Seq(S), NEW m \in Int, NEW n \in Int,
         Len(s) < m, n <= Len(s) + Len(t)
  PROVE  SubSeq(s \o t, m, n) = SubSeq(t, m - Len(s), n - Len(s))
<1>0. Len(s) \in Nat /\ Len(t) \in Nat
  BY LenProperties
<1>1. CASE n < m
  <2>1. SubSeq(s \o t, m, n) = <<>>
    BY <1>1, SubSeqEmpty
  <2>2. m - Len(s) \in Int /\ n - Len(s) \in Int /\ n - Len(s) < m - Len(s)
    BY <1>0, <1>1
  <2> QED
    BY <2>1, <2>2, SubSeqEmpty
<1>2. CASE m <= n
  <2>1. m \in Len(s) + 1 .. Len(s) + Len(t) /\ n \in Len(s) + 1 .. Len(s) + Len(t)
    BY <1>0, <1>2
  <2> QED
    BY <2>1, SubSeqOfConcat2
<1> QED
  BY <1>1, <1>2

\* The sequences that the first so many make together.
Joins(f, seqs, n) == f[0] = <<>> /\ \A k \in 1 .. n : f[k] = f[k - 1] \o seqs[k]

\* Sequences are joined one after the other.
LEMMA FlattenIs ==
  ASSUME NEW S, NEW n \in Nat, NEW seqs \in [1 .. n -> Seq(S)]
  PROVE  \E f \in [0 .. n -> Seq(S)] : Joins(f, seqs, n) /\ FlattenSeq(seqs) = f[n]
<1> DEFINE step == [k \in 1 .. n |-> [x \in Seq(S) |-> x \o seqs[k]]]
           Eq(f) == f = [i \in 1 .. Len(seqs) |-> IF i = 1 THEN seqs[i] ELSE f[i - 1] \o seqs[i]]
<1>1. step \in [1 .. n -> [Seq(S) -> Seq(S)]]
  <2>1. ASSUME NEW x \in Seq(S), NEW k \in 1 .. n
        PROVE  x \o seqs[k] \in Seq(S)
    <3>1. seqs[k] \in Seq(S)
      OBVIOUS
    <3> QED
      BY <3>1, ConcatProperties
  <2> QED
    BY <2>1
<1>2. <<>> \in Seq(S)
  OBVIOUS
<1>3. PICK g \in [0 .. n -> Seq(S)] : Follows(g, step, n, <<>>)
  <2> HIDE DEF step
  <2> QED
    BY <1>1, <1>2, Recursion
<1>4. Joins(g, seqs, n)
  <2>1. \A k \in 1 .. n : k - 1 \in 0 .. n /\ g[k - 1] \in Seq(S)
    OBVIOUS
  <2>2. \A k \in 1 .. n : step[k][g[k - 1]] = g[k - 1] \o seqs[k]
    BY <2>1
  <2> HIDE DEF step
  <2> QED
    BY <1>3, <2>2 DEF Follows, Joins
<1>5. Len(seqs) = n
  OBVIOUS
<1> HIDE DEF step
<1>6. CASE n = 0
  <2>1. seqs = <<>> /\ FlattenSeq(seqs) = seqs
    BY <1>5, <1>6 DEF FlattenSeq
  <2> QED
    BY <1>4, <1>6, <2>1 DEF Joins
<1>7. CASE n # 0
  <2> DEFINE h == [i \in 1 .. n |-> g[i]]
  <2>1. Eq(h)
    <3>1. ASSUME NEW i \in 1 .. n
          PROVE  h[i] = IF i = 1 THEN seqs[i] ELSE h[i - 1] \o seqs[i]
      <4>1. g[i] = g[i - 1] \o seqs[i]
        BY <1>4 DEF Joins
      <4>2. CASE i = 1
        <5>1. g[i - 1] = <<>> /\ seqs[i] \in Seq(S)
          BY <1>4, <4>2 DEF Joins
        <5> QED
          BY <4>1, <4>2, <5>1, ConcatEmptySeq
      <4>3. CASE i # 1
        <5>1. i - 1 \in 1 .. n
          BY <4>3
        <5> QED
          BY <4>1, <4>3, <5>1
      <4> QED
        BY <4>2, <4>3
    <3>2. h = [i \in 1 .. n |-> h[i]]
      OBVIOUS
    <3> HIDE DEF h
    <3> QED
      BY <1>5, <3>1, <3>2
  <2> HIDE DEF h
  <2> DEFINE f == CHOOSE f : Eq(f)
  <2>2. Eq(f)
    BY <2>1
  <2>3. FlattenSeq(seqs) = f[n]
    BY <1>5, <1>7 DEF FlattenSeq
  <2> HIDE DEF f
  <2>4. f = [i \in 1 .. n |-> IF i = 1 THEN seqs[i] ELSE f[i - 1] \o seqs[i]]
    BY <1>5, <2>2
  <2> HIDE DEF Eq
  <2> DEFINE Good == {k \in 0 .. n : k # 0 => f[k] = g[k]}
  <2>5. 0 \in Good
    OBVIOUS
  <2>6. ASSUME NEW k \in 1 .. n, k - 1 \in Good
        PROVE  k \in Good
    <3>1. g[k] = g[k - 1] \o seqs[k] /\ f[k] = IF k = 1 THEN seqs[k] ELSE f[k - 1] \o seqs[k]
      BY <1>4, <2>4 DEF Joins
    <3>2. CASE k = 1
      <4>1. g[k - 1] = <<>> /\ seqs[k] \in Seq(S)
        BY <1>4, <3>2 DEF Joins
      <4>2. g[k] = seqs[k]
        BY <3>1, <4>1, ConcatEmptySeq
      <4> QED
        BY <3>1, <3>2, <4>2
    <3>3. CASE k # 1
      <4>1. f[k - 1] = g[k - 1]
        BY <2>6, <3>3
      <4>2. f[k] = f[k - 1] \o seqs[k]
        BY <3>1, <3>3
      <4>3. f[k] = g[k]
        BY <3>1, <4>1, <4>2
      <4> QED
        BY <4>3
    <3> QED
      BY <3>2, <3>3
  <2>7. \A k \in 0 .. n : k \in Good
    <3> HIDE DEF Good
    <3> QED
      BY <2>5, <2>6, CountingUp
  <2>8. f[n] = g[n]
    <3>1. n \in Good
      BY <2>7
    <3> QED
      BY <1>7, <3>1
  <2> QED
    BY <1>4, <2>3, <2>8
<1> QED
  BY <1>6, <1>7

\* Parts of one length are found in what they make together.
PartsIn(whole, parts, n, w) == \A k \in 1 .. n : SubSeq(whole, (k - 1) * w + 1, k * w) = parts[k]

\* Sequences of one length, joined, are found at the multiples of that length.
LEMMA FlattenEqual ==
  ASSUME NEW S, NEW n \in Nat, NEW w \in Nat, NEW seqs \in [1 .. n -> Seq(S)], \A k \in 1 .. n : Len(seqs[k]) = w
  PROVE  /\ FlattenSeq(seqs) \in Seq(S) /\ Len(FlattenSeq(seqs)) = n * w
         /\ PartsIn(FlattenSeq(seqs), seqs, n, w)
<1>1. PICK f \in [0 .. n -> Seq(S)] : Joins(f, seqs, n) /\ FlattenSeq(seqs) = f[n]
  BY FlattenIs
<1> DEFINE Good == {j \in 0 .. n : /\ Len(f[j]) = j * w
                                   /\ \A k \in 1 .. j : SubSeq(f[j], (k - 1) * w + 1, k * w) = seqs[k]}
<1>2. 0 \in Good
  BY <1>1 DEF Joins
<1>3. ASSUME NEW j \in 1 .. n, j - 1 \in Good
      PROVE  j \in Good
  <2>0. f[j - 1] \in Seq(S) /\ seqs[j] \in Seq(S) /\ Len(seqs[j]) = w
    <3>1. j - 1 \in 0 .. n
      OBVIOUS
    <3> QED
      BY <3>1
  <2>1. f[j] = f[j - 1] \o seqs[j] /\ f[j - 1] \in Seq(S) /\ seqs[j] \in Seq(S) /\ Len(seqs[j]) = w
    BY <1>1, <2>0 DEF Joins
  <2>2. Len(f[j - 1]) = (j - 1) * w
    BY <1>3
  <2>3. (j - 1) * w + w = j * w /\ (j - 1) * w \in Int /\ j * w \in Int
    BY Z3
  <2>4. Len(f[j]) = j * w
    <3>1. Len(f[j]) = Len(f[j - 1]) + Len(seqs[j])
      BY <2>1, ConcatProperties
    <3> QED
      BY <2>1, <2>2, <2>3, <3>1
  <2>5. ASSUME NEW k \in 1 .. j
        PROVE  SubSeq(f[j], (k - 1) * w + 1, k * w) = seqs[k]
    <3>0. k \in Nat /\ k - 1 \in Nat
      OBVIOUS
    <3>1. (k - 1) * w + 1 \in Int /\ k * w \in Int /\ 1 <= (k - 1) * w + 1
      <4>1. (k - 1) * w \in Nat /\ k * w \in Nat
        BY <3>0, ProductOfNaturals
      <4> QED
        BY <4>1
    <3>2. CASE k = j
      <4>0. PICK x \in Seq(S), y \in Seq(S), a \in Int, b \in Int :
              x = f[j - 1] /\ y = seqs[j] /\ a = (j - 1) * w + 1 /\ b = j * w
        BY <2>0, <3>1, <3>2
      <4>1. SubSeq(x \o y, a, b) = SubSeq(y, a - Len(x), b - Len(x))
        <5>1. Len(x) < a /\ b <= Len(x) + Len(y)
          BY <2>1, <2>2, <2>3, <4>0
        <5> HIDE DEF Good
        <5> QED
          BY <5>1, PartOfRight
      <4>2. a - Len(x) = 1 /\ b - Len(x) = w
        <5>1. PICK c \in Int : c = (j - 1) * w
          BY <2>3
        <5>2. Len(x) = c /\ a = c + 1 /\ b = c + w
          BY <2>2, <2>3, <4>0, <5>1
        <5> QED
          BY <5>2
      <4>3. SubSeq(seqs[j], 1, w) = seqs[j]
        BY <2>1, SubSeqFull
      <4> QED
        BY <2>1, <3>2, <4>0, <4>1, <4>2, <4>3
    <3>3. CASE k # j
      <4>1. k \in 1 .. j - 1 /\ k <= j - 1
        BY <3>3
      <4>2. SubSeq(f[j - 1], (k - 1) * w + 1, k * w) = seqs[k]
        BY <1>3, <4>1
      <4>3. k * w <= (j - 1) * w
        BY <4>1, Z3
      <4>4. SubSeq(f[j - 1] \o seqs[j], (k - 1) * w + 1, k * w) = SubSeq(f[j - 1], (k - 1) * w + 1, k * w)
        <5>1. k * w <= Len(f[j - 1])
          BY <2>2, <4>3
        <5> QED
          BY <2>1, <3>1, <5>1, PartOfLeft
      <4> QED
        BY <2>1, <4>2, <4>4
    <3> QED
      BY <3>2, <3>3
  <2> QED
    BY <2>4, <2>5
<1>4. \A j \in 0 .. n : j \in Good
  <2> HIDE DEF Good
  <2> QED
    BY <1>2, <1>3, CountingUp
<1>5. n \in 0 .. n
  OBVIOUS
<1>6. PartsIn(f[n], seqs, n, w)
  BY <1>4, <1>5 DEF PartsIn
<1> QED
  BY <1>1, <1>4, <1>5, <1>6

-----------------------------------------------------------------------------
\* What a code consists of, and how codes of one length are combined.
LEMMA CodeParted ==
  ASSUME NEW S, NEW code \in Seq(S), NEW sizeBits \in 0 .. Len(code)
  PROVE  /\ SubSeq(code, 1, sizeBits) \in Seq(S) /\ Len(SubSeq(code, 1, sizeBits)) = sizeBits
         /\ SubSeq(code, sizeBits + 1, Len(code)) \in Seq(S)
         /\ Len(SubSeq(code, sizeBits + 1, Len(code))) = Len(code) - sizeBits
         /\ SubSeq(code, 1, sizeBits) \o SubSeq(code, sizeBits + 1, Len(code)) = code
<1>1. Len(code) \in Nat /\ \A i \in 1 .. Len(code) : code[i] \in S
  BY LenProperties
<1>2. SubSeq(code, 1, sizeBits) \in Seq(S) /\ Len(SubSeq(code, 1, sizeBits)) = sizeBits
  <2>1. \A i \in 1 .. sizeBits : code[i] \in S
    BY <1>1
  <2>2. /\ SubSeq(code, 1, sizeBits) \in Seq(S)
        /\ Len(SubSeq(code, 1, sizeBits)) = IF 1 <= sizeBits THEN sizeBits - 1 + 1 ELSE 0
    BY <2>1, SubSeqProperties
  <2> QED
    BY <2>2
<1>3. /\ SubSeq(code, sizeBits + 1, Len(code)) \in Seq(S)
      /\ Len(SubSeq(code, sizeBits + 1, Len(code))) = Len(code) - sizeBits
  <2>1. PICK m \in Int, n \in Int : m = sizeBits + 1 /\ n = Len(code)
    BY <1>1
  <2>2. \A i \in m .. n : code[i] \in S
    BY <1>1, <2>1
  <2>3. SubSeq(code, m, n) \in Seq(S) /\ Len(SubSeq(code, m, n)) = IF m <= n THEN n - m + 1 ELSE 0
    BY <2>2, SubSeqProperties
  <2> QED
    BY <1>1, <2>1, <2>3
<1>4. SubSeq(code, 1, sizeBits) \o SubSeq(code, sizeBits + 1, Len(code)) = SubSeq(code, 1, Len(code))
  <2>1. 1 \in 1 .. Len(code) + 1 /\ sizeBits \in 1 - 1 .. Len(code) /\ Len(code) \in sizeBits .. Len(code)
    BY <1>1
  <2> QED
    BY <2>1, ConcatAdjacentSubSeq
<1> QED
  BY <1>2, <1>3, <1>4, SubSeqFull

\* Codes of one length, each with so many bits for the size.
Alike(S, codes, n, len, sizeBits) ==
  /\ n \in Nat /\ len \in Nat /\ sizeBits \in 0 .. len
  /\ codes \in [1 .. n -> Seq(S)]
  /\ \A k \in 1 .. n : Len(codes[k]) = len

Sizes(codes, sizeBits) == [k \in DOMAIN codes |-> SubSeq(codes[k], 1, sizeBits)]
Rests(codes, sizeBits) == [k \in DOMAIN codes |-> SubSeq(codes[k], sizeBits + 1, Len(codes[k]))]

\* The size bits of codes, joined.
LEMMA SizesAre ==
  ASSUME NEW S, NEW n, NEW len, NEW sizeBits, NEW codes, Alike(S, codes, n, len, sizeBits)
  PROVE  /\ FlattenSeq(Sizes(codes, sizeBits)) \in Seq(S)
         /\ Len(FlattenSeq(Sizes(codes, sizeBits))) = n * sizeBits
         /\ PartsIn(FlattenSeq(Sizes(codes, sizeBits)), Sizes(codes, sizeBits), n, sizeBits)
<1> DEFINE parts == Sizes(codes, sizeBits)
<1>1. n \in Nat /\ sizeBits \in Nat /\ DOMAIN codes = 1 .. n
  BY DEF Alike
<1>2. DOMAIN parts = 1 .. n /\ \A k \in 1 .. n : parts[k] = SubSeq(codes[k], 1, sizeBits)
  BY <1>1 DEF Sizes
<1>3. ASSUME NEW k \in 1 .. n
      PROVE  parts[k] \in Seq(S) /\ Len(parts[k]) = sizeBits
  <2>1. codes[k] \in Seq(S) /\ sizeBits \in 0 .. Len(codes[k])
    BY DEF Alike
  <2>2. SubSeq(codes[k], 1, sizeBits) \in Seq(S) /\ Len(SubSeq(codes[k], 1, sizeBits)) = sizeBits
    BY <2>1, CodeParted
  <2> HIDE DEF parts
  <2> QED
    BY <1>2, <2>2
<1>4. parts = [k \in 1 .. n |-> parts[k]]
  BY <1>1 DEF Sizes
<1> HIDE DEF parts
<1>5. parts \in [1 .. n -> Seq(S)]
  BY <1>3, <1>4
<1>6. /\ FlattenSeq(parts) \in Seq(S) /\ Len(FlattenSeq(parts)) = n * sizeBits
      /\ PartsIn(FlattenSeq(parts), parts, n, sizeBits)
  BY <1>1, <1>3, <1>5, FlattenEqual
<1> QED
  BY <1>6 DEF parts

\* The other bits of codes, joined.
LEMMA RestsAre ==
  ASSUME NEW S, NEW n, NEW w \in Nat, NEW sizeBits, NEW codes, Alike(S, codes, n, sizeBits + w, sizeBits)
  PROVE  /\ FlattenSeq(Rests(codes, sizeBits)) \in Seq(S)
         /\ Len(FlattenSeq(Rests(codes, sizeBits))) = n * w
         /\ PartsIn(FlattenSeq(Rests(codes, sizeBits)), Rests(codes, sizeBits), n, w)
<1> DEFINE parts == Rests(codes, sizeBits)
<1>1. n \in Nat /\ sizeBits \in Nat /\ DOMAIN codes = 1 .. n
  BY DEF Alike
<1>2. DOMAIN parts = 1 .. n /\ \A k \in 1 .. n : parts[k] = SubSeq(codes[k], sizeBits + 1, Len(codes[k]))
  BY <1>1 DEF Rests
<1>3. ASSUME NEW k \in 1 .. n
      PROVE  parts[k] \in Seq(S) /\ Len(parts[k]) = w
  <2>1. codes[k] \in Seq(S) /\ sizeBits \in 0 .. Len(codes[k]) /\ Len(codes[k]) - sizeBits = w
    BY <1>1 DEF Alike
  <2>2. /\ SubSeq(codes[k], sizeBits + 1, Len(codes[k])) \in Seq(S)
        /\ Len(SubSeq(codes[k], sizeBits + 1, Len(codes[k]))) = Len(codes[k]) - sizeBits
    BY <2>1, CodeParted
  <2> HIDE DEF parts
  <2> QED
    BY <1>2, <2>1, <2>2
<1>4. parts = [k \in 1 .. n |-> parts[k]]
  BY <1>1 DEF Rests
<1> HIDE DEF parts
<1>5. parts \in [1 .. n -> Seq(S)]
  BY <1>3, <1>4
<1>6. /\ FlattenSeq(parts) \in Seq(S) /\ Len(FlattenSeq(parts)) = n * w
      /\ PartsIn(FlattenSeq(parts), parts, n, w)
  BY <1>1, <1>3, <1>5, FlattenEqual
<1> QED
  BY <1>6 DEF parts

\* How long the codes are without the bits for the size.
LEMMA CodesParted ==
  ASSUME NEW S, NEW n, NEW len, NEW sizeBits, NEW codes, Alike(S, codes, n, len, sizeBits)
  PROVE  \E w \in Nat : len = sizeBits + w /\ w = len - sizeBits /\ Alike(S, codes, n, sizeBits + w, sizeBits)
<1>1. len \in Nat /\ sizeBits \in 0 .. len
  BY DEF Alike
<1>2. PICK w \in Nat : len = sizeBits + w /\ w = len - sizeBits
  <2>1. len - sizeBits \in Nat /\ len = sizeBits + (len - sizeBits)
    BY <1>1
  <2> QED
    BY <2>1
<1>3. Alike(S, codes, n, sizeBits + w, sizeBits)
  BY <1>2, Zenon
<1> QED
  BY <1>2, <1>3

\* Combined codes are their sizes, then their other bits.
LEMMA CombineIs ==
  ASSUME NEW S, NEW n, NEW len, NEW sizeBits, NEW codes, Alike(S, codes, n, len, sizeBits)
  PROVE  /\ Combine(codes, sizeBits) = FlattenSeq(Sizes(codes, sizeBits)) \o FlattenSeq(Rests(codes, sizeBits))
         /\ Combine(codes, sizeBits) \in Seq(S) /\ Len(Combine(codes, sizeBits)) = n * len
<1>0. PICK w \in Nat : len = sizeBits + w /\ w = len - sizeBits /\ Alike(S, codes, n, sizeBits + w, sizeBits)
  BY CodesParted
<1> DEFINE a == FlattenSeq(Sizes(codes, sizeBits))
           b == FlattenSeq(Rests(codes, sizeBits))
<1>1. Combine(codes, sizeBits) = a \o b
  BY DEF Combine, Sizes, Rests
<1>2. a \in Seq(S) /\ Len(a) = n * sizeBits
  BY SizesAre
<1>3. b \in Seq(S) /\ Len(b) = n * w
  BY <1>0, RestsAre
<1> HIDE DEF a, b
<1>4. n * sizeBits + n * w = n * len
  <2>1. n \in Int /\ len \in Int /\ sizeBits \in Int
    BY DEF Alike
  <2> QED
    BY <1>0, <2>1, Z3
<1>5. a \o b \in Seq(S) /\ Len(a \o b) = Len(a) + Len(b)
  BY <1>2, <1>3, ConcatProperties
<1>6. Len(a \o b) = n * len
  BY <1>2, <1>3, <1>4, <1>5
<1> QED
  BY <1>1, <1>5, <1>6 DEF a, b

\* What has been combined is parted into what it was.
LEMMA SplitOfCombine ==
  ASSUME NEW S, NEW n \in Nat \ {0}, NEW len, NEW sizeBits, NEW codes, Alike(S, codes, n, len, sizeBits)
  PROVE  Split(Combine(codes, sizeBits), n, sizeBits) = codes
<1>1. n \in Nat /\ len \in Nat /\ sizeBits \in 0 .. len /\ sizeBits \in Nat /\ DOMAIN codes = 1 .. n
  BY DEF Alike
<1>0. PICK w \in Nat : len = sizeBits + w /\ w = len - sizeBits /\ Alike(S, codes, n, sizeBits + w, sizeBits)
  BY CodesParted
<1> DEFINE a == FlattenSeq(Sizes(codes, sizeBits))
           b == FlattenSeq(Rests(codes, sizeBits))
           bits == Combine(codes, sizeBits)
<1>2. a \in Seq(S) /\ Len(a) = n * sizeBits /\ PartsIn(a, Sizes(codes, sizeBits), n, sizeBits)
  BY SizesAre
<1>3. b \in Seq(S) /\ Len(b) = n * w /\ PartsIn(b, Rests(codes, sizeBits), n, w)
  <2>1. /\ FlattenSeq(Rests(codes, sizeBits)) \in Seq(S)
        /\ Len(FlattenSeq(Rests(codes, sizeBits))) = n * w
        /\ PartsIn(FlattenSeq(Rests(codes, sizeBits)), Rests(codes, sizeBits), n, w)
    BY <1>0, RestsAre, Zenon
  <2> QED
    BY <2>1
<1>4. bits = a \o b /\ Len(bits) = n * len
  BY CombineIs
<1> HIDE DEF a, b, bits
<1>5. Len(bits) \div n = len
  <2>1. len * n + 0 = n * len /\ 0 \in 0 .. n - 1
    BY <1>1
  <2>2. (len * n + 0) \div n = len
    BY <1>1, <2>1, QuotientUnique
  <2> QED
    BY <1>4, <2>1, <2>2
<1>6. ASSUME NEW k \in 1 .. n
      PROVE  /\ SubSeq(bits, (k - 1) * sizeBits + 1, k * sizeBits) = SubSeq(codes[k], 1, sizeBits)
             /\ SubSeq(bits, n * sizeBits + (k - 1) * w + 1, n * sizeBits + k * w)
                  = SubSeq(codes[k], sizeBits + 1, Len(codes[k]))
  <2>0. k - 1 \in Nat /\ k \in Nat
    OBVIOUS
  <2>1. PICK x \in Nat, y \in Nat : x = (k - 1) * sizeBits /\ y = k * sizeBits
    BY <1>1, <2>0, ProductOfNaturals
  <2>2. PICK u \in Nat, v \in Nat : u = (k - 1) * w /\ v = k * w
    BY <1>1, <2>0, ProductOfNaturals
  <2>3. PICK p \in Nat, r \in Nat : p = n * sizeBits /\ r = n * w
    BY <1>1, ProductOfNaturals
  <2>4. y <= p
    <3>1. k * sizeBits <= n * sizeBits
      BY <1>1, Z3
    <3> QED
      BY <2>1, <2>3, <3>1
  <2>5. v <= r
    <3>1. k * w <= n * w
      BY <1>1, Z3
    <3> QED
      BY <2>2, <2>3, <3>1
  <2>6. Len(a) = p /\ Len(b) = r
    BY <1>2, <1>3, <2>3
  <2>7. SubSeq(a \o b, x + 1, y) = SubSeq(a, x + 1, y)
    BY <1>2, <1>3, <2>4, <2>6, PartOfLeft
  <2>8. SubSeq(a \o b, p + u + 1, p + v) = SubSeq(b, u + 1, v)
    <3>1. PICK i \in Int, j \in Int : i = p + u + 1 /\ j = p + v
      OBVIOUS
    <3>2. Len(a) < i /\ j <= Len(a) + Len(b)
      BY <2>5, <2>6, <3>1
    <3>3. SubSeq(a \o b, i, j) = SubSeq(b, i - Len(a), j - Len(a))
      BY <1>2, <1>3, <3>2, PartOfRight
    <3>4. i - Len(a) = u + 1 /\ j - Len(a) = v
      BY <2>6, <3>1
    <3> QED
      BY <3>1, <3>3, <3>4
  <2>9. SubSeq(a, x + 1, y) = SubSeq(codes[k], 1, sizeBits)
    <3>1. SubSeq(a, (k - 1) * sizeBits + 1, k * sizeBits) = Sizes(codes, sizeBits)[k]
      BY <1>2 DEF PartsIn
    <3> QED
      BY <1>1, <2>1, <3>1 DEF Sizes
  <2>10. SubSeq(b, u + 1, v) = SubSeq(codes[k], sizeBits + 1, Len(codes[k]))
    <3>1. SubSeq(b, (k - 1) * w + 1, k * w) = Rests(codes, sizeBits)[k]
      BY <1>3 DEF PartsIn
    <3> QED
      BY <1>1, <2>2, <3>1 DEF Rests
  <2>11. SubSeq(bits, x + 1, y) = SubSeq(codes[k], 1, sizeBits)
    BY <1>4, <2>7, <2>9
  <2>12. SubSeq(bits, p + u + 1, p + v) = SubSeq(codes[k], sizeBits + 1, Len(codes[k]))
    BY <1>4, <2>8, <2>10
  <2> QED
    BY <2>1, <2>2, <2>3, <2>11, <2>12
<1>7. ASSUME NEW k \in 1 .. n
      PROVE  SubSeq(codes[k], 1, sizeBits) \o SubSeq(codes[k], sizeBits + 1, Len(codes[k])) = codes[k]
  <2>1. codes[k] \in Seq(S) /\ sizeBits \in 0 .. Len(codes[k])
    BY DEF Alike
  <2> QED
    BY <2>1, CodeParted
<1>8. Split(bits, n, sizeBits) =
        [k \in 1 .. n |-> SubSeq(bits, (k - 1) * sizeBits + 1, k * sizeBits)
                            \o SubSeq(bits, n * sizeBits + (k - 1) * w + 1, n * sizeBits + k * w)]
  BY <1>5, <1>0, Zenon DEF Split
<1>9. codes = [k \in 1 .. n |-> codes[k]]
  BY DEF Alike
<1>10. Split(bits, n, sizeBits) = [k \in 1 .. n |-> codes[k]]
  BY <1>6, <1>7, <1>8, Zenon
<1> QED
  BY <1>9, <1>10 DEF bits

-----------------------------------------------------------------------------
\* Where the levels end.
AddsUp(end, widths, m) == end[0] = 0 /\ \A k \in 1 .. m : end[k] = end[k - 1] + widths[k]

\* The ends of levels ascend.
LEMMA EndsAre ==
  ASSUME NEW m \in Nat, NEW widths \in [1 .. m -> Nat \ {0}]
  PROVE  /\ Ends(widths) \in [0 .. m -> Nat] /\ AddsUp(Ends(widths), widths, m)
         /\ \A j, k \in 0 .. m : j < k => Ends(widths)[j] < Ends(widths)[k]
<1> DEFINE step == [k \in 1 .. m |-> [x \in Nat |-> x + widths[k]]]
           Eq(f) == f = [k \in 0 .. Len(widths) |-> IF k = 0 THEN 0 ELSE f[k - 1] + widths[k]]
<1>1. step \in [1 .. m -> [Nat -> Nat]]
  OBVIOUS
<1>2. PICK g \in [0 .. m -> Nat] : Follows(g, step, m, 0)
  <2> HIDE DEF step
  <2> QED
    BY <1>1, Recursion
<1>3. AddsUp(g, widths, m)
  <2>1. \A k \in 1 .. m : k - 1 \in 0 .. m /\ g[k - 1] \in Nat
    OBVIOUS
  <2>2. \A k \in 1 .. m : step[k][g[k - 1]] = g[k - 1] + widths[k]
    BY <2>1
  <2> HIDE DEF step
  <2> QED
    BY <1>2, <2>2 DEF Follows, AddsUp
<1>4. Len(widths) = m
  OBVIOUS
<1>5. Eq(g)
  <2>1. g = [k \in 0 .. m |-> g[k]]
    OBVIOUS
  <2>2. \A k \in 0 .. m : g[k] = IF k = 0 THEN 0 ELSE g[k - 1] + widths[k]
    BY <1>3 DEF AddsUp
  <2> HIDE DEF step
  <2> QED
    BY <1>4, <2>1, <2>2
<1> DEFINE end == CHOOSE end : Eq(end)
<1>6. Eq(end)
  BY <1>5
<1>7. Ends(widths) = end
  BY DEF Ends
<1> HIDE DEF end, step
<1>8. DOMAIN end = 0 .. m /\ end = [k \in 0 .. m |-> end[k]] /\ end[0] = 0
      /\ \A k \in 1 .. m : end[k] = end[k - 1] + widths[k]
  BY <1>4, <1>6
<1> HIDE DEF Eq
<1>9. \A k \in 0 .. m : end[k] \in Nat
  <2> DEFINE Good == {k \in 0 .. m : end[k] \in Nat}
  <2>1. 0 \in Good
    BY <1>8
  <2>2. ASSUME NEW k \in 1 .. m, k - 1 \in Good
        PROVE  k \in Good
    <3>1. end[k - 1] \in Nat /\ widths[k] \in Nat /\ end[k] = end[k - 1] + widths[k]
      BY <1>8, <2>2
    <3> QED
      BY <3>1
  <2>3. \A k \in 0 .. m : k \in Good
    <3> HIDE DEF Good
    <3> QED
      BY <2>1, <2>2, CountingUp
  <2> QED
    BY <2>3
<1>10. end \in [0 .. m -> Nat]
  BY <1>8, <1>9
<1>11. AddsUp(end, widths, m)
  BY <1>8 DEF AddsUp
<1>12. ASSUME NEW k \in 0 .. m, NEW j \in 0 .. m, j < k
       PROVE  end[j] < end[k]
  <2> DEFINE Good == {i \in 0 .. m : j < i => end[j] < end[i]}
  <2>1. 0 \in Good
    OBVIOUS
  <2>2. ASSUME NEW i \in 1 .. m, i - 1 \in Good
        PROVE  i \in Good
    <3>0. i - 1 \in 0 .. m
      OBVIOUS
    <3>1. /\ end[i - 1] \in Nat /\ end[j] \in Nat /\ widths[i] \in Nat \ {0}
          /\ end[i] = end[i - 1] + widths[i]
      BY <1>8, <1>9, <3>0
    <3>2. CASE j < i - 1
      BY <2>2, <3>1, <3>2
    <3>3. CASE j = i - 1
      <4>1. end[j] = end[i - 1]
        BY <3>3
      <4> QED
        BY <3>1, <4>1
    <3>4. CASE j > i - 1
      BY <3>4
    <3> QED
      BY <3>2, <3>3, <3>4
  <2>3. \A i \in 0 .. m : i \in Good
    <3> HIDE DEF Good
    <3> QED
      BY <2>1, <2>2, CountingUp
  <2>4. k \in Good
    BY <2>3
  <2> QED
    BY <1>12, <2>4
<1> QED
  BY <1>7, <1>10, <1>11, <1>12

\* The bits that a level takes.
Taken(bits, widths, k) == SubSeq(bits, Ends(widths)[k - 1] + 1, Ends(widths)[k])

\* A level takes as many bits as it is wide.
LEMMA TakenIs ==
  ASSUME NEW bits \in Seq({0, 1}), NEW m \in Nat, NEW widths \in [1 .. m -> Nat \ {0}], NEW n \in 0 .. m,
         Ends(widths)[n] = Len(bits), NEW k \in 1 .. n
  PROVE  Taken(bits, widths, k) \in Seq({0, 1}) /\ Len(Taken(bits, widths, k)) = widths[k]
<1> DEFINE end == Ends(widths)
<1>1. /\ end \in [0 .. m -> Nat] /\ AddsUp(end, widths, m)
      /\ \A i, j \in 0 .. m : i < j => end[i] < end[j]
  BY EndsAre
<1> HIDE DEF end
<1>2. k - 1 \in 0 .. m /\ k \in 0 .. m /\ k \in 1 .. m
  OBVIOUS
<1>3. PICK i \in Nat, j \in Nat : i = end[k - 1] /\ j = end[k] /\ j = i + widths[k]
  BY <1>1, <1>2 DEF AddsUp
<1>4. j <= Len(bits)
  <2>1. end[n] = Len(bits) /\ Len(bits) \in Nat
    BY LenProperties DEF end
  <2>2. CASE k = n
    <3>1. end[k] = end[n]
      BY <2>2
    <3>2. j = Len(bits)
      BY <1>3, <2>1, <3>1, Zenon
    <3> QED
      BY <2>1, <3>2
  <2>3. CASE k < n
    <3>1. end[k] < end[n]
      BY <1>1, <1>2, <2>3
    <3> QED
      BY <1>3, <2>1, <3>1
  <2> QED
    BY <2>2, <2>3
<1>5. \A p \in i + 1 .. j : bits[p] \in {0, 1}
  BY <1>4, LenProperties
<1>6. widths[k] \in Nat \ {0}
  BY <1>2
<1>7. /\ SubSeq(bits, i + 1, j) \in Seq({0, 1})
      /\ Len(SubSeq(bits, i + 1, j)) = IF i + 1 <= j THEN j - (i + 1) + 1 ELSE 0
  BY <1>5, SubSeqProperties
<1>8. Len(SubSeq(bits, i + 1, j)) = widths[k]
  <2>1. i + 1 <= j /\ j - (i + 1) + 1 = widths[k]
    BY <1>3, <1>6, SMTT(30)
  <2> QED
    BY <1>7, <2>1
<1> QED
  BY <1>3, <1>7, <1>8 DEF Taken, end

\* Bits that fill some levels are cut into the numbers of these.
LEMMA LevelsAre ==
  ASSUME NEW bits \in Seq({0, 1}), NEW m \in Nat, NEW widths \in [1 .. m -> Nat \ {0}], NEW n \in 0 .. m,
         Ends(widths)[n] = Len(bits)
  PROVE  Levels(bits, widths) = [k \in 1 .. n |-> Number(Taken(bits, widths, k))]
<1> DEFINE end == Ends(widths)
<1>1. /\ end \in [0 .. m -> Nat] /\ AddsUp(end, widths, m)
      /\ \A i, j \in 0 .. m : i < j => end[i] < end[j]
  BY EndsAre
<1>2. end[n] = Len(bits)
  OBVIOUS
<1> HIDE DEF end
<1>3. \A k \in 1 .. m : end[k] <= Len(bits) <=> k <= n
  <2> SUFFICES ASSUME NEW k \in 1 .. m
               PROVE  end[k] <= end[n] <=> k <= n
    BY <1>2
  <2>1. k \in 0 .. m /\ end[k] \in Nat /\ end[n] \in Nat
    BY <1>1
  <2>2. CASE k < n
    BY <1>1, <2>1, <2>2
  <2>3. CASE k = n
    BY <2>1, <2>3
  <2>4. CASE k > n
    BY <1>1, <2>1, <2>4
  <2> QED
    BY <2>2, <2>3, <2>4
<1>4. {k \in 1 .. m : end[k] <= Len(bits)} = 1 .. n
  BY <1>3
<1>5. Levels(bits, widths) = [k \in {j \in DOMAIN widths : end[j] <= Len(bits)} |->
                                Number(SubSeq(bits, end[k - 1] + 1, end[k]))]
  BY DEF Levels, end
<1>6. DOMAIN widths = 1 .. m
  OBVIOUS
<1>7. Levels(bits, widths) = [k \in 1 .. n |-> Number(SubSeq(bits, end[k - 1] + 1, end[k]))]
  BY <1>4, <1>5, <1>6
<1> QED
  BY <1>7 DEF Taken, end

\* The bins of n levels, of the widths of these, are put together to the bits.
Rejoins(levels, widths, n, bits) ==
  /\ levels \in [1 .. n -> Nat]
  /\ FlattenSeq([k \in 1 .. n |-> Bits(levels[k], widths[k])]) = bits

\* Codes that fill their levels are put together from the bins of these.
LEMMA LevelsJoined ==
  ASSUME NEW bits \in Seq({0, 1}), NEW m \in Nat, NEW widths \in [1 .. m -> Nat \ {0}], NEW n \in 0 .. m,
         Ends(widths)[n] = Len(bits)
  PROVE  Rejoins(Levels(bits, widths), widths, n, bits)
<1> DEFINE parts == [k \in 1 .. n |-> Taken(bits, widths, k)]
           end == Ends(widths)
<1>1. Levels(bits, widths) = [k \in 1 .. n |-> Number(Taken(bits, widths, k))]
  BY LevelsAre
<1>2. ASSUME NEW k \in 1 .. n
      PROVE  /\ parts[k] \in Seq({0, 1}) /\ parts[k] = SubSeq(bits, end[k - 1] + 1, end[k])
             /\ Levels(bits, widths)[k] \in Nat /\ Bits(Levels(bits, widths)[k], widths[k]) = parts[k]
  <2>1. Taken(bits, widths, k) \in Seq({0, 1}) /\ Len(Taken(bits, widths, k)) = widths[k]
    BY TakenIs
  <2>2. /\ Number(Taken(bits, widths, k)) \in Nat
        /\ Bits(Number(Taken(bits, widths, k)), Len(Taken(bits, widths, k))) = Taken(bits, widths, k)
    BY <2>1, BitsOfNumber
  <2>3. Levels(bits, widths)[k] = Number(Taken(bits, widths, k))
    BY <1>1
  <2>4. parts[k] = Taken(bits, widths, k)
    OBVIOUS
  <2>5. Taken(bits, widths, k) = SubSeq(bits, end[k - 1] + 1, end[k])
    BY DEF Taken
  <2> HIDE DEF parts, end
  <2> QED
    BY <2>1, <2>2, <2>3, <2>4, <2>5
<1>3. Levels(bits, widths) \in [1 .. n -> Nat]
  BY <1>1, <1>2
<1>4. [k \in 1 .. n |-> Bits(Levels(bits, widths)[k], widths[k])] = [k \in 1 .. n |-> parts[k]]
  BY <1>2
<1>5. parts = [k \in 1 .. n |-> parts[k]] /\ n \in Nat
  OBVIOUS
<1>6. parts \in [1 .. n -> Seq({0, 1})]
  BY <1>2, <1>5
<1> HIDE DEF parts
<1>7. PICK f \in [0 .. n -> Seq({0, 1})] : Joins(f, parts, n) /\ FlattenSeq(parts) = f[n]
  BY <1>5, <1>6, FlattenIs
<1>8. /\ end \in [0 .. m -> Nat] /\ AddsUp(end, widths, m)
      /\ \A i, j \in 0 .. m : i < j => end[i] < end[j]
  BY EndsAre
<1>9. end[n] = Len(bits) /\ Len(bits) \in Nat
  BY LenProperties
<1> HIDE DEF end
<1> DEFINE Good == {k \in 0 .. n : f[k] = SubSeq(bits, 1, end[k])}
<1>10. 0 \in Good
  <2>1. f[0] = <<>> /\ end[0] = 0
    BY <1>7, <1>8 DEF Joins, AddsUp
  <2>2. SubSeq(bits, 1, 0) = <<>>
    BY SubSeqEmpty
  <2> QED
    BY <2>1, <2>2
<1>11. ASSUME NEW k \in 1 .. n, k - 1 \in Good
       PROVE  k \in Good
  <2>1. f[k] = f[k - 1] \o parts[k]
    BY <1>7 DEF Joins
  <2>2. f[k - 1] = SubSeq(bits, 1, end[k - 1]) /\ parts[k] = SubSeq(bits, end[k - 1] + 1, end[k])
    BY <1>2, <1>11
  <2>3. k - 1 \in 0 .. m /\ k \in 0 .. m /\ k - 1 < k
    OBVIOUS
  <2>4. PICK i \in Nat, j \in Nat : i = end[k - 1] /\ j = end[k] /\ i < j
    BY <1>8, <2>3
  <2>5. j <= Len(bits)
    <3>1. CASE k = n
      BY <1>9, <2>4, <3>1
    <3>2. CASE k < n
      BY <1>8, <1>9, <2>3, <2>4, <3>2
    <3> QED
      BY <3>1, <3>2
  <2>6. SubSeq(bits, 1, i) \o SubSeq(bits, i + 1, j) = SubSeq(bits, 1, j)
    <3>1. PICK c \in Nat : c = Len(bits)
      BY <1>9
    <3>2. j <= c /\ i < j
      BY <2>4, <2>5, <3>1, Zenon
    <3>3. 1 \in 1 .. c + 1 /\ i \in 1 - 1 .. c /\ j \in i .. c
      BY <3>2
    <3> QED
      BY <3>1, <3>3, ConcatAdjacentSubSeq
  <2>7. f[k] = SubSeq(bits, 1, end[k])
    BY <2>1, <2>2, <2>4, <2>6
  <2> QED
    BY <2>7
<1>12. \A k \in 0 .. n : k \in Good
  <2> HIDE DEF Good
  <2> QED
    BY <1>5, <1>10, <1>11, CountingUp
<1>13. f[n] = SubSeq(bits, 1, end[n])
  <2>1. n \in Good
    BY <1>12
  <2> QED
    BY <2>1
<1>14. FlattenSeq(parts) = bits
  BY <1>7, <1>9, <1>13, SubSeqFull
<1> QED
  BY <1>3, <1>4, <1>5, <1>14 DEF Rejoins

-----------------------------------------------------------------------------
\* Each place in a set of numbers is that of one of them, and they are in order.
LEMMA PlacesTaken ==
  ASSUME NEW S \in SUBSET Int, IsFiniteSet(S)
  PROVE  /\ Cardinality(S) \in Nat
         /\ \A d \in S : PlaceIn(S, d) \in 1 .. Cardinality(S)
         /\ \A d, e \in S : d < e => PlaceIn(S, d) < PlaceIn(S, e)
         /\ \A d, e \in S : PlaceIn(S, d) = PlaceIn(S, e) => d = e
         /\ \A k \in 1 .. Cardinality(S) : \E d \in S : PlaceIn(S, d) = k
<1> DEFINE upTo == [d \in S |-> {e \in S : e <= d}]
           n == Cardinality(S)
           f == [d \in S |-> PlaceIn(S, d)]
<1>1. n \in Nat
  BY FS_CardinalityType
<1>2. \A d \in S : upTo[d] \in SUBSET S /\ d \in upTo[d] /\ PlaceIn(S, d) = Cardinality(upTo[d])
  BY DEF PlaceIn
<1>3. \A d, e \in S : e \in upTo[d] <=> e <= d
  OBVIOUS
<1> HIDE DEF upTo
<1>4. ASSUME NEW d \in S
      PROVE  PlaceIn(S, d) \in 1 .. n
  <2>1. upTo[d] \in SUBSET S /\ upTo[d] # {} /\ PlaceIn(S, d) = Cardinality(upTo[d])
    BY <1>2
  <2>2. IsFiniteSet(upTo[d]) /\ Cardinality(upTo[d]) <= n
    BY <2>1, FS_Subset
  <2>3. Cardinality(upTo[d]) \in Nat /\ Cardinality(upTo[d]) # 0
    BY <2>1, <2>2, FS_CardinalityType, FS_EmptySet
  <2> HIDE DEF n
  <2> QED
    BY <1>1, <2>1, <2>2, <2>3
<1>5. ASSUME NEW d \in S, NEW e \in S, d < e
      PROVE  PlaceIn(S, d) < PlaceIn(S, e)
  <2>1. upTo[d] \subseteq upTo[e]
    <3>1. ASSUME NEW c \in S, c <= d
          PROVE  c <= e
      BY <1>5, <3>1
    <3> QED
      BY <1>2, <1>3, <3>1
  <2>2. e \in upTo[e] /\ e \notin upTo[d]
    BY <1>2, <1>3, <1>5
  <2>3. IsFiniteSet(upTo[e])
    BY <1>2, FS_Subset
  <2>4. Cardinality(upTo[d]) <= Cardinality(upTo[e]) /\ Cardinality(upTo[d]) # Cardinality(upTo[e])
    BY <2>1, <2>2, <2>3, FS_Subset
  <2>5. PlaceIn(S, d) = Cardinality(upTo[d]) /\ PlaceIn(S, e) = Cardinality(upTo[e])
    BY <1>2
  <2>6. PlaceIn(S, d) \in Int /\ PlaceIn(S, e) \in Int
    BY <1>4
  <2> QED
    BY <2>4, <2>5, <2>6
<1>6. ASSUME NEW d \in S, NEW e \in S, PlaceIn(S, d) = PlaceIn(S, e)
      PROVE  d = e
  <2>1. ~ (d < e) /\ ~ (e < d)
    <3>1. PlaceIn(S, d) \in Int
      BY <1>4
    <3> QED
      BY <1>5, <1>6, <3>1
  <2> QED
    BY <2>1
<1>7. f \in Surjection(S, 1 .. n)
  <2>1. f \in Injection(S, 1 .. n)
    <3>1. f \in [S -> 1 .. n]
      BY <1>4
    <3>2. \A d, e \in S : f[d] = f[e] => d = e
      BY <1>6
    <3> QED
      BY <3>1, <3>2 DEF Injection, IsInjective
  <2>2. IsFiniteSet(1 .. n) /\ Cardinality(1 .. n) = n
    BY <1>1, FS_Interval
  <2> HIDE DEF f
  <2> QED
    BY <2>1, <2>2, FS_Injection
<1>8. \A k \in 1 .. n : \E d \in S : PlaceIn(S, d) = k
  <2> SUFFICES ASSUME NEW k \in 1 .. n
               PROVE  \E d \in S : PlaceIn(S, d) = k
    OBVIOUS
  <2>1. \E d \in S : f[d] = k
    <3> HIDE DEF f
    <3> QED
      BY <1>7 DEF Surjection
  <2> QED
    BY <2>1
<1> QED
  BY <1>1, <1>4, <1>5, <1>6, <1>8

\* What f has at a place is found there.
LEMMA InOrderIs ==
  ASSUME NEW S \in SUBSET Int, IsFiniteSet(S), NEW f
  PROVE  /\ InOrder(f, S) = [k \in 1 .. Cardinality(S) |-> InOrder(f, S)[k]]
         /\ \A d \in S : InOrder(f, S)[PlaceIn(S, d)] = f[d]
<1>1. InOrder(f, S) = [k \in 1 .. Cardinality(S) |-> f[CHOOSE d \in S : PlaceIn(S, d) = k]]
  BY DEF InOrder
<1>2. ASSUME NEW d \in S
      PROVE  InOrder(f, S)[PlaceIn(S, d)] = f[d]
  <2>1. PlaceIn(S, d) \in 1 .. Cardinality(S)
    BY PlacesTaken
  <2>2. (CHOOSE e \in S : PlaceIn(S, e) = PlaceIn(S, d)) = d
    <3>1. \A e \in S : PlaceIn(S, e) = PlaceIn(S, d) => e = d
      BY PlacesTaken
    <3> QED
      BY <3>1
  <2>3. InOrder(f, S)[PlaceIn(S, d)] = f[CHOOSE e \in S : PlaceIn(S, e) = PlaceIn(S, d)]
    BY <1>1, <2>1
  <2> QED
    BY <2>2, <2>3
<1>3. InOrder(f, S) = [k \in 1 .. Cardinality(S) |-> InOrder(f, S)[k]]
  BY <1>1
<1> QED
  BY <1>2, <1>3

\* The codes of some of the dimensions are of one length and fill the levels they take.
LEMMA CodesFit ==
  ASSUME NEW C, NEW sizeBits, NEW widths, NEW most \in Nat, Coded(C, sizeBits, widths, most),
         NEW S \in SUBSET (1 .. most), S # {}, NEW g, \A d \in S : g[d] \in C
  PROVE  /\ Cardinality(S) \in 1 .. most
         /\ \E len : /\ Alike({0, 1}, InOrder(g, S), Cardinality(S), len, sizeBits)
                     /\ Fills(Cardinality(S) * len, widths)
<1> DEFINE n == Cardinality(S)
           codes == InOrder(g, S)
<1>1. S \in SUBSET Int /\ IsFiniteSet(S) /\ n \in 1 .. most
  <2>1. IsFiniteSet(1 .. most) /\ Cardinality(1 .. most) = most
    BY FS_Interval
  <2>2. IsFiniteSet(S) /\ Cardinality(S) <= most
    BY <2>1, FS_Subset
  <2>3. Cardinality(S) \in Nat /\ Cardinality(S) # 0
    BY <2>2, FS_CardinalityType, FS_EmptySet
  <2> QED
    BY <2>2, <2>3
<1>2. PICK e \in S : TRUE
  OBVIOUS
<1>3. PICK c \in C : c = g[e]
  BY <1>2
<1> DEFINE len == Len(c)
<1>4. \A d \in C : d \in Seq({0, 1}) /\ Len(d) = len
  BY DEF Coded
<1>5. sizeBits \in 0 .. len /\ \A m \in 1 .. most : Fills(m * len, widths)
  BY DEF Coded
<1>6. len \in Nat
  BY <1>4, LenProperties
<1>7. codes = [k \in 1 .. n |-> codes[k]] /\ \A d \in S : codes[PlaceIn(S, d)] = g[d]
  BY <1>1, InOrderIs
<1> HIDE DEF n, codes, len
<1>8. ASSUME NEW k \in 1 .. n
      PROVE  codes[k] \in Seq({0, 1}) /\ Len(codes[k]) = len
  <2>1. PICK d \in S : PlaceIn(S, d) = k
    BY <1>1, PlacesTaken DEF n
  <2>2. codes[k] = g[d]
    BY <1>7, <2>1
  <2> QED
    BY <1>4, <2>2
<1>9. codes \in [1 .. n -> Seq({0, 1})]
  BY <1>7, <1>8
<1>10. n \in Nat
  BY <1>1
<1>11. Alike({0, 1}, codes, n, len, sizeBits)
  BY <1>5, <1>6, <1>8, <1>9, <1>10 DEF Alike
<1>12. Fills(n * len, widths)
  BY <1>1, <1>5
<1> QED
  BY <1>1, <1>11, <1>12 DEF n, codes

\* From the levels that they fill the codes are read back.
LEMMA CodesKept ==
  ASSUME NEW C, NEW sizeBits, NEW widths, NEW most \in Nat, Coded(C, sizeBits, widths, most),
         NEW S \in SUBSET (1 .. most), NEW g, \A d \in S : g[d] \in C,
         NEW bits, bits = Combine(InOrder(g, S), sizeBits)
  PROVE  \E m \in Nat : /\ Rejoins(Levels(bits, widths), widths, m, bits)
                        /\ S # {} => Split(bits, Cardinality(S), sizeBits) = InOrder(g, S)
<1> DEFINE w == Len(widths)
<1>0. widths \in Seq(Nat \ {0})
  BY DEF Coded
<1>1. w \in Nat /\ widths \in [1 .. w -> Nat \ {0}]
  BY <1>0, LenProperties
<1>2. CASE S = {}
  <2>1. InOrder(g, S) = <<>>
    BY <1>2, FS_EmptySet DEF InOrder
  <2> DEFINE codes == InOrder(g, S)
  <2> HIDE DEF codes
  <2>2. codes = <<>> /\ bits = Combine(codes, sizeBits)
    BY <2>1 DEF codes
  <2>9. Combine(codes, sizeBits) = <<>>
    <3> DEFINE a == [k \in DOMAIN codes |-> SubSeq(codes[k], 1, sizeBits)]
               b == [k \in DOMAIN codes |-> SubSeq(codes[k], sizeBits + 1, Len(codes[k]))]
    <3>1. DOMAIN codes = {}
      BY <2>2
    <3>2. a = <<>> /\ b = <<>>
      BY <3>1
    <3>3. Combine(codes, sizeBits) = FlattenSeq(a) \o FlattenSeq(b)
      BY DEF Combine
    <3> HIDE DEF a, b
    <3>4. FlattenSeq(a) = <<>> /\ FlattenSeq(b) = <<>>
      BY <3>2 DEF FlattenSeq
    <3> QED
      BY <3>3, <3>4
  <2>3. bits \in Seq({0, 1}) /\ Len(bits) = 0
    <3>1. bits = <<>>
      BY <2>2, <2>9
    <3> QED
      BY <3>1
  <2>4. Ends(widths)[0] = Len(bits) /\ 0 \in 0 .. w
    BY <1>1, <2>3, EndsAre DEF AddsUp
  <2> HIDE DEF w
  <2>5. Rejoins(Levels(bits, widths), widths, 0, bits)
    BY <1>1, <2>3, <2>4, LevelsJoined
  <2> QED
    BY <1>2, <2>5
<1>3. CASE S # {}
  <2> DEFINE n == Cardinality(S)
             codes == InOrder(g, S)
  <2>1. n \in 1 .. most /\ \E len : Alike({0, 1}, codes, n, len, sizeBits) /\ Fills(n * len, widths)
    BY <1>3, CodesFit
  <2>2. PICK len : Alike({0, 1}, codes, n, len, sizeBits) /\ Fills(n * len, widths)
    BY <2>1
  <2>3. n \in Nat \ {0} /\ bits = Combine(codes, sizeBits)
    BY <2>1
  <2> HIDE DEF n, codes, w
  <2>4. bits \in Seq({0, 1}) /\ Len(bits) = n * len
    BY <2>2, <2>3, CombineIs
  <2>5. PICK k \in 0 .. w : Ends(widths)[k] = Len(bits)
    BY <2>2, <2>4 DEF Fills, w
  <2>6. Split(bits, n, sizeBits) = codes
    BY <2>2, <2>3, SplitOfCombine
  <2>7. Rejoins(Levels(bits, widths), widths, k, bits)
    BY <1>1, <2>4, <2>5, LevelsJoined
  <2>8. k \in Nat
    BY <1>1
  <2> QED
    BY <2>6, <2>7, <2>8 DEF n, codes
<1> QED
  BY <1>2, <1>3

=============================================================================
