------------------------------ MODULE TrieWire ------------------------------
(***************************************************************************)
(* Tries and the way they lie in a file.                                   *)
(*                                                                         *)
(* A value falls in one bin at each level; the bins it falls in are its    *)
(* path.  In a 1D trie every path has one bin per level.  In a 2D to 4D    *)
(* trie the root bin says which dimensions hold an ordinary number (not    *)
(* NaN, zero or an infinity) and there is one more level for each of them: *)
(* Depth[i] is the length of the paths through root bin i.                 *)
(*                                                                         *)
(* A trie is a function from its populated paths to the number of values   *)
(* there.  On the wire a node is a token: the function from its populated  *)
(* bins (its mask) to their counts; a file is the tokens of the nodes in   *)
(* depth-first order, then the EOF marker.  What a token is in bytes is    *)
(* CountCodec's subject.                                                   *)
(***************************************************************************)
EXTENDS Integers, FiniteSets, FiniteSetsExt, SequencesExt

CONSTANTS
  Bins,       \* Bins[d] is the number of bins of a node at depth d, the root at 1
  Depth,      \* Depth[i] is the length of the paths through root bin i
  CountMod,   \* counts are kept modulo CountMod (2^32 in the code)
  EOF         \* the end of file marker, unlike any node

ASSUME BinsAssumption  == Bins \in Seq(Nat \ {0}) /\ Bins # <<>>
ASSUME DepthAssumption == Depth \in [0 .. Bins[1] - 1 -> 1 .. Len(Bins)]
ASSUME ModAssumption   == CountMod \in Nat \ {0}

MaxDepth  == Len(Bins)
NodeBins(d) == 0 .. Bins[d] - 1

ASSUME EOFAssumption ==
  \A d \in 1 .. MaxDepth : \A mask \in SUBSET NodeBins(d) : EOF \notin [mask -> 0 .. CountMod - 1]

\* The places where a value can be counted.
Leaves == {p \in UNION {[1 .. d -> 0 .. Max({Bins[e] : e \in 1 .. d}) - 1] : d \in 1 .. MaxDepth} :
              /\ \A d \in 1 .. Len(p) : p[d] \in NodeBins(d)
              /\ Len(p) = Depth[p[1]]}

-----------------------------------------------------------------------------
\* A node is named by the path that leads to it; the root is always there.
Nodes(t) == {<<>>} \cup UNION {{SubSeq(p, 1, d) : d \in 1 .. Len(p) - 1} : p \in DOMAIN t}

Below(t, q)   == {p \in DOMAIN t : IsStrictPrefix(q, p)}
BinAfter(p, q) == p[Len(q) + 1]

\* The token of the node q of trie t: each populated bin with its total.
Token(t, q) ==
  [i \in {BinAfter(p, q) : p \in Below(t, q)} |->
     SumFunctionOnSet(t, {p \in Below(t, q) : BinAfter(p, q) = i}) % CountMod]

\* Depth first: a node before its children, the children in bin order.
Before(a, b) ==
  \/ IsStrictPrefix(a, b)
  \/ \E d \in 1 .. Min({Len(a), Len(b)}) :
        SubSeq(a, 1, d - 1) = SubSeq(b, 1, d - 1) /\ a[d] < b[d]

Encode(t) ==
  LET nodes   == Nodes(t)
      rank    == [q \in nodes |-> Cardinality({r \in nodes : Before(r, q)})]
  IN  [k \in 1 .. Cardinality(nodes) |-> Token(t, CHOOSE q \in nodes : rank[q] = k - 1)]

Wire(t) == Append(Encode(t), EOF)

\* The members of a set of numbers, in order.
Nth(bins) == [k \in 1 .. Cardinality(bins) |-> CHOOSE i \in bins : Cardinality({j \in bins : j < i}) = k - 1]

\* A node's children, in the order of their bins.
Brood(q, bins) == [k \in 1 .. Cardinality(bins) |-> Append(q, Nth(bins)[k])]

-----------------------------------------------------------------------------
\* The trie of all the values of several tries: populated where any of them is.
Union(ts) ==
  [p \in UNION {DOMAIN ts[k] : k \in DOMAIN ts} |->
     SumFunction([k \in {k \in DOMAIN ts : p \in DOMAIN ts[k]} |-> ts[k][p]]) % CountMod]

\* The number of values in a trie (the header's trie_count, modulo CountMod).
Observed(t) == SumFunction(t) % CountMod

\* The sum of several tokens, one of each holder, populated where any of them is.
SumTokens(fs) ==
  [i \in UNION {DOMAIN fs[k] : k \in DOMAIN fs} |->
     SumFunction([k \in {k \in DOMAIN fs : i \in DOMAIN fs[k]} |-> fs[k][i]]) % CountMod]

\* A file cut short anywhere before its end: no byte of the last token helps.
Torn(w) == {SubSeq(w, 1, m) : m \in 0 .. Len(w) - 1}

\* A file in which one more node follows the trie.
Overlong(w) == Front(w) \o <<Head(w), EOF>>

=============================================================================
