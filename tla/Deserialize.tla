---------------------------- MODULE Deserialize -----------------------------
(***************************************************************************)
(* Reading a file back into a trie of nodes, and writing it again          *)
(* (airtree-core/src/serdes, AirTreeReader).  The functions of the nine    *)
(* schemas call each other node by node; they differ in how deep they go   *)
(* below a root bin, in what they do about a child that cannot be read,    *)
(* and in what they do if the end marker is missing.                       *)
(*                                                                         *)
(* The root bins of a 2D to 4D trie are named by the mask of dimensions    *)
(* with an ordinary number (getNumDims2D, ...), one bin for each.  A file  *)
(* that was cut inside a node, in its mask or its counts, ends in the      *)
(* token Piece: where the reader goes on after it has failed there, what   *)
(* is left of the node may look like anything.                             *)
(***************************************************************************)
EXTENDS TrieWire

CONSTANTS
  Piece,     \* what is left of a node that was cut inside
  Tries,     \* the tries that files of each schema may hold
  MaxStray   \* bound: nodes that the rest of a piece may be taken for

VARIABLES
  config,    \* the schema it was written in
  head,      \* its header
  written,   \* the nodes that the file was written from
  whole,     \* whether it is as it was written
  file,      \* its nodes and end marker, after the header
  place,     \* nodes passed
  inside,    \* whether the reader is inside a node
  stray,     \* nodes it has read there
  expected,  \* the paths of nodes yet to read, in order
  readNodes, \* those read
  root       \* what comes of it: "off", "header", "throws", "reading", "node" or "null"

OneDim == {"1DxT", "1DxF", "1DxP"}
TwoDim == {"2DxF", "2DxP"}

-----------------------------------------------------------------------------
(* The schemas: levels below each root bin; whether a missing child or end *)
(* marker makes the whole trie null.                                       *)

Deserialize_1DxT == [below |-> [i \in Nat |-> 1], child |-> "null", noEnd |-> "null"]
Deserialize_1DxF == [below |-> [i \in Nat |-> 1], child |-> "null", noEnd |-> "null"]
Deserialize_1DxP == [below |-> [i \in Nat |-> 2], child |-> "null", noEnd |-> "null"]

\* level 0 has no node, 1 and 2 have one, 3 has two below each other; without an end
\* marker the trie is returned as it is.
Deserialize_2DxF ==
  [below |-> [i \in 0 .. 3 |-> CASE i = 0 -> 0 [] i \in {1, 2} -> 1 [] i = 3 -> 2], child |-> "skip", noEnd |-> "node"]
Deserialize_2DxP ==
  [below |-> [i \in 0 .. 3 |-> CASE i = 0 -> 0 [] i \in {1, 2} -> 1 [] i = 3 -> 2], child |-> "skip", noEnd |-> "node"]

\* Mutant: one pair of dimensions is taken for a single one.
Deserialize_3DxF_Shallow ==
  [below |-> [i \in 0 .. 7 |-> CASE i = 0 -> 0 [] i \in {1, 2, 4, 6} -> 1 [] i \in {3, 5} -> 2 [] i = 7 -> 3],
   child |-> "skip", noEnd |-> "null"]

Deserialize_3DxF ==
  [below |-> [i \in 0 .. 7 |-> CASE i = 0 -> 0 [] i \in {1, 2, 4} -> 1 [] i \in {3, 5, 6} -> 2 [] i = 7 -> 3],
   child |-> "skip", noEnd |-> "null"]
Deserialize_3DxP ==
  [below |-> [i \in 0 .. 7 |-> CASE i = 0 -> 0 [] i \in {1, 2, 4} -> 1 [] i \in {3, 5, 6} -> 2 [] i = 7 -> 3],
   child |-> "skip", noEnd |-> "null"]

Deserialize_4DxF ==
  [below |-> [i \in 0 .. 15 |-> CASE i = 0 -> 0
                                  [] i \in {1, 2, 4, 8} -> 1
                                  [] i \in {3, 5, 6, 9, 10, 12} -> 2
                                  [] i \in {7, 11, 13, 14} -> 3
                                  [] i = 15 -> 4],
   child |-> "skip", noEnd |-> "null"]
Deserialize_4DxP ==
  [below |-> [i \in 0 .. 15 |-> CASE i = 0 -> 0
                                  [] i \in {1, 2, 4, 8} -> 1
                                  [] i \in {3, 5, 6, 9, 10, 12} -> 2
                                  [] i \in {7, 11, 13, 14} -> 3
                                  [] i = 15 -> 4],
   child |-> "skip", noEnd |-> "null"]

\* AirTreeReader::read
ReaderOf(schema) ==
  CASE schema = "1DxT" -> Deserialize_1DxT [] schema = "1DxF" -> Deserialize_1DxF
    [] schema = "1DxP" -> Deserialize_1DxP [] schema = "2DxF" -> Deserialize_2DxF
    [] schema = "2DxP" -> Deserialize_2DxP [] schema = "3DxF" -> Deserialize_3DxF
    [] schema = "3DxP" -> Deserialize_3DxP [] schema = "4DxF" -> Deserialize_4DxF
    [] schema = "4DxP" -> Deserialize_4DxP

Reader == ReaderOf(head.config)

\* What is taken of the tries: their schemas are among the nine and their paths as long
\* as the reader of the schema goes; no node is like the end marker or a piece.
TriesAssumption ==
  /\ DOMAIN Tries \subseteq OneDim \cup TwoDim \cup {"3DxF", "3DxP", "4DxF", "4DxP"}
  /\ \A c \in DOMAIN Tries : \A t \in Tries[c] :
       /\ IsFiniteSet(DOMAIN t) /\ DOMAIN t \subseteq Seq(Nat) \ {<<>>}
       /\ \A p \in DOMAIN t : t[p] \in Nat /\ p[1] \in DOMAIN ReaderOf(c).below /\ Len(p) = ReaderOf(c).below[p[1]] + 1
       /\ \A q \in Nodes(t) : Token(t, q) \notin {EOF, Piece}
  /\ EOF # Piece /\ \A i \in 0 .. 1 : [j \in {i} |-> 1] \notin {EOF, Piece}

-----------------------------------------------------------------------------
(* The header: a checksum over all of it, at the end that its own length   *)
(* field names.  CRC-32 is taken to tell any two headers apart.            *)

kHeaderLength == 49

\* The registry knows these (lookupConfig).
Registered == DOMAIN Tries

\* Of the payload's length and the checksum there are placeholders yet.
SerializeHeader(c) ==
  [magic |-> "AIRT", version |-> 1, length |-> kHeaderLength, config |-> c, payload |-> 0, crc |-> {}]

Covered(h) == [h EXCEPT !.crc = {}]

\* Mutant: the checksum is taken before the length is put in.
FinalizeHeaderEarly(h, n) == [h EXCEPT !.payload = n, !.crc = {Covered(h)}]

FinalizeHeader(h, n) ==
  LET sized == [h EXCEPT !.payload = n]
  IN  [sized EXCEPT !.crc = {Covered(sized)}]

Header(c, w) == FinalizeHeader(SerializeHeader(c), Len(w))

\* One field is another, or the end is missing.
DamagedHeaders(h) ==
  {[h EXCEPT !.magic = "none"], [h EXCEPT !.payload = @ + 1], [h EXCEPT !.crc = {}]}
    \cup {[h EXCEPT !.version = v] : v \in {0, 2}}
    \cup {[h EXCEPT !.length = kHeaderLength + d] : d \in {-4, 4}}
    \cup {[h EXCEPT !.config = c] : c \in (Registered \ {h.config}) \cup {"unknown"}}
    \cup {[magic |-> "short"]}

\* deserializeHeader: what it does not throw for.  Where the length field is wrong, there
\* is no checksum at the place it names.
HeaderAccepted(h) ==
  /\ h.magic = "AIRT" /\ h.version <= 1 /\ h.length = kHeaderLength
  /\ h.crc = {Covered(h)}
  /\ h.config \in Registered

-----------------------------------------------------------------------------
(* The serialize functions: a node, then those of its children that are    *)
(* there, in bin order, and after all of them the end marker.              *)

Serialize(ns) ==
  LET rank == [q \in DOMAIN ns |-> Cardinality({r \in DOMAIN ns : Before(r, q)})]
  IN  Append([k \in 1 .. Cardinality(DOMAIN ns) |-> ns[CHOOSE q \in DOMAIN ns : rank[q] = k - 1]], EOF)

NodesOf(t) == [q \in Nodes(t) |-> Token(t, q)]

\* Cut between nodes, or inside one; or a node too many.
Damaged(w) == Torn(w) \cup {Append(SubSeq(w, 1, m), Piece) : m \in 0 .. Len(w) - 2} \cup {Overlong(w)}

Closed ==
  /\ config = "none" /\ head = <<>> /\ written = <<>> /\ whole = TRUE /\ file = <<>>
  /\ place = 0 /\ inside = FALSE /\ stray = 0 /\ expected = <<>> /\ readNodes = <<>> /\ root = "off"

DSInit ==
  /\ config \in Registered
  /\ \E t \in Tries[config] : written = NodesOf(t)
  /\ LET w == Serialize(written)
     IN  \/ whole = TRUE /\ file = w /\ head = Header(config, w)
         \/ whole = FALSE /\ file \in Damaged(w) /\ head = Header(config, w)
         \/ whole = FALSE /\ file = w /\ head \in DamagedHeaders(Header(config, w))
  /\ place = 0 /\ inside = FALSE /\ stray = 0
  /\ expected = << <<>> >> /\ readNodes = <<>> /\ root = "header"

\* deserializeHeader, before any node.
ReadHeader ==
  /\ root = "header"
  /\ root' = IF HeaderAccepted(head) THEN "reading" ELSE "throws"
  /\ UNCHANGED <<config, head, written, whole, file, place, inside, stray, expected, readNodes>>

\* The bins of a node that have a node below.
BinsRead(q, node) == {i \in DOMAIN node : Len(q) < Reader.below[Append(q, i)[1]]}

\* The paths of a node's children that are read.
ChildrenRead(q, node) == Brood(q, BinsRead(q, node))

Reading == root = "reading" /\ expected # <<>>

Got(node) ==
  /\ readNodes' = [q \in DOMAIN readNodes \cup {Head(expected)} |-> IF q = Head(expected) THEN node ELSE readNodes[q]]
  /\ expected' = ChildrenRead(Head(expected), node) \o Tail(expected)
  /\ UNCHANGED root

\* Mutant: every schema goes on without the child.
FailedSkip ==
  /\ IF Head(expected) = <<>>
     THEN root' = "null" /\ expected' = <<>>
     ELSE UNCHANGED root /\ expected' = Tail(expected)
  /\ UNCHANGED readNodes

\* A node that cannot be read: null for the root and in 1D, else the child stays null.
Failed ==
  /\ IF Head(expected) = <<>> \/ Reader.child = "null"
     THEN root' = "null" /\ expected' = <<>>
     ELSE UNCHANGED root /\ expected' = Tail(expected)
  /\ UNCHANGED readNodes

IsNode(m) == m \in DOMAIN file /\ file[m] \notin {EOF, Piece}

\* readPopulatedMask and deserializeCounts
ReadChild ==
  /\ Reading /\ ~ inside
  /\ IF IsNode(place + 1) THEN Got(file[place + 1]) /\ place' = place + 1 /\ UNCHANGED inside
     ELSE /\ Failed
          /\ inside' = (place < Len(file) /\ file[place + 1] = Piece)
          /\ UNCHANGED place
  /\ UNCHANGED <<config, head, written, whole, file, stray>>

\* Inside a piece: the bytes left look like a node, or are too few.
ReadStray ==
  /\ Reading /\ inside
  /\ \/ Failed /\ UNCHANGED stray
     \/ /\ stray < MaxStray /\ stray' = stray + 1
        /\ \E i \in 0 .. 1 : Got([j \in {i} |-> 1])
  /\ UNCHANGED <<config, head, written, whole, file, place, inside>>

AtEnd == place + 1 \in DOMAIN file /\ file[place + 1] = EOF

\* verifyEndOfFileMarker
VerifyEnd ==
  /\ root = "reading" /\ expected = <<>>
  /\ root' \in IF inside THEN {"node", Reader.noEnd} ELSE IF AtEnd THEN {"node"} ELSE {Reader.noEnd}
  /\ UNCHANGED <<config, head, written, whole, file, place, inside, stray, expected, readNodes>>

\* AirTreeWriter: what was read is written, and may be read again.
WriteAgain ==
  /\ root = "node" /\ ~ whole
  /\ written' = readNodes /\ whole' = TRUE /\ file' = Serialize(readNodes) /\ head' = Header(config, file')
  /\ place' = 0 /\ inside' = FALSE /\ stray' = 0 /\ expected' = << <<>> >> /\ readNodes' = <<>> /\ root' = "header"
  /\ UNCHANGED config

DSNext == ReadHeader \/ ReadChild \/ ReadStray \/ VerifyEnd \/ WriteAgain

DSvars == <<config, head, written, whole, file, place, inside, stray, expected, readNodes, root>>

DSSpec == DSInit /\ [][DSNext]_DSvars

-----------------------------------------------------------------------------
\* Every populated bin that has a node below has it.
Complete(ns) ==
  \A q \in DOMAIN ns : \A i \in BinsRead(q, ns[q]) : Append(q, i) \in DOMAIN ns

(***************************************************************************)
(* What the serializer of a schema writes its deserializer reads back node *)
(* for node, the first time and when a trie that was read is written       *)
(* again; but a trie that lacks nodes, which only the 2D readers can       *)
(* return from a file cut between nodes, is not the same again.            *)
(***************************************************************************)
ReadBack ==
  (whole /\ Complete(written)) =>
    (root \notin {"null", "throws"} /\ (root = "node" => readNodes = written))

(***************************************************************************)
(* From a damaged file no reader makes up a trie: with a damaged header it *)
(* throws; in 1D it is null or the one written, however the nodes were     *)
(* damaged; in 3D and 4D so unless the reader went on inside a node; in 2D *)
(* it may lack nodes, but those it has are right, unless the reader went   *)
(* on inside a node.                                                       *)
(***************************************************************************)
NothingMadeUp ==
  (root = "node" /\ ~ whole) =>
    /\ head = Header(config, Serialize(written))
    /\ \/ readNodes = written
       \/ config \notin OneDim /\ inside
       \/ config \in TwoDim /\ DOMAIN readNodes \subseteq DOMAIN written /\ \A q \in DOMAIN readNodes : readNodes[q] = written[q]

=============================================================================
