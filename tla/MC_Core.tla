------------------------------ MODULE MC_Core -------------------------------
(* The parts of airtree-core: generation of a histogram in 2D (Generate, by *)
(* the constants) and 1D (the instance OneDim), the codes of numbers        *)
(* (Encoding) and the packing of counts (CountCodec).  A behaviour is of    *)
(* one of them, chosen at first; the others stand still.                    *)
EXTENDS Generate, Encoding, CountCodec

VARIABLES
  subject,   \* "plane", "line", "numbers" or "counts"
  pc1        \* where the 1D schema's generation is

-----------------------------------------------------------------------------
(* Generation: values of three kinds, of which 0 (NaN) and 2 (zero) are     *)
(* special.                                                                 *)
NaN  == [kind |-> 0, code |-> <<>>]
Zero == [kind |-> 2, code |-> <<>>]
Ordinary(c) == [kind |-> 1, code |-> c]

(* 2D: nine root bins, and a level of four for each ordinary number.  A     *)
(* code has a bit for the size and a digit, so a level mixes two numbers.   *)
MC_Bins2 == <<9, 4, 4>>
One(k) == IF k = 1 THEN 1 ELSE 0
MC_Depth2 == [i \in 0 .. 8 |-> 1 + One(i \div 3) + One(i % 3)]
MC_Values2 == {NaN, Zero, Ordinary(<<0, 0>>), Ordinary(<<0, 1>>), Ordinary(<<1, 0>>)}
MC_Widths2 == <<2, 2>>

(* 1D: a path of three bins.                                                *)
MC_Bins1 == <<2, 2, 2>>
MC_Depth1 == [i \in 0 .. 1 |-> 3]
MC_Values1 == {NaN, Zero} \cup {Ordinary(<<a, b, c>>) : a, b, c \in 0 .. 1}
MC_Widths1 == <<1, 1, 1>>

OneDim == INSTANCE Generate WITH pc <- pc1,
            Bins <- MC_Bins1, Depth <- MC_Depth1, Dims <- 1, Values <- MC_Values1,
            SizeBits <- 1, LevelBits <- MC_Widths1, MaxLen <- 3, LengthChecks <- {"any"}

(* Numbers: a format of 6 exponent and 6 fraction bits.  The first form     *)
(* keeps enough bits for the whole exponent, as the 16 and 20 bit codes of  *)
(* doubles do; the second does not for the greatest exponents, as those of  *)
(* 12 and 13 bits; the third is folded like the 8-bit code.                 *)
Form(z, p, u) == [zeroMax |-> z, precision |-> p, upto |-> u]
MC_Forms == {Form(7, 4, FALSE), Form(6, 2, FALSE), Form(3, 2, TRUE)}

(* Counts: bytes of 2 bits, an accumulator of 4 bytes, counts of up to 5    *)
(* bits (0, 1, 5, 10 and 31), so that 4 populated bins take up to 10 bytes  *)
(* and the word refill, the byte refill and the partial last byte happen.   *)
MC_Counts == {{}, {0}, {0, 2}, {1, 3}, {0, 1, 2, 3, 4}}

-----------------------------------------------------------------------------
Ungenerated ==
  /\ pc = "idle" /\ pc1 = "idle" /\ check = "any" /\ lengths = <<>> /\ points = <<>> /\ nodes = <<>>
  /\ special = <<>> /\ todo = <<>> /\ header = [trie |-> 0, special |-> <<>>] /\ out = <<>>

Unnumbered == form = Form(7, 4, FALSE) /\ sign = 0 /\ number = ExpMod * FracMod - 1 /\ left = {}

Uncounted ==
  /\ phase = "done" /\ n = 0 /\ vals = <<>> /\ width = 1 /\ payload = <<>> /\ acc = {} /\ bits = 0
  /\ byte = 0 /\ next = 0 /\ avail = 0 /\ inside = 0 /\ counts = <<>>

MCInit ==
  \/ subject = "plane"   /\ Init /\ pc1 = "idle"        /\ Unnumbered   /\ Uncounted
  \/ subject = "line"    /\ OneDim!Init /\ pc = "idle"  /\ Unnumbered   /\ Uncounted
  \/ subject = "numbers" /\ Ungenerated                 /\ EncodingInit /\ Uncounted
  \/ subject = "counts"  /\ Ungenerated                 /\ Unnumbered   /\ CodecInit

\* All numbers are filed.
NumbersOver == number = ExpMod * FracMod - 1 /\ UNCHANGED encodingVars

genVars == <<vars, pc1>>

MCNext ==
  /\ UNCHANGED subject
  /\ \/ subject = "plane"   /\ Next /\ UNCHANGED <<pc1, encodingVars, codecVars>>
     \/ subject = "line"    /\ OneDim!Next /\ UNCHANGED <<pc, encodingVars, codecVars>>
     \/ subject = "numbers" /\ (FileNext \/ NumbersOver) /\ UNCHANGED <<genVars, codecVars>>
     \/ subject = "counts"  /\ CodecNext /\ UNCHANGED <<genVars, encodingVars>>

MCSpec == MCInit /\ [][MCNext]_<<subject, genVars, encodingVars, codecVars>> /\ CodecFairness

-----------------------------------------------------------------------------
(***************************************************************************)
(* What Generate states of a schema's file, of the 1D schema: readers find *)
(* its children (the root's by their totals, since all are there), it is   *)
(* the histogram of the values, and header and special counts account for  *)
(* each of them (1DxP.cpp).                                                *)
(***************************************************************************)
OneDimCorrect == OneDim!ReadersAgree /\ OneDim!WritesHistogram /\ OneDim!HeaderAccounts
=============================================================================
