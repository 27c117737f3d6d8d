------------------------------ MODULE Encoding ------------------------------
(***************************************************************************)
(* From a floating point number to its kind and code, and from a code back *)
(* to a number, the bin's label (airtree-core/src/common: TLE.cpp,         *)
(* InternalEncoding.hpp, Reconstruct.cpp).                                 *)
(*                                                                         *)
(* The exponent's distance from the bias is folded to be positive on both  *)
(* sides; with the fraction behind it, its leading zeros are counted (up   *)
(* to a limit) and some bits after the first one kept.  So a bin is wide   *)
(* where exponents are extreme: with few bits it covers several of them.   *)
(*                                                                         *)
(* The numbers of one sign are filed one after the other from zero up.  A  *)
(* number is its bits as an integer, which orders them by magnitude.       *)
(***************************************************************************)
EXTENDS Integers, FiniteSets, FiniteSetsExt

CONSTANTS
  ExpBits, FracBits,  \* the format: 11 and 52 in doubles
  Forms               \* the codes in use: [zeroMax, precision, upto]; upto is the
                      \* fold of the 8-bit code, which no table decodes

Bias     == 2 ^ (ExpBits - 1) - 1
ExpMod   == 2 ^ ExpBits
FracMod  == 2 ^ FracBits
Top      == FracBits + ExpBits - 2   \* where an exponent's first bit can be

\* The exponent's bits are counted apart from its sign; the bits kept lie in the number.
ASSUME FormatAssumption == ExpBits \in Nat /\ ExpBits > 2 /\ FracBits \in Nat
ASSUME FormsAssumption ==
  \A f \in Forms : /\ f.zeroMax \in 1 .. Top /\ f.precision \in Nat /\ f.upto \in BOOLEAN
                   /\ f.precision + f.zeroMax <= Top + 1

VARIABLES
  form, sign,  \* what is filed
  number,      \* the number being filed
  left         \* the bins that numbers before it were filed in (the code does not keep it)

encodingVars == <<form, sign, number, left>>

Exponent(m) == m \div FracMod
Fraction(m) == m % FracMod

-----------------------------------------------------------------------------
\* Mutant: a number's exponent is taken for negative at the bias already.
KindAtBias(sg, m) ==
  CASE m = 0                    -> 4
    [] Exponent(m) = ExpMod - 1 -> IF Fraction(m) # 0 THEN 0 ELSE IF sg = 1 THEN 7 ELSE 1
    [] Exponent(m) \in 0 .. Bias /\ m > 0 -> IF sg = 1 THEN 5 ELSE 3
    [] OTHER                    -> IF sg = 1 THEN 6 ELSE 2

\* setTLEComponents: NaN 0, infinities 1 and 7, zero 4, other numbers by their sign
\* and whether the exponent lies below the bias.
Kind(sg, m) ==
  CASE m = 0                    -> 4
    [] Exponent(m) = ExpMod - 1 -> IF Fraction(m) # 0 THEN 0 ELSE IF sg = 1 THEN 7 ELSE 1
    [] OTHER -> CASE sg = 0 /\ Exponent(m) >= Bias -> 2
                  [] sg = 0 /\ Exponent(m) < Bias  -> 3
                  [] sg = 1 /\ Exponent(m) < Bias  -> 5
                  [] sg = 1 /\ Exponent(m) >= Bias -> 6

SpecialKinds == {0, 1, 4, 7}

\* Mutant: the fold leaves out the number below the bias.
FoldWide(f, exponent) == LET d == exponent - Bias IN IF d < 0 THEN - d ELSE d

\* adjustExponent: 0, 1, ... from the bias up, and from below it down.
Fold(f, exponent) ==
  LET d == exponent - Bias
  IN  IF d < 0 \/ (f.upto /\ d = 0) THEN (- d - 1) % ExpMod ELSE d

FirstOne(w) == IF w = 0 THEN 0 ELSE CHOOSE b \in 0 .. Top + 1 : 2 ^ b <= w /\ w < 2 ^ (b + 1)

\* maskedNumber
Masked(f, m) == Fold(f, Exponent(m)) * FracMod + Fraction(m)

Zeros(f, w) == Min({Max({Top - FirstOne(w), 0}), f.zeroMax})

\* Mutant: with all zeros counted, one bit is passed over.
PrecisionShifted(f, w) ==
  (w \div 2 ^ (IF Zeros(f, w) = f.zeroMax THEN Max({Top - f.zeroMax - f.precision, 0})
               ELSE FirstOne(w) - f.precision)) % 2 ^ f.precision

\* The bits behind the first one, or behind the zeros if there are more than counted.
Precision(f, w) ==
  (w \div 2 ^ (IF Zeros(f, w) = f.zeroMax THEN Max({FirstOne(w) - f.precision, Top - f.zeroMax - f.precision + 1})
               ELSE FirstOne(w) - f.precision)) % 2 ^ f.precision

Code(f, sg, m) ==
  LET w == Masked(f, m)
  IN  [kind |-> Kind(sg, m), zeros |-> Zeros(f, w), precision |-> Precision(f, w)]

-----------------------------------------------------------------------------
\* The bits that a code knows of the number, from the exponent's first on.
BitsOf(f, c) ==
  IF c.zeros = f.zeroMax THEN [bits |-> c.precision, len |-> 1 + c.zeros + f.precision]
  ELSE [bits |-> 2 ^ f.precision + c.precision, len |-> 2 + c.zeros + f.precision]

\* Mutant: a negative exponent is not moved back by the one that the fold moved it.
ReconstructSymmetric(f, c) ==
  LET known    == BitsOf(f, c)
      rest     == known.len - ExpBits
      expField == IF rest >= 0 THEN known.bits \div 2 ^ rest ELSE known.bits * 2 ^ (- rest)
      fraction == IF rest >= 0 THEN (known.bits % 2 ^ rest) * 2 ^ (FracBits - rest) ELSE 0
  IN  Max({0, Min({IF c.kind \in {3, 5} THEN Bias - expField ELSE Bias + expField, ExpMod - 2})}) * FracMod
        + fraction

\* reConstruct: the bits that the code does not know are zero.
Reconstruct(f, c) ==
  LET known    == BitsOf(f, c)
      rest     == known.len - ExpBits
      expField == IF rest >= 0 THEN known.bits \div 2 ^ rest ELSE known.bits * 2 ^ (- rest)
      fraction == IF rest >= 0 THEN (known.bits % 2 ^ rest) * 2 ^ (FracBits - rest) ELSE 0
      exponent == IF c.kind \in {3, 5} THEN Bias - (expField + 1) ELSE Bias + expField
  IN  Max({0, Min({exponent, ExpMod - 2})}) * FracMod + fraction

\* The codes of one sign.  The table has no zero kinds: a code's kind is its two bits.
Codes(f, sg) == [kind : IF sg = 1 THEN {5, 6} ELSE {2, 3}, zeros : 0 .. f.zeroMax,
                 precision : 0 .. 2 ^ f.precision - 1]

\* buildTable: all codes, decoded.
Table == [f \in Forms |-> [sg \in 0 .. 1 |-> {Reconstruct(f, c) : c \in Codes(f, sg)}]]

-----------------------------------------------------------------------------
EncodingInit == form \in Forms /\ sign \in 0 .. 1 /\ number = 0 /\ left = {}

\* internal_8bit, internal_10bit and the 1D inserts: a number goes to its bin; a
\* special value has none.
FileNext ==
  /\ number < ExpMod * FracMod - 1
  /\ number' = number + 1
  /\ left' = IF Kind(sign, number) \in SpecialKinds \/ Code(form, sign, number') = Code(form, sign, number) THEN left
             ELSE left \cup {Code(form, sign, number)}
  /\ UNCHANGED <<form, sign>>

EncodingSpec == EncodingInit /\ [][FileNext]_encodingVars

-----------------------------------------------------------------------------
Here  == Code(form, sign, number)
HasBin == Kind(sign, number) \notin SpecialKinds

\* The code knows the whole exponent of the number; not so for the numbers nearest to
\* zero if the bits kept are fewer than the exponent's.
ExponentKnown == Exponent(number) >= Bias \/ BitsOf(form, Here).len >= ExpBits

(***************************************************************************)
(* A number's bin is the one with the next label towards zero, as all      *)
(* queries take it to be: no label lies between the bin's and the number.  *)
(* Where the code leaves out bits of a negative exponent, the bin's label  *)
(* is only known to be one of its numbers.                                 *)
(***************************************************************************)
LabelledByNearest ==
  (HasBin /\ ~ form.upto) =>
     LET label == Reconstruct(form, Here)
     IN  IF ExponentKnown THEN label = Max({l \in Table[form][sign] : l <= number})
         ELSE Code(form, sign, label) = Here

(***************************************************************************)
(* Numbers of one bin lie side by side: once the next number has gone to   *)
(* another bin, none further from zero comes back.  The fold of the 8-bit  *)
(* code is the exception: it files the numbers from the bias up to twice   *)
(* that with the greatest there are.                                       *)
(***************************************************************************)
BinsAreIntervals ==
  HasBin => \/ Here \notin left
            \/ form.upto /\ Here = Code(form, sign, Bias * FracMod)

(***************************************************************************)
(* A label is filed in its own bin, so a histogram of a histogram's labels *)
(* is that histogram; but for labels that are zero.                        *)
(***************************************************************************)
LabelsStay ==
  (HasBin /\ ~ form.upto) =>
     LET label == Reconstruct(form, Here) IN label = 0 \/ Code(form, sign, label) = Here

(***************************************************************************)
(* The table's order of bins is that of the numbers in them: as the number *)
(* grows, the label of its bin never comes closer to zero.                 *)
(***************************************************************************)
LabelsFollow ==
  [][(HasBin /\ HasBin' /\ ~ form.upto) => Reconstruct(form, Here) <= Reconstruct(form, Here')]_encodingVars

=============================================================================
