------------------------- MODULE MC_GenerateLengths -------------------------
(* Generation in 3D, whose length check is "all": arrays of up to two       *)
(* elements, two kinds of which 0 is special.                               *)
EXTENDS Generate

MC_Bins   == <<8, 2, 2, 2>>
MC_Depth  == [i \in 0 .. 7 |-> 1 + (i \div 4) + ((i \div 2) % 2) + (i % 2)]
MC_Values == {[kind |-> 0, code |-> <<>>], [kind |-> 1, code |-> <<0>>], [kind |-> 1, code |-> <<1>>]}
MC_Widths == <<1, 1, 1>>
=============================================================================
