---------------------------- MODULE MC_GridQuery ----------------------------
(* Sixteen bins, eight on each side of zero, with codes of a size bit and a  *)
(* digit for each of the four ordinary kinds; numbers on labels, between and *)
(* beyond them, zero, infinities and NaN; ranges that begin and end in all   *)
(* these places.  The first thread asks for anything, the second one for a   *)
(* grid that is open on both axes or on none.                                *)
EXTENDS GridQuery

MC_High == 99
MC_Low  == -99

Positive == <<1, 2, 3, 4, 6, 8, 12, 16>>
MC_Labels == [i \in 0 .. 15 |-> IF i < 8 THEN - Positive[8 - i] ELSE Positive[i - 7]]

\* Codes grow towards zero below the bias and away from it above.
MC_CodeOf ==
  [i \in 0 .. 15 |->
     LET k == IF i < 8 THEN 8 - i ELSE i - 7
     IN  [kind |-> IF k <= 4 THEN (IF i < 8 THEN 5 ELSE 3) ELSE (IF i < 8 THEN 6 ELSE 2),
          code |-> Bits(IF k <= 4 THEN 4 - k ELSE k - 5, 2)]]

MC_Points == {<<-13, 3>>, <<7, 7>>, <<0, 8>>, <<MC_Low, 7>>, <<3, -2>>, <<MC_High, 0>>,
              <<100, 7>>, <<20, -16>>}

Linear(lo, hi, steps) == [min |-> lo, max |-> hi, steps |-> steps, mult |-> FALSE]
Mult(lo, hi, steps)   == [min |-> lo, max |-> hi, steps |-> steps, mult |-> TRUE]
Ask(x, y, maxCells)   == [axes |-> <<x, y>>, maxCells |-> maxCells]

FirstAxes == {Linear(-14, 20, 3), Linear(-16, 12, 2), Linear(0, 9, 1), Linear(-2, 0, 4),
              Linear(7, 7, 2), Linear(MC_Low, MC_Low, 1), Linear(MC_Low, 7, 2),
              Linear(7, MC_High, 3), Linear(MC_Low, MC_High, 9),
              Mult(1, 16, 3), Mult(2, MC_High, 2), Mult(MC_Low, 12, 2)}

SecondAxes == {Linear(-20, 50, 2), Linear(MC_Low, MC_High, 2), Mult(2, 13, 2), Linear(-1, 1, 3)}

OpenAsk == Ask(Linear(MC_Low, MC_High, 2), Linear(MC_Low, 6, 2), 100)

Refused == {Ask(Linear(1, 4, 0), Linear(1, 4, 1), 9), Ask(Linear(4, 1, 1), Linear(1, 4, 1), 9),
            Ask(Linear(1, 4, 1), Linear(1, 100, 1), 9), Ask(Mult(0, 4, 1), Linear(1, 4, 1), 9),
            Ask(Linear(1, 4, 1), Linear(1, 4, 1), 0), Ask(Linear(-14, 20, 4), Linear(-14, 20, 4), 30),
            [axes |-> <<Linear(1, 4, 1)>>, maxCells |-> 9]}

MC_Asks == [t \in 1 .. 2 |-> IF t = 1 THEN {Ask(x, Linear(-20, 50, 2), 100) : x \in FirstAxes}
                                  \cup {Ask(Linear(-14, 20, 3), y, 100) : y \in SecondAxes} \cup Refused
                             ELSE {OpenAsk, Ask(Linear(-4, 9, 2), Linear(-4, 9, 2), 100)}]

MC_LevelBits == <<2, 2>>
=============================================================================
