------------------------------ MODULE MCDocIndex ------------------------------
(* Small instances of the documents for TLC.                               *)
EXTENDS DocIndex, TLC

CONSTANTS d1, d2, ta, tb, tg, p1, p2, m1

MCLen      == [t \in AllTexts |-> IF t = tb THEN 2 ELSE 1]
MCDim      == [m \in Models |-> 1]
=============================================================================
