------------------------------ MODULE MCReindex -------------------------------
(* Small instances of the rebuild beside live requests for TLC.            *)
EXTENDS Reindex, TLC

CONSTANTS d1, d2, ta, tb, tg, p1, p2, m1, m2, m3

(* tb has two chunks; m1 and m2 have one dimension, m3 another.            *)
MCLen      == [t \in AllTexts |-> IF t = tb THEN 2 ELSE 1]
MCDim      == [m \in Models |-> IF m = m3 THEN 2 ELSE 1]
MCRank     == [d \in Docs |-> IF d = d1 THEN 0 ELSE 1]
=============================================================================
