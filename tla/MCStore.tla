------------------------------- MODULE MCStore -------------------------------
(* Small instances of the store for TLC.                                   *)
EXTENDS StoreRefinement

CONSTANTS i1, i2, v1, v1x, v2, p1, pAll

(* v1x is v1 with more decimals than the log keeps; v2 has two dimensions. *)
MCIds      == {i1, i2}
MCVecs     == {v1, v1x, v2}
MCOneId    == {i1}
MCRoundVecs == {v1, v1x}
MCTwoDims  == {v1, v2}
MCOneVec   == {v1}
MCOnePrefix == {pAll}
MCDimOf    == [v \in Vecs |-> IF v = v2 THEN 2 ELSE 1]
MCRounded  == [v \in Vecs |-> IF v = v1x THEN v1 ELSE v]
MCIdPrefixes == {p1, pAll}
MCIdsWith  == [p \in IdPrefixes |-> IF p = p1 THEN {i1} ELSE Ids]
MCCutOf    == [x \in Keys \cup Vals \cup Ttls \cup MCIds \cup MCVecs \cup MCIdPrefixes |-> {}]
(* Cut short, the id i2 reads i1.                                          *)
MCTornCutOf == [MCCutOf EXCEPT ![i2] = {i1}]
MCSymmetry == Permutations(Clients)
=============================================================================
