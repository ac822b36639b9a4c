---------------------------- MODULE MCVectorIndex ----------------------------
(* A small instance of the vector index for TLC: two vectors of either     *)
(* dimension, and a third that is zero; the two tables group them          *)
(* differently.                                                            *)
EXTENDS VectorIndex

CONSTANTS i1, i2, i3, v1, v2, z1, w1, w2, p1, pAll

MCIds        == {i1, i2, i3}
MCVecs       == {v1, v2, z1, w1, w2}
MCIdPrefixes == {p1, pAll}
MCIdsWith    == [p \in IdPrefixes |-> IF p = p1 THEN {i1, i2} ELSE Ids]
MCDimOf      == [v \in Vecs |-> IF v \in {v1, v2, z1} THEN 1 ELSE 2]
MCRounded    == [v \in Vecs |-> v]
MCCutOf      == [x \in MCIds \cup MCVecs \cup MCIdPrefixes |-> {}]
MCSigOf      == <<[v \in Vecs |-> IF v \in {v1, w1} THEN 0 ELSE 1],
                  [v \in Vecs |-> IF v \in {z1, w1, w2} THEN 1 ELSE 0]>>
MCScore      == [q \in Vecs |-> [v \in Vecs |->
                   IF v = z1 THEN 0 ELSE IF v = q THEN 2 ELSE 1]]
=============================================================================
