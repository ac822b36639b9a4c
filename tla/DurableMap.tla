----------------------------- MODULE DurableMap -----------------------------
(***************************************************************************)
(* What the vector store promises about its vectors with VECTOR_WAL on: a  *)
(* map that is at most one command ahead of what is recorded.  A process   *)
(* crash takes it back to the recorded map, a host crash to one of the     *)
(* maps recorded since the disk last caught up.  Recording goes through    *)
(* text, which rounds the vectors.                                         *)
(***************************************************************************)
CONSTANTS Ids, Vecs, NoVec, Rounded

VARIABLES live,       \* what searches see
          recorded,   \* what the log holds
          mayReturn   \* the maps a host crash can bring back

dvars == <<live, recorded, mayReturn>>

Text(m) == [i \in Ids |-> IF m[i] = NoVec THEN NoVec ELSE Rounded[m[i]]]

Init == /\ live = [i \in Ids |-> NoVec]
        /\ recorded = live
        /\ mayReturn = {live}

(* A command changes one vector or drops some, once the one before it has  *)
(* been recorded.                                                          *)
Change ==
  /\ Text(live) = recorded
  /\ \/ \E i \in Ids, v \in Vecs : live' = [live EXCEPT ![i] = v]
     \/ \E S \in SUBSET Ids : live' = [i \in Ids |-> IF i \in S THEN NoVec ELSE live[i]]
  /\ UNCHANGED <<recorded, mayReturn>>

Record ==
  /\ recorded' = Text(live)
  /\ mayReturn' = mayReturn \cup {recorded'}
  /\ UNCHANGED live

(* The disk catches up, with some of the recorded maps or all of them.     *)
Sync ==
  /\ mayReturn' \subseteq mayReturn
  /\ recorded \in mayReturn'
  /\ UNCHANGED <<live, recorded>>

ProcessCrash ==
  /\ live' = recorded
  /\ UNCHANGED <<recorded, mayReturn>>

HostCrash ==
  /\ \E m \in mayReturn : live' = m /\ recorded' = m /\ mayReturn' = {m}

Next == Change \/ Record \/ Sync \/ ProcessCrash \/ HostCrash

Spec == Init /\ [][Next]_dvars
=============================================================================
