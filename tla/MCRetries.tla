------------------------------ MODULE MCRetries -----------------------------
(* Small instances, for TLC, of two parts that share nothing, in which     *)
(* work is done again after a failure: the keyed requests and the          *)
(* compactions.  A behaviour is one part's; the other rests.               *)
EXTENDS Idempotency, Compaction, TLC

CONSTANTS r1, r2, o1, o2, p, pOther

VARIABLE part

(* Requests of two payloads with one key.                                  *)
MCMixed     == {r1, r2, o1, o2}
MCPayloadOf == [r \in Requests |-> IF r \in {o1, o2} THEN pOther ELSE p]
MCSymmetry  == Permutations({r1, r2})

RetriesInit == part \in {"requests", "compactions"} /\ Init /\ CompactionInit

RetriesNext ==
  /\ UNCHANGED part
  /\ \/ part = "requests" /\ Next /\ UNCHANGED ovars
     \/ part = "compactions" /\ CompactionNext /\ UNCHANGED ivars

RetriesSpec == RetriesInit /\ [][RetriesNext]_<<part, ivars, ovars>>

(* Bound: what follows once a task has begun beside its own summary, where *)
(* NothingLost promises nothing, is not explored.                          *)
FirstSummaries == again = {}
=============================================================================
