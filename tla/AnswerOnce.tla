----------------------------- MODULE AnswerOnce -----------------------------
(***************************************************************************)
(* What an idempotency key promises to the clients that use it: it belongs *)
(* to the first payload it is used with, that payload is answered once,    *)
(* and whoever asks again is told the same answer.                         *)
(***************************************************************************)
CONSTANTS Requests, PayloadOf, KeyReused, InProgress, None

VARIABLES owner,   \* the payload the key belongs to
          answer,  \* its answer
          told     \* what each request was told

avars == <<owner, answer, told>>

Init == /\ owner = None
        /\ answer = None
        /\ told = [r \in Requests |-> None]

Take(r) == /\ owner = None
           /\ owner' = PayloadOf[r]
           /\ UNCHANGED <<answer, told>>

(* The request that did the work is told its answer as it is recorded.     *)
Settle(r) == /\ owner = PayloadOf[r] /\ answer = None /\ told[r] = None
             /\ \E ok \in BOOLEAN : answer' = [by |-> r, ok |-> ok]
             /\ told' = [told EXCEPT ![r] = answer']
             /\ UNCHANGED owner

Refuse(r) == /\ owner # None /\ told[r] = None
             /\ told' = [told EXCEPT ![r] =
                           IF owner = PayloadOf[r] THEN InProgress ELSE KeyReused]
             /\ UNCHANGED <<owner, answer>>

Repeat(r) == /\ owner = PayloadOf[r] /\ answer # None /\ told[r] = None
             /\ told' = [told EXCEPT ![r] = answer]
             /\ UNCHANGED <<owner, answer>>

Next == \E r \in Requests : Take(r) \/ Settle(r) \/ Refuse(r) \/ Repeat(r)

Spec == Init /\ [][Next]_avars
=============================================================================
