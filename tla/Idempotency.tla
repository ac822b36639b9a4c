----------------------------- MODULE Idempotency -----------------------------
(***************************************************************************)
(* Requests with an Idempotency-Key: handleIdempotentRequest in            *)
(* gateway/index.js and the statements it runs on the idempotency_keys     *)
(* table (gateway/db.js).  Rows of different keys have nothing to do with  *)
(* each other, so this is one row and the requests that carry its key.     *)
(*                                                                         *)
(* Every statement is a step of its own: between two of them the request   *)
(* waits for Postgres and others run.                                      *)
(***************************************************************************)
EXTENDS Integers, FiniteSets

CONSTANTS Requests,
          PayloadOf,   \* request -> what its payload hashes to
          Ttl,         \* IDEMPOTENCY_TTL_MS
          Skew,        \* the gateway's clock minus the database's
          MaxRun,      \* bound: how long a request holds the row
          Latency,     \* bound: how long a record that was read is on its way
          Failing,     \* the requests that may fail
          MaxTime,     \* bound: ticks of the clock
          KeyReused, InProgress,  \* the two refusals, both status 409
          None         \* no hash, no answer, no reply

ASSUME IdempotencyAssumption ==
  /\ Ttl \in Int /\ Skew \in Int
  /\ MaxRun \in Nat /\ Latency \in Nat /\ MaxTime \in Nat
  /\ Failing \subseteq Requests

Payloads == {PayloadOf[r] : r \in Requests}

(* What a handler returns: whose run it was and whether it did its write   *)
(* or caught an error, which is an answer like any other.                  *)
Answers == [by: Requests, ok: BOOLEAN]
Refusals == {KeyReused, InProgress}

ASSUME NamesAssumption == /\ None \notin Payloads \cup Answers \cup Refusals
                          /\ Answers \cap Refusals = {}

VARIABLES
  row,    \* the row: status, request_hash, response_body, updated_at
  pc,     \* per request: the statement it is at
  seen,   \* per request: the record it read
  result, \* per request: what its handler returned
  since,  \* per request: when it got to where it is
  reply,  \* per request: what its client was told
  now     \* the clock of the database

ivars == <<row, pc, seen, result, since, reply, now>>

Statuses == {"none", "in_progress", "completed"}
Rows == [status: Statuses, hash: Payloads \cup {None},
         body: Answers \cup {None}, at: Nat]
NoRow == [status |-> "none", hash |-> None, body |-> None, at |-> 0]
Places == {"new", "get", "judge", "touch", "handler", "complete", "done"}

(* The type invariant. *)
IdemTypeOK ==
  /\ row \in Rows
  /\ pc \in [Requests -> Places]
  /\ seen \in [Requests -> Rows]
  /\ result \in [Requests -> Answers \cup {None}]
  /\ since \in [Requests -> Nat]
  /\ reply \in [Requests -> Answers \cup Refusals \cup {None}]
  /\ now \in Nat

Init ==
  /\ row = NoRow
  /\ pc = [r \in Requests |-> "new"]
  /\ seen = [r \in Requests |-> NoRow]
  /\ result = [r \in Requests |-> None]
  /\ since = [r \in Requests |-> 0]
  /\ reply = [r \in Requests |-> None]
  /\ now = 0

-----------------------------------------------------------------------------
Goto(r, place) == pc' = [pc EXCEPT ![r] = place] /\ since' = [since EXCEPT ![r] = now]
Tell(r, x)     == reply' = [reply EXCEPT ![r] = x] /\ Goto(r, "done")

Held(r) == [status |-> "in_progress", hash |-> PayloadOf[r], body |-> None, at |-> now]

(* Mutant: the insert overwrites the row of another payload.               *)
BeginUpserts(r) ==
  /\ pc[r] = "new"
  /\ IF row.status = "none" \/ row.hash # PayloadOf[r]
     THEN row' = Held(r) /\ Goto(r, "handler")
     ELSE Goto(r, "get") /\ UNCHANGED row
  /\ UNCHANGED <<seen, result, reply, now>>

(* INSERT ... ON CONFLICT DO NOTHING.                                      *)
Begin(r) ==
  /\ pc[r] = "new"
  /\ IF row.status = "none"
     THEN row' = Held(r) /\ Goto(r, "handler")
     ELSE Goto(r, "get") /\ UNCHANGED row
  /\ UNCHANGED <<seen, result, reply, now>>

GetKey(r) ==
  /\ pc[r] = "get"
  /\ seen' = [seen EXCEPT ![r] = row]
  /\ Goto(r, "judge")
  /\ UNCHANGED <<row, result, reply, now>>

(* Mutant: a completed answer is given before the hashes are compared.     *)
JudgeAnswersFirst(r) ==
  /\ pc[r] = "judge"
  /\ LET s == seen[r]
     IN  IF s.status = "completed" /\ s.body # None THEN Tell(r, s.body)
         ELSE IF s.hash # PayloadOf[r] THEN Tell(r, KeyReused)
         ELSE IF s.status = "in_progress" /\ Ttl > 0 /\ now + Skew - s.at < Ttl
              THEN Tell(r, InProgress)
         ELSE Goto(r, "touch") /\ UNCHANGED reply
  /\ UNCHANGED <<row, seen, result, now>>

(* Mutant: only the hash and the answer count, not who is still at work.   *)
JudgeForgetsProgress(r) ==
  /\ pc[r] = "judge"
  /\ LET s == seen[r]
     IN  IF s.hash # PayloadOf[r] THEN Tell(r, KeyReused)
         ELSE IF s.status = "completed" /\ s.body # None THEN Tell(r, s.body)
         ELSE Goto(r, "touch") /\ UNCHANGED reply
  /\ UNCHANGED <<row, seen, result, now>>

(* Another payload, an answer to repeat, somebody at work for less than    *)
(* the time to live, or a row to take over.                                *)
Judge(r) ==
  /\ pc[r] = "judge"
  /\ LET s == seen[r]
     IN  IF s.hash # PayloadOf[r] THEN Tell(r, KeyReused)
         ELSE IF s.status = "completed" /\ s.body # None THEN Tell(r, s.body)
         ELSE IF s.status = "in_progress" /\ Ttl > 0 /\ now + Skew - s.at < Ttl
              THEN Tell(r, InProgress)
         ELSE Goto(r, "touch") /\ UNCHANGED reply
  /\ UNCHANGED <<row, seen, result, now>>

(* The row is taken over whatever has become of it since it was read.      *)
Touch(r) ==
  /\ pc[r] = "touch"
  /\ row' = [row EXCEPT !.status = "in_progress", !.at = now]
  /\ Goto(r, "handler")
  /\ UNCHANGED <<seen, result, reply, now>>

(* The handler writes, or catches an error and makes an answer of it.      *)
Handler(r) ==
  /\ pc[r] = "handler"
  /\ \E ok \in BOOLEAN : result' = [result EXCEPT ![r] = [by |-> r, ok |-> ok]]
  /\ pc' = [pc EXCEPT ![r] = "complete"]
  /\ UNCHANGED <<row, seen, since, reply, now>>

(* Mutant: an error is not kept as the answer of the key.                  *)
CompleteForgetsErrors(r) ==
  /\ pc[r] = "complete"
  /\ row' = IF result[r].ok
            THEN [row EXCEPT !.status = "completed", !.body = result[r], !.at = now]
            ELSE NoRow
  /\ Tell(r, result[r])
  /\ UNCHANGED <<seen, result, now>>

(* The answer is recorded, then sent.                                      *)
Complete(r) ==
  /\ pc[r] = "complete"
  /\ row' = [row EXCEPT !.status = "completed", !.body = result[r], !.at = now]
  /\ Tell(r, result[r])
  /\ UNCHANGED <<seen, result, now>>

(* A statement fails or the gateway dies: nobody hears of the request any  *)
(* more, and the row stays as it is.                                       *)
Fail(r) ==
  /\ r \in Failing /\ pc[r] # "done"
  /\ Goto(r, "done")
  /\ UNCHANGED <<row, seen, result, reply, now>>

(* Time passes, but not past the bounds on how long a step takes.          *)
InTime(r) ==
  /\ pc[r] \in {"handler", "complete"} => now - since[r] < MaxRun
  /\ pc[r] \in {"judge", "touch"} => now - since[r] < Latency

Tick ==
  /\ now < MaxTime
  /\ \A r \in Requests : InTime(r)
  /\ now' = now + 1
  /\ UNCHANGED <<row, pc, seen, result, since, reply>>

Next ==
  \/ \E r \in Requests : \/ Begin(r) \/ GetKey(r) \/ Judge(r) \/ Touch(r)
                         \/ Handler(r) \/ Complete(r) \/ Fail(r)
  \/ Tick

Spec == Init /\ [][Next]_ivars

-----------------------------------------------------------------------------
AtWork == {r \in Requests : pc[r] \in {"handler", "complete"}}

(* A key belongs to the payload it was first used with: no other payload   *)
(* gets to its handler, and nobody is given the answer to another one.     *)
OnePayloadPerKey ==
  \A r \in Requests :
    /\ r \in AtWork => PayloadOf[r] = row.hash
    /\ reply[r] \in Answers => PayloadOf[reply[r].by] = PayloadOf[r]

(* "Request already in progress": while one request is at work on a key,   *)
(* no other is.                                                            *)
AtMostOneAtWork == \A r, s \in AtWork : r = s

(* "hard guarantees for writes": all requests that are answered get the    *)
(* answer of one and the same run of the handler.                          *)
OneAnswerPerKey ==
  \A r, s \in Requests : reply[r] \in Answers /\ reply[s] \in Answers => reply[r] = reply[s]

(* The keyed requests implement AnswerOnce: the first payload owns the     *)
(* key, it is answered once, and every later request is told that answer,  *)
(* that it is under way, or that the key is another payload's.             *)
Once == INSTANCE AnswerOnce WITH owner <- row.hash, answer <- row.body, told <- reply
ImplementsAnswerOnce == Once!Spec
=============================================================================
