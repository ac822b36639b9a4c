--------------------------- MODULE RetriesProofs ---------------------------
(***************************************************************************)
(* Theorems about the two parts that MCRetries puts side by side, for      *)
(* every value of their constants: the requests with an idempotency key,   *)
(* and the compactions, with any number of notes, jobs, attempts,          *)
(* deletions by requests and faults.                                       *)
(***************************************************************************)
EXTENDS Idempotency, Compaction, TLAPS

-----------------------------------------------------------------------------
(* Types.                                                                  *)

(* IdemTypeOK, the type invariant of the requests and their row, holds in  *)
(* every reachable state.                                                  *)
THEOREM IdemTypeCorrect == Spec => []IdemTypeOK
<1> USE IdempotencyAssumption DEF IdemTypeOK, Rows, Statuses, Places, Answers, Refusals
<1>1. Init => IdemTypeOK
  BY DEF Init, NoRow
<1>2. IdemTypeOK /\ [Next]_ivars => IdemTypeOK'
  <2> SUFFICES ASSUME IdemTypeOK, [Next]_ivars PROVE IdemTypeOK'
    OBVIOUS
  <2>1. ASSUME NEW r \in Requests, Begin(r) PROVE IdemTypeOK'
    BY <2>1 DEF Begin, Goto, Held, Payloads
  <2>2. ASSUME NEW r \in Requests, GetKey(r) PROVE IdemTypeOK'
    BY <2>2 DEF GetKey, Goto
  <2>3. ASSUME NEW r \in Requests, Judge(r) PROVE IdemTypeOK'
    BY <2>3 DEF Judge, Goto, Tell
  <2>4. ASSUME NEW r \in Requests, Touch(r) PROVE IdemTypeOK'
    BY <2>4 DEF Touch, Goto
  <2>5. ASSUME NEW r \in Requests, Handler(r) PROVE IdemTypeOK'
    BY <2>5 DEF Handler
  <2>6. ASSUME NEW r \in Requests, Complete(r) PROVE IdemTypeOK'
    BY <2>6 DEF Complete, Goto, Tell
  <2>7. ASSUME NEW r \in Requests, Fail(r) PROVE IdemTypeOK'
    BY <2>7 DEF Fail, Goto
  <2>8. CASE Tick
    BY <2>8 DEF Tick
  <2>9. CASE UNCHANGED ivars
    BY <2>9 DEF ivars
  <2> QED BY <2>1, <2>2, <2>3, <2>4, <2>5, <2>6, <2>7, <2>8, <2>9 DEF Next
<1> QED BY <1>1, <1>2, PTL DEF Spec

-----------------------------------------------------------------------------
(* One payload per key.  Once there is a row its hash never changes, and   *)
(* whoever got past the comparison of hashes has that hash.                *)

OwnerInv ==
  /\ row.status = "none" <=> row.hash = None
  /\ row.body # None => PayloadOf[row.body.by] = row.hash
  /\ \A r \in Requests :
       /\ pc[r] \in {"get", "judge", "touch", "handler", "complete"} => row.status # "none"
       /\ pc[r] \in {"touch", "handler", "complete"} => PayloadOf[r] = row.hash
       /\ pc[r] = "judge" => /\ seen[r].hash = row.hash
                             /\ seen[r].body # None => PayloadOf[seen[r].body.by] = row.hash
       /\ pc[r] = "complete" => result[r] \in Answers /\ result[r].by = r
       /\ reply[r] \in Answers => PayloadOf[reply[r].by] = PayloadOf[r]

LEMMA OwnerInit == Init => OwnerInv
BY NamesAssumption DEF Init, OwnerInv, NoRow, Answers

LEMMA OwnerStep ==
  ASSUME IdemTypeOK, OwnerInv, [Next]_ivars
  PROVE  OwnerInv'
<1> USE NamesAssumption DEF IdemTypeOK, OwnerInv, Rows, Places, Refusals
<1>1. ASSUME NEW r \in Requests, Begin(r) PROVE OwnerInv'
  <2>1. CASE row.status = "none"
    <3>1. \A s \in Requests : pc[s] \in {"new", "done"}
      BY <2>1
    <3>2. row' = Held(r) /\ pc' = [pc EXCEPT ![r] = "handler"]
      BY <1>1, <2>1 DEF Begin, Goto
    <3>3. PayloadOf[r] # None
      BY DEF Payloads
    <3> QED BY <1>1, <3>1, <3>2, <3>3 DEF Begin, Held
  <2>2. CASE row.status # "none"
    BY <1>1, <2>2 DEF Begin, Goto
  <2> QED BY <2>1, <2>2
<1>2. ASSUME NEW r \in Requests, GetKey(r) PROVE OwnerInv'
  BY <1>2 DEF GetKey, Goto
<1>3. ASSUME NEW r \in Requests, Judge(r) PROVE OwnerInv'
  BY <1>3 DEF Judge, Goto, Tell, Answers
<1>4. ASSUME NEW r \in Requests, Touch(r) PROVE OwnerInv'
  BY <1>4 DEF Touch, Goto
<1>5. ASSUME NEW r \in Requests, Handler(r) PROVE OwnerInv'
  BY <1>5 DEF Handler, Answers
<1>6. ASSUME NEW r \in Requests, Complete(r) PROVE OwnerInv'
  BY <1>6 DEF Complete, Goto, Tell
<1>7. ASSUME NEW r \in Requests, Fail(r) PROVE OwnerInv'
  BY <1>7 DEF Fail, Goto
<1>8. CASE Tick
  BY <1>8 DEF Tick
<1>9. CASE UNCHANGED ivars
  BY <1>9 DEF ivars
<1> QED BY <1>1, <1>2, <1>3, <1>4, <1>5, <1>6, <1>7, <1>8, <1>9 DEF Next

LEMMA OwnerAlways == Spec => []OwnerInv
<1>1. IdemTypeOK /\ OwnerInv /\ [Next]_ivars => OwnerInv'
  BY OwnerStep
<1> QED BY OwnerInit, <1>1, IdemTypeCorrect, PTL DEF Spec

(* OnePayloadPerKey: a key belongs to the payload it was first used with,  *)
(* whatever fails and however long anything takes.                         *)
THEOREM KeyHasOnePayload == Spec => []OnePayloadPerKey
<1>1. OwnerInv => OnePayloadPerKey
  BY DEF OwnerInv, OnePayloadPerKey, AtWork
<1> QED BY <1>1, OwnerAlways, PTL

-----------------------------------------------------------------------------
(* One request at work.  This needs that a record that says "in progress"  *)
(* is judged before it looks too old, and that of the requests with the    *)
(* payload of one that may fail there is at most one other: its retry.     *)

Timely   == Ttl > 0 /\ MaxRun + Latency + Skew < Ttl
OneRetry ==
  \A f \in Failing : \A r, s \in Requests \ {f} :
    PayloadOf[r] = PayloadOf[f] /\ PayloadOf[s] = PayloadOf[f] => r = s

(* r has only to take over: all others with its payload are done, and the  *)
(* row was left without an answer.                                         *)
Resuming(r) ==
  /\ row.status = "in_progress" /\ row.body = None /\ row.hash = PayloadOf[r]
  /\ \A s \in Requests \ {r} : PayloadOf[s] = PayloadOf[r] => pc[s] = "done"

WorkInv ==
  /\ row.status = "completed" <=> row.body # None
  /\ row.status = "in_progress" /\ AtWork = {}
       => \E f \in Failing : PayloadOf[f] = row.hash /\ pc[f] = "done"
  /\ \A r \in AtWork : /\ row.status = "in_progress"
                       /\ since[r] = row.at
                       /\ now - since[r] <= MaxRun
                       /\ \A s \in AtWork : r = s
  /\ \A r \in Requests :
       /\ pc[r] = "touch" => Resuming(r)
       /\ since[r] <= now
       /\ pc[r] = "judge" =>
            /\ now - since[r] <= Latency
            /\ seen[r].status = "completed" => seen[r].body # None /\ seen[r].body = row.body
            /\ seen[r].status = "in_progress" /\ seen[r].hash = PayloadOf[r]
                 => since[r] - seen[r].at <= MaxRun \/ Resuming(r)
            /\ seen[r].status # "none"
       /\ pc[r] # "done" => reply[r] = None
       /\ reply[r] \in Answers => reply[r] = row.body

LEMMA WorkInit == Init => WorkInv
BY IdempotencyAssumption, NamesAssumption DEF Init, WorkInv, NoRow, AtWork, Answers

(* A record that says "in progress" is young, or its request is done.      *)
LEMMA JudgeDecides ==
  ASSUME Timely, IdemTypeOK, OwnerInv, WorkInv, NEW r \in Requests, Judge(r)
  PROVE  \/ /\ \/ row.hash # PayloadOf[r] /\ reply' = [reply EXCEPT ![r] = KeyReused]
               \/ row.hash = PayloadOf[r] /\ reply' = [reply EXCEPT ![r] = InProgress]
               \/ /\ row.body # None /\ row.hash = PayloadOf[r]
                  /\ reply' = [reply EXCEPT ![r] = row.body]
            /\ Goto(r, "done")
         \/ Resuming(r) /\ Goto(r, "touch") /\ UNCHANGED reply
<1>1. /\ pc[r] = "judge" /\ seen[r].hash = row.hash
      /\ now \in Nat /\ since[r] \in Nat /\ seen[r] \in Rows
  BY DEF Judge, IdemTypeOK, OwnerInv
<1>2. seen[r].status \in {"in_progress", "completed"} /\ seen[r].at \in Nat
  BY <1>1 DEF WorkInv, Rows, Statuses
<1>3. CASE seen[r].hash # PayloadOf[r]
  BY <1>1, <1>3 DEF Judge, Tell
<1>4. CASE seen[r].hash = PayloadOf[r] /\ seen[r].status = "in_progress"
  <2>1. CASE Resuming(r)
    BY <1>1, <1>4, <2>1 DEF Judge, Tell
  <2>2. CASE ~Resuming(r)
    <3>1. now + Skew - seen[r].at < Ttl
      BY <1>1, <1>2, <1>4, <2>2, IdempotencyAssumption DEF WorkInv, Timely
    <3> QED BY <1>1, <1>4, <3>1 DEF Judge, Tell, Timely
  <2> QED BY <2>1, <2>2
<1>5. CASE seen[r].hash = PayloadOf[r] /\ seen[r].status = "completed"
  BY <1>1, <1>5 DEF Judge, Tell, WorkInv
<1> QED BY <1>2, <1>3, <1>4, <1>5

(* Whoever takes over goes on being the only one, until the row changes.   *)
LEMMA ResumingStays ==
  ASSUME UNCHANGED row, NEW r \in Requests, Resuming(r),
         \A s \in Requests : pc[s] = "done" => pc'[s] = "done"
  PROVE  Resuming(r)'
BY DEF Resuming

(* While one takes over nobody else begins, is at work or takes over.      *)
LEMMA ResumingAlone ==
  ASSUME IdemTypeOK, OwnerInv, NEW r \in Requests, Resuming(r), NEW s \in Requests, s # r
  PROVE  pc[s] \notin {"touch", "handler", "complete"}
BY DEF Resuming, OwnerInv

LEMMA WorkStep ==
  ASSUME Timely, OneRetry, IdemTypeOK, OwnerInv, WorkInv, [Next]_ivars
  PROVE  WorkInv'
<1> USE IdempotencyAssumption, NamesAssumption
<1>0. /\ now \in Nat /\ since \in [Requests -> Nat] /\ row \in Rows
      /\ pc \in [Requests -> Places] /\ seen \in [Requests -> Rows]
      /\ reply \in [Requests -> Answers \cup Refusals \cup {None}]
  BY DEF IdemTypeOK
<1>a. ASSUME NEW r \in Requests, pc[r] # "done", row.status = "in_progress", AtWork = {},
             row.hash = PayloadOf[r]
      PROVE  Resuming(r)
  <2>1. PICK f \in Failing : PayloadOf[f] = row.hash /\ pc[f] = "done"
    BY <1>a DEF WorkInv
  <2>2. \A s \in Requests \ {r} : PayloadOf[s] = PayloadOf[r] => s = f
    BY <1>a, <2>1 DEF OneRetry
  <2>3. row.body = None
    BY <1>a DEF WorkInv
  <2> QED BY <1>a, <2>1, <2>2, <2>3 DEF Resuming
<1>1. ASSUME NEW r \in Requests, Begin(r) PROVE WorkInv'
  <2>1. CASE row.status = "none"
    <3>1. \A s \in Requests : pc[s] \in {"new", "done"}
      BY <1>0, <2>1 DEF OwnerInv, Places
    <3>2. row' = Held(r) /\ pc' = [pc EXCEPT ![r] = "handler"]
          /\ since' = [since EXCEPT ![r] = now] /\ UNCHANGED <<seen, reply, now>>
      BY <1>1, <2>1 DEF Begin, Goto
    <3>3. AtWork' = {r}
      BY <1>0, <3>1, <3>2 DEF AtWork
    <3>4. row.body = None /\ \A s \in Requests : reply[s] \notin Answers
      BY <2>1 DEF WorkInv, Answers
    <3> QED BY <1>0, <1>1, <3>1, <3>2, <3>3, <3>4 DEF WorkInv, Held, Begin, Rows
  <2>2. CASE row.status # "none"
    <3>0. /\ pc[r] = "new" /\ pc' = [pc EXCEPT ![r] = "get"] /\ since' = [since EXCEPT ![r] = now]
          /\ UNCHANGED <<row, seen, result, reply, now>>
      BY <1>1, <2>2 DEF Begin, Goto
    <3>1. AtWork' = AtWork
      BY <1>0, <3>0 DEF AtWork
    <3>2. \A s \in Requests : Resuming(s) => Resuming(s)'
      BY <1>0, <3>0, ResumingStays
    <3> QED BY <1>0, <3>0, <3>1, <3>2 DEF WorkInv, AtWork
  <2> QED BY <2>1, <2>2
<1>2. ASSUME NEW r \in Requests, GetKey(r) PROVE WorkInv'
  <2>0. /\ pc[r] = "get" /\ pc' = [pc EXCEPT ![r] = "judge"] /\ since' = [since EXCEPT ![r] = now]
        /\ seen' = [seen EXCEPT ![r] = row] /\ UNCHANGED <<row, result, reply, now>>
    BY <1>2 DEF GetKey, Goto
  <2>1. AtWork' = AtWork
    BY <1>0, <2>0 DEF AtWork
  <2>2. row.status # "none"
    BY <2>0 DEF OwnerInv
  <2>3. row.status = "in_progress" /\ row.hash = PayloadOf[r] => now - row.at <= MaxRun \/ Resuming(r)
    BY <1>0, <1>a, <2>0 DEF WorkInv, AtWork
  <2>4. \A s \in Requests : Resuming(s) => Resuming(s)'
    BY <1>0, <2>0, ResumingStays
  <2> QED BY <1>0, <2>0, <2>1, <2>2, <2>3, <2>4 DEF WorkInv, AtWork
<1>3. ASSUME NEW r \in Requests, Judge(r) PROVE WorkInv'
  <2>1. pc[r] = "judge" /\ UNCHANGED <<row, seen, now>>
    BY <1>3 DEF Judge
  <2>2. PICK place \in {"done", "touch"} :
          /\ pc' = [pc EXCEPT ![r] = place] /\ since' = [since EXCEPT ![r] = now]
          /\ place = "touch" => Resuming(r) /\ UNCHANGED reply
          /\ place = "done" => \E x \in Refusals \cup {row.body} : reply' = [reply EXCEPT ![r] = x]
    BY <1>3, JudgeDecides DEF Goto, Refusals
  <2>3. AtWork' = AtWork
    BY <1>0, <2>1, <2>2 DEF AtWork
  <2>4. \A s \in Requests : Resuming(s) => Resuming(s)'
    BY <1>0, <2>1, <2>2, ResumingStays
  <2>5. CASE place = "touch"
    BY <1>0, <2>1, <2>2, <2>3, <2>4, <2>5 DEF WorkInv, AtWork
  <2>6. CASE place = "done"
    BY <1>0, <2>1, <2>2, <2>3, <2>4, <2>6 DEF WorkInv, AtWork
  <2> QED BY <2>5, <2>6
<1>4. ASSUME NEW r \in Requests, Touch(r) PROVE WorkInv'
  <2>1. /\ pc[r] = "touch" /\ pc' = [pc EXCEPT ![r] = "handler"]
        /\ since' = [since EXCEPT ![r] = now] /\ UNCHANGED <<seen, reply, now>>
    BY <1>4 DEF Touch, Goto
  <2>2. Resuming(r)
    BY <2>1 DEF WorkInv
  <2>3. row'.status = "in_progress" /\ row'.at = now /\ row'.hash = row.hash /\ row'.body = None
    BY <1>0, <1>4, <2>2 DEF Touch, Rows, Resuming
  <2>4. AtWork' = {r}
    BY <1>0, <2>1, <2>2, ResumingAlone DEF AtWork
  <2>5. \A s \in Requests : pc'[s] # "touch"
    BY <1>0, <2>1, <2>2, ResumingAlone
  <2>6. \A s \in Requests : reply[s] \notin Answers
    BY <2>2 DEF WorkInv, Resuming, Answers
  <2>7. ASSUME NEW s \in Requests, pc'[s] = "judge"
        PROVE  seen[s].status # "completed" /\ ~Resuming(s)
    <3>1. pc[s] = "judge" /\ s # r
      BY <1>0, <2>1, <2>7
    <3>2. ~Resuming(s)
      BY <2>1, <2>2, <3>1 DEF Resuming
    <3>3. seen[s].status # "completed"
      BY <2>2, <3>1 DEF WorkInv, Resuming
    <3> QED BY <3>2, <3>3
  <2> QED BY <1>0, <2>1, <2>3, <2>4, <2>5, <2>6, <2>7 DEF WorkInv, AtWork
<1>5. ASSUME NEW r \in Requests, Handler(r) PROVE WorkInv'
  <2>1. AtWork' = AtWork
    BY <1>0, <1>5 DEF Handler, AtWork
  <2>2. pc' = [pc EXCEPT ![r] = "complete"] /\ pc[r] = "handler" /\ UNCHANGED <<row, seen, since, reply, now>>
    BY <1>5 DEF Handler
  <2>3. \A s \in Requests : Resuming(s) => Resuming(s)'
    BY <1>0, <2>2, ResumingStays
  <2> QED BY <1>0, <2>1, <2>2, <2>3 DEF WorkInv, AtWork
<1>6. ASSUME NEW r \in Requests, Complete(r) PROVE WorkInv'
  <2>1. r \in AtWork /\ (\A s \in AtWork : s = r) /\ PayloadOf[r] = row.hash
    BY <1>6 DEF WorkInv, OwnerInv, AtWork, Complete
  <2>2. AtWork' = {}
    BY <1>0, <1>6, <2>1 DEF Complete, Tell, Goto, AtWork
  <2>3. row.status = "in_progress" /\ row.body = None
    BY <2>1 DEF WorkInv
  <2>4. \A s \in Requests : reply[s] \notin Answers
    BY <2>3 DEF WorkInv, Answers
  <2>5. result[r] \in Answers
    BY <1>6 DEF OwnerInv, Complete
  <2>6. \A s \in Requests : pc[s] = "judge" => seen[s].status = "in_progress"
    BY <1>0, <2>3 DEF WorkInv, Rows, Statuses
  <2>7. \A s \in Requests : s # r => ~Resuming(s)
    BY <1>6, <2>1 DEF Resuming, Complete
  <2>8. \A s \in Requests : pc'[s] # "touch"
    BY <1>0, <1>6, <2>7 DEF WorkInv, Complete, Tell, Goto
  <2> QED BY <1>0, <1>6, <2>1, <2>2, <2>3, <2>4, <2>5, <2>6, <2>7, <2>8
          DEF Complete, Tell, Goto, WorkInv, AtWork, Rows
<1>7. ASSUME NEW r \in Requests, Fail(r) PROVE WorkInv'
  <2>1. /\ r \in Failing /\ pc' = [pc EXCEPT ![r] = "done"] /\ since' = [since EXCEPT ![r] = now]
        /\ UNCHANGED <<row, seen, reply, now>>
    BY <1>7 DEF Fail, Goto
  <2>2. AtWork' = AtWork \ {r}
    BY <1>0, <2>1 DEF AtWork
  <2>3. AtWork' = {} => AtWork = {} \/ PayloadOf[r] = row.hash
    BY <2>2 DEF AtWork, OwnerInv
  <2>4. \A s \in Requests : Resuming(s) => Resuming(s)'
    BY <1>0, <2>1, ResumingStays
  <2> QED BY <1>0, <2>1, <2>2, <2>3, <2>4 DEF WorkInv, AtWork
<1>8. CASE Tick
  <2>1. AtWork' = AtWork /\ UNCHANGED <<row, pc>>
    BY <1>8 DEF Tick, AtWork
  <2>2. \A s \in Requests : Resuming(s) => Resuming(s)'
    BY <2>1, ResumingStays
  <2> QED BY <1>0, <1>8, <2>1, <2>2 DEF Tick, InTime, WorkInv, AtWork
<1>9. CASE UNCHANGED ivars
  BY <1>9 DEF ivars, WorkInv, AtWork, Resuming
<1> QED BY <1>1, <1>2, <1>3, <1>4, <1>5, <1>6, <1>7, <1>8, <1>9 DEF Next

LEMMA WorkAlways == ASSUME Timely, OneRetry PROVE Spec => []WorkInv
<1>1. IdemTypeOK /\ OwnerInv /\ WorkInv /\ [Next]_ivars => WorkInv'
  BY WorkStep
<1> QED BY WorkInit, <1>1, IdemTypeCorrect, OwnerAlways, PTL DEF Spec

(* AtMostOneAtWork: nobody works on a key that another request works on,   *)
(* as long as requests end in time, with a takeover by one retry.          *)
THEOREM OneAtWork == ASSUME Timely, OneRetry PROVE Spec => []AtMostOneAtWork
<1>1. WorkInv => AtMostOneAtWork
  BY DEF WorkInv, AtMostOneAtWork
<1> QED BY <1>1, WorkAlways, PTL

(* OneAnswerPerKey: everybody who is answered gets the same answer, from   *)
(* one run of the handler, as long as requests end in time and one that    *)
(* fails is retried once.                                                  *)
THEOREM OneAnswer == ASSUME Timely, OneRetry PROVE Spec => []OneAnswerPerKey
<1>1. WorkInv => OneAnswerPerKey
  BY DEF WorkInv, OneAnswerPerKey
<1> QED BY <1>1, WorkAlways, PTL

-----------------------------------------------------------------------------
(* Refinement: the owner of the key is the hash of the row, its answer the *)
(* body of the row.                                                        *)

LEMMA OnceInit == Init => Once!Init
BY DEF Init, NoRow, Once!Init

LEMMA OnceStep ==
  ASSUME Timely, IdemTypeOK, OwnerInv, WorkInv, [Next]_ivars
  PROVE  [Once!Next]_(Once!avars)
<1>0. /\ reply \in [Requests -> Answers \cup Refusals \cup {None}] /\ row \in Rows
      /\ result \in [Requests -> Answers \cup {None}]
  BY DEF IdemTypeOK
<1>1. ASSUME NEW r \in Requests, Begin(r) PROVE [Once!Next]_(Once!avars)
  <2>1. CASE row.status = "none"
    <3>1. row.hash = None /\ row.body = None
      BY <2>1 DEF OwnerInv, WorkInv
    <3>2. row' = Held(r) /\ reply' = reply
      BY <1>1, <2>1 DEF Begin
    <3>3. Once!Take(r)
      BY <3>1, <3>2 DEF Once!Take, Held
    <3>4. Once!Next
      BY <3>3 DEF Once!Next
    <3> QED BY <3>4
  <2>2. CASE row.status # "none"
    BY <1>1, <2>2 DEF Begin, Once!avars
  <2> QED BY <2>1, <2>2
<1>2. ASSUME NEW r \in Requests, GetKey(r) PROVE [Once!Next]_(Once!avars)
  BY <1>2 DEF GetKey, Once!avars
<1>3. ASSUME NEW r \in Requests, Judge(r) PROVE [Once!Next]_(Once!avars)
  <2>1. /\ row' = row /\ row.hash # None /\ reply[r] = None
    BY <1>3 DEF Judge, OwnerInv, WorkInv
  <2>2. CASE row.hash # PayloadOf[r] /\ reply' = [reply EXCEPT ![r] = KeyReused]
    BY <2>1, <2>2 DEF Once!Refuse, Once!Next
  <2>3. CASE row.hash = PayloadOf[r] /\ reply' = [reply EXCEPT ![r] = InProgress]
    BY <2>1, <2>3 DEF Once!Refuse, Once!Next
  <2>4. CASE /\ row.body # None /\ row.hash = PayloadOf[r]
             /\ reply' = [reply EXCEPT ![r] = row.body]
    BY <2>1, <2>4 DEF Once!Repeat, Once!Next
  <2>5. CASE UNCHANGED reply
    BY <2>1, <2>5 DEF Once!avars
  <2> QED BY <1>3, <2>2, <2>3, <2>4, <2>5, JudgeDecides
<1>4. ASSUME NEW r \in Requests, Touch(r) PROVE [Once!Next]_(Once!avars)
  <2>1. row'.hash = row.hash /\ row'.body = row.body /\ reply' = reply
    BY <1>0, <1>4 DEF Touch, Rows
  <2> QED BY <2>1 DEF Once!avars
<1>5. ASSUME NEW r \in Requests, Handler(r) PROVE [Once!Next]_(Once!avars)
  BY <1>5 DEF Handler, Once!avars
<1>6. ASSUME NEW r \in Requests, Complete(r) PROVE [Once!Next]_(Once!avars)
  <2>1. pc[r] = "complete" /\ r \in AtWork
    BY <1>6 DEF Complete, AtWork
  <2>2. row.body = None /\ reply[r] = None /\ row.hash = PayloadOf[r]
    BY <2>1 DEF WorkInv, OwnerInv
  <2>3. PICK ok \in BOOLEAN : result[r] = [by |-> r, ok |-> ok]
    BY <2>1 DEF OwnerInv, Answers
  <2>4. row'.hash = row.hash /\ row'.body = result[r]
    BY <1>0, <1>6 DEF Complete, Rows
  <2>5. reply' = [reply EXCEPT ![r] = result[r]]
    BY <1>6 DEF Complete, Tell
  <2>6. Once!Settle(r)
    BY <2>2, <2>3, <2>4, <2>5 DEF Once!Settle
  <2> QED BY <2>6 DEF Once!Next
<1>7. ASSUME NEW r \in Requests, Fail(r) PROVE [Once!Next]_(Once!avars)
  BY <1>7 DEF Fail, Once!avars
<1>8. CASE Tick
  BY <1>8 DEF Tick, Once!avars
<1>9. CASE UNCHANGED ivars
  BY <1>9 DEF ivars, Once!avars
<1> QED BY <1>1, <1>2, <1>3, <1>4, <1>5, <1>6, <1>7, <1>8, <1>9 DEF Next

(* ImplementsAnswerOnce: as long as requests end in time and one that      *)
(* fails is retried once, the statements of the requests, however they     *)
(* interleave, take a key once, settle it once and repeat its answer.      *)
THEOREM RequestsAnswerOnce == ASSUME Timely, OneRetry PROVE Spec => ImplementsAnswerOnce
<1>1. IdemTypeOK /\ OwnerInv /\ WorkInv /\ [Next]_ivars => [Once!Next]_(Once!avars)
  BY OnceStep
<1> QED BY OnceInit, <1>1, IdemTypeCorrect, OwnerAlways, WorkAlways, PTL
        DEF Spec, Once!Spec, ImplementsAnswerOnce

-----------------------------------------------------------------------------
(* Compactions.                                                            *)
TaskPlaces == {"idle", "read", "upsert", "wipe", "index", "link", "delete", "finish",
           "done", "failed", "succeeded"}
AtEnd  == {"idle", "done", "failed", "succeeded"}

ItemIds == Items \X Nat
TaskRec == [at: TaskPlaces, left: SUBSET ItemIds, included: SUBSET ItemIds, learnt: SUBSET Notes]

TypeInv ==
  /\ there \subseteq Items
  /\ births \in [Items -> Nat]
  /\ text \in [Items -> SUBSET Notes]
  /\ task \in [Tasks -> TaskRec]
  /\ doomed \subseteq ItemIds

-----------------------------------------------------------------------------
(* What NothingLost rests on.  A task condemns what it has summed up as    *)
(* soon as its summary is told, and is bound to delete it; a task whose    *)
(* summary was gone before the first link cannot go on to delete.  Every   *)
(* note is told by an item that nothing condemns: that is SafelyTold, and  *)
(* the rest is why a summary takes over what its task condemns.            *)
PastReading == {"upsert", "wipe", "index", "link", "delete", "finish"}
DeletesItems(t) == t \in Deleting \cup {Sweep}

Condemned(t, x) ==
  /\ DeletesItems(t) /\ x \in task[t].included
  /\ \/ At(t, "delete")
     \/ At(t, "link") /\ (t \in there \/ task[t].left # task[t].included)

Safe(i) == Id(i) \notin doomed /\ \A t \in Tasks : ~Condemned(t, Id(i))

SafelyTold == \A n \in Notes \ forgotten : \E i \in there : n \in text[i] /\ Safe(i)

TextInv ==
  /\ \A i \in Items \ there : text[i] = {}
  /\ \A x \in doomed : Lives(x)

(* A task never sums up its own summary, which it creates; what it has     *)
(* included has told nothing since that the task has not learnt.           *)
TaskInv(t) ==
  /\ \A x \in task[t].left \cup task[t].included : x[1] # t /\ x[2] <= births[x[1]]
  /\ task[t].at \in {"read", "upsert"} => t \notin there
  /\ task[t].at \in PastReading => task[t].included # {}
  /\ task[t].at \in {"upsert", "wipe", "index"} => task[t].left = {}
  /\ task[t].at \in {"link", "delete"} => task[t].left \subseteq task[t].included
  /\ At(t, "delete") => DeletesItems(t)
  /\ \A x \in task[t].included : Lives(x) => text[x[1]] \subseteq task[t].learnt

(* A summary that is not told yet has been read by nobody.                 *)
UnreadInv(t) ==
  task[t].at \in {"wipe", "index"} =>
    text[t] = {} /\ Id(t) \notin doomed /\ \A u \in Tasks : Id(t) \notin task[u].included

TasksHeld == TextInv /\ SafelyTold /\ \A t \in Tasks : TaskInv(t) /\ UnreadInv(t)

HeldInv == TypeInv /\ (again = {} => TasksHeld)

-----------------------------------------------------------------------------
(* What the small steps do to a task.                                      *)
LEMMA UpdateTask ==
  ASSUME TypeInv, NEW t \in Tasks, NEW r \in TaskRec, task' = [task EXCEPT ![t] = r]
  PROVE  task' \in [Tasks -> TaskRec] /\ task'[t] = r /\ \A u \in Tasks \ {t} : task'[u] = task[u]
BY DEF TypeInv

LEMMA IdleRec == ASSUME NEW place \in TaskPlaces PROVE [Idle EXCEPT !.at = place] \in TaskRec
BY DEF Idle, TaskRec

LEMMA EndsTask ==
  ASSUME TypeInv, NEW t \in Tasks, NEW place \in AtEnd, Ends(t, place)
  PROVE  /\ task' \in [Tasks -> TaskRec] /\ \A u \in Tasks \ {t} : task'[u] = task[u]
         /\ task'[t].at \in AtEnd
         /\ task'[t].left = {} /\ task'[t].included = {} /\ task'[t].learnt = {}
<1>1. task' = [task EXCEPT ![t] = [Idle EXCEPT !.at = place]] /\ place \in TaskPlaces
  BY DEF Ends, AtEnd, TaskPlaces
<1>2. [Idle EXCEPT !.at = place] \in TaskRec
  BY <1>1, IdleRec
<1>3. [Idle EXCEPT !.at = place] = [at |-> place, left |-> {}, included |-> {}, learnt |-> {}]
  BY DEF Idle
<1>4. QED BY <1>1, <1>2, <1>3, UpdateTask

LEMMA ThrowsTask ==
  ASSUME TypeInv, NEW t \in Tasks, Throws(t)
  PROVE  /\ task' \in [Tasks -> TaskRec] /\ \A u \in Tasks \ {t} : task'[u] = task[u]
         /\ task'[t].at \in AtEnd
         /\ task'[t].left = {} /\ task'[t].included = {} /\ task'[t].learnt = {}
<1>1. PICK place \in AtEnd : Ends(t, place)
  BY DEF Throws, AtEnd
<1>2. QED BY <1>1, EndsTask

LEMMA GoesToTask ==
  ASSUME TypeInv, NEW t \in Tasks, NEW place \in TaskPlaces, GoesTo(t, place)
  PROVE  /\ task' \in [Tasks -> TaskRec] /\ \A u \in Tasks \ {t} : task'[u] = task[u]
         /\ task'[t].at = place /\ task'[t].left = task[t].left
         /\ task'[t].included = task[t].included /\ task'[t].learnt = task[t].learnt
BY DEF GoesTo, TypeInv, TaskRec

LEMMA LeftTask ==
  ASSUME TypeInv, NEW t \in Tasks, NEW place \in TaskPlaces, NEW S \in SUBSET ItemIds,
         task' = [task EXCEPT ![t].at = place, ![t].left = S]
  PROVE  /\ task' \in [Tasks -> TaskRec] /\ \A u \in Tasks \ {t} : task'[u] = task[u]
         /\ task'[t].at = place /\ task'[t].left = S
         /\ task'[t].included = task[t].included /\ task'[t].learnt = task[t].learnt
BY DEF TypeInv, TaskRec

LEMMA SeenTask ==
  ASSUME TypeInv, NEW t \in Tasks, NEW S \in SUBSET ItemIds, task' = [task EXCEPT ![t].left = S]
  PROVE  /\ task' \in [Tasks -> TaskRec] /\ \A u \in Tasks \ {t} : task'[u] = task[u]
         /\ task'[t].at = task[t].at /\ task'[t].left = S
         /\ task'[t].included = task[t].included /\ task'[t].learnt = task[t].learnt
BY DEF TypeInv, TaskRec

LEMMA BeginsTask ==
  ASSUME TypeInv, NEW t \in Tasks, NEW ids \in SUBSET ItemIds, Begins(t, ids)
  PROVE  /\ task' \in [Tasks -> TaskRec] /\ \A u \in Tasks \ {t} : task'[u] = task[u]
         /\ task'[t].at = "read" /\ task'[t].left = ids
         /\ task'[t].included = {} /\ task'[t].learnt = {}
<1> DEFINE r == [Idle EXCEPT !.at = "read", !.left = ids]
<1>1. task' = [task EXCEPT ![t] = r]
  BY DEF Begins
<1>2. r \in TaskRec
  BY DEF TaskRec, TaskPlaces, Idle
<1>3. r.at = "read" /\ r.left = ids /\ r.included = {} /\ r.learnt = {}
  BY DEF Idle
<1> HIDE DEF r
<1>4. QED BY <1>1, <1>2, <1>3, UpdateTask

LEMMA ReadOneTask ==
  ASSUME TypeInv, NEW t \in Tasks, ReadOne(t)
  PROVE  /\ task' \in [Tasks -> TaskRec] /\ \A u \in Tasks \ {t} : task'[u] = task[u]
         /\ task'[t].at = task[t].at /\ task'[t].left \subseteq task[t].left
         /\ \E x \in task[t].left :
              \/ /\ Lives(x) /\ text[x[1]] # {}
                 /\ task'[t].included = task[t].included \cup {x}
                 /\ task'[t].learnt = task[t].learnt \cup text[x[1]]
              \/ /\ task'[t].included = task[t].included
                 /\ task'[t].learnt = task[t].learnt
<1>1. PICK x \in task[t].left :
        LET told == IF Lives(x) THEN text[x[1]] ELSE {}
        IN  task' = [task EXCEPT ![t].left = @ \ {x},
                                 ![t].included = IF told = {} THEN @ ELSE @ \cup {x},
                                 ![t].learnt = @ \cup told]
  BY DEF ReadOne
<1> DEFINE told == IF Lives(x) THEN text[x[1]] ELSE {}
           inc  == IF told = {} THEN task[t].included ELSE task[t].included \cup {x}
<1>2. task[t] \in TaskRec /\ x \in ItemIds /\ x[1] \in Items
  BY DEF TypeInv, TaskRec, ItemIds
<1>3. told \in SUBSET Notes
  BY <1>2 DEF TypeInv
<1>4. inc \in SUBSET ItemIds
  BY <1>2 DEF TaskRec
<1>5. task' = [task EXCEPT ![t].left = @ \ {x}, ![t].included = inc, ![t].learnt = @ \cup told]
  BY <1>1 DEF TypeInv
<1>6. \/ Lives(x) /\ told = text[x[1]] /\ told # {} /\ inc = task[t].included \cup {x}
      \/ told = {} /\ inc = task[t].included
  OBVIOUS
<1> HIDE DEF told, inc
<1>7. /\ task' \in [Tasks -> TaskRec] /\ \A u \in Tasks \ {t} : task'[u] = task[u]
      /\ task'[t].at = task[t].at /\ task'[t].left = task[t].left \ {x}
      /\ task'[t].included = inc /\ task'[t].learnt = task[t].learnt \cup told
  BY <1>2, <1>3, <1>4, <1>5 DEF TypeInv, TaskRec
<1>8. QED BY <1>6, <1>7

-----------------------------------------------------------------------------
(* The types.                                                              *)
LEMMA CompactionTypeInit == CompactionInit => TypeInv
BY DEF CompactionInit, TypeInv, Items, Tasks, TaskRec, ItemIds, Idle, TaskPlaces

LEMMA IdType ==
  ASSUME TypeInv, NEW i \in Items
  PROVE  /\ Id(i) \in ItemIds /\ Id(i)[1] = i /\ Id(i)[2] = births[i]
         /\ Lives(Id(i)) <=> i \in there
BY DEF TypeInv, Id, ItemIds, Lives

LEMMA LivesIsId ==
  ASSUME TypeInv, NEW x \in ItemIds, Lives(x)
  PROVE  x[1] \in there /\ x[1] \in Items /\ x = Id(x[1])
BY DEF TypeInv, Id, ItemIds, Lives

LEMMA GoneType ==
  ASSUME TypeInv, NEW i \in Items, Gone(i)
  PROVE  /\ there' = there \ {i} /\ there' \subseteq Items
         /\ text' \in [Items -> SUBSET Notes]
         /\ text'[i] = {} /\ \A j \in Items \ {i} : text'[j] = text[j]
         /\ doomed' \subseteq doomed /\ doomed' \subseteq ItemIds
         /\ \A x \in doomed' : x[1] # i
BY DEF Gone, TypeInv

LEMMA TellsType ==
  ASSUME TypeInv, NEW t \in Tasks, NEW notes \in SUBSET Notes, Tells(t, notes)
  PROVE  /\ text' \in [Items -> SUBSET Notes]
         /\ \A j \in Items \ {t} : text'[j] = text[j]
         /\ text'[t] = IF t \in there THEN notes ELSE text[t]
BY DEF Tells, TypeInv, Items

LEMMA CompactionTypeStep ==
  ASSUME TypeInv, [CompactionNext]_ovars
  PROVE  TypeInv'
<1>a. TaskPlaces = {"idle", "read", "upsert", "wipe", "index", "link", "delete", "finish",
                "done", "failed", "succeeded"}
  BY DEF TaskPlaces
<1>b. ASSUME task' \in [Tasks -> TaskRec], UNCHANGED Stored
      PROVE  TypeInv'
  BY <1>b DEF TypeInv, Stored
<1>c. \A t \in Tasks : task[t] \in TaskRec
  BY DEF TypeInv
<1>1. ASSUME NEW j \in Jobs, ListItems(j)
      PROVE  TypeInv'
  <2>1. j \in Tasks
    BY DEF Tasks
  <2>2. {Id(i) : i \in Listed(j)} \in SUBSET ItemIds
    BY DEF Listed, TypeInv, Id, ItemIds
  <2>3. CASE Begins(j, {Id(i) : i \in Listed(j)})
    BY <1>b, <2>1, <2>2, <2>3, BeginsTask DEF Begins
  <2>4. CASE Ends(j, "done") /\ UNCHANGED Stored
    BY <1>b, <2>1, <2>4, EndsTask DEF AtEnd
  <2>5. QED BY <1>1, <2>3, <2>4 DEF ListItems
<1>2. ASSUME NEW group \in SUBSET there, FindGroup(group)
      PROVE  TypeInv'
  <2> DEFINE S == IF group = {} THEN {Seed} ELSE group
  <2>1. Sweep \in Tasks /\ S \in SUBSET Items
    BY CompactionAssumption DEF Tasks, Items, TypeInv
  <2>2. {Id(i) : i \in S} \in SUBSET ItemIds
    BY <2>1 DEF TypeInv, Id, ItemIds
  <2>3. Begins(Sweep, {Id(i) : i \in S})
    BY <1>2 DEF FindGroup
  <2> HIDE DEF S
  <2>4. QED BY <1>b, <2>1, <2>2, <2>3, BeginsTask DEF Begins
<1>3. ASSUME NEW t \in Tasks, ReadText(t)
      PROVE  TypeInv'
  <2>1. task' \in [Tasks -> TaskRec]
    <3>1. CASE ReadOne(t)
      BY <3>1, ReadOneTask
    <3>2. CASE task' = [task EXCEPT ![t].left = {}]
      <4>1. {} \in SUBSET ItemIds
        OBVIOUS
      <4>2. QED BY <3>2, <4>1, SeenTask
    <3>3. CASE GoesTo(t, "upsert")
      BY <1>a, <3>3, GoesToTask
    <3>4. CASE Leaves(t, "failed")
      BY <3>4, EndsTask DEF Leaves, AtEnd
    <3>5. QED BY <1>3, <3>1, <3>2, <3>3, <3>4 DEF ReadText
  <2>2. QED BY <1>b, <1>3, <2>1 DEF ReadText
<1>4. ASSUME NEW t \in Tasks, NoSummary(t) \/ Finish(t)
      PROVE  TypeInv'
  BY <1>b, <1>4, EndsTask DEF NoSummary, Finish, Leaves, AtEnd
<1>5. ASSUME NEW t \in Tasks, Upsert(t)
      PROVE  TypeInv'
  <2>1. task' \in [Tasks -> TaskRec]
    BY <1>a, <1>5, GoesToTask DEF Upsert
  <2>2. t \in Items
    BY DEF Items
  <2>3. QED BY <1>5, <2>1, <2>2 DEF Upsert, TypeInv
<1>6. ASSUME NEW t \in Tasks, Wipe(t)
      PROVE  TypeInv'
  <2>1. task' \in [Tasks -> TaskRec]
    BY <1>a, <1>6, GoesToTask DEF Wipe
  <2>2. QED BY <1>6, <2>1, TellsType DEF Wipe, TypeInv
<1>7. ASSUME NEW t \in Tasks, Index(t)
      PROVE  TypeInv'
  <2>1. task' \in [Tasks -> TaskRec]
    <3>1. CASE task' = [task EXCEPT ![t].at = "link", ![t].left = @ \cup task[t].included]
      <4>1. task' = [task EXCEPT ![t].at = "link", ![t].left = task[t].left \cup task[t].included]
        BY <3>1
      <4>2. task[t].left \cup task[t].included \in SUBSET ItemIds
        BY <1>c DEF TaskRec
      <4>3. QED BY <1>a, <4>1, <4>2, LeftTask, ZenonT(60)
    <3>2. CASE Throws(t)
      BY <3>2, ThrowsTask
    <3>3. QED BY <1>7, <3>1, <3>2 DEF Index, Fault
  <2>2. text' \in [Items -> SUBSET Notes]
    <3>1. task[t].learnt \in SUBSET Notes
      BY <1>c DEF TaskRec
    <3>2. QED BY <1>7, <3>1, TellsType DEF Index, TypeInv
  <2>3. QED BY <1>7, <2>1, <2>2 DEF Index, TypeInv
<1>8. ASSUME NEW t \in Tasks, Link(t)
      PROVE  TypeInv'
  <2>1. task' \in [Tasks -> TaskRec]
    <3>1. ASSUME NEW x \in task[t].left, task' = [task EXCEPT ![t].left = @ \ {x}]
          PROVE  task' \in [Tasks -> TaskRec]
      <4>1. task[t].left \ {x} \in SUBSET ItemIds
        BY <1>c DEF TaskRec
      <4>2. QED BY <3>1, <4>1, SeenTask
    <3>2. CASE Throws(t)
      BY <3>2, ThrowsTask
    <3>3. CASE task' = [task EXCEPT ![t].at = "delete", ![t].left = task[t].included]
      <4>1. task[t].included \in SUBSET ItemIds /\ "delete" \in TaskPlaces
        BY <1>a, <1>c DEF TaskRec
      <4>2. QED BY <3>3, <4>1, LeftTask
    <3>4. CASE GoesTo(t, "finish")
      BY <1>a, <3>4, GoesToTask
    <3>5. QED BY <1>8, <3>1, <3>2, <3>3, <3>4 DEF Link
  <2>2. QED BY <1>b, <1>8, <2>1 DEF Link
<1>9. ASSUME NEW t \in Tasks, DeleteOriginal(t)
      PROVE  TypeInv'
  <2>1. PICK x \in task[t].left :
       \/ /\ task' = [task EXCEPT ![t].left = @ \ {x}]
          /\ IF Lives(x) THEN Gone(x[1]) ELSE UNCHANGED <<there, text, doomed>>
       \/ /\ Lives(x) /\ task' = [task EXCEPT ![t].left = @ \ {x}]
          /\ doomed' = doomed \cup {x} /\ UNCHANGED <<there, text>>
       \/ /\ Throws(t) /\ Lives(x)
          /\ text' = [text EXCEPT ![x[1]] = {}] /\ UNCHANGED <<there, doomed>>
    BY <1>9 DEF DeleteOriginal, Fault
  <2>2. x \in ItemIds /\ x[1] \in Items /\ task[t].left \ {x} \in SUBSET ItemIds
    BY <1>c DEF TaskRec, ItemIds
  <2>3. births' = births
    BY <1>9 DEF DeleteOriginal
  <2>4. task' \in [Tasks -> TaskRec]
    BY <2>1, <2>2, SeenTask, ThrowsTask
  <2>5. there' \subseteq Items /\ text' \in [Items -> SUBSET Notes] /\ doomed' \subseteq ItemIds
    BY <2>1, <2>2, GoneType DEF TypeInv
  <2>6. QED BY <2>3, <2>4, <2>5 DEF TypeInv
<1>10. ASSUME NEW t \in Tasks, Breaks(t)
       PROVE  TypeInv'
  BY <1>b, <1>10, ThrowsTask DEF Breaks, Fault
<1>11. ASSUME NEW i \in Items, Forget(i)
       PROVE  TypeInv'
  BY <1>11, GoneType DEF Forget, TypeInv
<1>12. ASSUME NEW x \in doomed, Reconcile(x)
       PROVE  TypeInv'
  <2>1. x[1] \in Items
    BY DEF TypeInv, ItemIds
  <2>2. QED BY <1>12, <2>1, GoneType DEF Reconcile, TypeInv
<1>13. CASE CooldownOver
  BY <1>13 DEF CooldownOver, TypeInv
<1>14. CASE UNCHANGED ovars
  BY <1>14 DEF ovars, TypeInv
<1>15. QED BY <1>1, <1>2, <1>3, <1>4, <1>5, <1>6, <1>7, <1>8, <1>9, <1>10, <1>11, <1>12,
              <1>13, <1>14 DEF CompactionNext

-----------------------------------------------------------------------------
(* A step that creates no item and tells nothing new keeps what it does    *)
(* not touch.                                                              *)
LEMMA OthersKeep ==
  ASSUME TypeInv, TypeInv', NEW u \in Tasks, TaskInv(u), task'[u] = task[u], births' = births,
         there' \subseteq there, \A i \in Items : text'[i] \subseteq text[i]
  PROVE  TaskInv(u)' /\ \A x : Condemned(u, x)' => Condemned(u, x)
<1>1. \A x \in task'[u].included : Lives(x)' => Lives(x) /\ text'[x[1]] \subseteq text[x[1]]
  BY DEF Lives, TypeInv
<1>2. TaskInv(u)'
  BY <1>1 DEF TaskInv, At
<1>3. \A x : Condemned(u, x)' => Condemned(u, x)
  BY DEF Condemned, At
<1>4. QED BY <1>2, <1>3

LEMMA NothingNew ==
  ASSUME TypeInv, TypeInv', TasksHeld, NEW t \in Tasks, \A u \in Tasks \ {t} : task'[u] = task[u],
         births' = births, there' \subseteq there, \A i \in Items : text'[i] \subseteq text[i],
         TextInv', TaskInv(t)',
         \A x \in task'[t].included : x \in task[t].included \/ (Lives(x) /\ text[x[1]] # {}),
         task'[t].at \in {"wipe", "index"} => task[t].at \in {"wipe", "index"},
         \A x : Condemned(t, x)' => Condemned(t, x),
         \A x \in doomed' : x \in doomed \/ Condemned(t, x),
         forgotten \subseteq forgotten',
         \A n \in Notes \ forgotten', i \in there :
           n \in text[i] /\ Safe(i) => i \in there' /\ n \in text'[i]
  PROVE  TasksHeld'
<1>1. \A u \in Tasks : TaskInv(u)' /\ \A x : Condemned(u, x)' => Condemned(u, x)
  <2>1. ASSUME NEW u \in Tasks \ {t}
        PROVE  TaskInv(u)' /\ \A x : Condemned(u, x)' => Condemned(u, x)
    BY OthersKeep DEF TasksHeld
  <2>2. QED BY <2>1
<1>2. \A i : Id(i)' = Id(i)
  BY DEF Id
<1>3. ASSUME NEW u \in Tasks, task'[u].at \in {"wipe", "index"}
      PROVE  text'[u] = {} /\ Id(u)' \notin doomed' /\ \A v \in Tasks : Id(u)' \notin task'[v].included
  <2>1. task[u].at \in {"wipe", "index"}
    BY <1>3
  <2>2. text[u] = {} /\ Id(u) \notin doomed /\ \A v \in Tasks : Id(u) \notin task[v].included
    BY <2>1 DEF TasksHeld, UnreadInv
  <2>3. u \in Items /\ Id(u)[1] = u
    BY DEF Items, Id
  <2>4. text'[u] = {}
    BY <2>2, <2>3
  <2>5. Id(u) \notin doomed'
    BY <2>2 DEF Condemned
  <2>6. \A v \in Tasks : Id(u) \notin task'[v].included
    BY <2>2, <2>3
  <2>7. QED BY <1>2, <2>4, <2>5, <2>6
<1>4. \A u \in Tasks : UnreadInv(u)'
  BY <1>3 DEF UnreadInv
<1>5. \A i : Safe(i) => Safe(i)'
  BY <1>1, <1>2 DEF Safe
<1>6. SafelyTold'
  BY <1>5 DEF TasksHeld, SafelyTold
<1>7. QED BY <1>1, <1>4, <1>6 DEF TasksHeld

(* A task that ends condemns nothing any more.                             *)
LEMMA EndKeeps ==
  ASSUME TypeInv, TypeInv', TasksHeld, NEW t \in Tasks,
         \A u \in Tasks \ {t} : task'[u] = task[u],
         task'[t].at \in AtEnd, task'[t].left = {}, task'[t].included = {},
         births' = births, there' \subseteq there, \A i \in Items : text'[i] \subseteq text[i],
         TextInv', doomed' \subseteq doomed, forgotten \subseteq forgotten',
         \A n \in Notes \ forgotten', i \in there :
           n \in text[i] /\ Safe(i) => i \in there' /\ n \in text'[i]
  PROVE  TasksHeld'
<1>1. TaskInv(t)'
  BY DEF TaskInv, AtEnd, PastReading, At
<1>2. \A x : ~Condemned(t, x)'
  BY DEF Condemned
<1>3. task'[t].at \notin {"wipe", "index"}
  BY DEF AtEnd
<1>4. QED BY <1>1, <1>2, <1>3, NothingNew

(* A step of one task that leaves the items alone.                         *)
LEMMA TaskOnly ==
  ASSUME TypeInv, TypeInv', TasksHeld, NEW t \in Tasks, \A u \in Tasks \ {t} : task'[u] = task[u],
         UNCHANGED <<births, there, text, doomed, forgotten>>, TaskInv(t)',
         \A x \in task'[t].included : x \in task[t].included \/ (Lives(x) /\ text[x[1]] # {}),
         task'[t].at \in {"wipe", "index"} => task[t].at \in {"wipe", "index"},
         \A x : Condemned(t, x)' => Condemned(t, x)
  PROVE  TasksHeld'
<1>1. TextInv'
  BY DEF TasksHeld, TextInv, Lives
<1>2. QED BY <1>1, NothingNew

LEMMA EndOnly ==
  ASSUME TypeInv, TypeInv', TasksHeld, NEW t \in Tasks, \A u \in Tasks \ {t} : task'[u] = task[u],
         task'[t].at \in AtEnd, task'[t].left = {}, task'[t].included = {},
         UNCHANGED <<births, there, text, doomed, forgotten>>
  PROVE  TasksHeld'
<1>1. TextInv'
  BY DEF TasksHeld, TextInv, Lives
<1>2. QED BY <1>1, EndKeeps

-----------------------------------------------------------------------------
(* A task that begins without its summary there.                           *)
LEMMA BeginKeeps ==
  ASSUME TypeInv, TypeInv', TasksHeld, NEW t \in Tasks, NEW S \in SUBSET Items,
         Begins(t, {Id(i) : i \in S}), t \notin S, t \notin there
  PROVE  TasksHeld'
<1>1. {Id(i) : i \in S} \in SUBSET ItemIds
  BY IdType
<1>2. /\ \A u \in Tasks \ {t} : task'[u] = task[u]
      /\ task'[t].at = "read" /\ task'[t].left = {Id(i) : i \in S}
      /\ task'[t].included = {} /\ task'[t].learnt = {}
  BY <1>1, BeginsTask
<1>3. UNCHANGED <<births, there, text, doomed, forgotten>>
  BY DEF Begins, Stored, Past
<1>4. \A x \in task'[t].left : x[1] # t /\ x[2] <= births[x[1]]
  BY <1>2, IdType DEF TypeInv
<1>5. TaskInv(t)'
  BY <1>2, <1>3, <1>4 DEF TaskInv, PastReading, At
<1>6. \A x : ~Condemned(t, x)'
  BY <1>2 DEF Condemned
<1>7. QED BY <1>2, <1>3, <1>5, <1>6, TaskOnly

LEMMA ReadKeeps ==
  ASSUME TypeInv, TypeInv', TasksHeld, NEW t \in Tasks, ReadText(t)
  PROVE  TasksHeld'
<1>0. /\ UNCHANGED <<births, there, text, doomed, forgotten>>
      /\ At(t, "read") /\ TaskInv(t) /\ t \notin there
  BY DEF ReadText, Stored, Past, TasksHeld, TaskInv, At
<1>a. ASSUME task'[t].at \in {"read", "upsert"} PROVE \A x : ~Condemned(t, x)'
  BY <1>a DEF Condemned, At
<1>b. task[t].left \subseteq ItemIds /\ task[t].included \subseteq ItemIds
  BY DEF TypeInv, TaskRec
<1>1. CASE ReadOne(t)
  <2>1. /\ \A u \in Tasks \ {t} : task'[u] = task[u]
        /\ task'[t].at = "read" /\ task'[t].left \subseteq task[t].left
    BY <1>0, <1>1, ReadOneTask DEF At
  <2>2. PICK x \in task[t].left :
          \/ /\ Lives(x) /\ text[x[1]] # {}
             /\ task'[t].included = task[t].included \cup {x}
             /\ task'[t].learnt = task[t].learnt \cup text[x[1]]
          \/ /\ task'[t].included = task[t].included
             /\ task'[t].learnt = task[t].learnt
    BY <1>1, ReadOneTask
  <2>3. \A y \in task'[t].left \cup task'[t].included : y[1] # t /\ y[2] <= births[y[1]]
    BY <1>0, <2>1, <2>2 DEF TaskInv
  <2>4. \A y \in task'[t].included : Lives(y) => text[y[1]] \subseteq task'[t].learnt
    BY <1>0, <2>2 DEF TaskInv
  <2>5. TaskInv(t)'
    BY <1>0, <2>1, <2>3, <2>4 DEF TaskInv, PastReading, At, Lives
  <2>6. QED BY <1>0, <1>a, <2>1, <2>2, <2>5, TaskOnly
<1>2. CASE task[t].included # {} /\ task' = [task EXCEPT ![t].left = {}]
  <2>1. {} \in SUBSET ItemIds
    OBVIOUS
  <2>2. /\ \A u \in Tasks \ {t} : task'[u] = task[u]
        /\ task'[t].at = "read" /\ task'[t].left = {}
        /\ task'[t].included = task[t].included /\ task'[t].learnt = task[t].learnt
    BY <1>0, <1>2, <2>1, SeenTask DEF At
  <2>3. TaskInv(t)'
    BY <1>0, <2>2 DEF TaskInv, PastReading, At, Lives
  <2>4. QED BY <1>0, <1>a, <2>2, <2>3, TaskOnly
<1>3. CASE task[t].left = {} /\ task[t].included # {} /\ GoesTo(t, "upsert")
  <2>1. /\ \A u \in Tasks \ {t} : task'[u] = task[u]
        /\ task'[t].at = "upsert" /\ task'[t].left = task[t].left
        /\ task'[t].included = task[t].included /\ task'[t].learnt = task[t].learnt
    BY <1>3, GoesToTask DEF TaskPlaces
  <2>2. TaskInv(t)'
    BY <1>0, <1>3, <2>1 DEF TaskInv, At, Lives
  <2>3. QED BY <1>0, <1>a, <2>1, <2>2, TaskOnly
<1>4. CASE Leaves(t, "failed")
  BY <1>0, <1>4, EndsTask, EndOnly DEF Leaves, AtEnd
<1>5. QED BY <1>1, <1>2, <1>3, <1>4 DEF ReadText

LEMMA UpsertKeeps ==
  ASSUME TypeInv, TypeInv', TasksHeld, NEW t \in Tasks, Upsert(t)
  PROVE  TasksHeld'
<1>0. /\ TaskInv(t) /\ t \notin there /\ task[t].left = {} /\ task[t].included # {} /\ t \in Items
      /\ UNCHANGED <<text, doomed, forgotten>> /\ text[t] = {}
  BY DEF Upsert, TasksHeld, TaskInv, TextInv, At, PastReading, Items, Past
<1>1. /\ \A u \in Tasks \ {t} : task'[u] = task[u]
      /\ task'[t].at = "wipe" /\ task'[t].left = task[t].left
      /\ task'[t].included = task[t].included /\ task'[t].learnt = task[t].learnt
  BY GoesToTask DEF Upsert, TaskPlaces
<1>2. /\ there' = there \cup {t} /\ births'[t] = births[t] + 1 /\ births[t] \in Nat
      /\ \A i \in Items \ {t} : births'[i] = births[i]
  BY <1>0 DEF Upsert, TypeInv
<1>3. \A u \in Tasks : task'[u].left = task[u].left /\ task'[u].included = task[u].included
                       /\ task'[u].learnt = task[u].learnt
  BY <1>1
<1>4. \A u \in Tasks : task[u].left \cup task[u].included \subseteq ItemIds /\ TaskInv(u)
  BY DEF TypeInv, TaskRec, TasksHeld
<1>5. \A u \in Tasks : \A x \in task[u].left \cup task[u].included :
        x[1] \in Items /\ x[2] \in Nat /\ x[2] <= births[x[1]] /\ x[1] # u
  BY <1>4 DEF TaskInv, ItemIds
<1>6. ASSUME NEW u \in Tasks, NEW x \in task[u].left \cup task[u].included
      PROVE  /\ x[2] <= births'[x[1]]
             /\ Lives(x)' <=> Lives(x)
             /\ x # Id(t)'
  <2>1. CASE x[1] = t
    <3>1. x[2] <= births[t] /\ births[t] < births'[t] /\ x[2] \in Nat
      BY <1>2, <1>5, <2>1
    <3>2. x[2] # births'[t] /\ x[2] <= births'[t]
      BY <1>2, <3>1
    <3>3. QED BY <1>0, <2>1, <3>2 DEF Lives, Id
  <2>2. CASE x[1] # t
    BY <1>2, <1>5, <2>2 DEF Lives, Id
  <2>3. QED BY <2>1, <2>2
<1>7. ASSUME NEW u \in Tasks PROVE TaskInv(u)'
  <2>1. /\ \A x \in task'[u].left \cup task'[u].included : x[1] # u /\ x[2] <= births'[x[1]]
        /\ \A x \in task'[u].included : Lives(x)' => text'[x[1]] \subseteq task'[u].learnt
    BY <1>0, <1>3, <1>4, <1>5, <1>6 DEF TaskInv
  <2>2. CASE u = t
    BY <1>0, <1>1, <2>1, <2>2 DEF TaskInv, At, PastReading
  <2>3. CASE u # t
    BY <1>1, <1>2, <1>4, <2>1, <2>3 DEF TaskInv, At
  <2>4. QED BY <2>2, <2>3
<1>8. ASSUME NEW x \in doomed PROVE Lives(x)' /\ x # Id(t)' /\ x[1] # t
  <2>1. Lives(x) /\ x \in ItemIds /\ x[1] \in Items
    BY DEF TasksHeld, TextInv, TypeInv, ItemIds
  <2>2. x[1] # t
    BY <1>0, <2>1 DEF Lives
  <2>3. QED BY <1>2, <2>1, <2>2 DEF Lives, Id
<1>9. ASSUME NEW u \in Tasks PROVE UnreadInv(u)'
  <2>1. CASE u = t
    BY <1>0, <1>3, <1>6, <1>8, <2>1 DEF UnreadInv
  <2>2. CASE u # t
    <3>1. Id(u)' = Id(u) /\ UnreadInv(u) /\ task'[u] = task[u]
      BY <1>1, <1>2, <2>2 DEF Id, Items, TasksHeld
    <3>2. QED BY <1>0, <1>3, <3>1 DEF UnreadInv
  <2>3. QED BY <2>1, <2>2
<1>10. TextInv'
  BY <1>0, <1>2, <1>8 DEF TasksHeld, TextInv
<1>11. ASSUME NEW i \in there, Safe(i) PROVE Safe(i)' /\ i \in there'
  <2>1. i # t /\ i \in Items
    BY <1>0 DEF TypeInv
  <2>2. Id(i)' = Id(i)
    BY <1>2, <2>1 DEF Id
  <2>3. \A u \in Tasks : Condemned(u, Id(i))' => Condemned(u, Id(i))
    BY <1>1, <1>2, <2>2 DEF Condemned, At
  <2>4. QED BY <1>0, <1>2, <1>11, <2>2, <2>3 DEF Safe
<1>12. SafelyTold'
  BY <1>0, <1>11 DEF TasksHeld, SafelyTold
<1>13. QED BY <1>7, <1>9, <1>10, <1>12 DEF TasksHeld

LEMMA WipeKeeps ==
  ASSUME TypeInv, TypeInv', TasksHeld, NEW t \in Tasks, Wipe(t)
  PROVE  TasksHeld'
<1>0. TaskInv(t) /\ text[t] = {} /\ UNCHANGED <<births, there, doomed, forgotten>> /\ At(t, "wipe")
  BY DEF Wipe, TasksHeld, UnreadInv, At, Past
<1>1. /\ \A u \in Tasks \ {t} : task'[u] = task[u]
      /\ task'[t].at = "index" /\ task'[t].left = task[t].left
      /\ task'[t].included = task[t].included /\ task'[t].learnt = task[t].learnt
  BY GoesToTask DEF Wipe, TaskPlaces
<1>2. text' = text
  <2>1. /\ text' \in [Items -> SUBSET Notes] /\ \A j \in Items \ {t} : text'[j] = text[j]
        /\ text'[t] = {}
    BY <1>0, TellsType DEF Wipe
  <2>2. text \in [Items -> SUBSET Notes] /\ \A j \in Items : text'[j] = text[j]
    BY <1>0, <2>1 DEF TypeInv
  <2>3. QED BY <2>1, <2>2
<1>3. TaskInv(t)'
  BY <1>0, <1>1, <1>2 DEF TaskInv, At, PastReading, Lives
<1>4. \A x : ~Condemned(t, x)'
  BY <1>1 DEF Condemned, At
<1>5. QED BY <1>0, <1>1, <1>2, <1>3, <1>4, TaskOnly DEF At

(* The text of a summary is saved: the summary is there, nobody has read   *)
(* it, and it tells all that its task is about to condemn.                 *)
LEMMA ToldKeeps ==
  ASSUME TypeInv, TypeInv', TasksHeld, NEW t \in Tasks, At(t, "index"), t \in there,
         Tells(t, task[t].learnt), UNCHANGED <<births, there, doomed, forgotten>>,
         \A u \in Tasks \ {t} : task'[u] = task[u],
         \/ /\ task'[t].at = "link" /\ task'[t].left = task[t].included
            /\ task'[t].included = task[t].included /\ task'[t].learnt = task[t].learnt
         \/ /\ task'[t].at \in AtEnd
            /\ task'[t].left = {} /\ task'[t].included = {}
  PROVE  TasksHeld'
<1>0. /\ TaskInv(t) /\ task[t].included # {} /\ t \in Items
      /\ text[t] = {} /\ Id(t) \notin doomed /\ \A u \in Tasks : Id(t) \notin task[u].included
  BY DEF TasksHeld, TaskInv, UnreadInv, At, PastReading, Items
<1>1. task[t].learnt \in SUBSET Notes /\ \A u \in Tasks : task[u].included \subseteq ItemIds
  BY DEF TypeInv, TaskRec
<1>2. text'[t] = task[t].learnt /\ \A i \in Items \ {t} : text'[i] = text[i]
  BY <1>1, TellsType
<1>3. \A i : Id(i)' = Id(i)
  BY DEF Id
<1>4. \A u \in Tasks : task'[u].included \subseteq task[u].included
  BY <1>0
<1>5. ASSUME NEW u \in Tasks, NEW x \in task[u].included, Lives(x)
      PROVE  text'[x[1]] = text[x[1]]
  <2>1. x \in ItemIds /\ x = Id(x[1]) /\ x[1] \in Items
    BY <1>1, <1>5, LivesIsId
  <2>2. x[1] # t
    BY <1>0, <2>1
  <2>3. QED BY <1>2, <2>1, <2>2
<1>6. ASSUME NEW u \in Tasks PROVE TaskInv(u)'
  <2>1. TaskInv(u)
    BY DEF TasksHeld
  <2>2. CASE u = t
    BY <1>0, <1>5, <2>1, <2>2 DEF TaskInv, At, PastReading, Lives, AtEnd
  <2>3. CASE u # t
    BY <1>5, <2>1, <2>3 DEF TaskInv, At, Lives
  <2>4. QED BY <2>2, <2>3
<1>7. ASSUME NEW u \in Tasks PROVE UnreadInv(u)'
  <2>1. CASE u = t
    BY <2>1 DEF UnreadInv, AtEnd
  <2>2. CASE u # t
    <3>1. UnreadInv(u) /\ text'[u] = text[u] /\ task'[u] = task[u]
      BY <1>2, <2>2 DEF TasksHeld, Items
    <3>2. QED BY <1>3, <1>4, <3>1 DEF UnreadInv
  <2>3. QED BY <2>1, <2>2
<1>8. TextInv'
  BY <1>0, <1>2 DEF TasksHeld, TextInv, Lives
<1>9. ASSUME NEW i, Safe(i), Id(i) \notin task[t].included
      PROVE  Safe(i)'
  BY <1>3, <1>4, <1>9 DEF Safe, Condemned, At
<1>10. Safe(t)'
  <2>1. \A u \in Tasks : Id(t) \notin task'[u].included
    BY <1>0, <1>4
  <2>2. QED BY <1>0, <1>3, <2>1 DEF Safe, Condemned
<1>11. ASSUME NEW n \in Notes \ forgotten
       PROVE  \E i \in there : n \in text'[i] /\ Safe(i)'
  <2>1. PICK i \in there : n \in text[i] /\ Safe(i)
    BY <1>11 DEF TasksHeld, SafelyTold
  <2>2. i \in Items /\ i # t /\ Lives(Id(i)) /\ Id(i)[1] = i
    BY <1>0, <2>1, IdType DEF TypeInv
  <2>3. CASE Id(i) \in task[t].included
    <3>1. n \in task[t].learnt
      BY <1>0, <2>1, <2>2, <2>3 DEF TaskInv
    <3>2. QED BY <1>2, <1>10, <3>1
  <2>4. CASE Id(i) \notin task[t].included
    BY <1>2, <1>9, <2>1, <2>2, <2>4
  <2>5. QED BY <2>3, <2>4
<1>12. SafelyTold'
  BY <1>11 DEF SafelyTold
<1>13. QED BY <1>6, <1>7, <1>8, <1>12 DEF TasksHeld

LEMMA IndexKeeps ==
  ASSUME TypeInv, TypeInv', TasksHeld, NEW t \in Tasks, Index(t)
  PROVE  TasksHeld'
<1>0. /\ TaskInv(t) /\ At(t, "index") /\ task[t].left = {} /\ task[t].included # {}
      /\ UNCHANGED <<births, there, doomed, forgotten>>
  BY DEF Index, TasksHeld, TaskInv, At, PastReading, Past
<1>1. task[t].included \in SUBSET ItemIds /\ task[t].learnt \in SUBSET Notes
  BY DEF TypeInv, TaskRec
<1>2. CASE /\ task' = [task EXCEPT ![t].at = "link", ![t].left = @ \cup task[t].included]
           /\ Tells(t, task[t].learnt)
  <2>1. task' = [task EXCEPT ![t].at = "link", ![t].left = task[t].left \cup task[t].included]
    BY <1>2
  <2>a. /\ task[t].left \cup task[t].included \in SUBSET ItemIds /\ "link" \in TaskPlaces
        /\ task[t].left \cup task[t].included = task[t].included
    BY <1>0, <1>1 DEF TaskPlaces
  <2>2. /\ \A u \in Tasks \ {t} : task'[u] = task[u]
        /\ task'[t].at = "link" /\ task'[t].left = task[t].included
        /\ task'[t].included = task[t].included /\ task'[t].learnt = task[t].learnt
    BY <2>1, <2>a DEF TypeInv, TaskRec
  <2>3. CASE t \in there
    BY <1>0, <1>2, <2>2, <2>3, ToldKeeps
  <2>4. CASE t \notin there
    <3>1. text' = text
      BY <1>2, <2>4 DEF Tells
    <3>2. TaskInv(t)'
      BY <1>0, <2>2, <3>1 DEF TaskInv, At, PastReading, Lives
    <3>3. \A x : ~Condemned(t, x)'
      BY <1>0, <2>2, <2>4 DEF Condemned, At
    <3>4. QED BY <1>0, <2>2, <3>1, <3>2, <3>3, TaskOnly
  <2>5. QED BY <2>3, <2>4
<1>3. CASE Throws(t) /\ (Tells(t, task[t].learnt) \/ UNCHANGED text)
  <2>1. /\ \A u \in Tasks \ {t} : task'[u] = task[u]
        /\ task'[t].at \in AtEnd
        /\ task'[t].left = {} /\ task'[t].included = {}
    BY <1>3, ThrowsTask
  <2>2. CASE t \in there /\ Tells(t, task[t].learnt)
    BY <1>0, <2>1, <2>2, ToldKeeps
  <2>3. CASE text' = text
    BY <1>0, <2>1, <2>3, EndOnly
  <2>4. QED BY <1>3, <2>2, <2>3 DEF Tells
<1>4. QED BY <1>2, <1>3 DEF Index, Fault

LEMMA LinkKeeps ==
  ASSUME TypeInv, TypeInv', TasksHeld, NEW t \in Tasks, Link(t)
  PROVE  TasksHeld'
<1>0. /\ TaskInv(t) /\ At(t, "link") /\ task[t].included # {}
      /\ task[t].left \subseteq task[t].included
      /\ UNCHANGED <<births, there, text, doomed, forgotten>>
  BY DEF Link, TasksHeld, TaskInv, At, PastReading, Past, Stored
<1>1. task[t].included \in SUBSET ItemIds /\ task[t].left \in SUBSET ItemIds
  BY DEF TypeInv, TaskRec
<1>2. ASSUME NEW x \in task[t].left, t \in there, task' = [task EXCEPT ![t].left = @ \ {x}]
      PROVE  TasksHeld'
  <2>1. task' = [task EXCEPT ![t].left = task[t].left \ {x}]
    BY <1>2
  <2>2. /\ \A u \in Tasks \ {t} : task'[u] = task[u]
        /\ task'[t].at = "link" /\ task'[t].left = task[t].left \ {x}
        /\ task'[t].included = task[t].included /\ task'[t].learnt = task[t].learnt
    <3>1. task[t].left \ {x} \in SUBSET ItemIds
      BY <1>1
    <3>2. QED BY <1>0, <2>1, <3>1, SeenTask DEF At
  <2>3. TaskInv(t)'
    BY <1>0, <2>2 DEF TaskInv, At, PastReading, Lives
  <2>4. \A y : Condemned(t, y)' => Condemned(t, y)
    BY <1>0, <1>2, <2>2 DEF Condemned, At
  <2>5. QED BY <1>0, <2>2, <2>3, <2>4, TaskOnly
<1>3. CASE Throws(t)
  BY <1>0, <1>3, ThrowsTask, EndOnly
<1>4. CASE /\ task[t].left = {} /\ t \in Deleting \cup {Sweep}
           /\ task' = [task EXCEPT ![t].at = "delete", ![t].left = task[t].included]
  <2>1. /\ \A u \in Tasks \ {t} : task'[u] = task[u]
        /\ task'[t].at = "delete" /\ task'[t].left = task[t].included
        /\ task'[t].included = task[t].included /\ task'[t].learnt = task[t].learnt
    <3>1. task[t].included \in SUBSET ItemIds /\ "delete" \in TaskPlaces
      BY <1>1 DEF TaskPlaces
    <3>2. QED BY <1>4, <3>1 DEF TypeInv, TaskRec
  <2>2. TaskInv(t)'
    BY <1>0, <1>4, <2>1 DEF TaskInv, At, PastReading, Lives, DeletesItems
  <2>3. \A y : Condemned(t, y)' => Condemned(t, y)
    BY <1>0, <1>4, <2>1 DEF Condemned, At, DeletesItems
  <2>4. QED BY <1>0, <2>1, <2>2, <2>3, TaskOnly
<1>5. CASE task[t].left = {} /\ GoesTo(t, "finish")
  <2>1. /\ \A u \in Tasks \ {t} : task'[u] = task[u]
        /\ task'[t].at = "finish" /\ task'[t].left = task[t].left
        /\ task'[t].included = task[t].included /\ task'[t].learnt = task[t].learnt
    BY <1>5, GoesToTask DEF TaskPlaces
  <2>2. TaskInv(t)'
    BY <1>0, <1>5, <2>1 DEF TaskInv, At, PastReading, Lives
  <2>3. \A y : ~Condemned(t, y)'
    BY <2>1 DEF Condemned, At
  <2>4. QED BY <1>0, <2>1, <2>2, <2>3, TaskOnly
<1>6. QED BY <1>2, <1>3, <1>4, <1>5 DEF Link

(* Deleting an item, by whoever does it: the item was told by others too,  *)
(* or what it told is forgotten.                                           *)
LEMMA GoneTexts ==
  ASSUME TypeInv, TypeInv', TextInv, NEW i \in Items, Gone(i), births' = births
  PROVE  /\ there' \subseteq there /\ doomed' \subseteq doomed
         /\ \A j \in Items : text'[j] \subseteq text[j]
         /\ TextInv'
         /\ \A n \in Notes, j \in there : n \in text[j] /\ j # i => j \in there' /\ n \in text'[j]
<1>1. /\ there' = there \ {i} /\ text'[i] = {} /\ \A j \in Items \ {i} : text'[j] = text[j]
      /\ doomed' \subseteq doomed /\ \A x \in doomed' : x[1] # i
  BY GoneType
<1>2. TextInv'
  BY <1>1 DEF TextInv, Lives
<1>3. QED BY <1>1, <1>2 DEF TypeInv

LEMMA DeleteKeeps ==
  ASSUME TypeInv, TypeInv', TasksHeld, NEW t \in Tasks, DeleteOriginal(t)
  PROVE  TasksHeld'
<1>0. /\ TaskInv(t) /\ At(t, "delete") /\ task[t].included # {} /\ DeletesItems(t)
      /\ task[t].left \subseteq task[t].included /\ TextInv
      /\ UNCHANGED <<births, forgotten>>
  BY DEF DeleteOriginal, TasksHeld, TaskInv, At, PastReading, Past
<1>1. PICK x \in task[t].left :
       \/ /\ task' = [task EXCEPT ![t].left = @ \ {x}]
          /\ IF Lives(x) THEN Gone(x[1]) ELSE UNCHANGED <<there, text, doomed>>
       \/ /\ Lives(x) /\ task' = [task EXCEPT ![t].left = @ \ {x}]
          /\ doomed' = doomed \cup {x} /\ UNCHANGED <<there, text>>
       \/ /\ Throws(t) /\ Lives(x)
          /\ text' = [text EXCEPT ![x[1]] = {}] /\ UNCHANGED <<there, doomed>>
  BY DEF DeleteOriginal, Fault
<1>2. /\ x \in ItemIds /\ x[1] \in Items /\ Condemned(t, x)
      /\ task[t].included \in SUBSET ItemIds /\ task[t].left \in SUBSET ItemIds
  BY <1>0 DEF TypeInv, TaskRec, ItemIds, Condemned
<1>3. ASSUME NEW j \in there, Safe(j), Lives(x)
      PROVE  j # x[1]
  BY <1>2, <1>3, LivesIsId DEF Safe
<1>4. ASSUME task' = [task EXCEPT ![t].left = @ \ {x}], there' \subseteq there,
             \A j \in Items : text'[j] \subseteq text[j]
      PROVE  /\ \A u \in Tasks \ {t} : task'[u] = task[u]
             /\ task'[t].at = "delete" /\ task'[t].included = task[t].included
             /\ TaskInv(t)'
             /\ \A y : Condemned(t, y)' => Condemned(t, y)
  <2>1. task' = [task EXCEPT ![t].left = task[t].left \ {x}]
    BY <1>4
  <2>2. /\ \A u \in Tasks \ {t} : task'[u] = task[u]
        /\ task'[t].at = "delete" /\ task'[t].left = task[t].left \ {x}
        /\ task'[t].included = task[t].included /\ task'[t].learnt = task[t].learnt
    <3>1. task[t].left \ {x} \in SUBSET ItemIds
      BY <1>2
    <3>2. QED BY <1>0, <2>1, <3>1, SeenTask DEF At
  <2>3. \A y \in task[t].included : Lives(y)' => Lives(y) /\ text'[y[1]] \subseteq text[y[1]]
    BY <1>0, <1>2, <1>4 DEF Lives, ItemIds
  <2>4. TaskInv(t)'
    BY <1>0, <2>2, <2>3 DEF TaskInv, At, PastReading
  <2>5. \A y : Condemned(t, y)' => Condemned(t, y)
    BY <1>0, <2>2 DEF Condemned, At
  <2>6. QED BY <2>2, <2>4, <2>5
<1>5. CASE /\ task' = [task EXCEPT ![t].left = @ \ {x}] /\ Lives(x) /\ Gone(x[1])
  <2>1. /\ there' \subseteq there /\ doomed' \subseteq doomed
        /\ \A j \in Items : text'[j] \subseteq text[j]
        /\ TextInv'
        /\ \A n \in Notes, j \in there : n \in text[j] /\ j # x[1] => j \in there' /\ n \in text'[j]
    BY <1>0, <1>2, <1>5, GoneTexts
  <2>2. QED BY <1>0, <1>3, <1>4, <1>5, <2>1, NothingNew
<1>6. CASE /\ task' = [task EXCEPT ![t].left = @ \ {x}] /\ ~Lives(x)
           /\ UNCHANGED <<there, text, doomed>>
  BY <1>0, <1>4, <1>6, TaskOnly
<1>7. CASE /\ Lives(x) /\ task' = [task EXCEPT ![t].left = @ \ {x}]
           /\ doomed' = doomed \cup {x} /\ UNCHANGED <<there, text>>
  <2>1. TextInv'
    BY <1>0, <1>7 DEF TextInv, Lives
  <2>2. \A y \in doomed' : y \in doomed \/ Condemned(t, y)
    BY <1>2, <1>7
  <2>3. QED BY <1>0, <1>4, <1>7, <2>1, <2>2, NothingNew
<1>8. CASE /\ Throws(t) /\ Lives(x)
           /\ text' = [text EXCEPT ![x[1]] = {}] /\ UNCHANGED <<there, doomed>>
  <2>1. text'[x[1]] = {} /\ \A j \in Items \ {x[1]} : text'[j] = text[j]
    BY <1>2, <1>8 DEF TypeInv
  <2>2. TextInv' /\ \A j \in Items : text'[j] \subseteq text[j]
    BY <1>0, <1>8, <2>1 DEF TextInv, Lives
  <2>3. \A n \in Notes, j \in there : n \in text[j] /\ Safe(j) => n \in text'[j]
    BY <1>3, <1>8, <2>1 DEF TypeInv
  <2>4. QED BY <1>0, <1>8, <2>2, <2>3, ThrowsTask, EndKeeps
<1>9. QED BY <1>1, <1>5, <1>6, <1>7, <1>8

LEMMA ForgetKeeps ==
  ASSUME TypeInv, TypeInv', TasksHeld, NEW i \in Items, Gone(i), UNCHANGED <<births, task>>,
         \/ forgotten' = forgotten \cup text[i]
         \/ forgotten' = forgotten /\ Id(i) \in doomed
  PROVE  TasksHeld'
<1>1. /\ there' \subseteq there /\ doomed' \subseteq doomed
      /\ \A j \in Items : text'[j] \subseteq text[j]
      /\ TextInv'
      /\ \A n \in Notes, j \in there : n \in text[j] /\ j # i => j \in there' /\ n \in text'[j]
  BY GoneTexts DEF TasksHeld
<1>2. Sweep \in Tasks
  BY DEF Tasks
<1>3. TaskInv(Sweep)' /\ \A x : Condemned(Sweep, x)' => Condemned(Sweep, x)
  BY <1>1, <1>2, OthersKeep DEF TasksHeld
<1>4. \A n \in Notes \ forgotten', j \in there : n \in text[j] /\ Safe(j) => j # i
  BY DEF Safe
<1>5. forgotten \subseteq forgotten'
  OBVIOUS
<1>6. QED BY <1>1, <1>2, <1>3, <1>4, <1>5, NothingNew

-----------------------------------------------------------------------------
LEMMA HeldStep ==
  ASSUME TypeInv, TypeInv', TasksHeld, [CompactionNext]_ovars, again' = {}
  PROVE  TasksHeld'
<1>1. ASSUME NEW j \in Jobs, ListItems(j)
      PROVE  TasksHeld'
  <2>1. j \in Tasks
    BY DEF Tasks
  <2>2. CASE Begins(j, {Id(i) : i \in Listed(j)})
    <3>1. j \notin there
      BY <2>2 DEF Begins
    <3>2. Listed(j) \in SUBSET Items /\ j \notin Listed(j)
      BY <3>1 DEF Listed, TypeInv
    <3>3. QED BY <2>1, <2>2, <3>1, <3>2, BeginKeeps
  <2>3. CASE Ends(j, "done") /\ UNCHANGED <<Stored, Past>>
    BY <2>1, <2>3, EndsTask, EndOnly DEF AtEnd, Stored, Past
  <2>4. QED BY <1>1, <2>2, <2>3 DEF ListItems
<1>2. ASSUME NEW group \in SUBSET there, FindGroup(group)
      PROVE  TasksHeld'
  <2> DEFINE S == IF group = {} THEN {Seed} ELSE group
  <2>1. Sweep \in Tasks
    BY DEF Tasks
  <2>2. Begins(Sweep, {Id(i) : i \in S})
    BY <1>2 DEF FindGroup
  <2>3. Sweep \notin there
    BY <2>2 DEF Begins
  <2>4. S \in SUBSET Items /\ Sweep \notin S
    BY <2>3, CompactionAssumption DEF TypeInv, Items, Tasks
  <2> HIDE DEF S
  <2>5. QED BY <2>1, <2>2, <2>3, <2>4, BeginKeeps
<1>3. ASSUME NEW t \in Tasks,
             \/ ReadText(t) \/ NoSummary(t) \/ Upsert(t) \/ Wipe(t) \/ Index(t)
             \/ Link(t) \/ DeleteOriginal(t) \/ Finish(t) \/ Breaks(t)
      PROVE  TasksHeld'
  <2>1. CASE NoSummary(t) \/ Finish(t)
    <3>1. PICK place \in AtEnd : Ends(t, place)
      BY <2>1 DEF NoSummary, Finish, Leaves, AtEnd
    <3>2. UNCHANGED <<births, there, text, doomed, forgotten>>
      BY <2>1 DEF NoSummary, Finish, Stored, Past
    <3>3. QED BY <3>1, <3>2, EndsTask, EndOnly
  <2>2. CASE Breaks(t)
    BY <2>2, ThrowsTask, EndOnly DEF Breaks, Fault, Stored, Past
  <2>3. QED BY <1>3, <2>1, <2>2, ReadKeeps, UpsertKeeps, WipeKeeps, IndexKeeps, LinkKeeps, DeleteKeeps
<1>4. ASSUME NEW i \in Items, Forget(i)
      PROVE  TasksHeld'
  BY <1>4, ForgetKeeps DEF Forget
<1>5. ASSUME NEW x \in doomed, Reconcile(x)
      PROVE  TasksHeld'
  <2>1. x \in ItemIds /\ Lives(x)
    BY DEF TypeInv, TasksHeld, TextInv
  <2>2. x[1] \in Items /\ Id(x[1]) \in doomed
    BY <2>1, LivesIsId
  <2>3. QED BY <1>5, <2>2, ForgetKeeps DEF Reconcile, Past
<1>6. CASE CooldownOver \/ UNCHANGED ovars
  <2>1. UNCHANGED <<births, there, text, doomed, forgotten, task>>
    BY <1>6 DEF CooldownOver, ovars, Past
  <2>2. QED BY <2>1 DEF TasksHeld, TextInv, SafelyTold, Safe, Id, Lives, Condemned, At, TaskInv, UnreadInv
<1>7. QED BY <1>1, <1>2, <1>3, <1>4, <1>5, <1>6 DEF CompactionNext

LEMMA HeldInit ==
  ASSUME CompactionInit
  PROVE  TasksHeld
<1>1. TypeInv
  BY CompactionTypeInit
<1>2. \A t \in Tasks : task[t] = Idle /\ TaskInv(t) /\ UnreadInv(t)
  BY DEF CompactionInit, Idle, TaskInv, UnreadInv, At, PastReading
<1>3. \A i \in Items : Safe(i)
  BY <1>2 DEF Safe, Condemned, At, Idle, CompactionInit
<1>4. SafelyTold /\ TextInv
  BY <1>3 DEF SafelyTold, TextInv, CompactionInit, Items
<1>5. QED BY <1>2, <1>4 DEF TasksHeld

LEMMA AgainStays ==
  ASSUME [CompactionNext]_ovars
  PROVE  again \subseteq again'
BY DEF CompactionNext, ListItems, FindGroup, Begins, ReadText, NoSummary, Upsert, Wipe, Index,
       Link, DeleteOriginal, Finish, Breaks, Forget, Reconcile, CooldownOver, ovars

(* What a note told is told by some item until a request deletes it,       *)
(* however many jobs and sweeps overlap, wherever they fail, are run again *)
(* or leave an item to the reconcile job, and whatever requests delete in  *)
(* between; provided no task began with a summary of its own there.        *)
THEOREM CompactionLosesNothing == CompactionSpec => []NothingLost
<1>1. CompactionInit => HeldInv
  BY CompactionTypeInit, HeldInit DEF HeldInv
<1>2. HeldInv /\ [CompactionNext]_ovars => HeldInv'
  <2> SUFFICES ASSUME HeldInv, [CompactionNext]_ovars PROVE HeldInv'
    OBVIOUS
  <2>1. TypeInv'
    BY CompactionTypeStep DEF HeldInv
  <2>2. ASSUME again' = {} PROVE TasksHeld'
    <3>1. again = {}
      BY <2>2, AgainStays
    <3>2. QED BY <2>1, <2>2, <3>1, HeldStep DEF HeldInv
  <2>3. QED BY <2>1, <2>2 DEF HeldInv
<1>3. HeldInv => NothingLost
  BY DEF HeldInv, TasksHeld, SafelyTold, NothingLost
<1>4. QED BY <1>1, <1>2, <1>3, PTL DEF CompactionSpec
=============================================================================
