---------------------------- MODULE MemoryProofs ----------------------------
(***************************************************************************)
(* Proofs about the jobs, for any number of jobs, gateways, dispatches and *)
(* faults: their types, that a job has one runner and no more runs than    *)
(* attempts, and that its end is final.  And about the lifecycle of memory *)
(* items, for any thresholds, items and budget: tiers never turn back, a   *)
(* sweep deletes only what was low and not pinned since it began or has    *)
(* expired, and keeps its budget.                                          *)
(***************************************************************************)
EXTENDS MemoryJobs, Lifecycle, FiniteSetTheorems, TLAPS

-----------------------------------------------------------------------------
(* Types.                                                                  *)

LEMMA ClaimTypes ==
  ASSUME JobsTypeOK, NEW g \in Gateways, NEW j \in Jobs, NEW swept \in BOOLEAN,
         NEW o \in Outcomes, Ends(o), Claim(g, j, swept, o)
  PROVE  /\ rows' \in [Jobs -> [status: Statuses, attempts: Nat, due: BOOLEAN]]
         /\ runs' \subseteq Runs
         /\ claims' \in [Jobs -> Nat]
         /\ faults' \in Nat
<1>1. faults' \in Nat
  BY DEF Ends, JobsTypeOK
<1>2. CASE UNCHANGED <<rows, claims, runs>>
  BY <1>1, <1>2 DEF JobsTypeOK
<1>3. CASE Take(g, j, swept, o)
  <2>1. Claimed(g, j, swept) \in Runs
    BY DEF Claimed, JobsTypeOK, Runs, Stages
  <2>2. runs' \subseteq Runs
    BY <1>3, <2>1 DEF Take, JobsTypeOK
  <2>3. claims' \in [Jobs -> Nat]
    BY <1>3 DEF Take, JobsTypeOK
  <2>4. rows' \in [Jobs -> [status: Statuses, attempts: Nat, due: BOOLEAN]]
    BY <1>3, ZenonT(60) DEF Take, JobsTypeOK, Statuses
  <2> QED BY <1>1, <2>2, <2>3, <2>4
<1> QED BY <1>2, <1>3 DEF Claim

LEMMA UpdateTypes ==
  ASSUME JobsTypeOK, NEW x \in runs, NEW status \in Statuses, NEW n \in Nat,
         NEW due \in BOOLEAN, Update(x, status, n, due)
  PROVE  rows' \in [Jobs -> [status: Statuses, attempts: Nat, due: BOOLEAN]]
BY DEF Update, JobsTypeOK, Runs

LEMMA StepTypes ==
  ASSUME JobsTypeOK, NEW x \in runs, Step(x)
  PROVE  JobsTypeOK'
<1>1. /\ x \in Runs /\ x.job \in Jobs /\ x.gw \in Gateways /\ x.attempts \in Nat
      /\ rows[x.job].attempts \in Nat /\ rows[x.job].due \in BOOLEAN
  BY DEF JobsTypeOK, Runs
<1>2. ASSUME NEW s \in Stages, Becomes(x, s) PROVE runs' \subseteq Runs
  BY <1>1, <1>2 DEF Becomes, JobsTypeOK, Runs
<1>3. ASSUME Over(x) PROVE runs' \subseteq Runs
  BY <1>3 DEF Over, JobsTypeOK
<1>4. ASSUME NEW o \in Outcomes, Ends(o) PROVE faults' \in Nat
  BY <1>4 DEF Ends, JobsTypeOK
<1>5. "caught" \in Stages /\ {"succeeded", "failed", "queued"} \subseteq Statuses
  BY DEF Stages, Statuses
<1>6. ASSUME Fail(x) \/ Requeue(x) \/ UNCHANGED rows
      PROVE  rows' \in [Jobs -> [status: Statuses, attempts: Nat, due: BOOLEAN]]
  <2>1. x.attempts + 1 \in Nat
    BY <1>1
  <2>2. CASE Fail(x)
    BY <1>1, <1>5, <2>1, <2>2, UpdateTypes DEF Fail
  <2>3. CASE Requeue(x)
    BY <1>1, <1>5, <2>1, <2>3, UpdateTypes DEF Requeue
  <2>4. CASE UNCHANGED rows
    BY <2>4 DEF JobsTypeOK
  <2> QED BY <1>6, <2>2, <2>3, <2>4
<1>7. CASE Throw(x)
  BY <1>2, <1>5, <1>7 DEF Throw, JobsTypeOK
<1>8. CASE Succeed(x)
  <2>1. PICK o \in Outcomes :
          /\ Ends(o)
          /\ IF o = "unexecuted" THEN UNCHANGED rows
             ELSE Update(x, "succeeded", rows[x.job].attempts, rows[x.job].due)
          /\ IF o = "ok" THEN Over(x) ELSE Becomes(x, "caught")
    BY <1>8 DEF Succeed
  <2>2. rows' \in [Jobs -> [status: Statuses, attempts: Nat, due: BOOLEAN]]
    <3>1. CASE UNCHANGED rows
      BY <3>1 DEF JobsTypeOK
    <3>2. CASE Update(x, "succeeded", rows[x.job].attempts, rows[x.job].due)
      BY <1>1, <1>5, <3>2, UpdateTypes
    <3> QED BY <2>1, <3>1, <3>2
  <2>3. runs' \subseteq Runs
    BY <1>2, <1>3, <1>5, <2>1
  <2>4. faults' \in Nat
    BY <1>4, <2>1
  <2> QED BY <1>8, <2>2, <2>3, <2>4 DEF Succeed, JobsTypeOK
<1>9. CASE GiveUp(x)
  <2>1. PICK o \in Outcomes :
          /\ Ends(o)
          /\ IF o = "unexecuted" THEN UNCHANGED rows ELSE Fail(x)
          /\ IF o = "ok" THEN Over(x) ELSE Becomes(x, "caught")
    BY <1>9 DEF GiveUp
  <2>2. /\ rows' \in [Jobs -> [status: Statuses, attempts: Nat, due: BOOLEAN]]
        /\ runs' \subseteq Runs /\ faults' \in Nat
    BY <1>2, <1>3, <1>4, <1>5, <1>6, <2>1
  <2> QED BY <1>9, <2>2 DEF GiveUp, JobsTypeOK
<1>10. CASE Retry(x)
  <2>1. PICK o \in Outcomes :
          /\ Ends(o)
          /\ IF o = "unexecuted" THEN UNCHANGED rows
             ELSE IF Spent(x) THEN Fail(x) ELSE Requeue(x)
          /\ IF o = "ok" THEN /\ Dispatch(x.gw, x.job, IF Spent(x) THEN 0 ELSE 1)
                              /\ UNCHANGED batch
                         ELSE Thrown(x) /\ UNCHANGED pending
    BY <1>10 DEF Retry
  <2>2. /\ rows' \in [Jobs -> [status: Statuses, attempts: Nat, due: BOOLEAN]]
        /\ runs' \subseteq Runs /\ faults' \in Nat
    BY <1>3, <1>4, <1>6, <1>10, <2>1 DEF Retry
  <2>3. pending' \in [Gateways -> [Jobs -> Nat]]
    <3>1. ASSUME NEW n \in {0, 1}, Dispatch(x.gw, x.job, n)
          PROVE  pending' \in [Gateways -> [Jobs -> Nat]]
      BY <1>1, <3>1 DEF Dispatch, JobsTypeOK
    <3>2. CASE UNCHANGED pending
      BY <3>2 DEF JobsTypeOK
    <3> QED BY <2>1, <3>1, <3>2
  <2>4. batch' \in [Gateways -> SUBSET Jobs]
    BY <1>1, <2>1 DEF Thrown, JobsTypeOK
  <2> QED BY <1>10, <2>2, <2>3, <2>4 DEF Retry, JobsTypeOK
<1> QED BY <1>7, <1>8, <1>9, <1>10 DEF Step

(* JobsTypeOK, the type invariant of the jobs, holds in every reachable    *)
(* state.                                                                  *)
THEOREM JobsTypeCorrect == Spec => []JobsTypeOK
<1>1. Init => JobsTypeOK
  BY DEF Init, JobsTypeOK, NoJob, Statuses
<1>2. JobsTypeOK /\ [Next]_jvars => JobsTypeOK'
  <2> SUFFICES ASSUME JobsTypeOK, [Next]_jvars PROVE JobsTypeOK'
    OBVIOUS
  <2>1. ASSUME NEW g \in Gateways, NEW j \in Jobs, Create(g, j) PROVE JobsTypeOK'
    BY <2>1, SMTT(30) DEF Create, Dispatch, JobsTypeOK, Statuses
  <2>2. ASSUME NEW g \in Gateways, NEW j \in Jobs, Join(g, j) PROVE JobsTypeOK'
    BY <2>2 DEF Join, Dispatch, JobsTypeOK
  <2>3. ASSUME NEW g \in Gateways, NEW j \in Jobs, Fire(g, j) PROVE JobsTypeOK'
    <3>1. PICK o \in Outcomes : Ends(o) /\ Claim(g, j, FALSE, o)
      BY <2>3 DEF Fire
    <3>2. pending' \in [Gateways -> [Jobs -> Nat]]
      BY <2>3 DEF Fire, Dispatch, JobsTypeOK
    <3> QED BY <2>3, <3>1, <3>2, ClaimTypes DEF Fire, JobsTypeOK
  <2>4. ASSUME NEW g \in Gateways, SweepStart(g) PROVE JobsTypeOK'
    BY <2>4 DEF SweepStart, Listed, JobsTypeOK
  <2>5. ASSUME NEW g \in Gateways, SweepNext(g) PROVE JobsTypeOK'
    <3>1. PICK j \in batch[g], o \in Outcomes :
            /\ Ends(o) /\ Claim(g, j, TRUE, o)
            /\ batch' = [batch EXCEPT ![g] = IF o = "ok" THEN @ \ {j} ELSE {}]
      BY <2>5 DEF SweepNext
    <3>2. j \in Jobs /\ batch' \in [Gateways -> SUBSET Jobs]
      BY <3>1 DEF JobsTypeOK
    <3> QED BY <2>5, <3>1, <3>2, ClaimTypes DEF SweepNext, JobsTypeOK
  <2>6. ASSUME NEW g \in Gateways, SweepEnd(g) PROVE JobsTypeOK'
    BY <2>6 DEF SweepEnd, JobsTypeOK
  <2>7. ASSUME NEW g \in Gateways, Crash(g) PROVE JobsTypeOK'
    BY <2>7 DEF Crash, JobsTypeOK
  <2>8. ASSUME NEW x \in runs, Step(x) PROVE JobsTypeOK'
    BY <2>8, StepTypes
  <2>9. ASSUME NEW j \in Jobs, BackoffOver(j) PROVE JobsTypeOK'
    BY <2>9 DEF BackoffOver, JobsTypeOK
  <2>10. ASSUME NEW j \in Jobs, Remove(j) PROVE JobsTypeOK'
    BY <2>10 DEF Remove, JobsTypeOK, Statuses
  <2>11. CASE UNCHANGED jvars
    BY <2>11 DEF jvars, JobsTypeOK
  <2> QED BY <2>1, <2>2, <2>3, <2>4, <2>5, <2>6, <2>7, <2>8, <2>9, <2>10, <2>11 DEF Next
<1> QED BY <1>1, <1>2, PTL DEF Spec

-----------------------------------------------------------------------------
(* One runner.  Whoever runs a job has changed its row from "queued", and  *)
(* only its last step puts it back; the attempts in a queued row are the   *)
(* claims so far, also where updates were repeated or never heard of.      *)

RunInv ==
  /\ \A x, y \in runs : x.job = y.job => x = y
  /\ \A x \in runs : /\ rows[x.job].status \notin {"none", "queued"}
                     /\ claims[x.job] = x.attempts + 1
                     /\ x.attempts < MaxAttempts
  /\ \A j \in Jobs : /\ rows[j].status \in {"none", "queued"} => claims[j] = rows[j].attempts
                     /\ rows[j].status = "queued" => rows[j].attempts < MaxAttempts
                     /\ rows[j].status = "none" => rows[j].attempts = 0
                     /\ claims[j] <= MaxAttempts

LEMMA ClaimKeeps ==
  ASSUME JobsTypeOK, RunInv, NEW g \in Gateways, NEW j \in Jobs, NEW swept \in BOOLEAN,
         NEW o \in Outcomes, Claim(g, j, swept, o)
  PROVE  RunInv'
<1>1. CASE UNCHANGED <<rows, claims, runs>>
  BY <1>1 DEF RunInv
<1>2. CASE Due(j) /\ Take(g, j, swept, o)
  <2>1. rows[j].status = "queued" /\ \A x \in runs : x.job # j
    BY <1>2 DEF Due, RunInv
  <2>2. claims[j] = rows[j].attempts /\ rows[j].attempts < MaxAttempts /\ rows[j].attempts \in Nat
    BY <2>1 DEF RunInv, JobsTypeOK
  <2>3. /\ claims' = [claims EXCEPT ![j] = rows[j].attempts + 1]
        /\ rows' = [rows EXCEPT ![j].status = "running", ![j].due = TRUE]
        /\ runs' \subseteq runs \cup {Claimed(g, j, swept)}
    BY <1>2, <2>2 DEF Take
  <2>4. rows'[j].status = "running" /\ \A k \in Jobs \ {j} : rows'[k] = rows[k]
    BY <2>3 DEF JobsTypeOK
  <2>5. claims'[j] = rows[j].attempts + 1 /\ \A k \in Jobs \ {j} : claims'[k] = claims[k]
    BY <2>3 DEF JobsTypeOK
  <2>6. Claimed(g, j, swept).job = j /\ Claimed(g, j, swept).attempts = rows[j].attempts
    BY DEF Claimed
  <2>7. \A x \in runs' : x = Claimed(g, j, swept) \/ (x \in runs /\ x.job \in Jobs \ {j})
    BY <2>1, <2>3 DEF JobsTypeOK, Runs
  <2>8. \A x, y \in runs' : x.job = y.job => x = y
    BY <2>6, <2>7 DEF RunInv
  <2>9. \A x \in runs' : /\ rows'[x.job].status \notin {"none", "queued"}
                          /\ claims'[x.job] = x.attempts + 1
                          /\ x.attempts < MaxAttempts
    BY <2>2, <2>4, <2>5, <2>6, <2>7 DEF RunInv
  <2>10. ASSUME NEW k \in Jobs
         PROVE  /\ rows'[k].status \in {"none", "queued"} => claims'[k] = rows'[k].attempts
                /\ rows'[k].status = "queued" => rows'[k].attempts < MaxAttempts
                /\ rows'[k].status = "none" => rows'[k].attempts = 0
                /\ claims'[k] <= MaxAttempts
    BY <2>2, <2>4, <2>5, JobsAssumption DEF RunInv
  <2> QED BY <2>8, <2>9, <2>10 DEF RunInv
<1> QED BY <1>1, <1>2 DEF Claim

(* What a run may do to its row: it is still under way and the row is not  *)
(* in the queue, or it is over and the row holds one attempt more.         *)
LEMMA RunKeeps ==
  ASSUME JobsTypeOK, RunInv, NEW x \in runs, UNCHANGED claims,
         \A k \in Jobs \ {x.job} : rows'[k] = rows[k],
         \/ /\ rows'[x.job].status \notin {"none", "queued"}
            /\ \/ Over(x)
               \/ \E s \in Stages : Becomes(x, s)
         \/ /\ rows'[x.job].status = "queued" /\ Over(x)
            /\ rows'[x.job].attempts = x.attempts + 1 /\ ~Spent(x)
  PROVE  RunInv'
<1>1. /\ x.job \in Jobs /\ x.attempts \in Nat
      /\ \A y \in runs : y \in Runs /\ y.job \in Jobs
      /\ \A y \in runs \ {x} : y.job # x.job
  BY DEF JobsTypeOK, Runs, RunInv
<1>2. ASSUME NEW k \in Jobs
      PROVE  /\ rows'[k].status \in {"none", "queued"} => claims'[k] = rows'[k].attempts
             /\ rows'[k].status = "queued" => rows'[k].attempts < MaxAttempts
             /\ rows'[k].status = "none" => rows'[k].attempts = 0
             /\ claims'[k] <= MaxAttempts
  <2>1. CASE k # x.job
    BY <2>1 DEF RunInv
  <2>2. CASE k = x.job
    BY <1>1, <2>2, JobsAssumption DEF RunInv, Spent
  <2> QED BY <2>1, <2>2
<1>3. CASE Over(x)
  <2>1. \A y \in runs' : y \in runs \ {x}
    BY <1>3 DEF Over
  <2> QED BY <1>1, <1>2, <2>1 DEF RunInv
<1>4. ASSUME NEW s \in Stages, Becomes(x, s), rows'[x.job].status \notin {"none", "queued"}
      PROVE  RunInv'
  <2> DEFINE z == [x EXCEPT !.stage = s]
  <2>1. z.job = x.job /\ z.attempts = x.attempts
    BY <1>1
  <2>2. runs' = (runs \ {x}) \cup {z}
    BY <1>4 DEF Becomes
  <2> HIDE DEF z
  <2>3. \A y, w \in runs' : y.job = w.job => y = w
    BY <1>1, <2>1, <2>2 DEF RunInv
  <2>4. \A y \in runs' : /\ rows'[y.job].status \notin {"none", "queued"}
                          /\ claims'[y.job] = y.attempts + 1
                          /\ y.attempts < MaxAttempts
    BY <1>1, <1>4, <2>1, <2>2 DEF RunInv
  <2> QED BY <1>2, <2>3, <2>4 DEF RunInv
<1> QED BY <1>3, <1>4

(* The updates of a run touch its own row only, and leave one that is gone *)
(* as it is.                                                               *)
LEMMA UpdateOne ==
  ASSUME JobsTypeOK, NEW x \in runs, NEW status, NEW n, NEW due, Update(x, status, n, due)
  PROVE  /\ \A k \in Jobs \ {x.job} : rows'[k] = rows[k]
         /\ \/ rows' = rows
            \/ rows'[x.job].status = status /\ rows'[x.job].attempts = n
BY DEF Update, JobsTypeOK, Runs

LEMMA StepKeeps ==
  ASSUME JobsTypeOK, RunInv, NEW x \in runs, Step(x)
  PROVE  RunInv'
<1>1. rows[x.job].status \notin {"none", "queued"} /\ "caught" \in Stages
  BY DEF RunInv, Stages
<1>2. CASE Throw(x)
  BY <1>1, <1>2, RunKeeps DEF Throw
<1>3. CASE Succeed(x)
  <2>1. UNCHANGED claims /\ (Over(x) \/ Becomes(x, "caught"))
    BY <1>3 DEF Succeed
  <2>2. rows' = rows \/ Update(x, "succeeded", rows[x.job].attempts, rows[x.job].due)
    BY <1>3 DEF Succeed
  <2>3. /\ \A k \in Jobs \ {x.job} : rows'[k] = rows[k]
        /\ rows'[x.job].status \notin {"none", "queued"}
    BY <1>1, <2>2, UpdateOne
  <2> QED BY <1>1, <2>1, <2>3, RunKeeps
<1>4. CASE GiveUp(x)
  <2>1. UNCHANGED claims /\ (Over(x) \/ Becomes(x, "caught"))
    BY <1>4 DEF GiveUp
  <2>2. rows' = rows \/ Fail(x)
    BY <1>4 DEF GiveUp
  <2>3. /\ \A k \in Jobs \ {x.job} : rows'[k] = rows[k]
        /\ rows'[x.job].status \notin {"none", "queued"}
    BY <1>1, <2>2, UpdateOne DEF Fail
  <2> QED BY <1>1, <2>1, <2>3, RunKeeps
<1>5. CASE Retry(x)
  <2>1. UNCHANGED claims /\ Over(x)
    BY <1>5 DEF Retry
  <2>2. rows' = rows \/ Fail(x) \/ (Requeue(x) /\ ~Spent(x))
    BY <1>5 DEF Retry
  <2>3. CASE rows' = rows \/ Fail(x)
    <3>1. /\ \A k \in Jobs \ {x.job} : rows'[k] = rows[k]
          /\ rows'[x.job].status \notin {"none", "queued"}
      BY <1>1, <2>3, UpdateOne DEF Fail
    <3> QED BY <2>1, <3>1, RunKeeps
  <2>4. CASE Requeue(x) /\ ~Spent(x)
    <3>1. /\ \A k \in Jobs \ {x.job} : rows'[k] = rows[k]
          /\ \/ rows' = rows
             \/ rows'[x.job].status = "queued" /\ rows'[x.job].attempts = x.attempts + 1
      BY <2>4, UpdateOne DEF Requeue
    <3> QED BY <1>1, <2>1, <2>4, <3>1, RunKeeps
  <2> QED BY <2>2, <2>3, <2>4
<1> QED BY <1>2, <1>3, <1>4, <1>5 DEF Step

LEMMA RunStep ==
  ASSUME JobsTypeOK, RunInv, [Next]_jvars
  PROVE  RunInv'
<1>1. ASSUME NEW g \in Gateways, NEW j \in Jobs, Create(g, j) PROVE RunInv'
  <2>1. UNCHANGED <<runs, claims>> /\ rows[j].status = "none"
    BY <1>1 DEF Create
  <2>2. /\ rows'[j].status = "queued" /\ rows'[j].attempts = rows[j].attempts
        /\ \A k \in Jobs \ {j} : rows'[k] = rows[k]
    BY <1>1 DEF Create, JobsTypeOK
  <2>3. \A x \in runs : x.job \in Jobs \ {j}
    BY <2>1 DEF RunInv, JobsTypeOK, Runs
  <2> QED BY <2>1, <2>2, <2>3, JobsAssumption DEF RunInv
<1>2. ASSUME NEW g \in Gateways, NEW j \in Jobs, Join(g, j) PROVE RunInv'
  BY <1>2 DEF Join, RunInv
<1>3. ASSUME NEW g \in Gateways, NEW j \in Jobs, Fire(g, j) PROVE RunInv'
  BY <1>3, ClaimKeeps DEF Fire
<1>4. ASSUME NEW g \in Gateways, SweepStart(g) PROVE RunInv'
  BY <1>4 DEF SweepStart, RunInv
<1>5. ASSUME NEW g \in Gateways, SweepNext(g) PROVE RunInv'
  <2>1. PICK j \in batch[g], o \in Outcomes : Claim(g, j, TRUE, o)
    BY <1>5 DEF SweepNext
  <2>2. j \in Jobs
    BY DEF JobsTypeOK
  <2> QED BY <2>1, <2>2, ClaimKeeps
<1>6. ASSUME NEW g \in Gateways, SweepEnd(g) PROVE RunInv'
  BY <1>6 DEF SweepEnd, RunInv
<1>7. ASSUME NEW g \in Gateways, Crash(g) PROVE RunInv'
  BY <1>7 DEF Crash, RunInv
<1>8. ASSUME NEW x \in runs, Step(x) PROVE RunInv'
  BY <1>8, StepKeeps
<1>9. ASSUME NEW j \in Jobs, BackoffOver(j) PROVE RunInv'
  <2>1. /\ rows'[j].status = rows[j].status /\ rows'[j].attempts = rows[j].attempts
        /\ \A k \in Jobs \ {j} : rows'[k] = rows[k]
        /\ UNCHANGED <<runs, claims>> /\ \A x \in runs : x.job \in Jobs
    BY <1>9 DEF BackoffOver, JobsTypeOK, Runs
  <2> QED BY <2>1 DEF RunInv
<1>10. ASSUME NEW j \in Jobs, Remove(j) PROVE RunInv'
  <2>1. /\ rows'[j].status = "gone" /\ \A k \in Jobs \ {j} : rows'[k] = rows[k]
        /\ UNCHANGED <<runs, claims>> /\ \A x \in runs : x.job \in Jobs
    BY <1>10 DEF Remove, JobsTypeOK, Runs
  <2> QED BY <2>1 DEF RunInv
<1>11. CASE UNCHANGED jvars
  BY <1>11 DEF jvars, RunInv
<1> QED BY <1>1, <1>2, <1>3, <1>4, <1>5, <1>6, <1>7, <1>8, <1>9, <1>10, <1>11 DEF Next

LEMMA RunAlways == Spec => []RunInv
<1>1. Init => RunInv
  BY JobsAssumption DEF Init, RunInv, NoJob
<1>2. JobsTypeOK /\ RunInv /\ [Next]_jvars => RunInv'
  BY RunStep
<1> QED BY <1>1, <1>2, JobsTypeCorrect, PTL DEF Spec

(* OneRunner: two runs of one job are never under way, whoever dispatches  *)
(* it and whatever fails.                                                  *)
THEOREM JobHasOneRunner == Spec => []OneRunner
<1>1. RunInv => OneRunner
  BY DEF RunInv, OneRunner
<1> QED BY <1>1, RunAlways, PTL

(* RunsBounded: a job is claimed at most as often as its attempts allow.   *)
THEOREM JobRunsBounded == Spec => []RunsBounded
<1>1. RunInv => RunsBounded
  BY DEF RunInv, RunsBounded
<1> QED BY <1>1, RunAlways, PTL

-----------------------------------------------------------------------------
(* The end of a job.                                                       *)

LEMMA ClaimSpares ==
  ASSUME JobsTypeOK, NEW g \in Gateways, NEW j \in Jobs, NEW swept \in BOOLEAN,
         NEW o \in Outcomes, Claim(g, j, swept, o),
         NEW k \in Jobs, Ended(k), Unrun(k)
  PROVE  Ended(k)' /\ Unrun(k)'
<1>1. CASE UNCHANGED <<rows, claims, runs>>
  BY <1>1 DEF Ended, Unrun
<1>2. CASE Due(j) /\ Take(g, j, swept, o)
  <2>1. k # j
    BY <1>2 DEF Due, Ended
  <2>2. rows'[k] = rows[k]
    BY <1>2, <2>1 DEF Take, JobsTypeOK
  <2>3. runs' \subseteq runs \cup {Claimed(g, j, swept)} /\ Claimed(g, j, swept).job # k
    BY <1>2, <2>1 DEF Take, Claimed
  <2> QED BY <2>2, <2>3 DEF Ended, Unrun
<1> QED BY <1>1, <1>2 DEF Claim

LEMMA StepSpares ==
  ASSUME JobsTypeOK, NEW x \in runs, Step(x), NEW k \in Jobs, Ended(k), Unrun(k)
  PROVE  Ended(k)' /\ Unrun(k)'
<1>1. x.job # k /\ x \in Runs
  BY DEF Unrun, JobsTypeOK
<1>2. rows'[k] = rows[k]
  <2>1. CASE Throw(x)
    BY <2>1 DEF Throw
  <2>2. CASE Succeed(x)
    BY <1>1, <2>2, UpdateOne DEF Succeed
  <2>3. CASE GiveUp(x)
    BY <1>1, <2>3, UpdateOne DEF GiveUp, Fail
  <2>4. CASE Retry(x)
    BY <1>1, <2>4, UpdateOne DEF Retry, Fail, Requeue
  <2> QED BY <2>1, <2>2, <2>3, <2>4 DEF Step
<1>3. Over(x) \/ Becomes(x, "caught")
  BY DEF Step, Throw, Succeed, GiveUp, Retry
<1>4. [x EXCEPT !.stage = "caught"].job = x.job
  BY <1>1 DEF Runs
<1>5. Unrun(k)'
  BY <1>1, <1>3, <1>4 DEF Over, Becomes, Unrun
<1> QED BY <1>2, <1>5 DEF Ended

(* EndIsFinal: a job that has ended and that nobody runs is not run again. *)
THEOREM JobEndIsFinal == Spec => EndIsFinal
<1>1. JobsTypeOK /\ [Next]_jvars => [StaysEnded]_jvars
  <2> SUFFICES ASSUME JobsTypeOK, Next, NEW k \in Jobs, Ended(k), Unrun(k)
               PROVE  Ended(k)' /\ Unrun(k)'
    BY DEF StaysEnded
  <2>1. ASSUME NEW g \in Gateways, NEW j \in Jobs, Create(g, j) PROVE Ended(k)' /\ Unrun(k)'
    BY <2>1 DEF Create, Ended, Unrun, JobsTypeOK
  <2>2. ASSUME NEW g \in Gateways, NEW j \in Jobs, Join(g, j) PROVE Ended(k)' /\ Unrun(k)'
    BY <2>2 DEF Join, Ended, Unrun
  <2>3. ASSUME NEW g \in Gateways, NEW j \in Jobs, Fire(g, j) PROVE Ended(k)' /\ Unrun(k)'
    BY <2>3, ClaimSpares DEF Fire
  <2>4. ASSUME NEW g \in Gateways, SweepStart(g) \/ SweepEnd(g) PROVE Ended(k)' /\ Unrun(k)'
    BY <2>4 DEF SweepStart, SweepEnd, Ended, Unrun
  <2>5. ASSUME NEW g \in Gateways, SweepNext(g) PROVE Ended(k)' /\ Unrun(k)'
    <3>1. PICK j \in batch[g], o \in Outcomes : Claim(g, j, TRUE, o)
      BY <2>5 DEF SweepNext
    <3>2. j \in Jobs
      BY DEF JobsTypeOK
    <3> QED BY <3>1, <3>2, ClaimSpares
  <2>6. ASSUME NEW g \in Gateways, Crash(g) PROVE Ended(k)' /\ Unrun(k)'
    BY <2>6 DEF Crash, Ended, Unrun
  <2>7. ASSUME NEW x \in runs, Step(x) PROVE Ended(k)' /\ Unrun(k)'
    BY <2>7, StepSpares
  <2>8. ASSUME NEW j \in Jobs, BackoffOver(j) \/ Remove(j) PROVE Ended(k)' /\ Unrun(k)'
    BY <2>8 DEF BackoffOver, Remove, Ended, Unrun, JobsTypeOK
  <2> QED BY <2>1, <2>2, <2>3, <2>4, <2>5, <2>6, <2>7, <2>8 DEF Next
<1> QED BY <1>1, JobsTypeCorrect, PTL DEF Spec, EndIsFinal

-----------------------------------------------------------------------------
(* The lifecycle of items.                                                 *)

PolicyRecords == [hotUp: Nat, hotDown: Nat, warmUp: Nat, warmDown: Nat, evict: Nat, summary: Nat]

LEMMA BelowUpper ==
  ASSUME NEW down \in Nat, NEW up \in Nat
  PROVE  BelowIt(down, up) \in Nat /\ BelowIt(down, up) <= up
BY DEF BelowIt

LEMMA ClampedDown ==
  ASSUME NEW p \in PolicyRecords
  PROVE  LET c == Clamped(p)
         IN  /\ c.hotUp \in Nat /\ c.hotDown \in Nat /\ c.hotDown <= c.hotUp
             /\ c.warmUp \in Nat /\ c.warmDown \in Nat /\ c.warmDown <= c.warmUp
             /\ c.evict \in Nat
<1> DEFINE warm  == BelowIt(p.warmDown, p.warmUp)
           hot   == BelowIt(p.hotDown, p.hotUp)
           evict == IF p.evict > warm THEN warm ELSE p.evict
<1>1. /\ p.hotUp \in Nat /\ p.hotDown \in Nat /\ p.warmUp \in Nat /\ p.warmDown \in Nat
      /\ p.evict \in Nat
  BY DEF PolicyRecords
<1>2. warm \in Nat /\ warm <= p.warmUp /\ hot \in Nat /\ hot <= p.hotUp
  BY <1>1, BelowUpper
<1>3. evict \in Nat
  BY <1>1, <1>2
<1>4. Clamped(p) = [p EXCEPT !.hotDown = hot, !.warmDown = warm, !.evict = evict]
  BY DEF Clamped
<1> HIDE DEF warm, hot, evict
<1>5. /\ Clamped(p).hotUp = p.hotUp /\ Clamped(p).hotDown = hot
      /\ Clamped(p).warmUp = p.warmUp /\ Clamped(p).warmDown = warm /\ Clamped(p).evict = evict
  BY <1>4 DEF PolicyRecords
<1>6. QED BY <1>1, <1>2, <1>3, <1>5

(* A value that takes an item up a tier does not take it down the next     *)
(* time, nor the other way about.                                          *)
LEMMA NoTurn ==
  ASSUME NEW p \in PolicyRecords, NEW tier \in Tiers, NEW value \in Int, NEW pinned \in BOOLEAN
  PROVE  ~TurnsBack(p, tier, value, pinned)
<1> DEFINE c == Clamped(p)
<1>1. /\ c.hotUp \in Nat /\ c.hotDown \in Nat /\ c.hotDown <= c.hotUp
      /\ c.warmUp \in Nat /\ c.warmDown \in Nat /\ c.warmDown <= c.warmUp
  BY ClampedDown
<1> HIDE DEF c
<1>2. \A t \in Tiers : TierFor(p, t, value, pinned) =
        CASE t = "HOT"  -> IF ~pinned /\ value < c.hotDown THEN "WARM" ELSE "HOT"
          [] t = "WARM" -> IF value >= c.hotUp THEN "HOT"
                           ELSE IF ~pinned /\ value < c.warmDown THEN "COLD" ELSE "WARM"
          [] OTHER      -> IF value >= c.warmUp THEN "WARM" ELSE "COLD"
  BY DEF TierFor, c
<1>3. CASE tier = "HOT"
  BY <1>1, <1>2, <1>3 DEF TurnsBack, Rank, Tiers
<1>4. CASE tier = "WARM"
  BY <1>1, <1>2, <1>4 DEF TurnsBack, Rank, Tiers
<1>5. CASE tier = "COLD"
  BY <1>1, <1>2, <1>5 DEF TurnsBack, Rank, Tiers
<1>6. QED BY <1>3, <1>4, <1>5 DEF Tiers

(* Whatever is configured, no item goes to and fro between two tiers while *)
(* its value stays.                                                        *)
THEOREM TiersStay == LifecycleSpec => []TiersNeverTurnBack
<1>1. LifecycleInit => policy \in Policies
  BY DEF LifecycleInit
<1>2. policy \in Policies /\ [LifecycleNext]_lvars => (policy \in Policies)'
  BY DEF LifecycleNext, lvars, ReadRows, WriteRow, Pin, ExpireItem, SweepBegins, NextRow, Keep,
         Evict, Compact, Summed, DeleteOne, SweepEnds
<1>3. policy \in Policies => TiersNeverTurnBack
  BY NoTurn, LifecycleAssumption DEF TiersNeverTurnBack, PolicyRecords, Values
<1>4. QED BY <1>1, <1>2, <1>3, PTL DEF LifecycleSpec

-----------------------------------------------------------------------------
Places == {"idle", "next", "decide", "summary", "delete"}

LifecycleTypeOK ==
  /\ policy \in PolicyRecords
  /\ items \in [Items -> ItemRows]
  /\ updater \in [at: {"idle", "event", "decay"}, seen: SUBSET (Items \X ItemRows)]
  /\ sweep \in [at: Places, rows: SUBSET (Items \X ItemRows), hand: Items \cup {0},
                row: [tier: Tiers, value: Values], group: SUBSET Items, used: Nat]
  /\ deletes \in Nat /\ taken \in SUBSET Items

(* What may be deleted: the item has expired, or since the sweep began it  *)
(* was low at some time and not pinned at some time.                       *)
WasLow(i)    == <<i, "low">> \in marks
WasFree(i)   == <<i, "free">> \in marks
MayBeGone(i) == items[i].expired \/ (WasLow(i) /\ WasFree(i))

(* The strengthening: the marks keep up with the items, what is in hand    *)
(* was read or written while the sweep ran, and what was chosen may go.    *)
NotedInv ==
  sweep.at # "idle" =>
    \A i \in Items : items[i].there => /\ LowValue(items[i].value) => WasLow(i)
                                       /\ ~items[i].pinned => WasFree(i)
ListedInv ==
  \A s \in sweep.rows : /\ ~s[2].pinned => WasFree(s[1])
                        /\ s[2].expired => items[s[1]].expired
                        /\ ~items[s[1]].there => MayBeGone(s[1])
InHandInv ==
  sweep.at = "decide" => /\ sweep.hand \in Items
                         /\ LowValue(sweep.row.value) => MayBeGone(sweep.hand)
ChosenInv == sweep.at \in {"summary", "delete"} => \A i \in sweep.group : MayBeGone(i)
TakenInv  == \A i \in taken : WasLow(i) /\ WasFree(i)

SweepInv == LifecycleTypeOK /\ NotedInv /\ ListedInv /\ InHandInv /\ ChosenInv /\ TakenInv

LEMMA InitSweepInv == LifecycleInit => SweepInv
<1> SUFFICES ASSUME LifecycleInit PROVE SweepInv
  OBVIOUS
<1>1. policy \in PolicyRecords
  BY LifecycleAssumption DEF LifecycleInit, PolicyRecords
<1>2. items \in [Items -> ItemRows]
  <2> DEFINE first == IF policy \notin RunPolicies THEN {NoItem}
                      ELSE {r \in ItemRows : r.there /\ ~r.expired
                              /\ TierFor(policy, r.tier, r.value, r.pinned) = r.tier}
  <2>1. items \in [Items -> first]
    BY DEF LifecycleInit
  <2>2. NoItem \in ItemRows
    BY LifecycleAssumption DEF NoItem, ItemRows, Tiers, Values
  <2>3. first \in SUBSET ItemRows
    BY <2>2
  <2> HIDE DEF first
  <2>4. QED BY <2>1, <2>3
<1>3. sweep = NoSweep /\ updater = IdleUpdater /\ deletes = 0 /\ taken = {}
  BY DEF LifecycleInit
<1>4. LifecycleTypeOK
  BY <1>1, <1>2, <1>3, LifecycleAssumption
     DEF LifecycleTypeOK, NoSweep, IdleUpdater, Places, Tiers, Values
<1>5. NotedInv /\ ListedInv /\ InHandInv /\ ChosenInv /\ TakenInv
  BY <1>3 DEF NoSweep, NotedInv, ListedInv, InHandInv, ChosenInv, TakenInv
<1>6. QED BY <1>4, <1>5 DEF SweepInv

(* A row as it is written back is a row.                                   *)
LEMMA ValuedIsRow ==
  ASSUME policy \in PolicyRecords, NEW row \in ItemRows, NEW change \in Int
  PROVE  Valued(row, change) \in ItemRows
<1> DEFINE value == Clamp(row.value + change)
           tier  == TierFor(policy, row.tier, value, row.pinned)
<1>1. row.value \in Int /\ row.tier \in Tiers /\ MaxValue \in Nat
  BY LifecycleAssumption DEF ItemRows, Values
<1>2. value \in Values
  BY <1>1 DEF Clamp, Values
<1>3. tier \in Tiers
  BY DEF TierFor, Tiers
<1>4. Valued(row, change) = [row EXCEPT !.value = value, !.tier = tier]
  BY DEF Valued
<1> HIDE DEF value, tier
<1>5. QED BY <1>2, <1>3, <1>4 DEF ItemRows

LEMMA WriteKeeps ==
  ASSUME items \in [Items -> ItemRows], NEW i \in Items, NEW row \in ItemRows, Write(i, row)
  PROVE  /\ items' \in [Items -> ItemRows]
         /\ \A j \in Items : /\ items'[j].there = items[j].there
                             /\ items'[j].expired = items[j].expired
         /\ items[i].there => items'[i].value = row.value
<1> DEFINE value == IF items[i].there THEN row.value ELSE items[i].value
           tier  == IF items[i].there THEN row.tier ELSE items[i].tier
<1>1. items' = [items EXCEPT ![i] = [items[i] EXCEPT !.value = value, !.tier = tier]]
  BY DEF Write
<1>2. value \in Values /\ tier \in Tiers /\ items[i] \in ItemRows
  BY DEF ItemRows
<1>3. items[i].there => value = row.value
  OBVIOUS
<1> HIDE DEF value, tier
<1>4. /\ [items[i] EXCEPT !.value = value, !.tier = tier] \in ItemRows
      /\ [items[i] EXCEPT !.value = value, !.tier = tier].there = items[i].there
      /\ [items[i] EXCEPT !.value = value, !.tier = tier].expired = items[i].expired
      /\ [items[i] EXCEPT !.value = value, !.tier = tier].value = value
  BY <1>2 DEF ItemRows
<1>5. QED BY <1>1, <1>3, <1>4

(* The marks after a step that changes items: nothing is unmarked, and     *)
(* what is low or not pinned now is marked.                                *)
LEMMA NotesMark ==
  ASSUME Notes
  PROVE  /\ marks \subseteq marks'
         /\ \A i \in Items : items'[i].there =>
              /\ LowValue(items'[i].value) => <<i, "low">> \in marks'
              /\ ~items'[i].pinned => <<i, "free">> \in marks'
BY DEF Notes, Marks

(* Rows that change while the sweep stands still.                          *)
LEMMA OthersStep ==
  ASSUME SweepInv, LifecycleTypeOK', Notes, UNCHANGED <<policy, sweep, taken>>,
         \A i \in Items : /\ items'[i].there = items[i].there
                          /\ items[i].expired => items'[i].expired
  PROVE  SweepInv'
<1>0. policy' = policy /\ sweep' = sweep /\ taken' = taken
  OBVIOUS
<1>1. marks \subseteq marks'
  BY NotesMark
<1>2. /\ \A i \in Items : MayBeGone(i) => MayBeGone(i)'
      /\ \A i \in Items : (WasLow(i) => WasLow(i)') /\ (WasFree(i) => WasFree(i)')
  BY <1>1 DEF MayBeGone, WasLow, WasFree
<1>3. NotedInv'
  <2> SUFFICES ASSUME NEW i \in Items, items'[i].there
               PROVE  /\ LowValue(items[i].value)' => WasLow(i)'
                      /\ ~items'[i].pinned => WasFree(i)'
    BY <1>0 DEF NotedInv
  <2>2. items'[i].value \in Int
    BY DEF LifecycleTypeOK, ItemRows, Values
  <2>3. QED BY <1>0, <2>2, NotesMark DEF WasLow, WasFree, LowValue
<1>4. ListedInv'
  <2> SUFFICES ASSUME NEW s \in sweep.rows
               PROVE  /\ ~s[2].pinned => WasFree(s[1])'
                      /\ s[2].expired => items'[s[1]].expired
                      /\ ~items'[s[1]].there => MayBeGone(s[1])'
    BY <1>0 DEF ListedInv
  <2>1. s[1] \in Items
    BY DEF SweepInv, LifecycleTypeOK
  <2>2. QED BY <1>2, <2>1 DEF SweepInv, ListedInv
<1>5. InHandInv' /\ ChosenInv' /\ TakenInv'
  BY <1>0, <1>2 DEF SweepInv, InHandInv, ChosenInv, TakenInv, LifecycleTypeOK, LowValue
<1>6. QED BY <1>3, <1>4, <1>5 DEF SweepInv

(* What is written over a row that was read before.                        *)
LEMMA WriteRowStep == SweepInv /\ WriteRow => SweepInv'
<1> SUFFICES ASSUME SweepInv, WriteRow PROVE SweepInv'
  OBVIOUS
<1>0. PICK s \in updater.seen :
        /\ \E change \in (IF updater.at = "event" THEN {-1, 1} ELSE {-1, 0}) :
             Write(s[1], Valued(s[2], change))
        /\ updater' = IF updater.seen = {s} THEN IdleUpdater ELSE [updater EXCEPT !.seen = @ \ {s}]
  BY DEF WriteRow
<1>1. PICK change \in Int : Write(s[1], Valued(s[2], change))
  <2>1. (IF updater.at = "event" THEN {-1, 1} ELSE {-1, 0}) \subseteq Int
    OBVIOUS
  <2>2. QED BY <1>0, <2>1
<1>2. s[1] \in Items /\ s[2] \in ItemRows
  BY DEF SweepInv, LifecycleTypeOK
<1>3. Valued(s[2], change) \in ItemRows
  BY <1>2, ValuedIsRow DEF SweepInv, LifecycleTypeOK
<1>4. /\ items' \in [Items -> ItemRows]
      /\ \A j \in Items : /\ items'[j].there = items[j].there
                          /\ items'[j].expired = items[j].expired
  BY <1>1, <1>2, <1>3, WriteKeeps DEF SweepInv, LifecycleTypeOK
<1>5. updater' \in [at: {"idle", "event", "decay"}, seen: SUBSET (Items \X ItemRows)]
  <2>1. updater \in [at: {"idle", "event", "decay"}, seen: SUBSET (Items \X ItemRows)]
    BY DEF SweepInv, LifecycleTypeOK
  <2>2. IdleUpdater \in [at: {"idle", "event", "decay"}, seen: SUBSET (Items \X ItemRows)]
    BY DEF IdleUpdater
  <2>3. [updater EXCEPT !.seen = @ \ {s}]
          \in [at: {"idle", "event", "decay"}, seen: SUBSET (Items \X ItemRows)]
    BY <2>1
  <2>4. QED BY <1>0, <2>2, <2>3
<1>6. LifecycleTypeOK'
  BY <1>4, <1>5 DEF WriteRow, SweepInv, LifecycleTypeOK
<1>7. QED BY <1>4, <1>6, OthersStep DEF WriteRow

LEMMA PinStep ==
  ASSUME SweepInv, NEW i \in Items, Pin(i)
  PROVE  SweepInv'
<1>1. /\ items' \in [Items -> ItemRows]
      /\ \A j \in Items : /\ items'[j].there = items[j].there
                          /\ items'[j].expired = items[j].expired
  BY ZenonT(60) DEF Pin, SweepInv, LifecycleTypeOK, ItemRows
<1>2. LifecycleTypeOK'
  BY <1>1 DEF Pin, SweepInv, LifecycleTypeOK
<1>3. QED BY <1>1, <1>2, OthersStep DEF Pin

LEMMA ExpireStep ==
  ASSUME SweepInv, NEW i \in Items, ExpireItem(i)
  PROVE  SweepInv'
<1>1. /\ items' \in [Items -> ItemRows]
      /\ \A j \in Items : /\ items'[j].there = items[j].there
                          /\ items[j].expired => items'[j].expired
                          /\ items'[j].value = items[j].value /\ items'[j].pinned = items[j].pinned
  BY ZenonT(60) DEF ExpireItem, SweepInv, LifecycleTypeOK, ItemRows
<1>2. UNCHANGED <<policy, updater, sweep, deletes, marks, taken>>
  BY DEF ExpireItem
<1>3. LifecycleTypeOK'
  BY <1>1, <1>2 DEF SweepInv, LifecycleTypeOK
<1>4. \A j \in Items : MayBeGone(j) => MayBeGone(j)'
  BY <1>1, <1>2 DEF MayBeGone, WasLow, WasFree
<1>5. NotedInv'
  BY <1>1, <1>2 DEF SweepInv, NotedInv, WasLow, WasFree, LowValue
<1>6. ListedInv'
  <2> SUFFICES ASSUME NEW s \in sweep.rows
               PROVE  /\ ~s[2].pinned => WasFree(s[1])'
                      /\ s[2].expired => items'[s[1]].expired
                      /\ ~items'[s[1]].there => MayBeGone(s[1])'
    BY <1>2 DEF ListedInv
  <2>1. s[1] \in Items
    BY DEF SweepInv, LifecycleTypeOK
  <2>2. QED BY <1>1, <1>2, <1>4, <2>1 DEF SweepInv, ListedInv, WasFree
<1>7. InHandInv' /\ ChosenInv' /\ TakenInv'
  BY <1>2, <1>4
     DEF SweepInv, InHandInv, ChosenInv, TakenInv, WasLow, WasFree, LifecycleTypeOK, LowValue
<1>8. QED BY <1>3, <1>5, <1>6, <1>7 DEF SweepInv

LEMMA SweepBeginsStep == SweepInv /\ SweepBegins => SweepInv'
<1> SUFFICES ASSUME SweepInv, SweepBegins PROVE SweepInv'
  OBVIOUS
<1>1. /\ sweep' = [NoSweep EXCEPT !.at = "next", !.rows = {<<i, items[i]>> : i \in Live}]
      /\ marks' = Marks(items) /\ taken' = {} /\ deletes' = 0
      /\ UNCHANGED <<policy, items, updater>>
  BY DEF SweepBegins
<1>2. /\ sweep'.at = "next" /\ sweep'.rows = {<<i, items[i]>> : i \in Live}
      /\ sweep'.hand = 0 /\ sweep'.group = {} /\ sweep'.used = 0
  BY <1>1 DEF NoSweep
<1>3. LifecycleTypeOK'
  <2>1. sweep'.rows \in SUBSET (Items \X ItemRows)
    BY <1>2 DEF SweepInv, LifecycleTypeOK, Live
  <2>2. NoSweep.row \in [tier: Tiers, value: Values]
    BY LifecycleAssumption DEF NoSweep, Tiers, Values
  <2>3. sweep' \in [at: Places, rows: SUBSET (Items \X ItemRows), hand: Items \cup {0},
                    row: [tier: Tiers, value: Values], group: SUBSET Items, used: Nat]
    BY <1>1, <1>2, <2>1, <2>2 DEF NoSweep, Places
  <2>4. QED BY <1>1, <2>3 DEF SweepInv, LifecycleTypeOK
<1>4. \A i \in Items : items[i].there => /\ LowValue(items[i].value) => WasLow(i)'
                                         /\ ~items[i].pinned => WasFree(i)'
  BY <1>1 DEF Marks, WasLow, WasFree
<1>5. NotedInv'
  BY <1>1, <1>4 DEF NotedInv, LowValue
<1>6. ListedInv'
  <2> SUFFICES ASSUME NEW i \in Live
               PROVE  /\ ~items[i].pinned => WasFree(i)'
                      /\ ~items[i].there => MayBeGone(i)'
    BY <1>1, <1>2 DEF ListedInv
  <2>1. QED BY <1>4 DEF Live
<1>7. InHandInv' /\ ChosenInv' /\ TakenInv'
  BY <1>1, <1>2 DEF InHandInv, ChosenInv, TakenInv
<1>8. QED BY <1>3, <1>5, <1>6, <1>7 DEF SweepInv

LEMMA NextRowStep == SweepInv /\ NextRow => SweepInv'
<1> SUFFICES ASSUME SweepInv, NextRow PROVE SweepInv'
  OBVIOUS
<1>1. PICK r \in sweep.rows :
        \/ /\ r[2].expired
           /\ sweep' = [sweep EXCEPT !.at = "delete", !.rows = sweep.rows \ {r}, !.hand = r[1],
                                     !.group = {r[1]}, !.used = BudgetUsed(1)]
           /\ UNCHANGED <<items, marks>>
        \/ /\ sweep' = [sweep EXCEPT !.rows = sweep.rows \ {r}]
           /\ UNCHANGED <<items, marks>>
        \/ /\ ~r[2].pinned
           /\ \E change \in {-1, 0} :
                /\ Write(r[1], Valued(r[2], change))
                /\ sweep' = [sweep EXCEPT !.at = "decide", !.rows = sweep.rows \ {r},
                                          !.hand = r[1],
                                          !.row = [tier |-> Valued(r[2], change).tier,
                                                   value |-> Valued(r[2], change).value]]
           /\ Notes
  BY DEF NextRow
<1>2. /\ r[1] \in Items /\ r[2] \in ItemRows
      /\ sweep.at = "next" /\ UNCHANGED <<policy, updater, deletes, taken>>
  BY DEF NextRow, SweepAt, SweepInv, LifecycleTypeOK
<1>3. /\ ~r[2].pinned => WasFree(r[1])
      /\ r[2].expired => items[r[1]].expired
      /\ ~items[r[1]].there => MayBeGone(r[1])
  BY DEF SweepInv, ListedInv
<1>4. CASE /\ r[2].expired
           /\ sweep' = [sweep EXCEPT !.at = "delete", !.rows = sweep.rows \ {r}, !.hand = r[1],
                                     !.group = {r[1]}, !.used = BudgetUsed(1)]
           /\ UNCHANGED <<items, marks>>
  <2>1. LifecycleTypeOK'
    <3>1. BudgetUsed(1) \in Nat /\ {r[1]} \in SUBSET Items /\ sweep.rows \ {r} \in SUBSET sweep.rows
      BY <1>2 DEF SweepInv, LifecycleTypeOK, BudgetUsed
    <3>2. QED BY <1>2, <1>4, <3>1 DEF SweepInv, LifecycleTypeOK, Places
  <2>2. /\ sweep'.at = "delete" /\ sweep'.rows \subseteq sweep.rows /\ sweep'.group = {r[1]}
    BY <1>4 DEF SweepInv, LifecycleTypeOK
  <2>3. NotedInv' /\ ListedInv'
    BY <1>2, <1>4, <2>2
       DEF SweepInv, NotedInv, ListedInv, MayBeGone, WasLow, WasFree, LowValue
  <2>4. InHandInv' /\ ChosenInv' /\ TakenInv'
    BY <1>2, <1>3, <1>4, <2>2
       DEF SweepInv, InHandInv, ChosenInv, TakenInv, MayBeGone, WasLow, WasFree
  <2>5. QED BY <2>1, <2>3, <2>4 DEF SweepInv
<1>5. CASE /\ sweep' = [sweep EXCEPT !.rows = sweep.rows \ {r}]
           /\ UNCHANGED <<items, marks>>
  <2>1. LifecycleTypeOK'
    BY <1>2, <1>5 DEF SweepInv, LifecycleTypeOK
  <2>2. sweep'.at = "next" /\ sweep'.rows \subseteq sweep.rows
    BY <1>2, <1>5 DEF SweepInv, LifecycleTypeOK
  <2>3. NotedInv' /\ ListedInv'
    BY <1>2, <1>5, <2>2
       DEF SweepInv, NotedInv, ListedInv, MayBeGone, WasLow, WasFree, LowValue
  <2>4. InHandInv' /\ ChosenInv' /\ TakenInv'
    BY <1>2, <1>5, <2>2 DEF SweepInv, InHandInv, ChosenInv, TakenInv, WasLow, WasFree
  <2>5. QED BY <2>1, <2>3, <2>4 DEF SweepInv
<1>6. CASE /\ ~r[2].pinned
           /\ \E change \in {-1, 0} :
                /\ Write(r[1], Valued(r[2], change))
                /\ sweep' = [sweep EXCEPT !.at = "decide", !.rows = sweep.rows \ {r},
                                          !.hand = r[1],
                                          !.row = [tier |-> Valued(r[2], change).tier,
                                                   value |-> Valued(r[2], change).value]]
           /\ Notes
  <2>1. PICK v \in ItemRows :
          /\ Write(r[1], v)
          /\ sweep' = [sweep EXCEPT !.at = "decide", !.rows = sweep.rows \ {r}, !.hand = r[1],
                                    !.row = [tier |-> v.tier, value |-> v.value]]
    <3>1. PICK change \in {-1, 0} :
            /\ Write(r[1], Valued(r[2], change))
            /\ sweep' = [sweep EXCEPT !.at = "decide", !.rows = sweep.rows \ {r}, !.hand = r[1],
                                      !.row = [tier |-> Valued(r[2], change).tier,
                                               value |-> Valued(r[2], change).value]]
      BY <1>6
    <3>2. Valued(r[2], change) \in ItemRows
      BY <1>2, ValuedIsRow DEF SweepInv, LifecycleTypeOK
    <3>3. QED BY <3>1, <3>2
  <2>2. /\ items' \in [Items -> ItemRows]
        /\ \A j \in Items : /\ items'[j].there = items[j].there
                            /\ items'[j].expired = items[j].expired
        /\ items[r[1]].there => items'[r[1]].value = v.value
    BY <1>2, <2>1, WriteKeeps DEF SweepInv, LifecycleTypeOK
  <2>3. /\ sweep'.at = "decide" /\ sweep'.rows = sweep.rows \ {r} /\ sweep'.hand = r[1]
        /\ sweep'.row.value = v.value
    BY <2>1 DEF SweepInv, LifecycleTypeOK
  <2>4. LifecycleTypeOK'
    <3>1. [tier |-> v.tier, value |-> v.value] \in [tier: Tiers, value: Values]
      BY DEF ItemRows
    <3>2. QED BY <1>2, <2>1, <2>2, <3>1 DEF SweepInv, LifecycleTypeOK, Places
  <2>5. marks \subseteq marks'
    BY <1>6, NotesMark
  <2>6. /\ \A i \in Items : MayBeGone(i) => MayBeGone(i)'
        /\ \A i \in Items : (WasLow(i) => WasLow(i)') /\ (WasFree(i) => WasFree(i)')
    BY <2>2, <2>5 DEF MayBeGone, WasLow, WasFree
  <2>7. NotedInv'
    BY <1>2, <1>6, <2>2, NotesMark DEF NotedInv, WasLow, WasFree, LowValue
  <2>8. ListedInv'
    <3> SUFFICES ASSUME NEW s \in sweep'.rows
                 PROVE  /\ ~s[2].pinned => WasFree(s[1])'
                        /\ s[2].expired => items'[s[1]].expired
                        /\ ~items'[s[1]].there => MayBeGone(s[1])'
      BY DEF ListedInv
    <3>1. s \in sweep.rows /\ s[1] \in Items
      BY <2>3 DEF SweepInv, LifecycleTypeOK
    <3>2. QED BY <2>2, <2>6, <3>1 DEF SweepInv, ListedInv
  <2>9. InHandInv'
    <3>1. CASE items[r[1]].there
      <4>1. LowValue(v.value) => <<r[1], "low">> \in marks'
        BY <1>2, <1>6, <2>2, <3>1, NotesMark
      <4>2. WasFree(r[1])'
        BY <1>2, <1>3, <1>6, <2>6
      <4>3. QED BY <1>2, <2>3, <4>1, <4>2 DEF InHandInv, MayBeGone, WasLow, LowValue
    <3>2. CASE ~items[r[1]].there
      <4>1. MayBeGone(r[1])'
        BY <1>2, <1>3, <2>6, <3>2
      <4>2. QED BY <1>2, <2>3, <4>1 DEF InHandInv
    <3>3. QED BY <3>1, <3>2
  <2>10. ChosenInv' /\ TakenInv'
    BY <1>2, <2>3, <2>6 DEF SweepInv, ChosenInv, TakenInv, LifecycleTypeOK
  <2>11. QED BY <2>4, <2>7, <2>8, <2>9, <2>10 DEF SweepInv
<1>7. QED BY <1>1, <1>4, <1>5, <1>6

(* Steps of the sweep that leave the items alone and take no row.          *)
LEMMA DecideStep ==
  ASSUME SweepInv, sweep.at # "idle", UNCHANGED <<policy, items, updater, deletes, marks, taken>>,
         NEW at \in {"next", "summary", "delete"}, NEW group \in SUBSET Items, NEW used \in Nat,
         sweep' = [sweep EXCEPT !.at = at, !.group = group, !.used = used],
         at # "next" => \A i \in group : MayBeGone(i)
  PROVE  SweepInv'
<1>1. LifecycleTypeOK'
  BY DEF SweepInv, LifecycleTypeOK, Places
<1>2. sweep'.at = at /\ sweep'.rows = sweep.rows /\ sweep'.group = group
  BY DEF SweepInv, LifecycleTypeOK
<1>3. NotedInv' /\ ListedInv'
  BY <1>2 DEF SweepInv, NotedInv, ListedInv, MayBeGone, WasLow, WasFree, LowValue
<1>4. InHandInv' /\ ChosenInv' /\ TakenInv'
  BY <1>2 DEF SweepInv, InHandInv, ChosenInv, TakenInv, MayBeGone, WasLow, WasFree
<1>5. QED BY <1>1, <1>3, <1>4 DEF SweepInv

LEMMA KeepStep == SweepInv /\ Keep => SweepInv'
<1> SUFFICES ASSUME SweepInv, Keep PROVE SweepInv'
  OBVIOUS
<1>1. sweep' = [sweep EXCEPT !.at = "next", !.group = sweep.group, !.used = sweep.used]
  BY DEF Keep, SweepInv, LifecycleTypeOK
<1>2. sweep.group \in SUBSET Items /\ sweep.used \in Nat
  BY DEF SweepInv, LifecycleTypeOK
<1>3. QED BY <1>1, <1>2, DecideStep DEF Keep, SweepAt

LEMMA EvictStep == SweepInv /\ Evict => SweepInv'
<1> SUFFICES ASSUME SweepInv, Evict PROVE SweepInv'
  OBVIOUS
<1>1. sweep.hand \in Items /\ MayBeGone(sweep.hand)
  BY DEF Evict, SweepAt, SweepInv, InHandInv, LowValue
<1>2. sweep.group \in SUBSET Items /\ sweep.used \in Nat /\ BudgetUsed(1) \in Nat
  BY DEF SweepInv, LifecycleTypeOK, BudgetUsed
<1>3. CASE Affordable(1)
  <2>1. sweep' = [sweep EXCEPT !.at = "delete", !.group = {sweep.hand}, !.used = BudgetUsed(1)]
    BY <1>3 DEF Evict
  <2>2. {sweep.hand} \in SUBSET Items /\ \A i \in {sweep.hand} : MayBeGone(i)
    BY <1>1
  <2>3. QED BY <1>2, <2>1, <2>2, DecideStep DEF Evict, SweepAt
<1>4. CASE ~Affordable(1)
  <2>1. sweep' = [sweep EXCEPT !.at = "next", !.group = sweep.group, !.used = sweep.used]
    BY <1>4 DEF Evict, SweepInv, LifecycleTypeOK
  <2>2. QED BY <1>2, <2>1, DecideStep DEF Evict, SweepAt
<1>5. QED BY <1>3, <1>4

LEMMA CompactStep == SweepInv /\ Compact => SweepInv'
<1> SUFFICES ASSUME SweepInv, Compact PROVE SweepInv'
  OBVIOUS
<1>1. PICK g \in Groups : sweep' = [sweep EXCEPT !.at = "summary", !.group = Gathered(g)]
  BY DEF Compact
<1>2. sweep.hand \in Items /\ MayBeGone(sweep.hand)
  BY DEF Compact, SweepAt, SweepInv, InHandInv, LowValue
<1>3. g \in SUBSET Items /\ \A i \in g : MayBeGone(i)
  BY DEF Groups, Live, Compact, SweepAt, SweepInv, NotedInv, MayBeGone, LowValue
<1>4. Gathered(g) \in SUBSET Items /\ \A i \in Gathered(g) : MayBeGone(i)
  BY <1>2, <1>3 DEF Gathered
<1>5. /\ sweep' = [sweep EXCEPT !.at = "summary", !.group = Gathered(g), !.used = sweep.used]
      /\ sweep.used \in Nat
  BY <1>1 DEF SweepInv, LifecycleTypeOK
<1>6. QED BY <1>4, <1>5, DecideStep DEF Compact, SweepAt

LEMMA SummedStep == SweepInv /\ Summed => SweepInv'
<1> SUFFICES ASSUME SweepInv, Summed PROVE SweepInv'
  OBVIOUS
<1> DEFINE n == Cardinality(sweep.group)
<1>1. /\ sweep.group \in SUBSET Items /\ sweep.used \in Nat
      /\ sweep.at = "summary" /\ \A i \in sweep.group : MayBeGone(i)
  BY DEF Summed, SweepAt, SweepInv, LifecycleTypeOK, ChosenInv
<1>2. BudgetUsed(n) \in Nat
  <2>1. n \in Nat
    BY <1>1, LifecycleAssumption, FS_Subset, FS_CardinalityType
  <2>2. QED BY <1>1, <2>1 DEF BudgetUsed
<1>3. CASE sweep' = [sweep EXCEPT !.at = "delete", !.used = BudgetUsed(n)]
  <2>1. sweep' = [sweep EXCEPT !.at = "delete", !.group = sweep.group, !.used = BudgetUsed(n)]
    BY <1>3 DEF SweepInv, LifecycleTypeOK
  <2>2. QED BY <1>1, <1>2, <2>1, DecideStep DEF Summed
<1>4. CASE sweep' = [sweep EXCEPT !.at = "next", !.group = {}]
  <2>1. sweep' = [sweep EXCEPT !.at = "next", !.group = {}, !.used = sweep.used]
    BY <1>4 DEF SweepInv, LifecycleTypeOK
  <2>2. QED BY <1>1, <2>1, DecideStep DEF Summed
<1>5. QED BY <1>3, <1>4 DEF Summed

LEMMA DeleteOneStep == SweepInv /\ DeleteOne => SweepInv'
<1> SUFFICES ASSUME SweepInv, DeleteOne PROVE SweepInv'
  OBVIOUS
<1>1. PICK i \in sweep.group :
        /\ items' = [items EXCEPT ![i].there = FALSE]
        /\ deletes' = deletes + 1
        /\ taken' = IF items[i].expired THEN taken ELSE taken \cup {i}
        /\ sweep' = [sweep EXCEPT !.group = @ \ {i},
                                  !.at = IF sweep.group = {i} THEN "next" ELSE @]
  BY DEF DeleteOne
<1>2. /\ i \in Items /\ sweep.at = "delete" /\ MayBeGone(i)
      /\ UNCHANGED <<policy, updater, marks>>
  BY DEF DeleteOne, SweepAt, SweepInv, LifecycleTypeOK, ChosenInv
<1>3. /\ items' \in [Items -> ItemRows]
      /\ \A j \in Items : /\ items'[j].there => items[j].there
                          /\ j # i => items'[j].there = items[j].there
                          /\ items'[j].expired = items[j].expired
                          /\ items'[j].value = items[j].value /\ items'[j].pinned = items[j].pinned
  BY <1>1, <1>2, ZenonT(60) DEF SweepInv, LifecycleTypeOK, ItemRows
<1>4. /\ sweep'.at \in {"next", "delete"} /\ sweep'.rows = sweep.rows
      /\ sweep'.group \subseteq sweep.group
  BY <1>1, <1>2 DEF SweepInv, LifecycleTypeOK
<1>5. LifecycleTypeOK'
  <2>1. sweep' \in [at: Places, rows: SUBSET (Items \X ItemRows), hand: Items \cup {0},
                    row: [tier: Tiers, value: Values], group: SUBSET Items, used: Nat]
    BY <1>1, <1>2 DEF SweepInv, LifecycleTypeOK, Places
  <2>2. deletes' \in Nat /\ taken' \in SUBSET Items
    BY <1>1, <1>2 DEF SweepInv, LifecycleTypeOK
  <2>3. QED BY <1>2, <1>3, <2>1, <2>2 DEF SweepInv, LifecycleTypeOK
<1>6. \A j \in Items : /\ MayBeGone(j) => MayBeGone(j)'
                       /\ WasLow(j)' = WasLow(j) /\ WasFree(j)' = WasFree(j)
  BY <1>2, <1>3 DEF MayBeGone, WasLow, WasFree
<1>7. NotedInv'
  BY <1>2, <1>3, <1>6 DEF SweepInv, NotedInv, LowValue
<1>8. ListedInv'
  <2> SUFFICES ASSUME NEW s \in sweep.rows
               PROVE  /\ ~s[2].pinned => WasFree(s[1])'
                      /\ s[2].expired => items'[s[1]].expired
                      /\ ~items'[s[1]].there => MayBeGone(s[1])'
    BY <1>4 DEF ListedInv
  <2>1. s[1] \in Items
    BY DEF SweepInv, LifecycleTypeOK
  <2>2. QED BY <1>2, <1>3, <1>6, <2>1 DEF SweepInv, ListedInv
<1>9. InHandInv' /\ ChosenInv'
  BY <1>2, <1>4, <1>6 DEF SweepInv, InHandInv, ChosenInv, LifecycleTypeOK
<1>10. TakenInv'
  BY <1>1, <1>2, <1>6 DEF SweepInv, TakenInv, LifecycleTypeOK, MayBeGone
<1>11. QED BY <1>5, <1>7, <1>8, <1>9, <1>10 DEF SweepInv

LEMMA SweepEndsStep == SweepInv /\ SweepEnds => SweepInv'
<1> SUFFICES ASSUME SweepInv, SweepEnds PROVE SweepInv'
  OBVIOUS
<1>1. sweep' = NoSweep /\ UNCHANGED <<policy, items, updater, deletes, marks, taken>>
  BY DEF SweepEnds
<1>2. LifecycleTypeOK'
  BY <1>1, LifecycleAssumption DEF SweepInv, LifecycleTypeOK, NoSweep, Places, Tiers, Values
<1>3. NotedInv' /\ ListedInv' /\ InHandInv' /\ ChosenInv' /\ TakenInv'
  BY <1>1
     DEF SweepInv, NoSweep, NotedInv, ListedInv, InHandInv, ChosenInv, TakenInv, WasLow, WasFree
<1>4. QED BY <1>2, <1>3 DEF SweepInv

LEMMA IdleStep ==
  ASSUME SweepInv, UNCHANGED <<policy, items, sweep, deletes, marks, taken>>, LifecycleTypeOK'
  PROVE  SweepInv'
BY DEF SweepInv, NotedInv, ListedInv, InHandInv, ChosenInv, TakenInv, MayBeGone, WasLow, WasFree,
       LowValue

LEMMA ReadRowsStep == SweepInv /\ ReadRows => SweepInv'
<1> SUFFICES ASSUME SweepInv, ReadRows PROVE SweepInv'
  OBVIOUS
<1>1. updater' \in [at: {"idle", "event", "decay"}, seen: SUBSET (Items \X ItemRows)]
  BY DEF ReadRows, SweepInv, LifecycleTypeOK, Live
<1>2. LifecycleTypeOK'
  BY <1>1 DEF ReadRows, SweepInv, LifecycleTypeOK
<1>3. QED BY <1>2, IdleStep DEF ReadRows

LEMMA StepSweepInv == SweepInv /\ [LifecycleNext]_lvars => SweepInv'
<1> SUFFICES ASSUME SweepInv, [LifecycleNext]_lvars PROVE SweepInv'
  OBVIOUS
<1>1. CASE UNCHANGED lvars
  <2>1. LifecycleTypeOK'
    BY <1>1 DEF lvars, SweepInv, LifecycleTypeOK
  <2>2. QED BY <1>1, <2>1, IdleStep DEF lvars
<1>2. CASE LifecycleNext
  BY <1>2, ReadRowsStep, WriteRowStep, PinStep, ExpireStep, SweepBeginsStep, NextRowStep, KeepStep,
     EvictStep, CompactStep, SummedStep, DeleteOneStep, SweepEndsStep DEF LifecycleNext
<1>3. QED BY <1>1, <1>2

(* A sweep deletes only what was low and not pinned since it began, or     *)
(* what has expired, whatever events, decay and requests do meanwhile.     *)
THEOREM DeletedAlwaysLow == LifecycleSpec => []DeletedWereLow
<1>1. SweepInv => DeletedWereLow
  BY DEF SweepInv, TakenInv, WasLow, WasFree, DeletedWereLow
<1>2. QED BY <1>1, InitSweepInv, StepSweepInv, PTL DEF LifecycleSpec

-----------------------------------------------------------------------------
(* What the sweep has said it deletes and has not deleted yet is paid for. *)
Owed == IF sweep.at = "delete" THEN Cardinality(sweep.group) ELSE 0
BudgetInv ==
  MaxDeletes > 0 => /\ deletes <= MaxDeletes
                    /\ sweep.at # "idle" => sweep.used <= MaxDeletes /\ deletes + Owed <= sweep.used

LEMMA GroupSizes ==
  ASSUME NEW g \in SUBSET Items
  PROVE  /\ IsFiniteSet(g) /\ Cardinality(g) \in Nat
         /\ \A i \in Items : Cardinality({i}) = 1
         /\ \A i \in g : Cardinality(g \ {i}) = Cardinality(g) - 1
<1>1. IsFiniteSet(g) /\ Cardinality(g) \in Nat
  BY LifecycleAssumption, FS_Subset, FS_CardinalityType
<1>2. QED BY <1>1, FS_Singleton, FS_RemoveElement

LEMMA StepBudgetInv ==
  ASSUME SweepInv, BudgetInv, [LifecycleNext]_lvars
  PROVE  BudgetInv'
<1> SUFFICES ASSUME MaxDeletes > 0 PROVE BudgetInv'
  BY DEF BudgetInv
<1>0. /\ MaxDeletes \in Nat /\ deletes \in Nat /\ sweep.used \in Nat /\ deletes <= MaxDeletes
      /\ sweep.at # "idle" => sweep.used <= MaxDeletes /\ deletes + Owed <= sweep.used
      /\ sweep.group \in SUBSET Items /\ Cardinality(sweep.group) \in Nat
  BY LifecycleAssumption, GroupSizes DEF BudgetInv, SweepInv, LifecycleTypeOK
<1>1. CASE UNCHANGED <<sweep, deletes>>
  BY <1>0, <1>1 DEF BudgetInv, Owed
<1>2. CASE SweepBegins
  BY <1>0, <1>2 DEF SweepBegins, NoSweep, BudgetInv, Owed
<1>3. CASE SweepEnds
  BY <1>0, <1>3 DEF SweepEnds, NoSweep, BudgetInv, Owed
<1>4. CASE Keep
  <2>1. sweep'.at = "next" /\ sweep'.used = sweep.used /\ deletes' = deletes
    BY <1>4 DEF Keep, SweepInv, LifecycleTypeOK
  <2>2. QED BY <1>0, <1>4, <2>1 DEF Keep, SweepAt, BudgetInv, Owed
<1>5. CASE Compact
  <2>1. sweep'.at = "summary" /\ sweep'.used = sweep.used /\ deletes' = deletes
    BY <1>5 DEF Compact, SweepInv, LifecycleTypeOK
  <2>2. QED BY <1>0, <1>5, <2>1 DEF Compact, SweepAt, BudgetInv, Owed
<1>6. CASE Evict
  <2>1. \/ sweep'.at = "next" /\ sweep'.used = sweep.used
        \/ /\ Affordable(1) /\ sweep'.at = "delete" /\ sweep'.group = {sweep.hand}
           /\ sweep'.used = BudgetUsed(1)
    BY <1>6 DEF Evict, SweepInv, LifecycleTypeOK
  <2>2. Cardinality({sweep.hand}) = 1
    BY <1>6, GroupSizes DEF Evict, SweepAt, SweepInv, InHandInv
  <2>3. QED BY <1>0, <1>6, <2>1, <2>2
              DEF Evict, SweepAt, Affordable, BudgetUsed, BudgetInv, Owed
<1>7. CASE Summed
  <2>1. \/ sweep'.at = "next" /\ sweep'.used = sweep.used
        \/ /\ Affordable(Cardinality(sweep.group)) /\ sweep'.at = "delete"
           /\ sweep'.group = sweep.group /\ sweep'.used = BudgetUsed(Cardinality(sweep.group))
    BY <1>7 DEF Summed, SweepInv, LifecycleTypeOK
  <2>2. QED BY <1>0, <1>7, <2>1 DEF Summed, SweepAt, Affordable, BudgetUsed, BudgetInv, Owed
<1>8. CASE NextRow
  <2>1. PICK r \in sweep.rows :
          \/ /\ Affordable(1)
             /\ sweep' = [sweep EXCEPT !.at = "delete", !.rows = sweep.rows \ {r}, !.hand = r[1],
                                       !.group = {r[1]}, !.used = BudgetUsed(1)]
          \/ sweep' = [sweep EXCEPT !.rows = sweep.rows \ {r}]
          \/ \E v \in [tier: Tiers, value: Values] :
               sweep' = [sweep EXCEPT !.at = "decide", !.rows = sweep.rows \ {r}, !.hand = r[1],
                                      !.row = v]
    <3>1. PICK r \in sweep.rows :
            \/ /\ Affordable(1)
               /\ sweep' = [sweep EXCEPT !.at = "delete", !.rows = sweep.rows \ {r},
                                         !.hand = r[1], !.group = {r[1]}, !.used = BudgetUsed(1)]
            \/ sweep' = [sweep EXCEPT !.rows = sweep.rows \ {r}]
            \/ \E change \in {-1, 0} :
                 sweep' = [sweep EXCEPT !.at = "decide", !.rows = sweep.rows \ {r}, !.hand = r[1],
                                        !.row = [tier |-> Valued(r[2], change).tier,
                                                 value |-> Valued(r[2], change).value]]
      BY <1>8 DEF NextRow
    <3>2. \A change \in {-1, 0} : Valued(r[2], change) \in ItemRows
      BY ValuedIsRow DEF SweepInv, LifecycleTypeOK
    <3>3. \A change \in {-1, 0} :
            [tier |-> Valued(r[2], change).tier, value |-> Valued(r[2], change).value]
              \in [tier: Tiers, value: Values]
      BY <3>2 DEF ItemRows
    <3>4. QED BY <3>1, <3>3
  <2>2. r[1] \in Items /\ Cardinality({r[1]}) = 1
    BY GroupSizes DEF SweepInv, LifecycleTypeOK
  <2>3. \/ sweep'.at \in {"next", "decide"} /\ sweep'.used = sweep.used
        \/ /\ Affordable(1) /\ sweep'.at = "delete" /\ sweep'.group = {r[1]}
           /\ sweep'.used = BudgetUsed(1)
    <3>1. sweep = [at |-> sweep.at, rows |-> sweep.rows, hand |-> sweep.hand, row |-> sweep.row,
                   group |-> sweep.group, used |-> sweep.used]
      BY DEF SweepInv, LifecycleTypeOK
    <3>2. CASE /\ Affordable(1)
               /\ sweep' = [sweep EXCEPT !.at = "delete", !.rows = sweep.rows \ {r}, !.hand = r[1],
                                         !.group = {r[1]}, !.used = BudgetUsed(1)]
      BY <3>1, <3>2
    <3>3. CASE sweep' = [sweep EXCEPT !.rows = sweep.rows \ {r}]
      BY <1>8, <3>1, <3>3 DEF NextRow, SweepAt
    <3>4. CASE \E v \in [tier: Tiers, value: Values] :
                 sweep' = [sweep EXCEPT !.at = "decide", !.rows = sweep.rows \ {r}, !.hand = r[1],
                                        !.row = v]
      BY <3>1, <3>4
    <3>5. QED BY <2>1, <3>2, <3>3, <3>4
  <2>4. sweep.at = "next" /\ Owed = 0 /\ deletes' = deletes
    BY <1>8 DEF NextRow, SweepAt, Owed
  <2>5. CASE sweep'.at \in {"next", "decide"} /\ sweep'.used = sweep.used
    BY <1>0, <2>4, <2>5 DEF BudgetInv, Owed
  <2>6. CASE /\ Affordable(1) /\ sweep'.at = "delete" /\ sweep'.group = {r[1]}
             /\ sweep'.used = BudgetUsed(1)
    <3>1. Owed' = 1
      BY <2>2, <2>6 DEF Owed
    <3>2. QED BY <1>0, <2>4, <2>6, <3>1 DEF Affordable, BudgetUsed, BudgetInv
  <2>7. QED BY <2>3, <2>5, <2>6
<1>9. CASE DeleteOne
  <2>1. PICK i \in sweep.group :
          /\ deletes' = deletes + 1
          /\ sweep' = [sweep EXCEPT !.group = @ \ {i},
                                    !.at = IF sweep.group = {i} THEN "next" ELSE @]
    BY <1>9 DEF DeleteOne
  <2>2. /\ sweep'.group = sweep.group \ {i} /\ sweep'.used = sweep.used
        /\ sweep'.at = IF sweep.group = {i} THEN "next" ELSE "delete"
    BY <1>9, <2>1 DEF DeleteOne, SweepAt, SweepInv, LifecycleTypeOK
  <2>3. i \in Items /\ Cardinality(sweep.group \ {i}) = Cardinality(sweep.group) - 1
    BY <1>0, GroupSizes
  <2>4. Cardinality(sweep.group) >= 1
    <3>1. Cardinality(sweep.group \ {i}) \in Nat
      BY <1>0, GroupSizes
    <3>2. QED BY <1>0, <2>3, <3>1
  <2>5. sweep.at = "delete" /\ Owed = Cardinality(sweep.group)
    BY <1>9 DEF DeleteOne, SweepAt, Owed
  <2>6. deletes' <= MaxDeletes
    BY <1>0, <2>1, <2>4, <2>5
  <2>7. deletes' + Owed' <= sweep'.used /\ sweep'.used <= MaxDeletes
    BY <1>0, <2>1, <2>2, <2>3, <2>4, <2>5 DEF Owed
  <2>8. QED BY <2>6, <2>7 DEF BudgetInv
<1>10. QED
  BY <1>1, <1>2, <1>3, <1>4, <1>5, <1>6, <1>7, <1>8, <1>9
     DEF LifecycleNext, lvars, ReadRows, WriteRow, Pin, ExpireItem

(* A sweep keeps its budget, whether it deletes one by one or in groups.   *)
THEOREM BudgetAlwaysKept == LifecycleSpec => []BudgetKept
<1>1. LifecycleInit => BudgetInv
  BY LifecycleAssumption DEF LifecycleInit, NoSweep, BudgetInv
<1>2. BudgetInv => BudgetKept
  BY DEF BudgetInv, BudgetKept
<1>3. QED BY <1>1, <1>2, InitSweepInv, StepSweepInv, StepBudgetInv, PTL DEF LifecycleSpec

=============================================================================
