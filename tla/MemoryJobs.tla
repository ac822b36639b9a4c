----------------------------- MODULE MemoryJobs -----------------------------
(***************************************************************************)
(* The memory_jobs table (gateway/db.js) and the gateways that run its     *)
(* jobs (gateway/index.js): a job is dispatched by the request that made   *)
(* it, by the timer of a retry, or by the periodic sweep; whoever claims   *)
(* its row runs it; a failure puts it back in the queue until its attempts *)
(* are used up.                                                            *)
(*                                                                         *)
(* Each statement is a step.  It may fail, either before it was executed   *)
(* or after ("unheard": the row changed, the gateway gets an error), and a *)
(* gateway may die, which ends all it had in memory.                       *)
(***************************************************************************)
EXTENDS Integers, FiniteSets

CONSTANTS Jobs, Gateways,
          Requested,    \* the jobs that the request that makes them dispatches
          Shared,       \* the jobs of the kinds that a request may find active
          Clearable,    \* the jobs of the kinds that a clear deletes
          MaxAttempts,  \* JOB_MAX_ATTEMPTS
          BatchSize,    \* JOB_SWEEP_BATCH_SIZE
          MaxPending,   \* bound: dispatches of one job that requests pile up
          Faults,       \* what may go wrong
          MaxFaults     \* bound: how often

ASSUME JobsAssumption ==
  /\ MaxAttempts \in Nat \ {0} /\ BatchSize \in Nat \ {0}
  /\ MaxPending \in Nat /\ MaxFaults \in Nat
  /\ Faults \subseteq {"unexecuted", "unheard", "crash"}

VARIABLES
  rows,     \* per job: status, attempts, and whether next_run_at has passed
  pending,  \* per gateway and job: dispatches that are about to happen
  sweeping, \* per gateway: jobSweepRunning
  batch,    \* per gateway: what its sweep has listed and not yet dispatched
  runs,     \* the runs under way
  claims,   \* per job: how often it was claimed
  faults    \* how often something went wrong

jvars == <<rows, pending, sweeping, batch, runs, claims, faults>>

Statuses == {"none", "queued", "running", "succeeded", "failed", "gone"}
Stages   == {"work", "caught"}
Runs     == [job: Jobs, gw: Gateways, swept: BOOLEAN, attempts: Nat, stage: Stages]
NoJob    == [status |-> "none", attempts |-> 0, due |-> TRUE]

(* The type invariant. *)
JobsTypeOK ==
  /\ rows \in [Jobs -> [status: Statuses, attempts: Nat, due: BOOLEAN]]
  /\ pending \in [Gateways -> [Jobs -> Nat]]
  /\ sweeping \in [Gateways -> BOOLEAN]
  /\ batch \in [Gateways -> SUBSET Jobs]
  /\ runs \subseteq Runs
  /\ claims \in [Jobs -> Nat]
  /\ faults \in Nat

Init ==
  /\ rows = [j \in Jobs |-> NoJob]
  /\ pending = [g \in Gateways |-> [j \in Jobs |-> 0]]
  /\ sweeping = [g \in Gateways |-> FALSE]
  /\ batch = [g \in Gateways |-> {}]
  /\ runs = {}
  /\ claims = [j \in Jobs |-> 0]
  /\ faults = 0

-----------------------------------------------------------------------------
(* How a statement ends, and what that costs of the bound on faults.       *)
Outcomes == {"ok", "unexecuted", "unheard"}
Ends(o)  == \/ o = "ok" /\ UNCHANGED faults
            \/ o \in Faults /\ faults < MaxFaults /\ faults' = faults + 1

Dispatch(g, j, n) == pending' = [pending EXCEPT ![g][j] = @ + n]

(* The insert, and the dispatch that follows it.  A delete_reconcile job   *)
(* is left to the sweep.                                                   *)
Create(g, j) ==
  /\ rows[j].status = "none"
  /\ rows' = [rows EXCEPT ![j].status = "queued"]
  /\ Dispatch(g, j, IF j \in Requested THEN 1 ELSE 0)
  /\ UNCHANGED <<sweeping, batch, runs, claims, faults>>

(* A request that wants the same thing finds the job active and dispatches *)
(* it once more, in its own gateway.                                       *)
Join(g, j) ==
  /\ j \in Shared /\ rows[j].status \in {"queued", "running"}
  /\ pending[g][j] < MaxPending
  /\ Dispatch(g, j, 1)
  /\ UNCHANGED <<rows, sweeping, batch, runs, claims, faults>>

Due(j)   == rows[j].status = "queued" /\ rows[j].due
Claimed(g, j, swept) == [job |-> j, gw |-> g, swept |-> swept,
                         attempts |-> rows[j].attempts, stage |-> "work"]
Take(g, j, swept, o) ==
  /\ rows' = [rows EXCEPT ![j].status = "running", ![j].due = TRUE]
  /\ claims' = [claims EXCEPT ![j] = @ + 1]
  /\ runs' = IF o = "ok" THEN runs \cup {Claimed(g, j, swept)} ELSE runs

(* Mutant: a job that is marked running may be claimed as well.            *)
ClaimRunning(g, j, swept, o) ==
  IF (Due(j) \/ rows[j].status = "running") /\ o # "unexecuted"
  THEN Take(g, j, swept, o)
  ELSE UNCHANGED <<rows, claims, runs>>

(* Mutant: a job may be claimed unless it is marked running.               *)
ClaimIdle(g, j, swept, o) ==
  IF rows[j].status \notin {"none", "gone", "running"} /\ o # "unexecuted"
  THEN Take(g, j, swept, o)
  ELSE UNCHANGED <<rows, claims, runs>>

(* The conditional update every runner starts with.                        *)
Claim(g, j, swept, o) ==
  IF Due(j) /\ o # "unexecuted"
  THEN Take(g, j, swept, o)
  ELSE UNCHANGED <<rows, claims, runs>>

(* A request's dispatch or the timer of a retry.  A gateway's clock may be *)
(* ahead of the database's: the timer may fire before the job is due.      *)
Fire(g, j) ==
  /\ pending[g][j] > 0
  /\ Dispatch(g, j, -1)
  /\ \E o \in Outcomes : Ends(o) /\ Claim(g, j, FALSE, o)
  /\ UNCHANGED <<sweeping, batch>>

-----------------------------------------------------------------------------
(* The sweep lists due jobs and awaits the run of each before the next.    *)

(* Mutant: the list leaves out the jobs with a next_run_at.                *)
ListedFirst == {j \in Jobs : Due(j) /\ rows[j].attempts = 0}

Listed == {j \in Jobs : Due(j)}

SweepStart(g) ==
  /\ ~sweeping[g] /\ Listed # {}
  /\ sweeping' = [sweeping EXCEPT ![g] = TRUE]
  /\ \E s \in SUBSET Listed :
       /\ s # {} /\ Cardinality(s) <= BatchSize
       /\ s # Listed => Cardinality(s) = BatchSize
       /\ batch' = [batch EXCEPT ![g] = s]
  /\ UNCHANGED <<rows, pending, runs, claims, faults>>

SweptRun(g) == \E x \in runs : x.gw = g /\ x.swept

(* A claim that throws ends the sweep.                                     *)
SweepNext(g) ==
  /\ sweeping[g] /\ ~SweptRun(g)
  /\ \E j \in batch[g], o \in Outcomes :
       /\ Ends(o) /\ Claim(g, j, TRUE, o)
       /\ batch' = [batch EXCEPT ![g] = IF o = "ok" THEN @ \ {j} ELSE {}]
  /\ UNCHANGED <<pending, sweeping>>

SweepEnd(g) ==
  /\ sweeping[g] /\ ~SweptRun(g) /\ batch[g] = {}
  /\ sweeping' = [sweeping EXCEPT ![g] = FALSE]
  /\ UNCHANGED <<rows, pending, batch, runs, claims, faults>>

-----------------------------------------------------------------------------
(* The runs.                                                               *)
Becomes(x, stage) == runs' = (runs \ {x}) \cup {[x EXCEPT !.stage = stage]}
Over(x)           == runs' = runs \ {x}
Thrown(x)         == batch' = [batch EXCEPT ![x.gw] = IF x.swept THEN {} ELSE @]

(* An update by id: no row, no effect.                                     *)
Update(x, status, attempts, due) ==
  rows' = IF rows[x.job].status = "gone" THEN rows
          ELSE [rows EXCEPT ![x.job] = [status |-> status, attempts |-> attempts, due |-> due]]

(* The work throws.                                                        *)
Throw(x) ==
  /\ x.stage = "work"
  /\ Becomes(x, "caught")
  /\ UNCHANGED <<rows, pending, sweeping, batch, claims, faults>>

(* The work is done.  An update that fails is caught like the work's own   *)
(* failures.                                                               *)
Succeed(x) ==
  /\ x.stage = "work"
  /\ \E o \in Outcomes :
       /\ Ends(o)
       /\ IF o = "unexecuted" THEN UNCHANGED rows
          ELSE Update(x, "succeeded", rows[x.job].attempts, rows[x.job].due)
       /\ IF o = "ok" THEN Over(x) ELSE Becomes(x, "caught")
  /\ UNCHANGED <<pending, sweeping, batch, claims>>

Fail(x)    == Update(x, "failed", x.attempts + 1, rows[x.job].due)
Requeue(x) == Update(x, "queued", x.attempts + 1, FALSE)

(* The work can never be done: finalizeJobFailure with retryable: false,   *)
(* called inside the try.                                                  *)
GiveUp(x) ==
  /\ x.stage = "work"
  /\ \E o \in Outcomes :
       /\ Ends(o)
       /\ IF o = "unexecuted" THEN UNCHANGED rows ELSE Fail(x)
       /\ IF o = "ok" THEN Over(x) ELSE Becomes(x, "caught")
  /\ UNCHANGED <<pending, sweeping, batch, claims>>

(* Mutant: one attempt too many.                                           *)
SpentLate(x) == x.attempts + 1 > MaxAttempts

Spent(x) == x.attempts + 1 >= MaxAttempts

(* finalizeJobFailure in the catch: nothing catches what it throws but the *)
(* sweep, which ends.                                                      *)
Retry(x) ==
  /\ x.stage = "caught"
  /\ \E o \in Outcomes :
       /\ Ends(o)
       /\ IF o = "unexecuted" THEN UNCHANGED rows
          ELSE IF Spent(x) THEN Fail(x) ELSE Requeue(x)
       /\ IF o = "ok" THEN /\ Dispatch(x.gw, x.job, IF Spent(x) THEN 0 ELSE 1)
                           /\ UNCHANGED batch
                      ELSE Thrown(x) /\ UNCHANGED pending
  /\ Over(x)
  /\ UNCHANGED <<sweeping, claims>>

Step(x) == Throw(x) \/ Succeed(x) \/ GiveUp(x) \/ Retry(x)

-----------------------------------------------------------------------------
(* The backoff of a retry passes.                                          *)
BackoffOver(j) ==
  /\ rows[j].status = "queued" /\ ~rows[j].due
  /\ rows' = [rows EXCEPT ![j].due = TRUE]
  /\ UNCHANGED <<pending, sweeping, batch, runs, claims, faults>>

(* A conversation's memory is cleared, its jobs with it, whatever they are *)
(* doing.                                                                  *)
Remove(j) ==
  /\ j \in Clearable /\ rows[j].status \notin {"none", "gone"}
  /\ rows' = [rows EXCEPT ![j].status = "gone"]
  /\ UNCHANGED <<pending, sweeping, batch, runs, claims, faults>>

(* A gateway dies and starts again.                                        *)
Crash(g) ==
  /\ "crash" \in Faults /\ faults < MaxFaults
  /\ faults' = faults + 1
  /\ pending' = [pending EXCEPT ![g] = [j \in Jobs |-> 0]]
  /\ sweeping' = [sweeping EXCEPT ![g] = FALSE]
  /\ batch' = [batch EXCEPT ![g] = {}]
  /\ runs' = {x \in runs : x.gw # g}
  /\ UNCHANGED <<rows, claims>>

Next ==
  \/ \E g \in Gateways :
       \/ \E j \in Jobs : Create(g, j) \/ Join(g, j) \/ Fire(g, j)
       \/ SweepStart(g) \/ SweepNext(g) \/ SweepEnd(g) \/ Crash(g)
  \/ \E x \in runs : Step(x)
  \/ \E j \in Jobs : BackoffOver(j) \/ Remove(j)

Spec == Init /\ [][Next]_jvars

(* The sweep comes round again, the runs of a gateway go on, time passes.  *)
SweepGoesOn(g) == SweepStart(g) \/ SweepNext(g) \/ SweepEnd(g)
Fairness ==
  /\ \A g \in Gateways : WF_jvars(SweepGoesOn(g))
  /\ \A j \in Jobs : /\ WF_jvars(\E x \in runs : x.job = j /\ Step(x))
                     /\ WF_jvars(BackoffOver(j))
FairSpec == Spec /\ Fairness

-----------------------------------------------------------------------------
(* Whoever dispatches a job, however often, and whatever fails: no two     *)
(* runs of it are ever under way.                                          *)
OneRunner == \A x, y \in runs : x.job = y.job => x = y

(* A job is run no more often than its attempts allow, also when updates   *)
(* are repeated because an answer was lost.                                *)
RunsBounded == \A j \in Jobs : claims[j] <= MaxAttempts

(* Once a job has ended and nobody runs it any more it is never run again: *)
(* no late timer, no sweep and no repeated update brings it back.          *)
Ended(j)   == rows[j].status \in {"succeeded", "failed", "gone"}
Unrun(j)   == \A x \in runs : x.job # j
StaysEnded == \A j \in Jobs : Ended(j) /\ Unrun(j) => Ended(j)' /\ Unrun(j)'
EndIsFinal == [][StaysEnded]_jvars

(* The sweep is enough: a queued job ends without any timer, unless a      *)
(* fault left it marked running with nobody to run it.                     *)
Abandoned(j) == rows[j].status = "running" /\ Unrun(j)
JobsEnd == \A j \in Jobs :
             rows[j].status = "queued" ~> Ended(j) \/ (Abandoned(j) /\ faults > 0)
=============================================================================
