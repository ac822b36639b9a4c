------------------------------ MODULE MCParts -------------------------------
(* Small instances, for TLC, of five parts that share nothing: the memory  *)
(* jobs, the storage meter, the tables of the approximate search, the      *)
(* client of the store and the lifecycle of the items.  A behaviour is one *)
(* part's; the others rest in their first state.                           *)
EXTENDS MCVectorIndex, MemoryJobs, StorageMeter, StoreClient, Lifecycle

VARIABLE part

MCMeters == {"flush", "bill"} \X MeterGateways

MCPolicy(hotUp, hotDown, warmUp, warmDown) ==
  [hotUp |-> hotUp, hotDown |-> hotDown, warmUp |-> warmUp, warmDown |-> warmDown,
   evict |-> 1, summary |-> 2]
MCRunPolicies == {MCPolicy(3, 2, 2, 1)}
MCPolicies == {MCPolicy(hotUp, hotDown, warmUp, warmDown) :
                 hotUp \in Values, hotDown \in Values, warmUp \in Values, warmDown \in Values}

pvars == <<part, xvars, jvars, mvars, cvars, lvars>>

AtRest ==
  /\ policy \in MCRunPolicies /\ items = [i \in Items |-> NoItem]
  /\ updater = IdleUpdater /\ sweep = NoSweep
  /\ deletes = 0 /\ marks = {} /\ taken = {} /\ updates = 0

PartsInit ==
  /\ part \in {"jobs", "meter", "index", "client", "lifecycle"}
  /\ Init /\ MeterInit /\ IndexInit /\ ClientInit
  /\ part # "index" => ~annEnabled
  /\ part # "client" => alone.at = "unused"
  /\ part # "meter" => stored = 0 /\ usage = NoUsage
  /\ IF part = "lifecycle" THEN LifecycleInit ELSE AtRest

PartsNext ==
  /\ UNCHANGED part
  /\ \/ part = "jobs" /\ Next /\ UNCHANGED <<xvars, mvars, cvars, lvars>>
     \/ part = "meter" /\ MeterNext /\ UNCHANGED <<xvars, jvars, cvars, lvars>>
     \/ part = "index" /\ IndexNext /\ UNCHANGED <<jvars, mvars, cvars, lvars>>
     \/ part = "client" /\ ClientNext /\ UNCHANGED <<xvars, jvars, mvars, lvars>>
     \/ part = "lifecycle" /\ LifecycleNext /\ UNCHANGED <<xvars, jvars, mvars, cvars>>

(* Of the behaviours that are the jobs': while a backoff, a run or a sweep *)
(* can go on, one of them does.  MemoryJobs!Fairness asks that of each job *)
(* and of each gateway; the property needs no more than this.              *)
JobsFairness ==
  WF_jvars(part = "jobs" /\ (\/ \E j \in Jobs : BackoffOver(j)
                             \/ \E x \in runs : Step(x)
                             \/ \E g \in Gateways : SweepGoesOn(g)))

PartsSpec == PartsInit /\ [][PartsNext]_pvars /\ JobsFairness
=============================================================================
