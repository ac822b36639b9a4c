----------------------------- MODULE Compaction -----------------------------
(***************************************************************************)
(* Memory items that are summed up and then deleted: the compaction jobs   *)
(* of POST /v1/memory/compact and the compaction of a low-value group by   *)
(* the lifecycle sweep (runCompactionJob and compactLowValueGroup in       *)
(* gateway/index.js).  Either lists items, reads their texts, waits for a  *)
(* model, writes a summary under a name of its own, and deletes what it    *)
(* has listed.  Requests delete items meanwhile, jobs are run again.       *)
(*                                                                         *)
(* A text is the set of the notes whose content it has; a model loses      *)
(* nothing of what it is given.  One gateway, one collection; the sweep is *)
(* followed at one of its seeds.  The summary of a task bears its name.    *)
(***************************************************************************)
EXTENDS Integers, FiniteSets

CONSTANTS
  Notes,         \* items that were written by requests
  Jobs,          \* compaction jobs
  Deleting,      \* the jobs that ask for deleteOriginals
  Wide,          \* the jobs whose types include that of their summary
  Sweep, Seed,   \* compactLowValueGroup for one item of low value
  MaxAttempts,   \* max_attempts; bound: how often the sweep comes by the seed
  MaxForgets,    \* bound: requests that delete an item
  MaxFaults      \* bound: statements and commands that fail

ASSUME CompactionAssumption ==
  /\ Deleting \subseteq Jobs /\ Wide \subseteq Jobs /\ Seed \in Notes
  /\ Sweep \notin Jobs /\ Notes \cap (Jobs \cup {Sweep}) = {}
  /\ MaxAttempts \in Nat \ {0} /\ MaxForgets \in Nat /\ MaxFaults \in Nat

Tasks == Jobs \cup {Sweep}
Items == Notes \cup Tasks

VARIABLES
  there,     \* memory_items
  births,    \* how often an item was inserted: each time with another id
  text,      \* what its chunks tell
  recent,    \* the sweep's summary is younger than its cooldown
  task,      \* where a task is, items it has still to see to, read, and learnt
  attempts,
  doomed,    \* delete_reconcile jobs
  forgotten, \* history: notes whose content a request deleted
  again,     \* history: tasks that began while a summary of theirs was there
  forgets, faults

ovars == <<there, births, text, recent, task, attempts, doomed, forgotten, again, forgets, faults>>

Idle  == [at |-> "idle", left |-> {}, included |-> {}, learnt |-> {}]
Id(i) == <<i, births[i]>>
Lives(x) == x[1] \in there /\ x[2] = births[x[1]]

CompactionInit ==
  /\ there = Notes /\ births = [i \in Items |-> IF i \in Notes THEN 1 ELSE 0]
  /\ text = [i \in Items |-> IF i \in Notes THEN {i} ELSE {}]
  /\ recent = FALSE
  /\ task = [t \in Tasks |-> Idle] /\ attempts = [t \in Tasks |-> 0]
  /\ doomed = {} /\ forgotten = {} /\ again = {} /\ forgets = 0 /\ faults = 0

At(t, place)    == task[t].at = place
GoesTo(t, place) == task' = [task EXCEPT ![t].at = place]
Stored == <<there, births, text, recent, doomed>>
Past   == <<forgotten, forgets>>

(* A job that throws is queued again or failed; a sweep that throws ends.  *)
Ends(t, place) == task' = [task EXCEPT ![t] = [Idle EXCEPT !.at = place]]
Throws(t) ==
  /\ faults' = faults + 1
  /\ Ends(t, IF t = Sweep \/ attempts[t] < MaxAttempts THEN "idle" ELSE "failed")
Fault(t)  == faults < MaxFaults /\ Throws(t)

(* What ends a task without fault or retry.                                *)
Leaves(t, place) == Ends(t, IF t = Sweep THEN "idle" ELSE place)

-----------------------------------------------------------------------------
(* What a job's list holds; its maxItems is not reached.                   *)
Listed(j) == {i \in there : i \in Notes \/ j \in Wide}

Begins(t, ids) ==
  /\ task' = [task EXCEPT ![t] = [Idle EXCEPT !.at = "read", !.left = ids]]
  /\ attempts' = [attempts EXCEPT ![t] = @ + 1]
  /\ again' = IF t \in there THEN again \cup {t} ELSE again
  /\ UNCHANGED <<Stored, Past, faults>>

ListItems(j) ==
  /\ j \in Jobs /\ At(j, "idle") /\ attempts[j] < MaxAttempts
  /\ IF Listed(j) # {}
     THEN Begins(j, {Id(i) : i \in Listed(j)})
     ELSE /\ Ends(j, "done")
          /\ UNCHANGED <<Stored, Past, attempts, again, faults>>

(* The search finds some of the items that are like the seed; those of low *)
(* value are the group.  A seed summed up lately is left.                  *)
FindGroup(group) ==
  /\ At(Sweep, "idle") /\ attempts[Sweep] < MaxAttempts
  /\ ~(Sweep \in there /\ recent)
  /\ text[Seed] # {} /\ group \subseteq there /\ \A i \in group : text[i] # {}
  /\ Begins(Sweep, {Id(i) : i \in IF group = {} THEN {Seed} ELSE group})

(* One text.                                                               *)
ReadOne(t) ==
  \E x \in task[t].left :
    LET told == IF Lives(x) THEN text[x[1]] ELSE {}
    IN  task' = [task EXCEPT ![t].left = @ \ {x},
                             ![t].included = IF told = {} THEN @ ELSE @ \cup {x},
                             ![t].learnt = @ \cup told]

(* Mutant: an item the text has no room for is included all the same.      *)
ReadTextIncludesAll(t) ==
  /\ At(t, "read")
  /\ \/ ReadOne(t)
     \/ /\ task[t].included # {}
        /\ task' = [task EXCEPT ![t].left = {}, ![t].included = @ \cup task[t].left]
     \/ task[t].left = {} /\ task[t].included # {} /\ GoesTo(t, "upsert")
     \/ task[t].left = {} /\ task[t].included = {} /\ Leaves(t, "failed")
  /\ UNCHANGED <<Stored, Past, attempts, again, faults>>

(* The texts one after the other, as many as fit.                          *)
ReadText(t) ==
  /\ At(t, "read")
  /\ \/ ReadOne(t)
     \/ task[t].included # {} /\ task' = [task EXCEPT ![t].left = {}]
     \/ task[t].left = {} /\ task[t].included # {} /\ GoesTo(t, "upsert")
     \/ task[t].left = {} /\ task[t].included = {} /\ Leaves(t, "failed")
  /\ UNCHANGED <<Stored, Past, attempts, again, faults>>

(* upsertMemoryItem: a row of this name is kept, with its id.              *)
Upsert(t) ==
  /\ At(t, "upsert") /\ GoesTo(t, "wipe")
  /\ there' = there \cup {t}
  /\ births' = IF t \in there THEN births ELSE [births EXCEPT ![t] = @ + 1]
  /\ recent' = IF t = Sweep /\ t \notin there THEN TRUE ELSE recent
  /\ UNCHANGED <<text, doomed, Past, attempts, again, faults>>

Tells(t, notes) == text' = IF t \in there THEN [text EXCEPT ![t] = notes] ELSE text

(* deleteVectorsForDoc: a text the summary may have had goes.              *)
Wipe(t) ==
  /\ At(t, "wipe") /\ GoesTo(t, "index") /\ Tells(t, {})
  /\ UNCHANGED <<there, births, recent, doomed, Past, attempts, again, faults>>

(* indexMemoryText, which may fail before or after it saves the chunks.    *)
Index(t) ==
  /\ At(t, "index")
  /\ \/ task' = [task EXCEPT ![t].at = "link", ![t].left = @ \cup task[t].included]
        /\ Tells(t, task[t].learnt) /\ UNCHANGED faults
     \/ Fault(t) /\ (Tells(t, task[t].learnt) \/ UNCHANGED text)
  /\ UNCHANGED <<there, births, recent, doomed, Past, attempts, again>>

(* createMemoryLink: both items must be there still.                       *)
Link(t) ==
  /\ At(t, "link")
  /\ \/ \E x \in task[t].left :
          IF t \in there /\ Lives(x)
          THEN task' = [task EXCEPT ![t].left = @ \ {x}] /\ UNCHANGED faults
          ELSE Throws(t)
     \/ /\ task[t].left = {} /\ UNCHANGED faults
        /\ \/ /\ t \in Deleting \cup {Sweep}
              /\ task' = [task EXCEPT ![t].at = "delete", ![t].left = task[t].included]
           \/ t \notin Deleting /\ GoesTo(t, "finish")
  /\ UNCHANGED <<Stored, Past, attempts, again>>

Gone(i) ==
  /\ there' = there \ {i} /\ text' = [text EXCEPT ![i] = {}]
  /\ doomed' = {x \in doomed : x[1] # i}

(* deleteMemoryItemFully: done, left to a job, or broken off.              *)
DeleteOriginal(t) ==
  /\ At(t, "delete") /\ task[t].left # {}
  /\ \E x \in task[t].left :
       \/ /\ task' = [task EXCEPT ![t].left = @ \ {x}]
          /\ IF Lives(x) THEN Gone(x[1]) ELSE UNCHANGED <<there, text, doomed>>
          /\ UNCHANGED faults
       \/ /\ faults < MaxFaults /\ faults' = faults + 1 /\ Lives(x)
          /\ task' = [task EXCEPT ![t].left = @ \ {x}]
          /\ doomed' = doomed \cup {x} /\ UNCHANGED <<there, text>>
       \/ /\ Fault(t) /\ Lives(x)
          /\ text' = [text EXCEPT ![x[1]] = {}] /\ UNCHANGED <<there, doomed>>
  /\ UNCHANGED <<births, recent, Past, attempts, again>>

Finish(t) ==
  /\ \/ At(t, "finish")
     \/ At(t, "delete") /\ task[t].left = {}
  /\ Leaves(t, "succeeded")
  /\ UNCHANGED <<Stored, Past, attempts, again, faults>>

(* A statement throws, or the model does.                                  *)
Breaks(t) ==
  /\ task[t].at \in {"read", "upsert", "wipe", "link", "delete", "finish"} /\ Fault(t)
  /\ UNCHANGED <<Stored, Past, attempts, again>>

(* The model has no summary to give.                                       *)
NoSummary(t) ==
  /\ At(t, "upsert") /\ Leaves(t, "failed")
  /\ UNCHANGED <<Stored, Past, attempts, again, faults>>

-----------------------------------------------------------------------------
Forget(i) ==
  /\ forgets < MaxForgets /\ forgets' = forgets + 1
  /\ i \in there /\ Gone(i)
  /\ forgotten' = forgotten \cup text[i]
  /\ UNCHANGED <<births, recent, task, attempts, again, faults>>

Reconcile(x) ==
  /\ Gone(x[1])
  /\ UNCHANGED <<births, recent, task, attempts, again, Past, faults>>

CooldownOver ==
  /\ recent /\ recent' = FALSE
  /\ UNCHANGED <<there, births, text, doomed, task, attempts, again, Past, faults>>

CompactionNext ==
  \/ \E j \in Jobs : ListItems(j)
  \/ \E group \in SUBSET there : FindGroup(group)
  \/ \E t \in Tasks : \/ ReadText(t) \/ NoSummary(t) \/ Upsert(t) \/ Wipe(t) \/ Index(t)
                      \/ Link(t) \/ DeleteOriginal(t) \/ Finish(t) \/ Breaks(t)
  \/ \E i \in Items : Forget(i)
  \/ \E x \in doomed : Reconcile(x)
  \/ CooldownOver
CompactionSpec == CompactionInit /\ [][CompactionNext]_ovars

-----------------------------------------------------------------------------
(* However compactions overlap, with each other and with requests, and     *)
(* wherever they fail: what a note told is told by some item, until a      *)
(* request deletes it; provided no task began with a summary of its own    *)
(* there already.                                                          *)
NothingLost ==
  again = {} => \A n \in Notes \ forgotten : \E i \in there : n \in text[i]

(* What a job reports as its summary (gateway/index.js:10360) is not among *)
(* the originals it deletes.                                               *)
KeepsItsSummary ==
  \A j \in Jobs : At(j, "delete") => \A x \in task[j].left : x[1] # j
=============================================================================
