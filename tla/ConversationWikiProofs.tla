------------------------ MODULE ConversationWikiProofs ------------------------
(***************************************************************************)
(* Theorems about the conversation wiki, for any conversations, turns,     *)
(* jobs, requests, pools and faults: the types; that articles only grow    *)
(* under their lock; that what is pruned was read; that a clear deletes    *)
(* what it listed.                                                         *)
(***************************************************************************)
EXTENDS ConversationWiki, FiniteSetTheorems, TLAPS

(* What an update reads without a usable checkpoint is the whole           *)
(* conversation.  In longer ones turns are pruned unread (README).         *)
ShortConversations ==
  \A c \in Convs : Cardinality({t \in Turns : ConvOf[t] = c}) <= MaxSource

(* No two clears of the collection: a second one deletes the reconcile     *)
(* jobs that the first has left (DropJobs).                                *)
OneClear == \A k, l \in ClearJobs : k = l

Jobs     == UpdateJobs \cup ClearJobs
Requests == Edits \cup Removals
Items    == ({"turn"} \X Turns) \cup ({"page"} \X Convs \X Nat)

JobRec  == [status: JobStates, attempts: 0 .. WikiAttempts, conv: Nat, listed: SUBSET Items]
TaskRec == [at: Places, conv: Nat, seen: Pages, new: SUBSET Turns, prompt: SUBSET Turns,
            items: SUBSET Items, todo: SUBSET Convs]

TypeInv ==
  /\ WikiTypeOK
  /\ wikiJobs \in [Jobs -> JobRec]
  /\ task \in [Tasks -> TaskRec]
  /\ reconcile \subseteq Items

-----------------------------------------------------------------------------
(* The invariant.  First the rows: one that may run has attempts left, and *)
(* who is somewhere in a job has its row marked running or deleted.        *)
InJob(j) == ~At(j, "idle") /\ ~(j \in UpdateJobs /\ At(j, "unlock"))
RowOf(j) ==
  /\ wikiJobs[j].status \in {"none", "queued", "running"} => wikiJobs[j].attempts < WikiAttempts
  /\ wikiJobs[j].status \in {"none", "queued", "succeeded"} /\ j \in ClearJobs => At(j, "idle")
  /\ InJob(j) => wikiJobs[j].status \in {"running", "gone"}
  /\ j \in ClearJobs => wikiJobs[j].status # "gone"
  /\ j \in UpdateJobs /\ wikiJobs[j].status # "none" => wikiJobs[j].conv \in Convs
RowInv == \A j \in Jobs : RowOf(j)

(* Who may be where.                                                       *)
PlaceOf(x) ==
  /\ x \in UpdateJobs => task[x].at \notin {"wait", "undo", "over"}
  /\ x \in ClearJobs  => task[x].at \in {"idle", "claimed", "wait", "delete", "unlock",
                                         "undo", "finish", "fail"}
  /\ x \in Requests   => task[x].at \notin {"turns", "model", "list", "finish", "fail",
                                            "wait", "undo"}
  /\ x \in UpdateJobs /\ task[x].at = "delete" => \A i \in task[x].items : i[1] = "turn"
PlaceInv == \A x \in Tasks : PlaceOf(x)

(* Whoever is between these holds the lock of its conversation.            *)
Holding == {"pages", "turns", "model", "write", "index", "list", "delete"}
LockOf(x) ==
  /\ task[x].at \in Holding \cup {"claimed"} => task[x].conv \in Convs
  /\ task[x].at \in Holding => lock[task[x].conv] = x
LockInv == \A x \in Tasks \ ClearJobs : LockOf(x)

(* The article it has read is there unchanged, or there is none.           *)
SeenInv ==
  \A x \in Tasks \ ClearJobs :
    task[x].at \in {"turns", "model", "write"} /\ page[task[x].conv].there
      => page[task[x].conv] = task[x].seen

(* What anybody is about to delete was there once.                         *)
WasThere(i) == IF i[1] = "turn" THEN turns[i[2]] # "none" ELSE page[i[2]].born >= i[3]
ThereInv ==
  /\ \A x \in Tasks : \A i \in task[x].items : WasThere(i)
  /\ \A i \in reconcile : WasThere(i)
  /\ \A j \in Jobs : \A i \in wikiJobs[j].listed : WasThere(i)

(* Turns of a conversation are written one after another.                  *)
Ordered(state) ==
  \A t, u \in Turns : u < t /\ ConvOf[u] = ConvOf[t] /\ state[t] # "none"
                        => state[u] \in {"saved", "gone"}

(* A checkpoint is a turn that had its text, and what is left of the turns *)
(* up to it was read.                                                      *)
Covered(state, c, checkpoint, read) ==
  checkpoint # 0 =>
    /\ checkpoint \in Turns /\ ConvOf[checkpoint] = c /\ state[checkpoint] \in {"saved", "gone"}
    /\ \A t \in Turns : ConvOf[t] = c /\ t <= checkpoint /\ state[t] = "saved" => t \in read

ReadOf(x) ==
  /\ task[x].at \in {"turns", "model", "write"}
       => Covered(turns, task[x].conv, task[x].seen.checkpoint, everRead)
  /\ task[x].at \in {"model", "write"}
       => Covered(turns, task[x].conv, NextCheckpoint(x), everRead \cup task[x].prompt)
  /\ task[x].at \in {"index", "list"}
       => Covered(turns, task[x].conv, NextCheckpoint(x), everRead)
  /\ x \in UpdateJobs /\ At(x, "delete") => \A i \in task[x].items : i[2] \in everRead
ReadInv ==
  /\ PrunedWasRead
  /\ \A c \in Convs : Covered(turns, c, page[c].checkpoint, everRead)
  /\ \A x \in Tasks \ ClearJobs : ReadOf(x)

(* What a clear has listed is still in its list, or has gone, or a         *)
(* reconcile job has it.                                                   *)
ListedOf(k) ==
  /\ At(k, "wait") => task[k].items = wikiJobs[k].listed
  /\ At(k, "delete") => \A i \in wikiJobs[k].listed :
                          Exists(i) => i \in task[k].items \cup reconcile
  /\ task[k].at \in {"unlock", "finish"} \/ wikiJobs[k].status = "succeeded"
       => \A i \in wikiJobs[k].listed : Exists(i) => i \in reconcile
ListedInv == \A k \in ClearJobs : ListedOf(k)

Base == TypeInv /\ RowInv /\ PlaceInv /\ LockInv

-----------------------------------------------------------------------------
(* Types.                                                                  *)
LEMMA RestType == Rest \in TaskRec /\ NoPage(0) \in Pages
BY DEF Rest, TaskRec, NoPage, Pages, Places

LEMMA ItemType ==
  /\ \A t \in Turns : TurnItem(t) \in Items
  /\ \A c \in Convs : page[c].born \in Nat => PageItem(c) \in Items
BY DEF TurnItem, PageItem, Items

LEMMA TypesNow ==
  ASSUME TypeInv
  PROVE  /\ page \in [Convs -> Pages] /\ wikiJobs \in [Jobs -> JobRec]
         /\ task \in [Tasks -> TaskRec] /\ reconcile \subseteq Items
         /\ turns \in [Turns -> {"none", "row", "saved", "gone"}]
         /\ lock \in [Convs -> Tasks \cup {Nobody}]
         /\ everRead \subseteq Turns /\ pruned \subseteq Turns
         /\ wikiFaults \in 0 .. MaxWikiFaults /\ pool \in Pools
BY DEF TypeInv, WikiTypeOK

LEMMA TypesFrom ==
  ASSUME page' \in [Convs -> Pages], wikiJobs' \in [Jobs -> JobRec],
         task' \in [Tasks -> TaskRec], reconcile' \subseteq Items,
         turns' \in [Turns -> {"none", "row", "saved", "gone"}],
         lock' \in [Convs -> Tasks \cup {Nobody}],
         everRead' \subseteq Turns, pruned' \subseteq Turns,
         wikiFaults' \in 0 .. MaxWikiFaults, pool' \in Pools
  PROVE  TypeInv'
<1>1. \A j \in UpdateJobs \cup ClearJobs :
        wikiJobs'[j].status \in JobStates /\ wikiJobs'[j].attempts \in 0 .. WikiAttempts
  BY DEF Jobs, JobRec
<1>2. \A x \in Tasks :
        /\ task'[x].at \in Places /\ task'[x].seen \in Pages
        /\ task'[x].new \subseteq Turns /\ task'[x].prompt \subseteq Turns
        /\ task'[x].todo \subseteq Convs
  BY DEF TaskRec
<1> QED  BY <1>1, <1>2 DEF TypeInv, WikiTypeOK

(* A fault keeps the count within its bound; a task that leaves is reset.  *)
LEMMA FaultType ==
  ASSUME TypeInv, NEW f, WikiFault(f)
  PROVE  wikiFaults' \in 0 .. MaxWikiFaults
BY WikiAssumption DEF WikiFault, TypeInv, WikiTypeOK

LEMMA LeaveType ==
  ASSUME TypeInv, NEW x \in Tasks, NEW place \in Places, Leave(x, place)
  PROVE  /\ task' \in [Tasks -> TaskRec]
         /\ task'[x].at = place /\ task'[x].items = {}
         /\ \A y \in Tasks \ {x} : task'[y] = task[y]
<1>1. [Rest EXCEPT !.at = place] \in TaskRec
  BY RestType DEF TaskRec
<1> QED  BY <1>1, TypesNow DEF Leave, Rest

LEMMA GoToType ==
  ASSUME TypeInv, NEW x \in Tasks, NEW place \in Places, GoTo(x, place)
  PROVE  /\ task' \in [Tasks -> TaskRec]
         /\ task'[x].at = place /\ task'[x].conv = task[x].conv /\ task'[x].seen = task[x].seen
         /\ task'[x].new = task[x].new /\ task'[x].prompt = task[x].prompt
         /\ task'[x].items = task[x].items /\ task'[x].todo = task[x].todo
         /\ \A y \in Tasks \ {x} : task'[y] = task[y]
<1>1. task[x] \in TaskRec
  BY TypesNow
<1>2. [task[x] EXCEPT !.at = place] \in TaskRec
  BY <1>1 DEF TaskRec
<1>3. task'[x] = [task[x] EXCEPT !.at = place]
  BY TypesNow DEF GoTo
<1> QED  BY <1>1, <1>2, <1>3, TypesNow DEF GoTo, TaskRec

LEMMA BrokenOffType ==
  ASSUME NEW x \in Tasks
  PROVE  BrokenOff(x) \in Places
BY DEF BrokenOff, Places

LEMMA KindOfTask ==
  /\ UpdateJobs \subseteq Tasks /\ ClearJobs \subseteq Tasks /\ Jobs \subseteq Tasks
  /\ Requests \subseteq Tasks /\ Edits \subseteq Requests /\ Removals \subseteq Requests
  /\ Tasks = UpdateJobs \cup ClearJobs \cup Requests
  /\ Tasks \ ClearJobs = UpdateJobs \cup Requests
  /\ UpdateJobs \cap ClearJobs = {} /\ Jobs \cap Requests = {}
  /\ UpdateJobs \subseteq Jobs /\ ClearJobs \subseteq Jobs
BY WikiAssumption DEF Tasks, Jobs, Requests

-----------------------------------------------------------------------------
(* Rows, places and locks.  A step of one task leaves the others their     *)
(* places and locks; a clear may take their rows away.                     *)
GoneRow(j) == [wikiJobs[j] EXCEPT !.status = "gone"]

LEMMA OneTaskMoves ==
  ASSUME Base, TypeInv', NEW x \in Tasks,
         \A y \in Tasks \ {x} : task'[y] = task[y],
         \A y \in Tasks \ {x}, c \in Convs : lock[c] = y => lock'[c] = y,
         \A j \in Jobs \ {x} : \/ wikiJobs'[j] = wikiJobs[j]
                               \/ j \in UpdateJobs /\ wikiJobs'[j] = GoneRow(j)
                                  /\ wikiJobs[j].status # "none",
         x \in Jobs => RowOf(x)', PlaceOf(x)', x \notin ClearJobs => LockOf(x)'
  PROVE  Base'
<1>1. RowInv'
  <2> SUFFICES ASSUME NEW j \in Jobs \ {x} PROVE RowOf(j)'
    BY DEF RowInv
  <2>1. RowOf(j) /\ task'[j] = task[j] /\ j \in Tasks
    BY KindOfTask DEF Base, RowInv
  <2>2. CASE wikiJobs'[j] = wikiJobs[j]
    BY <2>1, <2>2 DEF RowOf, InJob, At
  <2>3. CASE j \in UpdateJobs /\ wikiJobs'[j] = GoneRow(j)
    <3>1. wikiJobs'[j].status = "gone" /\ j \notin ClearJobs /\ wikiJobs'[j].conv = wikiJobs[j].conv
      BY <2>3, TypesNow, KindOfTask DEF GoneRow, Base, JobRec
    <3> QED  BY <3>1, <2>1 DEF RowOf, InJob, At
  <2> QED  BY <2>2, <2>3
<1>2. PlaceInv'
  BY DEF Base, PlaceInv, PlaceOf
<1>3. LockInv'
  <2> SUFFICES ASSUME NEW y \in Tasks \ ClearJobs, y # x PROVE LockOf(y)'
    BY DEF LockInv
  <2> QED  BY DEF Base, LockInv, LockOf, Holding
<1> QED  BY <1>1, <1>2, <1>3 DEF Base

(* A step that moves no task and touches no row or lock.                   *)
LEMMA NoTaskMoves ==
  ASSUME Base, TypeInv', UNCHANGED <<task, lock, wikiJobs>>
  PROVE  Base'
BY DEF Base, RowInv, RowOf, InJob, PlaceInv, PlaceOf, LockInv, LockOf, At

(* A step that only moves x on, or takes it out.                           *)
LEMMA RowStays ==
  ASSUME Base, NEW x \in Tasks, UNCHANGED wikiJobs, InJob(x), x \in Jobs
  PROVE  RowOf(x)'
BY DEF Base, RowInv, RowOf, InJob, At

LEMMA MovesOn ==
  ASSUME Base, TypeInv', NEW x \in Tasks, task'[x].conv = task[x].conv,
         \A y \in Tasks \ {x} : task'[y] = task[y],
         UNCHANGED <<lock, wikiJobs>>, InJob(x),
         task'[x].at \in Holding \cup {"claimed"} => task[x].at \in Holding \/ x \in ClearJobs,
         PlaceOf(x)'
  PROVE  Base'
<1>1. x \notin ClearJobs => LockOf(x)'
  BY DEF Base, LockInv, LockOf, Holding
<1> QED  BY <1>1, RowStays, OneTaskMoves

LEMMA MovesOut ==
  ASSUME Base, TypeInv', NEW x \in Tasks, NEW place \in Places, Leave(x, place),
         \A y \in Tasks \ {x}, c \in Convs : lock[c] = y => lock'[c] = y,
         \A j \in Jobs \ {x} : wikiJobs'[j] = wikiJobs[j],
         place \notin Holding \cup {"claimed"},
         x \in Jobs => RowOf(x)', PlaceOf(x)'
  PROVE  Base'
<1>1. /\ task'[x].at = place
      /\ \A y \in Tasks \ {x} : task'[y] = task[y]
  BY LeaveType DEF Base
<1>2. LockOf(x)'
  BY <1>1 DEF LockOf
<1> QED  BY <1>1, <1>2, OneTaskMoves

LEMMA BrokenOffPlace ==
  ASSUME Base, NEW x \in Tasks, ~At(x, "idle"), ~At(x, "unlock"), ~At(x, "over"), ~At(x, "undo"),
         TypeInv', Leave(x, BrokenOff(x)), UNCHANGED <<lock, wikiJobs>>
  PROVE  Base'
<1>1. BrokenOff(x) \in Places /\ BrokenOff(x) \notin Holding \cup {"claimed"}
  BY BrokenOffType DEF BrokenOff, Holding
<1>2. task'[x].at = BrokenOff(x)
  BY <1>1, LeaveType DEF Base
<1>3. PlaceOf(x)'
  BY <1>2, KindOfTask DEF PlaceOf, BrokenOff
<1> QED  BY <1>1, <1>3, RowStays, MovesOut DEF InJob

-----------------------------------------------------------------------------
(* The steps, one after another.                                           *)
LEMMA TurnSteps ==
  ASSUME Base, NEW t \in Turns, WriteTurn(t) \/ SaveText(t) \/ ExpireTurn(t)
  PROVE  Base'
<1>1. wikiFaults' \in 0 .. MaxWikiFaults
  BY FaultType, TypesNow DEF Base, WriteTurn, SaveText, ExpireTurn
<1>2. TypeInv'
  BY <1>1, TypesNow, TypesFrom DEF Base, WriteTurn, SaveText, ExpireTurn
<1> QED  BY <1>2, NoTaskMoves DEF WriteTurn, SaveText, ExpireTurn

LEMMA RequestSteps ==
  ASSUME Base, NEW j \in Jobs,
         \/ \E c \in Convs : j \in UpdateJobs /\ RequestUpdate(j, c)
         \/ j \in ClearJobs /\ RequestClear(j)
  PROVE  /\ Base' /\ UNCHANGED <<turns, page, task, reconcile, everRead, pruned>>
         /\ \A i \in Jobs : wikiJobs'[i].listed = wikiJobs[i].listed
         /\ \A i \in Jobs : wikiJobs'[i].status = "succeeded" => wikiJobs[i].status = "succeeded"
<1>1. /\ wikiJobs[j].status = "none" /\ wikiJobs'[j].status = "queued"
      /\ wikiJobs'[j].listed = wikiJobs[j].listed
      /\ wikiJobs'[j].attempts = wikiJobs[j].attempts
      /\ wikiJobs' \in [Jobs -> JobRec] /\ \A i \in Jobs \ {j} : wikiJobs'[i] = wikiJobs[i]
      /\ j \in UpdateJobs => wikiJobs'[j].conv \in Convs
      /\ UNCHANGED <<pool, turns, page, lock, task, reconcile, everRead, pruned, wikiFaults>>
  <2>1. wikiJobs \in [Jobs -> JobRec] /\ wikiJobs[j] \in JobRec
    BY TypesNow DEF Base
  <2>2. CASE \E c \in Convs : j \in UpdateJobs /\ RequestUpdate(j, c)
    <3> PICK c \in Convs : RequestUpdate(j, c)
      BY <2>2
    <3>1. c \in Nat
      BY WikiAssumption
    <3>2. [wikiJobs[j] EXCEPT !.status = "queued", !.conv = c] \in JobRec
      BY <2>1, <3>1 DEF JobRec, JobStates
    <3>3. wikiJobs'[j] = [wikiJobs[j] EXCEPT !.status = "queued", !.conv = c]
      BY <2>1 DEF RequestUpdate
    <3> QED  BY <2>1, <3>2, <3>3 DEF RequestUpdate, JobRec
  <2>3. CASE j \in ClearJobs /\ RequestClear(j)
    <3>2. [wikiJobs[j] EXCEPT !.status = "queued"] \in JobRec
      BY <2>1 DEF JobRec, JobStates
    <3>3. wikiJobs'[j] = [wikiJobs[j] EXCEPT !.status = "queued"]
      BY <2>1, <2>3 DEF RequestClear
    <3> QED  BY <2>1, <2>3, <3>2, <3>3, KindOfTask DEF RequestClear, JobRec
  <2> QED  BY <2>2, <2>3
<1>2. TypeInv'
  BY <1>1, TypesNow, TypesFrom DEF Base
<1>3. RowInv'
  <2>1. RowOf(j)'
    BY <1>1, KindOfTask DEF Base, RowInv, RowOf, InJob, At
  <2>2. ASSUME NEW i \in Jobs \ {j} PROVE RowOf(i)'
    BY <1>1 DEF Base, RowInv, RowOf, InJob, At
  <2> QED  BY <2>1, <2>2 DEF RowInv
<1> QED  BY <1>1, <1>2, <1>3 DEF Base, PlaceInv, PlaceOf, LockInv, LockOf

LEMMA RequestPageStep ==
  ASSUME Base, NEW x \in Requests, NEW c \in Convs, RequestPage(x, c)
  PROVE  /\ Base' /\ task'[x].at = "claimed" /\ x \in Tasks
         /\ \A y \in Tasks \ {x} : task'[y] = task[y]
<1>1. x \in Tasks /\ x \notin Jobs /\ c \in Nat
  BY KindOfTask, WikiAssumption
<1>2. task[x] \in TaskRec
  BY <1>1, TypesNow DEF Base
<1>3. task' = [task EXCEPT ![x] = [task[x] EXCEPT !.at = "claimed", !.conv = c]]
  BY <1>1, <1>2, TypesNow DEF Base, RequestPage
<1>4. [task[x] EXCEPT !.at = "claimed", !.conv = c] \in TaskRec
  BY <1>1, <1>2 DEF TaskRec, Places
<1>5. /\ task' \in [Tasks -> TaskRec] /\ \A y \in Tasks \ {x} : task'[y] = task[y]
      /\ task'[x].at = "claimed" /\ task'[x].conv = c
  BY <1>1, <1>2, <1>3, <1>4, TypesNow DEF Base, TaskRec
<1>6. TypeInv'
  BY <1>5, TypesNow, TypesFrom DEF Base, RequestPage
<1>7. PlaceOf(x)' /\ LockOf(x)'
  BY <1>1, <1>5, KindOfTask DEF PlaceOf, LockOf, Holding
<1> QED  BY <1>1, <1>5, <1>6, <1>7, OneTaskMoves DEF RequestPage

(* What SetJob makes of the rows.                                          *)
LEMMA SetJobType ==
  ASSUME TypeInv, NEW j \in Jobs, NEW status \in JobStates, SetJob(j, status)
  PROVE  /\ wikiJobs' \in [Jobs -> JobRec]
         /\ \A i \in Jobs \ {j} : wikiJobs'[i] = wikiJobs[i]
         /\ wikiJobs'[j].status = IF wikiJobs[j].status = "gone" THEN "gone" ELSE status
         /\ wikiJobs'[j].attempts = wikiJobs[j].attempts
         /\ wikiJobs'[j].conv = wikiJobs[j].conv /\ wikiJobs'[j].listed = wikiJobs[j].listed
<1> DEFINE s == IF wikiJobs[j].status = "gone" THEN "gone" ELSE status
<1>1. wikiJobs[j] \in JobRec /\ s \in JobStates
  BY TypesNow DEF JobStates
<1>2. wikiJobs' = [wikiJobs EXCEPT ![j] = [wikiJobs[j] EXCEPT !.status = s]]
  BY <1>1, TypesNow DEF SetJob, JobRec
<1>3. [wikiJobs[j] EXCEPT !.status = s] \in JobRec
  BY <1>1 DEF JobRec
<1> QED  BY <1>1, <1>2, <1>3, TypesNow DEF JobRec

LEMMA ClaimStep ==
  ASSUME Base, NEW j \in Jobs, ClaimWikiJob(j)
  PROVE  /\ Base' /\ task'[j].at = "claimed" /\ j \in Tasks
         /\ \A y \in Tasks \ {j} : task'[y] = task[y]
         /\ \A i \in Jobs : wikiJobs'[i].listed = wikiJobs[i].listed
         /\ \A i \in Jobs : wikiJobs'[i].status = "succeeded" => wikiJobs[i].status = "succeeded"
<1>1. j \in Tasks /\ wikiJobs[j] \in JobRec
  BY KindOfTask, TypesNow DEF Base
<1>2. /\ wikiJobs' \in [Jobs -> JobRec] /\ \A i \in Jobs \ {j} : wikiJobs'[i] = wikiJobs[i]
      /\ wikiJobs'[j].status = "running" /\ wikiJobs'[j].attempts = wikiJobs[j].attempts
      /\ wikiJobs'[j].conv = wikiJobs[j].conv /\ wikiJobs'[j].listed = wikiJobs[j].listed
  BY SetJobType DEF ClaimWikiJob, Base, JobStates
<1>3. [Rest EXCEPT !.at = "claimed", !.conv = wikiJobs[j].conv] \in TaskRec
  BY <1>1, RestType DEF TaskRec, Places, JobRec
<1>4. /\ task' \in [Tasks -> TaskRec] /\ \A y \in Tasks \ {j} : task'[y] = task[y]
      /\ task'[j].at = "claimed" /\ task'[j].conv = wikiJobs[j].conv
  BY <1>1, <1>3, TypesNow DEF Base, ClaimWikiJob, Rest
<1>5. TypeInv'
  BY <1>2, <1>4, TypesNow, TypesFrom DEF Base, ClaimWikiJob
<1>6. RowOf(j)' /\ PlaceOf(j)'
  BY <1>1, <1>2, <1>4, KindOfTask DEF Base, RowInv, RowOf, InJob, At, PlaceOf, ClaimWikiJob
<1>7. j \notin ClearJobs => LockOf(j)'
  BY <1>4, KindOfTask DEF LockOf, Holding, Base, RowInv, RowOf, ClaimWikiJob
<1> QED  BY <1>1, <1>2, <1>4, <1>5, <1>6, <1>7, OneTaskMoves DEF ClaimWikiJob

LEMMA LockingStep ==
  ASSUME Base, NEW x \in Tasks, Locking(x)
  PROVE  /\ Base' /\ x \notin ClearJobs /\ task'[x].at \in {"pages", "finish", "over"}
         /\ \A y \in Tasks \ {x} : task'[y] = task[y]
<1>1. /\ task[x].at = "claimed" /\ task[x].conv \in Convs /\ InJob(x)
      /\ x \notin ClearJobs /\ UNCHANGED wikiJobs /\ x \in UpdateJobs \cup Requests
  BY KindOfTask DEF Base, Locking, At, LockInv, LockOf, InJob
<1>2. CASE lock[task[x].conv] = Nobody
  <2>1. lock' = [lock EXCEPT ![task[x].conv] = x] /\ GoTo(x, "pages")
    BY <1>2 DEF Locking, TryLock
  <2>2. /\ task' \in [Tasks -> TaskRec] /\ task'[x].at = "pages" /\ task'[x].conv = task[x].conv
        /\ \A y \in Tasks \ {x} : task'[y] = task[y]
    BY <2>1, GoToType DEF Base, Places
  <2>3. TypeInv'
    BY <2>1, <2>2, TypesNow, TypesFrom, <1>1 DEF Base, Locking
  <2>4. \A y \in Tasks \ {x}, c \in Convs : lock[c] = y => lock'[c] = y
    BY <2>1, <1>2, TypesNow, WikiAssumption DEF Base
  <2>5. PlaceOf(x)' /\ LockOf(x)'
    BY <1>1, <2>1, <2>2, TypesNow DEF Base, PlaceOf, LockOf, Holding
  <2> QED  BY <1>1, <2>2, <2>3, <2>4, <2>5, RowStays, OneTaskMoves
<1>3. CASE lock[task[x].conv] # Nobody
  <2> DEFINE place == IF x \in UpdateJobs THEN "finish" ELSE "over"
  <2>1. Leave(x, place) /\ UNCHANGED lock /\ place \in Places
    BY <1>3 DEF Locking, TryLock, Places
  <2>2. /\ task' \in [Tasks -> TaskRec] /\ task'[x].at = place
        /\ \A y \in Tasks \ {x} : task'[y] = task[y]
    BY <2>1, LeaveType DEF Base
  <2>3. TypeInv'
    BY <2>1, <2>2, TypesNow, TypesFrom DEF Base, Locking
  <2>4. PlaceOf(x)'
    BY <1>1, <2>2, KindOfTask DEF PlaceOf
  <2>5. Base'
    BY <1>1, <2>1, <2>3, <2>4, RowStays, MovesOut DEF Holding
  <2> QED  BY <1>1, <2>2, <2>5
<1> QED  BY <1>2, <1>3

LEMMA ReadPagesStep ==
  ASSUME Base, NEW x \in Tasks, ReadPages(x)
  PROVE  /\ Base'
         /\ x \in UpdateJobs \cup Requests /\ task[x].conv \in Convs
         /\ task'[x].seen = page[task[x].conv] /\ task'[x].conv = task[x].conv
         /\ task'[x].new = task[x].new
         /\ task'[x].at = IF x \in UpdateJobs THEN "turns" ELSE IF x \in Edits THEN "write" ELSE "delete"
         /\ x \in UpdateJobs => task'[x].items = {}
         /\ \A y \in Tasks \ {x} : task'[y] = task[y]
<1> DEFINE c == task[x].conv
           place == IF x \in UpdateJobs THEN "turns" ELSE IF x \in Edits THEN "write" ELSE "delete"
           listed == IF x \in Removals /\ page[c].there THEN {PageItem(c)} ELSE {}
<1>1. task[x].at = "pages" /\ x \notin ClearJobs /\ x \in UpdateJobs \cup Requests /\ InJob(x)
  BY KindOfTask DEF Base, PlaceInv, PlaceOf, ReadPages, At, InJob
<1>2. c \in Convs /\ task[x] \in TaskRec /\ page[c] \in Pages
  BY <1>1, KindOfTask, TypesNow DEF Base, LockInv, LockOf, Holding
<1>3. listed \in SUBSET Items /\ (x \in UpdateJobs => listed = {})
  BY <1>2, ItemType, KindOfTask DEF Pages
<1>4. (CASE x \in UpdateJobs -> "turns" [] x \in Edits -> "write" [] OTHER -> "delete") = place
  BY <1>1, KindOfTask
<1> DEFINE r == [task[x] EXCEPT !.seen = page[c], !.items = listed, !.at = place]
<1>5. r \in TaskRec /\ r.seen = page[c] /\ r.items = listed /\ r.at = place /\ r.conv = c
      /\ r.new = task[x].new
  BY <1>2, <1>3 DEF TaskRec, Places
<1>6. task' = [task EXCEPT ![x] = r]
  BY <1>2, <1>4, TypesNow DEF ReadPages, Base
<1>7. /\ task' \in [Tasks -> TaskRec] /\ task'[x] = r
      /\ \A y \in Tasks \ {x} : task'[y] = task[y]
  BY <1>5, <1>6, TypesNow DEF Base
<1>8. TypeInv'
  BY <1>7, TypesNow, TypesFrom DEF Base, ReadPages
<1>9. PlaceOf(x)'
  BY <1>1, <1>5, <1>7, KindOfTask DEF PlaceOf
<1>10. Base'
  BY <1>1, <1>5, <1>7, <1>8, <1>9, MovesOn DEF Holding, ReadPages
<1> HIDE DEF r
<1> QED  BY <1>1, <1>2, <1>3, <1>5, <1>7, <1>10

LEMMA PromptType ==
  ASSUME NEW c, NEW from
  PROVE  /\ NewTurns(c, from) \subseteq PromptTurns(c, from)
         /\ PromptTurns(c, from) \subseteq StoredTurns(c) /\ StoredTurns(c) \subseteq Turns
<1> DEFINE new == NewTurns(c, from)
           before == Newest(Overlap(c, new) \ new, MaxSource - Cardinality(new))
<1>1. new \subseteq StoredTurns(c)
  BY DEF NewTurns, WithText, Oldest, Newest
<1>2. before \subseteq StoredTurns(c)
  BY DEF Overlap, WithText, Newest, LastExchanges
<1>3. PromptTurns(c, from) = IF from \in StoredTurns(c) /\ KeepRecent > 0
                             THEN new \cup before ELSE new
  BY DEF PromptTurns
<1>4. StoredTurns(c) \subseteq Turns
  BY DEF StoredTurns
<1> HIDE DEF new, before
<1>5. new \subseteq PromptTurns(c, from) /\ PromptTurns(c, from) \subseteq StoredTurns(c)
  BY <1>1, <1>2, <1>3
<1> QED  BY <1>4, <1>5 DEF new

LEMMA ReadTurnsStep ==
  ASSUME Base, NEW x \in Tasks, ReadTurns(x)
  PROVE  /\ Base' /\ x \in UpdateJobs /\ task[x].conv \in Convs
         /\ \A y \in Tasks \ {x} : task'[y] = task[y]
         /\ \/ task'[x].at = "finish"
            \/ LET from == IF x \in Rebuilds THEN 0 ELSE task[x].seen.checkpoint
               IN  /\ task'[x].at = "model" /\ task'[x].conv = task[x].conv
                   /\ task'[x].seen = task[x].seen
                   /\ task'[x].new = NewTurns(task[x].conv, from)
                   /\ task'[x].prompt = PromptTurns(task[x].conv, from)
<1> DEFINE c      == task[x].conv
           from   == IF x \in Rebuilds THEN 0 ELSE task[x].seen.checkpoint
           new    == NewTurns(c, from)
           prompt == PromptTurns(c, from)
<1>1. task[x].at = "turns" /\ x \in UpdateJobs /\ InJob(x)
  BY KindOfTask DEF Base, PlaceInv, PlaceOf, ReadTurns, At, InJob
<1>2. c \in Convs /\ task[x] \in TaskRec
  BY <1>1, KindOfTask, TypesNow DEF Base, LockInv, LockOf, Holding
<1>3. new \in SUBSET Turns /\ prompt \in SUBSET Turns
  BY PromptType
<1>4. CASE IsDue(x, new, prompt)
  <2> HIDE DEF new, prompt
  <2> DEFINE r == [task[x] EXCEPT !.new = new, !.prompt = prompt, !.at = "model"]
  <2>1. r \in TaskRec /\ r.at = "model" /\ r.conv = c /\ r.seen = task[x].seen
        /\ r.new = new /\ r.prompt = prompt
    BY <1>2, <1>3 DEF TaskRec, Places
  <2>2. task' = [task EXCEPT ![x] = r]
    BY <1>2, <1>4, TypesNow DEF ReadTurns, Base, new, prompt
  <2>3. /\ task' \in [Tasks -> TaskRec] /\ task'[x] = r
        /\ \A y \in Tasks \ {x} : task'[y] = task[y]
    BY <2>1, <2>2, TypesNow DEF Base
  <2>4. TypeInv'
    BY <2>3, TypesNow, TypesFrom DEF Base, ReadTurns
  <2>5. PlaceOf(x)'
    BY <1>1, <2>1, <2>3, KindOfTask DEF PlaceOf
  <2>6. Base'
    BY <1>1, <2>1, <2>3, <2>4, <2>5, MovesOn DEF Holding, ReadTurns
  <2> HIDE DEF r
  <2> QED  BY <1>1, <1>2, <2>1, <2>3, <2>6 DEF new, prompt
<1>5. CASE ~IsDue(x, new, prompt)
  <2>1. Leave(x, "finish") /\ "finish" \in Places
    BY <1>5 DEF ReadTurns, Places
  <2>2. /\ task' \in [Tasks -> TaskRec] /\ task'[x].at = "finish"
        /\ \A y \in Tasks \ {x} : task'[y] = task[y]
    BY <2>1, LeaveType DEF Base
  <2>3. TypeInv'
    BY <2>2, TypesNow, TypesFrom DEF Base, ReadTurns
  <2>4. PlaceOf(x)'
    BY <1>1, <2>2, KindOfTask DEF PlaceOf
  <2>5. Base'
    BY <1>1, <2>1, <2>3, <2>4, RowStays, MovesOut DEF Holding, ReadTurns
  <2> QED  BY <1>1, <1>2, <2>2, <2>5
<1> QED  BY <1>4, <1>5

LEMMA AskModelStep ==
  ASSUME Base, NEW x \in Tasks, AskModel(x)
  PROVE  /\ Base' /\ x \in UpdateJobs /\ task[x].at = "model"
         /\ \A y \in Tasks \ {x} : task'[y] = task[y]
         /\ \/ task'[x].at = "fail"
            \/ /\ task'[x].at = "write" /\ task'[x].conv = task[x].conv
               /\ task'[x].seen = task[x].seen /\ task'[x].new = task[x].new
               /\ task'[x].prompt = task[x].prompt
<1>1. task[x].at = "model" /\ x \in UpdateJobs /\ InJob(x)
  BY KindOfTask DEF Base, PlaceInv, PlaceOf, AskModel, At, InJob
<1>2. CASE GoTo(x, "write") /\ UNCHANGED wikiFaults
  <2>1. /\ task' \in [Tasks -> TaskRec] /\ task'[x].at = "write" /\ task'[x].conv = task[x].conv
        /\ task'[x].seen = task[x].seen /\ task'[x].new = task[x].new
        /\ task'[x].prompt = task[x].prompt
        /\ \A y \in Tasks \ {x} : task'[y] = task[y]
    BY <1>2, GoToType DEF Base, Places
  <2>2. TypeInv'
    BY <1>2, <2>1, TypesNow, TypesFrom DEF Base, AskModel
  <2>3. PlaceOf(x)'
    BY <1>1, <2>1, KindOfTask DEF PlaceOf
  <2>4. Base'
    BY <1>1, <2>1, <2>2, <2>3, MovesOn DEF Holding, AskModel
  <2> QED  BY <1>1, <2>1, <2>4
<1>3. CASE WikiFault("model") /\ Leave(x, "fail")
  <2>1. /\ task' \in [Tasks -> TaskRec] /\ task'[x].at = "fail"
        /\ wikiFaults' \in 0 .. MaxWikiFaults /\ \A y \in Tasks \ {x} : task'[y] = task[y]
    BY <1>3, LeaveType, FaultType DEF Base, Places
  <2>2. TypeInv'
    BY <2>1, TypesNow, TypesFrom DEF Base, AskModel
  <2>3. PlaceOf(x)'
    BY <1>1, <2>1, KindOfTask DEF PlaceOf
  <2>4. Base'
    BY <1>1, <1>3, <2>2, <2>3, RowStays, MovesOut DEF Holding, AskModel, Places
  <2> QED  BY <1>1, <2>1, <2>4
<1> QED  BY <1>2, <1>3 DEF AskModel

(* Max is the greatest and Min the least of a finite set of numbers: the   *)
(* sets of what is above, or below, an element cannot shrink for ever.     *)
LEMMA SmallestOf ==
  ASSUME NEW s, IsFiniteSet(s), s # {}
  PROVE  \A up \in [s -> SUBSET s] :
           \E t \in s : \A u \in s : ~(up[u] \subseteq up[t] /\ up[u] # up[t])
<1> TAKE up \in [s -> SUBSET s]
<1> DEFINE R == StrictSubsetOrdering(s)
           T == {up[t] : t \in s}
<1>1. IsWellFoundedOn(R, SUBSET s)
  BY FS_StrictSubsetOrderingWellFounded, FS_FiniteSubsetsOfFinite
<1>2. T \subseteq SUBSET s /\ T # {}
  OBVIOUS
<1>3. \E x \in T : \A y \in T : <<y, x>> \notin R
  <2> HIDE DEF R, T
  <2> QED  BY <1>1, <1>2, WFMin
<1>4. PICK x \in T : \A y \in T : <<y, x>> \notin R
  BY <1>3
<1>5. PICK t \in s : x = up[t]
  BY <1>4
<1>6. ASSUME NEW u \in s, up[u] \subseteq up[t], up[u] # up[t]
      PROVE  FALSE
  <2>1. <<up[u], up[t]>> \in R
    BY <1>6 DEF StrictSubsetOrdering
  <2> QED  BY <2>1, <1>4, <1>5
<1> QED  BY <1>6

LEMMA MaxIsIn ==
  ASSUME NEW s, IsFiniteSet(s), s \subseteq Nat, s # {}
  PROVE  Max(s) \in s /\ \A t \in s : t <= Max(s)
<1> DEFINE up == [t \in s |-> {u \in s : u > t}]
<1>1. up \in [s -> SUBSET s]
  OBVIOUS
<1>2. PICK t \in s : \A u \in s : ~(up[u] \subseteq up[t] /\ up[u] # up[t])
  <2> HIDE DEF up
  <2>1. \A f \in [s -> SUBSET s] :
           \E t \in s : \A u \in s : ~(f[u] \subseteq f[t] /\ f[u] # f[t])
    BY SmallestOf
  <2> QED  BY <2>1, <1>1, Zenon
<1>3. ASSUME NEW u \in s, ~(t >= u) PROVE FALSE
  <2>1. u > t /\ t \in Nat /\ u \in Nat
    BY <1>3
  <2>2. ASSUME NEW v \in up[u] PROVE v \in up[t]
    <3>1. v \in s /\ v > u /\ v \in Nat
      BY <2>2
    <3> QED  BY <3>1, <2>1
  <2>3. u \in up[t] /\ u \notin up[u]
    BY <2>1
  <2> QED  BY <2>2, <2>3, <1>2
<1>4. \A y \in s : t >= y
  BY <1>3
<1>5. Max(s) \in s /\ \A y \in s : Max(s) >= y
  BY <1>4 DEF Max
<1> QED  BY <1>5

LEMMA MinIsIn ==
  ASSUME NEW s, IsFiniteSet(s), s \subseteq Nat, s # {}
  PROVE  Min(s) \in s
<1> DEFINE up == [t \in s |-> {u \in s : u < t}]
<1>1. up \in [s -> SUBSET s]
  OBVIOUS
<1>2. PICK t \in s : \A u \in s : ~(up[u] \subseteq up[t] /\ up[u] # up[t])
  <2> HIDE DEF up
  <2>1. \A f \in [s -> SUBSET s] :
           \E t \in s : \A u \in s : ~(f[u] \subseteq f[t] /\ f[u] # f[t])
    BY SmallestOf
  <2> QED  BY <2>1, <1>1, Zenon
<1>3. ASSUME NEW u \in s, ~(t =< u) PROVE FALSE
  <2>1. u < t /\ t \in Nat /\ u \in Nat
    BY <1>3
  <2>2. ASSUME NEW v \in up[u] PROVE v \in up[t]
    <3>1. v \in s /\ v < u /\ v \in Nat
      BY <2>2
    <3> QED  BY <3>1, <2>1
  <2>3. u \in up[t] /\ u \notin up[u]
    BY <2>1
  <2> QED  BY <2>2, <2>3, <1>2
<1>4. \A y \in s : t =< y
  BY <1>3
<1> QED  BY <1>4 DEF Min

LEMMA CheckpointType ==
  ASSUME TypeInv, NEW x \in Tasks
  PROVE  NextCheckpoint(x) \in Nat
<1>1. task[x] \in TaskRec
  BY TypesNow
<1>2. task[x].new # {} => Max(task[x].new) \in Nat
  BY <1>1, MaxIsIn, WikiAssumption, FS_Subset DEF TaskRec
<1> QED  BY <1>1, <1>2 DEF NextCheckpoint, TaskRec, Pages

LEMMA WritePageStep ==
  ASSUME Base, NEW x \in Tasks, WritePage(x)
  PROVE  /\ Base' /\ x \in UpdateJobs \cup Requests /\ task[x].conv \in Convs
         /\ task'[x].at = "index" /\ task'[x].conv = task[x].conv /\ task'[x].new = task[x].new
         /\ task'[x].seen = task[x].seen
         /\ \A y \in Tasks \ {x} : task'[y] = task[y]
         /\ \A d \in Convs \ {task[x].conv} : page'[d] = page[d]
         /\ page'[task[x].conv].there
         /\ page'[task[x].conv].born = page[task[x].conv].born
                                         + IF page[task[x].conv].there THEN 0 ELSE 1
         /\ page'[task[x].conv].rev = task[x].seen.rev + 1
         /\ page'[task[x].conv].checkpoint = NextCheckpoint(x)
         /\ page'[task[x].conv].read = task[x].seen.read \cup task[x].prompt
<1> DEFINE c == task[x].conv
           p == [there |-> TRUE, born |-> page[c].born + IF page[c].there THEN 0 ELSE 1,
                 rev |-> task[x].seen.rev + 1, checkpoint |-> NextCheckpoint(x),
                 read |-> task[x].seen.read \cup task[x].prompt, indexed |-> FALSE]
<1>1. task[x].at = "write" /\ x \notin ClearJobs /\ x \in UpdateJobs \cup Requests /\ InJob(x)
  BY KindOfTask DEF Base, PlaceInv, PlaceOf, WritePage, At, InJob
<1>2. c \in Convs /\ task[x] \in TaskRec /\ page[c] \in Pages
  BY <1>1, KindOfTask, TypesNow DEF Base, LockInv, LockOf, Holding
<1>3. p \in Pages
  BY <1>2, CheckpointType DEF Base, Pages, TaskRec
<1>4. /\ page' \in [Convs -> Pages] /\ page'[c] = p
      /\ \A d \in Convs \ {c} : page'[d] = page[d]
  BY <1>2, <1>3, TypesNow DEF Base, WritePage
<1>5. /\ task' \in [Tasks -> TaskRec] /\ task'[x].at = "index" /\ task'[x].conv = c
      /\ task'[x].new = task[x].new /\ task'[x].seen = task[x].seen
      /\ \A y \in Tasks \ {x} : task'[y] = task[y]
  BY GoToType DEF Base, Places, WritePage
<1>6. TypeInv'
  BY <1>2, <1>4, <1>5, TypesNow, TypesFrom DEF Base, WritePage, TaskRec
<1>7. PlaceOf(x)'
  BY <1>1, <1>5, KindOfTask DEF PlaceOf
<1>8. Base'
  BY <1>1, <1>5, <1>6, <1>7, MovesOn DEF Holding, WritePage
<1> QED  BY <1>1, <1>2, <1>4, <1>5, <1>8

LEMMA KeepPageStep ==
  ASSUME Base, NEW x \in Tasks, KeepPage(x)
  PROVE  /\ Base' /\ x \in UpdateJobs /\ task[x].at = "write" /\ task'[x].at = "list"
         /\ task'[x].conv = task[x].conv /\ task'[x].seen = task[x].seen
         /\ task'[x].new = task[x].new
         /\ \A y \in Tasks \ {x} : task'[y] = task[y]
<1>1. task[x].at = "write" /\ x \in UpdateJobs /\ InJob(x)
  BY KindOfTask DEF Base, PlaceInv, PlaceOf, KeepPage, At, InJob
<1>2. /\ task' \in [Tasks -> TaskRec] /\ task'[x].at = "list" /\ task'[x].conv = task[x].conv
      /\ task'[x].seen = task[x].seen /\ task'[x].new = task[x].new
      /\ \A y \in Tasks \ {x} : task'[y] = task[y]
  BY GoToType DEF Base, Places, KeepPage
<1>3. TypeInv'
  BY <1>2, TypesNow, TypesFrom DEF Base, KeepPage
<1>4. PlaceOf(x)'
  BY <1>1, <1>2, KindOfTask DEF PlaceOf
<1>5. Base'
  BY <1>1, <1>2, <1>3, <1>4, MovesOn DEF Holding, KeepPage
<1> QED  BY <1>1, <1>2, <1>5

LEMMA IndexPageStep ==
  ASSUME Base, NEW x \in Tasks, IndexPage(x)
  PROVE  /\ Base' /\ task[x].conv \in Convs
         /\ task'[x].at \in {"list", "unlock", "fail"}
         /\ task'[x].at = "list" => task'[x].conv = task[x].conv /\ task'[x].new = task[x].new
                                    /\ task'[x].seen = task[x].seen
         /\ \A y \in Tasks \ {x} : task'[y] = task[y]
         /\ \A d \in Convs : \/ page'[d] = page[d]
                             \/ d = task[x].conv /\ page'[d] = [page[d] EXCEPT !.indexed = page[d].there]
<1> DEFINE c == task[x].conv
           place == IF x \in UpdateJobs THEN "list" ELSE "unlock"
<1>1. task[x].at = "index" /\ x \notin ClearJobs /\ x \in UpdateJobs \cup Requests /\ InJob(x)
  BY KindOfTask DEF Base, PlaceInv, PlaceOf, IndexPage, At, InJob
<1>2. c \in Convs /\ page[c] \in Pages
  BY <1>1, KindOfTask, TypesNow DEF Base, LockInv, LockOf, Holding
<1>3. CASE page' = [page EXCEPT ![c].indexed = page[c].there] /\ GoTo(x, place) /\ UNCHANGED wikiFaults
  <2>1. [page[c] EXCEPT !.indexed = page[c].there] \in Pages
    BY <1>2 DEF Pages
  <2>2. /\ page' \in [Convs -> Pages]
        /\ \A d \in Convs : \/ page'[d] = page[d]
                            \/ d = c /\ page'[d] = [page[d] EXCEPT !.indexed = page[d].there]
    BY <1>2, <1>3, <2>1, TypesNow DEF Base
  <2>3. /\ task' \in [Tasks -> TaskRec] /\ task'[x].at = place /\ task'[x].conv = c
        /\ task'[x].new = task[x].new /\ task'[x].seen = task[x].seen
        /\ \A y \in Tasks \ {x} : task'[y] = task[y]
    BY <1>3, GoToType DEF Base, Places
  <2>4. TypeInv'
    BY <1>3, <2>2, <2>3, TypesNow, TypesFrom DEF Base, IndexPage
  <2>5. PlaceOf(x)'
    BY <1>1, <2>3, KindOfTask DEF PlaceOf
  <2>6. Base'
    BY <1>1, <2>3, <2>4, <2>5, MovesOn DEF Holding, IndexPage
  <2> QED  BY <1>2, <2>2, <2>3, <2>6
<1>4. CASE WikiFault("index") /\ Leave(x, BrokenOff(x)) /\ UNCHANGED page
  <2>1. /\ task' \in [Tasks -> TaskRec] /\ wikiFaults' \in 0 .. MaxWikiFaults
        /\ task'[x].at = BrokenOff(x) /\ \A y \in Tasks \ {x} : task'[y] = task[y]
    BY <1>4, LeaveType, FaultType, BrokenOffType DEF Base
  <2>2. TypeInv'
    BY <1>4, <2>1, TypesNow, TypesFrom DEF Base, IndexPage
  <2>3. Base'
    BY <1>1, <1>4, <2>2, BrokenOffPlace DEF IndexPage, At
  <2>4. BrokenOff(x) \in {"fail", "unlock"}
    BY <1>1, KindOfTask DEF BrokenOff, At
  <2> QED  BY <1>2, <1>4, <2>1, <2>3, <2>4
<1> QED  BY <1>3, <1>4 DEF IndexPage

LEMMA ListPrunableStep ==
  ASSUME Base, NEW x \in Tasks, ListPrunable(x)
  PROVE  /\ Base' /\ x \in UpdateJobs
         /\ task'[x].at = "delete"
         /\ task'[x].items = {TurnItem(t) : t \in Prunable(task[x].conv, NextCheckpoint(x))}
         /\ \A y \in Tasks \ {x} : task'[y] = task[y]
<1> DEFINE items == {TurnItem(t) : t \in Prunable(task[x].conv, NextCheckpoint(x))}
           r == [task[x] EXCEPT !.at = "delete", !.items = items]
<1>1. task[x].at = "list" /\ x \in UpdateJobs /\ InJob(x)
  BY KindOfTask DEF Base, PlaceInv, PlaceOf, ListPrunable, At, InJob
<1>2. task[x] \in TaskRec
  BY TypesNow DEF Base
<1>3. items \in SUBSET Items
  <2>1. Prunable(task[x].conv, NextCheckpoint(x)) \subseteq Turns
    BY DEF Prunable, StoredTurns
  <2> QED  BY <2>1, ItemType
<1>10. \A i \in items : i[1] = "turn"
  BY DEF TurnItem
<1> HIDE DEF items
<1>4. r \in TaskRec /\ r.at = "delete" /\ r.items = items /\ r.conv = task[x].conv
  BY <1>2, <1>3 DEF TaskRec, Places
<1>5. task' = [task EXCEPT ![x] = r]
  BY <1>2, TypesNow DEF ListPrunable, Base, items
<1>6. /\ task' \in [Tasks -> TaskRec] /\ task'[x] = r
      /\ \A y \in Tasks \ {x} : task'[y] = task[y]
  BY <1>4, <1>5, TypesNow DEF Base
<1>7. TypeInv'
  BY <1>6, TypesNow, TypesFrom DEF Base, ListPrunable
<1>8. PlaceOf(x)'
  BY <1>1, <1>4, <1>6, <1>10, KindOfTask DEF PlaceOf
<1>9. Base'
  BY <1>1, <1>4, <1>6, <1>7, <1>8, MovesOn DEF Holding, ListPrunable
<1> HIDE DEF r
<1> QED  BY <1>1, <1>4, <1>6, <1>9 DEF items

(* What erasing one item does to turns and articles.                       *)
LEMMA EraseType ==
  ASSUME TypeInv, NEW i \in Items, Erase(i)
  PROVE  /\ turns' \in [Turns -> {"none", "row", "saved", "gone"}]
         /\ page' \in [Convs -> Pages]
         /\ \A t \in Turns : turns'[t] = turns[t] \/ (turns'[t] = "gone" /\ i = TurnItem(t))
         /\ \A c \in Convs : \/ page'[c] = page[c]
                             \/ /\ Exists(i) /\ i = PageItem(c)
                                /\ page'[c] = NoPage(page[c].born)
         /\ i[1] = "turn" => i[2] \in Turns /\ turns'[i[2]] = "gone"
         /\ i[1] # "turn" /\ Exists(i) => ~page'[i[2]].there
<1>1. turns \in [Turns -> {"none", "row", "saved", "gone"}] /\ page \in [Convs -> Pages]
  BY TypesNow
<1>2. CASE i \in {"turn"} \X Turns
  <2>1. i[1] = "turn" /\ i[2] \in Turns /\ i = TurnItem(i[2])
    BY <1>2 DEF TurnItem
  <2>2. turns' = [turns EXCEPT ![i[2]] = "gone"] /\ UNCHANGED page
    BY <2>1 DEF Erase
  <2> QED  BY <1>1, <2>1, <2>2
<1>3. CASE i \in {"page"} \X Convs \X Nat
  <2>1. i[1] = "page" /\ i[1] # "turn" /\ i[2] \in Convs /\ i[3] \in Nat /\ i = <<"page", i[2], i[3]>>
    BY <1>3
  <2>2. page' = [page EXCEPT ![i[2]] = IF Exists(i) THEN NoPage(i[3]) ELSE @] /\ UNCHANGED turns
    BY <2>1 DEF Erase
  <2>3. NoPage(i[3]) \in Pages /\ ~NoPage(i[3]).there
    BY <2>1 DEF NoPage, Pages
  <2>4. Exists(i) => page[i[2]].born = i[3] /\ i = PageItem(i[2])
    BY <2>1 DEF Exists, PageItem
  <2> QED  BY <1>1, <2>1, <2>2, <2>3, <2>4
<1> QED  BY <1>2, <1>3 DEF Items

LEMMA DeleteItemStep ==
  ASSUME Base, NEW x \in Tasks, DeleteItem(x)
  PROVE  /\ Base' /\ task[x].at = "delete"
         /\ \A y \in Tasks \ {x} : task'[y] = task[y]
         /\ \/ task'[x].at \in {"fail", "undo", "unlock"} /\ task'[x].items = {}
               /\ (x \in ClearJobs => task'[x].at = "undo")
               /\ UNCHANGED <<turns, page, pruned, reconcile>>
            \/ \E i \in task[x].items :
                 /\ task'[x].at = "delete" /\ task'[x].items = task[x].items \ {i}
                 /\ task'[x].conv = task[x].conv /\ i \in Items
                 /\ \/ /\ Erase(i) /\ UNCHANGED reconcile
                       /\ pruned' = IF x \in UpdateJobs THEN pruned \cup {i[2]} ELSE pruned
                    \/ reconcile' = reconcile \cup {i} /\ UNCHANGED <<turns, page, pruned>>
<1>1. task[x].at = "delete" /\ InJob(x)
  BY DEF DeleteItem, At, InJob
<1>2. task[x] \in TaskRec /\ PlaceOf(x)
  BY TypesNow DEF Base, PlaceInv
<1>3. ASSUME NEW i \in task[x].items, task' = [task EXCEPT ![x].items = @ \ {i}],
             turns' \in [Turns -> {"none", "row", "saved", "gone"}],
             page' \in [Convs -> Pages], pruned' \subseteq Turns, reconcile' \subseteq Items,
             wikiFaults' \in 0 .. MaxWikiFaults
      PROVE  /\ Base' /\ task'[x].at = "delete" /\ task'[x].items = task[x].items \ {i}
             /\ task'[x].conv = task[x].conv /\ i \in Items
             /\ \A y \in Tasks \ {x} : task'[y] = task[y]
  <2> DEFINE r == [task[x] EXCEPT !.items = @ \ {i}]
  <2>1. r \in TaskRec /\ r.at = "delete" /\ r.conv = task[x].conv /\ r.items = task[x].items \ {i}
        /\ i \in Items
    BY <1>1, <1>2 DEF TaskRec
  <2>2. task' \in [Tasks -> TaskRec] /\ task'[x] = r /\ \A y \in Tasks \ {x} : task'[y] = task[y]
    BY <1>3, <2>1, TypesNow DEF Base
  <2>3. TypeInv'
    BY <1>3, <2>2, TypesNow, TypesFrom DEF Base, DeleteItem
  <2>4. PlaceOf(x)'
    BY <1>1, <1>2, <2>1, <2>2 DEF PlaceOf
  <2>5. Base'
    BY <1>1, <2>1, <2>2, <2>3, <2>4, MovesOn DEF Holding, DeleteItem
  <2> HIDE DEF r
  <2> QED  BY <2>1, <2>2, <2>5
<1>4. PICK i \in task[x].items :
        \/ /\ Erase(i)
           /\ task' = [task EXCEPT ![x].items = @ \ {i}]
           /\ pruned' = IF x \in UpdateJobs THEN pruned \cup {i[2]} ELSE pruned
           /\ UNCHANGED <<reconcile, wikiFaults>>
        \/ /\ WikiFault("vdel")
           /\ reconcile' = reconcile \cup {i}
           /\ task' = [task EXCEPT ![x].items = @ \ {i}]
           /\ UNCHANGED <<turns, page, pruned>>
        \/ /\ WikiFault("query")
           /\ Leave(x, BrokenOff(x))
           /\ UNCHANGED <<turns, page, pruned, reconcile>>
  BY DEF DeleteItem
<1>5. i \in Items /\ (x \in UpdateJobs => i[1] = "turn")
  BY <1>1, <1>2 DEF TaskRec, PlaceOf
<1>6. CASE /\ Erase(i)
           /\ task' = [task EXCEPT ![x].items = @ \ {i}]
           /\ pruned' = IF x \in UpdateJobs THEN pruned \cup {i[2]} ELSE pruned
           /\ UNCHANGED <<reconcile, wikiFaults>>
  <2>1. /\ turns' \in [Turns -> {"none", "row", "saved", "gone"}] /\ page' \in [Convs -> Pages]
        /\ pruned' \subseteq Turns /\ reconcile' \subseteq Items /\ wikiFaults' \in 0 .. MaxWikiFaults
    BY <1>5, <1>6, EraseType, TypesNow DEF Base
  <2>2. /\ Base' /\ task'[x].at = "delete" /\ task'[x].items = task[x].items \ {i}
        /\ task'[x].conv = task[x].conv
        /\ \A y \in Tasks \ {x} : task'[y] = task[y]
    BY <1>3, <1>6, <2>1
  <2> QED  BY <1>1, <1>5, <1>6, <2>2
<1>7. CASE /\ WikiFault("vdel")
           /\ reconcile' = reconcile \cup {i}
           /\ task' = [task EXCEPT ![x].items = @ \ {i}]
           /\ UNCHANGED <<turns, page, pruned>>
  <2>1. /\ turns' \in [Turns -> {"none", "row", "saved", "gone"}] /\ page' \in [Convs -> Pages]
        /\ pruned' \subseteq Turns /\ reconcile' \subseteq Items /\ wikiFaults' \in 0 .. MaxWikiFaults
    BY <1>5, <1>7, FaultType, TypesNow DEF Base
  <2>2. /\ Base' /\ task'[x].at = "delete" /\ task'[x].items = task[x].items \ {i}
        /\ task'[x].conv = task[x].conv
        /\ \A y \in Tasks \ {x} : task'[y] = task[y]
    BY <1>3, <1>7, <2>1
  <2> QED  BY <1>1, <1>5, <1>7, <2>2
<1>8. CASE /\ WikiFault("query")
           /\ Leave(x, BrokenOff(x))
           /\ UNCHANGED <<turns, page, pruned, reconcile>>
  <2>1. /\ task' \in [Tasks -> TaskRec] /\ wikiFaults' \in 0 .. MaxWikiFaults
        /\ task'[x].at = BrokenOff(x) /\ task'[x].items = {}
        /\ \A y \in Tasks \ {x} : task'[y] = task[y]
    BY <1>8, LeaveType, FaultType, BrokenOffType DEF Base
  <2>2. TypeInv'
    BY <1>8, <2>1, TypesNow, TypesFrom DEF Base, DeleteItem
  <2>3. Base'
    BY <1>1, <1>8, <2>2, BrokenOffPlace DEF DeleteItem, At
  <2>4. BrokenOff(x) \in {"fail", "unlock", "undo"} /\ (x \in ClearJobs => BrokenOff(x) = "undo")
    BY <1>1, KindOfTask DEF BrokenOff, At
  <2> QED  BY <1>1, <1>8, <2>1, <2>3, <2>4
<1> QED  BY <1>4, <1>6, <1>7, <1>8

LEMMA AllDeletedStep ==
  ASSUME Base, NEW x \in Tasks, AllDeleted(x)
  PROVE  /\ Base' /\ task[x].at = "delete"
         /\ task'[x].at = IF x \in UpdateJobs THEN "finish" ELSE "unlock"
         /\ \A y \in Tasks \ {x} : task'[y] = task[y]
<1> DEFINE place == IF x \in UpdateJobs THEN "finish" ELSE "unlock"
<1>1. task[x].at = "delete" /\ InJob(x) /\ Leave(x, place) /\ place \in Places
  BY DEF AllDeleted, At, InJob, Places
<1>2. /\ task' \in [Tasks -> TaskRec] /\ task'[x].at = place
      /\ \A y \in Tasks \ {x} : task'[y] = task[y]
  BY <1>1, LeaveType DEF Base
<1>3. TypeInv'
  BY <1>2, TypesNow, TypesFrom DEF Base, AllDeleted
<1>4. PlaceOf(x)'
  BY <1>1, <1>2, KindOfTask DEF PlaceOf
<1>5. Base'
  BY <1>1, <1>3, <1>4, RowStays, MovesOut DEF Holding, AllDeleted
<1> QED  BY <1>1, <1>2, <1>5

LEMMA ReconcileStep ==
  ASSUME Base, NEW i \in reconcile, Reconcile(i)
  PROVE  Base' /\ i \in Items
<1>1. i \in Items
  BY TypesNow DEF Base
<1>2. turns' \in [Turns -> {"none", "row", "saved", "gone"}] /\ page' \in [Convs -> Pages]
  BY <1>1, EraseType DEF Base, Reconcile
<1>3. TypeInv'
  BY <1>2, TypesNow, TypesFrom DEF Base, Reconcile
<1> QED  BY <1>1, <1>3, NoTaskMoves DEF Reconcile

(* The clear.                                                              *)
LEMMA AllItemsType ==
  ASSUME Base
  PROVE  AllItems \in SUBSET Items /\ ListedConvs \in SUBSET Convs
<1>1. UNION {StoredTurns(c) : c \in Convs} \subseteq Turns
  BY DEF StoredTurns
<1>2. {TurnItem(t) : t \in UNION {StoredTurns(c) : c \in Convs}} \subseteq Items
  BY <1>1, ItemType
<1>3. {PageItem(c) : c \in {d \in Convs : page[d].there}} \subseteq Items
  BY ItemType, TypesNow DEF Base, Pages
<1>4. AllItems \in SUBSET Items
  BY <1>2, <1>3 DEF AllItems
<1>5. ASSUME NEW j \in UpdateJobs, wikiJobs[j].status # "none"
      PROVE  wikiJobs[j].conv \in Convs
  BY <1>5, KindOfTask DEF Base, RowInv, RowOf
<1> QED  BY <1>4, <1>5 DEF ListedConvs

LEMMA ListCollectionStep ==
  ASSUME Base, NEW k \in Tasks, ListCollection(k)
  PROVE  /\ Base' /\ k \in ClearJobs /\ task[k].at = "claimed"
         /\ task'[k].at = "wait" /\ task'[k].items = AllItems /\ wikiJobs'[k].listed = AllItems
         /\ wikiJobs'[k].status = wikiJobs[k].status
         /\ \A y \in Tasks \ {k} : task'[y] = task[y]
         /\ \A j \in Jobs \ {k} : wikiJobs'[j] = wikiJobs[j]
<1> DEFINE all   == AllItems
           convs == ListedConvs
           r == [task[k] EXCEPT !.at = "wait", !.items = all, !.todo = convs]
           w == [wikiJobs[k] EXCEPT !.listed = all]
<1>1. /\ task[k].at = "claimed" /\ k \in ClearJobs /\ k \in Jobs /\ InJob(k)
      /\ task' = [task EXCEPT ![k].at = "wait", ![k].items = all, ![k].todo = convs]
      /\ wikiJobs' = [wikiJobs EXCEPT ![k].listed = all]
      /\ UNCHANGED <<pool, turns, page, lock, reconcile, everRead, pruned, wikiFaults>>
  BY KindOfTask DEF ListCollection, At, InJob
<1>2. task[k] \in TaskRec /\ wikiJobs[k] \in JobRec
  BY <1>1, TypesNow DEF Base
<1>3. all \in SUBSET Items /\ convs \in SUBSET Convs
  BY AllItemsType
<1> HIDE DEF all, convs
<1>4. r \in TaskRec /\ r.at = "wait" /\ r.items = all
  BY <1>2, <1>3 DEF TaskRec, Places
<1>5. w \in JobRec /\ w.listed = all /\ w.status = wikiJobs[k].status
      /\ w.attempts = wikiJobs[k].attempts /\ w.conv = wikiJobs[k].conv
  BY <1>2, <1>3 DEF JobRec
<1>6. /\ task' \in [Tasks -> TaskRec] /\ task'[k] = r
      /\ \A y \in Tasks \ {k} : task'[y] = task[y]
  BY <1>1, <1>2, <1>4, TypesNow DEF Base
<1>7. /\ wikiJobs' \in [Jobs -> JobRec] /\ wikiJobs'[k] = w
      /\ \A j \in Jobs \ {k} : wikiJobs'[j] = wikiJobs[j]
  BY <1>1, <1>2, <1>5, TypesNow DEF Base
<1>8. TypeInv'
  BY <1>1, <1>6, <1>7, TypesNow, TypesFrom DEF Base
<1> HIDE DEF r, w
<1>9. PlaceOf(k)' /\ RowOf(k)'
  BY <1>1, <1>4, <1>5, <1>6, <1>7, KindOfTask DEF PlaceOf, Base, RowInv, RowOf, InJob, At
<1>10. Base'
  BY <1>1, <1>6, <1>7, <1>8, <1>9, OneTaskMoves
<1> QED  BY <1>1, <1>4, <1>5, <1>6, <1>7, <1>10 DEF all

LEMMA WaitForLockStep ==
  ASSUME Base, NEW k \in Tasks, WaitForLock(k)
  PROVE  /\ Base' /\ k \in ClearJobs /\ task[k].at = "wait"
         /\ \A y \in Tasks \ {k} : task'[y] = task[y]
         /\ \/ task'[k].at = "undo"
            \/ task'[k].at = "wait" /\ task'[k].items = task[k].items
<1> DEFINE c == Min(task[k].todo)
           r == [task[k] EXCEPT !.todo = @ \ {c}]
<1>1. task[k].at = "wait" /\ k \in ClearJobs /\ k \in Jobs /\ InJob(k) /\ task[k] \in TaskRec
  BY KindOfTask, TypesNow DEF Base, PlaceInv, PlaceOf, WaitForLock, At, InJob
<1>2. c \in Convs
  <2>1. task[k].todo \subseteq Convs /\ task[k].todo # {}
    BY <1>1 DEF WaitForLock, TaskRec
  <2>2. IsFiniteSet(task[k].todo) /\ task[k].todo \subseteq Nat
    BY <2>1, WikiAssumption, FS_Subset
  <2> QED  BY <2>1, <2>2, MinIsIn
<1> HIDE DEF c
<1>3. CASE lock[c] = Nobody /\ lock' = [lock EXCEPT ![c] = k] /\ task' = [task EXCEPT ![k].todo = @ \ {c}]
  <2>1. r \in TaskRec /\ r.at = "wait" /\ r.items = task[k].items /\ r.conv = task[k].conv
    BY <1>1 DEF TaskRec
  <2>2. /\ task' \in [Tasks -> TaskRec] /\ task'[k] = r
        /\ \A y \in Tasks \ {k} : task'[y] = task[y]
    BY <1>1, <1>3, <2>1, TypesNow DEF Base
  <2>3. /\ lock' \in [Convs -> Tasks \cup {Nobody}]
        /\ \A y \in Tasks \ {k}, d \in Convs : lock[d] = y => lock'[d] = y
    BY <1>2, <1>3, TypesNow, WikiAssumption DEF Base
  <2>4. TypeInv'
    BY <2>2, <2>3, TypesNow, TypesFrom DEF Base, WaitForLock
  <2> HIDE DEF r
  <2>5. PlaceOf(k)' /\ RowOf(k)'
    BY <1>1, <2>1, <2>2, RowStays, KindOfTask DEF PlaceOf, WaitForLock
  <2>6. Base'
    BY <1>1, <2>2, <2>3, <2>4, <2>5, OneTaskMoves DEF WaitForLock
  <2> QED  BY <1>1, <2>1, <2>2, <2>6
<1>4. CASE Leave(k, "undo") /\ UNCHANGED lock
  <2>1. /\ task' \in [Tasks -> TaskRec] /\ task'[k].at = "undo" /\ "undo" \in Places
        /\ \A y \in Tasks \ {k} : task'[y] = task[y]
    BY <1>4, LeaveType DEF Base, Places
  <2>2. TypeInv'
    BY <1>4, <2>1, TypesNow, TypesFrom DEF Base, WaitForLock
  <2>3. PlaceOf(k)'
    BY <1>1, <2>1, KindOfTask DEF PlaceOf
  <2>4. Base'
    BY <1>1, <1>4, <2>1, <2>2, <2>3, RowStays, MovesOut DEF Holding, WaitForLock
  <2> QED  BY <1>1, <2>1, <2>4
<1> QED  BY <1>3, <1>4 DEF WaitForLock, c

LEMMA ClearJobRowsStep ==
  ASSUME Base, NEW k \in Tasks, ClearJobRows(k)
  PROVE  /\ Base' /\ k \in ClearJobs /\ task[k].at = "wait" /\ task'[k].at = "delete"
         /\ task'[k].items = task[k].items
         /\ \A y \in Tasks \ {k} : task'[y] = task[y]
         /\ \A j \in ClearJobs : wikiJobs'[j] = wikiJobs[j]
<1>1. task[k].at = "wait" /\ k \in ClearJobs /\ k \in Jobs /\ InJob(k) /\ k \notin UpdateJobs
  BY KindOfTask DEF Base, PlaceInv, PlaceOf, ClearJobRows, At, InJob
<1>2. /\ wikiJobs' = [j \in DOMAIN wikiJobs |->
           IF j \in UpdateJobs /\ wikiJobs[j].status # "none"
           THEN GoneRow(j) ELSE wikiJobs[j]]
      /\ reconcile' = {} /\ GoTo(k, "delete")
  BY DEF ClearJobRows, DropJobs, GoneRow
<1>3. wikiJobs \in [Jobs -> JobRec] /\ DOMAIN wikiJobs = Jobs
  BY TypesNow DEF Base
<1>4. \A j \in Jobs : GoneRow(j) \in JobRec
  BY <1>3 DEF GoneRow, JobRec, JobStates
<1>5. /\ wikiJobs' \in [Jobs -> JobRec]
      /\ \A j \in Jobs : \/ wikiJobs'[j] = wikiJobs[j]
                         \/ j \in UpdateJobs /\ wikiJobs'[j] = GoneRow(j) /\ wikiJobs[j].status # "none"
      /\ \A j \in ClearJobs : wikiJobs'[j] = wikiJobs[j]
  BY <1>2, <1>3, <1>4, KindOfTask
<1>6. /\ task' \in [Tasks -> TaskRec] /\ task'[k].at = "delete" /\ task'[k].items = task[k].items
      /\ task'[k].conv = task[k].conv
      /\ \A y \in Tasks \ {k} : task'[y] = task[y]
  BY <1>2, GoToType DEF Base, Places
<1>7. TypeInv'
  BY <1>2, <1>5, <1>6, TypesNow, TypesFrom DEF Base, ClearJobRows
<1>8. PlaceOf(k)'
  BY <1>1, <1>6, KindOfTask DEF PlaceOf
<1>9. RowOf(k)'
  BY <1>1, <1>5, <1>6 DEF Base, RowInv, RowOf, InJob, At
<1>10. Base'
  BY <1>1, <1>5, <1>6, <1>7, <1>8, <1>9, OneTaskMoves DEF ClearJobRows
<1> QED  BY <1>1, <1>5, <1>6, <1>10

(* How tasks end.                                                          *)
LEMMA FinishStep ==
  ASSUME Base, NEW j \in Tasks, Finish(j)
  PROVE  /\ Base' /\ j \in Jobs /\ task[j].at = "finish"
         /\ task'[j].at = IF j \in UpdateJobs THEN "unlock" ELSE "idle"
         /\ \A y \in Tasks \ {j} : task'[y] = task[y]
         /\ \A i \in Jobs \ {j} : wikiJobs'[i] = wikiJobs[i]
         /\ wikiJobs'[j].listed = wikiJobs[j].listed
<1> DEFINE place == IF j \in UpdateJobs THEN "unlock" ELSE "idle"
<1>1. task[j].at = "finish" /\ j \in Jobs /\ InJob(j) /\ Leave(j, place) /\ place \in Places
  BY KindOfTask DEF Base, PlaceInv, PlaceOf, Finish, At, InJob, Places
<1>2. /\ task' \in [Tasks -> TaskRec] /\ task'[j].at = place
      /\ \A y \in Tasks \ {j} : task'[y] = task[y]
  BY <1>1, LeaveType DEF Base
<1>3. /\ wikiJobs' \in [Jobs -> JobRec] /\ \A i \in Jobs \ {j} : wikiJobs'[i] = wikiJobs[i]
      /\ wikiJobs'[j].status = IF wikiJobs[j].status = "gone" THEN "gone" ELSE "succeeded"
      /\ wikiJobs'[j].attempts = wikiJobs[j].attempts /\ wikiJobs'[j].conv = wikiJobs[j].conv
      /\ wikiJobs'[j].listed = wikiJobs[j].listed
  BY <1>1, SetJobType DEF Finish, Base, JobStates
<1>4. TypeInv'
  BY <1>2, <1>3, TypesNow, TypesFrom DEF Base, Finish
<1>5. PlaceOf(j)' /\ RowOf(j)'
  BY <1>1, <1>2, <1>3, KindOfTask DEF PlaceOf, Base, RowInv, RowOf, InJob, At
<1>6. Base'
  BY <1>1, <1>3, <1>4, <1>5, MovesOut DEF Holding, Finish
<1> QED  BY <1>1, <1>2, <1>3, <1>6

LEMMA FailJobStep ==
  ASSUME Base, NEW j \in Tasks, FailJob(j)
  PROVE  /\ Base' /\ j \in Jobs /\ task[j].at = "fail"
         /\ task'[j].at = IF j \in UpdateJobs THEN "unlock" ELSE "idle"
         /\ \A y \in Tasks \ {j} : task'[y] = task[y]
         /\ \A i \in Jobs \ {j} : wikiJobs'[i] = wikiJobs[i]
         /\ wikiJobs'[j].listed = wikiJobs[j].listed
         /\ wikiJobs'[j].status = "succeeded" => wikiJobs[j].status = "succeeded"
<1> DEFINE place == IF j \in UpdateJobs THEN "unlock" ELSE "idle"
           status == IF wikiJobs[j].attempts + 1 >= WikiAttempts THEN "failed" ELSE "queued"
           w == [wikiJobs[j] EXCEPT !.attempts = @ + 1, !.status = status]
<1>1. task[j].at = "fail" /\ j \in Jobs /\ InJob(j) /\ Leave(j, place) /\ place \in Places
  BY KindOfTask DEF Base, PlaceInv, PlaceOf, FailJob, At, InJob, Places
<1>2. /\ task' \in [Tasks -> TaskRec] /\ task'[j].at = place
      /\ \A y \in Tasks \ {j} : task'[y] = task[y]
  BY <1>1, LeaveType DEF Base
<1>3. wikiJobs[j] \in JobRec /\ RowOf(j)
  BY <1>1, TypesNow DEF Base, RowInv
<1>4. CASE UNCHANGED wikiJobs
  <2>1. TypeInv'
    BY <1>2, <1>4, TypesNow, TypesFrom DEF Base, FailJob
  <2>2. PlaceOf(j)' /\ RowOf(j)'
    BY <1>1, <1>2, <1>4, RowStays, KindOfTask DEF PlaceOf
  <2>3. Base'
    BY <1>1, <1>4, <2>1, <2>2, MovesOut DEF Holding, FailJob
  <2> QED  BY <1>1, <1>2, <1>4, <2>3
<1>5. CASE wikiJobs[j].status # "gone" /\ wikiJobs' = [wikiJobs EXCEPT ![j] = w]
  <2>1. wikiJobs[j].status = "running" /\ wikiJobs[j].attempts < WikiAttempts
    BY <1>1, <1>3, <1>5 DEF RowOf
  <2>0. /\ wikiJobs[j].attempts \in 0 .. WikiAttempts /\ WikiAttempts \in Nat
        /\ wikiJobs[j].attempts + 1 \in 0 .. WikiAttempts /\ status \in JobStates
    <3>1. wikiJobs[j].attempts \in 0 .. WikiAttempts /\ WikiAttempts \in Nat
      BY <1>3, WikiAssumption DEF JobRec
    <3> QED  BY <3>1, <2>1 DEF JobStates
  <2>9. status \in {"failed", "queued"}
    OBVIOUS
  <2> HIDE DEF status
  <2>2. w \in JobRec /\ w.listed = wikiJobs[j].listed /\ w.status = status
        /\ w.attempts = wikiJobs[j].attempts + 1 /\ w.conv = wikiJobs[j].conv
    BY <1>3, <2>0 DEF JobRec
  <2>3. /\ wikiJobs' \in [Jobs -> JobRec] /\ wikiJobs'[j] = w
        /\ \A i \in Jobs \ {j} : wikiJobs'[i] = wikiJobs[i]
    BY <1>1, <1>5, <2>2, TypesNow DEF Base
  <2> HIDE DEF w
  <2>4. TypeInv'
    BY <1>2, <2>3, TypesNow, TypesFrom DEF Base, FailJob
  <2>5. PlaceOf(j)'
    BY <1>1, <1>2, KindOfTask DEF PlaceOf
  <2>6. status = "queued" => wikiJobs[j].attempts + 1 < WikiAttempts
    BY <2>0 DEF status
  <2>7. RowOf(j)'
    BY <1>1, <1>2, <1>3, <2>1, <2>2, <2>3, <2>6, <2>9, KindOfTask DEF RowOf, InJob, At
  <2>8. Base'
    BY <1>1, <2>3, <2>4, <2>5, <2>7, MovesOut DEF Holding, FailJob
  <2> QED  BY <1>1, <1>2, <2>2, <2>3, <2>8, <2>9
<1>6. \/ UNCHANGED wikiJobs
      \/ wikiJobs[j].status # "gone" /\ wikiJobs' = [wikiJobs EXCEPT ![j] = w]
  BY <1>3, TypesNow DEF FailJob, Base
<1> QED  BY <1>4, <1>5, <1>6

LEMMA GiveBackStep ==
  ASSUME Base, NEW x \in Tasks, GiveBack(x)
  PROVE  /\ Base' /\ task[x].at \in {"unlock", "undo"}
         /\ task'[x].at \in {"idle", "fail", "finish", "over"}
         /\ x \in ClearJobs => task'[x].at \in {"fail", "finish"}
         /\ x \in ClearJobs /\ task'[x].at = "finish" => task[x].at = "unlock"
         /\ \A y \in Tasks \ {x} : task'[y] = task[y]
<1> DEFINE place == IF x \in UpdateJobs THEN "idle"
                    ELSE IF x \in ClearJobs THEN (IF At(x, "undo") THEN "fail" ELSE "finish")
                    ELSE "over"
<1>1. task[x].at \in {"unlock", "undo"} /\ Leave(x, place) /\ place \in Places
  <2>1. (CASE x \in UpdateJobs -> "idle"
           [] x \in ClearJobs -> IF At(x, "undo") THEN "fail" ELSE "finish"
           [] OTHER -> "over") = place
    BY KindOfTask
  <2> QED  BY <2>1 DEF GiveBack, Places
<1>2. /\ task' \in [Tasks -> TaskRec] /\ task'[x].at = place
      /\ \A y \in Tasks \ {x} : task'[y] = task[y]
  BY <1>1, LeaveType DEF Base
<1>3. lock' = [c \in Convs |-> IF lock[c] = x THEN Nobody ELSE lock[c]]
  BY DEF GiveBack, Unlock
<1>4. /\ lock' \in [Convs -> Tasks \cup {Nobody}]
      /\ \A y \in Tasks \ {x}, c \in Convs : lock[c] = y => lock'[c] = y
  BY <1>3, TypesNow DEF Base
<1>5. TypeInv'
  BY <1>2, <1>4, TypesNow, TypesFrom DEF Base, GiveBack
<1>6. PlaceOf(x)'
  BY <1>1, <1>2, KindOfTask DEF PlaceOf, Base, PlaceInv
<1>7. x \in Jobs => RowOf(x)'
  <2> HAVE x \in Jobs
  <2>1. UNCHANGED wikiJobs /\ RowOf(x) /\ PlaceOf(x)
    BY DEF GiveBack, Base, RowInv, PlaceInv
  <2> QED  BY <1>1, <1>2, <2>1, KindOfTask DEF RowOf, InJob, At, PlaceOf
<1>8. Base'
  BY <1>1, <1>4, <1>5, <1>6, <1>7, MovesOut DEF Holding, GiveBack
<1> QED  BY <1>1, <1>2, <1>8, KindOfTask DEF At

LEMMA NoConnectionStep ==
  ASSUME Base, NEW x \in Tasks, NoConnection(x)
  PROVE  /\ Base' /\ task'[x].at \in {"fail", "undo", "over", "unlock"}
         /\ x \in ClearJobs => task'[x].at \in {"fail", "undo"}
         /\ \A y \in Tasks \ {x} : task'[y] = task[y]
<1>1. task[x].at \in {"claimed", "pages", "turns", "write", "index", "list", "delete",
                      "finish", "wait"}
      /\ Leave(x, BrokenOff(x)) /\ InJob(x)
  BY DEF NoConnection, InJob, At
<1>2. /\ task' \in [Tasks -> TaskRec] /\ task'[x].at = BrokenOff(x)
      /\ \A y \in Tasks \ {x} : task'[y] = task[y]
  BY <1>1, LeaveType, BrokenOffType DEF Base
<1>3. TypeInv'
  BY <1>2, TypesNow, TypesFrom DEF Base, NoConnection
<1>4. Base'
  BY <1>1, <1>3, BrokenOffPlace DEF NoConnection, At
<1> QED  BY <1>1, <1>2, <1>4, KindOfTask DEF BrokenOff, At

LEMMA CrashStep ==
  ASSUME Base, WikiCrash
  PROVE  /\ Base' /\ \A x \in Tasks : task'[x].at \in {"idle", "over"}
<1>1. \A x \in Tasks : task[x] \in TaskRec
  BY TypesNow DEF Base
<1>2. [Rest EXCEPT !.at = "idle"] \in TaskRec /\ [Rest EXCEPT !.at = "over"] \in TaskRec
      /\ [Rest EXCEPT !.at = "idle"].at = "idle" /\ [Rest EXCEPT !.at = "over"].at = "over"
  BY RestType DEF TaskRec, Places
<1>3. \A x \in Tasks :
        task'[x] = IF task[x].at \in {"idle", "over"} THEN task[x]
                   ELSE IF x \in Requests THEN [Rest EXCEPT !.at = "over"]
                   ELSE [Rest EXCEPT !.at = "idle"]
  BY DEF WikiCrash, Requests
<1>4. task' \in [Tasks -> TaskRec] /\ \A x \in Tasks : task'[x].at \in {"idle", "over"}
  <2>1. \A x \in Tasks : task'[x] \in TaskRec /\ task'[x].at \in {"idle", "over"}
    BY <1>1, <1>2, <1>3
  <2> QED  BY <2>1 DEF WikiCrash
<1>5. lock' \in [Convs -> Tasks \cup {Nobody}] /\ wikiFaults' \in 0 .. MaxWikiFaults
  BY FaultType DEF Base, WikiCrash
<1>6. TypeInv'
  BY <1>4, <1>5, TypesNow, TypesFrom DEF Base, WikiCrash
<1>7. \A x \in Jobs : task'[x].at = "idle"
  BY <1>2, <1>3, KindOfTask DEF Base, PlaceInv, PlaceOf
<1>8. RowInv'
  BY <1>7 DEF Base, RowInv, RowOf, InJob, At, WikiCrash
<1>9. PlaceInv'
  BY <1>4, <1>7, KindOfTask DEF PlaceInv, PlaceOf
<1>10. LockInv'
  BY <1>4 DEF LockInv, LockOf, Holding
<1> QED  BY <1>4, <1>6, <1>8, <1>9, <1>10 DEF Base

-----------------------------------------------------------------------------
(* Together: types, rows, places and locks hold throughout.                *)
LEMMA BaseInit == WikiInit => Base
<1> SUFFICES ASSUME WikiInit PROVE Base
  OBVIOUS
<1>1. page \in [Convs -> Pages] /\ wikiJobs \in [Jobs -> JobRec] /\ task \in [Tasks -> TaskRec]
  <2>1. NewJob \in JobRec
    BY WikiAssumption DEF NewJob, JobRec, JobStates
  <2> QED  BY <2>1, RestType DEF WikiInit, Jobs
<1>2. /\ turns \in [Turns -> {"none", "row", "saved", "gone"}]
      /\ lock \in [Convs -> Tasks \cup {Nobody}] /\ wikiFaults \in 0 .. MaxWikiFaults
      /\ pool \in Pools /\ reconcile = {} /\ everRead = {} /\ pruned = {}
  BY WikiAssumption DEF WikiInit
<1>3. TypeInv
  BY <1>1, <1>2 DEF TypeInv, WikiTypeOK, JobRec, TaskRec, Jobs
<1>4. \A x \in Tasks : task[x].at = "idle"
  BY DEF WikiInit, Rest
<1>5. \A j \in Jobs : wikiJobs[j].status = "none" /\ wikiJobs[j].attempts = 0
  BY DEF WikiInit, NewJob, Jobs
<1>6. RowInv
  <2>1. 0 < WikiAttempts
    BY WikiAssumption
  <2> QED  BY <1>4, <1>5, <2>1, KindOfTask DEF RowInv, RowOf, InJob, At
<1>7. PlaceInv /\ LockInv
  BY <1>4 DEF PlaceInv, PlaceOf, LockInv, LockOf, Holding
<1> QED  BY <1>3, <1>6, <1>7 DEF Base

LEMMA BaseStep ==
  ASSUME Base, [WikiNext]_wvars
  PROVE  Base'
<1>1. CASE UNCHANGED wvars
  BY <1>1 DEF wvars, Base, TypeInv, WikiTypeOK, RowInv, RowOf, InJob, PlaceInv, PlaceOf,
              LockInv, LockOf, At
<1>2. ASSUME NEW x \in Tasks, WikiStep(x) PROVE Base'
  BY <1>2, LockingStep, ReadPagesStep, ReadTurnsStep, AskModelStep, WritePageStep, KeepPageStep,
     IndexPageStep, ListPrunableStep, DeleteItemStep, AllDeletedStep, ListCollectionStep,
     WaitForLockStep, ClearJobRowsStep, FinishStep, FailJobStep, GiveBackStep, NoConnectionStep
  DEF WikiStep
<1>3. CASE \E t \in Turns : WriteTurn(t) \/ SaveText(t) \/ ExpireTurn(t)
  BY <1>3, TurnSteps
<1>4. CASE \E c \in Convs : \E j \in UpdateJobs : RequestUpdate(j, c)
  BY <1>4, RequestSteps, KindOfTask
<1>5. CASE \E c \in Convs : \E x \in Edits \cup Removals : RequestPage(x, c)
  BY <1>5, RequestPageStep DEF Requests
<1>6. CASE \E j \in ClearJobs : RequestClear(j)
  BY <1>6, RequestSteps, KindOfTask
<1>7. CASE \E j \in UpdateJobs \cup ClearJobs : ClaimWikiJob(j)
  BY <1>7, ClaimStep DEF Jobs
<1>8. CASE \E i \in reconcile : Reconcile(i)
  BY <1>8, ReconcileStep
<1>9. CASE WikiCrash
  BY <1>9, CrashStep
<1> QED  BY <1>1, <1>2, <1>3, <1>4, <1>5, <1>6, <1>7, <1>8, <1>9 DEF WikiNext

(* WikiTypeOK, the type invariant of the run wiki: in particular no job is *)
(* tried more often than WikiAttempts (FailJob), and nobody deletes or     *)
(* prunes what is not a turn or an article.                                *)
THEOREM WikiTypesAreRight == WikiSpec => []WikiTypeOK
<1>1. Base => WikiTypeOK
  BY DEF Base, TypeInv
<1> QED  BY <1>1, BaseInit, BaseStep, PTL DEF WikiSpec

-----------------------------------------------------------------------------
(* Articles only grow.                                                     *)
Busy == {"turns", "model", "write", "index", "list", "delete"}

(* A step after which no update or request is further in its work.         *)
Quiet ==
  /\ UNCHANGED <<turns, page, everRead, pruned>>
  /\ \A x \in Tasks \ ClearJobs : task'[x] = task[x] \/ task'[x].at \notin Busy

QuietStep(x) ==
  \/ Locking(x) \/ AllDeleted(x) \/ ListCollection(x) \/ WaitForLock(x) \/ ClearJobRows(x)
  \/ Finish(x) \/ FailJob(x) \/ GiveBack(x) \/ NoConnection(x)

LEMMA QuietTasks ==
  ASSUME Base, NEW x \in Tasks, QuietStep(x)
  PROVE  Quiet
<1>1. UNCHANGED <<turns, page, everRead, pruned>>
  BY DEF QuietStep, Locking, AllDeleted, ListCollection, WaitForLock, ClearJobRows, Finish,
         FailJob, GiveBack, NoConnection
<1>2. \A y \in Tasks \ {x} : task'[y] = task[y]
  BY LockingStep, AllDeletedStep, ListCollectionStep, WaitForLockStep, ClearJobRowsStep,
     FinishStep, FailJobStep, GiveBackStep, NoConnectionStep DEF QuietStep
<1>3. x \in ClearJobs \/ task'[x].at \notin Busy
  BY LockingStep, AllDeletedStep, ListCollectionStep, WaitForLockStep, ClearJobRowsStep,
     FinishStep, FailJobStep, GiveBackStep, NoConnectionStep DEF QuietStep, Busy
<1> QED  BY <1>1, <1>2, <1>3 DEF Quiet

QuietRequest ==
  \/ \E c \in Convs : \E j \in UpdateJobs : RequestUpdate(j, c)
  \/ \E c \in Convs : \E x \in Edits \cup Removals : RequestPage(x, c)
  \/ \E j \in ClearJobs : RequestClear(j)
  \/ \E j \in UpdateJobs \cup ClearJobs : ClaimWikiJob(j)
  \/ WikiCrash

LEMMA QuietRequests ==
  ASSUME Base, QuietRequest
  PROVE  Quiet
<1>1. CASE \E c \in Convs : \E j \in UpdateJobs : RequestUpdate(j, c)
  BY <1>1, RequestSteps, KindOfTask DEF Quiet
<1>2. CASE \E c \in Convs : \E x \in Edits \cup Removals : RequestPage(x, c)
  <2> PICK c \in Convs, x \in Requests : RequestPage(x, c)
    BY <1>2 DEF Requests
  <2> QED  BY RequestPageStep DEF Quiet, Busy, RequestPage
<1>3. CASE \E j \in ClearJobs : RequestClear(j)
  BY <1>3, RequestSteps, KindOfTask DEF Quiet
<1>4. CASE \E j \in UpdateJobs \cup ClearJobs : ClaimWikiJob(j)
  <2> PICK j \in Jobs : ClaimWikiJob(j)
    BY <1>4 DEF Jobs
  <2> QED  BY ClaimStep DEF Quiet, Busy, ClaimWikiJob
<1>5. CASE WikiCrash
  BY <1>5, CrashStep DEF Quiet, Busy, WikiCrash
<1> QED  BY <1>1, <1>2, <1>3, <1>4, <1>5 DEF QuietRequest

(* Every step is one of these.                                             *)
LEMMA StepKinds ==
  ASSUME [WikiNext]_wvars
  PROVE  \/ UNCHANGED wvars
         \/ \E t \in Turns : WriteTurn(t) \/ SaveText(t) \/ ExpireTurn(t)
         \/ QuietRequest
         \/ \E x \in Tasks : \/ QuietStep(x) \/ ReadPages(x) \/ ReadTurns(x) \/ AskModel(x)
                             \/ WritePage(x) \/ KeepPage(x) \/ IndexPage(x) \/ ListPrunable(x)
                             \/ DeleteItem(x)
         \/ \E i \in reconcile : Reconcile(i)
BY DEF WikiNext, WikiStep, QuietStep, QuietRequest

(* Nobody else works on the conversation of who holds its lock.            *)
LEMMA OwnConversation ==
  ASSUME Base, NEW x \in Tasks \ ClearJobs, NEW y \in Tasks \ ClearJobs, x # y,
         task[x].at \in Holding, task[y].at \in Holding
  PROVE  task[x].conv # task[y].conv
BY DEF Base, LockInv, LockOf

SeenOf(x) ==
  task[x].at \in {"turns", "model", "write"} /\ page[task[x].conv].there
    => page[task[x].conv] = task[x].seen

(* A step that leaves the articles others work on as they are, or without. *)
LEMMA SeenByOthers ==
  ASSUME Base, SeenInv, NEW y \in Tasks \ ClearJobs, task'[y] = task[y],
         task[y].at \in Holding => \/ page'[task[y].conv] = page[task[y].conv]
                                   \/ ~page'[task[y].conv].there
  PROVE  SeenOf(y)'
BY DEF SeenInv, SeenOf, Holding

LEMMA SeenStep ==
  ASSUME Base, SeenInv, [WikiNext]_wvars
  PROVE  SeenInv'
<1> SUFFICES \A y \in Tasks \ ClearJobs : SeenOf(y)'
  BY DEF SeenInv, SeenOf
<1>1. CASE UNCHANGED wvars
  BY <1>1, SeenByOthers DEF wvars
<1>2. CASE \E t \in Turns : WriteTurn(t) \/ SaveText(t) \/ ExpireTurn(t)
  BY <1>2, SeenByOthers DEF WriteTurn, SaveText, ExpireTurn
<1>3. CASE Quiet
  BY <1>3, SeenByOthers DEF Quiet, Busy, SeenOf
<1>4. ASSUME NEW x \in Tasks, ReadPages(x) PROVE \A y \in Tasks \ ClearJobs : SeenOf(y)'
  <2>1. UNCHANGED page
    BY <1>4 DEF ReadPages
  <2>2. SeenOf(x)'
    BY <1>4, <2>1, ReadPagesStep DEF SeenOf
  <2> QED  BY <1>4, <2>1, <2>2, ReadPagesStep, SeenByOthers
<1>5. ASSUME NEW x \in Tasks, ReadTurns(x) PROVE \A y \in Tasks \ ClearJobs : SeenOf(y)'
  <2>1. UNCHANGED page /\ task[x].at = "turns" /\ x \in Tasks \ ClearJobs
    BY <1>5, ReadTurnsStep, KindOfTask DEF ReadTurns, At
  <2>2. SeenOf(x)'
    BY <1>5, <2>1, ReadTurnsStep DEF SeenOf, SeenInv
  <2> QED  BY <1>5, <2>1, <2>2, ReadTurnsStep, SeenByOthers
<1>6. ASSUME NEW x \in Tasks, AskModel(x) PROVE \A y \in Tasks \ ClearJobs : SeenOf(y)'
  <2>1. UNCHANGED page /\ x \in Tasks \ ClearJobs
    BY <1>6, AskModelStep, KindOfTask DEF AskModel
  <2>2. SeenOf(x)'
    BY <1>6, <2>1, AskModelStep DEF SeenOf, SeenInv
  <2> QED  BY <1>6, <2>1, <2>2, AskModelStep, SeenByOthers
<1>7. ASSUME NEW x \in Tasks, WritePage(x) PROVE \A y \in Tasks \ ClearJobs : SeenOf(y)'
  <2>1. x \in Tasks \ ClearJobs /\ task[x].at = "write" /\ task'[x].at = "index"
    BY <1>7, WritePageStep, KindOfTask DEF WritePage, At
  <2>2. SeenOf(x)'
    BY <2>1 DEF SeenOf
  <2>3. ASSUME NEW y \in Tasks \ ClearJobs, y # x PROVE SeenOf(y)'
    <3>1. task[y].at \in Holding => task[y].conv \in Convs /\ task[y].conv # task[x].conv
      BY <2>1, <2>3, OwnConversation DEF Holding, Base, LockInv, LockOf
    <3> QED  BY <1>7, <2>3, <3>1, WritePageStep, SeenByOthers
  <2> QED  BY <2>2, <2>3
<1>8. ASSUME NEW x \in Tasks, KeepPage(x) PROVE \A y \in Tasks \ ClearJobs : SeenOf(y)'
  <2>1. UNCHANGED page
    BY <1>8 DEF KeepPage
  <2>2. SeenOf(x)'
    BY <1>8, KeepPageStep DEF SeenOf
  <2> QED  BY <1>8, <2>1, <2>2, KeepPageStep, SeenByOthers
<1>9. ASSUME NEW x \in Tasks, IndexPage(x) PROVE \A y \in Tasks \ ClearJobs : SeenOf(y)'
  <2>1. x \in Tasks \ ClearJobs /\ task[x].at = "index"
    BY <1>9, KindOfTask DEF IndexPage, At, Base, PlaceInv, PlaceOf
  <2>2. SeenOf(x)'
    BY <1>9, IndexPageStep DEF SeenOf
  <2>3. ASSUME NEW y \in Tasks \ ClearJobs, y # x PROVE SeenOf(y)'
    <3>1. task[y].at \in Holding => task[y].conv \in Convs /\ task[y].conv # task[x].conv
      BY <2>1, <2>3, OwnConversation DEF Holding, Base, LockInv, LockOf
    <3> QED  BY <1>9, <2>3, <3>1, IndexPageStep, SeenByOthers
  <2> QED  BY <2>2, <2>3
<1>10. ASSUME NEW x \in Tasks, ListPrunable(x) PROVE \A y \in Tasks \ ClearJobs : SeenOf(y)'
  <2>1. UNCHANGED page
    BY <1>10 DEF ListPrunable
  <2>2. SeenOf(x)'
    BY <1>10, ListPrunableStep DEF SeenOf
  <2> QED  BY <1>10, <2>1, <2>2, ListPrunableStep, SeenByOthers
<1>11. ASSUME NEW i \in Items, Erase(i)
       PROVE  \A c \in Convs : page'[c] = page[c] \/ ~page'[c].there
  <2>1. TypeInv
    BY DEF Base
  <2>2. ASSUME NEW c \in Convs, page'[c] = NoPage(page[c].born) PROVE ~page'[c].there
    BY <2>2 DEF NoPage
  <2>3. \A c \in Convs : page'[c] = page[c] \/ page'[c] = NoPage(page[c].born)
    BY <1>11, <2>1, EraseType
  <2> QED  BY <2>2, <2>3
<1>12. ASSUME NEW x \in Tasks, DeleteItem(x) PROVE \A y \in Tasks \ ClearJobs : SeenOf(y)'
  <2>1. \A c \in Convs : page'[c] = page[c] \/ ~page'[c].there
    BY <1>11, <1>12, DeleteItemStep
  <2>2. SeenOf(x)'
    BY <1>12, DeleteItemStep DEF SeenOf
  <2>3. ASSUME NEW y \in Tasks \ ClearJobs, y # x PROVE SeenOf(y)'
    <3>1. task[y].at \in Holding => task[y].conv \in Convs
      BY DEF Base, LockInv, LockOf
    <3> QED  BY <1>12, <2>1, <2>3, <3>1, DeleteItemStep, SeenByOthers
  <2> QED  BY <2>2, <2>3
<1>13. ASSUME NEW i \in reconcile, Reconcile(i) PROVE \A y \in Tasks \ ClearJobs : SeenOf(y)'
  <2>1. \A c \in Convs : page'[c] = page[c] \/ ~page'[c].there
    BY <1>11, <1>13, ReconcileStep DEF Reconcile
  <2>2. UNCHANGED task
    BY <1>13 DEF Reconcile
  <2>3. ASSUME NEW y \in Tasks \ ClearJobs PROVE SeenOf(y)'
    <3>1. task[y].at \in Holding => task[y].conv \in Convs
      BY DEF Base, LockInv, LockOf
    <3> QED  BY <2>1, <2>2, <3>1, SeenByOthers
  <2> QED  BY <2>3
<1>14. \/ UNCHANGED wvars
       \/ \E t \in Turns : WriteTurn(t) \/ SaveText(t) \/ ExpireTurn(t)
       \/ Quiet
       \/ \E x \in Tasks : \/ ReadPages(x) \/ ReadTurns(x) \/ AskModel(x)
                           \/ WritePage(x) \/ KeepPage(x) \/ IndexPage(x) \/ ListPrunable(x)
                           \/ DeleteItem(x)
       \/ \E i \in reconcile : Reconcile(i)
  BY StepKinds, QuietTasks, QuietRequests
<1> QED  BY <1>1, <1>2, <1>3, <1>4, <1>5, <1>6, <1>7, <1>8, <1>9, <1>10, <1>12, <1>13, <1>14

(* ArticleGrows, an action property of the run wiki: an article is only    *)
(* overwritten by who has read it, and it is not changed in between.  The  *)
(* advisory lock is what keeps writers apart; a clear holds it as well, and*)
(* a reconcile job or an expiry deletes and never overwrites.              *)
LEMMA GrowsStep ==
  ASSUME Base, SeenInv, [WikiNext]_wvars, NEW c \in Convs
  PROVE  GrowsIn(c)
<1> SUFFICES ASSUME page[c].there, page'[c].there, page[c].born = page'[c].born,
                    [page[c] EXCEPT !.indexed = TRUE] # [page'[c] EXCEPT !.indexed = TRUE]
             PROVE  page'[c].rev = page[c].rev + 1 /\ page[c].read \subseteq page'[c].read
  BY DEF GrowsIn, SameArticle
<1>1. page'[c] # page[c] /\ page[c] \in Pages
  BY TypesNow DEF Base
<1>2. ASSUME NEW x \in Tasks, WritePage(x)
      PROVE  page'[c].rev = page[c].rev + 1 /\ page[c].read \subseteq page'[c].read
  <2>1. c = task[x].conv /\ task[x].at = "write" /\ x \in Tasks \ ClearJobs
    <3>1. \A d \in Convs \ {task[x].conv} : page'[d] = page[d]
      BY <1>2, WritePageStep
    <3>2. x \in Tasks \ ClearJobs
      BY <1>2, WritePageStep, KindOfTask
    <3> QED  BY <1>1, <1>2, <3>1, <3>2 DEF WritePage, At
  <2>2. page[c] = task[x].seen
    BY <2>1 DEF SeenInv
  <2> QED  BY <1>2, <2>1, <2>2, WritePageStep
<1>3. ASSUME NEW x \in Tasks, IndexPage(x) PROVE FALSE
  <2>1. page'[c] = [page[c] EXCEPT !.indexed = page[c].there]
    BY <1>1, <1>3, IndexPageStep
  <2> QED  BY <1>1, <2>1 DEF Pages
<1>4. ASSUME NEW i \in Items, Erase(i) PROVE FALSE
  <2>1. TypeInv
    BY DEF Base
  <2>2. page'[c] = NoPage(page[c].born)
    BY <1>1, <1>4, <2>1, EraseType
  <2> QED  BY <2>2 DEF NoPage
<1>5. \A x \in Tasks : ~DeleteItem(x)
  BY <1>1, <1>4, DeleteItemStep
<1>6. \A i \in reconcile : ~Reconcile(i)
  BY <1>4, ReconcileStep DEF Reconcile
<1>7. page' # page
  BY <1>1
<1>8. \E x \in Tasks : WritePage(x) \/ IndexPage(x)
  BY <1>5, <1>6, <1>7, StepKinds, QuietTasks, QuietRequests
  DEF wvars, WriteTurn, SaveText, ExpireTurn, Quiet, ReadPages, ReadTurns, AskModel, KeepPage,
      ListPrunable
<1> QED  BY <1>2, <1>3, <1>8

LEMMA SeenInit == WikiInit => SeenInv
BY DEF WikiInit, SeenInv, Rest

(* ArticleGrows of the run wiki: as long as an article is there, each      *)
(* version is the next one and knows all that the last one was written     *)
(* from, whoever updates, edits, deletes, expires or dies beside it.       *)
THEOREM ArticlesGrow == WikiSpec => ArticleGrows
<1>1. Base /\ SeenInv /\ [WikiNext]_wvars => Base' /\ SeenInv'
  BY BaseStep, SeenStep
<1>2. Base /\ SeenInv /\ [WikiNext]_wvars => [\A c \in Convs : GrowsIn(c)]_wvars
  BY GrowsStep
<1> QED  BY <1>1, <1>2, BaseInit, SeenInit, PTL DEF WikiSpec, ArticleGrows

-----------------------------------------------------------------------------
(* What is to be deleted was there; turns only move on, and articles are   *)
(* only born anew.                                                         *)
ItemsOf(x) == \A i \in task'[x].items : i \in task[x].items \/ (i \in Items /\ Exists(i))

LEMMA AllItemsExist ==
  /\ \A i \in AllItems : Exists(i)
  /\ \A c \in Convs : page[c].there => Exists(PageItem(c))
  /\ \A c, n : \A t \in Prunable(c, n) : Exists(TurnItem(t))
<1>1. \A c \in Convs : page[c].there => Exists(PageItem(c))
  BY DEF Exists, PageItem
<1>2. \A c : \A t \in StoredTurns(c) : Exists(TurnItem(t))
  BY DEF StoredTurns, Exists, TurnItem
<1>3. \A i \in AllItems : Exists(i)
  BY <1>1, <1>2 DEF AllItems
<1>4. \A c, n : \A t \in Prunable(c, n) : Exists(TurnItem(t))
  BY <1>2 DEF Prunable
<1> QED  BY <1>1, <1>3, <1>4

LEMMA LeaveItems ==
  ASSUME Base, NEW x \in Tasks, NEW place \in Places, Leave(x, place) \/ GoTo(x, place)
  PROVE  ItemsOf(x)
<1>1. TypeInv
  BY DEF Base
<1> QED  BY <1>1, LeaveType, GoToType DEF ItemsOf

LEMMA StepItems ==
  ASSUME Base, NEW x \in Tasks, WikiStep(x)
  PROVE  ItemsOf(x)
<1>1. CASE Locking(x)
  BY <1>1, LeaveItems DEF Locking, TryLock, Places
<1>2. CASE ReadPages(x)
  <2>1. task[x].conv \in Convs
    BY <1>2, ReadPagesStep
  <2>2. task'[x].items = IF x \in Removals /\ page[task[x].conv].there
                         THEN {PageItem(task[x].conv)} ELSE {}
    <3>1. task \in [Tasks -> TaskRec] /\ task[x] \in TaskRec
      BY TypesNow DEF Base
    <3> QED  BY <1>2, <3>1 DEF ReadPages, TaskRec
  <2>3. page[task[x].conv].there => PageItem(task[x].conv) \in Items
    BY <2>1, ItemType, TypesNow DEF Base, Pages
  <2> QED  BY <2>1, <2>2, <2>3, AllItemsExist DEF ItemsOf
<1>3. CASE ReadTurns(x)
  <2> DEFINE c      == task[x].conv
             from   == IF x \in Rebuilds THEN 0 ELSE task[x].seen.checkpoint
             new    == NewTurns(c, from)
             prompt == PromptTurns(c, from)
  <2>1. \/ task' = [task EXCEPT ![x].new = new, ![x].prompt = prompt, ![x].at = "model"]
        \/ Leave(x, "finish")
    BY <1>3 DEF ReadTurns
  <2>2. task \in [Tasks -> TaskRec] /\ task[x] \in TaskRec
    BY TypesNow DEF Base
  <2> HIDE DEF new, prompt
  <2> QED  BY <2>1, <2>2, LeaveItems DEF ItemsOf, Places, TaskRec
<1>4. CASE AskModel(x)
  BY <1>4, LeaveItems DEF AskModel, Places
<1>5. CASE WritePage(x) \/ KeepPage(x)
  BY <1>5, LeaveItems DEF WritePage, KeepPage, Places
<1>6. CASE IndexPage(x)
  <2>1. (IF x \in UpdateJobs THEN "list" ELSE "unlock") \in Places
    BY DEF Places
  <2> QED  BY <1>6, <2>1, BrokenOffType, LeaveItems DEF IndexPage
<1>7. CASE ListPrunable(x)
  <2>1. task'[x].items = {TurnItem(t) : t \in Prunable(task[x].conv, NextCheckpoint(x))}
    BY <1>7, ListPrunableStep
  <2>2. Prunable(task[x].conv, NextCheckpoint(x)) \subseteq Turns
    BY DEF Prunable, StoredTurns
  <2> QED  BY <2>1, <2>2, AllItemsExist, ItemType DEF ItemsOf
<1>8. CASE DeleteItem(x)
  BY <1>8, DeleteItemStep DEF ItemsOf
<1>9. CASE AllDeleted(x)
  <2>1. (IF x \in UpdateJobs THEN "finish" ELSE "unlock") \in Places
    BY DEF Places
  <2> QED  BY <1>9, <2>1, LeaveItems DEF AllDeleted
<1>10. CASE ListCollection(x)
  <2>1. task'[x].items = AllItems
    BY <1>10, ListCollectionStep
  <2> QED  BY <2>1, AllItemsExist, AllItemsType DEF ItemsOf
<1>11. CASE WaitForLock(x)
  <2>1. CASE Leave(x, "undo")
    BY <2>1, LeaveItems DEF Places
  <2>2. CASE ~Leave(x, "undo")
    <3> PICK c : task' = [task EXCEPT ![x].todo = @ \ {c}]
      BY <1>11, <2>2 DEF WaitForLock
    <3>1. task \in [Tasks -> TaskRec] /\ task[x] \in TaskRec
      BY TypesNow DEF Base
    <3> QED  BY <3>1 DEF ItemsOf, TaskRec
  <2> QED  BY <2>1, <2>2
<1>12. CASE ClearJobRows(x)
  BY <1>12, ClearJobRowsStep DEF ItemsOf
<1>13. CASE Finish(x) \/ FailJob(x)
  <2>1. (IF x \in UpdateJobs THEN "unlock" ELSE "idle") \in Places
    BY DEF Places
  <2> QED  BY <1>13, <2>1, LeaveItems DEF Finish, FailJob
<1>14. CASE GiveBack(x)
  <2>1. (CASE x \in UpdateJobs -> "idle"
           [] x \in ClearJobs -> IF At(x, "undo") THEN "fail" ELSE "finish"
           [] OTHER -> "over") \in Places
    BY KindOfTask DEF Places
  <2> QED  BY <1>14, <2>1, LeaveItems DEF GiveBack
<1>15. CASE NoConnection(x)
  BY <1>15, BrokenOffType, LeaveItems DEF NoConnection
<1> QED  BY <1>1, <1>2, <1>3, <1>4, <1>5, <1>6, <1>7, <1>8, <1>9, <1>10, <1>11, <1>12, <1>13,
            <1>14, <1>15 DEF WikiStep

LEMMA StepOthers ==
  ASSUME Base, NEW x \in Tasks, WikiStep(x)
  PROVE  \A y \in Tasks \ {x} : task'[y] = task[y]
BY LockingStep, ReadPagesStep, ReadTurnsStep, AskModelStep, WritePageStep, KeepPageStep,
   IndexPageStep, ListPrunableStep, DeleteItemStep, AllDeletedStep, ListCollectionStep,
   WaitForLockStep, ClearJobRowsStep, FinishStep, FailJobStep, GiveBackStep, NoConnectionStep
DEF WikiStep

(* How turns and births move.                                              *)
MoveTo(old, state) ==
  \A t \in Turns :
    \/ state[t] = old[t]
    \/ old[t] # "none" /\ state[t] = "gone"
    \/ old[t] = "row" /\ state[t] = "saved"
    \/ /\ old[t] = "none" /\ state[t] = "row"
       /\ \A u \in Turns : u < t /\ ConvOf[u] = ConvOf[t] => old[u] \in {"saved", "gone"}

LEMMA EraseMoves ==
  ASSUME Base, NEW i \in Items, WasThere(i), Erase(i)
  PROVE  MoveTo(turns, turns') /\ \A c \in Convs : page'[c].born >= page[c].born
<1>1. TypeInv /\ page \in [Convs -> Pages]
  BY TypesNow DEF Base
<1>2. MoveTo(turns, turns')
  <2>1. ASSUME NEW t \in Turns, i = TurnItem(t) PROVE turns[t] # "none"
    BY <2>1 DEF WasThere, TurnItem
  <2> QED  BY <1>1, <2>1, EraseType DEF MoveTo
<1>3. ASSUME NEW c \in Convs PROVE page'[c].born >= page[c].born
  <2>1. page[c].born \in Nat
    BY <1>1 DEF Pages
  <2>2. NoPage(page[c].born).born = page[c].born
    BY DEF NoPage
  <2> QED  BY <1>1, <2>1, <2>2, EraseType
<1> QED  BY <1>2, <1>3

LEMMA StepMoves ==
  ASSUME Base, ThereInv, [WikiNext]_wvars
  PROVE  MoveTo(turns, turns') /\ \A c \in Convs : page'[c].born >= page[c].born
<1>1. \A c \in Convs : page[c].born \in Nat
  BY TypesNow DEF Base, Pages
<1>2. CASE UNCHANGED <<turns, page>>
  BY <1>1, <1>2 DEF MoveTo
<1>3. ASSUME NEW t \in Turns, WriteTurn(t) \/ SaveText(t) \/ ExpireTurn(t)
      PROVE  MoveTo(turns, turns') /\ \A c \in Convs : page'[c].born >= page[c].born
  <2>1. MoveTo(turns, turns')
    BY <1>3, TypesNow DEF Base, MoveTo, WriteTurn, SaveText, ExpireTurn
  <2> QED  BY <1>1, <1>3, <2>1 DEF WriteTurn, SaveText, ExpireTurn
<1>4. ASSUME NEW x \in Tasks, WritePage(x)
      PROVE  MoveTo(turns, turns') /\ \A c \in Convs : page'[c].born >= page[c].born
  <2>1. UNCHANGED turns
    BY <1>4 DEF WritePage
  <2>2. page'[task[x].conv].born >= page[task[x].conv].born
    BY <1>1, <1>4, WritePageStep
  <2> QED  BY <1>1, <1>4, <2>1, <2>2, WritePageStep DEF MoveTo
<1>5. ASSUME NEW x \in Tasks, IndexPage(x)
      PROVE  MoveTo(turns, turns') /\ \A c \in Convs : page'[c].born >= page[c].born
  <2>1. UNCHANGED turns
    BY <1>5 DEF IndexPage
  <2>2. ASSUME NEW c \in Convs PROVE page'[c].born = page[c].born
    <3>1. page[c] \in Pages
      BY TypesNow DEF Base
    <3>2. page'[c] = page[c] \/ page'[c] = [page[c] EXCEPT !.indexed = page[c].there]
      BY <1>5, IndexPageStep
    <3> QED  BY <3>1, <3>2 DEF Pages
  <2> QED  BY <1>1, <2>1, <2>2 DEF MoveTo
<1>6. ASSUME NEW x \in Tasks, DeleteItem(x)
      PROVE  MoveTo(turns, turns') /\ \A c \in Convs : page'[c].born >= page[c].born
  <2>1. CASE UNCHANGED <<turns, page>>
    BY <1>2, <2>1
  <2>2. CASE ~UNCHANGED <<turns, page>>
    <3>1. PICK i \in task[x].items : Erase(i) /\ i \in Items
      BY <1>6, <2>2, DeleteItemStep
    <3> QED  BY <3>1, EraseMoves DEF ThereInv
  <2> QED  BY <2>1, <2>2
<1>7. ASSUME NEW i \in reconcile, Reconcile(i)
      PROVE  MoveTo(turns, turns') /\ \A c \in Convs : page'[c].born >= page[c].born
  BY <1>7, ReconcileStep, EraseMoves DEF ThereInv, Reconcile
<1>8. \/ UNCHANGED <<turns, page>>
      \/ \E t \in Turns : WriteTurn(t) \/ SaveText(t) \/ ExpireTurn(t)
      \/ \E x \in Tasks : WritePage(x) \/ IndexPage(x) \/ DeleteItem(x)
      \/ \E i \in reconcile : Reconcile(i)
  BY StepKinds, QuietTasks, QuietRequests
  DEF wvars, Quiet, ReadPages, ReadTurns, AskModel, KeepPage, ListPrunable
<1> QED  BY <1>2, <1>3, <1>4, <1>5, <1>6, <1>7, <1>8

(* The order of the turns is kept, and what was there stays so.            *)
LEMMA OrderStays ==
  ASSUME NEW old, NEW state, MoveTo(old, state), Ordered(old)
  PROVE  Ordered(state)
<1> SUFFICES ASSUME NEW t \in Turns, NEW u \in Turns, u < t, ConvOf[u] = ConvOf[t],
                    state[t] # "none"
             PROVE  state[u] \in {"saved", "gone"}
  BY DEF Ordered
<1>1. old[u] \in {"saved", "gone"}
  BY DEF MoveTo, Ordered
<1> QED  BY <1>1 DEF MoveTo

LEMMA OrderStep ==
  ASSUME Base, ThereInv, Ordered(turns), [WikiNext]_wvars
  PROVE  Ordered(turns')
BY StepMoves, OrderStays

LEMMA ThereStays ==
  ASSUME Base, ThereInv, [WikiNext]_wvars, NEW i \in Items, WasThere(i)
  PROVE  WasThere(i)'
<1>1. MoveTo(turns, turns') /\ \A c \in Convs : page'[c].born >= page[c].born
  BY StepMoves
<1>2. CASE i \in {"turn"} \X Turns
  <2>1. i[1] = "turn" /\ i[2] \in Turns
    BY <1>2
  <2> QED  BY <1>1, <2>1 DEF WasThere, MoveTo
<1>3. CASE i \in {"page"} \X Convs \X Nat
  <2>1. i[1] # "turn" /\ i[2] \in Convs /\ i[3] \in Nat
    BY <1>3
  <2>2. page[i[2]].born \in Nat /\ Base'
    BY <2>1, BaseStep, TypesNow DEF Base, Pages
  <2>3. page'[i[2]].born \in Nat
    BY <2>1, <2>2 DEF Base, TypeInv, WikiTypeOK, Pages
  <2> QED  BY <1>1, <2>1, <2>2, <2>3 DEF WasThere
<1> QED  BY <1>2, <1>3 DEF Items

LEMMA ExistsWasThere ==
  ASSUME Base, NEW i \in Items, Exists(i)
  PROVE  WasThere(i)
<1>1. CASE i \in {"turn"} \X Turns
  BY <1>1 DEF Exists, WasThere
<1>2. CASE i \in {"page"} \X Convs \X Nat
  <2>1. i[1] # "turn" /\ i[2] \in Convs /\ i[3] \in Nat
    BY <1>2
  <2>2. page[i[2]].born = i[3]
    BY <2>1 DEF Exists
  <2> QED  BY <2>1, <2>2 DEF WasThere
<1> QED  BY <1>1, <1>2 DEF Items

(* Nothing gets onto a list but what exists.                               *)
LEMMA ListsGrow ==
  ASSUME Base, [WikiNext]_wvars
  PROVE  /\ \A x \in Tasks : ItemsOf(x)
         /\ \A i \in reconcile' : i \in reconcile \/ \E x \in Tasks : i \in task[x].items
         /\ \A j \in Jobs : \A i \in wikiJobs'[j].listed :
              i \in wikiJobs[j].listed \/ (i \in Items /\ Exists(i))
<1>1. CASE UNCHANGED wvars
  BY <1>1 DEF wvars, ItemsOf
<1>2. CASE \E t \in Turns : WriteTurn(t) \/ SaveText(t) \/ ExpireTurn(t)
  BY <1>2 DEF WriteTurn, SaveText, ExpireTurn, ItemsOf
<1>3. CASE \/ \E c \in Convs : \E j \in UpdateJobs : RequestUpdate(j, c)
           \/ \E j \in ClearJobs : RequestClear(j)
  BY <1>3, RequestSteps, KindOfTask DEF ItemsOf
<1>4. CASE \E c \in Convs : \E x \in Edits \cup Removals : RequestPage(x, c)
  <2> PICK c \in Convs, x \in Requests : RequestPage(x, c)
    BY <1>4 DEF Requests
  <2>1. task'[x].items = task[x].items /\ UNCHANGED <<reconcile, wikiJobs>>
    <3>1. task \in [Tasks -> TaskRec] /\ x \in Tasks /\ task[x] \in TaskRec
      BY TypesNow, KindOfTask DEF Base
    <3> QED  BY <3>1 DEF RequestPage, TaskRec
  <2> QED  BY <2>1, RequestPageStep DEF ItemsOf
<1>5. CASE \E j \in UpdateJobs \cup ClearJobs : ClaimWikiJob(j)
  <2> PICK j \in Jobs : ClaimWikiJob(j)
    BY <1>5 DEF Jobs
  <2>1. task'[j].items = {} /\ UNCHANGED reconcile
    <3>1. task \in [Tasks -> TaskRec] /\ j \in Tasks
      BY TypesNow, KindOfTask DEF Base
    <3> QED  BY <3>1 DEF ClaimWikiJob, Rest
  <2> QED  BY <2>1, ClaimStep DEF ItemsOf
<1>6. CASE WikiCrash
  <2>1. \A x \in Tasks : task'[x].items = task[x].items \/ task'[x].items = {}
    BY <1>6 DEF WikiCrash, Rest
  <2> QED  BY <1>6, <2>1 DEF WikiCrash, ItemsOf
<1>7. CASE \E i \in reconcile : Reconcile(i)
  BY <1>7 DEF Reconcile, ItemsOf
<1>8. ASSUME NEW x \in Tasks, WikiStep(x)
      PROVE  /\ \A y \in Tasks : ItemsOf(y)
             /\ \A i \in reconcile' : i \in reconcile \/ \E y \in Tasks : i \in task[y].items
             /\ \A j \in Jobs : \A i \in wikiJobs'[j].listed :
                  i \in wikiJobs[j].listed \/ (i \in Items /\ Exists(i))
  <2>1. \A y \in Tasks : ItemsOf(y)
    BY <1>8, StepItems, StepOthers DEF ItemsOf
  <2>2. \A i \in reconcile' : i \in reconcile \/ i \in task[x].items
    <3>1. CASE DeleteItem(x)
      BY <3>1, DeleteItemStep
    <3>2. CASE ClearJobRows(x)
      BY <3>2 DEF ClearJobRows, DropJobs
    <3>3. CASE ~DeleteItem(x) /\ ~ClearJobRows(x)
      BY <1>8, <3>3 DEF WikiStep, Locking, ReadPages, ReadTurns, AskModel, WritePage, KeepPage,
           IndexPage, ListPrunable, AllDeleted, ListCollection, WaitForLock, Finish, FailJob,
           GiveBack, NoConnection
    <3> QED  BY <3>1, <3>2, <3>3
  <2>3. \A j \in Jobs : \A i \in wikiJobs'[j].listed :
          i \in wikiJobs[j].listed \/ (i \in Items /\ Exists(i))
    <3>1. CASE ListCollection(x)
      BY <3>1, ListCollectionStep, AllItemsExist, AllItemsType
    <3>2. CASE ClearJobRows(x)
      <4>1. wikiJobs \in [Jobs -> JobRec]
        BY TypesNow DEF Base
      <4>2. \A j \in Jobs : wikiJobs'[j].listed = wikiJobs[j].listed
        BY <3>2, <4>1 DEF ClearJobRows, DropJobs, JobRec
      <4> QED  BY <4>2
    <3>3. CASE Finish(x) \/ FailJob(x)
      BY <3>3, FinishStep, FailJobStep
    <3>4. CASE UNCHANGED wikiJobs
      BY <3>4
    <3> QED  BY <1>8, <3>1, <3>2, <3>3, <3>4
      DEF WikiStep, Locking, ReadPages, ReadTurns, AskModel, WritePage, KeepPage,
          IndexPage, ListPrunable, DeleteItem, AllDeleted, WaitForLock, GiveBack, NoConnection
  <2> QED  BY <2>1, <2>2, <2>3
<1> QED  BY <1>1, <1>2, <1>3, <1>4, <1>5, <1>6, <1>7, <1>8 DEF WikiNext

LEMMA ThereStep ==
  ASSUME Base, ThereInv, [WikiNext]_wvars
  PROVE  ThereInv'
<1>1. \A x \in Tasks : \A i \in task[x].items : i \in Items
  BY TypesNow DEF Base, TaskRec
<1>2. \A i \in reconcile : i \in Items
  BY TypesNow DEF Base
<1>3. \A j \in Jobs : \A i \in wikiJobs[j].listed : i \in Items
  BY TypesNow DEF Base, JobRec
<1>4. \A i \in Items : WasThere(i) \/ Exists(i) => WasThere(i)'
  BY ThereStays, ExistsWasThere
<1>5. \A x \in Tasks : \A i \in task'[x].items : WasThere(i)'
  BY <1>1, <1>4, ListsGrow DEF ThereInv, ItemsOf
<1>6. \A i \in reconcile' : WasThere(i)'
  BY <1>1, <1>2, <1>4, ListsGrow DEF ThereInv
<1>7. \A j \in Jobs : \A i \in wikiJobs'[j].listed : WasThere(i)'
  BY <1>3, <1>4, ListsGrow DEF ThereInv
<1> QED  BY <1>5, <1>6, <1>7 DEF ThereInv

-----------------------------------------------------------------------------
(* What is pruned was read.                                                *)
LEMMA CoveredStays ==
  ASSUME NEW old, NEW state, MoveTo(old, state), Ordered(old),
         NEW c, NEW checkpoint, NEW read, NEW more, read \subseteq more,
         Covered(old, c, checkpoint, read)
  PROVE  Covered(state, c, checkpoint, more)
<1> SUFFICES ASSUME checkpoint # 0
             PROVE  /\ checkpoint \in Turns /\ ConvOf[checkpoint] = c
                    /\ state[checkpoint] \in {"saved", "gone"}
                    /\ \A t \in Turns : ConvOf[t] = c /\ t <= checkpoint /\ state[t] = "saved"
                                          => t \in more
  BY DEF Covered
<1>1. /\ checkpoint \in Turns /\ ConvOf[checkpoint] = c /\ old[checkpoint] \in {"saved", "gone"}
      /\ \A t \in Turns : ConvOf[t] = c /\ t <= checkpoint /\ old[t] = "saved" => t \in read
  BY DEF Covered
<1>2. state[checkpoint] \in {"saved", "gone"}
  BY <1>1 DEF MoveTo
<1>3. ASSUME NEW t \in Turns, ConvOf[t] = c, t <= checkpoint, state[t] = "saved"
      PROVE  t \in more
  <2>1. t \in Nat /\ checkpoint \in Nat
    BY <1>1, WikiAssumption
  <2>2. t = checkpoint \/ t < checkpoint
    BY <1>3, <2>1
  <2>3. old[t] \in {"saved", "gone"}
    BY <1>1, <1>3, <2>2 DEF Ordered
  <2>4. old[t] = "saved"
    BY <1>3, <2>3 DEF MoveTo
  <2> QED  BY <1>1, <1>3, <2>4
<1> QED  BY <1>1, <1>2, <1>3

(* A turn that an update of a short conversation passes over had been read *)
(* before: what it reads are all the turns after the last checkpoint.      *)
LEMMA NothingPassedOver ==
  ASSUME ShortConversations, Base, Ordered(turns), NEW c \in Convs, NEW from \in Nat,
         Covered(turns, c, from, everRead), NewTurns(c, from) # {},
         NEW read, everRead \subseteq read, NewTurns(c, from) \subseteq read
  PROVE  Covered(turns, c, Max(NewTurns(c, from)), read)
<1> DEFINE new == NewTurns(c, from)
           m   == Max(new)
<1>1. /\ new \subseteq StoredTurns(c) /\ StoredTurns(c) \subseteq Turns
      /\ \A t \in new : turns[t] = "saved"
  BY DEF NewTurns, WithText, Oldest, Newest, StoredTurns
<1>2. IsFiniteSet(Turns) /\ Turns \subseteq Nat \ {0} /\ MaxSource \in Nat
  BY WikiAssumption
<1>3. m \in new /\ \A t \in new : t <= m
  <2>1. IsFiniteSet(new) /\ new \subseteq Nat
    BY <1>1, <1>2, FS_Subset
  <2> HIDE DEF new
  <2> QED  BY <2>1, MaxIsIn DEF new
<1>4. m \in Turns /\ ConvOf[m] = c /\ turns[m] = "saved"
  BY <1>1, <1>3 DEF StoredTurns
<1>5. ASSUME NEW t \in Turns, ConvOf[t] = c, t <= m, turns[t] = "saved", t \notin everRead
      PROVE  t \in new
  <2>1. t \in StoredTurns(c)
    BY <1>5 DEF StoredTurns
  <2>2. CASE from \in StoredTurns(c)
    <3> DEFINE after == {u \in StoredTurns(c) : u > from}
    <3>1. new = WithText(Oldest(after, MaxSource))
      BY <2>2 DEF NewTurns
    <3>2. from # 0 /\ from \in Nat
      BY <1>2, <2>2 DEF StoredTurns
    <3>3. ~(t <= from) /\ t \in Nat
      BY <1>2, <1>5, <3>2 DEF Covered
    <3>4. t \in after
      BY <2>1, <3>2, <3>3
    <3>5. m \in after /\ Cardinality({u \in after : u < m}) < MaxSource
      BY <1>3, <3>1 DEF WithText, Oldest
    <3>6. {u \in after : u < t} \subseteq {u \in after : u < m}
      <4>1. t \in Nat /\ m \in Nat /\ \A u \in after : u \in Nat
        BY <1>2, <1>4, <1>1
      <4> QED  BY <1>5, <4>1
    <3>7. IsFiniteSet({u \in after : u < m})
      BY <1>1, <1>2, FS_Subset
    <3>8. Cardinality({u \in after : u < t}) < MaxSource
      <4>1. Cardinality({u \in after : u < t}) <= Cardinality({u \in after : u < m})
        BY <3>6, <3>7, FS_Subset
      <4>2. /\ Cardinality({u \in after : u < t}) \in Nat
            /\ Cardinality({u \in after : u < m}) \in Nat
        BY <3>6, <3>7, FS_Subset, FS_CardinalityType
      <4> QED  BY <1>2, <3>5, <4>1, <4>2
    <3> QED  BY <1>5, <3>1, <3>4, <3>8 DEF WithText, Oldest
  <2>3. CASE from \notin StoredTurns(c)
    <3> DEFINE all == {u \in Turns : ConvOf[u] = c}
               later == {u \in StoredTurns(c) : u > t}
    <3>1. new = WithText(Newest(StoredTurns(c), MaxSource))
      BY <2>3 DEF NewTurns
    <3>2. IsFiniteSet(all) /\ Cardinality(all) <= MaxSource
      BY <1>2, FS_Subset DEF ShortConversations
    <3>3. later \subseteq all \ {t} /\ t \in all
      <4>1. \A u \in later : u # t
        BY <1>2
      <4> QED  BY <1>5, <4>1 DEF StoredTurns
    <3>4. IsFiniteSet(all \ {t}) /\ Cardinality(all \ {t}) = Cardinality(all) - 1
      BY <3>2, <3>3, FS_RemoveElement
    <3>5. Cardinality(later) <= Cardinality(all \ {t})
      BY <3>3, <3>4, FS_Subset
    <3>6. Cardinality(later) \in Nat /\ Cardinality(all) \in Nat
      BY <3>2, <3>3, <3>4, FS_Subset, FS_CardinalityType
    <3>7. Cardinality(later) < MaxSource
      BY <1>2, <3>2, <3>4, <3>5, <3>6
    <3> QED  BY <1>5, <2>1, <3>1, <3>7 DEF WithText, Newest
  <2> QED  BY <2>2, <2>3
<1> HIDE DEF new, m
<1>6. Covered(turns, c, m, read)
  BY <1>4, <1>5 DEF Covered, new
<1> QED  BY <1>6 DEF m, new

(* The others keep what they have read, the articles their checkpoints.    *)
LEMMA ReadByOthers ==
  ASSUME Base, MoveTo(turns, turns'), Ordered(turns), everRead \subseteq everRead',
         NEW y \in Tasks, ReadOf(y), task'[y] = task[y]
  PROVE  ReadOf(y)'
<1>1. NextCheckpoint(y)' = NextCheckpoint(y)
  BY DEF NextCheckpoint
<1>2. everRead \cup task[y].prompt \subseteq everRead' \cup task[y].prompt
  OBVIOUS
<1>3. task[y].at \in {"turns", "model", "write"}
        => Covered(turns', task[y].conv, task[y].seen.checkpoint, everRead')
  BY CoveredStays DEF ReadOf
<1>4. task[y].at \in {"model", "write"}
        => Covered(turns', task[y].conv, NextCheckpoint(y), everRead' \cup task[y].prompt)
  BY <1>2, CoveredStays DEF ReadOf
<1>5. task[y].at \in {"index", "list"}
        => Covered(turns', task[y].conv, NextCheckpoint(y), everRead')
  BY CoveredStays DEF ReadOf
<1>6. y \in UpdateJobs /\ task[y].at = "delete" => \A i \in task[y].items : i[2] \in everRead'
  BY DEF ReadOf, At
<1> QED  BY <1>1, <1>3, <1>4, <1>5, <1>6 DEF ReadOf, At

LEMMA CheckpointsStay ==
  ASSUME Base, MoveTo(turns, turns'), Ordered(turns), everRead \subseteq everRead',
         NEW c \in Convs, Covered(turns, c, page[c].checkpoint, everRead),
         page'[c].checkpoint \in {0, page[c].checkpoint}
  PROVE  Covered(turns', c, page'[c].checkpoint, everRead')
<1>1. CASE page'[c].checkpoint = 0
  BY <1>1 DEF Covered
<1>2. CASE page'[c].checkpoint = page[c].checkpoint
  BY <1>2, CoveredStays
<1> QED  BY <1>1, <1>2

(* A step of one task, whatever it is, needs only what it reads itself.    *)
LEMMA ReadByOne ==
  ASSUME Base, MoveTo(turns, turns'), Ordered(turns), ReadInv, UNCHANGED <<page, everRead, pruned>>,
         NEW x \in Tasks, \A y \in Tasks \ {x} : task'[y] = task[y],
         x \notin ClearJobs => ReadOf(x)'
  PROVE  ReadInv'
<1>1. \A c \in Convs : Covered(turns', c, page'[c].checkpoint, everRead')
  BY CheckpointsStay DEF ReadInv
<1>2. \A y \in Tasks \ ClearJobs : ReadOf(y)'
  BY ReadByOthers DEF ReadInv
<1> QED  BY <1>1, <1>2 DEF ReadInv, PrunedWasRead

LEMMA ReadQuiet ==
  ASSUME Base, MoveTo(turns, turns'), Ordered(turns), ReadInv, UNCHANGED <<page, everRead, pruned>>,
         \A y \in Tasks \ ClearJobs : task'[y] = task[y] \/ task'[y].at \notin Busy
  PROVE  ReadInv'
<1>1. \A c \in Convs : Covered(turns', c, page'[c].checkpoint, everRead')
  BY CheckpointsStay DEF ReadInv
<1>2. \A y \in Tasks \ ClearJobs : task'[y].at \notin Busy => ReadOf(y)'
  BY DEF ReadOf, Busy, At
<1>3. \A y \in Tasks \ ClearJobs : ReadOf(y)'
  BY <1>2, ReadByOthers DEF ReadInv
<1> QED  BY <1>1, <1>3 DEF ReadInv, PrunedWasRead

LEMMA ReadAtPages ==
  ASSUME Base, Ordered(turns), ReadInv, NEW x \in Tasks, ReadPages(x), MoveTo(turns, turns')
  PROVE  ReadInv'
<1>1. /\ UNCHANGED <<turns, page, everRead, pruned>> /\ task[x].conv \in Convs
      /\ task'[x].seen = page[task[x].conv] /\ task'[x].conv = task[x].conv
      /\ task'[x].at \in {"turns", "write", "delete"}
      /\ x \in UpdateJobs => task'[x].at = "turns"
      /\ x \notin ClearJobs /\ \A y \in Tasks \ {x} : task'[y] = task[y]
  BY ReadPagesStep, KindOfTask DEF ReadPages
<1>2. Covered(turns, task[x].conv, page[task[x].conv].checkpoint, everRead)
  BY <1>1 DEF ReadInv
<1>3. Covered(turns', task'[x].conv, task'[x].seen.checkpoint, everRead')
  BY <1>1, <1>2
<1>4. task'[x].at = "write" => NextCheckpoint(x)' = task'[x].seen.checkpoint
  BY <1>1 DEF NextCheckpoint
<1>5. Covered(turns', task'[x].conv, task'[x].seen.checkpoint, everRead' \cup task'[x].prompt)
  BY <1>3 DEF Covered
<1>6. ReadOf(x)'
  BY <1>1, <1>3, <1>4, <1>5 DEF ReadOf, At
<1> QED  BY <1>1, <1>6, ReadByOne

LEMMA ReadAtTurns ==
  ASSUME ShortConversations, Base, Ordered(turns), ReadInv, NEW x \in Tasks, ReadTurns(x),
         MoveTo(turns, turns')
  PROVE  ReadInv'
<1>1. /\ UNCHANGED <<turns, page, everRead, pruned>> /\ task[x].conv \in Convs
      /\ x \in UpdateJobs /\ x \notin ClearJobs /\ task[x].at = "turns"
      /\ \A y \in Tasks \ {x} : task'[y] = task[y]
  BY ReadTurnsStep, KindOfTask DEF ReadTurns, At
<1>2. CASE task'[x].at = "finish"
  <2>1. ReadOf(x)'
    BY <1>2 DEF ReadOf, At
  <2> QED  BY <1>1, <2>1, ReadByOne
<1>3. CASE task'[x].at # "finish"
  <2> DEFINE c    == task[x].conv
             from == IF x \in Rebuilds THEN 0 ELSE task[x].seen.checkpoint
             new  == NewTurns(c, from)
             read == everRead \cup PromptTurns(c, from)
  <2>1. /\ task'[x].at = "model" /\ task'[x].conv = c /\ task'[x].seen = task[x].seen
        /\ task'[x].new = new /\ task'[x].prompt = PromptTurns(c, from)
    BY <1>3, ReadTurnsStep
  <2>2. Covered(turns, c, task[x].seen.checkpoint, everRead)
    BY <1>1 DEF ReadInv, ReadOf
  <2>3. Covered(turns, c, from, everRead) /\ from \in Nat
    <3>1. task[x].seen.checkpoint \in Nat
      BY TypesNow DEF Base, TaskRec, Pages
    <3> QED  BY <2>2, <3>1 DEF Covered
  <2>4. everRead \subseteq read /\ new \subseteq read
    BY PromptType
  <2>5. new # {} => Covered(turns, c, Max(new), read)
    <3> HIDE DEF c, from, read
    <3> QED  BY <2>3, <2>4, <1>1, NothingPassedOver DEF c
  <2>6. Covered(turns, c, task[x].seen.checkpoint, read)
    BY <2>2, <2>4 DEF Covered
  <2>7. NextCheckpoint(x)' = IF new # {} THEN Max(new) ELSE task[x].seen.checkpoint
    BY <1>1, <2>1 DEF NextCheckpoint
  <2>8. Covered(turns', task'[x].conv, NextCheckpoint(x)', everRead' \cup task'[x].prompt)
    <3> HIDE DEF new
    <3> QED  BY <1>1, <2>1, <2>5, <2>6, <2>7
  <2>9. Covered(turns', task'[x].conv, task'[x].seen.checkpoint, everRead')
    BY <1>1, <2>1, <2>2
  <2>10. ReadOf(x)'
    BY <2>1, <2>8, <2>9 DEF ReadOf, At
  <2> QED  BY <1>1, <2>10, ReadByOne
<1> QED  BY <1>2, <1>3

LEMMA ReadAtModel ==
  ASSUME Base, Ordered(turns), ReadInv, NEW x \in Tasks, AskModel(x) \/ KeepPage(x),
         MoveTo(turns, turns')
  PROVE  ReadInv'
<1>1. UNCHANGED <<turns, page, everRead, pruned>> /\ x \notin ClearJobs
      /\ \A y \in Tasks \ {x} : task'[y] = task[y]
  BY AskModelStep, KeepPageStep, KindOfTask DEF AskModel, KeepPage
<1>2. ReadOf(x)
  BY <1>1 DEF ReadInv
<1>3. CASE AskModel(x)
  <2>1. task[x].at = "model"
    BY <1>3, AskModelStep
  <2>2. CASE task'[x].at = "fail"
    <3>1. ReadOf(x)'
      BY <2>2 DEF ReadOf, At
    <3> QED  BY <1>1, <3>1, ReadByOne
  <2>3. CASE task'[x].at # "fail"
    <3>1. /\ task'[x].at = "write" /\ task'[x].conv = task[x].conv
          /\ task'[x].seen = task[x].seen /\ task'[x].new = task[x].new
          /\ task'[x].prompt = task[x].prompt
      BY <1>3, <2>3, AskModelStep
    <3>2. NextCheckpoint(x)' = NextCheckpoint(x)
      BY <3>1 DEF NextCheckpoint
    <3>3. ReadOf(x)'
      BY <1>1, <1>2, <2>1, <3>1, <3>2 DEF ReadOf, At
    <3> QED  BY <1>1, <3>3, ReadByOne
  <2> QED  BY <2>2, <2>3
<1>4. CASE KeepPage(x)
  <2>1. /\ task[x].at = "write" /\ task'[x].at = "list" /\ task'[x].conv = task[x].conv
        /\ task'[x].seen = task[x].seen /\ task'[x].new = task[x].new
        /\ task[x].seen.checkpoint = NextCheckpoint(x)
    BY <1>4, KeepPageStep DEF KeepPage
  <2>2. NextCheckpoint(x)' = NextCheckpoint(x)
    BY <2>1 DEF NextCheckpoint
  <2>3. ReadOf(x)'
    BY <1>1, <1>2, <2>1, <2>2 DEF ReadOf, At
  <2> QED  BY <1>1, <2>3, ReadByOne
<1> QED  BY <1>3, <1>4

LEMMA ReadAtWrite ==
  ASSUME Base, Ordered(turns), ReadInv, NEW x \in Tasks, WritePage(x), MoveTo(turns, turns')
  PROVE  ReadInv'
<1>1. /\ UNCHANGED <<turns, pruned>> /\ everRead' = everRead \cup task[x].prompt
      /\ task[x].at = "write" /\ x \in Tasks \ ClearJobs
  BY WritePageStep, KindOfTask DEF WritePage, At
<1>2. Covered(turns, task[x].conv, NextCheckpoint(x), everRead \cup task[x].prompt)
  BY <1>1 DEF ReadInv, ReadOf
<1>3. \A c \in Convs : Covered(turns', c, page'[c].checkpoint, everRead')
  <2> SUFFICES ASSUME NEW c \in Convs PROVE Covered(turns', c, page'[c].checkpoint, everRead')
    OBVIOUS
  <2>1. CASE c = task[x].conv
    <3>1. page'[c].checkpoint = NextCheckpoint(x)
      BY <2>1, WritePageStep
    <3> QED  BY <1>1, <1>2, <2>1, <3>1
  <2>2. CASE c # task[x].conv
    <3>1. page'[c] = page[c]
      BY <2>2, WritePageStep
    <3> QED  BY <1>1, <3>1, CheckpointsStay DEF ReadInv
  <2> QED  BY <2>1, <2>2
<1>4. ReadOf(x)'
  <2>1. task'[x].at = "index" /\ task'[x].conv = task[x].conv
        /\ task'[x].new = task[x].new /\ task'[x].seen = task[x].seen
    BY WritePageStep
  <2>2. NextCheckpoint(x)' = NextCheckpoint(x)
    BY <2>1 DEF NextCheckpoint
  <2> QED  BY <1>1, <1>2, <2>1, <2>2 DEF ReadOf, At
<1>5. \A y \in Tasks \ ClearJobs : ReadOf(y)'
  BY <1>1, <1>4, WritePageStep, ReadByOthers DEF ReadInv
<1> QED  BY <1>1, <1>3, <1>5 DEF ReadInv, PrunedWasRead

LEMMA ReadAtIndex ==
  ASSUME Base, Ordered(turns), ReadInv, NEW x \in Tasks, IndexPage(x), MoveTo(turns, turns')
  PROVE  ReadInv'
<1>1. /\ UNCHANGED <<turns, everRead, pruned>> /\ task[x].at = "index" /\ x \in Tasks \ ClearJobs
      /\ \A y \in Tasks \ {x} : task'[y] = task[y]
  BY IndexPageStep DEF IndexPage, At, Base, PlaceInv, PlaceOf
<1>2. \A c \in Convs : Covered(turns', c, page'[c].checkpoint, everRead')
  <2> SUFFICES ASSUME NEW c \in Convs PROVE Covered(turns', c, page'[c].checkpoint, everRead')
    OBVIOUS
  <2>1. page'[c].checkpoint = page[c].checkpoint
    <3>1. page[c] \in Pages
      BY TypesNow DEF Base
    <3>2. page'[c] = page[c] \/ page'[c] = [page[c] EXCEPT !.indexed = page[c].there]
      BY IndexPageStep
    <3> QED  BY <3>1, <3>2 DEF Pages
  <2> QED  BY <1>1, <2>1, CheckpointsStay DEF ReadInv
<1>3. ReadOf(x)'
  <2>1. CASE task'[x].at = "list"
    <3>1. task'[x].conv = task[x].conv /\ task'[x].new = task[x].new /\ task'[x].seen = task[x].seen
      BY <2>1, IndexPageStep
    <3>2. NextCheckpoint(x)' = NextCheckpoint(x)
      BY <3>1 DEF NextCheckpoint
    <3> QED  BY <1>1, <2>1, <3>1, <3>2 DEF ReadInv, ReadOf, At
  <2>2. CASE task'[x].at # "list"
    BY <2>2, IndexPageStep DEF ReadOf, At
  <2> QED  BY <2>1, <2>2
<1>4. \A y \in Tasks \ ClearJobs : ReadOf(y)'
  BY <1>1, <1>3, ReadByOthers DEF ReadInv
<1> QED  BY <1>1, <1>2, <1>4 DEF ReadInv, PrunedWasRead

LEMMA ReadAtList ==
  ASSUME Base, Ordered(turns), ReadInv, NEW x \in Tasks, ListPrunable(x), MoveTo(turns, turns')
  PROVE  ReadInv'
<1> DEFINE n == NextCheckpoint(x)
           c == task[x].conv
<1>1. /\ UNCHANGED <<turns, page, everRead, pruned>> /\ task[x].at = "list"
      /\ x \in UpdateJobs /\ x \notin ClearJobs /\ task'[x].at = "delete"
      /\ task'[x].items = {TurnItem(t) : t \in Prunable(c, n)}
      /\ \A y \in Tasks \ {x} : task'[y] = task[y]
  BY ListPrunableStep, KindOfTask DEF ListPrunable, At
<1>2. Covered(turns, c, n, everRead)
  BY <1>1 DEF ReadInv, ReadOf
<1> HIDE DEF n, c
<1>3. ASSUME NEW t \in Prunable(c, n) PROVE t \in everRead
  <2>1. /\ n \in StoredTurns(c) /\ t \in StoredTurns(c) /\ t <= n
        /\ n \in Turns /\ t \in Turns /\ ConvOf[t] = c /\ turns[t] \in {"row", "saved"}
    BY <1>3 DEF Prunable, StoredTurns
  <2>2. n # 0 /\ n \in Nat /\ t \in Nat
    BY <2>1, WikiAssumption
  <2>3. turns[t] # "row"
    <3>1. CASE t = n
      BY <1>2, <2>2, <3>1 DEF Covered
    <3>2. CASE t < n
      BY <1>2, <2>1, <2>2, <3>2 DEF Covered, Ordered
    <3> QED  BY <2>1, <2>2, <3>1, <3>2
  <2> QED  BY <1>2, <2>1, <2>2, <2>3 DEF Covered
<1>4. ReadOf(x)'
  BY <1>1, <1>3 DEF ReadOf, At, TurnItem
<1> QED  BY <1>1, <1>4, ReadByOne

LEMMA ReadAtDelete ==
  ASSUME Base, Ordered(turns), ReadInv, NEW x \in Tasks, DeleteItem(x), MoveTo(turns, turns')
  PROVE  ReadInv'
<1>1. /\ UNCHANGED everRead /\ task[x].at = "delete"
      /\ \A y \in Tasks \ {x} : task'[y] = task[y]
  BY DeleteItemStep DEF DeleteItem
<1>2. \A c \in Convs : page'[c].checkpoint \in {0, page[c].checkpoint}
  <2>1. CASE UNCHANGED page
    BY <2>1
  <2>2. CASE ~UNCHANGED page
    <3>1. PICK i \in Items : Erase(i)
      BY <2>2, DeleteItemStep
    <3>2. \A c \in Convs : page'[c] = page[c] \/ page'[c] = NoPage(page[c].born)
      BY <3>1, EraseType DEF Base
    <3>3. \A c \in Convs : page'[c] = NoPage(page[c].born) => page'[c].checkpoint = 0
      <4> TAKE c \in Convs
      <4> HAVE page'[c] = NoPage(page[c].born)
      <4> QED  BY DEF NoPage
    <3> QED  BY <3>2, <3>3
  <2> QED  BY <2>1, <2>2
<1>3. x \notin ClearJobs => ReadOf(x)'
  <2> HAVE x \notin ClearJobs
  <2>1. ReadOf(x)
    BY DEF ReadInv
  <2>2. task'[x].at \in {"fail", "undo", "unlock"}
        \/ (task'[x].at = "delete" /\ task'[x].items \subseteq task[x].items)
    BY DeleteItemStep
  <2> QED  BY <1>1, <2>1, <2>2 DEF ReadOf, At
<1>4. \A y \in Tasks \ ClearJobs : ReadOf(y)'
  BY <1>1, <1>3, ReadByOthers DEF ReadInv
<1>5. \A c \in Convs : Covered(turns', c, page'[c].checkpoint, everRead')
  BY <1>1, <1>2, CheckpointsStay DEF ReadInv
<1>6. PrunedWasRead'
  <2>1. x \in UpdateJobs => \A i \in task[x].items : i[2] \in everRead
    BY <1>1, KindOfTask DEF ReadInv, ReadOf, At
  <2>2. pruned' \subseteq everRead
    BY <2>1, DeleteItemStep DEF ReadInv, PrunedWasRead
  <2> QED  BY <1>1, <2>2 DEF PrunedWasRead
<1> QED  BY <1>4, <1>5, <1>6 DEF ReadInv

LEMMA ReadStep ==
  ASSUME ShortConversations, Base, ThereInv, Ordered(turns), ReadInv, [WikiNext]_wvars
  PROVE  ReadInv'
<1>1. MoveTo(turns, turns')
  BY StepMoves
<1>2. CASE UNCHANGED wvars
  BY <1>1, <1>2, ReadQuiet DEF wvars
<1>3. CASE \E t \in Turns : WriteTurn(t) \/ SaveText(t) \/ ExpireTurn(t)
  BY <1>1, <1>3, ReadQuiet DEF WriteTurn, SaveText, ExpireTurn
<1>4. CASE Quiet
  BY <1>1, <1>4, ReadQuiet DEF Quiet
<1>5. CASE \E i \in reconcile : Reconcile(i)
  <2> PICK i \in reconcile : Reconcile(i)
    BY <1>5
  <2>1. UNCHANGED <<task, everRead, pruned>> /\ Erase(i) /\ i \in Items
    BY ReconcileStep DEF Reconcile
  <2>2. \A c \in Convs : page'[c] = page[c] \/ page'[c] = NoPage(page[c].born)
    BY <2>1, EraseType DEF Base
  <2>3. \A c \in Convs : page'[c].checkpoint \in {0, page[c].checkpoint}
    <3>1. \A c \in Convs : page'[c] = NoPage(page[c].born) => page'[c].checkpoint = 0
      <4> TAKE c \in Convs
      <4> HAVE page'[c] = NoPage(page[c].born)
      <4> QED  BY DEF NoPage
    <3> QED  BY <2>2, <3>1
  <2>4. \A c \in Convs : Covered(turns', c, page'[c].checkpoint, everRead')
    BY <1>1, <2>1, <2>3, CheckpointsStay DEF ReadInv
  <2>5. \A y \in Tasks \ ClearJobs : ReadOf(y)'
    BY <1>1, <2>1, ReadByOthers DEF ReadInv
  <2> QED  BY <2>1, <2>4, <2>5 DEF ReadInv, PrunedWasRead
<1> QED  BY <1>1, <1>2, <1>3, <1>4, <1>5, StepKinds, QuietTasks, QuietRequests, ReadAtPages,
            ReadAtTurns, ReadAtModel, ReadAtWrite, ReadAtIndex, ReadAtList, ReadAtDelete

LEMMA ReadInit == WikiInit => ThereInv /\ Ordered(turns) /\ ReadInv
<1> SUFFICES ASSUME WikiInit PROVE ThereInv /\ Ordered(turns) /\ ReadInv
  OBVIOUS
<1>1. ThereInv
  BY DEF WikiInit, ThereInv, Rest, NewJob, Jobs
<1>2. Ordered(turns)
  BY DEF WikiInit, Ordered
<1>3. \A c \in Convs : page[c].checkpoint = 0
  BY DEF WikiInit, NoPage
<1>4. \A x \in Tasks : task[x].at = "idle"
  BY DEF WikiInit, Rest
<1>5. ReadInv
  BY <1>3, <1>4 DEF WikiInit, ReadInv, ReadOf, PrunedWasRead, Covered, At
<1> QED  BY <1>1, <1>2, <1>5

(* PrunedWasRead, an invariant of the run wiki: an update deletes a turn   *)
(* only after some article was written from it.  Turns are written one     *)
(* after another and a checkpoint moves over nothing unread, so what lies  *)
(* behind one was read, also when turns expire, an article is deleted and  *)
(* written anew, or an update is broken off and tried again.  For          *)
(* conversations that one reading takes as a whole; the code prunes turns  *)
(* of longer ones unread.                                                  *)
THEOREM WhatIsPrunedWasRead == ShortConversations => (WikiSpec => []PrunedWasRead)
<1> SUFFICES ASSUME ShortConversations PROVE WikiSpec => []PrunedWasRead
  OBVIOUS
<1> DEFINE Inv == Base /\ ThereInv /\ Ordered(turns) /\ ReadInv
<1>1. WikiInit => Inv
  BY BaseInit, ReadInit
<1>2. Inv /\ [WikiNext]_wvars => Inv'
  <2> SUFFICES ASSUME Inv, [WikiNext]_wvars PROVE Inv'
    OBVIOUS
  <2>1. Base' /\ ThereInv' /\ Ordered(turns')
    BY BaseStep, ThereStep, OrderStep
  <2>2. ReadInv'
    BY ReadStep
  <2> QED  BY <2>1, <2>2
<1>3. Inv => PrunedWasRead
  BY DEF ReadInv
<1> HIDE DEF Inv
<1> QED  BY <1>1, <1>2, <1>3, PTL DEF WikiSpec

-----------------------------------------------------------------------------
(* A clear deletes what it has listed.  An item that has gone never comes  *)
(* back: an article written anew is another item.                          *)
LEMMA ErasedHasGone ==
  ASSUME Base, NEW i \in Items, Erase(i)
  PROVE  ~Exists(i)'
<1>1. TypeInv
  BY DEF Base
<1>2. CASE i \in {"turn"} \X Turns
  <2>1. i[1] = "turn"
    BY <1>2
  <2>2. turns'[i[2]] = "gone"
    BY <1>1, <2>1, EraseType
  <2> QED  BY <2>1, <2>2 DEF Exists
<1>3. CASE i \in {"page"} \X Convs \X Nat
  <2>1. i[1] # "turn" /\ i[2] \in Convs
    BY <1>3
  <2>2. CASE Exists(i)
    <3>1. ~page'[i[2]].there
      BY <1>1, <2>1, <2>2, EraseType
    <3> QED  BY <2>1, <3>1 DEF Exists
  <2>3. CASE ~Exists(i)
    <3>1. page'[i[2]] = page[i[2]]
      BY <1>1, <2>1, <2>3, EraseType
    <3> QED  BY <2>1, <2>3, <3>1 DEF Exists
  <2> QED  BY <2>2, <2>3
<1> QED  BY <1>2, <1>3 DEF Items

LEMMA BornAnew ==
  ASSUME Base, [WikiNext]_wvars, NEW c \in Convs
  PROVE  page'[c].there /\ page'[c].born = page[c].born => page[c].there
<1>1. page \in [Convs -> Pages] /\ page[c].born \in Nat /\ page[c].there \in BOOLEAN
  BY TypesNow DEF Base, Pages
<1>2. ASSUME NEW i \in Items, Erase(i)
      PROVE  page'[c] = page[c] \/ ~page'[c].there
  <2>1. page'[c] = page[c] \/ page'[c] = NoPage(page[c].born)
    BY <1>2, EraseType DEF Base
  <2>2. ~NoPage(page[c].born).there
    BY DEF NoPage
  <2> QED  BY <2>1, <2>2
<1>3. ASSUME NEW x \in Tasks, WritePage(x), ~page[c].there
      PROVE  page'[c] = page[c] \/ page'[c].born # page[c].born
  <2>1. CASE c = task[x].conv
    <3>1. page'[c].born = page[c].born + 1
      BY <1>1, <1>3, <2>1 DEF WritePage
    <3> QED  BY <1>1, <3>1
  <2>2. CASE c # task[x].conv
    BY <1>3, <2>2, WritePageStep
  <2> QED  BY <2>1, <2>2
<1>4. ASSUME NEW x \in Tasks, IndexPage(x)
      PROVE  page'[c].there = page[c].there
  <2>1. page'[c] = page[c] \/ page'[c] = [page[c] EXCEPT !.indexed = page[c].there]
    BY <1>4, IndexPageStep
  <2> QED  BY <1>1, <2>1 DEF Pages
<1>5. ASSUME NEW x \in Tasks, DeleteItem(x)
      PROVE  page'[c] = page[c] \/ ~page'[c].there
  <2>1. UNCHANGED page \/ \E i \in Items : Erase(i)
    BY <1>5, DeleteItemStep
  <2> QED  BY <1>2, <2>1
<1>6. ASSUME NEW i \in reconcile, Reconcile(i)
      PROVE  page'[c] = page[c] \/ ~page'[c].there
  BY <1>2, <1>6, ReconcileStep DEF Reconcile
<1>7. \/ UNCHANGED page
      \/ \E x \in Tasks : WritePage(x) \/ IndexPage(x) \/ DeleteItem(x)
      \/ \E i \in reconcile : Reconcile(i)
  BY StepKinds, QuietTasks, QuietRequests
  DEF wvars, Quiet, ReadPages, ReadTurns, AskModel, KeepPage, ListPrunable, WriteTurn, SaveText,
      ExpireTurn
<1> QED  BY <1>3, <1>4, <1>5, <1>6, <1>7

LEMMA GoneForGood ==
  ASSUME Base, ThereInv, [WikiNext]_wvars, NEW i \in Items, WasThere(i), ~Exists(i)
  PROVE  ~Exists(i)'
<1>1. MoveTo(turns, turns') /\ \A c \in Convs : page'[c].born >= page[c].born
  BY StepMoves
<1>2. CASE i \in {"turn"} \X Turns
  <2>1. i[1] = "turn" /\ i[2] \in Turns
    BY <1>2
  <2>2. turns[i[2]] = "saved" \/ turns[i[2]] = "row" \/ turns[i[2]] = "none" \/ turns[i[2]] = "gone"
    BY <2>1, TypesNow DEF Base
  <2>3. turns[i[2]] = "gone"
    BY <2>1, <2>2 DEF WasThere, Exists
  <2>4. turns'[i[2]] = "gone"
    BY <1>1, <2>1, <2>3 DEF MoveTo
  <2> QED  BY <2>1, <2>4 DEF Exists
<1>3. CASE i \in {"page"} \X Convs \X Nat
  <2> DEFINE c == i[2]
  <2>1. i[1] # "turn" /\ c \in Convs /\ i[3] \in Nat
    BY <1>3
  <2>2. page[c].born \in Nat /\ page'[c].born \in Nat
    BY <2>1, BaseStep, TypesNow DEF Base, TypeInv, WikiTypeOK, Pages
  <2>3. page[c].born >= i[3] /\ page'[c].born >= page[c].born
    BY <1>1, <2>1 DEF WasThere
  <2>4. ASSUME page'[c].there, page'[c].born = i[3] PROVE FALSE
    <3>1. page[c].born = i[3]
      BY <2>1, <2>2, <2>3, <2>4
    <3>2. page[c].there
      BY <2>1, <2>4, <3>1, BornAnew
    <3> QED  BY <2>1, <3>1, <3>2 DEF Exists
  <2> QED  BY <2>1, <2>4 DEF Exists
<1> QED  BY <1>2, <1>3 DEF Items

(* If what was there of a list was in s, it is in what has become of s.    *)
LEMMA LeftInPlace ==
  ASSUME Base, ThereInv, [WikiNext]_wvars, NEW k \in ClearJobs,
         wikiJobs'[k].listed = wikiJobs[k].listed, NEW s, NEW s2,
         \A i \in wikiJobs[k].listed : Exists(i) => i \in s,
         \A i \in s : i \in Items => i \in s2 \/ ~Exists(i)'
  PROVE  \A i \in wikiJobs'[k].listed : Exists(i)' => i \in s2
<1> SUFFICES ASSUME NEW i \in wikiJobs[k].listed, Exists(i)' PROVE i \in s2
  OBVIOUS
<1>1. k \in Jobs
  BY KindOfTask
<1>2. i \in Items /\ WasThere(i)
  BY <1>1, TypesNow DEF Base, JobRec, ThereInv
<1>3. Exists(i)
  BY <1>2, GoneForGood
<1> QED  BY <1>2, <1>3

(* Who is not the clear leaves what it is about alone; only the clear      *)
(* itself takes reconcile jobs away that have not been done.               *)
LEMMA ReconcileKeeps ==
  ASSUME Base, [WikiNext]_wvars, ~\E k \in ClearJobs : ClearJobRows(k)
  PROVE  \A i \in reconcile : i \in reconcile' \/ ~Exists(i)'
<1>1. CASE \E i \in reconcile : Reconcile(i)
  BY <1>1, ReconcileStep, ErasedHasGone DEF Reconcile
<1>2. ASSUME NEW x \in Tasks, WikiStep(x) PROVE reconcile \subseteq reconcile'
  <2>1. CASE DeleteItem(x)
    BY <2>1 DEF DeleteItem
  <2>2. ~ClearJobRows(x)
    BY ClearJobRowsStep
  <2> QED  BY <1>2, <2>1, <2>2
           DEF WikiStep, Locking, ReadPages, ReadTurns, AskModel, WritePage, KeepPage, IndexPage,
               ListPrunable, AllDeleted, ListCollection, WaitForLock, Finish, FailJob, GiveBack,
               NoConnection
<1>3. CASE ~\E i \in reconcile : Reconcile(i)
  <2>1. UNCHANGED reconcile \/ \E x \in Tasks : WikiStep(x)
    BY <1>3 DEF WikiNext, wvars, WriteTurn, SaveText, ExpireTurn, RequestUpdate, RequestPage,
                RequestClear, ClaimWikiJob, WikiCrash
  <2> QED  BY <1>2, <2>1
<1> QED  BY <1>1, <1>3

(* The clear is not on its way, or stays where it is with the same list.   *)
LEMMA ListedStays ==
  ASSUME Base, ThereInv, ListedInv, [WikiNext]_wvars, NEW k \in ClearJobs,
         ~\E l \in ClearJobs : ClearJobRows(l),
         wikiJobs'[k].listed = wikiJobs[k].listed,
         wikiJobs'[k].status = "succeeded" => wikiJobs[k].status = "succeeded",
         \/ task'[k].at = task[k].at /\ task'[k].items = task[k].items
         \/ task'[k].at \notin {"wait", "delete", "unlock", "finish"}
  PROVE  ListedOf(k)'
<1>1. ListedOf(k)
  BY DEF ListedInv
<1>2. \A i \in reconcile : i \in reconcile' \/ ~Exists(i)'
  BY ReconcileKeeps
<1>3. At(k, "wait")' => task'[k].items = wikiJobs'[k].listed
  BY <1>1 DEF ListedOf, At
<1>4. At(k, "delete")' => \A i \in wikiJobs'[k].listed :
                            Exists(i)' => i \in task'[k].items \cup reconcile'
  <2> HAVE At(k, "delete")'
  <2> DEFINE s  == task[k].items \cup reconcile
             s2 == task'[k].items \cup reconcile'
  <2>1. \A i \in wikiJobs[k].listed : Exists(i) => i \in s
    BY <1>1 DEF ListedOf, At
  <2>2. \A i \in s : i \in Items => i \in s2 \/ ~Exists(i)'
    BY <1>2 DEF At
  <2> HIDE DEF s, s2
  <2>3. \A i \in wikiJobs'[k].listed : Exists(i)' => i \in s2
    BY <2>1, <2>2, LeftInPlace
  <2> QED  BY <2>3 DEF s2
<1>5. task'[k].at \in {"unlock", "finish"} \/ wikiJobs'[k].status = "succeeded"
        => \A i \in wikiJobs'[k].listed : Exists(i)' => i \in reconcile'
  <2> HAVE task'[k].at \in {"unlock", "finish"} \/ wikiJobs'[k].status = "succeeded"
  <2>1. \A i \in wikiJobs[k].listed : Exists(i) => i \in reconcile
    BY <1>1 DEF ListedOf
  <2>2. \A i \in reconcile : i \in Items => i \in reconcile' \/ ~Exists(i)'
    BY <1>2
  <2> QED  BY <2>1, <2>2, LeftInPlace
<1> QED  BY <1>3, <1>4, <1>5 DEF ListedOf

(* The steps of the clear itself.                                          *)
LEMMA ListedAtList ==
  ASSUME Base, NEW k \in Tasks, ListCollection(k)
  PROVE  ListedOf(k)'
<1>1. /\ k \in ClearJobs /\ task[k].at = "claimed" /\ task'[k].at = "wait"
      /\ task'[k].items = wikiJobs'[k].listed /\ wikiJobs'[k].status = wikiJobs[k].status
  BY ListCollectionStep
<1>2. wikiJobs[k].status # "succeeded"
  BY <1>1, KindOfTask DEF Base, RowInv, RowOf, At
<1> QED  BY <1>1, <1>2 DEF ListedOf, At

LEMMA ListedAtRows ==
  ASSUME Base, ListedInv, NEW k \in Tasks, ClearJobRows(k)
  PROVE  ListedOf(k)'
<1>1. /\ k \in ClearJobs /\ task[k].at = "wait" /\ task'[k].at = "delete"
      /\ task'[k].items = task[k].items /\ wikiJobs'[k] = wikiJobs[k]
  BY ClearJobRowsStep
<1>2. wikiJobs[k].status # "succeeded"
  BY <1>1, KindOfTask DEF Base, RowInv, RowOf, At
<1>3. task'[k].items = wikiJobs'[k].listed
  BY <1>1 DEF ListedInv, ListedOf, At
<1> QED  BY <1>1, <1>2, <1>3 DEF ListedOf, At

LEMMA ListedAtDelete ==
  ASSUME Base, ThereInv, ListedInv, [WikiNext]_wvars, NEW k \in ClearJobs, DeleteItem(k)
  PROVE  ListedOf(k)'
<1>1. k \in Tasks /\ k \in Jobs /\ UNCHANGED wikiJobs
  BY KindOfTask DEF DeleteItem
<1>2. task[k].at = "delete" /\ wikiJobs[k].status # "succeeded"
  BY <1>1, DeleteItemStep DEF Base, RowInv, RowOf, At
<1>3. CASE task'[k].at = "undo"
  BY <1>1, <1>2, <1>3 DEF ListedOf, At
<1>4. CASE task'[k].at # "undo"
  <2>1. PICK i \in task[k].items :
          /\ task'[k].at = "delete" /\ task'[k].items = task[k].items \ {i} /\ i \in Items
          /\ (Erase(i) /\ UNCHANGED reconcile) \/ reconcile' = reconcile \cup {i}
    BY <1>1, <1>4, DeleteItemStep
  <2>2. \A j \in task[k].items \cup reconcile :
          j \in Items => j \in task'[k].items \cup reconcile' \/ ~Exists(j)'
    <3>1. CASE Erase(i) /\ UNCHANGED reconcile
      <4>1. ~Exists(i)'
        BY <2>1, <3>1, ErasedHasGone
      <4>2. task'[k].items = task[k].items \ {i} /\ reconcile' = reconcile
        BY <2>1, <3>1
      <4> QED  BY <4>1, <4>2
    <3>2. CASE reconcile' = reconcile \cup {i}
      BY <2>1, <3>2
    <3> QED  BY <2>1, <3>1, <3>2
  <2>3. \A j \in wikiJobs[k].listed : Exists(j) => j \in task[k].items \cup reconcile
    BY <1>2 DEF ListedInv, ListedOf, At
  <2>4. \A j \in wikiJobs'[k].listed : Exists(j)' => j \in task'[k].items \cup reconcile'
    BY <1>1, <2>2, <2>3, LeftInPlace
  <2> QED  BY <1>1, <1>2, <2>1, <2>4 DEF ListedOf, At
<1> QED  BY <1>3, <1>4

LEMMA ListedAtEnd ==
  ASSUME Base, ThereInv, ListedInv, [WikiNext]_wvars, NEW k \in ClearJobs,
         AllDeleted(k) \/ GiveBack(k) \/ Finish(k)
  PROVE  ListedOf(k)'
<1>1. /\ k \in Tasks /\ k \in Jobs /\ k \notin UpdateJobs
      /\ UNCHANGED <<turns, page, reconcile>> /\ wikiJobs'[k].listed = wikiJobs[k].listed
  BY KindOfTask, FinishStep DEF AllDeleted, GiveBack, Finish
<1>2. ListedOf(k)
  BY DEF ListedInv
<1>3. task'[k].at \in {"unlock", "finish", "fail", "idle"}
  BY <1>1, AllDeletedStep, GiveBackStep, FinishStep
<1>4. wikiJobs[k].status # "succeeded"
  BY <1>1, AllDeletedStep, GiveBackStep, FinishStep DEF Base, RowInv, RowOf, At
<1>5. CASE task'[k].at = "fail" /\ wikiJobs'[k].status # "succeeded"
  BY <1>5 DEF ListedOf, At
<1>6. CASE task'[k].at # "fail" \/ wikiJobs'[k].status = "succeeded"
  <2>1. \A i \in wikiJobs[k].listed : Exists(i) => i \in reconcile
    <3>1. CASE AllDeleted(k)
      BY <1>2, <3>1, AllDeletedStep DEF ListedOf, AllDeleted, At
    <3>2. CASE GiveBack(k)
      <4>1. wikiJobs'[k].status # "succeeded" /\ task[k].at = "unlock"
        BY <1>1, <1>4, <1>6, <3>2, GiveBackStep DEF GiveBack
      <4> QED  BY <1>2, <4>1 DEF ListedOf
    <3>3. CASE Finish(k)
      BY <1>1, <1>2, <3>3, FinishStep DEF ListedOf
    <3> QED  BY <3>1, <3>2, <3>3
  <2>2. \A i \in wikiJobs'[k].listed : Exists(i)' => i \in reconcile'
    BY <1>1, <2>1 DEF Exists
  <2> QED  BY <1>3, <2>2 DEF ListedOf, At
<1> QED  BY <1>5, <1>6

(* ClearJobRows is a step of the only clear, so nobody else's list can     *)
(* count on the reconcile jobs it takes away.                              *)
LEMMA ListedStep ==
  ASSUME OneClear, Base, ThereInv, ListedInv, [WikiNext]_wvars
  PROVE  ListedInv'
<1> SUFFICES ASSUME NEW k \in ClearJobs PROVE ListedOf(k)'
  BY DEF ListedInv
<1>1. k \in Tasks /\ k \in Jobs
  BY KindOfTask
<1>2. ASSUME NEW x \in Tasks, x # k, WikiStep(x) PROVE ListedOf(k)'
  <2>1. x \notin ClearJobs /\ task'[k] = task[k]
    BY <1>1, <1>2, StepOthers DEF OneClear
  <2>2. ~\E l \in ClearJobs : ClearJobRows(l)
    <3>1. ASSUME NEW l \in ClearJobs, ClearJobRows(l) PROVE FALSE
      <4>1. l = k /\ task'[k].at = "delete" /\ task[k].at = "wait"
        BY <1>1, <3>1, ClearJobRowsStep DEF OneClear
      <4> QED  BY <2>1, <4>1
    <3> QED  BY <3>1
  <2>3. wikiJobs'[k] = wikiJobs[k]
    <3>1. ~ListCollection(x) /\ ~ClearJobRows(x)
      BY <2>1, ListCollectionStep, ClearJobRowsStep
    <3> QED  BY <1>1, <1>2, <3>1, FinishStep, FailJobStep
             DEF WikiStep, Locking, ReadPages, ReadTurns, AskModel, WritePage, KeepPage,
                 IndexPage, ListPrunable, DeleteItem, AllDeleted, WaitForLock, GiveBack,
                 NoConnection
  <2> QED  BY <2>1, <2>2, <2>3, ListedStays
<1>3. ASSUME WikiStep(k) PROVE ListedOf(k)'
  <2>1. CASE ListCollection(k)
    BY <1>1, <2>1, ListedAtList
  <2>2. CASE ClearJobRows(k)
    BY <1>1, <2>2, ListedAtRows
  <2>3. CASE DeleteItem(k)
    BY <2>3, ListedAtDelete
  <2>4. CASE AllDeleted(k) \/ GiveBack(k) \/ Finish(k)
    BY <2>4, ListedAtEnd
  <2>5. CASE ~ClearJobRows(k) /\ (WaitForLock(k) \/ FailJob(k) \/ NoConnection(k))
    <3>1. ~\E l \in ClearJobs : ClearJobRows(l)
      BY <2>5 DEF OneClear
    <3>2. wikiJobs'[k].listed = wikiJobs[k].listed
      BY <1>1, <2>5, FailJobStep DEF WaitForLock, NoConnection
    <3>3. wikiJobs'[k].status = "succeeded" => wikiJobs[k].status = "succeeded"
      BY <1>1, <2>5, FailJobStep DEF WaitForLock, NoConnection
    <3>4. \/ task'[k].at = task[k].at /\ task'[k].items = task[k].items
          \/ task'[k].at \notin {"wait", "delete", "unlock", "finish"}
      <4>1. CASE WaitForLock(k)
        BY <1>1, <4>1, WaitForLockStep
      <4>2. CASE FailJob(k)
        BY <1>1, <4>2, FailJobStep, KindOfTask
      <4>3. CASE NoConnection(k)
        BY <1>1, <4>3, NoConnectionStep
      <4> QED  BY <2>5, <4>1, <4>2, <4>3
    <3> QED  BY <3>1, <3>2, <3>3, <3>4, ListedStays
  <2>6. ~(\/ Locking(k) \/ ReadPages(k) \/ ReadTurns(k) \/ AskModel(k) \/ WritePage(k)
          \/ KeepPage(k) \/ IndexPage(k) \/ ListPrunable(k))
    <3>1. task[k].at \in {"idle", "claimed", "wait", "delete", "unlock", "undo", "finish", "fail"}
      BY <1>1 DEF Base, PlaceInv, PlaceOf
    <3> QED  BY <3>1 DEF Locking, ReadPages, ReadTurns, AskModel, WritePage, KeepPage, IndexPage,
                     ListPrunable, At
  <2> QED  BY <1>3, <2>1, <2>2, <2>3, <2>4, <2>5, <2>6 DEF WikiStep
<1>4. ASSUME ~\E x \in Tasks : WikiStep(x) PROVE ListedOf(k)'
  <2>1. ~\E l \in ClearJobs : ClearJobRows(l)
    BY <1>4, KindOfTask DEF WikiStep
  <2>2. /\ wikiJobs'[k].listed = wikiJobs[k].listed
        /\ wikiJobs'[k].status = "succeeded" => wikiJobs[k].status = "succeeded"
        /\ \/ task'[k].at = task[k].at /\ task'[k].items = task[k].items
           \/ task'[k].at \notin {"wait", "delete", "unlock", "finish"}
    <3>1. CASE \/ UNCHANGED wvars
               \/ \E t \in Turns : WriteTurn(t) \/ SaveText(t) \/ ExpireTurn(t)
               \/ \E i \in reconcile : Reconcile(i)
      BY <3>1 DEF wvars, WriteTurn, SaveText, ExpireTurn, Reconcile
    <3>2. CASE \/ \E c \in Convs : \E j \in UpdateJobs : RequestUpdate(j, c)
               \/ \E j \in ClearJobs : RequestClear(j)
      BY <1>1, <3>2, RequestSteps, KindOfTask
    <3>3. CASE \E c \in Convs : \E x \in Edits \cup Removals : RequestPage(x, c)
      <4> PICK c \in Convs, x \in Requests : RequestPage(x, c)
        BY <3>3 DEF Requests
      <4>1. k # x
        BY KindOfTask
      <4> QED  BY <1>1, <4>1, RequestPageStep DEF RequestPage
    <3>4. CASE \E j \in UpdateJobs \cup ClearJobs : ClaimWikiJob(j)
      <4> PICK j \in Jobs : ClaimWikiJob(j)
        BY <3>4 DEF Jobs
      <4> QED  BY <1>1, ClaimStep
    <3>5. CASE WikiCrash
      <4>1. task'[k].at \in {"idle", "over"}
        BY <1>1, <3>5, CrashStep
      <4> QED  BY <3>5, <4>1 DEF WikiCrash
    <3> QED  BY <1>4, <3>1, <3>2, <3>3, <3>4, <3>5 DEF WikiNext
  <2> QED  BY <2>1, <2>2, ListedStays
<1> QED  BY <1>2, <1>3, <1>4

LEMMA ListedInit == WikiInit => ListedInv
<1> SUFFICES ASSUME WikiInit, NEW k \in ClearJobs PROVE ListedOf(k)
  BY DEF ListedInv
<1>1. task[k].at = "idle" /\ wikiJobs[k].status = "none"
  BY KindOfTask DEF WikiInit, Rest, NewJob, Jobs
<1> QED  BY <1>1 DEF ListedOf, At

(* ListedIsDeleted of the run wiki, where one clear of the collection is   *)
(* asked for: when it reports success, every turn and article it had       *)
(* listed has gone or has a reconcile job, whatever wrote, pruned or       *)
(* expired meanwhile and whatever the stores refused.                      *)
THEOREM WhatWasListedIsDeleted == OneClear => (WikiSpec => []ListedIsDeleted)
<1> SUFFICES ASSUME OneClear PROVE WikiSpec => []ListedIsDeleted
  OBVIOUS
<1> DEFINE Inv == Base /\ ThereInv /\ ListedInv
<1>1. WikiInit => Inv
  BY BaseInit, ReadInit, ListedInit
<1>2. Inv /\ [WikiNext]_wvars => Inv'
  BY BaseStep, ThereStep, ListedStep
<1>3. Inv => ListedIsDeleted
  BY DEF ListedInv, ListedOf, ListedIsDeleted
<1> HIDE DEF Inv
<1> QED  BY <1>1, <1>2, <1>3, PTL DEF WikiSpec

=============================================================================
