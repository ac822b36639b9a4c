------------------------------- MODULE DocIndex -------------------------------
(***************************************************************************)
(* Documents and memories: the item, the chunk rows and the original text  *)
(* in Postgres, and the vectors of the chunks in the store.  indexDocument,*)
(* indexMemoryText, deleteVectorsForDoc and what calls them in             *)
(* gateway/index.js, reingest.js, and the statements of gateway/db.js.     *)
(*                                                                         *)
(* One worker is one request, sweep, job or lane at work.  Every statement *)
(* and every command to the store is a step of its own; nothing locks a    *)
(* document while a worker waits.                                          *)
(***************************************************************************)
EXTENDS Integers, FiniteSets

CONSTANTS Docs,        \* namespaced documents and memories of one collection
          Artifacts,   \* those of item_type artifact, which keep their text
          Slots,       \* chunk numbers
          Texts, Len,  \* texts, and the number of chunks of each
          Garbled,     \* what joining the chunks of a mixed document gives
          Models, Dim, \* embedding models and their dimensions
          FirstModel,  \* the one configured first
          Workers,
          Faults,      \* what may go wrong, of FaultKinds
          Asked,       \* bound: the kinds of requests and events, of AllAsked
          MaxRequests, \* bound: requests
          MaxFaults,   \* bound: faults
          MaxAttempts, \* JOB_MAX_ATTEMPTS
          None

AllAsked   == {"index", "delete", "collection", "cleanup", "reingest", "expire"}
FaultKinds == {"refused", "late", "embed", "text", "crash"}
AllTexts   == Texts \cup {Garbled}
Chunks     == Docs \X Slots
ChunksOf(d, t) == {<<d, i>> : i \in 1..Len[t]}
Vectors    == [text: AllTexts, model: Models]
Commands   == [op: {"vdel"}, chunk: Chunks, vec: {None}]
              \cup [op: {"vset"}, chunk: Chunks, vec: Vectors]

ASSUME DocIndexAssumption ==
  /\ Artifacts \subseteq Docs
  /\ Garbled \notin Texts
  /\ Slots \subseteq Nat \ {0}
  /\ Len \in [AllTexts -> Nat \ {0}]
  /\ \A t \in AllTexts : 1..Len[t] \subseteq Slots
  /\ Dim \in [Models -> Nat \ {0}] /\ FirstModel \in Models
  /\ Faults \subseteq FaultKinds /\ Asked \subseteq AllAsked
  /\ MaxRequests \in Nat /\ MaxFaults \in Nat /\ MaxAttempts \in Nat \ {0}
  /\ None \notin AllTexts /\ None \notin Vectors /\ None \notin Docs
  /\ {"unknown", "absent"} \cap AllTexts = {}

VARIABLES
  items,    \* memory_items: none, live, or past its expires_at
  docTexts, \* doc_texts
  rows,     \* chunks
  vecs,     \* the vectors of the store
  late,     \* commands of batches that were given up, still on their way
  jobs,     \* delete_reconcile jobs: status and attempts
  reingest, \* the re-ingest: whether it runs and what is left of its list
  worker,   \* what each worker is at
  embedModel, \* the configured embedding model
  requests, faults, \* how many there have been
  outcome,  \* history: what the last worker on a document brought about
  overlapped \* history: documents two workers have been on at a time

dvars == <<items, docTexts, rows, vecs, late, jobs, reingest, worker,
           embedModel, requests, faults, outcome, overlapped>>

Writers   == {"index", "reingest"}
ListKinds == {"sweep", "cleanup", "collection"}
Kinds     == Writers \cup ListKinds \cup {"delete", "reconcile"}
Places    == {"upsert", "fetch", "embed", "read", "vdel", "drop", "save",
              "text", "vset", "next", "again", "forget", "enqueue"}
Idle == [kind |-> "none", at |-> "upsert", doc |-> None, list |-> {}, text |-> None,
         vec |-> None, todo |-> {}, failed |-> FALSE, broken |-> FALSE, alone |-> TRUE]
Unknown == "unknown"
Absent  == "absent"

(* The type invariant. *)
DocTypeOK ==
  /\ items \in [Docs -> {"none", "live", "expired"}]
  /\ docTexts \in [Docs -> AllTexts \cup {None}]
  /\ rows \in [Chunks -> AllTexts \cup {None}]
  /\ vecs \in [Chunks -> Vectors \cup {None}]
  /\ late \subseteq Commands
  /\ jobs \in [Docs -> [status: {"none", "queued", "running", "ended"}, attempts: 0..MaxAttempts]]
  /\ reingest \in [on: BOOLEAN, left: SUBSET Docs]
  /\ worker \in [Workers ->
       [kind: Kinds \cup {"none"}, at: Places, doc: Docs \cup {None}, list: SUBSET Docs,
        text: AllTexts \cup {None}, vec: Models \cup {None}, todo: SUBSET Commands,
        failed: BOOLEAN, broken: BOOLEAN, alone: BOOLEAN]]
  /\ embedModel \in Models
  /\ requests \in 0..MaxRequests /\ faults \in 0..MaxFaults
  /\ outcome \in [Docs -> AllTexts \cup {Unknown, Absent}]
  /\ overlapped \subseteq Docs

DocInit ==
  /\ items = [d \in Docs |-> "none"]
  /\ docTexts = [d \in Docs |-> None]
  /\ rows = [c \in Chunks |-> None]
  /\ vecs = [c \in Chunks |-> None]
  /\ late = {}
  /\ jobs = [d \in Docs |-> [status |-> "none", attempts |-> 0]]
  /\ reingest = [on |-> FALSE, left |-> {}]
  /\ worker = [p \in Workers |-> Idle]
  /\ embedModel = FirstModel
  /\ requests = 0 /\ faults = 0
  /\ outcome = [d \in Docs |-> Absent]
  /\ overlapped = {}

-----------------------------------------------------------------------------
(* Who works on what.  A collection delete ends by deleting every item of  *)
(* the collection, so it works on all of them.                             *)
TargetsOf(w) == IF w.kind = "collection" THEN Docs
                ELSE w.list \cup ({w.doc} \ {None})
Active(p) == worker[p].kind # "none"
Users(d)  == {p \in Workers : d \in TargetsOf(worker[p])}
LateOn(d) == {c \in late : c.chunk[1] = d}

Set(p, w)   == worker' = [worker EXCEPT ![p] = w]
Goto(p, at) == Set(p, [worker[p] EXCEPT !.at = at])
(* Bound: a fault that is no refusal counts for two. *)
Cost(k)     == IF k \in {"refused", "embed"} THEN 1 ELSE 2
Fault(k)    == /\ k \in Faults
               /\ faults' = faults + Cost(k)
               /\ faults' <= MaxFaults

(* What p leaves behind on its document, if it was alone there all along.  *)
Left(p, result) ==
  [outcome EXCEPT ![worker[p].doc] = IF worker[p].alone THEN result ELSE Unknown]

Exact(d, t) == \A c \in {d} \X Slots : rows[c] = IF c \in ChunksOf(d, t) THEN t ELSE None
(* joinChunkTexts of what getChunksByDocId returns. *)
Joined(d) ==
  IF \A i \in Slots : rows[<<d, i>>] = None THEN None
  ELSE IF \E t \in Texts : Exact(d, t) THEN CHOOSE t \in Texts : Exact(d, t)
  ELSE Garbled

-----------------------------------------------------------------------------
(* Requests and jobs come in.  Where others are at work, or commands given *)
(* up are still on their way, none of them is alone any more.              *)
Start(p, w) ==
  LET shared == {d \in TargetsOf(w) : Users(d) # {} \/ LateOn(d) # {}}
  IN  /\ ~Active(p)
      /\ overlapped' = overlapped \cup shared
      /\ worker' = [q \in Workers |->
           IF q = p THEN [w EXCEPT !.alone = (shared = {})]
           ELSE [worker[q] EXCEPT !.alone = @ /\ TargetsOf(worker[q]) \cap shared = {}]]
Request(p, w) ==
  /\ w.kind \in Asked
  /\ requests < MaxRequests
  /\ requests' = requests + 1
  /\ Start(p, w)

On(kind, at, d) == [Idle EXCEPT !.kind = kind, !.at = at, !.doc = d]

WriteDoc(p, d, t) ==
  /\ Request(p, [On("index", "upsert", d) EXCEPT !.text = t])
  /\ UNCHANGED <<items, docTexts, rows, vecs, late, jobs, reingest, embedModel, faults, outcome>>

DeleteDoc(p, d) ==
  /\ Request(p, On("delete", "read", d))
  /\ UNCHANGED <<items, docTexts, rows, vecs, late, jobs, reingest, embedModel, faults, outcome>>

(* listDocsForTenant finds the documents that have chunks. *)
DeleteCollection(p) ==
  /\ Request(p, [Idle EXCEPT !.kind = "collection", !.at = "next",
                   !.list = {d \in Docs : \E i \in Slots : rows[<<d, i>>] # None}])
  /\ UNCHANGED <<items, docTexts, rows, vecs, late, jobs, reingest, embedModel, faults, outcome>>

ExpiredItems == {d \in Docs : items[d] = "expired"}

TtlSweep(p) ==
  /\ ExpiredItems # {}
  /\ \A q \in Workers : worker[q].kind # "sweep"
  /\ Start(p, [Idle EXCEPT !.kind = "sweep", !.at = "next", !.list = ExpiredItems])
  /\ UNCHANGED <<items, docTexts, rows, vecs, late, jobs, reingest, embedModel,
                 requests, faults, outcome>>

TtlCleanupJob(p) ==
  /\ ExpiredItems # {}
  /\ Request(p, [Idle EXCEPT !.kind = "cleanup", !.at = "next", !.list = ExpiredItems])
  /\ UNCHANGED <<items, docTexts, rows, vecs, late, jobs, reingest, embedModel, faults, outcome>>

DeleteReconcileJob(p, d) ==
  /\ jobs[d].status = "queued"
  /\ jobs' = [jobs EXCEPT ![d].status = "running"]
  /\ Start(p, On("reconcile", "read", d))
  /\ UNCHANGED <<items, docTexts, rows, vecs, late, reingest, embedModel, requests, faults, outcome>>

StartReingest ==
  /\ ~reingest.on /\ "reingest" \in Asked
  /\ requests < MaxRequests /\ requests' = requests + 1
  /\ reingest' = [on |-> TRUE, left |-> {d \in Artifacts : items[d] # "none"}]
  /\ UNCHANGED <<items, docTexts, rows, vecs, late, jobs, worker, embedModel, faults, outcome, overlapped>>

Lane(p, d) ==
  /\ d \in reingest.left
  /\ reingest' = [reingest EXCEPT !.left = @ \ {d}]
  /\ Start(p, On("reingest", "fetch", d))
  /\ UNCHANGED <<items, docTexts, rows, vecs, late, jobs, embedModel, requests, faults, outcome>>

ReingestDone ==
  /\ reingest.on /\ reingest.left = {}
  /\ \A p \in Workers : worker[p].kind # "reingest"
  /\ reingest' = [reingest EXCEPT !.on = FALSE]
  /\ UNCHANGED <<items, docTexts, rows, vecs, late, jobs, worker, embedModel,
                 requests, faults, outcome, overlapped>>

Expire(d) ==
  /\ items[d] = "live" /\ "expire" \in Asked
  /\ items' = [items EXCEPT ![d] = "expired"]
  /\ UNCHANGED <<docTexts, rows, vecs, late, jobs, reingest, worker, embedModel,
                 requests, faults, outcome, overlapped>>

-----------------------------------------------------------------------------
(* The statements of a worker. *)
At(p, place) == Active(p) /\ worker[p].at = place
Doc(p) == worker[p].doc

(* An error answer, a failed job, a failed item of a re-ingest. *)
Fail(p) ==
  /\ Set(p, Idle)
  /\ outcome' = Left(p, Unknown)
  /\ jobs' = IF worker[p].kind # "reconcile" THEN jobs
             ELSE LET n == jobs[Doc(p)].attempts + 1
                  IN  [jobs EXCEPT ![Doc(p)] =
                         [status |-> IF n >= MaxAttempts THEN "ended" ELSE "queued",
                          attempts |-> n]]

(* reingestOne *)
FetchText(p) ==
  LET d == Doc(p)
      t == IF docTexts[d] # None THEN docTexts[d] ELSE Joined(d)
  IN  /\ At(p, "fetch")
      /\ IF t = None THEN Fail(p)
         ELSE /\ Set(p, [worker[p] EXCEPT !.at = "upsert", !.text = t])
              /\ UNCHANGED <<jobs, outcome>>
      /\ UNCHANGED <<items, docTexts, rows, vecs, late, reingest, embedModel,
                     requests, faults, overlapped>>

UpsertItem(p) ==
  /\ At(p, "upsert")
  /\ items' = [items EXCEPT ![Doc(p)] = "live"]
  /\ Goto(p, "embed")
  /\ UNCHANGED <<docTexts, rows, vecs, late, jobs, reingest, embedModel,
                 requests, faults, outcome, overlapped>>

(* Mutant: the model of the tenant is not resolved.                        *)
EmbedUnresolved(p) ==
  /\ At(p, "embed")
  /\ Goto(p, "read")
  /\ UNCHANGED <<items, docTexts, rows, vecs, late, jobs, reingest, embedModel,
                 requests, faults, outcome, overlapped>>

Embed(p) ==
  /\ At(p, "embed")
  /\ \/ /\ Set(p, [worker[p] EXCEPT !.at = "read", !.vec = embedModel])
        /\ UNCHANGED <<jobs, faults, outcome>>
     \/ Fault("embed") /\ Fail(p)
  /\ UNCHANGED <<items, docTexts, rows, vecs, late, reingest, embedModel, requests, overlapped>>

(* Mutant: the rows are deleted before their vectors.                      *)
ReadChunksDropsRows(p) ==
  LET mine == {c \in Chunks : c[1] = Doc(p) /\ rows[c] # None}
  IN  /\ At(p, "read")
      /\ Set(p, [worker[p] EXCEPT !.at = "vdel",
                   !.todo = {[op |-> "vdel", chunk |-> c, vec |-> None] : c \in mine}])
      /\ rows' = [c \in Chunks |-> IF c \in mine THEN None ELSE rows[c]]
      /\ UNCHANGED <<items, docTexts, vecs, late, jobs, reingest, embedModel,
                     requests, faults, outcome, overlapped>>

(* deleteVectorsForDoc: the vectors of the rows there are ... *)
ReadChunks(p) ==
  LET mine == {c \in Chunks : c[1] = Doc(p) /\ rows[c] # None}
  IN  /\ At(p, "read")
      /\ Set(p, [worker[p] EXCEPT !.at = "vdel",
                   !.todo = {[op |-> "vdel", chunk |-> c, vec |-> None] : c \in mine}])
      /\ UNCHANGED <<items, docTexts, rows, vecs, late, jobs, reingest, embedModel,
                     requests, faults, outcome, overlapped>>

(* Mutant: a write leaves the rows for its own to replace.                 *)
DropRowsOfDeletes(p) ==
  LET k == worker[p].kind
  IN  /\ At(p, "vdel") /\ worker[p].todo = {} /\ ~worker[p].failed
      /\ rows' = [c \in Chunks |-> IF c[1] = Doc(p) /\ k \notin Writers THEN None ELSE rows[c]]
      /\ Goto(p, IF k \in Writers THEN "save"
                 ELSE IF k = "collection" THEN "next"
                 ELSE IF k \in ListKinds THEN "again" ELSE "forget")
      /\ UNCHANGED <<items, docTexts, vecs, late, jobs, reingest, embedModel,
                     requests, faults, outcome, overlapped>>

(* ... then the rows, strictly after every command was answered OK. *)
DropRows(p) ==
  LET k == worker[p].kind
  IN  /\ At(p, "vdel") /\ worker[p].todo = {} /\ ~worker[p].failed
      /\ rows' = [c \in Chunks |-> IF c[1] = Doc(p) THEN None ELSE rows[c]]
      /\ Goto(p, IF k \in Writers THEN "save"
                 ELSE IF k = "collection" THEN "next"
                 ELSE IF k \in ListKinds THEN "again" ELSE "forget")
      /\ UNCHANGED <<items, docTexts, vecs, late, jobs, reingest, embedModel,
                     requests, faults, outcome, overlapped>>

VdelFailed(p) ==
  LET k == worker[p].kind
  IN  /\ At(p, "vdel") /\ worker[p].todo = {} /\ worker[p].failed
      /\ IF k \notin ListKinds THEN Fail(p)
         ELSE /\ Set(p, [worker[p] EXCEPT !.at = IF k = "collection" THEN "next" ELSE "enqueue",
                          !.failed = FALSE, !.broken = TRUE])
              /\ outcome' = Left(p, Unknown)
              /\ UNCHANGED jobs
      /\ UNCHANGED <<items, docTexts, rows, vecs, late, reingest, embedModel,
                     requests, faults, overlapped>>

(* findActiveDeleteJob and createMemoryJob *)
EnqueueDeleteReconcile(p) ==
  LET d == Doc(p)
  IN  /\ At(p, "enqueue")
      /\ jobs' = IF jobs[d].status \in {"queued", "running"} THEN jobs
                 ELSE [jobs EXCEPT ![d] = [status |-> "queued", attempts |-> 0]]
      /\ Goto(p, "next")
      /\ UNCHANGED <<items, docTexts, rows, vecs, late, reingest, embedModel,
                     requests, faults, outcome, overlapped>>

Vsets(p) ==
  {[op |-> "vset", chunk |-> c, vec |-> [text |-> worker[p].text, model |-> worker[p].vec]]
     : c \in ChunksOf(Doc(p), worker[p].text)}

SaveChunks(p) ==
  /\ At(p, "save")
  /\ rows' = [c \in Chunks |-> IF c \in ChunksOf(Doc(p), worker[p].text)
                               THEN worker[p].text ELSE rows[c]]
  /\ IF Doc(p) \in Artifacts THEN Goto(p, "text")
     ELSE Set(p, [worker[p] EXCEPT !.at = "vset", !.todo = Vsets(p)])
  /\ UNCHANGED <<items, docTexts, vecs, late, jobs, reingest, embedModel,
                 requests, faults, outcome, overlapped>>

(* A text without its item breaks the foreign key; any failure is caught.  *)
SaveDocText(p) ==
  /\ At(p, "text")
  /\ \/ /\ docTexts' = IF items[Doc(p)] = "none" THEN docTexts
                       ELSE [docTexts EXCEPT ![Doc(p)] = worker[p].text]
        /\ Set(p, [worker[p] EXCEPT !.at = "vset", !.todo = Vsets(p)])
        /\ UNCHANGED faults
     \/ /\ Fault("text")
        /\ Set(p, [worker[p] EXCEPT !.at = "vset", !.todo = Vsets(p), !.broken = TRUE])
        /\ UNCHANGED docTexts
  /\ UNCHANGED <<items, rows, vecs, late, jobs, reingest, embedModel,
                 requests, outcome, overlapped>>

(* Mutant: a failed write is answered as a success.                        *)
IndexedWhateverFailed(p) ==
  /\ At(p, "vset") /\ worker[p].todo = {}
  /\ /\ Set(p, Idle)
     /\ outcome' = Left(p, IF worker[p].broken THEN Unknown ELSE worker[p].text)
     /\ UNCHANGED jobs
  /\ UNCHANGED <<items, docTexts, rows, vecs, late, reingest, embedModel,
                 requests, faults, overlapped>>

Indexed(p) ==
  /\ At(p, "vset") /\ worker[p].todo = {}
  /\ IF worker[p].failed THEN Fail(p)
     ELSE /\ Set(p, Idle)
          /\ outcome' = Left(p, IF worker[p].broken THEN Unknown ELSE worker[p].text)
          /\ UNCHANGED jobs
  /\ UNCHANGED <<items, docTexts, rows, vecs, late, reingest, embedModel,
                 requests, faults, overlapped>>

(* deleteMemoryItemFully deletes the rows once more, then the item. *)
DropRowsAgain(p) ==
  /\ At(p, "again")
  /\ rows' = [c \in Chunks |-> IF c[1] = Doc(p) THEN None ELSE rows[c]]
  /\ Goto(p, "forget")
  /\ UNCHANGED <<items, docTexts, vecs, late, jobs, reingest, embedModel,
                 requests, faults, outcome, overlapped>>

ForgetItem(p) ==
  LET d == Doc(p)  k == worker[p].kind
  IN  /\ At(p, "forget")
      /\ items' = [items EXCEPT ![d] = "none"]
      /\ docTexts' = [docTexts EXCEPT ![d] = None]
      /\ outcome' = Left(p, Absent)
      /\ IF k \in ListKinds THEN Goto(p, "next") ELSE Set(p, Idle)
      /\ jobs' = IF k = "reconcile" THEN [jobs EXCEPT ![d].status = "ended"] ELSE jobs
      /\ UNCHANGED <<rows, vecs, late, reingest, embedModel, requests, faults, overlapped>>

NextOfList(p) ==
  /\ At(p, "next")
  /\ \E d \in worker[p].list :
       Set(p, [worker[p] EXCEPT !.at = "read", !.doc = d, !.list = @ \ {d}])
  /\ UNCHANGED <<items, docTexts, rows, vecs, late, jobs, reingest, embedModel,
                 requests, faults, outcome, overlapped>>

(* Mutant: ttlSweepRunning is not reset when something failed.             *)
SweepDoneUnbroken(p) ==
  /\ At(p, "next") /\ worker[p].list = {} /\ worker[p].kind # "collection"
  /\ ~worker[p].broken
  /\ Set(p, Idle)
  /\ UNCHANGED <<items, docTexts, rows, vecs, late, jobs, reingest, embedModel,
                 requests, faults, outcome, overlapped>>

SweepDone(p) ==
  /\ At(p, "next") /\ worker[p].list = {} /\ worker[p].kind # "collection"
  /\ Set(p, Idle)
  /\ UNCHANGED <<items, docTexts, rows, vecs, late, jobs, reingest, embedModel,
                 requests, faults, outcome, overlapped>>

(* Every item of the collection goes, unless a vector was left. *)
CollectionDone(p) ==
  /\ At(p, "next") /\ worker[p].list = {} /\ worker[p].kind = "collection"
  /\ IF worker[p].broken THEN UNCHANGED <<items, docTexts>>
     ELSE /\ items' = [d \in Docs |-> "none"]
          /\ docTexts' = [d \in Docs |-> None]
  /\ outcome' = [d \in Docs |-> IF worker[p].alone /\ ~worker[p].broken THEN Absent ELSE Unknown]
  /\ Set(p, Idle)
  /\ UNCHANGED <<rows, vecs, late, jobs, reingest, embedModel, requests, faults, overlapped>>

-----------------------------------------------------------------------------
(* The commands of a batch at the store. *)
HasOtherDim(v) == \E c \in Chunks : vecs[c] # None /\ Dim[vecs[c].model] # Dim[v.model]
Rejected(c)    == c.op = "vset" /\ HasOtherDim(c.vec)
Applied(c)     == IF Rejected(c) THEN vecs ELSE [vecs EXCEPT ![c.chunk] = c.vec]

RunCommand(p) ==
  \E c \in worker[p].todo :
    /\ vecs' = Applied(c)
    /\ Set(p, [worker[p] EXCEPT !.todo = @ \ {c}, !.failed = @ \/ Rejected(c)])
    /\ UNCHANGED <<items, docTexts, rows, late, jobs, reingest, embedModel,
                   requests, faults, outcome, overlapped>>

(* What is left of a batch is refused, or times out and may still be       *)
(* carried out.                                                            *)
BatchFails(p) ==
  /\ worker[p].todo # {}
  /\ \/ Fault("refused") /\ UNCHANGED late
     \/ Fault("late") /\ late' = late \cup worker[p].todo
  /\ Set(p, [worker[p] EXCEPT !.todo = {}, !.failed = TRUE])
  /\ UNCHANGED <<items, docTexts, rows, vecs, jobs, reingest, embedModel,
                 requests, outcome, overlapped>>

RunLate ==
  \E c \in late :
    /\ vecs' = Applied(c)
    /\ late' = late \ {c}
    /\ UNCHANGED <<items, docTexts, rows, jobs, reingest, worker, embedModel,
                   requests, faults, outcome, overlapped>>

(* The gateway dies: what its workers were at is lost, a running job stays *)
(* marked running; the store may have the commands already.                *)
Sent == UNION {worker[p].todo : p \in Workers}
WorkersDie ==
  /\ worker' = [p \in Workers |-> Idle]
  /\ reingest' = [on |-> FALSE, left |-> {}]
  /\ outcome' = [d \in Docs |-> IF Users(d) = {} THEN outcome[d] ELSE Unknown]
  /\ UNCHANGED <<items, docTexts, rows, vecs, jobs, overlapped>>

GatewayCrash ==
  /\ Fault("crash")
  /\ WorkersDie
  /\ late' \in {late} \cup (IF "late" \in Faults THEN {late \cup Sent} ELSE {})
  /\ UNCHANGED <<embedModel, requests>>

-----------------------------------------------------------------------------
Arrives ==
  \/ \E p \in Workers :
       \/ \E d \in Docs, t \in Texts : WriteDoc(p, d, t)
       \/ \E d \in Docs : DeleteDoc(p, d) \/ DeleteReconcileJob(p, d) \/ Lane(p, d)
       \/ DeleteCollection(p) \/ TtlSweep(p) \/ TtlCleanupJob(p)
  \/ StartReingest \/ ReingestDone
  \/ \E d \in Docs : Expire(d)

Work(p) ==
  \/ FetchText(p) \/ UpsertItem(p) \/ Embed(p) \/ ReadChunks(p) \/ RunCommand(p)
  \/ DropRows(p) \/ VdelFailed(p) \/ EnqueueDeleteReconcile(p)
  \/ SaveChunks(p) \/ SaveDocText(p) \/ Indexed(p)
  \/ DropRowsAgain(p) \/ ForgetItem(p) \/ NextOfList(p) \/ SweepDone(p) \/ CollectionDone(p)

DocNext ==
  \/ Arrives
  \/ \E p \in Workers : Work(p) \/ BatchFails(p)
  \/ RunLate
  \/ GatewayCrash

DocSpec == DocInit /\ [][DocNext]_dvars

(* The event loop goes on: workers take their next steps and the timer of  *)
(* the sweep fires.                                                        *)
DocFairSpec == DocSpec /\ WF_dvars(\E p \in Workers : Work(p) \/ TtlSweep(p))

-----------------------------------------------------------------------------
(* After a write that was answered as a success, and that no other worker  *)
(* met, the document has exactly the chunks of its text, every one with    *)
(* the vector of that text, its item and its original text; after such a   *)
(* delete it has no chunk and no item.  Whatever failed or crashed before  *)
(* (indexDocument, deleteVectorsForDoc).                                   *)
Settled ==
  \A d \in {x \in Docs : Users(x) = {}} :
    /\ outcome[d] \in AllTexts =>
         /\ Exact(d, outcome[d])
         /\ \A c \in ChunksOf(d, outcome[d]) : vecs[c] # None /\ vecs[c].text = outcome[d]
         /\ items[d] # "none"
         /\ d \in Artifacts => docTexts[d] = outcome[d]
    /\ outcome[d] = Absent => items[d] = "none" /\ \A i \in Slots : rows[<<d, i>>] = None

(* A document that never had two workers at a time leaves no vector in the *)
(* store that no chunk row points at, whatever failed on the way: the rows *)
(* go after their vectors and come before them (deleteVectorsForDoc is     *)
(* strict; indexDocument saves first).                                     *)
NoOrphanVectors ==
  \A c \in Chunks : c[1] \notin overlapped /\ vecs[c] # None => rows[c] # None

(* An item past its time does not stay: what the store refuses is tried    *)
(* again (runTtlSweepOnce, runDeleteReconcileJob).                         *)
ExpiredGoes ==
  \A d \in Docs : (items[d] = "expired") ~> (items[d] # "expired")
=============================================================================
