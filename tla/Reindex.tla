------------------------------- MODULE Reindex --------------------------------
(***************************************************************************)
(* The rebuild of the vector store beside the requests of DocIndex:        *)
(* reindexAllChunks, what starts it (the gateway's start, the watch of the *)
(* store, an admin), the fingerprint of the embedding model, restarts of   *)
(* the store that lose its vectors and of the gateway with another model.  *)
(***************************************************************************)
EXTENDS DocIndex

CONSTANTS ReindexMode, \* REINDEX_MODE
          AdminModes,  \* the modes admins ask for
          Rank,        \* the place of a document in chunk_id order
          FetchSize,   \* REINDEX_FETCH_SIZE
          BatchSize,   \* REINDEX_BATCH_SIZE
          StoreFaults, \* faults of the store and its statistics
          MaxOutages   \* bound: restarts of the store or the gateway

ASSUME ReindexAssumption ==
  /\ ReindexMode \in {"auto", "always", "off"}
  /\ AdminModes \subseteq {"auto", "always", "off"}
  /\ IsFiniteSet(Docs) /\ IsFiniteSet(Slots)
  /\ Rank \in [Docs -> Nat]
  /\ FetchSize \in Nat \ {0} /\ BatchSize \in Nat \ {0}
  /\ StoreFaults \subseteq {"late", "stats", "clear", "fingerprint"}
  /\ MaxOutages \in Nat

VARIABLES
  fingerprint, \* supavector:embed_fingerprint, the model it names
  rebuild,     \* reindexAllChunks and lastReindexState
  watch,       \* watchVectorStoreOnce: idle, or about to count chunks
  booting,     \* the timer of scheduleAutoReindex has not fired yet
  outages,     \* how many restarts there have been
  mixed,       \* history: documents a rebuild held while a worker was on them
  touched,     \* history: documents a worker was on during this rebuild
  covered,     \* history: untouched since a rebuild was completed
  misled       \* history: the fingerprint hid a change of model at the start

rvars == <<fingerprint, rebuild, watch, booting, outages, mixed, touched, covered, misled>>
allvars == <<dvars, rvars>>

NoRebuild == [at |-> "idle", status |-> "none", mode |-> "auto", total |-> 0, count |-> 0,
              dim |-> 0, clear |-> FALSE, buffer |-> {}, last |-> 0, todo |-> {}, failed |-> FALSE]
Slices == [chunk: Chunks, text: AllTexts]

ReindexInit ==
  /\ DocInit
  /\ fingerprint = None
  /\ rebuild = NoRebuild
  /\ watch = "idle"
  /\ booting = TRUE
  /\ outages = 0
  /\ mixed = {} /\ touched = {} /\ covered = {}
  /\ misled = FALSE

-----------------------------------------------------------------------------
Running      == rebuild.status = "running"
RowChunks    == {c \in Chunks : rows[c] # None}
StoredChunks == {c \in Chunks : vecs[c] # None}
StoreDim     == IF StoredChunks = {} THEN 0
                ELSE Dim[vecs[CHOOSE c \in StoredChunks : TRUE].model]
Position(c)  == Rank[c[1]] * Cardinality(Slots) + c[2]
First(n, S)  == {s \in S : Cardinality({r \in S : Position(r.chunk) < Position(s.chunk)}) < n}
Held(d)      == \E s \in rebuild.buffer \cup rebuild.todo : s.chunk[1] = d

StoreFault(k) == k \in StoreFaults /\ faults < MaxFaults /\ faults' = faults + 1
Go(at)        == rebuild' = [rebuild EXCEPT !.at = at]
End(status)   == rebuild' = [NoRebuild EXCEPT !.status = status]
SameDocs      == UNCHANGED <<items, docTexts, rows, jobs, reingest, embedModel, requests, overlapped>>

(* Nobody can say what a cleared store holds of a document at work.        *)
Lose ==
  /\ vecs' = [c \in Chunks |-> None]
  /\ worker' = [p \in Workers |-> IF Active(p) THEN [worker[p] EXCEPT !.alone = FALSE] ELSE worker[p]]
  /\ outcome' = [d \in Docs |-> IF outcome[d] = Absent THEN Absent ELSE Unknown]

-----------------------------------------------------------------------------
(* What starts a rebuild; reindexRunning lets one run at a time.           *)
Begin(mode) == ~Running /\ rebuild' = [NoRebuild EXCEPT !.at = "count", !.status = "running", !.mode = mode]

AdminReindex(mode) ==
  /\ Begin(mode)
  /\ requests < MaxRequests /\ requests' = requests + 1
  /\ UNCHANGED <<items, docTexts, rows, vecs, late, jobs, reingest, worker, embedModel,
                 faults, outcome, overlapped, fingerprint, watch, booting, outages>>

AutoReindex ==
  /\ booting
  /\ booting' = FALSE
  /\ IF Running THEN UNCHANGED rebuild ELSE Begin(ReindexMode)
  /\ UNCHANGED <<dvars, fingerprint, watch, outages>>

WatchStats ==
  /\ ReindexMode # "off" /\ ~booting /\ watch = "idle"
  /\ ~Running /\ StoredChunks = {}
  /\ watch' = "count"
  /\ UNCHANGED <<dvars, fingerprint, rebuild, booting, outages>>

WatchCount ==
  /\ watch = "count"
  /\ watch' = "idle"
  /\ IF RowChunks = {} \/ Running THEN UNCHANGED rebuild ELSE Begin("auto")
  /\ UNCHANGED <<dvars, fingerprint, booting, outages>>

-----------------------------------------------------------------------------
(* shouldReindexStoredVectors *)
DimsMismatch(r) == r.count > 0 /\ r.dim # Dim[embedModel]
ModelChanged(r) == r.count > 0 /\ fingerprint # None /\ fingerprint # embedModel
(* Mutant: only the dimensions are compared.                               *)
ClearForDims(r) == DimsMismatch(r)
ClearFirst(r)   == DimsMismatch(r) \/ ModelChanged(r)
ShouldReindex(r) == ClearFirst(r) \/ r.mode = "always" \/ r.count < r.total

CountChunks ==
  /\ rebuild.at = "count"
  /\ IF rebuild.mode = "off" \/ RowChunks = {} THEN End("skipped")
     ELSE rebuild' = [rebuild EXCEPT !.at = "stats", !.total = Cardinality(RowChunks)]
  /\ UNCHANGED <<dvars, fingerprint, watch, booting, outages>>

(* Without statistics the store is rebuilt in place. *)
ReadStats ==
  /\ rebuild.at = "stats"
  /\ \/ /\ rebuild' = [rebuild EXCEPT !.at = "decide", !.count = Cardinality(StoredChunks), !.dim = StoreDim]
        /\ UNCHANGED faults
     \/ StoreFault("stats") /\ Go("walk")
  /\ SameDocs
  /\ UNCHANGED <<vecs, late, worker, outcome, fingerprint, watch, booting, outages>>

After(r) == IF ~ShouldReindex(r) THEN [NoRebuild EXCEPT !.status = "skipped"]
            ELSE [r EXCEPT !.at = IF ClearFirst(r) THEN "clear" ELSE "walk"]

Decide ==
  /\ rebuild.at = "decide"
  /\ rebuild' = IF fingerprint = None /\ ~DimsMismatch(rebuild) THEN [rebuild EXCEPT !.at = "adopt"]
                ELSE After(rebuild)
  /\ UNCHANGED <<dvars, fingerprint, watch, booting, outages>>

(* A store without a fingerprint adopts the configured model at once.      *)
Adopt ==
  /\ rebuild.at = "adopt"
  /\ \/ fingerprint' = embedModel /\ UNCHANGED faults
     \/ StoreFault("fingerprint") /\ UNCHANGED fingerprint
  /\ rebuild' = After(rebuild)
  /\ SameDocs
  /\ UNCHANGED <<vecs, late, worker, outcome, watch, booting, outages>>

ClearVectorStore ==
  /\ rebuild.at = "clear"
  /\ \/ Lose /\ Go("walk") /\ UNCHANGED faults
     \/ StoreFault("clear") /\ End("failed") /\ UNCHANGED <<vecs, worker, outcome>>
  /\ SameDocs
  /\ UNCHANGED <<late, fingerprint, watch, booting, outages>>

Rest      == {[chunk |-> c, text |-> rows[c]] : c \in {x \in RowChunks : Position(x) > rebuild.last}}
LastOf(S) == CHOOSE n \in {Position(s.chunk) : s \in S} : \A s \in S : Position(s.chunk) <= n

(* Mutant: the next page starts two after the last row of this one.        *)
FetchPageSkips ==
  LET page == First(FetchSize, Rest)
  IN  /\ rebuild.at = "walk" /\ Cardinality(rebuild.buffer) < BatchSize
      /\ rebuild' = IF page = {} THEN [rebuild EXCEPT !.at = IF rebuild.buffer = {} THEN "write" ELSE "flush"]
                    ELSE [rebuild EXCEPT !.buffer = @ \cup page, !.last = LastOf(page) + 1]
      /\ UNCHANGED <<dvars, fingerprint, watch, booting, outages>>

(* listChunksAfter: a page of the chunks after the last one seen, until    *)
(* one is empty.                                                           *)
FetchPage ==
  LET page == First(FetchSize, Rest)
  IN  /\ rebuild.at = "walk" /\ Cardinality(rebuild.buffer) < BatchSize
      /\ rebuild' = IF page = {} THEN [rebuild EXCEPT !.at = IF rebuild.buffer = {} THEN "write" ELSE "flush"]
                    ELSE [rebuild EXCEPT !.buffer = @ \cup page, !.last = LastOf(page)]
      /\ UNCHANGED <<dvars, fingerprint, watch, booting, outages>>

(* reindexChunkBatch: a full batch, or what is left at the end.            *)
EmbedBatch ==
  LET batch == First(BatchSize, rebuild.buffer)
  IN  /\ \/ rebuild.at = "walk" /\ Cardinality(rebuild.buffer) >= BatchSize
         \/ rebuild.at = "flush"
      /\ \/ /\ rebuild' = [rebuild EXCEPT !.at = IF @ = "walk" THEN "vset" ELSE "vflush",
                 !.buffer = @ \ batch,
                 !.todo = {[op |-> "vset", chunk |-> s.chunk,
                            vec |-> [text |-> s.text, model |-> embedModel]] : s \in batch}]
            /\ UNCHANGED faults
         \/ Fault("embed") /\ End("failed")
      /\ SameDocs
      /\ UNCHANGED <<vecs, late, worker, outcome, fingerprint, watch, booting, outages>>

RebuildCommand ==
  \E c \in rebuild.todo :
    /\ vecs' = Applied(c)
    /\ rebuild' = [rebuild EXCEPT !.todo = @ \ {c}, !.failed = @ \/ Rejected(c)]
    /\ SameDocs
    /\ UNCHANGED <<late, worker, faults, outcome, fingerprint, watch, booting, outages>>

RebuildBatchFails ==
  /\ rebuild.todo # {}
  /\ \/ Fault("refused") /\ UNCHANGED late
     \/ StoreFault("late") /\ late' = late \cup rebuild.todo
  /\ rebuild' = [rebuild EXCEPT !.todo = {}, !.failed = TRUE]
  /\ SameDocs
  /\ UNCHANGED <<vecs, worker, outcome, fingerprint, watch, booting, outages>>

(* Mutant: reindexRunning is not reset by a failure.                       *)
BatchDoneKeepsRunning ==
  /\ rebuild.at \in {"vset", "vflush"} /\ rebuild.todo = {}
  /\ IF rebuild.failed THEN Go("idle") ELSE Go(IF rebuild.at = "vset" THEN "walk" ELSE "write")
  /\ UNCHANGED <<dvars, fingerprint, watch, booting, outages>>

BatchDone ==
  /\ rebuild.at \in {"vset", "vflush"} /\ rebuild.todo = {}
  /\ IF rebuild.failed THEN End("failed") ELSE Go(IF rebuild.at = "vset" THEN "walk" ELSE "write")
  /\ UNCHANGED <<dvars, fingerprint, watch, booting, outages>>

(* The fingerprint is written; a failure is only logged. *)
WriteFingerprint ==
  /\ rebuild.at = "write"
  /\ \/ fingerprint' = embedModel /\ UNCHANGED faults
     \/ StoreFault("fingerprint") /\ UNCHANGED fingerprint
  /\ End("completed")
  /\ SameDocs
  /\ UNCHANGED <<vecs, late, worker, outcome, watch, booting, outages>>

-----------------------------------------------------------------------------
Outage == outages < MaxOutages /\ outages' = outages + 1

(* With VECTOR_WAL=0 the store comes back without vectors; its strings are *)
(* logged, unless its disk is a new one.                                   *)
StoreRestart ==
  /\ Outage
  /\ Lose
  /\ fingerprint' \in {fingerprint, None}
  /\ late' = {}
  /\ SameDocs
  /\ UNCHANGED <<faults, rebuild, watch, booting>>

GatewayRestart(m) ==
  /\ Outage
  /\ WorkersDie
  /\ \/ UNCHANGED <<late, faults>>
     \/ StoreFault("late") /\ late' = late \cup Sent \cup rebuild.todo
  /\ embedModel' = m
  /\ rebuild' = NoRebuild
  /\ watch' = "idle"
  /\ booting' = TRUE
  /\ UNCHANGED <<requests, fingerprint>>

RebuildStep ==
  \/ CountChunks \/ ReadStats \/ Decide \/ Adopt \/ ClearVectorStore
  \/ FetchPage \/ EmbedBatch \/ RebuildCommand \/ BatchDone \/ WriteFingerprint

DocStep == Arrives \/ (\E p \in Workers : Work(p) \/ BatchFails(p)) \/ RunLate

Step ==
  \/ DocStep /\ UNCHANGED <<fingerprint, rebuild, watch, booting, outages>>
  \/ \E mode \in AdminModes : AdminReindex(mode)
  \/ AutoReindex \/ WatchStats \/ WatchCount
  \/ RebuildStep \/ RebuildBatchFails
  \/ StoreRestart
  \/ \E m \in Models : GatewayRestart(m)

(* What the properties remember. *)
OthersModel == \E c \in StoredChunks : vecs[c].model # embedModel
Busy(d)     == Users(d) # {} \/ LateOn(d) # {}
History ==
  /\ mixed' = mixed \cup {d \in Docs : Held(d)' /\ Busy(d)'}
  /\ touched' = IF ~Running' THEN {}
                ELSE IF outages' # outages THEN Docs
                ELSE touched \cup {d \in Docs : Busy(d)'}
  /\ covered' = (IF Running /\ rebuild'.status = "completed" THEN Docs \ touched
                 ELSE IF Running' \/ outages' # outages THEN {} ELSE covered)
                \ {d \in Docs : Busy(d)'}
  /\ misled' = IF embedModel' = embedModel THEN misled
               ELSE (OthersModel' /\ fingerprint' \in {None, embedModel'}) \/ late' # {}

ReindexNext == Step /\ History
ReindexSpec == ReindexInit /\ [][ReindexNext]_allvars

(* The event loop goes on: timers fire and a rebuild takes its next step.  *)
ReindexFairSpec ==
  ReindexSpec /\ WF_allvars((AutoReindex \/ WatchStats \/ WatchCount \/ RebuildStep) /\ History)

-----------------------------------------------------------------------------
(* A rebuild beside live requests loses nothing of theirs: a document that *)
(* was written with success has a vector for every chunk, and the vector   *)
(* of that text unless a rebuild held its rows while it was written.       *)
SettledBesideRebuild ==
  \A d \in {x \in Docs : Users(x) = {} /\ outcome[x] \in AllTexts} :
    /\ Exact(d, outcome[d])
    /\ \A c \in ChunksOf(d, outcome[d]) :
         vecs[c] # None /\ (d \notin mixed => vecs[c].text = outcome[d])

(* A rebuild that reports completed has given every chunk of a document    *)
(* nobody was at meanwhile the vector of its text and the current model:   *)
(* no page, no partial batch and no cleared vector was left out.           *)
RebuildIsComplete ==
  \A c \in RowChunks :
    c[1] \in covered => vecs[c] = [text |-> rows[c], model |-> embedModel]

(* A gateway that comes back with another model does not end its check     *)
(* with vectors of the old one behind a chunk, provided the store recorded *)
(* which model it held.                                                    *)
SwitchIsNoticed ==
  rebuild.status \in {"completed", "skipped"} /\ ~booting /\ ~misled =>
    \A c \in RowChunks : c[1] \notin overlapped \cup mixed /\ vecs[c] # None => vecs[c].model = embedModel

(* What CHANGELOG.md:29 says of every store.                               *)
ModelsNeverMixed ==
  rebuild.status \in {"completed", "skipped"} /\ ~booting =>
    \A c, x \in StoredChunks : vecs[c].model = vecs[x].model

(* A store that came back empty while there are chunks gets vectors again. *)
EmptyStoreRefills ==
  (ReindexMode # "off" /\ StoredChunks = {} /\ RowChunks # {})
    ~> (StoredChunks # {} \/ RowChunks = {})
=============================================================================
