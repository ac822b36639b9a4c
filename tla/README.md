# SupaVector in TLA+

Specifications of the parts of SupaVector that keep state: what each part does,
what must hold of it, what TLC checks on small instances, and what is proved for
all of them. Paths below are relative to the repository root.

## 1. The system

SupaVector is a retrieval and memory service. Three processes matter:

* the **vector store**, a multi-threaded C++ server (`atlasrag/src/server.cpp`)
  with a string map, a vector index and a write-ahead log. It speaks one line per
  command and one line per reply over TCP;
* the **gateway**, a Node process (`gateway/index.js`) that serves the HTTP API,
  runs background jobs and talks to the store (`gateway/tcp.js`) and to Postgres
  (`gateway/db.js`);
* **Postgres**, the source of truth for documents, chunks, memory items, jobs,
  idempotency keys and billing. The vector store can be rebuilt from it.

The command line tools, the SDKs and the portal are clients of the HTTP API.

### 1.1 Inventory

| component | state it keeps | operations | interacts with | what is hard | what makes it correct | module |
|---|---|---|---|---|---|---|
| write-ahead log, `wal.h` | the log file, its bytes in the OS cache and on disk | append, rewrite, sync, replay | every mutating command | crash at any point, failing writes, lines cut short | the log rebuilds memory | `Wal` |
| string map, `db.h` | values with expiration times | SET, GET, DEL, cleanup, snapshot | cleanup thread, compaction | expiry against the clock, relative times in the log | no key outlives its time, none is lost | `StoreData`, `Store` |
| vector index, `vector_db.h` | vectors by id, their one dimension, hash tables of the approximate search | upsert, remove, remove by prefix, clear, search | store process | tables follow every change of the vectors | one dimension; the tables hold exactly the vectors | `StoreData`, `VectorIndex` |
| store process, `server.cpp` | the two maps, the mutation lock, the line counter | client threads, TTL thread, fsync thread, compaction, start | gateway, disk | interleaving with readers and crashes | section 3 | `Store` |
| store client, `tcp.js`, `index.js:4113` | one socket per batch, text not yet parsed, replies so far | send a set of commands in batches, match replies by position, time out | store process | replies in pieces, batches given up that the store still carries out | each result is its own command's, nothing is carried out twice | `StoreClient` |
| idempotent requests, `index.js:4693`, `db.js:1531` | one row per key: hash, status, answer | begin, replay, take over, complete | every write endpoint | retries racing the first request, a handler that throws | one payload and one answer per key | `Idempotency` |
| memory jobs, `index.js:8777`, `db.js:1423` | rows with status, attempts, next run | create, claim, run, retry, sweep | all background work | double dispatch, a gateway that dies mid-run | one runner per job, attempts bounded, no job forgotten | `MemoryJobs` |
| document indexing, `index.js:5806`, `db.js:115` | items, chunks and texts in Postgres, vectors in the store | write, replace, delete, expire, reconcile, clean up | store, jobs | two stores without a transaction, no lock on a document | a write leaves exactly its chunks and vectors; no vector without a chunk | `DocIndex` |
| re-ingest, `reingest.js` | one in-memory list, its lanes | start, step, report | indexing | runs beside requests | as for indexing | `DocIndex` |
| re-index and store watch, `index.js:4324` | fingerprint, running flag | decide, clear, walk the chunks, watch | store, requests | runs beside live requests, a store that was replaced, another model | afterwards every chunk has its vector, of the current model | `Reindex` |
| conversation wiki, `index.js:8903`, `9268`, `9497` | articles, advisory locks, pool connections | update, edit, delete, clear, prune turns | jobs, models, indexing | locks held over slow calls, several transactions per job | nothing is pruned unread, nobody overwrites an unseen article, all locks come back | `ConversationWiki` |
| storage metering and billing, `index.js:3673`, `storage_billing.js`, `db.js:2676` | queue per gateway, last size, byte-seconds per month | announce, flush, measure, bill, split by month | every write | debounce, month boundary, concurrent transactions | every second is billed once, the last change is measured | `StorageMeter` |
| memory lifecycle, `index.js:3353`, `5064`, `10443`, `11036`, `lifecycle_policy.js` | values and tiers, events queue, budget | event, decay, pin, expire, evict, compact | jobs, store, models | stale rows after an await | only what was low goes, within the budget; tiers do not flip | `Lifecycle` |
| compaction, `index.js:10141`, `10675` | a job or the sweep at a seed, with the items it has listed | list, read, sum up, write, link, delete originals | jobs, lifecycle, models, indexing | retries after part of the work, overlapping compactions, requests that delete | nothing is deleted before another item tells it; the summary stays | `Compaction` |
| circuit breaker of approximate search, `index.js:976` | low overlaps in a row, open until | measure, open | searches | | | not modelled |
| legacy server, `main.cpp` | string map and log | SET, GET, DEL | | log and memory order differ | | not modelled |

Not modelled, and not planned: retrieval, ranking and answers (floating-point
scores and text around language models, no shared state), chunking (pure text),
model providers (external services), authentication (token checks at the edge),
telemetry, command line tools, SDKs, deployment scripts, evaluation data, and
the vendored `.venv-pypi`. `PROJECT.json` lists them with their reasons.

### 1.2 Hazards

`PROJECT.json` lists, line by line, what in this code a test would hardly reach
and which property would catch it going wrong. The most important ones for the
store: a crash between a log line and the change it stands for; a host crash
between a rename and its directory sync; a rewrite or an append that fails; a
line cut short by a crash; the dimension of the index after any sequence of
commands and restarts. For the gateway: jobs that die while running; retries that
overtake the request they repeat; vectors and chunks that fail apart, or are
carried out after they were given up; a rebuild that clears the store beside
requests that write; a clear that lists what an update is still writing; locks
that keep connections others wait for; measurements that commit in another order
than they were made; rows used after an await.

## 2. Modules

    StoreData        the maps, the log lines, what replay does with one line
      Wal            the log file: what append, rewrite, sync and crashes leave
        Store        the process: threads, lock, compaction, crash, restart
          StoreRefinement   Store implements DurableMap
            MCStore         instances for TLC
            StoreProofs     theorems about Store and the refinement
    DurableMap       abstract: a map with a recorded copy and crashes

    StoreData
      VectorIndex      the hash tables beside the vectors, the searches
        MCVectorIndex    its constants for TLC
    StoreClient        batches and single commands on connections to the store
    StorePartsProofs   theorems about VectorIndex and StoreClient

    DocIndex           items, chunk rows, texts and vectors of documents
      MCDocIndex         an instance for TLC
      DocIndexProofs
      Reindex            the rebuild, the watch and restarts beside DocIndex
        MCReindex        instances for TLC
        ReindexProofs    EXTENDS DocIndexProofs, whose steps Reindex takes too

    Idempotency        requests that carry one idempotency key
    AnswerOnce         abstract: a key is owned once and answered once
    Compaction         items that are summed up and deleted
    MCRetries          Idempotency and Compaction, each for itself, for TLC
    RetriesProofs      theorems about Idempotency and Compaction

    MemoryJobs         the rows of memory_jobs and the gateways that run them
    ConversationWiki   articles under advisory locks, turns, clears
      MCWiki             instances for TLC
      ConversationWikiProofs
    StorageMeter       measurements and billing of one tenant
      StorageMeterProofs
    Lifecycle          value, tier and deletion of memory items
    MemoryProofs       theorems about MemoryJobs and Lifecycle

    MCParts            MemoryJobs, StorageMeter, VectorIndex, StoreClient and
                       Lifecycle, each for itself, in one instance for TLC

`Store` and `VectorIndex` share `StoreData`: the store needs of its index only
the vectors and their dimension, and `VectorIndex` shows that the tables follow
the same operations. Between store and gateway there are two interfaces.
`StoreClient` shows what a caller of a batch may conclude: a command reported
done was carried out once; one reported failed may have been carried out, may
not, or may be carried out later. `DocIndex` and `Reindex` start from just
that, one step per command. A `MemoryJobs` run is one step after another of
work; the work itself is `DocIndex` (expiry, reconciliation) and
`ConversationWiki` (update, clear), which in turn take an item's deletion for
one step, or a job for later.

### 2.1 How the state corresponds to the code

| variable | code |
|---|---|
| `up` | the process has replayed its log and serves (`main`, after line 788) |
| `walOn` | `g_vector_wal_enabled`; read from `VECTOR_WAL` at every start |
| `mem.kv` | `DB::kv_` and `DB::expirations_` as one map |
| `mem.vecs`, `mem.dims` | `VectorDB::vectors_`, `VectorDB::dims_` |
| `walLines` | `g_wal_vector_lines` |
| `lock` | the holder of `g_mutation_mu` |
| `pc`, `arg` | where in `handle_command` a client thread is, and the line it builds |
| `file` | the log: the image of its rewritten part (`base`), the lines appended since (`tail`), whether the last one lacks its newline (`open`), how many are on disk (`synced`) |
| `priors` | logs that a rename has replaced in the directory of the OS but not yet on disk |
| `now` | `steady_clock`, `Second` ticks to the second |
| `crashes` | how many crashes there were, for the bounds |

A file keeps beside each line the **image** replay has built after it. That is
only a way of writing the model: an image is determined by the lines, and
`ReplayRebuilds` says that folding `ReplayLine` over the lines gives it, which TLC
checks and `LogsReplay` proves. It lets the other proofs speak of what replay
builds without recursion.

### 2.2 How the actions correspond to the code

A mutating command runs in its thread as a few steps, cut wherever another
thread, a reader without the lock, or a crash can see the difference:

| command | steps |
|---|---|
| `SET`, `SET EX` (267-305) | `SetLog` takes the lock and appends; `SetMem` changes memory and replies |
| `DEL` (326-339) | `DelLog`; `DelMem` |
| `VSET` (351-384) | `Vset` takes the lock and changes memory; `AppendVectorLine`; `Note`; perhaps a compaction |
| `VDEL` (389-409) | `Vdel`; then append and note, or a compaction if the last vector went |
| `VDELPREFIX` (414-433) | `VdelPrefix`; a compaction if it removed anything, an uncounted append if not |
| `VCLEAR` (438-451) | `Vclear`; a compaction |
| compaction (`wal.h:77-113`) | `CompactRename` or `CompactFail`; `DirSync` |

With `VECTOR_WAL` off a vector command is one step. A rejected vector changes
nothing. The lines before the lock (parsing, counters) change nothing that the
model has and are part of the first step. `TtlCleanup` is one round of
`ttl_cleanup_thread`, `FsyncWal` one round of the fsync thread, `Restart` the
start of `main` up to its accept loop. `ProcessCrash` leaves the file as the OS
has it; `HostCrash` leaves some file the disk may have.

`CompactFail` covers the four early returns of `rewrite_lines`: none of them
touches the log. The snapshot, the temporary file, its sync and the rename are
one step, since nothing but the mutation lock's holder writes the log or the
vectors meanwhile and a crash inside leaves the old log as it is (a stray
temporary file is truncated at the next rewrite).

### 2.3 The vector index

`VectorDB` holds its own lock through every operation, so each is one action.

| in `VectorIndex` | code (`vector_db.h`) |
|---|---|
| `index.vecs`, `index.dims` | `vectors_`, `dims_` |
| `planes` | the dimension `ann_planes_` were made for |
| `tables`, `annSize` | `ann_tables_`, `ann_index_size_` |
| `annEnabled` | `VECTOR_ANN_ENABLED`, read by `ensure_ann_index_locked` |
| `Upsert` | `add_or_update` (52-77) |
| `RemoveOne`, `RemovePrefix`, `ClearAll` | `remove`, `remove_prefix`, `clear` |
| `Search`, `SearchAnn` | the four searches; a subset search is one with fewer ids allowed |

A bucket is a bag of ids rather than a sequence. Its order shows only where the
number of candidates is cut; `Collected` then allows any choice inside the table
where the cut falls. What the planes make of a vector (`SigOf`) and the cosine
(`Score`) are constant functions. A signature is computed with planes of the
vector's own dimension or it reads out of range, which is why
`BucketsHoldVectors` says whose dimension the planes have.

### 2.4 Keyed requests

| in `Idempotency` | code |
|---|---|
| `row` | the row of `idempotency_keys`: `status`, `request_hash`, `response_body`, `updated_at` |
| `pc` | the statement of `handleIdempotentRequest` (`index.js:4693`) a request is at |
| `seen` | the record that `getIdempotencyKey` gave it |
| `result`, `reply` | what its handler returned, what its client was told |
| `since`, `now` | for the bounds on time; the database's clock |
| `Begin` | `beginIdempotencyKey`: insert, on conflict do nothing |
| `GetKey`, `Judge` | the read, and lines 4714-4732 on what was read |
| `Touch` | `touchIdempotencyKey`: takes the row over, whatever it has become |
| `Handler`, `Complete` | the handler; the recorded answer and the reply |
| `Fail` | a statement or handler that throws, a gateway that dies |

One key is enough: no statement touches two rows. `PayloadOf` stands for the
normalised and hashed body. `Skew` is the gateway's clock minus the database's,
since `updated_at` is written by one and judged by the other. A handler that
answers with an error completes its key like any other: the error is the answer
that is repeated. Recording and replying are one step, for a client that hears
nothing has no answer to compare. `AnswerOnce` is what the table promises: the
first payload owns the key, there is one answer, and whoever is told an answer
is told that one.

### 2.5 Memory jobs

| in `MemoryJobs` | code |
|---|---|
| `rows` | `status`, `attempts`, and of `next_run_at` whether it has passed (`due`); "gone" is a deleted row |
| `pending` | per gateway, dispatches that are about to happen: `setImmediate` after a request, `setTimeout` after a failure |
| `sweeping`, `batch` | `jobSweepRunning`, the rest of what the sweep has listed |
| `runs` | runs under way, with the attempts their claim read |
| `Create`, `Join` | `createMemoryJob` and the dispatch; a request that finds its job active and dispatches it again |
| `Fire`, `SweepNext` | a runner's first statement, `claimMemoryJob` |
| `Throw`, `Succeed`, `GiveUp` | how the work of a run ends |
| `Retry` | `finalizeJobFailure` in the catch: back to the queue, or failed |
| `SweepStart`, `SweepEnd` | `sweepDueMemoryJobs` |
| `BackoffOver`, `Remove`, `Crash` | time; a clear that deletes the rows; a gateway that dies |

Each statement may fail before it was executed or after. What the six kinds of
work do is not part of this module; they differ here in who dispatches them
(`Requested`), whether a request may find one active (`Shared`) and whether a
clear deletes them (`Clearable`). The order of a sweep's list is left open. A
listing that fails only ends a sweep and is no step.

### 2.6 Documents and the rebuild

| in `DocIndex` | code |
|---|---|
| `items`, `docTexts`, `rows` | `memory_items`, `doc_texts`, `chunks` of one collection; a row holds the text its chunk comes from |
| `vecs` | the vectors of the store: the text and the model each was computed from |
| `late` | commands of a batch that was given up and that the store still has before it |
| `jobs` | the `delete_reconcile` jobs of the items |
| `reingest` | `reingest.js`: whether one runs, and its list |
| `worker` | a request, sweep, job or lane: its statement, document, list, and the commands it still has to send |
| `UpsertItem` .. `Indexed` | `indexDocument` and `indexMemoryText` (`index.js:5806`) with what precedes them in their callers |
| `ReadChunks`, `RunCommand`, `DropRows` | `deleteVectorsForDoc` (`index.js:8659`) and the statements after it |
| `VdelFailed`, `EnqueueDeleteReconcile` | a refused command under `strict`: the request fails, the sweep makes a job |
| `NextOfList`, `SweepDone`, `CollectionDone` | `runTtlSweepOnce`, the clean-up job, the delete of a collection |

Faults: a command refused; a batch given up and carried out late; an embedding
or the saving of the original text that fails; a gateway that dies. Nothing
locks a document, so `Settled` speaks of writes that no other worker met
(`outcome`), and `NoOrphanVectors` of documents that never had two workers at a
time (`overlapped`): with two, a write that saves chunks between another's
reading and dropping of rows leaves orphans, as the code is.

| in `Reindex` | code |
|---|---|
| `fingerprint` | the key `supavector:embed_fingerprint` in the store |
| `rebuild` | `reindexAllChunks` (`index.js:4390`): its step, buffer, page, `lastReindexState` |
| `watch`, `booting` | `watchVectorStoreOnce` between its two counts; the timer of `scheduleAutoReindex` |
| `Decide`, `Adopt`, `ClearVectorStore`, `FetchPage`, `EmbedBatch`, `RebuildCommand`, `BatchDone`, `WriteFingerprint` | the stages of `reindexAllChunks` |
| `StoreRestart` | the store comes back empty (no vector log) |
| `GatewayRestart(m)` | the gateway dies and comes back with model `m` configured; of what it had sent, the store may still carry out any part |

### 2.7 The conversation wiki

| in `ConversationWiki` | code |
|---|---|
| `pool`, `lock` | the connections of the `pg` pool; the advisory locks (`db.js:1499`), each of which keeps one |
| `turns`, `page` | turn items and article items; an article is the set of turns it was written from, its revision and its checkpoint |
| `wikiJobs`, `task` | job rows; where a job run or a request is and what it has read |
| `Locking`, `ReadPages`, `ReadTurns`, `AskModel`, `WritePage`, `IndexPage`, `ListPrunable`, `DeleteItem`, `Finish` | `runConversationWikiUpdateJob` (`index.js:9497`) |
| `ListCollection`, `WaitForLock`, `ClearJobRows`, `GiveBack` | `clearConversationMemoryCollectionWithDeps` (`index.js:9301`) |
| `RequestPage`, `KeepPage` | PUT and DELETE of an article (`index.js:14991`, `15123`) |
| `NoConnection` | no connection within `DB_CONNECT_TIMEOUT_MS` |
| `Exchanges`, `NewTurns`, `Prunable` | which turns an update reads and which it may delete |

### 2.8 The meter

| in `StorageMeter` | code |
|---|---|
| `queue`, `telling` | `storageUsageSyncQueue`; a change made and not yet announced |
| `usage`, `billing`, `months` | the three tables of `db.js:2676-3288` |
| `work` | a transaction: what it has read and holds locked |
| `Flush`, `Sweep`, `AskUsage` | the debounced flush, the hourly sweep, GET `admin/usage` |
| `Measure`, `WriteUsage` | `syncTenantStorageUsage` up to the billing rows |
| `HoldBilling`, `Commit` | `FOR UPDATE` on the billing row; the accrual, split by month, and COMMIT |

Writes of a transaction are made at its commit, for its locks keep the others
from seeing or overwriting them before. Time is one clock; a sweep uses the time
it began at, as in the code, so transactions may carry times out of order.
`charged` counts for each unit of time how often it was billed and at what size.

### 2.9 The lifecycle

| in `Lifecycle` | code |
|---|---|
| `policy`, `Clamped`, `TierFor` | `resolveTierThresholds`, `resolveTierForValue` |
| `items` | value, tier, pinned and expiry of `memory_items` |
| `updater` | `flushMemoryEventQueue` or `runValueDecayOnce` with the rows it has read |
| `sweep` | `runLifecycleOnce`: rows as listed, item in hand, group, budget used |
| `NextRow` .. `DeleteOne` | its branches, in their order; `compactLowValueGroup`; `deleteMemoryItemFully` |
| `marks` | history: which items were low, and which unpinned, at some time since the sweep began |

Values are the smallest steps that the thresholds tell apart; a decay takes one
step or none. Summaries and promotions are new items and are left out.

### 2.10 The store client

| in `StoreClient` | code |
|---|---|
| `cursor`, `lane` | `mapWithConcurrency`; a runner's batch, unparsed text and replies |
| `inbox`, `stream` | per connection: lines its thread has not read; text not received |
| `Serve`, `ThreadEnds` | `client_thread` (`server.cpp:722`) |
| `Receive`, `LinesOf`, `Remainder` | the data handler of `sendCmdBatch`, `extractReplyLines` |
| `TimesOut`, `Breaks` | the inactivity timer; error and close |
| `alone` | a single command (`sendCmd`): where it is, and what the caller was told |
| `SendAlone` .. `AloneBreaks` | its connection, the thread in the store, its one reply line, its timer, an error |

`sendCmd` has no handler for a connection that merely closes, so after a silent
close only its timer ends the wait.

### 2.11 Compactions

| in `Compaction` | code |
|---|---|
| `there`, `births` | rows of `memory_items`; a row inserted again has another id |
| `text` | the chunks of an item, as the set of notes whose content they tell |
| `task` | a run of `runCompactionJob` or `compactLowValueGroup`: where it is, the items it has still to see to, those included, what the model was given |
| `attempts`, `Throws` | `finalizeJobFailure`: queued again until the attempts are used up; the sweep just ends |
| `doomed`, `Reconcile` | `delete_reconcile` jobs |
| `ListItems`, `FindGroup` | `listMemoryItemsForCompaction`; the search, the group and the cooldown |
| `ReadText` .. `Finish` | the text loop with its size limit, the model, `upsertMemoryItem`, `deleteVectorsForDoc`, `indexMemoryText`, `createMemoryLink` with its foreign keys, `deleteMemoryItemFully` |
| `Forget` | a request that deletes an item |

A model is taken to lose nothing of the text it is given: what is followed is
whether an item's text reaches it and its answer stays. Visibility, policies and
`maxItems` are left out; two runs of one job do not overlap, which is `OneRunner`.

### 2.12 Abstractions of the store

* Keys, values, ids and vectors are model values. What matters about their text
  is given by constant functions: the dimension of a vector, its value after six
  decimals (`Rounded`), the ids a prefix matches, and what a text cut short
  spells (`CutOf`).
* A line that lacks its newline is followed by the next append on the same text
  line; `Fused` says what replay makes of the two together.
* The time to live in the log is in seconds from the moment it is replayed. A
  key that has expired and was cleaned up is therefore in the log still, and a
  restart before the next compaction brings it back for its full time. The model
  has this, and `KvAgrees` allows it: what the log may not do is bring back
  another value, or a key that was deleted.
* `FsyncWal` syncs the lines written so far. `sync_file` opens the path first, so
  a rename in between makes it sync a file that is already replaced; that is a
  round that did nothing and is not a step.
* The `int` of a time to live and `std::stoi` on a client's own command are not
  modelled: a throw there happens before the lock and closes the connection.

## 3. Properties and runs

| property | says |
|---|---|
| `LogIsMemory` | with no command under way, replaying the log gives the memory of the process: its vectors as text, its dimension, its strings, the times left |
| `SyncedStateSurvives` | with the log and its directory synced, so does what a host crash leaves |
| `WriteAhead` | a value that a `GET` can newly see is in the log already |
| `ReplayRebuilds` | replaying the snapshot of memory in any order of its lines, or the appended lines one after the other, gives the images the model works with |
| `DimsConsistent` | all stored vectors have the one dimension the index reports, in memory and in whatever any log can rebuild |
| `ReplayWorkBounded` | the vector lines that the counter counts stay within the compaction limit, but for three per crash |
| `LockReleased` | a client that holds the mutation lock gives it back |
| `ImplementsDurableMap` | the store refines `DurableMap` |
| `BucketsHoldVectors` | every hash table holds exactly the stored vectors, each once, in the bucket of its present value; the planes have their dimension |
| `SearchIsExactInBuckets` | an approximate search that may look at as many candidates as there are gives the exact result among the vectors that share a bucket with the query |
| `NothingLost` | what an item told is told by some item until a request deletes it, however compactions overlap and fail, provided none begins beside a summary of its own |
| `OnePayloadPerKey` | no other payload gets to the handler of a key, or is given its answer |
| `AtMostOneAtWork` | one request at a time works on a key |
| `OneAnswerPerKey` | all requests that are answered get the answer of one run |
| `ImplementsAnswerOnce` | the requests refine `AnswerOnce` |
| `OneRunner` | no two runs of a job are under way |
| `RunsBounded` | no job is claimed more often than its attempts allow |
| `EndIsFinal` | a job that ended and is not being run is never run again |
| `JobsEnd` | a queued job ends with the help of the sweep alone, unless a fault left it marked running |
| `Settled` | after a write that succeeded and that no other worker met, the document has exactly the chunks of its text, each with its vector, its item and its text; after such a delete it has nothing; whatever had failed before |
| `NoOrphanVectors` | a document that never had two workers at a time leaves no vector without a chunk row |
| `ExpiredGoes` | an item past its time goes, also when the store refuses at first |
| `SettledBesideRebuild` | the same as `Settled` while the index is cleared and rebuilt beside the request |
| `RebuildIsComplete` | after a rebuild that reports completed every chunk that nobody touched has its vector, of the current model |
| `SwitchIsNoticed` | a gateway that comes back with another model does not end its check with vectors of the old one, if the store recorded which model it held |
| `EmptyStoreRefills` | a store that came back empty while there are chunks gets vectors again |
| `PrunedWasRead` | a turn is pruned only after an article was written from it |
| `ArticleGrows` | nobody overwrites an article he has not seen: each version is the next one and written from no less |
| `ListedIsDeleted` | what a clear listed is gone when it reports success, or a job will see to it |
| `LocksAreFreed` | every advisory lock comes back, whatever fails and however few connections there are |
| `SecondsBilledOnce` | every second since the tenant's first row is billed once, and a month's byte-seconds are those of its own seconds |
| `MonthsClose` | the billing that passes the end of a month closes it, and nothing is added to it afterwards |
| `ChangesAreMetered` | when all is quiet the last measurement is what is stored, and what is billed |
| `RepliesMatch` | a command is carried out at most once; one reported done was carried out and accepted; whoever gets results gets one for each command |
| `TiersNeverTurnBack` | under any thresholds, an item whose value stays does not go to and fro between two tiers |
| `DeletedWereLow` | a lifecycle sweep deletes only what was low at some time since it began, and unpinned at some time since, or expired |
| `BudgetKept` | a sweep deletes no more than its budget, one by one or in groups |

`DocTypeOK` and `WikiTypeOK` are the type invariants of the runs below. Those of
the store, the keyed requests, the jobs, the tables and the
lifecycle are proved (section 4) and not repeated in runs.

`DurableMap` is what a user of the store may rely on: a map at most one command
ahead of what is recorded; a process crash goes back to the recorded map, a host
crash to one of the maps recorded since the disk last caught up, never to one
that was not there.

| run | shows | bounds |
|---|---|---|
| `wal` | `LogIsMemory`, `SyncedStateSurvives`, `ReplayRebuilds`, `WriteAhead`, `ImplementsDurableMap` with two clients, a crash of either kind, failing rewrites and directory syncs that do nothing | 2 ids, 3 vectors (one rounds to another, one has two dimensions), 2 prefixes, 1 key, limit 2, 2 lines since a rewrite |
| `compaction` | `ReplayWorkBounded`, and `LogIsMemory` with time | 1 id, 1 client, limit 1, times to live of 0 and 2 seconds of 2 ticks, 5 ticks, 1 crash |
| `faults` | `DimsConsistent` with torn lines, an id that cut short spells another, failing rewrites; `LockReleased` under fairness, with `VECTOR_WAL` on or off at every start | 2 ids, 2 dimensions, 1 client, 2 crashes |
| `retries` | five properties of two parts that share nothing: | |
| - requests | `OnePayloadPerKey`, `AtMostOneAtWork`, `OneAnswerPerKey`, `ImplementsAnswerOnce`; one request may fail and be taken over by its retry | 2 requests for each of 2 payloads, time to live 4, clock skew 1, a run, and a record on its way, at most 1 tick, 6 ticks |
| - compactions | `NothingLost` with a deletion by a request and a fault at any step | 2 items, a job that deletes its originals and the sweep at one seed, 2 attempts each; nothing is explored after a task began beside its own summary |
| `documents` | `Settled`, `NoOrphanVectors`, `ExpiredGoes`; batches refused or carried out late, texts that cannot be saved, gateways that die | 1 document of 1 or 2 chunks, 2 workers, 2 requests of any kind, faults worth 2, 2 attempts |
| `rebuild` | the four properties of the rebuild beside a writing request | 3 models (two of one dimension), 1 writer, 2 requests, 1 fault, 1 outage of store or gateway, pages of 1, batches of 2 |
| `wiki` | `PrunedWasRead`, `ListedIsDeleted`, `ArticleGrows`, `LocksAreFreed` | updates of two conversations (one a forced rebuild), a clear, an edit and a deletion, two at a time on a pool of 2 connections; 3 turns, 1 fault, 2 attempts |
| `parts` | thirteen properties of five parts that share nothing, each for itself: | |
| - jobs | `OneRunner`, `RunsBounded`, `EndIsFinal`, `JobsEnd` | 2 jobs, 2 gateways, 2 attempts, a sweep of 1, 1 fault of any kind |
| - index | `BucketsHoldVectors`, `SearchIsExactInBuckets`, all states | 3 ids, 3 vectors of one dimension (one of length zero) and 2 of another, 2 tables with 2 signatures, 2 prefixes |
| - meter | `SecondsBilledOnce`, `MonthsClose`, `ChangesAreMetered` | 3 ticks with months of 2, 2 sizes, a flush and a sweep at a time, 2 requests, 1 fault |
| - client | `RepliesMatch` | 5 commands in batches of 2, 2 lanes, 1 break |
| - lifecycle | `TiersNeverTurnBack`, `DeletedWereLow`, `BudgetKept` | every order of the four thresholds over values 0 to 3; 2 items followed with one policy, budget 1, groups of 2, 1 round of updates |
| `torn_start`, `fingerprint`, `clear`, `selfcompact` | violations: section 5 | |

Why the bounds are enough: a disagreement between log and memory needs one
command to go wrong, or two that overlap, and a crash; two clients, two ids (so
that a removal leaves something or empties the index) and two appended lines
before a rewrite give every such pair, and compaction happens at the limit of 1
or 2. More crashes only start again from a state of the same kind, except where
the damage adds up: `faults` and `torn_start` have two. `WalFloor` is 10000 in
the code. `MaxLines` stops new commands, never a command under way. `faults` leaves
failing appends out: with rewrites failing too, the counter would have no bound.
It does not check for deadlock: with a line that replay throws on, the
process is down for good, which is what `torn_start` is about.

Keyed requests need four to have both a retry and a stranger, before and after a
failure; the constants of `retries` are the smallest for which time runs out once
and starts over. The request that may fail has one retry only, for two that take
over at the same moment do break `OneAnswerPerKey` (section 5). Two compactions
and two items are the least for which one sums up the other's summary while it
is being written or its items deleted.
A job needs two dispatches in two gateways and a failure between them; a sweep of
one makes a second sweep necessary.

Documents do not share rows or vectors, so one is enough for what its writers do
to each other; a text of two chunks replaced by one of one chunk leaves a row to
drop, and two requests with two faults reach a half-written document that is
written over. A rebuild needs a page that is not the last and a batch that is not
full, a model of the same dimension and one of another. A conversation needs a
turn that the article keeps, one it prunes and one that comes late; a pool of two
is the smallest on which a lock and a query beside it fit, and two holders
starve each other. A month boundary is crossed once before and once
inside a billing. Three batches on two lanes make a lane take a second batch
while the other still runs.

No run but `wal`, `compaction` and `torn_start` checks for deadlock: in the
others requests, jobs, time or the bounded faults end.

`ReplayWorkBounded` allows three lines per crash: a crash between an append and
its check leaves a line that the restart counts but no check follows, and a
removal under way can lower the limit by two.

### 3.1 Fairness

Safety properties need none. The liveness properties are checked under weak
fairness, of these steps only:

| run | fair | because |
|---|---|---|
| `faults` (`LockReleased`) | a client's steps inside a command | the threads are OS threads; nothing in a command waits except for the lock, and a step inside a command holds it |
| `parts`, jobs (`JobsEnd`) | the sweep, the steps of a run, the passing of time: while one of them can go on, one does | the sweep runs at an interval and its flag is reset whatever happens; dispatches and timers, which die with their gateway, are not fair |
| `documents` (`ExpiredGoes`) | the work of the gateway and the firing of the sweep | statements and commands answer or time out (`TCP_TIMEOUT_MS`, the pool's limits); the sweep has an interval |
| `rebuild` (`EmptyStoreRefills`) | the steps of a rebuild, the watch and the start-up timer | the event loop goes on, embeddings and commands end or fail |
| `wiki` (`LocksAreFreed`) | the steps of each job and request that has a connection or waits for one | statements and models time out, and so does waiting for a connection |

Nothing is assumed of new requests, of background threads of the store, of
clocks, of restarts or of faults.

## 4. Proofs

`StoreProofs` proves, for every value of the constants that meets the named
assumptions of `StoreData`, `Wal` and `Store`:

* `TypeCorrect`: `Spec => []TypeOK`.
* `OneDimensionAlways`: `Spec => []DimsConsistent`, whatever fails. The inductive
  invariant says it of memory, of the base of every file and of the image beside
  every line of every tail; the lemmas behind it are that each index operation,
  and with them each line of replay, preserves it.
* `LogsReplay`: `Spec => []ReplayRebuilds` for a finite set of keys, whatever
  fails. The invariant is the same one, `DimsInv`: `FlatAt` also says that the
  image beside a line is what the line makes of the image before it, which has to
  survive lines that are cut, lost or continued. That a fold over such a sequence
  gives the last image (`ReplayIs`) is shown of the function `FoldLeft` computes
  with, without induction: of the prefixes for which it fails there would be a
  shortest. For a snapshot the images in between are `Rebuilt` of the lines met so
  far, whatever their order; that a sequence of all lines without repetition meets
  each of them is what needs the finite set.
* `LogRebuildsMemory`: `SafeDisk => (Spec => []LogIsMemory)`.
* `SyncedLogRebuildsMemory`: `SafeDisk => (Spec => []SyncedStateSurvives)`.
* `LogBeforeMemory`: `SafeDisk => (Spec => WriteAhead)`.
* `StoreIsDurableMap`: `SafeDisk => (Spec => ImplementsDurableMap)`.
* `ReplayStaysShort`: `RewritesSucceed => (Spec => []ReplayWorkBounded)`, where
  `RewritesSucceed` is `SafeDisk` without failing rewrites.

`SafeDisk` says that `VECTOR_WAL` is on at every start, that appends do not fail
and that no line is cut short; rewrites and directory syncs may fail. Each of the
three is needed: the violation runs are what happens without it.

`LogIsMemory` speaks of the moments when nobody holds the lock, so it is not
inductive. `LogInv` adds what holds inside a command: who holds the lock is the
only client not idle (`LockInv`); while a string command is under way the log is
one line ahead of memory (`StringsFollow`), while a vector command is under way
memory is ahead of the log by exactly the line in `arg` (`VecsFollow`: replaying
that line on what the log builds gives memory); every file, the replaced ones
included, is well formed and free of lines that throw (`GoodFile`), so that any
of them can be restarted from. `LogInv` was checked with TLC in the setting of
the run `wal` before it was proved. `SyncedStateSurvives` and `WriteAhead`
follow from it. The refinement
maps the live map of `DurableMap` to the vectors in memory, or in the log while the
process is down, the recorded map to what the log builds, and the maps it may return to
to what any file the disk may have builds; each step is then shown to be a step
of `DurableMap` or a stutter: a command's change of memory, its append or the
rename of its compaction, the syncs, and the two crashes.

`ReplayWorkBounded` needs `WorkInv` beside `LogInv`: what the counter knows of the
log at each step of a command (one line less than replay meets between an append
and its count, the size of memory once the log is rewritten), that a removal by
prefix whose line is not counted removed nothing, and that no point of any log that
can come back, the replaced ones included, is more than three lines beyond what
the crashes so far allow. Three because the line of a removal can be in the log
before it is counted, and lowers the limit by two. A crash that falls there is
what the next three lines are allowed for.

`StorePartsProofs` proves of the index, for any number of tables, signatures, ids
and vectors:

* `IndexTypeCorrect`, `BucketsAlwaysHoldVectors`: `Spec => []BucketsHoldVectors`.
  The property is inductive together with the type and one fact, that the
  dimension is 0 exactly while there is no vector: it is what makes planes that
  survive an operation fit the next vector.
* `SearchAlwaysExactInBuckets`: with the limit at least the number of what may be
  found, all of it is collected, and what is collected are the stored vectors
  that share a bucket.

and of the client, for any commands, batch size, runners and breaks:

* `RepliesAreMatched`: `ClientSpec => []RepliesMatch`. `ClientInv` says where
  each character of a batch's answer is: the replies a runner has, what it has not
  parsed, and what is on its way are, in this order, one reply and one line end
  per command served so far, and the thread's inbox holds the commands after those
  (`LaneOf`, `InboxOf`). The lemmas about parsing (`PairedLines`) say that such a
  text, cut anywhere, is taken apart into its lines with at most one character
  left over. It rests on every batched command being answered with one line that
  is not empty, which is how `Serve` has the store; a single command's answer may
  be empty (`SendingAlone`).

`RetriesProofs` proves of keyed requests, for any requests, payloads and times:

* `IdemTypeCorrect`, and `KeyHasOnePayload` whatever fails: nobody changes the
  hash of a row, and who works or answers has compared it.
* `OneAtWork`, `OneAnswer`, `RequestsAnswerOnce` under `Timely`, a run, a record
  on its way and the skew together stay below the time to live, and `OneRetry`,
  a request that may fail has at most one other with its payload. The invariant
  behind them (`WorkInv`) says that while somebody works the row is his and young,
  so that a record read by another is no older; that a row nobody works on, and
  that has no answer, was left by a request that failed; and that who finds it
  so and takes it over is the only one left with that payload until he has
  (`Resuming`): between the read, the judgement and the touch nobody else can have
  come. Both assumptions are needed: without the first a request that is still at
  work is taken over, without the second two retries of a failed request both take
  it over (section 5).

and of compactions, for any tasks, items, attempts and faults:

* `CompactionLosesNothing`: `NothingLost`. While no task has begun beside its own
  summary, a task is about to delete, or leaves to the reconcile job, only items
  that its summary tells, and its summary is condemned by nobody who has not told
  it in turn. The order of births keeps that from going round: an item is told
  by one that is younger, so there is always one that nobody condemns
  (`TasksHeld`, in `HeldInv`).

`MemoryProofs` proves for any jobs, gateways, attempts and faults:

* `JobsTypeCorrect`, `JobHasOneRunner`, `JobRunsBounded`, `JobEndIsFinal`. Behind
  the last three is one invariant: nobody runs a queued job, the attempts in a
  queued row are the claims so far, and a run was claimed once more than the
  attempts it read, which were below the limit. It survives updates that were
  carried out but not heard of, and deleted rows.

and of the lifecycle, for any items, values, policies, budgets and groups:

* `TiersStay`: `TiersNeverTurnBack`, from the way the four thresholds are clamped
  one after the other; no state is involved.
* `DeletedAlwaysLow`: `DeletedWereLow`. The inductive invariant follows a row
  from where it was read to where it is used: what is low or free now is noted
  (`NotedInv`), a listed row that says unpinned was so at some time of the sweep
  (`ListedInv`), the item in hand and its group likewise (`InHandInv`,
  `ChosenInv`), and so what was deleted (`TakenInv`).
* `BudgetAlwaysKept`: `BudgetKept`. Deletions so far and those still owed to the
  chosen group stay within what the sweep has reserved, and that within the
  budget.

`StorageMeterProofs` proves for any gateways, requests, sizes, faults and length
of a month, from one invariant, `MeterInv`:

* `SecondsAreBilledOnce`: `SecondsBilledOnce`. What is billed is one piece that
  ends where the billing row says; who holds that row knows it as it is, and one
  who found no row still knows the last measurement, for whoever measures leaves a
  billing row behind. That a month's byte-seconds are the sum over its own seconds
  (`SumsInv`) needs two facts about `FoldSet`: the function it computes with
  exists (`SumExists`, `SumIs`), and adding to some members adds that much for each
  (`SumChanged`); and that the part of a time span that lies in a month has as many
  units as `splitRangeByUtcMonth` says (`ElapsedIsUnits`). Where these lemmas
  would need induction they take, of the sets for which the claim fails, one that
  contains no other (`SmallestSet`): the induction theorems of the library take
  an operator and cannot be used, but that there is such a set can.
* `ClosedMonthsStay`: `MonthsClose`. A month is closed when, and not before, the
  row has passed its end.
* `QuietMeterIsRight`: `ChangesAreMetered`. A change that is not measured is owed
  (`Owed`): somebody is yet to announce it, has it in a queue, or will measure,
  or has measured just that.

`DocIndexProofs` proves for any documents, texts, workers, requests and faults:

* `DocTypesAreRight`: `DocTypeOK`, with the shape of a worker at each of its
  statements; a reconcile job is run by one worker and not beyond its attempts.
* `SettledDocumentsAreRight` and `NoVectorIsOrphaned`: `Settled` and
  `NoOrphanVectors`. For a document whose worker has met no other the invariant
  `DocInv` says what that worker, at its statement, has already done
  and still has to do: which vectors are without a chunk row, that each of them
  is on its list of commands, and what the store may still carry out of batches
  that were given up (`LateInv`). A document nobody has is the last of these
  states.

  Where a rebuild works beside them, its vectors may stand for those of a
  document's own writer. `DocInv` therefore has a parameter, the set `mix` of
  documents of whose vectors only their being there is claimed: `{}` in
  `DocIndex`, `mixed` in `Reindex`.

`ReindexProofs` proves for any finite sets of documents and chunks, any models,
sizes of pages and batches, requests, faults and outages, from one invariant,
`RebuildInv`, whose first part is `DocInv(mixed)`: every step of a rebuild, the
watch and an outage is shown to keep it (`LoseInv`, `WorkersDieInv`), as are the
steps of `DocIndex` (`StepKeepsDocs`).

* `RebuildTypesAreRight`: `DocTypeOK`, and the shape of a rebuild at each of its
  statements.
* `DocumentsSettleBesideRebuilds`: `SettledBesideRebuild`. What a rebuild has read
  and not yet sent is what the rows say, but for documents of `mixed` that
  somebody touched meanwhile (`HeldInv`), so it replaces no newer vector that the
  property speaks of.
* `RebuildsAreComplete`: `RebuildIsComplete`. While the rebuild walks, each chunk
  of a document nobody touched is done or still ahead of it (`WalkInv`): after the
  last id of its page, in the page or in the batch. That pages are cut in the
  order of the ids and miss none rests on a finite set of numbers having a least
  (`LeastOf`).
* `SwitchesAreNoticed`: `SwitchIsNoticed` under `AlwaysChecked`: neither
  `REINDEX_MODE` nor an admin's request is `off`. With `off` the code skips the
  check and says so (`index.js:4399`), which is what the setting is for.
  While a vector of an earlier model is left behind a chunk, the fingerprint names
  another model than the configured one, and the rebuild has that chunk ahead of
  it (`OldIsFound`); whoever is at work embeds with the configured model, for a
  restart that changes it ends all of them (`OneModel`).

`ConversationWikiProofs` proves for any conversations, turns, jobs, requests,
pools and faults, from `Base`, which says who may be at which statement, that a
row is marked running while somebody runs it, and that updates and requests hold
their conversation's lock between first read and last deletion:

* `WikiTypesAreRight`: `WikiTypeOK`.
* `ArticlesGrow`: `ArticleGrows`. Under the lock the article is the one that was
  read, or has gone (`SeenInv`): expiry, reconcile jobs and a clear that has
  other locks may delete it, and what is written then is another article.
* `WhatIsPrunedWasRead`: `ShortConversations => (WikiSpec => []PrunedWasRead)`.
  Turns are written in order (`Ordered`), so those an update lists in one go
  leave no gap, and what lies up to a checkpoint was read (`Covered`): the
  checkpoint in the article, the one an update has read and the one it will
  write. `ShortConversations` says that one reading takes a whole conversation
  (32 turns in the code); without it the property is false (section 5), and
  instances of it are what the run explores.
* `WhatWasListedIsDeleted`: `OneClear => (WikiSpec => []ListedIsDeleted)`. An item
  that has gone never comes back (`GoneForGood`: an article written anew is
  another item), and at each statement what is left of the list is in the clear's
  own list or has a reconcile job (`ListedInv`). `OneClear` says that the
  collection is cleared by one job, which may be tried several times; a request
  for a clear joins the one that is active (`index.js:9462-9481`), but one that
  comes after its end starts another, which deletes the reconcile jobs of the
  first: with two the property is false (section 5).

Only model-checked is liveness (`LockReleased`, `JobsEnd`, `ExpiredGoes`,
`EmptyStoreRefills`, `LocksAreFreed`), which is out of the reach of the provers.

## 5. Where code and documentation disagree

| run | what it shows |
|---|---|
| `torn_start` | "Unknown WAL line: ignore" (`server.cpp:697`), but a line cut short and continued by the next append can make `std::stoi` throw during replay, and nothing catches it: the process does not start again |
| `fingerprint` | "Switching to another model of the same dimension [...] now clears and rebuilds instead of silently mixing vectors from two models" (`CHANGELOG.md:29`), but a store whose first documents came after its first start has no fingerprint, so the new model is adopted and the two are mixed |
| `clear` | "Cleared stored conversation memory, wiki articles, [...]" (`gateway/index.js:9356`), but an article that an update under way writes after the items were listed stays |
| `selfcompact` | a compaction job reports `summaryId: memory.id` (`gateway/index.js:10360`), but a run that is retried after it had written its summary lists that summary with the other items (all types are the default, `index.js:10150`), writes over it, and with `deleteOriginals` deletes it with them: job succeeded, summary and originals gone |

What follows was met while modelling and has no run of its own. Each is in the
models as the code has it, so no property is stated over it.

The store. A line cut short makes replay drop the line that follows it however
often it was synced, which "at most that window" (`docs/self-hosting.md:145`)
leaves out. An append that fails is answered as if it had been made, against
"Stores every change so data survives crashes" (`wal.h:13`). `SafeDisk` assumes
both away. With `VECTOR_WAL=0` replay still applies vector lines of earlier
starts, so the store does not "come back empty" as the same line says. A
`VDELPREFIX` that removes nothing is appended and not counted, so the log may
hold more than "twice the live vectors".

Keyed requests. "Idempotency keys (hard guarantees for writes)"
(`gateway/schema.sql:207`), but the touch that takes a row over
(`gateway/db.js:1561`) looks neither at its status nor at the time it was read
with: after a request has died, two retries that have both read its row both
take it over, both run the handler, and get two answers. `Idempotency` has this:
with three alike requests, one of which may fail, `OneAnswerPerKey` is violated.

Compactions. With types that exclude summaries, a job that is retried after it
deleted some originals writes its summary anew from the items that are left, and
what the deleted ones told goes with the old one. The lifecycle's compaction of a
group does the same once its cooldown is over. `NothingLost` sets both apart
(`again`).

Documents. Two workers on one document are not kept apart: rows saved between
another's reading and dropping of rows leave vectors without chunks, and a
`delete_reconcile` job that is carried out late deletes a document (or an
article) that was written again. Re-ingest says each document "swaps
atomically" (`gateway/reingest.js:7`), but it is written like any other, one
statement and one batch at a time, and the joined chunks of a document that two
writes have mixed are garbled. A text that cannot be saved does not fail the
write; a later re-ingest then takes the joined chunks, or the text before.

The rebuild. A restarted store is noticed by "no vectors at all"
(`index.js:4542`): one document indexed before the watch looks is enough to hide
it ("rebuilt automatically", `docs/self-hosting.md:145`). A rebuild that embeds
rows it has read may put an older vector over the one a request has stored
meanwhile; `SettledBesideRebuild` claims the text of the vector only for
documents that no rebuild held (`mixed`). Vectors without chunks count as
vectors, so they can hide missing ones.

The wiki. A first or forced update of a conversation with more than 32 turns
writes the article from the latest and prunes the others, read or not
("without discarding durable context", `docs/hosted.md:187`). A turn whose text
is written after a later turn's was read is passed over by the checkpoint. A
failure between writing the article and indexing it leaves it unindexed: the
retry finds the update not due. An update that finds its conversation locked
succeeds without doing anything, and a request that finds a job active starts
no other. Every lock keeps a pool connection: a clear of as many conversations as
the pool has connections always fails, as many updates starve the rest, and a
failed run that gets no connection to say so stays marked running. A clear
deletes the reconcile jobs of its collection (`deleteMemoryJobsByCollection`,
`gateway/db.js:1705`), those included that an earlier clear has left for what the
store refused: what that one reported as cleared then depends on the second
clear, and stays if that one fails for good. `ListedIsDeleted` is about one clear.
The prefix that a clear matches with `LIKE` may contain `_`.

The meter. A measurement that commits after a later one with an older time puts
its bytes over the closing bytes of a closed month, or opens a month that
nothing closes. A flush that fails is not made up for until the next change.
Two first measurements without a row to lock may leave the older size;
`ChangesAreMetered` sets both cases apart (`missed`).

The lifecycle. Increments of the reuse count can be lost between a read and a
write; a flushed event may put back an older time, so that the next decay counts
an interval twice. An item pinned between its listing and its deletion is
still deleted, which is why `DeletedWereLow` says "at some time". Members of a
group need only be below the summary threshold, and the decision to evict takes
the thresholds of the default policy rather than the item's.

The circuit breaker opens only on overlaps that shadow mode measures, where the
approximate search never answers; in auto mode, which is rolled out after
(`README.md:418-420`), it measures nothing and never opens.

## 6. Plan

Done so far: the store and its log, the index, keyed requests, jobs, documents
with re-ingest and rebuild, the wiki, the meter, the lifecycle's sweep,
compactions, the store's client; theorems about all of them.

Next, models: redundancy, promotion and the reflection jobs; the legacy server,
whose log and memory are written without a lock around both.

Not modelled, and why:

* retrieval, ranking and answers, chunking, prompts: functions of text and
  floating-point scores without shared state. What a model could say of them
  is either the numbers themselves or nothing;
* model providers, SDKs, the portal, the command line tools, deployment and
  evaluation scripts: input, output and configuration around the HTTP API. By
  lines they are most of the repository, so the models cover a small share of
  its lines while they cover most of what keeps state;
* the circuit breaker: a counter and a time within one event loop;
* authentication and telemetry: checks at the edge, reports.
