-------------------------- MODULE ConversationWiki --------------------------
(***************************************************************************)
(* The wiki article of a conversation (gateway/index.js): update jobs fold *)
(* the newest turns into the article and prune the turns behind its        *)
(* checkpoint; requests overwrite or delete the article; a clear job       *)
(* deletes a whole collection.  All of them take the advisory lock of the  *)
(* conversation, which keeps a connection of the pool until it is given    *)
(* back, while every other statement needs a connection for a moment.      *)
(*                                                                         *)
(* One collection and one gateway.  Of the life of a job row only what the *)
(* wiki needs is here (MemoryJobs has the rest); an item is deleted in one *)
(* step (DocIndex has its statements).                                     *)
(***************************************************************************)
EXTENDS Integers, FiniteSets, FiniteSetsExt

CONSTANTS
  Convs,         \* the conversations: numbers, in the order of their ids
  Turns,         \* the turns: numbers, in the order of created_at
  ConvOf, Role,  \* of a turn
  UpdateJobs, ClearJobs, Edits, Removals,   \* what may be asked for, once each, as numbers
  Rebuilds,      \* the update jobs with force
  Nobody,
  MaxSource,     \* CONVERSATION_WIKI_MAX_SOURCE_TURNS
  KeepRecent,    \* keepRecentTurns, in exchanges
  UpdateEvery,   \* updateEveryTurns
  WikiAttempts,  \* JOB_MAX_ATTEMPTS
  MaxAsked,      \* bound: requests in all
  Pools,         \* the sizes the connection pool may have
  WikiFaults,    \* what may go wrong
  MaxWikiFaults  \* bound: how often

Tasks == UpdateJobs \cup ClearJobs \cup Edits \cup Removals

ASSUME WikiAssumption ==
  /\ IsFiniteSet(Convs) /\ Convs \subseteq Nat
  /\ IsFiniteSet(Turns) /\ Turns \subseteq Nat \ {0}
  /\ ConvOf \in [Turns -> Convs] /\ Role \in [Turns -> {"user", "assistant"}]
  /\ IsFiniteSet(Tasks) /\ Tasks \subseteq Nat /\ Nobody \notin Tasks /\ Rebuilds \subseteq UpdateJobs
  /\ UpdateJobs \cap ClearJobs = {} /\ Edits \cap Removals = {}
  /\ (UpdateJobs \cup ClearJobs) \cap (Edits \cup Removals) = {}
  /\ MaxSource \in Nat \ {0} /\ KeepRecent \in Nat /\ UpdateEvery \in Nat \ {0}
  /\ WikiAttempts \in Nat \ {0} /\ MaxWikiFaults \in Nat /\ MaxAsked \in Nat /\ Pools \subseteq Nat \ {0}
  /\ WikiFaults \subseteq {"model", "index", "vdel", "query", "expire", "crash"}

VARIABLES
  pool,       \* the size of the connection pool
  turns,      \* per turn: no row, a row whose text is not saved yet, saved, gone
  page,       \* per conversation: the item of its article
  lock,       \* per conversation: who holds the advisory lock
  wikiJobs,   \* per job: its row, and what a clear has listed
  task,       \* per task: where it is and what it has read
  reconcile,  \* the items that have a delete_reconcile job
  everRead,   \* history: the turns some article was written from
  pruned,     \* history: the turns an update has deleted
  wikiFaults  \* how often something went wrong

wvars == <<pool, turns, page, lock, wikiJobs, task, reconcile, everRead, pruned, wikiFaults>>

(* An article: born tells an item from one created anew after a deletion,  *)
(* read are the turns it was written from.                                 *)
Pages == [there: BOOLEAN, born: Nat, rev: Nat, checkpoint: Nat,
          read: SUBSET Turns, indexed: BOOLEAN]
NoPage(born) == [there |-> FALSE, born |-> born, rev |-> 0, checkpoint |-> 0,
                 read |-> {}, indexed |-> FALSE]
PageItem(c) == <<"page", c, page[c].born>>
TurnItem(t) == <<"turn", t>>

JobStates == {"none", "queued", "running", "succeeded", "failed", "gone"}
NewJob    == [status |-> "none", attempts |-> 0, conv |-> 0, listed |-> {}]
Places    == {"idle", "claimed", "pages", "turns", "model", "write", "index", "list",
              "delete", "unlock", "finish", "fail", "wait", "undo", "over"}
Rest      == [at |-> "idle", conv |-> 0, seen |-> NoPage(0), new |-> {}, prompt |-> {},
              items |-> {}, todo |-> {}]

WikiInit ==
  /\ pool \in Pools
  /\ turns = [t \in Turns |-> "none"]
  /\ page = [c \in Convs |-> NoPage(0)]
  /\ lock = [c \in Convs |-> Nobody]
  /\ wikiJobs = [j \in UpdateJobs \cup ClearJobs |-> NewJob]
  /\ task = [x \in Tasks |-> Rest]
  /\ reconcile = {} /\ everRead = {} /\ pruned = {} /\ wikiFaults = 0

(* The type invariant. *)
WikiTypeOK ==
  /\ pool \in Pools
  /\ turns \in [Turns -> {"none", "row", "saved", "gone"}]
  /\ page \in [Convs -> Pages]
  /\ lock \in [Convs -> Tasks \cup {Nobody}]
  /\ \A j \in UpdateJobs \cup ClearJobs :
       /\ wikiJobs[j].status \in JobStates
       /\ wikiJobs[j].attempts \in 0 .. WikiAttempts
  /\ \A x \in Tasks :
       /\ task[x].at \in Places /\ task[x].seen \in Pages
       /\ task[x].new \subseteq Turns /\ task[x].prompt \subseteq Turns
       /\ task[x].todo \subseteq Convs
  /\ everRead \subseteq Turns /\ pruned \subseteq Turns
  /\ wikiFaults \in 0 .. MaxWikiFaults

-----------------------------------------------------------------------------
(* What an update reads.                                                   *)
StoredTurns(c) == {t \in Turns : ConvOf[t] = c /\ turns[t] \in {"row", "saved"}}
WithText(s)    == {t \in s : turns[t] = "saved"}
Newest(s, n)   == {t \in s : Cardinality({u \in s : u > t}) < n}
Oldest(s, n)   == {t \in s : Cardinality({u \in s : u < t}) < n}

(* An exchange is a user's turn and all up to the next; what comes before  *)
(* the first user's turn is one as well.                                   *)
UsersAfter(s, t)    == {u \in s : Role[u] = "user" /\ u > t}
Exchanges(s)        == Cardinality({t \in s : Role[t] = "user"})
                       + IF s # {} /\ Role[Min(s)] # "user" THEN 1 ELSE 0
LastExchanges(s, k) == {t \in s : Cardinality(UsersAfter(s, t)) < k}

SmallerOf(m, n) == IF m < n THEN m ELSE n

(* Without a checkpoint, or when its turn has gone, the newest turns; else *)
(* the oldest ones after it, and for the prompt some of those before.      *)
NewTurns(c, from) ==
  IF from \in StoredTurns(c)
  THEN WithText(Oldest({t \in StoredTurns(c) : t > from}, MaxSource))
  ELSE WithText(Newest(StoredTurns(c), MaxSource))

Overlap(c, new) ==
  LET budget == 2 * KeepRecent
  IN  LastExchanges(
        WithText(Newest(StoredTurns(c), SmallerOf(MaxSource, Cardinality(new) + budget))),
        KeepRecent)

PromptTurns(c, from) ==
  LET new == NewTurns(c, from)
  IN  IF from \in StoredTurns(c) /\ KeepRecent > 0
      THEN new \cup Newest(Overlap(c, new) \ new, MaxSource - Cardinality(new))
      ELSE new

-----------------------------------------------------------------------------
Free          == pool - Cardinality({c \in Convs : lock[c] # Nobody})
At(x, place)  == task[x].at = place
GoTo(x, place) == task' = [task EXCEPT ![x].at = place]
Leave(x, place) == task' = [task EXCEPT ![x] = [Rest EXCEPT !.at = place]]
Unlock(x)     == lock' = [c \in Convs |-> IF lock[c] = x THEN Nobody ELSE lock[c]]

(* An update of a job row by id: no row, no effect.                        *)
SetJob(j, status) ==
  wikiJobs' = [wikiJobs EXCEPT ![j].status = IF @ = "gone" THEN @ ELSE status]

WikiFault(f) == /\ f \in WikiFaults /\ wikiFaults < MaxWikiFaults
                /\ wikiFaults' = wikiFaults + 1

(* Where an error leads: an update reports it and then gives its lock back *)
(* (catch, finally), a clear gives its locks back first, a request only    *)
(* answers.                                                                *)
BrokenOff(x) == CASE x \in UpdateJobs -> "fail"
                [] x \in ClearJobs  -> IF At(x, "claimed") \/ At(x, "finish") THEN "fail" ELSE "undo"
                [] OTHER            -> IF At(x, "claimed") THEN "over" ELSE "unlock"

-----------------------------------------------------------------------------
(* Clients write turns one after another: the item, then the text with its *)
(* embedding.  The next turn follows when the last one has been answered.  *)
WriteTurn(t) ==
  /\ turns[t] = "none"
  /\ \A u \in Turns : u < t /\ ConvOf[u] = ConvOf[t] => turns[u] \in {"saved", "gone"}
  /\ turns' = [turns EXCEPT ![t] = "row"]
  /\ UNCHANGED <<pool, page, lock, wikiJobs, task, reconcile, everRead, pruned, wikiFaults>>

SaveText(t) ==
  /\ turns[t] = "row"
  /\ turns' = [turns EXCEPT ![t] = "saved"]
  /\ UNCHANGED <<pool, page, lock, wikiJobs, task, reconcile, everRead, pruned, wikiFaults>>

(* The end of a turn's retention: the TTL sweep deletes it.                *)
ExpireTurn(t) ==
  /\ turns[t] = "saved" /\ WikiFault("expire")
  /\ turns' = [turns EXCEPT ![t] = "gone"]
  /\ UNCHANGED <<pool, page, lock, wikiJobs, task, reconcile, everRead, pruned>>

Asked == Cardinality({j \in DOMAIN wikiJobs : wikiJobs[j].status # "none"})
         + Cardinality({x \in Edits \cup Removals : ~At(x, "idle")})

(* A request to update or rebuild.  It makes no job when it finds one      *)
(* active, but two requests may look before either has made one.           *)
RequestUpdate(j, c) ==
  /\ wikiJobs[j].status = "none" /\ Asked < MaxAsked
  /\ wikiJobs' = [wikiJobs EXCEPT ![j].status = "queued", ![j].conv = c]
  /\ UNCHANGED <<pool, turns, page, lock, task, reconcile, everRead, pruned, wikiFaults>>

RequestClear(j) ==
  /\ wikiJobs[j].status = "none" /\ Asked < MaxAsked
  /\ wikiJobs' = [wikiJobs EXCEPT ![j].status = "queued"]
  /\ UNCHANGED <<pool, turns, page, lock, task, reconcile, everRead, pruned, wikiFaults>>

(* PUT and DELETE of an article.                                           *)
RequestPage(x, c) ==
  /\ x \in Edits \cup Removals /\ At(x, "idle") /\ Asked < MaxAsked
  /\ task' = [task EXCEPT ![x].at = "claimed", ![x].conv = c]
  /\ UNCHANGED <<pool, turns, page, lock, wikiJobs, reconcile, everRead, pruned, wikiFaults>>

ClaimWikiJob(j) ==
  /\ wikiJobs[j].status = "queued" /\ At(j, "idle") /\ Free > 0
  /\ SetJob(j, "running")
  /\ task' = [task EXCEPT ![j] = [Rest EXCEPT !.at = "claimed", !.conv = wikiJobs[j].conv]]
  /\ UNCHANGED <<pool, turns, page, lock, reconcile, everRead, pruned, wikiFaults>>

(* Mutant: the lock is taken for granted.                                  *)
TakeOrPass(x) == lock' = [lock EXCEPT ![task[x].conv] = x] /\ GoTo(x, "pages")

(* The lock is tried once.  An update that finds it taken has nothing more *)
(* to do, a request is answered 409.                                       *)
TryLock(x) ==
  IF lock[task[x].conv] = Nobody
  THEN lock' = [lock EXCEPT ![task[x].conv] = x] /\ GoTo(x, "pages")
  ELSE UNCHANGED lock /\ Leave(x, IF x \in UpdateJobs THEN "finish" ELSE "over")

Locking(x) ==
  /\ x \notin ClearJobs /\ At(x, "claimed") /\ Free > 0
  /\ TryLock(x)
  /\ UNCHANGED <<pool, turns, page, wikiJobs, reconcile, everRead, pruned, wikiFaults>>

ReadPages(x) ==
  /\ At(x, "pages") /\ Free > 0
  /\ LET c == task[x].conv
     IN  task' = [task EXCEPT
           ![x].seen  = page[c],
           ![x].items = IF x \in Removals /\ page[c].there THEN {PageItem(c)} ELSE {},
           ![x].at    = CASE x \in UpdateJobs -> "turns"
                          [] x \in Edits      -> "write"
                          [] OTHER            -> "delete"]
  /\ UNCHANGED <<pool, turns, page, lock, wikiJobs, reconcile, everRead, pruned, wikiFaults>>

(* Too few new exchanges, or nothing at all to write from: done.           *)
IsDue(j, new, prompt) ==
  /\ j \in Rebuilds \/ Exchanges(new) >= UpdateEvery
  /\ prompt # {} \/ task[j].seen.there

ReadTurns(j) ==
  /\ At(j, "turns") /\ Free > 0
  /\ LET c      == task[j].conv
         from   == IF j \in Rebuilds THEN 0 ELSE task[j].seen.checkpoint
         new    == NewTurns(c, from)
         prompt == PromptTurns(c, from)
     IN  IF IsDue(j, new, prompt)
         THEN task' = [task EXCEPT ![j].new = new, ![j].prompt = prompt, ![j].at = "model"]
         ELSE Leave(j, "finish")
  /\ UNCHANGED <<pool, turns, page, lock, wikiJobs, reconcile, everRead, pruned, wikiFaults>>

(* The language model writes the next article from the last one and the    *)
(* prompt's turns, or fails, or gives nothing that can be used.            *)
AskModel(j) ==
  /\ At(j, "model")
  /\ \/ GoTo(j, "write") /\ UNCHANGED wikiFaults
     \/ WikiFault("model") /\ Leave(j, "fail")
  /\ UNCHANGED <<pool, turns, page, lock, wikiJobs, reconcile, everRead, pruned>>

NextCheckpoint(x) ==
  IF x \in UpdateJobs /\ task[x].new # {} THEN Max(task[x].new) ELSE task[x].seen.checkpoint

(* The item first; then its old chunks go and the new text is embedded.    *)
WritePage(x) ==
  /\ At(x, "write") /\ Free > 0
  /\ LET c    == task[x].conv
         seen == task[x].seen
     IN  page' = [page EXCEPT ![c] =
           [there      |-> TRUE,
            born       |-> page[c].born + IF page[c].there THEN 0 ELSE 1,
            rev        |-> seen.rev + 1,
            checkpoint |-> NextCheckpoint(x),
            read       |-> seen.read \cup task[x].prompt,
            indexed    |-> FALSE]]
  /\ everRead' = everRead \cup task[x].prompt
  /\ GoTo(x, "index")
  /\ UNCHANGED <<pool, turns, lock, wikiJobs, reconcile, pruned, wikiFaults>>

(* The model gave back the same article, and the checkpoint is the same.   *)
KeepPage(j) ==
  /\ j \in UpdateJobs /\ At(j, "write")
  /\ task[j].seen.there /\ task[j].seen.indexed
  /\ task[j].seen.checkpoint = NextCheckpoint(j)
  /\ GoTo(j, "list")
  /\ UNCHANGED <<pool, turns, page, lock, wikiJobs, reconcile, everRead, pruned, wikiFaults>>

IndexPage(x) ==
  /\ At(x, "index") /\ Free > 0
  /\ LET c == task[x].conv
     IN  \/ /\ page' = [page EXCEPT ![c].indexed = page[c].there]
            /\ GoTo(x, IF x \in UpdateJobs THEN "list" ELSE "unlock")
            /\ UNCHANGED wikiFaults
         \/ WikiFault("index") /\ Leave(x, BrokenOff(x)) /\ UNCHANGED page
  /\ UNCHANGED <<pool, turns, lock, wikiJobs, reconcile, everRead, pruned>>

(* Mutant: every turn but the newest ones is listed.                       *)
PrunableAll(c, checkpoint) ==
  StoredTurns(c) \ Newest(StoredTurns(c), 2 * KeepRecent)

(* The turns up to the checkpoint, but for the newest of them.             *)
Prunable(c, checkpoint) ==
  LET old == {t \in StoredTurns(c) : t <= checkpoint}
  IN  IF checkpoint \in StoredTurns(c) THEN old \ Newest(old, 2 * KeepRecent) ELSE {}

ListPrunable(j) ==
  /\ At(j, "list") /\ Free > 0
  /\ task' = [task EXCEPT ![j].at = "delete",
                          ![j].items = {TurnItem(t) : t \in Prunable(task[j].conv, NextCheckpoint(j))}]
  /\ UNCHANGED <<pool, turns, page, lock, wikiJobs, reconcile, everRead, pruned, wikiFaults>>

-----------------------------------------------------------------------------
(* An item goes by the id it was read with.                                *)
Exists(i) == IF i[1] = "turn" THEN turns[i[2]] \in {"row", "saved"}
             ELSE page[i[2]].there /\ page[i[2]].born = i[3]

Erase(i) ==
  IF i[1] = "turn"
  THEN turns' = [turns EXCEPT ![i[2]] = "gone"] /\ UNCHANGED page
  ELSE /\ page' = [page EXCEPT ![i[2]] = IF Exists(i) THEN NoPage(i[3]) ELSE @]
       /\ UNCHANGED turns

(* deleteMemoryItemFully: when the store refuses, a job is left to do it.  *)
DeleteItem(x) ==
  /\ At(x, "delete") /\ Free > 0
  /\ \E i \in task[x].items :
       \/ /\ Erase(i)
          /\ task' = [task EXCEPT ![x].items = @ \ {i}]
          /\ pruned' = IF x \in UpdateJobs THEN pruned \cup {i[2]} ELSE pruned
          /\ UNCHANGED <<reconcile, wikiFaults>>
       \/ /\ WikiFault("vdel")
          /\ reconcile' = reconcile \cup {i}
          /\ task' = [task EXCEPT ![x].items = @ \ {i}]
          /\ UNCHANGED <<turns, page, pruned>>
       \/ /\ WikiFault("query")
          /\ Leave(x, BrokenOff(x))
          /\ UNCHANGED <<turns, page, pruned, reconcile>>
  /\ UNCHANGED <<pool, lock, wikiJobs, everRead>>

(* Mutant: a clear deletes the job rows when its items are done.           *)
AllDeletedThenJobs(x) ==
  /\ At(x, "delete") /\ task[x].items = {}
  /\ Leave(x, IF x \in UpdateJobs THEN "finish" ELSE "unlock")
  /\ reconcile' = IF x \in ClearJobs THEN {} ELSE reconcile
  /\ UNCHANGED <<pool, turns, page, lock, wikiJobs, everRead, pruned, wikiFaults>>

AllDeleted(x) ==
  /\ At(x, "delete") /\ task[x].items = {}
  /\ Leave(x, IF x \in UpdateJobs THEN "finish" ELSE "unlock")
  /\ UNCHANGED <<pool, turns, page, lock, wikiJobs, reconcile, everRead, pruned, wikiFaults>>

Reconcile(i) ==
  /\ i \in reconcile
  /\ Erase(i)
  /\ reconcile' = reconcile \ {i}
  /\ UNCHANGED <<pool, lock, wikiJobs, task, everRead, pruned, wikiFaults>>

-----------------------------------------------------------------------------
(* The clear of a collection.  What is there is listed, then the lock of   *)
(* every conversation met in it is waited for, in order.                   *)
AllItems == {TurnItem(t) : t \in UNION {StoredTurns(c) : c \in Convs}}
              \cup {PageItem(c) : c \in {d \in Convs : page[d].there}}
ListedConvs == {c \in Convs : StoredTurns(c) # {} \/ page[c].there}
                 \cup {wikiJobs[j].conv : j \in {i \in UpdateJobs :
                                            wikiJobs[i].status \notin {"none", "gone"}}}

ListCollection(k) ==
  /\ k \in ClearJobs /\ At(k, "claimed") /\ Free > 0
  /\ task' = [task EXCEPT ![k].at = "wait", ![k].items = AllItems, ![k].todo = ListedConvs]
  /\ wikiJobs' = [wikiJobs EXCEPT ![k].listed = AllItems]
  /\ UNCHANGED <<pool, turns, page, lock, reconcile, everRead, pruned, wikiFaults>>

(* A lock that is not had in CONVERSATION_WIKI_CLEAR_LOCK_WAIT_MS ends it. *)
WaitForLock(k) ==
  /\ At(k, "wait") /\ task[k].todo # {}
  /\ LET c == Min(task[k].todo)
     IN  \/ /\ Free > 0 /\ lock[c] = Nobody
            /\ lock' = [lock EXCEPT ![c] = k]
            /\ task' = [task EXCEPT ![k].todo = @ \ {c}]
         \/ /\ lock[c] # Nobody
            /\ Leave(k, "undo") /\ UNCHANGED lock
  /\ UNCHANGED <<pool, turns, page, wikiJobs, reconcile, everRead, pruned, wikiFaults>>

(* The update and reconcile jobs of the collection go, whatever they do.   *)
DropJobs(k) ==
  /\ wikiJobs' = [j \in DOMAIN wikiJobs |->
       IF j \in UpdateJobs /\ wikiJobs[j].status # "none"
       THEN [wikiJobs[j] EXCEPT !.status = "gone"] ELSE wikiJobs[j]]
  /\ reconcile' = {}
  /\ GoTo(k, "delete")

ClearJobRows(k) ==
  /\ At(k, "wait") /\ task[k].todo = {} /\ Free > 0
  /\ DropJobs(k)
  /\ UNCHANGED <<pool, turns, page, lock, everRead, pruned, wikiFaults>>

-----------------------------------------------------------------------------
(* How a task ends: an update marks its row and gives the lock back, a     *)
(* clear gives its locks back and marks its row.                           *)
Finish(j) ==
  /\ At(j, "finish") /\ Free > 0
  /\ SetJob(j, "succeeded")
  /\ Leave(j, IF j \in UpdateJobs THEN "unlock" ELSE "idle")
  /\ UNCHANGED <<pool, turns, page, lock, reconcile, everRead, pruned, wikiFaults>>

(* Mutant: one attempt too many.                                           *)
FailJobLate(j) ==
  /\ At(j, "fail")
  /\ IF Free = 0 \/ wikiJobs[j].status = "gone"
     THEN UNCHANGED wikiJobs
     ELSE wikiJobs' = [wikiJobs EXCEPT
            ![j].attempts = @ + 1,
            ![j].status = IF wikiJobs[j].attempts + 1 > WikiAttempts THEN "failed" ELSE "queued"]
  /\ Leave(j, IF j \in UpdateJobs THEN "unlock" ELSE "idle")
  /\ UNCHANGED <<pool, turns, page, lock, reconcile, everRead, pruned, wikiFaults>>

(* finalizeJobFailure: without a connection the row stays marked running.  *)
FailJob(j) ==
  /\ At(j, "fail")
  /\ IF Free = 0 \/ wikiJobs[j].status = "gone"
     THEN UNCHANGED wikiJobs
     ELSE wikiJobs' = [wikiJobs EXCEPT
            ![j].attempts = @ + 1,
            ![j].status = IF wikiJobs[j].attempts + 1 >= WikiAttempts THEN "failed" ELSE "queued"]
  /\ Leave(j, IF j \in UpdateJobs THEN "unlock" ELSE "idle")
  /\ UNCHANGED <<pool, turns, page, lock, reconcile, everRead, pruned, wikiFaults>>

(* Mutant: an error of a clear leaves its locks taken.                     *)
GiveBackUnlessBroken(x) ==
  /\ task[x].at \in {"unlock", "undo"}
  /\ IF At(x, "undo") THEN UNCHANGED lock ELSE Unlock(x)
  /\ Leave(x, CASE x \in UpdateJobs -> "idle"
                [] x \in ClearJobs -> IF At(x, "undo") THEN "fail" ELSE "finish"
                [] OTHER -> "over")
  /\ UNCHANGED <<pool, turns, page, wikiJobs, reconcile, everRead, pruned, wikiFaults>>

GiveBack(x) ==
  /\ task[x].at \in {"unlock", "undo"}
  /\ Unlock(x)
  /\ Leave(x, CASE x \in UpdateJobs -> "idle"
                [] x \in ClearJobs -> IF At(x, "undo") THEN "fail" ELSE "finish"
                [] OTHER -> "over")
  /\ UNCHANGED <<pool, turns, page, wikiJobs, reconcile, everRead, pruned, wikiFaults>>

(* No connection in DB_CONNECT_TIMEOUT_MS: the statement throws.           *)
NoConnection(x) ==
  /\ Free <= 0
  /\ task[x].at \in {"claimed", "pages", "turns", "write", "index", "list", "delete",
                     "finish", "wait"}
  /\ Leave(x, BrokenOff(x))
  /\ UNCHANGED <<pool, turns, page, lock, wikiJobs, reconcile, everRead, pruned, wikiFaults>>

(* The gateway dies, and its sessions with it.                             *)
WikiCrash ==
  /\ WikiFault("crash")
  /\ lock' = [c \in Convs |-> Nobody]
  /\ task' = [x \in Tasks |-> IF task[x].at \in {"idle", "over"} THEN task[x]
                              ELSE [Rest EXCEPT !.at = IF x \in Edits \cup Removals
                                                       THEN "over" ELSE "idle"]]
  /\ UNCHANGED <<pool, turns, page, wikiJobs, reconcile, everRead, pruned>>

WikiStep(x) ==
  \/ Locking(x) \/ ReadPages(x) \/ ReadTurns(x) \/ AskModel(x)
  \/ WritePage(x) \/ KeepPage(x) \/ IndexPage(x) \/ ListPrunable(x)
  \/ DeleteItem(x) \/ AllDeleted(x)
  \/ ListCollection(x) \/ WaitForLock(x) \/ ClearJobRows(x)
  \/ Finish(x) \/ FailJob(x) \/ GiveBack(x) \/ NoConnection(x)

WikiNext ==
  \/ \E t \in Turns : WriteTurn(t) \/ SaveText(t) \/ ExpireTurn(t)
  \/ \E c \in Convs :
       \/ \E j \in UpdateJobs : RequestUpdate(j, c)
       \/ \E x \in Edits \cup Removals : RequestPage(x, c)
  \/ \E j \in ClearJobs : RequestClear(j)
  \/ \E j \in UpdateJobs \cup ClearJobs : ClaimWikiJob(j)
  \/ \E x \in Tasks : WikiStep(x)
  \/ \E i \in reconcile : Reconcile(i)
  \/ WikiCrash

WikiSpec == WikiInit /\ [][WikiNext]_wvars

(* Statements and the model answer or time out, also the connection's.     *)
WikiFairness == \A x \in Tasks : WF_wvars(WikiStep(x))
WikiFairSpec == WikiSpec /\ WikiFairness

-----------------------------------------------------------------------------
(* A turn is pruned only after some article was written from it: what the  *)
(* short-term context gives up the article has had.                        *)
PrunedWasRead == pruned \subseteq everRead

(* Nobody overwrites an article he has not seen: while one is there, what  *)
(* it was written from only grows, and each version is the next one.       *)
SameArticle(c) == page[c].there /\ page'[c].there /\ page[c].born = page'[c].born
GrowsIn(c) ==
  SameArticle(c) /\ [page[c] EXCEPT !.indexed = TRUE] # [page'[c] EXCEPT !.indexed = TRUE]
    => page'[c].rev = page[c].rev + 1 /\ page[c].read \subseteq page'[c].read
ArticleGrows == [][\A c \in Convs : GrowsIn(c)]_wvars

(* What a clear has listed is gone when it reports success, or a job will  *)
(* see to it.                                                              *)
ListedIsDeleted ==
  \A k \in ClearJobs : wikiJobs[k].status = "succeeded" =>
    \A i \in wikiJobs[k].listed : Exists(i) => i \in reconcile

(* A clear that reports success has left no article that was written from  *)
(* a turn it deleted.                                                      *)
ClearLeavesNoArticle ==
  \A k \in ClearJobs : wikiJobs[k].status = "succeeded" =>
    \A c \in Convs, t \in Turns :
      TurnItem(t) \in wikiJobs[k].listed /\ page[c].there /\ t \in page[c].read
        => PageItem(c) \in reconcile

(* Every lock is given back, whatever fails and however few connections    *)
(* there are: nobody waits for ever on a conversation or on a connection.  *)
LocksAreFreed == \A c \in Convs : lock[c] # Nobody ~> lock[c] = Nobody
=============================================================================
