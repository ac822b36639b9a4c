-------------------------------- MODULE Store --------------------------------
(***************************************************************************)
(* The vector store process, atlasrag/src/server.cpp: client threads that  *)
(* run commands under g_mutation_mu, the TTL cleanup thread, the fsync     *)
(* thread, compaction of the log, and what a process crash or a host crash *)
(* followed by a restart leaves of the state.                              *)
(*                                                                         *)
(* A command that mutates is a sequence of steps of its thread, from the   *)
(* lock to the reply; everything between two changes that another thread,  *)
(* a reader (GET, VSEARCH take no mutation lock) or a crash can see is one *)
(* step.                                                                   *)
(***************************************************************************)
EXTENDS Wal, SequencesExt

CONSTANTS Clients,      \* the client threads
          WalModes,     \* the values of VECTOR_WAL a (re)start may find
          WalFloor,     \* the floor of the compaction limit, 10000 in the code
          Second,       \* clock ticks in a second
          Free, NoLine, \* nobody holds the lock; nothing to append
          MaxLines,     \* bound: lines appended since the last rewrite
          MaxCrashes,   \* bound: crashes in a behaviour
          MaxTime,      \* bound: ticks of the clock
          MaxPriors     \* bound: renames that have not reached the disk

ASSUME StoreAssumption ==
  /\ WalModes \subseteq BOOLEAN /\ WalModes # {}
  /\ WalFloor \in Nat
  /\ Second \in Nat \ {0}
  /\ Free \notin Clients
  /\ NoLine \notin Lines
  /\ MaxLines \in Nat /\ MaxCrashes \in Nat
  /\ MaxTime \in Nat /\ MaxPriors \in Nat

VARIABLES
  up,        \* the process runs
  walOn,     \* g_vector_wal_enabled
  mem,       \* the DB and the VectorDB in memory
  walLines,  \* g_wal_vector_lines
  lock,      \* the holder of g_mutation_mu
  pc, arg,   \* per client: the next step of its command, and its log line
  file,      \* the log file as the process sees it
  priors,    \* older log files that a host crash can bring back
  now,       \* steady_clock
  crashes    \* how many crashes there were

vars == <<up, walOn, mem, walLines, lock, pc, arg, file, priors, now, crashes>>

Steps == {"idle", "set", "del", "append", "note", "compact", "dirsync"}
Memory == [kv: [Keys -> KvEntry \cup {Absent}], vecs: VecMap, dims: Nat]
EmptyMemory == [kv |-> [k \in Keys |-> Absent], vecs |-> NoVecs, dims |-> 0]

TypeOK ==
  /\ up \in BOOLEAN
  /\ walOn \in BOOLEAN
  /\ mem \in Memory
  /\ walLines \in Nat
  /\ lock \in Clients \cup {Free}
  /\ pc \in [Clients -> Steps]
  /\ arg \in [Clients -> Lines \cup {NoLine}]
  /\ file \in File
  /\ priors \subseteq File
  /\ now \in Nat
  /\ crashes \in Nat

Init ==
  /\ up = TRUE
  /\ walOn \in WalModes
  /\ mem = EmptyMemory
  /\ walLines = 0
  /\ lock = Free
  /\ pc = [c \in Clients |-> "idle"]
  /\ arg = [c \in Clients |-> NoLine]
  /\ file = EmptyFile
  /\ priors = {}
  /\ now = 0
  /\ crashes = 0

-----------------------------------------------------------------------------
(* The string map.                                                         *)

Expired(e) == e # Absent /\ e.exp # NoTtl /\ now > e.exp
Get(k) == IF Expired(mem.kv[k]) THEN Absent ELSE mem.kv[k]

Purged(kv) == [k \in Keys |-> IF Expired(kv[k]) THEN Absent ELSE kv[k]]

(* The whole seconds an entry has left; a snapshot never writes 0.         *)
SecondsLeft(e) == IF e.exp - now < Second THEN 1 ELSE (e.exp - now) \div Second

(* What the lines of build_wal_snapshot replay to.                         *)
SnapshotEntry(e) ==
  IF e = Absent \/ e.exp = NoTtl THEN e ELSE [e EXCEPT !.exp = SecondsLeft(e)]

(* Mutant: a snapshot of the strings only.                                 *)
SnapshotOfStrings ==
  [kv |-> [k \in Keys |-> SnapshotEntry(Purged(mem.kv)[k])],
   vecs |-> NoVecs, dims |-> 0, count |-> 0, ok |-> TRUE]

SnapshotImage ==
  [kv |-> [k \in Keys |-> SnapshotEntry(Purged(mem.kv)[k])],
   vecs |-> [i \in Ids |-> IF mem.vecs[i] = NoVec THEN NoVec ELSE Rounded[mem.vecs[i]]],
   dims |-> mem.dims,
   count |-> Cardinality(LiveIds(mem)),
   ok |-> TRUE]

WalLimit(x) == LET live == Cardinality(LiveIds(x))
               IN  IF 2 * live > WalFloor THEN 2 * live ELSE WalFloor

-----------------------------------------------------------------------------
(* Taking the lock for a command, going on to its next step, replying.     *)

MayStart(c) == up /\ pc[c] = "idle" /\ Len(file.tail) < MaxLines
(* Mutant: the mutation lock excludes nobody.                              *)
UnguardedAcquire(c) == lock' = c

Acquire(c)  == lock = Free /\ lock' = c
Goto(c, step, line) == pc' = [pc EXCEPT ![c] = step] /\ arg' = [arg EXCEPT ![c] = line]
Reply(c)    == Goto(c, "idle", NoLine) /\ lock' = Free

(* Mutant: SET changes memory first and logs afterwards.                   *)
SetMemFirst(c, k, s, t) ==
  /\ MayStart(c) /\ Acquire(c)
  /\ mem' = [mem EXCEPT !.kv = [mem.kv EXCEPT ![k] =
       [val |-> s, exp |-> IF t = NoTtl THEN NoTtl ELSE now + t * Second]]]
  /\ Goto(c, "append", SetLine(k, s, t))
  /\ UNCHANGED <<up, walOn, walLines, file, priors, now, crashes>>

(* SET and SET EX, DEL: the log first, then memory.                        *)
SetLog(c, k, s, t) ==
  /\ MayStart(c) /\ Acquire(c)
  /\ file' \in AppendLine(file, SetLine(k, s, t))
  /\ Goto(c, "set", SetLine(k, s, t))
  /\ UNCHANGED <<up, walOn, mem, walLines, priors, now, crashes>>

(* Mutant: SET without EX leaves the expiration of the old value.          *)
SetMemKeepsTtl(c) ==
  /\ pc[c] = "set"
  /\ LET l == arg[c]
         exp == IF l.ttl # NoTtl THEN now + l.ttl * Second
                ELSE IF mem.kv[l.key] = Absent THEN NoTtl ELSE mem.kv[l.key].exp
     IN  mem' = [mem EXCEPT !.kv = [mem.kv EXCEPT ![l.key] = [val |-> l.val, exp |-> exp]]]
  /\ Reply(c)
  /\ UNCHANGED <<up, walOn, walLines, file, priors, now, crashes>>

SetMem(c) ==
  /\ pc[c] = "set"
  /\ LET l == arg[c]
         exp == IF l.ttl = NoTtl THEN NoTtl ELSE now + l.ttl * Second
     IN  mem' = [mem EXCEPT !.kv = [mem.kv EXCEPT ![l.key] = [val |-> l.val, exp |-> exp]]]
  /\ Reply(c)
  /\ UNCHANGED <<up, walOn, walLines, file, priors, now, crashes>>

DelLog(c, k) ==
  /\ MayStart(c) /\ Acquire(c)
  /\ file' \in AppendLine(file, DelLine(k))
  /\ Goto(c, "del", DelLine(k))
  /\ UNCHANGED <<up, walOn, mem, walLines, priors, now, crashes>>

DelMem(c) ==
  /\ pc[c] = "del"
  /\ mem' = [mem EXCEPT !.kv = [mem.kv EXCEPT ![arg[c].key] = Absent]]
  /\ Reply(c)
  /\ UNCHANGED <<up, walOn, walLines, file, priors, now, crashes>>

-----------------------------------------------------------------------------
(* Vector commands: memory first, then the log if VECTOR_WAL is on.        *)

ThenLog(c, step, line) ==
  IF walOn THEN Acquire(c) /\ Goto(c, step, line)
           ELSE lock = Free /\ UNCHANGED <<lock, pc, arg>>

Vset(c, i, v) ==
  /\ MayStart(c) /\ lock = Free
  /\ IF DimensionMismatch(mem, v)
     THEN UNCHANGED <<mem, lock, pc, arg>>
     ELSE /\ mem' = AddOrUpdate(mem, i, v)
          /\ ThenLog(c, "append", VsetLine(i, v))
  /\ UNCHANGED <<up, walOn, walLines, file, priors, now, crashes>>

(* Mutant: the removal of the last vector is not logged.                   *)
VdelLastUnlogged(c, i) ==
  /\ MayStart(c)
  /\ mem' = RemoveIds(mem, {i})
  /\ IF i \in LiveIds(mem) /\ LiveIds(mem') = {}
     THEN lock = Free /\ UNCHANGED <<lock, pc, arg>>
     ELSE ThenLog(c, "append", VdelLine(i))
  /\ UNCHANGED <<up, walOn, walLines, file, priors, now, crashes>>

Vdel(c, i) ==
  /\ MayStart(c)
  /\ mem' = RemoveIds(mem, {i})
  /\ ThenLog(c, IF i \in LiveIds(mem) /\ LiveIds(mem') = {} THEN "compact" ELSE "append",
             VdelLine(i))
  /\ UNCHANGED <<up, walOn, walLines, file, priors, now, crashes>>

VdelPrefix(c, p) ==
  /\ MayStart(c)
  /\ mem' = RemoveIds(mem, IdsWith[p])
  /\ ThenLog(c, IF IdsWith[p] \cap LiveIds(mem) # {} THEN "compact" ELSE "append",
             VdelPrefixLine(p))
  /\ UNCHANGED <<up, walOn, walLines, file, priors, now, crashes>>

Vclear(c) ==
  /\ MayStart(c)
  /\ mem' = Clear(mem)
  /\ ThenLog(c, "compact", VclearLine)
  /\ UNCHANGED <<up, walOn, walLines, file, priors, now, crashes>>

(* The append of a vector line; only VSET and VDEL lines are counted.      *)
AppendVectorLine(c) ==
  /\ pc[c] = "append"
  /\ file' \in AppendLine(file, arg[c])
  /\ IF Counted(arg[c]) THEN Goto(c, "note", NoLine) /\ UNCHANGED lock
                        ELSE Reply(c)
  /\ UNCHANGED <<up, walOn, mem, walLines, priors, now, crashes>>

(* Mutant: the counter goes the wrong way.                                 *)
NoteDown(c) ==
  /\ pc[c] = "note"
  /\ walLines' = walLines - 1
  /\ Reply(c)
  /\ UNCHANGED <<up, walOn, mem, file, priors, now, crashes>>

(* note_vector_wal_line: count the line, compact past the limit.           *)
Note(c) ==
  /\ pc[c] = "note"
  /\ walLines' = walLines + 1
  /\ IF walLines' > WalLimit(mem) THEN Goto(c, "compact", NoLine) /\ UNCHANGED lock
                                  ELSE Reply(c)
  /\ UNCHANGED <<up, walOn, mem, file, priors, now, crashes>>

(* Rewriting the log from memory, up to and including the rename.  Taking  *)
(* the snapshot drops the expired keys, whatever becomes of the rewrite.   *)
CompactRename(c) ==
  /\ pc[c] = "compact"
  /\ mem' = [mem EXCEPT !.kv = Purged(mem.kv)]
  /\ file' = Rewritten(SnapshotImage)
  /\ priors' = priors \cup {file}
  /\ Goto(c, "dirsync", NoLine)
  /\ UNCHANGED <<up, walOn, walLines, lock, now, crashes>>

(* Mutant: compact_wal without its fallback.                               *)
CompactFailDropsLine(c) ==
  /\ pc[c] = "compact" /\ "rewrite" \in Faults
  /\ mem' = [mem EXCEPT !.kv = Purged(mem.kv)]
  /\ Reply(c)
  /\ UNCHANGED <<up, walOn, walLines, file, priors, now, crashes>>

(* The rewrite fails: compact_wal falls back to appending the line, a      *)
(* rewrite that note_vector_wal_line asked for is given up.                *)
CompactFail(c) ==
  /\ pc[c] = "compact" /\ "rewrite" \in Faults
  /\ mem' = [mem EXCEPT !.kv = Purged(mem.kv)]
  /\ IF arg[c] = NoLine THEN file' = file ELSE file' \in AppendLine(file, arg[c])
  /\ Reply(c)
  /\ UNCHANGED <<up, walOn, walLines, priors, now, crashes>>

(* Mutant: the command ends without giving the lock back.                  *)
DirSyncKeepsLock(c) ==
  /\ pc[c] = "dirsync"
  /\ priors' = {}
  /\ walLines' = Cardinality(LiveIds(mem))
  /\ Goto(c, "idle", NoLine)
  /\ UNCHANGED <<up, walOn, mem, lock, file, now, crashes>>

(* The rename reaches the disk.  The result of this fsync is not looked at.*)
DirSync(c) ==
  /\ pc[c] = "dirsync"
  /\ \/ priors' = {}
     \/ "dirsync" \in Faults /\ Cardinality(priors) <= MaxPriors /\ UNCHANGED priors
  /\ walLines' = Cardinality(LiveIds(mem))
  /\ Reply(c)
  /\ UNCHANGED <<up, walOn, mem, file, now, crashes>>

-----------------------------------------------------------------------------
(* The background threads.                                                 *)

TtlCleanup ==
  /\ up /\ lock = Free
  /\ mem' = [mem EXCEPT !.kv = Purged(mem.kv)]
  /\ UNCHANGED <<up, walOn, walLines, lock, pc, arg, file, priors, now, crashes>>

FsyncWal ==
  /\ up /\ walOn
  /\ file' = SyncFile(file)
  /\ UNCHANGED <<up, walOn, mem, walLines, lock, pc, arg, priors, now, crashes>>

Tick ==
  /\ now < MaxTime
  /\ now' = now + 1
  /\ UNCHANGED <<up, walOn, mem, walLines, lock, pc, arg, file, priors, crashes>>

-----------------------------------------------------------------------------
(* Crashes and restart.                                                    *)

Down ==
  /\ crashes < MaxCrashes
  /\ crashes' = crashes + 1
  /\ up' = FALSE
  /\ mem' = EmptyMemory
  /\ walLines' = 0
  /\ lock' = Free
  /\ pc' = [c \in Clients |-> "idle"]
  /\ arg' = [c \in Clients |-> NoLine]
  /\ UNCHANGED <<walOn, now>>

(* The process dies; what it wrote stays in the OS cache.  The text of a   *)
(* long line goes out before its newline, so it can be left without it.    *)
ProcessCrash ==
  /\ up /\ Down
  /\ \/ file' = file
     \/ \E c \in Clients : /\ pc[c] = "append" /\ "tear" \in Faults /\ ~file.open
                           /\ file' = AddOpenLine(file, arg[c])
  /\ UNCHANGED priors

(* The host dies: the directory holds the log or one it replaced without   *)
(* the rename having reached the disk, with what the disk has of it.       *)
HostCrash ==
  /\ Down
  /\ \E f \in {file} \cup priors : file' \in SurvivorsOf(f)
  /\ priors' = {}

(* main: replay the log, then start the threads.  An exception during the  *)
(* replay ends the process instead.                                        *)
Restart ==
  /\ ~up /\ ImageOf(file).ok
  /\ up' = TRUE
  /\ walOn' \in WalModes
  /\ LET img == ImageOf(file)
         started(e) == IF e = Absent \/ e.exp = NoTtl THEN e
                       ELSE [e EXCEPT !.exp = now + e.exp * Second]
     IN  /\ mem' = [kv |-> [k \in Keys |-> started(img.kv[k])],
                    vecs |-> img.vecs, dims |-> img.dims]
         /\ walLines' = img.count
  /\ UNCHANGED <<lock, pc, arg, file, priors, now, crashes>>

ClientStep(c) == SetMem(c) \/ DelMem(c) \/ AppendVectorLine(c) \/ Note(c)
                 \/ CompactRename(c) \/ CompactFail(c) \/ DirSync(c)

Command(c) ==
  \/ \E k \in Keys, s \in Vals, t \in Ttls \cup {NoTtl} : SetLog(c, k, s, t)
  \/ \E k \in Keys : DelLog(c, k)
  \/ \E i \in Ids, v \in Vecs : Vset(c, i, v)
  \/ \E i \in Ids : Vdel(c, i)
  \/ \E p \in IdPrefixes : VdelPrefix(c, p)
  \/ Vclear(c)

Next ==
  \/ \E c \in Clients : Command(c) \/ ClientStep(c)
  \/ TtlCleanup \/ FsyncWal \/ Tick
  \/ ProcessCrash \/ HostCrash \/ Restart

Spec == Init /\ [][Next]_vars

(* The threads are scheduled by the OS: a client inside a command goes on. *)
FairSpec == Spec /\ \A c \in Clients : WF_vars(ClientStep(c))

-----------------------------------------------------------------------------
(* What a log image says about memory.                                     *)

AsText(vecs) == [i \in Ids |-> IF vecs[i] = NoVec THEN NoVec ELSE Rounded[vecs[i]]]

(* The string under k comes back from e as it is in memory; one with a     *)
(* time to live may be gone from memory already, and comes back with at    *)
(* most a second less than it had.                                         *)
KvAgrees(k, e) ==
  IF e = Absent \/ e.exp = NoTtl THEN mem.kv[k] = e
  ELSE \/ mem.kv[k] = Absent
       \/ /\ mem.kv[k].val = e.val
          /\ mem.kv[k].exp # NoTtl
          /\ mem.kv[k].exp < now + (e.exp + 1) * Second

VecsAgree(img) == img.vecs = AsText(mem.vecs) /\ img.dims = mem.dims

Agrees(img) == img.ok /\ VecsAgree(img) /\ \A k \in Keys : KvAgrees(k, img.kv[k])

Quiet == up /\ lock = Free

(* Whenever no command is under way, replaying the log rebuilds the        *)
(* memory of the process: a process crash loses nothing that was replied   *)
(* to and brings back nothing that was deleted.                            *)
LogIsMemory == Quiet => Agrees(ImageOf(file))

(* Once the fsync thread has caught up and no rename waits for its         *)
(* directory sync, a host crash loses nothing that was replied to either.  *)
SyncedStateSurvives ==
  Quiet /\ file.synced = Len(file.tail) /\ priors = {}
    => \A f \in SurvivorsOf(file) : Agrees(ImageOf(f))

(* A string is in the log before a reader can see it in memory: a GET      *)
(* never returns a value that a process crash takes back.                  *)
WriteAhead ==
  [][up /\ up' => \A k \in Keys :
       Get(k)' # Get(k) /\ Get(k)' # Absent
         => /\ ImageOf(file).kv[k] # Absent
            /\ ImageOf(file).kv[k].val = Get(k)'.val]_vars

(* All stored vectors have the dimension the index reports, and it reports *)
(* none when nothing is stored, before and after a restart.                *)
OneDimension(x) ==
  /\ \A i \in LiveIds(x) : DimOf[x.vecs[i]] = x.dims
  /\ x.dims = 0 <=> LiveIds(x) = {}
DimsConsistent == OneDimension(mem) /\ \A f \in {file} \cup priors : OneDimension(ImageOf(f))

(* Replaying the snapshot of any memory line by line, the lines in any     *)
(* order (the maps are unordered), builds the image the snapshot stands    *)
(* for, and replaying the lines appended since ends in the image the file  *)
(* was said to have.                                                       *)
SnapshotLines ==
  LET s == SnapshotImage
  IN  {SetLine(k, s.kv[k].val, s.kv[k].exp) : k \in {x \in Keys : s.kv[x] # Absent}}
      \cup {VsetLine(i, mem.vecs[i]) : i \in LiveIds(mem)}
TailLines(f) == [n \in DOMAIN f.tail |-> f.tail[n].line]
ReplayRebuilds ==
  /\ \A s \in SetToSeqs(SnapshotLines) : FoldLeft(ReplayLine, EmptyImage, s) = SnapshotImage
  /\ FoldLeft(ReplayLine, file.base, TailLines(file)) = ImageOf(file)

(* The lines replay has to read stay within the compaction limit, give or  *)
(* take what a crash between an append and the check behind it lets pass.  *)
ReplayWorkBounded == Quiet => ImageOf(file).count <= WalLimit(mem) + 3 * crashes

(* "Unknown WAL line: ignore": whatever a line of the log has become,      *)
(* replay gets past it and the process starts.                             *)
ReplayNeverThrows == ImageOf(file).ok

(* Every client that takes the mutation lock gives it back.                *)
LockReleased == \A c \in Clients : lock = c ~> lock # c
=============================================================================
