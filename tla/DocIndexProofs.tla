---------------------------- MODULE DocIndexProofs ----------------------------
(***************************************************************************)
(* Theorems about the documents and their vectors, for every value of the  *)
(* constants: any number of documents, workers, requests and faults, texts *)
(* of any lengths.                                                         *)
(***************************************************************************)
EXTENDS DocIndex, TLAPS

WorkerRec ==
  [kind: Kinds \cup {"none"}, at: Places, doc: Docs \cup {None}, list: SUBSET Docs,
   text: AllTexts \cup {None}, vec: Models \cup {None}, todo: SUBSET Commands,
   failed: BOOLEAN, broken: BOOLEAN, alone: BOOLEAN]
JobRec == [status: {"none", "queued", "running", "ended"}, attempts: 0..MaxAttempts]

(* What a worker has, by what it is at.                                    *)
VdelOf(c)  == [op |-> "vdel", chunk |-> c, vec |-> None]
VsetsOf(w) == {[op |-> "vset", chunk |-> c, vec |-> [text |-> w.text, model |-> w.vec]]
                 : c \in ChunksOf(w.doc, w.text)}

Shape(w) ==
  /\ w.kind = "none" => w.list = {} /\ w.doc = None
  /\ w.kind # "none" /\ w.at # "next" => w.doc \in Docs
  /\ w.kind \in Writers => w.at \in {"fetch", "upsert", "embed", "read", "vdel", "save", "text", "vset"}
  /\ w.kind \in {"delete", "reconcile"} => w.at \in {"read", "vdel", "forget"}
  /\ w.kind \in {"sweep", "cleanup"} => w.at \in {"next", "read", "vdel", "again", "forget", "enqueue"}
  /\ w.kind = "collection" => w.at \in {"next", "read", "vdel"}
  /\ w.kind \in Writers /\ w.at # "fetch" => w.text \in AllTexts
  /\ w.kind \in Writers /\ w.at \in {"read", "vdel", "save", "text", "vset"} => w.vec \in Models
  /\ w.list # {} => w.kind \in ListKinds
  /\ w.doc \notin w.list
  /\ w.todo # {} => w.kind # "none" /\ w.at \in {"vdel", "vset"}
  /\ w.failed => w.at \in {"vdel", "vset"}
  /\ w.at = "vdel" => \A c \in w.todo : c.op = "vdel" /\ c.chunk[1] = w.doc
  /\ w.at = "vset" => w.todo \subseteq VsetsOf(w)

(* A reconcile job is run by one worker at a time.                         *)
JobsInv ==
  /\ \A d \in Docs : jobs[d].status \in {"queued", "running"} => jobs[d].attempts < MaxAttempts
  /\ \A p \in Workers : worker[p].kind = "reconcile" => jobs[Doc(p)].status = "running"
  /\ \A p, q \in Workers : worker[p].kind = "reconcile" /\ worker[q].kind = "reconcile"
                             /\ Doc(p) = Doc(q) => p = q

TypeInv == DocTypeOK /\ (\A p \in Workers : Shape(worker[p])) /\ JobsInv

-----------------------------------------------------------------------------
(* The data.                                                               *)
LEMMA ChunkFacts ==
  ASSUME NEW d \in Docs, NEW t \in AllTexts
  PROVE  /\ ChunksOf(d, t) \subseteq Chunks
         /\ \A c \in ChunksOf(d, t) : c[1] = d /\ c[2] \in Slots /\ c = <<d, c[2]>>
<1>1. \A i \in 1..Len[t] : i \in Slots
  BY DocIndexAssumption
<1>2. QED BY <1>1 DEF ChunksOf, Chunks

LEMMA VsetsAreCommands ==
  ASSUME NEW w \in WorkerRec, w.doc \in Docs, w.text \in AllTexts, w.vec \in Models
  PROVE  VsetsOf(w) \in SUBSET Commands
<1>1. ChunksOf(w.doc, w.text) \subseteq Chunks
  BY ChunkFacts
<1>2. [text |-> w.text, model |-> w.vec] \in Vectors
  BY DEF Vectors
<1>3. QED BY <1>1, <1>2 DEF VsetsOf, Commands

LEMMA CommandFacts ==
  ASSUME NEW c \in Commands
  PROVE  /\ c.chunk \in Chunks /\ c.vec \in Vectors \cup {None}
         /\ c.op \in {"vdel", "vset"}
         /\ c.op = "vdel" => c.vec = None
         /\ c.op = "vset" => c.vec \in Vectors /\ c.vec # None
         /\ c.chunk[1] \in Docs /\ c.chunk[2] \in Slots /\ c.chunk = <<c.chunk[1], c.chunk[2]>>
<1>1. c.chunk \in Chunks /\ c.vec \in Vectors \cup {None} /\ c.op \in {"vdel", "vset"}
  BY DEF Commands
<1>2. (c.op = "vdel" => c.vec = None) /\ (c.op = "vset" => c.vec \in Vectors)
  BY DEF Commands
<1>3. None \notin Vectors
  BY DocIndexAssumption
<1>4. QED BY <1>1, <1>2, <1>3 DEF Chunks

LEMMA IdleFacts ==
  /\ Idle \in WorkerRec /\ Shape(Idle) /\ TargetsOf(Idle) = {}
  /\ Idle.kind = "none" /\ Idle.list = {} /\ Idle.doc = None /\ Idle.todo = {} /\ Idle.alone = TRUE
  /\ Idle.at = "upsert" /\ Idle.failed = FALSE /\ Idle.broken = FALSE
<1>1. /\ Idle.kind = "none" /\ Idle.list = {} /\ Idle.doc = None /\ Idle.todo = {} /\ Idle.alone = TRUE
      /\ Idle.at = "upsert" /\ Idle.failed = FALSE /\ Idle.broken = FALSE
  BY DEF Idle
<1>2. Idle \in WorkerRec
  BY DEF Idle, WorkerRec, Places
<1>3. Shape(Idle)
  BY <1>1 DEF Shape, Writers
<1>4. TargetsOf(Idle) = {}
  BY <1>1 DEF TargetsOf
<1>5. QED BY <1>1, <1>2, <1>3, <1>4

-----------------------------------------------------------------------------
LEMMA DocTypeInit ==
  ASSUME DocInit
  PROVE  TypeInv
<1>1. DocTypeOK
  <2>1. worker \in [Workers -> WorkerRec]
    BY IdleFacts DEF DocInit
  <2>2. Len \in [AllTexts -> Nat \ {0}] /\ MaxAttempts \in Nat /\ MaxRequests \in Nat /\ MaxFaults \in Nat
    BY DocIndexAssumption
  <2>3. jobs \in [Docs -> JobRec]
    BY <2>2 DEF DocInit, JobRec
  <2>4. QED BY <2>1, <2>2, <2>3, DocIndexAssumption DEF DocInit, DocTypeOK, WorkerRec, JobRec, Absent
<1>2. \A p \in Workers : worker[p] = Idle
  BY DEF DocInit
<1>3. JobsInv
  BY <1>2, IdleFacts DEF DocInit, JobsInv
<1>4. QED BY <1>1, <1>2, <1>3, IdleFacts DEF TypeInv

(* A worker goes on, and the others are as they were.                      *)
LEMMA SetFacts ==
  ASSUME TypeInv, NEW q \in Workers, NEW w \in WorkerRec, Shape(w), Set(q, w)
  PROVE  /\ worker' \in [Workers -> WorkerRec] /\ worker'[q] = w
         /\ \A p \in Workers \ {q} : worker'[p] = worker[p]
         /\ \A p \in Workers : Shape(worker'[p])
BY DEF TypeInv, DocTypeOK, WorkerRec, Set

LEMMA WorkerFacts ==
  ASSUME TypeInv, NEW q \in Workers
  PROVE  /\ worker[q] \in WorkerRec /\ Shape(worker[q]) /\ worker \in [Workers -> WorkerRec]
         /\ Active(q) /\ worker[q].at # "next" => Doc(q) \in Docs
         /\ Doc(q) \in Docs => Doc(q) \in TargetsOf(worker[q])
<1>1. worker[q] \in WorkerRec /\ Shape(worker[q]) /\ worker \in [Workers -> WorkerRec]
  BY DEF TypeInv, DocTypeOK, WorkerRec
<1>2. Active(q) /\ worker[q].at # "next" => Doc(q) \in Docs
  BY <1>1 DEF Shape, Active, Doc
<1>3. Doc(q) \in Docs => Doc(q) \in TargetsOf(worker[q])
  BY DocIndexAssumption DEF TargetsOf, Doc
<1>4. QED BY <1>1, <1>2, <1>3

LEMMA JobsKept ==
  ASSUME JobsInv, UNCHANGED jobs,
         \A p \in Workers : worker'[p].kind = "reconcile" =>
           worker[p].kind = "reconcile" /\ worker'[p].doc = worker[p].doc
  PROVE  JobsInv'
BY DEF JobsInv, Doc

(* The job of a worker that fails.                                         *)
LEMMA FailFacts ==
  ASSUME TypeInv, NEW q \in Workers, Active(q), worker[q].at # "next", Fail(q)
  PROVE  /\ worker' \in [Workers -> WorkerRec] /\ worker'[q] = Idle
         /\ \A p \in Workers \ {q} : worker'[p] = worker[p]
         /\ \A p \in Workers : Shape(worker'[p])
         /\ jobs' \in [Docs -> JobRec] /\ JobsInv'
         /\ outcome' \in [Docs -> AllTexts \cup {Unknown, Absent}]
         /\ outcome' = [outcome EXCEPT ![Doc(q)] = Unknown]
<1>1. Doc(q) \in Docs /\ worker[q] \in WorkerRec
  BY WorkerFacts
<1>2. /\ worker' \in [Workers -> WorkerRec] /\ worker'[q] = Idle
      /\ \A p \in Workers \ {q} : worker'[p] = worker[p]
      /\ \A p \in Workers : Shape(worker'[p])
  BY IdleFacts, SetFacts DEF Fail
<1>3. outcome' = [outcome EXCEPT ![Doc(q)] = Unknown]
  BY DEF Fail, Left, Doc
<1>4. outcome' \in [Docs -> AllTexts \cup {Unknown, Absent}]
  BY <1>3 DEF TypeInv, DocTypeOK
<1>5. jobs' \in [Docs -> JobRec] /\ JobsInv'
  <2>1. CASE worker[q].kind # "reconcile"
    <3>1. jobs' = jobs /\ worker'[q].kind = "none"
      BY <1>2, <2>1, IdleFacts DEF Fail
    <3>2. jobs' \in [Docs -> JobRec]
      BY <3>1 DEF TypeInv, DocTypeOK, JobRec
    <3>3. \A p \in Workers : worker'[p].kind = "reconcile" =>
            worker[p].kind = "reconcile" /\ worker'[p].doc = worker[p].doc
      BY <1>2, <3>1
    <3>4. JobsInv'
      BY <3>1, <3>3, JobsKept DEF TypeInv
    <3>5. QED BY <3>2, <3>4
  <2>2. CASE worker[q].kind = "reconcile"
    <3> DEFINE n == jobs[Doc(q)].attempts + 1
               j == [status |-> IF n >= MaxAttempts THEN "ended" ELSE "queued", attempts |-> n]
    <3>1. jobs[Doc(q)].status = "running" /\ jobs[Doc(q)].attempts < MaxAttempts
      BY <1>1, <2>2 DEF TypeInv, JobsInv
    <3>2. jobs \in [Docs -> JobRec] /\ jobs[Doc(q)] \in JobRec /\ MaxAttempts \in Nat
      BY <1>1, DocIndexAssumption DEF TypeInv, DocTypeOK, JobRec
    <3>3. n \in 0..MaxAttempts
      BY <3>1, <3>2 DEF JobRec
    <3>4. j \in JobRec /\ (j.status \in {"queued", "running"} => j.attempts < MaxAttempts)
      BY <3>2, <3>3 DEF JobRec
    <3>5. jobs' = [jobs EXCEPT ![Doc(q)] = j]
      BY <2>2 DEF Fail
    <3> HIDE DEF j
    <3>6. jobs' \in [Docs -> JobRec]
      BY <3>2, <3>4, <3>5
    <3>7. \A d \in Docs : jobs'[d].status \in {"queued", "running"} => jobs'[d].attempts < MaxAttempts
      BY <3>2, <3>4, <3>5 DEF TypeInv, JobsInv
    <3>8. worker'[q].kind = "none"
      BY <1>2, IdleFacts
    <3>9. ASSUME NEW p \in Workers, worker'[p].kind = "reconcile"
          PROVE  p # q /\ worker[p] = worker'[p] /\ Doc(p) # Doc(q) /\ Doc(p) \in Docs
      <4>1. p # q /\ worker[p] = worker'[p]
        BY <1>2, <3>8, <3>9
      <4>2. Doc(p) # Doc(q)
        BY <2>2, <3>9, <4>1 DEF TypeInv, JobsInv
      <4>3. Shape(worker[p]) /\ worker[p] \in WorkerRec
        BY WorkerFacts
      <4>4. Doc(p) \in Docs
        BY <3>9, <4>1, <4>3 DEF Shape, Doc
      <4>5. QED BY <4>1, <4>2, <4>4
    <3>10. QED BY <3>2, <3>5, <3>6, <3>7, <3>9 DEF TypeInv, JobsInv, Doc
  <2>3. QED BY <2>1, <2>2
<1>6. QED BY <1>2, <1>3, <1>4, <1>5

(* What a worker keeps when it goes on with the same document.             *)
SameTask(v, w) == /\ v.kind = w.kind /\ v.doc = w.doc /\ v.list = w.list
                  /\ v.vec = w.vec /\ v.text = w.text /\ v.alone = w.alone

LEMMA GotoFacts ==
  ASSUME TypeInv, NEW q \in Workers, NEW x \in Places, Goto(q, x)
  PROVE  LET w == [worker[q] EXCEPT !.at = x]
         IN  /\ Set(q, w) /\ w \in WorkerRec /\ SameTask(w, worker[q]) /\ w.at = x
             /\ w.todo = worker[q].todo /\ w.failed = worker[q].failed /\ w.broken = worker[q].broken
<1>1. worker[q] \in WorkerRec
  BY WorkerFacts
<1>2. QED BY <1>1 DEF WorkerRec, Goto, SameTask

(* A step on a place with no command under way.                            *)
LEMMA GotoShape ==
  ASSUME TypeInv, NEW q \in Workers, NEW x \in Places, Goto(q, x), Active(q),
         x \notin {"vdel", "vset"}, worker[q].todo = {}, ~worker[q].failed,
         x # "next" => Doc(q) \in Docs,
         worker[q].kind \in Writers => x \in {"embed", "save", "text"} /\ worker[q].at # "fetch"
                                        /\ (x # "embed" => worker[q].vec \in Models),
         worker[q].kind \in {"delete", "reconcile"} => x \in {"forget"},
         worker[q].kind \in {"sweep", "cleanup"} => x \in {"next", "again", "forget", "enqueue"},
         worker[q].kind = "collection" => x \in {"next"}
  PROVE  /\ worker' \in [Workers -> WorkerRec] /\ \A p \in Workers : Shape(worker'[p])
         /\ \A p \in Workers \ {q} : worker'[p] = worker[p]
         /\ SameTask(worker'[q], worker[q]) /\ worker'[q].at = x
         /\ worker'[q].todo = {} /\ worker'[q].failed = worker[q].failed
         /\ worker'[q].broken = worker[q].broken
<1> DEFINE w == [worker[q] EXCEPT !.at = x]
<1>1. /\ Set(q, w) /\ w \in WorkerRec /\ SameTask(w, worker[q]) /\ w.at = x
      /\ w.todo = worker[q].todo /\ w.failed = worker[q].failed /\ w.broken = worker[q].broken
  BY GotoFacts
<1>2. Shape(worker[q]) /\ worker[q] \in WorkerRec
  BY WorkerFacts
<1> HIDE DEF w
<1>3. Shape(w)
  BY <1>1, <1>2 DEF Shape, SameTask, Active, Doc, Writers, ListKinds
<1>4. QED BY <1>1, <1>3, SetFacts

LEMMA FaultType ==
  ASSUME TypeInv, NEW k \in FaultKinds, Fault(k)
  PROVE  faults' \in 0..MaxFaults
BY DocIndexAssumption DEF TypeInv, DocTypeOK, Fault, Cost

(* What each step of a worker does to the worker.                          *)
Going(q) == /\ worker' \in [Workers -> WorkerRec] /\ \A p \in Workers : Shape(worker'[p])
            /\ \A p \in Workers \ {q} : worker'[p] = worker[p]

LEMMA FetchTextFacts ==
  ASSUME TypeInv, NEW q \in Workers, FetchText(q)
  PROVE  /\ Going(q) /\ worker[q].at = "fetch" /\ Active(q)
         /\ \/ Fail(q) /\ worker'[q] = Idle
            \/ /\ UNCHANGED <<jobs, outcome>>
               /\ worker'[q].at = "upsert" /\ worker'[q].kind = worker[q].kind
               /\ worker'[q].doc = worker[q].doc /\ worker'[q].list = worker[q].list
               /\ worker'[q].alone = worker[q].alone
<1>1. worker[q] \in WorkerRec /\ Shape(worker[q]) /\ worker[q].at = "fetch" /\ Active(q) /\ Doc(q) \in Docs
  BY WorkerFacts DEF FetchText, At
<1> DEFINE d == Doc(q)
           t == IF docTexts[d] # None THEN docTexts[d] ELSE Joined(d)
           w == [worker[q] EXCEPT !.at = "upsert", !.text = t]
<1>2. CASE t = None
  BY <1>1, <1>2, FailFacts DEF FetchText, Going
<1>3. CASE t # None
  <2>1. Joined(d) \in AllTexts \cup {None}
    BY DEF Joined, AllTexts
  <2>2. t \in AllTexts
    BY <1>1, <1>3, <2>1 DEF TypeInv, DocTypeOK
  <2>3. Set(q, w) /\ UNCHANGED <<jobs, outcome>>
    BY <1>3 DEF FetchText
  <2> HIDE DEF t
  <2>4. /\ w \in WorkerRec /\ w.at = "upsert" /\ w.kind = worker[q].kind /\ w.text = t
        /\ w.doc = worker[q].doc /\ w.list = worker[q].list /\ w.alone = worker[q].alone
        /\ w.todo = worker[q].todo /\ w.failed = worker[q].failed /\ w.vec = worker[q].vec
    BY <1>1, <2>2 DEF WorkerRec, Places
  <2> HIDE DEF w
  <2>5. Shape(w)
    BY <1>1, <2>2, <2>4 DEF Shape, Active, Doc, Writers, ListKinds
  <2>6. QED BY <1>1, <2>3, <2>4, <2>5, SetFacts DEF Going
<1>4. QED BY <1>2, <1>3

LEMMA UpsertItemFacts ==
  ASSUME TypeInv, NEW q \in Workers, UpsertItem(q)
  PROVE  /\ Going(q) /\ worker[q].at = "upsert" /\ Active(q) /\ Doc(q) \in Docs
         /\ worker[q].kind \in Writers
         /\ SameTask(worker'[q], worker[q]) /\ worker'[q].at = "embed"
         /\ worker'[q].todo = {} /\ worker'[q].failed = worker[q].failed
         /\ worker'[q].broken = worker[q].broken
<1>1. /\ worker[q] \in WorkerRec /\ Shape(worker[q]) /\ worker[q].at = "upsert" /\ Active(q)
      /\ Doc(q) \in Docs
  BY WorkerFacts DEF UpsertItem, At
<1>2. worker[q].todo = {} /\ ~worker[q].failed /\ worker[q].kind \in Writers
  BY <1>1 DEF Shape, Active, WorkerRec, Kinds, Writers, ListKinds
<1>3. Goto(q, "embed") /\ "embed" \in Places
  BY DEF UpsertItem, Places
<1>4. QED BY <1>1, <1>2, <1>3, GotoShape DEF Going, Writers, ListKinds

LEMMA EmbedFacts ==
  ASSUME TypeInv, NEW q \in Workers, Embed(q)
  PROVE  /\ Going(q) /\ worker[q].at = "embed" /\ Active(q) /\ Doc(q) \in Docs
         /\ worker[q].kind \in Writers /\ faults' \in 0..MaxFaults
         /\ \/ Fail(q) /\ worker'[q] = Idle
            \/ /\ UNCHANGED <<jobs, outcome>>
               /\ worker'[q].at = "read" /\ worker'[q].kind = worker[q].kind
               /\ worker'[q].doc = worker[q].doc /\ worker'[q].list = worker[q].list
               /\ worker'[q].alone = worker[q].alone /\ worker'[q].text = worker[q].text
<1>1. /\ worker[q] \in WorkerRec /\ Shape(worker[q]) /\ worker[q].at = "embed" /\ Active(q)
      /\ Doc(q) \in Docs
  BY WorkerFacts DEF Embed, At
<1>2. worker[q].todo = {} /\ ~worker[q].failed /\ worker[q].kind \in Writers
  BY <1>1 DEF Shape, Active, WorkerRec, Kinds, Writers, ListKinds
<1> DEFINE w == [worker[q] EXCEPT !.at = "read", !.vec = embedModel]
<1>3. CASE Fault("embed") /\ Fail(q)
  <2>1. faults' \in 0..MaxFaults
    BY <1>3, FaultType DEF FaultKinds
  <2>2. QED BY <1>1, <1>2, <1>3, <2>1, FailFacts DEF Going
<1>4. CASE Set(q, w) /\ UNCHANGED <<jobs, faults, outcome>>
  <2>1. embedModel \in Models /\ faults \in 0..MaxFaults
    BY DEF TypeInv, DocTypeOK
  <2>2. /\ w \in WorkerRec /\ w.at = "read" /\ w.kind = worker[q].kind /\ w.text = worker[q].text
        /\ w.doc = worker[q].doc /\ w.list = worker[q].list /\ w.alone = worker[q].alone
        /\ w.todo = worker[q].todo /\ w.failed = worker[q].failed /\ w.vec \in Models
    BY <1>1, <2>1 DEF WorkerRec, Places
  <2> HIDE DEF w
  <2>3. Shape(w)
    BY <1>1, <1>2, <2>2 DEF Shape, Active, Doc, Writers, ListKinds
  <2>4. QED BY <1>1, <1>2, <1>4, <2>1, <2>2, <2>3, SetFacts DEF Going
<1>5. QED BY <1>3, <1>4 DEF Embed

Rowed(d) == {c \in Chunks : c[1] = d /\ rows[c] # None}

LEMMA ReadChunksFacts ==
  ASSUME TypeInv, NEW q \in Workers, ReadChunks(q)
  PROVE  /\ Going(q) /\ worker[q].at = "read" /\ Active(q) /\ Doc(q) \in Docs
         /\ SameTask(worker'[q], worker[q]) /\ worker'[q].at = "vdel"
         /\ worker'[q].todo = {VdelOf(c) : c \in Rowed(Doc(q))}
         /\ worker'[q].failed = FALSE /\ worker'[q].broken = worker[q].broken
<1>1. /\ worker[q] \in WorkerRec /\ Shape(worker[q]) /\ worker[q].at = "read" /\ Active(q)
      /\ Doc(q) \in Docs
  BY WorkerFacts DEF ReadChunks, At
<1> DEFINE todo == {VdelOf(c) : c \in Rowed(Doc(q))}
           w == [worker[q] EXCEPT !.at = "vdel", !.todo = todo]
<1>2. todo \in SUBSET Commands
  BY DEF Rowed, VdelOf, Commands
<1>3. \A c \in todo : c.op = "vdel" /\ c.chunk[1] = Doc(q)
  BY DEF Rowed, VdelOf
<1>4. Set(q, w)
  BY DEF ReadChunks, Rowed, VdelOf
<1> HIDE DEF todo
<1>5. /\ w \in WorkerRec /\ w.at = "vdel" /\ SameTask(w, worker[q])
      /\ w.todo = todo /\ w.failed = worker[q].failed /\ w.broken = worker[q].broken
  BY <1>1, <1>2 DEF WorkerRec, Places, SameTask
<1> HIDE DEF w
<1>6. w.failed = FALSE
  BY <1>1, <1>5 DEF Shape, WorkerRec
<1>7. Shape(w)
  BY <1>1, <1>3, <1>5, <1>6 DEF Shape, SameTask, Active, Doc, Writers, ListKinds
<1>8. QED BY <1>1, <1>4, <1>5, <1>6, <1>7, SetFacts DEF Going, todo

LEMMA DropRowsFacts ==
  ASSUME TypeInv, NEW q \in Workers, DropRows(q)
  PROVE  /\ Going(q) /\ worker[q].at = "vdel" /\ Active(q) /\ Doc(q) \in Docs
         /\ worker[q].todo = {} /\ ~worker[q].failed
         /\ SameTask(worker'[q], worker[q])
         /\ worker'[q].at = IF worker[q].kind \in Writers THEN "save"
                            ELSE IF worker[q].kind = "collection" THEN "next"
                            ELSE IF worker[q].kind \in ListKinds THEN "again" ELSE "forget"
         /\ worker'[q].todo = {} /\ worker'[q].failed = worker[q].failed
         /\ worker'[q].broken = worker[q].broken
<1>1. /\ worker[q] \in WorkerRec /\ Shape(worker[q]) /\ worker[q].at = "vdel" /\ Active(q)
      /\ Doc(q) \in Docs /\ worker[q].todo = {} /\ ~worker[q].failed
  BY WorkerFacts DEF DropRows, At
<1> DEFINE x == IF worker[q].kind \in Writers THEN "save"
                ELSE IF worker[q].kind = "collection" THEN "next"
                ELSE IF worker[q].kind \in ListKinds THEN "again" ELSE "forget"
<1>2. Goto(q, x) /\ x \in Places
  BY DEF DropRows, Places
<1>3. /\ worker[q].kind \in Writers => x = "save" /\ worker[q].vec \in Models
      /\ worker[q].kind \in {"delete", "reconcile"} => x = "forget"
      /\ worker[q].kind \in {"sweep", "cleanup"} => x = "again"
      /\ worker[q].kind = "collection" => x = "next"
      /\ x \notin {"vdel", "vset"}
  BY <1>1 DEF Shape, Writers, ListKinds
<1>4. QED BY <1>1, <1>2, <1>3, GotoShape DEF Going

LEMMA VdelFailedFacts ==
  ASSUME TypeInv, NEW q \in Workers, VdelFailed(q)
  PROVE  /\ Going(q) /\ worker[q].at = "vdel" /\ Active(q) /\ Doc(q) \in Docs
         /\ worker[q].todo = {} /\ worker[q].failed
         /\ \/ Fail(q) /\ worker'[q] = Idle
            \/ /\ worker[q].kind \in ListKinds /\ UNCHANGED jobs
               /\ outcome' = [outcome EXCEPT ![Doc(q)] = Unknown]
               /\ SameTask(worker'[q], worker[q])
               /\ worker'[q].at = IF worker[q].kind = "collection" THEN "next" ELSE "enqueue"
               /\ worker'[q].todo = {} /\ worker'[q].failed = FALSE /\ worker'[q].broken = TRUE
<1>1. /\ worker[q] \in WorkerRec /\ Shape(worker[q]) /\ worker[q].at = "vdel" /\ Active(q)
      /\ Doc(q) \in Docs /\ worker[q].todo = {} /\ worker[q].failed
  BY WorkerFacts DEF VdelFailed, At
<1>2. CASE worker[q].kind \notin ListKinds
  BY <1>1, <1>2, FailFacts DEF VdelFailed, Going
<1>3. CASE worker[q].kind \in ListKinds
  <2> DEFINE x == IF worker[q].kind = "collection" THEN "next" ELSE "enqueue"
             w == [worker[q] EXCEPT !.at = x, !.failed = FALSE, !.broken = TRUE]
  <2>1. Set(q, w) /\ UNCHANGED jobs /\ outcome' = [outcome EXCEPT ![Doc(q)] = Unknown]
    BY <1>3 DEF VdelFailed, Left, Doc
  <2>2. /\ w \in WorkerRec /\ SameTask(w, worker[q]) /\ w.at = x
        /\ w.todo = worker[q].todo /\ w.failed = FALSE /\ w.broken = TRUE
    BY <1>1, ZenonT(60) DEF WorkerRec, Places, SameTask
  <2> HIDE DEF w
  <2>3. Shape(w)
    BY <1>1, <1>3, <2>2 DEF Shape, SameTask, Active, Doc, Writers, ListKinds
  <2>4. QED BY <1>1, <1>3, <2>1, <2>2, <2>3, SetFacts DEF Going
<1>4. QED BY <1>2, <1>3

LEMMA EnqueueFacts ==
  ASSUME TypeInv, NEW q \in Workers, EnqueueDeleteReconcile(q)
  PROVE  /\ Going(q) /\ worker[q].at = "enqueue" /\ Active(q) /\ Doc(q) \in Docs
         /\ worker[q].kind \in {"sweep", "cleanup"}
         /\ SameTask(worker'[q], worker[q]) /\ worker'[q].at = "next"
         /\ worker'[q].todo = {} /\ worker'[q].failed = worker[q].failed
         /\ worker'[q].broken = worker[q].broken
<1>1. /\ worker[q] \in WorkerRec /\ Shape(worker[q]) /\ worker[q].at = "enqueue" /\ Active(q)
      /\ Doc(q) \in Docs
  BY WorkerFacts DEF EnqueueDeleteReconcile, At
<1>2. worker[q].todo = {} /\ ~worker[q].failed /\ worker[q].kind \in {"sweep", "cleanup"}
  BY <1>1 DEF Shape, Active, WorkerRec, Kinds, Writers, ListKinds
<1>3. Goto(q, "next") /\ "next" \in Places
  BY DEF EnqueueDeleteReconcile, Places
<1>4. QED BY <1>1, <1>2, <1>3, GotoShape DEF Going, Writers, ListKinds

LEMMA SaveChunksFacts ==
  ASSUME TypeInv, NEW q \in Workers, SaveChunks(q)
  PROVE  /\ Going(q) /\ worker[q].at = "save" /\ Active(q) /\ Doc(q) \in Docs
         /\ worker[q].kind \in Writers /\ worker[q].text \in AllTexts
         /\ SameTask(worker'[q], worker[q])
         /\ worker'[q].failed = FALSE /\ worker'[q].broken = worker[q].broken
         /\ IF Doc(q) \in Artifacts THEN worker'[q].at = "text" /\ worker'[q].todo = {}
            ELSE worker'[q].at = "vset" /\ worker'[q].todo = VsetsOf(worker[q])
<1>1. /\ worker[q] \in WorkerRec /\ Shape(worker[q]) /\ worker[q].at = "save" /\ Active(q)
      /\ Doc(q) \in Docs
  BY WorkerFacts DEF SaveChunks, At
<1>2. /\ worker[q].todo = {} /\ worker[q].failed = FALSE /\ worker[q].kind \in Writers
      /\ worker[q].text \in AllTexts /\ worker[q].vec \in Models
  BY <1>1 DEF Shape, Active, WorkerRec, Kinds, Writers, ListKinds
<1>3. CASE Doc(q) \in Artifacts
  <2>1. Goto(q, "text") /\ "text" \in Places
    BY <1>3 DEF SaveChunks, Places
  <2>2. QED BY <1>1, <1>2, <1>3, <2>1, GotoShape DEF Going, Writers, ListKinds
<1>4. CASE Doc(q) \notin Artifacts
  <2> DEFINE todo == VsetsOf(worker[q])
             w == [worker[q] EXCEPT !.at = "vset", !.todo = todo]
  <2>1. todo \in SUBSET Commands
    BY <1>1, <1>2, VsetsAreCommands DEF Doc
  <2>2. Set(q, w)
    BY <1>4 DEF SaveChunks, Vsets, VsetsOf, Doc
  <2> HIDE DEF todo
  <2>3. /\ w \in WorkerRec /\ w.at = "vset" /\ SameTask(w, worker[q])
        /\ w.todo = todo /\ w.failed = worker[q].failed /\ w.broken = worker[q].broken
    BY <1>1, <2>1 DEF WorkerRec, Places, SameTask
  <2> HIDE DEF w
  <2>4. VsetsOf(w) = todo
    BY <2>3 DEF todo, VsetsOf, SameTask
  <2>5. Shape(w)
    BY <1>1, <1>2, <2>3, <2>4 DEF Shape, SameTask, Active, Doc, Writers, ListKinds
  <2>6. QED BY <1>1, <1>2, <1>4, <2>2, <2>3, <2>5, SetFacts DEF Going, todo
<1>5. QED BY <1>3, <1>4

LEMMA SaveDocTextFacts ==
  ASSUME TypeInv, NEW q \in Workers, SaveDocText(q)
  PROVE  /\ Going(q) /\ worker[q].at = "text" /\ Active(q) /\ Doc(q) \in Docs
         /\ worker[q].kind \in Writers /\ worker[q].text \in AllTexts
         /\ SameTask(worker'[q], worker[q])
         /\ worker'[q].failed = FALSE
         /\ worker'[q].at = "vset" /\ worker'[q].todo = VsetsOf(worker[q])
         /\ faults' \in 0..MaxFaults
         /\ \/ /\ worker'[q].broken = worker[q].broken
               /\ docTexts' = IF items[Doc(q)] = "none" THEN docTexts
                              ELSE [docTexts EXCEPT ![Doc(q)] = worker[q].text]
            \/ worker'[q].broken = TRUE /\ UNCHANGED docTexts
<1>1. /\ worker[q] \in WorkerRec /\ Shape(worker[q]) /\ worker[q].at = "text" /\ Active(q)
      /\ Doc(q) \in Docs
  BY WorkerFacts DEF SaveDocText, At
<1>2. /\ worker[q].todo = {} /\ worker[q].failed = FALSE /\ worker[q].kind \in Writers
      /\ worker[q].text \in AllTexts /\ worker[q].vec \in Models
  BY <1>1 DEF Shape, Active, WorkerRec, Kinds, Writers, ListKinds
<1> DEFINE todo == VsetsOf(worker[q])
<1>3. todo \in SUBSET Commands
  BY <1>1, <1>2, VsetsAreCommands DEF Doc
<1>4. Vsets(q) = todo
  BY DEF Vsets, VsetsOf, Doc
<1> HIDE DEF todo
<1>5. ASSUME NEW w \in WorkerRec, w.at = "vset", SameTask(w, worker[q]), w.todo = todo,
             w.failed = worker[q].failed, Set(q, w)
      PROVE  Going(q) /\ worker'[q] = w
  <2>1. VsetsOf(w) = todo
    BY <1>5 DEF todo, VsetsOf, SameTask
  <2>2. Shape(w)
    BY <1>1, <1>2, <1>5, <2>1 DEF Shape, SameTask, Active, Doc, Writers, ListKinds
  <2>3. QED BY <1>5, <2>2, SetFacts DEF Going
<1>6. CASE /\ docTexts' = IF items[Doc(q)] = "none" THEN docTexts
                          ELSE [docTexts EXCEPT ![Doc(q)] = worker[q].text]
           /\ Set(q, [worker[q] EXCEPT !.at = "vset", !.todo = Vsets(q)])
           /\ UNCHANGED faults
  <2> DEFINE w == [worker[q] EXCEPT !.at = "vset", !.todo = todo]
  <2>1. Set(q, w)
    BY <1>4, <1>6
  <2>2. /\ w \in WorkerRec /\ w.at = "vset" /\ SameTask(w, worker[q])
        /\ w.todo = todo /\ w.failed = worker[q].failed /\ w.broken = worker[q].broken
    BY <1>1, <1>3 DEF WorkerRec, Places, SameTask
  <2> HIDE DEF w
  <2>3. faults' \in 0..MaxFaults
    BY <1>6 DEF TypeInv, DocTypeOK
  <2>4. QED BY <1>1, <1>2, <1>5, <1>6, <2>1, <2>2, <2>3 DEF todo
<1>7. CASE /\ Fault("text")
           /\ Set(q, [worker[q] EXCEPT !.at = "vset", !.todo = Vsets(q), !.broken = TRUE])
           /\ UNCHANGED docTexts
  <2> DEFINE w == [worker[q] EXCEPT !.at = "vset", !.todo = todo, !.broken = TRUE]
  <2>1. Set(q, w)
    BY <1>4, <1>7
  <2>2. /\ w \in WorkerRec /\ w.at = "vset" /\ SameTask(w, worker[q])
        /\ w.todo = todo /\ w.failed = worker[q].failed /\ w.broken = TRUE
    BY <1>1, <1>3 DEF WorkerRec, Places, SameTask
  <2> HIDE DEF w
  <2>3. faults' \in 0..MaxFaults
    BY <1>7, FaultType DEF FaultKinds
  <2>4. QED BY <1>1, <1>2, <1>5, <1>7, <2>1, <2>2, <2>3 DEF todo
<1>8. QED BY <1>6, <1>7 DEF SaveDocText

LEMMA IndexedFacts ==
  ASSUME TypeInv, NEW q \in Workers, Indexed(q)
  PROVE  /\ Going(q) /\ worker[q].at = "vset" /\ Active(q) /\ Doc(q) \in Docs
         /\ worker[q].kind \in Writers /\ worker[q].text \in AllTexts
         /\ worker[q].todo = {} /\ worker'[q] = Idle
         /\ \/ worker[q].failed /\ Fail(q)
            \/ /\ ~worker[q].failed /\ UNCHANGED jobs
               /\ outcome' = [outcome EXCEPT ![Doc(q)] =
                               IF worker[q].alone /\ ~worker[q].broken THEN worker[q].text
                               ELSE Unknown]
<1>1. /\ worker[q] \in WorkerRec /\ Shape(worker[q]) /\ worker[q].at = "vset" /\ Active(q)
      /\ Doc(q) \in Docs /\ worker[q].todo = {}
  BY WorkerFacts DEF Indexed, At
<1>2. worker[q].kind \in Writers /\ worker[q].text \in AllTexts
  BY <1>1 DEF Shape, Active, WorkerRec, Kinds, Writers, ListKinds
<1>3. CASE worker[q].failed
  BY <1>1, <1>2, <1>3, FailFacts DEF Indexed, Going
<1>4. CASE ~worker[q].failed
  <2>1. Set(q, Idle) /\ UNCHANGED jobs
        /\ outcome' = [outcome EXCEPT ![Doc(q)] =
                        IF worker[q].alone /\ ~worker[q].broken THEN worker[q].text
                        ELSE Unknown]
    BY <1>4 DEF Indexed, Left, Doc
  <2>2. QED BY <1>1, <1>2, <1>4, <2>1, IdleFacts, SetFacts DEF Going
<1>5. QED BY <1>3, <1>4

LEMMA DropRowsAgainFacts ==
  ASSUME TypeInv, NEW q \in Workers, DropRowsAgain(q)
  PROVE  /\ Going(q) /\ worker[q].at = "again" /\ Active(q) /\ Doc(q) \in Docs
         /\ ~worker[q].failed
         /\ SameTask(worker'[q], worker[q]) /\ worker'[q].at = "forget"
         /\ worker'[q].todo = {} /\ worker'[q].failed = worker[q].failed
         /\ worker'[q].broken = worker[q].broken
<1>1. /\ worker[q] \in WorkerRec /\ Shape(worker[q]) /\ worker[q].at = "again" /\ Active(q)
      /\ Doc(q) \in Docs
  BY WorkerFacts DEF DropRowsAgain, At
<1>2. worker[q].todo = {} /\ ~worker[q].failed /\ worker[q].kind \in {"sweep", "cleanup"}
  BY <1>1 DEF Shape, Active, WorkerRec, Kinds, Writers, ListKinds
<1>3. Goto(q, "forget") /\ "forget" \in Places
  BY DEF DropRowsAgain, Places
<1>4. QED BY <1>1, <1>2, <1>3, GotoShape DEF Going, Writers, ListKinds

LEMMA ForgetItemFacts ==
  ASSUME TypeInv, NEW q \in Workers, ForgetItem(q)
  PROVE  /\ Going(q) /\ worker[q].at = "forget" /\ Active(q) /\ Doc(q) \in Docs
         /\ ~worker[q].failed /\ jobs' \in [Docs -> JobRec] /\ JobsInv'
         /\ outcome' = [outcome EXCEPT ![Doc(q)] = IF worker[q].alone THEN Absent ELSE Unknown]
         /\ IF worker[q].kind \in ListKinds
            THEN /\ SameTask(worker'[q], worker[q]) /\ worker'[q].at = "next"
                 /\ worker'[q].todo = {} /\ worker'[q].failed = worker[q].failed
                 /\ worker'[q].broken = worker[q].broken
            ELSE worker'[q] = Idle
<1>1. /\ worker[q] \in WorkerRec /\ Shape(worker[q]) /\ worker[q].at = "forget" /\ Active(q)
      /\ Doc(q) \in Docs
  BY WorkerFacts DEF ForgetItem, At
<1>2. /\ worker[q].todo = {} /\ ~worker[q].failed
      /\ worker[q].kind \in {"sweep", "cleanup", "delete", "reconcile"}
  BY <1>1 DEF Shape, Active, WorkerRec, Kinds, Writers, ListKinds
<1>3. outcome' = [outcome EXCEPT ![Doc(q)] = IF worker[q].alone THEN Absent ELSE Unknown]
  BY DEF ForgetItem, Left, Doc
<1>4. jobs \in [Docs -> JobRec]
  BY DEF TypeInv, DocTypeOK, JobRec
<1>5. CASE worker[q].kind \in ListKinds
  <2>1. Goto(q, "next") /\ "next" \in Places /\ UNCHANGED jobs
    BY <1>5 DEF ForgetItem, Places, ListKinds
  <2>2. worker[q].kind \in {"sweep", "cleanup"}
    BY <1>2, <1>5 DEF ListKinds
  <2>3. /\ Going(q) /\ SameTask(worker'[q], worker[q]) /\ worker'[q].at = "next"
        /\ worker'[q].todo = {} /\ worker'[q].failed = worker[q].failed
        /\ worker'[q].broken = worker[q].broken
    BY <1>1, <1>2, <2>1, <2>2, GotoShape DEF Going, Writers, ListKinds
  <2>4. JobsInv'
    BY <2>1, <2>3, JobsKept DEF TypeInv, Going, SameTask
  <2>5. QED BY <1>1, <1>2, <1>3, <1>4, <1>5, <2>1, <2>3, <2>4
<1>6. CASE worker[q].kind \notin ListKinds
  <2>1. Set(q, Idle)
    BY <1>6 DEF ForgetItem
  <2>2. Going(q) /\ worker'[q] = Idle
    BY <2>1, IdleFacts, SetFacts DEF Going
  <2>3. \A p \in Workers : worker'[p].kind = "reconcile" => p # q /\ worker'[p] = worker[p]
    BY <2>2, IdleFacts DEF Going
  <2>4. CASE worker[q].kind # "reconcile"
    <3>1. UNCHANGED jobs
      BY <2>4 DEF ForgetItem
    <3>2. JobsInv'
      BY <2>3, <3>1, JobsKept DEF TypeInv
    <3>3. QED BY <1>1, <1>2, <1>3, <1>4, <1>6, <2>2, <3>1, <3>2
  <2>5. CASE worker[q].kind = "reconcile"
    <3>1. jobs' = [jobs EXCEPT ![Doc(q)].status = "ended"]
      BY <2>5 DEF ForgetItem
    <3>2. jobs' \in [Docs -> JobRec]
      BY <1>4, <3>1 DEF JobRec
    <3>3. \A d \in Docs : jobs'[d].status \in {"queued", "running"} =>
            jobs'[d] = jobs[d]
      BY <1>1, <1>4, <3>1 DEF JobRec
    <3>4. ASSUME NEW p \in Workers, worker'[p].kind = "reconcile"
          PROVE  /\ worker'[p] = worker[p] /\ worker[p].doc # Doc(q) /\ worker[p].doc \in Docs
      <4>1. p # q /\ worker'[p] = worker[p] /\ worker[p].kind = "reconcile"
        BY <2>3, <3>4
      <4>2. Doc(p) # Doc(q)
        BY <2>5, <4>1 DEF TypeInv, JobsInv
      <4>3. Shape(worker[p]) /\ worker[p] \in WorkerRec
        BY WorkerFacts
      <4>4. worker[p].doc \in Docs
        BY <4>1, <4>3 DEF Shape
      <4>5. QED BY <4>1, <4>2, <4>4 DEF Doc
    <3>5. \A p \in Workers : worker'[p].kind = "reconcile" => jobs'[worker[p].doc].status = "running"
      BY <1>4, <3>1, <3>4 DEF TypeInv, JobsInv, Doc
    <3>6. JobsInv'
      BY <3>3, <3>4, <3>5 DEF TypeInv, JobsInv, Doc
    <3>7. QED BY <1>1, <1>2, <1>3, <1>6, <2>2, <3>2, <3>6
  <2>6. QED BY <2>4, <2>5
<1>7. QED BY <1>5, <1>6

LEMMA NextOfListFacts ==
  ASSUME TypeInv, NEW q \in Workers, NextOfList(q)
  PROVE  /\ Going(q) /\ worker[q].at = "next" /\ Active(q) /\ worker[q].kind \in ListKinds
         /\ worker'[q].doc \in worker[q].list
         /\ worker'[q].list = worker[q].list \ {worker'[q].doc}
         /\ worker'[q].kind = worker[q].kind /\ worker'[q].at = "read"
         /\ worker'[q].alone = worker[q].alone /\ worker'[q].broken = worker[q].broken
         /\ worker'[q].todo = {} /\ worker'[q].failed = worker[q].failed
<1>1. /\ worker[q] \in WorkerRec /\ Shape(worker[q]) /\ worker[q].at = "next" /\ Active(q)
  BY WorkerFacts DEF NextOfList, At
<1>2. PICK d \in worker[q].list :
        Set(q, [worker[q] EXCEPT !.at = "read", !.doc = d, !.list = worker[q].list \ {d}])
  BY DEF NextOfList
<1> DEFINE w == [worker[q] EXCEPT !.at = "read", !.doc = d, !.list = worker[q].list \ {d}]
<1>3. d \in Docs /\ worker[q].list \subseteq Docs
  BY <1>1 DEF WorkerRec
<1>4. worker[q].todo = {} /\ ~worker[q].failed /\ worker[q].kind \in ListKinds
  BY <1>1, <1>2 DEF Shape, WorkerRec
<1>5. /\ w \in WorkerRec /\ w.at = "read" /\ w.doc = d /\ w.list = worker[q].list \ {d}
      /\ w.kind = worker[q].kind /\ w.alone = worker[q].alone /\ w.broken = worker[q].broken
      /\ w.todo = {} /\ w.failed = worker[q].failed
  BY <1>1, <1>3, <1>4 DEF WorkerRec, Places
<1>6. Set(q, w)
  BY <1>2
<1> HIDE DEF w
<1>7. Shape(w)
  BY <1>1, <1>3, <1>4, <1>5 DEF Shape, Active, Writers, ListKinds
<1>8. QED BY <1>1, <1>2, <1>4, <1>5, <1>6, <1>7, SetFacts DEF Going

LEMMA DoneFacts ==
  ASSUME TypeInv, NEW q \in Workers, SweepDone(q) \/ CollectionDone(q)
  PROVE  /\ Going(q) /\ worker[q].at = "next" /\ Active(q) /\ worker[q].list = {}
         /\ worker'[q] = Idle
BY IdleFacts, SetFacts DEF SweepDone, CollectionDone, At, Going

LEMMA TodoIsOnDoc ==
  ASSUME TypeInv, NEW q \in Workers, NEW c \in worker[q].todo
  PROVE  /\ worker[q].at \in {"vdel", "vset"} /\ Active(q) /\ Doc(q) \in Docs
         /\ c \in Commands /\ c.chunk[1] = Doc(q)
         /\ worker[q].at = "vdel" => c.op = "vdel"
         /\ worker[q].at = "vset" =>
              /\ c \in VsetsOf(worker[q]) /\ worker[q].kind \in Writers
              /\ worker[q].text \in AllTexts /\ c.chunk \in ChunksOf(Doc(q), worker[q].text)
<1>1. worker[q] \in WorkerRec /\ Shape(worker[q])
  BY WorkerFacts
<1>2. /\ worker[q].at \in {"vdel", "vset"} /\ Active(q) /\ Doc(q) \in Docs /\ c \in Commands
  BY <1>1 DEF Shape, WorkerRec, Active, Doc
<1>3. worker[q].at = "vset" => c \in VsetsOf(worker[q]) /\ worker[q].kind \in Writers
  BY <1>1, <1>2 DEF Shape, Active, WorkerRec, Kinds, Writers, ListKinds
<1>4. worker[q].at = "vset" => worker[q].text \in AllTexts
  BY <1>1, <1>3 DEF Shape
<1>5. worker[q].at = "vset" => c.chunk \in ChunksOf(Doc(q), worker[q].text)
  BY <1>3 DEF VsetsOf, Doc
<1>6. worker[q].at = "vdel" => c.chunk[1] = Doc(q) /\ c.op = "vdel"
  BY <1>1 DEF Shape, Doc
<1>7. worker[q].at = "vset" => c.chunk[1] = Doc(q)
  BY <1>2, <1>4, <1>5, ChunkFacts
<1>8. QED BY <1>2, <1>3, <1>4, <1>5, <1>6, <1>7

LEMMA RunCommandFacts ==
  ASSUME TypeInv, NEW q \in Workers, NEW c \in worker[q].todo,
         Set(q, [worker[q] EXCEPT !.todo = @ \ {c}, !.failed = @ \/ Rejected(c)])
  PROVE  /\ Going(q) /\ worker[q].at \in {"vdel", "vset"} /\ Active(q) /\ Doc(q) \in Docs
         /\ c \in Commands /\ c.chunk[1] = Doc(q)
         /\ SameTask(worker'[q], worker[q]) /\ worker'[q].at = worker[q].at
         /\ worker'[q].todo = worker[q].todo \ {c}
         /\ worker'[q].failed = (worker[q].failed \/ Rejected(c))
         /\ worker'[q].broken = worker[q].broken
         /\ worker[q].at = "vdel" => c.op = "vdel"
         /\ worker[q].at = "vset" => c \in VsetsOf(worker[q]) /\ worker[q].kind \in Writers
<1>1. worker[q] \in WorkerRec /\ Shape(worker[q])
  BY WorkerFacts
<1>2. /\ worker[q].at \in {"vdel", "vset"} /\ Active(q) /\ Doc(q) \in Docs /\ c \in Commands
      /\ c.chunk[1] = Doc(q) /\ (worker[q].at = "vdel" => c.op = "vdel")
      /\ worker[q].at = "vset" => c \in VsetsOf(worker[q]) /\ worker[q].kind \in Writers
  BY TodoIsOnDoc
<1> DEFINE rejected == Rejected(c)
           w == [worker[q] EXCEPT !.todo = @ \ {c}, !.failed = @ \/ rejected]
<1>5. rejected \in BOOLEAN
  BY DEF Rejected
<1>6. Set(q, w)
  OBVIOUS
<1> HIDE DEF rejected
<1>7. /\ w \in WorkerRec /\ w.at = worker[q].at /\ SameTask(w, worker[q])
      /\ w.todo = worker[q].todo \ {c} /\ w.failed = (worker[q].failed \/ rejected)
      /\ w.broken = worker[q].broken
  BY <1>1, <1>2, <1>5 DEF WorkerRec, SameTask
<1> HIDE DEF w
<1>8. VsetsOf(w) = VsetsOf(worker[q])
  BY <1>7 DEF VsetsOf, SameTask
<1>9. Shape(w)
  BY <1>1, <1>2, <1>7, <1>8 DEF Shape, SameTask, Active
<1>10. QED BY <1>2, <1>6, <1>7, <1>9, SetFacts DEF Going, rejected

LEMMA BatchFailsFacts ==
  ASSUME TypeInv, NEW q \in Workers, BatchFails(q)
  PROVE  /\ Going(q) /\ worker[q].at \in {"vdel", "vset"} /\ Active(q) /\ Doc(q) \in Docs
         /\ SameTask(worker'[q], worker[q]) /\ worker'[q].at = worker[q].at
         /\ worker'[q].todo = {} /\ worker'[q].failed = TRUE
         /\ worker'[q].broken = worker[q].broken /\ faults' \in 0..MaxFaults
         /\ late' \in {late, late \cup worker[q].todo}
<1>1. worker[q] \in WorkerRec /\ Shape(worker[q])
  BY WorkerFacts
<1>2. /\ worker[q].at \in {"vdel", "vset"} /\ Active(q) /\ Doc(q) \in Docs
  BY <1>1 DEF Shape, WorkerRec, Active, Doc, BatchFails
<1> DEFINE w == [worker[q] EXCEPT !.todo = {}, !.failed = TRUE]
<1>3. Set(q, w)
  BY DEF BatchFails
<1>4. /\ w \in WorkerRec /\ w.at = worker[q].at /\ SameTask(w, worker[q])
      /\ w.todo = {} /\ w.failed = TRUE /\ w.broken = worker[q].broken
  BY <1>1 DEF WorkerRec, SameTask
<1> HIDE DEF w
<1>5. Shape(w)
  BY <1>1, <1>2, <1>4 DEF Shape, SameTask, Active
<1>6. faults' \in 0..MaxFaults /\ late' \in {late, late \cup worker[q].todo}
  BY FaultType DEF BatchFails, FaultKinds
<1>7. QED BY <1>2, <1>3, <1>4, <1>5, <1>6, SetFacts DEF Going

-----------------------------------------------------------------------------
(* What starts: a task on documents.                                       *)
Bare(d) == \A i \in Slots : rows[<<d, i>>] = None

Fresh(w) ==
  /\ Shape(w) /\ w.kind # "none" /\ w.at \in {"upsert", "fetch", "read", "next"}
  /\ w.todo = {} /\ ~w.failed /\ ~w.broken
  /\ w.kind \in Writers => w.at \in {"upsert", "fetch"}
  /\ w.kind = "collection" => w.list = {d \in Docs : ~Bare(d)}

Shared(w) == {d \in TargetsOf(w) : Users(d) # {} \/ LateOn(d) # {}}

LEMMA TargetFacts ==
  ASSUME NEW w \in WorkerRec
  PROVE  TargetsOf(w) \in SUBSET Docs
BY DEF TargetsOf, WorkerRec

LEMMA AloneFacts ==
  ASSUME NEW v \in WorkerRec, NEW a \in BOOLEAN, Shape(v), NEW u, u = [v EXCEPT !.alone = a]
  PROVE  /\ u \in WorkerRec /\ Shape(u) /\ TargetsOf(u) = TargetsOf(v)
         /\ u.kind = v.kind /\ u.at = v.at /\ u.doc = v.doc /\ u.list = v.list
         /\ u.todo = v.todo /\ u.failed = v.failed /\ u.broken = v.broken
         /\ u.text = v.text /\ u.vec = v.vec /\ u.alone = a
<1>1. /\ u \in WorkerRec
      /\ u.kind = v.kind /\ u.at = v.at /\ u.doc = v.doc /\ u.list = v.list
      /\ u.todo = v.todo /\ u.failed = v.failed /\ u.broken = v.broken
      /\ u.text = v.text /\ u.vec = v.vec /\ u.alone = a
  BY DEF WorkerRec
<1>2. Shape(u) /\ TargetsOf(u) = TargetsOf(v)
  BY <1>1 DEF Shape, TargetsOf, VsetsOf
<1>3. QED BY <1>1, <1>2

LEMMA StartFacts ==
  ASSUME TypeInv, NEW p \in Workers, NEW w \in WorkerRec, Fresh(w), Start(p, w)
  PROVE  /\ worker' \in [Workers -> WorkerRec] /\ \A q \in Workers : Shape(worker'[q])
         /\ overlapped' = overlapped \cup Shared(w) /\ overlapped' \in SUBSET Docs
         /\ ~Active(p) /\ worker'[p].alone = (Shared(w) = {})
         /\ worker'[p].kind = w.kind /\ worker'[p].at = w.at /\ worker'[p].doc = w.doc
         /\ worker'[p].list = w.list /\ worker'[p].todo = w.todo /\ worker'[p].failed = w.failed
         /\ worker'[p].broken = w.broken /\ TargetsOf(worker'[p]) = TargetsOf(w)
         /\ \A q \in Workers \ {p} :
              /\ worker'[q].kind = worker[q].kind /\ worker'[q].at = worker[q].at
              /\ worker'[q].doc = worker[q].doc /\ worker'[q].list = worker[q].list
              /\ worker'[q].todo = worker[q].todo /\ worker'[q].failed = worker[q].failed
              /\ worker'[q].broken = worker[q].broken /\ worker'[q].text = worker[q].text
              /\ worker'[q].vec = worker[q].vec
              /\ worker'[q].alone = (worker[q].alone /\ TargetsOf(worker[q]) \cap Shared(w) = {})
              /\ TargetsOf(worker'[q]) = TargetsOf(worker[q])
<1> DEFINE shared == Shared(w)
<1>1. /\ ~Active(p) /\ overlapped' = overlapped \cup shared
      /\ worker' = [q \in Workers |->
            IF q = p THEN [w EXCEPT !.alone = (shared = {})]
            ELSE [worker[q] EXCEPT !.alone = worker[q].alone /\ TargetsOf(worker[q]) \cap shared = {}]]
  BY DEF Start, Shared
<1>2. shared \in SUBSET Docs
  BY TargetFacts DEF Shared
<1> HIDE DEF shared
<1>3. \A q \in Workers : worker[q] \in WorkerRec /\ Shape(worker[q])
  BY WorkerFacts
<1>5. /\ worker'[p] \in WorkerRec /\ Shape(worker'[p]) /\ worker'[p].alone = (shared = {})
      /\ worker'[p].kind = w.kind /\ worker'[p].at = w.at /\ worker'[p].doc = w.doc
      /\ worker'[p].list = w.list /\ worker'[p].todo = w.todo /\ worker'[p].failed = w.failed
      /\ worker'[p].broken = w.broken /\ TargetsOf(worker'[p]) = TargetsOf(w)
  <2> DEFINE a == (shared = {})
  <2>1. worker'[p] = [w EXCEPT !.alone = a] /\ a \in BOOLEAN /\ Shape(w)
    BY <1>1 DEF Fresh
  <2> HIDE DEF a
  <2>2. /\ worker'[p] \in WorkerRec /\ Shape(worker'[p]) /\ worker'[p].alone = a
        /\ worker'[p].kind = w.kind /\ worker'[p].at = w.at /\ worker'[p].doc = w.doc
        /\ worker'[p].list = w.list /\ worker'[p].todo = w.todo /\ worker'[p].failed = w.failed
        /\ worker'[p].broken = w.broken /\ TargetsOf(worker'[p]) = TargetsOf(w)
    BY <2>1, AloneFacts
  <2>3. QED BY <2>2 DEF a
<1>6. ASSUME NEW q \in Workers \ {p}
      PROVE   /\ worker'[q] \in WorkerRec /\ Shape(worker'[q])
              /\ worker'[q].kind = worker[q].kind /\ worker'[q].at = worker[q].at
              /\ worker'[q].doc = worker[q].doc /\ worker'[q].list = worker[q].list
              /\ worker'[q].todo = worker[q].todo /\ worker'[q].failed = worker[q].failed
              /\ worker'[q].broken = worker[q].broken /\ worker'[q].text = worker[q].text
              /\ worker'[q].vec = worker[q].vec
              /\ worker'[q].alone = (worker[q].alone /\ TargetsOf(worker[q]) \cap shared = {})
              /\ TargetsOf(worker'[q]) = TargetsOf(worker[q])
  <2> DEFINE a == worker[q].alone /\ TargetsOf(worker[q]) \cap shared = {}
  <2>1. worker'[q] = [worker[q] EXCEPT !.alone = a]
    BY <1>1
  <2>2. a \in BOOLEAN
    BY <1>3 DEF WorkerRec
  <2> HIDE DEF a
  <2>3. worker[q] \in WorkerRec /\ Shape(worker[q])
    BY <1>3
  <2>4. /\ worker'[q] \in WorkerRec /\ Shape(worker'[q]) /\ worker'[q].alone = a
        /\ worker'[q].kind = worker[q].kind /\ worker'[q].at = worker[q].at
        /\ worker'[q].doc = worker[q].doc /\ worker'[q].list = worker[q].list
        /\ worker'[q].todo = worker[q].todo /\ worker'[q].failed = worker[q].failed
        /\ worker'[q].broken = worker[q].broken /\ worker'[q].text = worker[q].text
        /\ worker'[q].vec = worker[q].vec /\ TargetsOf(worker'[q]) = TargetsOf(worker[q])
    BY <2>1, <2>2, <2>3, AloneFacts
  <2>5. QED BY <2>4 DEF a
<1>7. worker' \in [Workers -> WorkerRec]
  BY <1>1, <1>5, <1>6
<1>8. overlapped' \in SUBSET Docs
  BY <1>1, <1>2 DEF TypeInv, DocTypeOK
<1>9. QED BY <1>1, <1>5, <1>6, <1>7, <1>8, SMTT(30) DEF shared

(* Every task that starts is a fresh one.                                  *)
StartsTask(p) == \E w \in WorkerRec : Fresh(w) /\ Start(p, w)
Data == <<items, docTexts, rows, vecs, late, outcome>>

LEMMA FreshOn ==
  ASSUME NEW kind \in {"index", "delete", "reconcile", "reingest"}, NEW at \in Places, NEW d \in Docs,
         kind \in {"delete", "reconcile"} => at = "read", kind = "reingest" => at = "fetch",
         kind # "index"
  PROVE  On(kind, at, d) \in WorkerRec /\ Fresh(On(kind, at, d)) /\ On(kind, at, d).kind = kind
         /\ On(kind, at, d).doc = d
<1> DEFINE w == On(kind, at, d)
<1>1. kind \in Kinds /\ at \in {"read", "fetch"}
  BY DEF Kinds, Writers, ListKinds
<1>2. /\ w \in WorkerRec /\ w.kind = kind /\ w.at = at /\ w.doc = d /\ w.list = {}
      /\ w.todo = {} /\ w.failed = FALSE /\ w.broken = FALSE
  BY <1>1 DEF On, Idle, WorkerRec
<1> HIDE DEF w
<1>3. Fresh(w)
  BY <1>1, <1>2 DEF Fresh, Shape, Writers, ListKinds
<1>4. QED BY <1>2, <1>3 DEF w

LEMMA FreshList ==
  ASSUME NEW kind \in ListKinds, NEW list \in SUBSET Docs,
         kind = "collection" => list = {d \in Docs : ~Bare(d)}
  PROVE  LET w == [Idle EXCEPT !.kind = kind, !.at = "next", !.list = list]
         IN  w \in WorkerRec /\ Fresh(w) /\ w.kind = kind /\ w.list = list /\ w.doc = None
<1> DEFINE w == [Idle EXCEPT !.kind = kind, !.at = "next", !.list = list]
<1>1. /\ w \in WorkerRec /\ w.kind = kind /\ w.at = "next" /\ w.doc = None /\ w.list = list
      /\ w.todo = {} /\ w.failed = FALSE /\ w.broken = FALSE
  BY DEF Idle, WorkerRec, Kinds, Places
<1> HIDE DEF w
<1>2. None \notin Docs
  BY DocIndexAssumption
<1>3. Fresh(w)
  BY <1>1, <1>2 DEF Fresh, Shape, Writers, ListKinds
<1>4. QED BY <1>1, <1>3 DEF w

LEMMA ArrivesFacts ==
  ASSUME TypeInv, NEW p \in Workers, NEW d,
         \/ d \in Docs /\ \E t \in Texts : WriteDoc(p, d, t)
         \/ d \in Docs /\ (DeleteDoc(p, d) \/ Lane(p, d))
         \/ DeleteCollection(p) \/ TtlSweep(p) \/ TtlCleanupJob(p)
  PROVE  /\ \E w \in WorkerRec : Fresh(w) /\ Start(p, w) /\ w.kind # "reconcile"
         /\ UNCHANGED Data /\ UNCHANGED <<jobs, embedModel, faults>>
         /\ requests' \in 0..MaxRequests /\ reingest' \in [on: BOOLEAN, left: SUBSET Docs]
<1>0. /\ requests \in 0..MaxRequests /\ reingest \in [on: BOOLEAN, left: SUBSET Docs]
      /\ MaxRequests \in Nat /\ ExpiredItems \in SUBSET Docs
  BY DocIndexAssumption DEF TypeInv, DocTypeOK, ExpiredItems
<1>1. CASE d \in Docs /\ \E t \in Texts : WriteDoc(p, d, t)
  <2>1. PICK t \in Texts : WriteDoc(p, d, t)
    BY <1>1
  <2> DEFINE w == [On("index", "upsert", d) EXCEPT !.text = t]
  <2>2. /\ w \in WorkerRec /\ w.kind = "index" /\ w.at = "upsert" /\ w.doc = d /\ w.list = {}
        /\ w.todo = {} /\ w.failed = FALSE /\ w.broken = FALSE /\ w.text = t /\ t \in AllTexts
    BY <1>1 DEF On, Idle, WorkerRec, Kinds, Writers, Places, AllTexts
  <2>3. Start(p, w)
    BY <2>1 DEF WriteDoc, Request
  <2> HIDE DEF w
  <2>4. Fresh(w)
    BY <1>1, <2>2 DEF Fresh, Shape, Writers, ListKinds
  <2>5. QED BY <1>0, <2>1, <2>2, <2>3, <2>4 DEF WriteDoc, Request, Data
<1>2. CASE d \in Docs /\ DeleteDoc(p, d)
  <2>1. Start(p, On("delete", "read", d)) /\ "read" \in Places
    BY <1>2 DEF DeleteDoc, Request, Places
  <2>2. QED BY <1>0, <1>2, <2>1, FreshOn DEF DeleteDoc, Request, Data
<1>3. CASE d \in Docs /\ Lane(p, d)
  <2>1. Start(p, On("reingest", "fetch", d)) /\ "fetch" \in Places
    BY <1>3 DEF Lane, Places
  <2>2. reingest' \in [on: BOOLEAN, left: SUBSET Docs]
    BY <1>0, <1>3 DEF Lane
  <2>3. QED BY <1>0, <1>3, <2>1, <2>2, FreshOn DEF Lane, Data
<1>4. CASE DeleteCollection(p)
  <2> DEFINE l == {x \in Docs : ~Bare(x)}
             w == [Idle EXCEPT !.kind = "collection", !.at = "next", !.list = l]
  <2>1. Request(p, w)
    BY <1>4 DEF DeleteCollection, Bare
  <2>2. w \in WorkerRec /\ Fresh(w) /\ w.kind = "collection"
    BY FreshList DEF ListKinds
  <2> HIDE DEF w
  <2>3. QED BY <1>0, <1>4, <2>1, <2>2 DEF DeleteCollection, Request, Data
<1>5. CASE TtlSweep(p)
  <2> DEFINE w == [Idle EXCEPT !.kind = "sweep", !.at = "next", !.list = ExpiredItems]
  <2>1. Start(p, w)
    BY <1>5 DEF TtlSweep
  <2>2. w \in WorkerRec /\ Fresh(w) /\ w.kind = "sweep"
    BY <1>0, FreshList DEF ListKinds
  <2> HIDE DEF w
  <2>3. QED BY <1>0, <1>5, <2>1, <2>2 DEF TtlSweep, Data
<1>6. CASE TtlCleanupJob(p)
  <2> DEFINE w == [Idle EXCEPT !.kind = "cleanup", !.at = "next", !.list = ExpiredItems]
  <2>1. Request(p, w)
    BY <1>6 DEF TtlCleanupJob
  <2>2. w \in WorkerRec /\ Fresh(w) /\ w.kind = "cleanup"
    BY <1>0, FreshList DEF ListKinds
  <2> HIDE DEF w
  <2>3. QED BY <1>0, <1>6, <2>1, <2>2 DEF TtlCleanupJob, Request, Data
<1>7. QED BY <1>1, <1>2, <1>3, <1>4, <1>5, <1>6

LEMMA JobStartFacts ==
  ASSUME TypeInv, NEW p \in Workers, NEW d \in Docs, DeleteReconcileJob(p, d)
  PROVE  /\ StartsTask(p) /\ UNCHANGED Data /\ UNCHANGED <<embedModel, faults, requests, reingest>>
         /\ jobs' \in [Docs -> JobRec] /\ JobsInv'
<1> DEFINE w == On("reconcile", "read", d)
<1>1. Start(p, w) /\ UNCHANGED Data /\ UNCHANGED <<embedModel, faults, requests, reingest>>
  BY DEF DeleteReconcileJob, Data
<1>2. w \in WorkerRec /\ Fresh(w) /\ w.kind = "reconcile" /\ w.doc = d
  BY FreshOn DEF Places
<1> HIDE DEF w
<1>3. /\ jobs \in [Docs -> JobRec] /\ jobs[d].status = "queued"
      /\ jobs' = [jobs EXCEPT ![d].status = "running"]
  BY DEF TypeInv, DocTypeOK, JobRec, DeleteReconcileJob
<1>4. jobs' \in [Docs -> JobRec]
  BY <1>3 DEF JobRec
<1>5. /\ worker'[p].kind = "reconcile" /\ worker'[p].doc = d
      /\ \A q \in Workers \ {p} : worker'[q].kind = worker[q].kind /\ worker'[q].doc = worker[q].doc
  BY <1>1, <1>2, StartFacts
<1>6. \A x \in Docs : jobs'[x].attempts = jobs[x].attempts
                    /\ (jobs'[x].status = jobs[x].status \/ x = d)
                    /\ jobs'[d].status = "running"
  BY <1>3 DEF JobRec
<1>7. \A q \in Workers \ {p} : worker[q].kind = "reconcile" => worker[q].doc # d /\ worker[q].doc \in Docs
  <2> TAKE q \in Workers \ {p}
  <2> HAVE worker[q].kind = "reconcile"
  <2>1. jobs[worker[q].doc].status = "running"
    BY DEF TypeInv, JobsInv, Doc
  <2>2. Shape(worker[q])
    BY WorkerFacts
  <2>3. worker[q].doc \in Docs
    BY <2>2 DEF Shape
  <2>4. QED BY <1>3, <2>1, <2>3
<1>8. JobsInv'
  <2>1. \A x \in Docs : jobs'[x].status \in {"queued", "running"} => jobs'[x].attempts < MaxAttempts
    BY <1>3, <1>6 DEF TypeInv, JobsInv
  <2>2. \A q \in Workers : worker'[q].kind = "reconcile" => jobs'[worker'[q].doc].status = "running"
    <3> TAKE q \in Workers
    <3> HAVE worker'[q].kind = "reconcile"
    <3>1. CASE q = p
      BY <1>5, <1>6, <3>1
    <3>2. CASE q # p
      <4>1. worker[q].doc # d /\ worker[q].doc \in Docs /\ worker'[q].doc = worker[q].doc
            /\ worker[q].kind = "reconcile"
        BY <1>5, <1>7, <3>2
      <4>2. jobs[worker[q].doc].status = "running"
        BY <4>1 DEF TypeInv, JobsInv, Doc
      <4>3. QED BY <1>6, <4>1, <4>2
    <3>3. QED BY <3>1, <3>2
  <2>3. \A q, r \in Workers : worker'[q].kind = "reconcile" /\ worker'[r].kind = "reconcile"
                               /\ worker'[q].doc = worker'[r].doc => q = r
    BY <1>5, <1>7 DEF TypeInv, JobsInv, Doc
  <2>4. QED BY <2>1, <2>2, <2>3 DEF JobsInv, Doc
<1>9. QED BY <1>1, <1>2, <1>4, <1>8 DEF StartsTask

-----------------------------------------------------------------------------
(* The types.                                                              *)
StoreTypes ==
  /\ items \in [Docs -> {"none", "live", "expired"}]
  /\ docTexts \in [Docs -> AllTexts \cup {None}]
  /\ rows \in [Chunks -> AllTexts \cup {None}]
  /\ vecs \in [Chunks -> Vectors \cup {None}]
  /\ late \in SUBSET Commands

LEMMA TypesAre ==
  ASSUME TypeInv
  PROVE  /\ StoreTypes /\ jobs \in [Docs -> JobRec] /\ reingest \in [on: BOOLEAN, left: SUBSET Docs]
         /\ worker \in [Workers -> WorkerRec] /\ embedModel \in Models
         /\ requests \in 0..MaxRequests /\ faults \in 0..MaxFaults
         /\ outcome \in [Docs -> AllTexts \cup {Unknown, Absent}] /\ overlapped \in SUBSET Docs
         /\ \A p \in Workers : Shape(worker[p])
         /\ JobsInv
BY DEF TypeInv, DocTypeOK, StoreTypes, JobRec, WorkerRec

LEMMA AppliedType ==
  ASSUME TypeInv, NEW c \in Commands
  PROVE  Applied(c) \in [Chunks -> Vectors \cup {None}]
<1>1. c.chunk \in Chunks /\ c.vec \in Vectors \cup {None}
  BY CommandFacts
<1>2. QED BY <1>1 DEF Applied, TypeInv, DocTypeOK

LEMMA TypesKept ==
  ASSUME TypeInv, StoreTypes', worker' \in [Workers -> WorkerRec], \A p \in Workers : Shape(worker'[p]),
         jobs' \in [Docs -> JobRec], JobsInv', faults' \in 0..MaxFaults,
         outcome' \in [Docs -> AllTexts \cup {Unknown, Absent}],
         UNCHANGED <<reingest, embedModel, requests, overlapped>>
  PROVE  TypeInv'
<1>1. /\ reingest' \in [on: BOOLEAN, left: SUBSET Docs] /\ embedModel' \in Models
      /\ requests' \in 0..MaxRequests /\ overlapped' \in SUBSET Docs
  BY TypesAre
<1>2. QED BY <1>1 DEF TypeInv, DocTypeOK, StoreTypes, JobRec, WorkerRec

(* The rows of the database and the store after a step of a worker.        *)
LEMMA StoreTypeStep ==
  ASSUME TypeInv, NEW q \in Workers, Work(q) \/ BatchFails(q)
  PROVE  StoreTypes'
<1>1. StoreTypes
  BY TypesAre
<1>2. CASE FetchText(q) \/ Embed(q) \/ ReadChunks(q) \/ VdelFailed(q) \/ EnqueueDeleteReconcile(q)
           \/ Indexed(q) \/ NextOfList(q) \/ SweepDone(q)
  BY <1>1, <1>2 DEF StoreTypes, FetchText, Embed, ReadChunks, VdelFailed, EnqueueDeleteReconcile,
     Indexed, NextOfList, SweepDone
<1>3. CASE UpsertItem(q)
  BY <1>1, <1>3 DEF StoreTypes, UpsertItem
<1>4. CASE DropRows(q) \/ DropRowsAgain(q)
  BY <1>1, <1>4 DEF StoreTypes, DropRows, DropRowsAgain
<1>5. CASE SaveChunks(q)
  <2>1. worker[q].text \in AllTexts
    BY <1>5, SaveChunksFacts
  <2>2. QED BY <1>1, <1>5, <2>1 DEF StoreTypes, SaveChunks
<1>6. CASE SaveDocText(q)
  <2>1. worker[q].text \in AllTexts
    BY <1>6, SaveDocTextFacts
  <2>2. docTexts' \in [Docs -> AllTexts \cup {None}]
    BY <1>1, <1>6, <2>1, SaveDocTextFacts DEF StoreTypes
  <2>3. QED BY <1>1, <1>6, <2>2 DEF StoreTypes, SaveDocText
<1>7. CASE ForgetItem(q)
  BY <1>1, <1>7 DEF StoreTypes, ForgetItem
<1>8. CASE CollectionDone(q)
  BY <1>1, <1>8 DEF StoreTypes, CollectionDone
<1>9. CASE RunCommand(q)
  <2>1. PICK c \in worker[q].todo : vecs' = Applied(c)
    BY <1>9 DEF RunCommand
  <2>2. worker[q].todo \subseteq Commands
    BY WorkerFacts DEF WorkerRec
  <2>3. QED BY <1>1, <1>9, <2>1, <2>2, AppliedType DEF StoreTypes, RunCommand
<1>10. CASE BatchFails(q)
  <2>1. worker[q].todo \subseteq Commands
    BY WorkerFacts DEF WorkerRec
  <2>2. late' \in SUBSET Commands
    BY <1>1, <1>10, <2>1, BatchFailsFacts DEF StoreTypes
  <2>3. QED BY <1>1, <1>10, <2>2 DEF StoreTypes, BatchFails
<1>11. QED
  BY <1>2, <1>3, <1>4, <1>5, <1>6, <1>7, <1>8, <1>9, <1>10 DEF Work

(* The worker, the jobs and the outcomes.                                  *)
LEMMA WorkTypeStep ==
  ASSUME TypeInv, NEW q \in Workers, Work(q) \/ BatchFails(q)
  PROVE  /\ TypeInv' /\ Going(q) /\ Active(q)
         /\ UNCHANGED <<reingest, embedModel, requests, overlapped>>
<1>1. StoreTypes' /\ UNCHANGED <<reingest, embedModel, requests, overlapped>>
  BY StoreTypeStep DEF Work, FetchText, UpsertItem, Embed, ReadChunks, RunCommand,
     DropRows, VdelFailed, EnqueueDeleteReconcile, SaveChunks, SaveDocText, Indexed,
     DropRowsAgain, ForgetItem, NextOfList, SweepDone, CollectionDone, BatchFails
<1> SUFFICES TypeInv' /\ Going(q) /\ Active(q)
  BY <1>1
<1>2. /\ jobs \in [Docs -> JobRec] /\ JobsInv /\ faults \in 0..MaxFaults
      /\ outcome \in [Docs -> AllTexts \cup {Unknown, Absent}]
  BY TypesAre
<1>3. ASSUME Going(q), UNCHANGED <<jobs, faults, outcome>>,
             \/ worker'[q].kind = worker[q].kind /\ worker'[q].doc = worker[q].doc
             \/ worker[q].kind # "reconcile" /\ worker'[q].kind = worker[q].kind
             \/ worker'[q].kind = "none"
      PROVE  TypeInv'
  <2>1. \A p \in Workers : worker'[p].kind = "reconcile" =>
           worker[p].kind = "reconcile" /\ worker'[p].doc = worker[p].doc
    BY <1>3 DEF Going
  <2>2. JobsInv'
    BY <1>2, <1>3, <2>1, JobsKept
  <2>3. QED BY <1>1, <1>2, <1>3, <2>2, TypesKept DEF Going
<1>4. ASSUME Fail(q), Active(q), worker[q].at # "next", faults' \in 0..MaxFaults
      PROVE  TypeInv' /\ Going(q)
  BY <1>1, <1>4, FailFacts, TypesKept DEF Going
<1>5. CASE FetchText(q)
  <2>1. UNCHANGED faults
    BY <1>5 DEF FetchText
  <2>2. QED BY <1>2, <1>3, <1>4, <1>5, <2>1, FetchTextFacts
<1>6. CASE UpsertItem(q)
  <2>1. UNCHANGED <<jobs, faults, outcome>>
    BY <1>6 DEF UpsertItem
  <2>2. QED BY <1>3, <1>6, <2>1, UpsertItemFacts DEF SameTask
<1>7. CASE Embed(q)
  <2>1. CASE Fail(q)
    BY <1>4, <1>7, <2>1, EmbedFacts
  <2>2. CASE ~Fail(q)
    <3>1. UNCHANGED <<jobs, faults, outcome>>
      BY <1>7, <2>2 DEF Embed
    <3>2. QED BY <1>3, <1>7, <2>2, <3>1, EmbedFacts
  <2>3. QED BY <2>1, <2>2
<1>8. CASE ReadChunks(q)
  <2>1. UNCHANGED <<jobs, faults, outcome>>
    BY <1>8 DEF ReadChunks
  <2>2. QED BY <1>3, <1>8, <2>1, ReadChunksFacts DEF SameTask
<1>9. CASE DropRows(q)
  <2>1. UNCHANGED <<jobs, faults, outcome>>
    BY <1>9 DEF DropRows
  <2>2. QED BY <1>3, <1>9, <2>1, DropRowsFacts DEF SameTask
<1>10. CASE VdelFailed(q)
  <2>1. UNCHANGED faults /\ Going(q) /\ Active(q) /\ worker[q].at # "next"
    BY <1>10, VdelFailedFacts DEF VdelFailed
  <2>2. CASE Fail(q)
    BY <1>2, <1>4, <2>1, <2>2
  <2>3. CASE ~Fail(q)
    <3>1. /\ worker[q].kind \in ListKinds /\ UNCHANGED jobs
          /\ outcome' = [outcome EXCEPT ![Doc(q)] = Unknown]
          /\ SameTask(worker'[q], worker[q])
      BY <1>10, <2>3, VdelFailedFacts
    <3>2. outcome' \in [Docs -> AllTexts \cup {Unknown, Absent}]
      BY <1>2, <3>1
    <3>3. \A p \in Workers : worker'[p].kind = "reconcile" =>
             worker[p].kind = "reconcile" /\ worker'[p].doc = worker[p].doc
      BY <2>1, <3>1 DEF Going, SameTask
    <3>4. JobsInv'
      BY <1>2, <3>1, <3>3, JobsKept
    <3>5. QED BY <1>1, <1>2, <2>1, <3>1, <3>2, <3>4, TypesKept DEF Going
  <2>4. QED BY <2>2, <2>3, <2>1
<1>11. CASE EnqueueDeleteReconcile(q)
  <2> DEFINE d == Doc(q)
             j == [status |-> "queued", attempts |-> 0]
  <2>1. /\ Going(q) /\ Active(q) /\ d \in Docs /\ worker[q].kind # "reconcile"
        /\ worker'[q].kind = worker[q].kind
    BY <1>11, EnqueueFacts DEF SameTask
  <2>2. UNCHANGED <<faults, outcome>>
    BY <1>11 DEF EnqueueDeleteReconcile
  <2>3. CASE UNCHANGED jobs
    BY <1>3, <2>1, <2>2, <2>3
  <2>4. CASE jobs[d].status \notin {"queued", "running"} /\ jobs' = [jobs EXCEPT ![d] = j]
    <3>1. j \in JobRec /\ 0 < MaxAttempts
      BY DocIndexAssumption DEF JobRec
    <3>2. j.status = "queued" /\ j.attempts = 0
      OBVIOUS
    <3> HIDE DEF j
    <3>3. jobs' \in [Docs -> JobRec]
      BY <1>2, <2>4, <3>1
    <3>4. \A p \in Workers : worker'[p].kind = "reconcile" => worker'[p] = worker[p]
      BY <2>1 DEF Going
    <3>5. \A p \in Workers : worker[p].kind = "reconcile" =>
             worker[p].doc # d /\ worker[p].doc \in Docs
      <4> TAKE p \in Workers
      <4> HAVE worker[p].kind = "reconcile"
      <4>1. jobs[worker[p].doc].status = "running"
        BY <1>2 DEF JobsInv, Doc
      <4>2. Shape(worker[p])
        BY WorkerFacts
      <4>3. worker[p].doc \in Docs
        BY <4>2 DEF Shape
      <4>4. QED BY <2>4, <4>1, <4>3
    <3>6. \A x \in Docs : jobs'[x].status \in {"queued", "running"} => jobs'[x].attempts < MaxAttempts
      BY <1>2, <2>4, <3>1, <3>2 DEF JobsInv
    <3>7. \A p \in Workers : worker'[p].kind = "reconcile" => jobs'[worker'[p].doc].status = "running"
      BY <1>2, <2>4, <3>4, <3>5 DEF JobsInv, Doc
    <3>8. JobsInv'
      BY <1>2, <3>4, <3>6, <3>7 DEF JobsInv, Doc
    <3>9. QED BY <1>1, <1>2, <2>1, <2>2, <3>3, <3>8, TypesKept DEF Going
  <2>5. QED BY <1>11, <2>1, <2>3, <2>4 DEF EnqueueDeleteReconcile
<1>12. CASE SaveChunks(q)
  <2>1. UNCHANGED <<jobs, faults, outcome>>
    BY <1>12 DEF SaveChunks
  <2>2. QED BY <1>3, <1>12, <2>1, SaveChunksFacts DEF SameTask
<1>13. CASE SaveDocText(q)
  <2>1. UNCHANGED <<jobs, outcome>>
    BY <1>13 DEF SaveDocText
  <2>2. Going(q) /\ Active(q) /\ faults' \in 0..MaxFaults /\ SameTask(worker'[q], worker[q])
    BY <1>13, SaveDocTextFacts
  <2>3. \A p \in Workers : worker'[p].kind = "reconcile" =>
           worker[p].kind = "reconcile" /\ worker'[p].doc = worker[p].doc
    BY <2>2 DEF Going, SameTask
  <2>4. JobsInv'
    BY <1>2, <2>1, <2>3, JobsKept
  <2>5. QED BY <1>1, <1>2, <2>1, <2>2, <2>4, TypesKept DEF Going
<1>14. CASE Indexed(q)
  <2>1. UNCHANGED faults /\ Going(q) /\ Active(q) /\ worker[q].at # "next"
    BY <1>14, IndexedFacts DEF Indexed
  <2>2. CASE Fail(q)
    BY <1>2, <1>4, <2>1, <2>2
  <2>3. CASE ~Fail(q)
    <3>1. /\ UNCHANGED jobs /\ worker'[q] = Idle /\ worker[q].text \in AllTexts
          /\ outcome' = [outcome EXCEPT ![Doc(q)] =
                          IF worker[q].alone /\ ~worker[q].broken THEN worker[q].text
                          ELSE Unknown]
      BY <1>14, <2>3, IndexedFacts
    <3>2. outcome' \in [Docs -> AllTexts \cup {Unknown, Absent}]
      BY <1>2, <3>1
    <3>3. \A p \in Workers : worker'[p].kind = "reconcile" =>
             worker[p].kind = "reconcile" /\ worker'[p].doc = worker[p].doc
      BY <2>1, <3>1, IdleFacts DEF Going
    <3>4. JobsInv'
      BY <1>2, <3>1, <3>3, JobsKept
    <3>5. QED BY <1>1, <1>2, <2>1, <3>1, <3>2, <3>4, TypesKept DEF Going
  <2>4. QED BY <2>1, <2>2, <2>3
<1>15. CASE DropRowsAgain(q)
  <2>1. UNCHANGED <<jobs, faults, outcome>>
    BY <1>15 DEF DropRowsAgain
  <2>2. QED BY <1>3, <1>15, <2>1, DropRowsAgainFacts DEF SameTask
<1>16. CASE ForgetItem(q)
  <2>1. UNCHANGED faults
    BY <1>16 DEF ForgetItem
  <2>2. outcome' \in [Docs -> AllTexts \cup {Unknown, Absent}]
    BY <1>2, <1>16, ForgetItemFacts
  <2>3. QED BY <1>1, <1>2, <1>16, <2>1, <2>2, ForgetItemFacts, TypesKept DEF Going
<1>17. CASE NextOfList(q)
  <2>1. UNCHANGED <<jobs, faults, outcome>>
    BY <1>17 DEF NextOfList
  <2>2. QED BY <1>3, <1>17, <2>1, NextOfListFacts DEF ListKinds
<1>18. CASE SweepDone(q)
  <2>1. UNCHANGED <<jobs, faults, outcome>>
    BY <1>18 DEF SweepDone
  <2>2. QED BY <1>3, <1>18, <2>1, DoneFacts, IdleFacts
<1>19. CASE CollectionDone(q)
  <2>1. UNCHANGED <<jobs, faults>>
    BY <1>19 DEF CollectionDone
  <2>2. outcome' \in [Docs -> AllTexts \cup {Unknown, Absent}]
    BY <1>19 DEF CollectionDone
  <2>3. \A p \in Workers : worker'[p].kind = "reconcile" =>
           worker[p].kind = "reconcile" /\ worker'[p].doc = worker[p].doc
    BY <1>19, DoneFacts, IdleFacts DEF Going
  <2>4. JobsInv'
    BY <1>2, <2>1, <2>3, JobsKept
  <2>5. QED BY <1>1, <1>2, <1>19, <2>1, <2>2, <2>4, DoneFacts, TypesKept DEF Going
<1>20. CASE RunCommand(q)
  <2>1. UNCHANGED <<jobs, faults, outcome>>
    BY <1>20 DEF RunCommand
  <2>2. PICK c \in worker[q].todo :
          Set(q, [worker[q] EXCEPT !.todo = @ \ {c}, !.failed = @ \/ Rejected(c)])
    BY <1>20 DEF RunCommand
  <2>3. Going(q) /\ Active(q) /\ SameTask(worker'[q], worker[q])
    BY <2>2, RunCommandFacts
  <2>4. QED BY <1>3, <2>1, <2>3, <1>1 DEF SameTask
<1>21. CASE BatchFails(q)
  <2>1. UNCHANGED <<jobs, outcome>>
    BY <1>21 DEF BatchFails
  <2>2. \A p \in Workers : worker'[p].kind = "reconcile" =>
           worker[p].kind = "reconcile" /\ worker'[p].doc = worker[p].doc
    BY <1>21, BatchFailsFacts DEF Going, SameTask
  <2>3. JobsInv'
    BY <1>2, <2>1, <2>2, JobsKept
  <2>4. QED BY <1>1, <1>2, <1>21, <2>1, <2>3, BatchFailsFacts, TypesKept DEF Going
<1>22. QED
  BY <1>5, <1>6, <1>7, <1>8, <1>9, <1>10, <1>11, <1>12, <1>13, <1>14, <1>15, <1>16, <1>17,
     <1>18, <1>19, <1>20, <1>21 DEF Work

-----------------------------------------------------------------------------
(* What the steps leave alone: what a worker is not on.                    *)
SameDoc(d) ==
  /\ items'[d] = items[d] /\ docTexts'[d] = docTexts[d] /\ outcome'[d] = outcome[d]
  /\ LateOn(d)' = LateOn(d)
  /\ \A i \in Slots : rows'[<<d, i>>] = rows[<<d, i>>] /\ vecs'[<<d, i>>] = vecs[<<d, i>>]

LEMMA OtherChunks ==
  ASSUME NEW d \in Docs, NEW i \in Slots
  PROVE  <<d, i>> \in Chunks /\ <<d, i>>[1] = d
BY DEF Chunks

LEMMA StepIsLocal ==
  ASSUME TypeInv, NEW q \in Workers, Work(q) \/ BatchFails(q), ~CollectionDone(q),
         NEW d \in Docs, d # Doc(q)
  PROVE  SameDoc(d)
<1>1. StoreTypes /\ outcome \in [Docs -> AllTexts \cup {Unknown, Absent}]
  BY TypesAre
<1>2. ASSUME UNCHANGED late PROVE LateOn(d)' = LateOn(d)
  BY <1>2 DEF LateOn
<1>3. ASSUME UNCHANGED Data PROVE SameDoc(d)
  BY <1>2, <1>3 DEF Data, SameDoc
<1>4. ASSUME Fail(q) PROVE outcome'[d] = outcome[d]
  BY <1>1, <1>4 DEF Fail, Left, Doc
<1>5. CASE FetchText(q)
  BY <1>2, <1>4, <1>5 DEF FetchText, SameDoc
<1>6. CASE UpsertItem(q)
  <2>1. items'[d] = items[d]
    BY <1>1, <1>6 DEF UpsertItem, StoreTypes
  <2>2. QED BY <1>2, <1>6, <2>1 DEF UpsertItem, SameDoc
<1>7. CASE Embed(q)
  BY <1>2, <1>4, <1>7 DEF Embed, SameDoc
<1>8. CASE ReadChunks(q) \/ EnqueueDeleteReconcile(q) \/ NextOfList(q) \/ SweepDone(q)
  BY <1>3, <1>8 DEF ReadChunks, EnqueueDeleteReconcile, NextOfList, SweepDone, Data
<1>9. CASE DropRows(q) \/ DropRowsAgain(q)
  <2>1. \A i \in Slots : rows'[<<d, i>>] = rows[<<d, i>>]
    BY <1>9, OtherChunks DEF DropRows, DropRowsAgain
  <2>2. QED BY <1>2, <1>9, <2>1 DEF DropRows, DropRowsAgain, SameDoc
<1>10. CASE VdelFailed(q)
  <2>1. outcome'[d] = outcome[d]
    BY <1>1, <1>4, <1>10 DEF VdelFailed, Left, Doc
  <2>2. QED BY <1>2, <1>10, <2>1 DEF VdelFailed, SameDoc
<1>11. CASE SaveChunks(q)
  <2>1. Doc(q) \in Docs /\ worker[q].text \in AllTexts
    BY <1>11, SaveChunksFacts
  <2>2. \A i \in Slots : <<d, i>> \notin ChunksOf(Doc(q), worker[q].text)
    BY <2>1, ChunkFacts
  <2>3. \A i \in Slots : rows'[<<d, i>>] = rows[<<d, i>>]
    BY <1>11, <2>2, OtherChunks DEF SaveChunks
  <2>4. QED BY <1>2, <1>11, <2>3 DEF SaveChunks, SameDoc
<1>12. CASE SaveDocText(q)
  <2>1. docTexts'[d] = docTexts[d]
    BY <1>1, <1>12 DEF SaveDocText, StoreTypes
  <2>2. QED BY <1>2, <1>12, <2>1 DEF SaveDocText, SameDoc
<1>13. CASE Indexed(q)
  <2>1. outcome'[d] = outcome[d]
    BY <1>1, <1>4, <1>13 DEF Indexed, Left, Doc
  <2>2. QED BY <1>2, <1>13, <2>1 DEF Indexed, SameDoc
<1>14. CASE ForgetItem(q)
  <2>1. items'[d] = items[d] /\ docTexts'[d] = docTexts[d] /\ outcome'[d] = outcome[d]
    BY <1>1, <1>14 DEF ForgetItem, StoreTypes, Left, Doc
  <2>2. QED BY <1>2, <1>14, <2>1 DEF ForgetItem, SameDoc
<1>15. CASE RunCommand(q)
  <2>1. PICK c \in worker[q].todo :
          /\ vecs' = Applied(c)
          /\ Set(q, [worker[q] EXCEPT !.todo = @ \ {c}, !.failed = @ \/ Rejected(c)])
          /\ UNCHANGED <<items, docTexts, rows, late, jobs, reingest, embedModel,
                         requests, faults, outcome, overlapped>>
    BY <1>15 DEF RunCommand
  <2>2. c \in Commands /\ c.chunk[1] = Doc(q)
    BY <2>1, RunCommandFacts
  <2>3. \A i \in Slots : vecs'[<<d, i>>] = vecs[<<d, i>>]
    BY <1>1, <2>1, <2>2, OtherChunks, CommandFacts DEF Applied, StoreTypes
  <2>4. QED BY <1>2, <2>1, <2>3 DEF SameDoc
<1>16. CASE BatchFails(q)
  <2>1. late' \in {late, late \cup worker[q].todo}
    BY <1>16, BatchFailsFacts
  <2>2. \A c \in worker[q].todo : c.chunk[1] = Doc(q)
    BY TodoIsOnDoc
  <2>3. LateOn(d)' = LateOn(d)
    BY <2>1, <2>2 DEF LateOn
  <2>4. QED BY <1>16, <2>3 DEF BatchFails, SameDoc
<1>17. QED
  BY <1>5, <1>6, <1>7, <1>8, <1>9, <1>10, <1>11, <1>12, <1>13, <1>14, <1>15, <1>16 DEF Work

(* The task of a worker only shrinks.                                      *)
LEMMA TaskShrinks ==
  ASSUME TypeInv, NEW q \in Workers, Work(q) \/ BatchFails(q)
  PROVE  /\ TargetsOf(worker'[q]) \subseteq TargetsOf(worker[q])
         /\ worker'[q] = Idle \/ (worker'[q].alone = worker[q].alone /\ worker'[q].kind = worker[q].kind)
<1>1. ASSUME worker'[q].kind = worker[q].kind, worker'[q].doc = worker[q].doc,
             worker'[q].list = worker[q].list, worker'[q].alone = worker[q].alone
      PROVE  /\ TargetsOf(worker'[q]) \subseteq TargetsOf(worker[q])
             /\ worker'[q].alone = worker[q].alone /\ worker'[q].kind = worker[q].kind
  BY <1>1 DEF TargetsOf
<1>2. ASSUME worker'[q] = Idle
      PROVE  TargetsOf(worker'[q]) \subseteq TargetsOf(worker[q])
  BY <1>2, IdleFacts
<1>3. CASE FetchText(q) \/ Embed(q)
  BY <1>1, <1>2, <1>3, FetchTextFacts, EmbedFacts
<1>4. CASE UpsertItem(q) \/ ReadChunks(q) \/ DropRows(q) \/ EnqueueDeleteReconcile(q)
  BY <1>1, <1>4, UpsertItemFacts, ReadChunksFacts, DropRowsFacts, EnqueueFacts, ZenonT(60) DEF SameTask
<1>5. CASE VdelFailed(q) \/ ForgetItem(q)
  BY <1>1, <1>2, <1>5, VdelFailedFacts, ForgetItemFacts DEF SameTask
<1>6. CASE SaveChunks(q) \/ SaveDocText(q) \/ DropRowsAgain(q)
  BY <1>1, <1>6, SaveChunksFacts, SaveDocTextFacts, DropRowsAgainFacts DEF SameTask
<1>7. CASE Indexed(q) \/ SweepDone(q) \/ CollectionDone(q)
  BY <1>2, <1>7, IndexedFacts, DoneFacts
<1>8. CASE NextOfList(q)
  BY <1>8, NextOfListFacts DEF TargetsOf
<1>9. CASE RunCommand(q)
  <2>1. PICK c \in worker[q].todo :
          Set(q, [worker[q] EXCEPT !.todo = @ \ {c}, !.failed = @ \/ Rejected(c)])
    BY <1>9 DEF RunCommand
  <2>2. QED BY <1>1, <2>1, RunCommandFacts DEF SameTask
<1>10. CASE BatchFails(q)
  BY <1>1, <1>10, BatchFailsFacts DEF SameTask
<1>11. QED
  BY <1>3, <1>4, <1>5, <1>6, <1>7, <1>8, <1>9, <1>10 DEF Work

-----------------------------------------------------------------------------
(* Every step but the end of the gateway is one of a worker, the start of a*)
(* task, one that only counts or expires, or a command carried out late.   *)
GoesOn == Arrives \/ (\E p \in Workers : Work(p) \/ BatchFails(p)) \/ RunLate \/ UNCHANGED dvars
Quiet == UNCHANGED Data /\ UNCHANGED <<worker, overlapped>>
Starts(p) == StartsTask(p) /\ UNCHANGED Data
Other == Quiet \/ (\E d \in Docs : Expire(d)) \/ RunLate

LEMMA StartKeepsTypes ==
  ASSUME TypeInv, NEW p \in Workers, NEW w \in WorkerRec, Fresh(w), Start(p, w), UNCHANGED Data,
         UNCHANGED <<embedModel, faults>>, requests' \in 0..MaxRequests,
         reingest' \in [on: BOOLEAN, left: SUBSET Docs], jobs' \in [Docs -> JobRec], JobsInv'
  PROVE  TypeInv'
<1>1. /\ worker' \in [Workers -> WorkerRec] /\ \A q \in Workers : Shape(worker'[q])
      /\ overlapped' \in SUBSET Docs
  BY StartFacts
<1>2. /\ StoreTypes' /\ embedModel' \in Models /\ faults' \in 0..MaxFaults
      /\ outcome' \in [Docs -> AllTexts \cup {Unknown, Absent}]
  BY TypesAre DEF StoreTypes, Data
<1>3. QED BY <1>1, <1>2 DEF TypeInv, DocTypeOK, StoreTypes, JobRec, WorkerRec

LEMMA TaskTypes ==
  ASSUME TypeInv, NEW p \in Workers, NEW d,
         \/ d \in Docs /\ \E t \in Texts : WriteDoc(p, d, t)
         \/ d \in Docs /\ (DeleteDoc(p, d) \/ Lane(p, d))
         \/ DeleteCollection(p) \/ TtlSweep(p) \/ TtlCleanupJob(p)
  PROVE  TypeInv' /\ Starts(p)
<1>1. /\ UNCHANGED Data /\ UNCHANGED <<jobs, embedModel, faults>>
      /\ requests' \in 0..MaxRequests /\ reingest' \in [on: BOOLEAN, left: SUBSET Docs]
      /\ \E w \in WorkerRec : Fresh(w) /\ Start(p, w) /\ w.kind # "reconcile"
  BY ArrivesFacts
<1>2. PICK w \in WorkerRec : Fresh(w) /\ Start(p, w) /\ w.kind # "reconcile"
  BY <1>1
<1>3. \A q \in Workers : worker'[q].kind = "reconcile" =>
        worker[q].kind = "reconcile" /\ worker'[q].doc = worker[q].doc
  BY <1>2, StartFacts
<1>4. JobsInv' /\ jobs' \in [Docs -> JobRec]
  BY <1>1, <1>3, JobsKept, TypesAre
<1>5. QED BY <1>1, <1>2, <1>4, StartKeepsTypes DEF Starts, StartsTask

LEMMA NoTaskTypes ==
  ASSUME TypeInv, UNCHANGED <<docTexts, rows, jobs, worker, overlapped, outcome, embedModel, faults>>,
         items' \in [Docs -> {"none", "live", "expired"}],
         vecs' \in [Chunks -> Vectors \cup {None}], late' \in SUBSET Commands,
         requests' \in 0..MaxRequests, reingest' \in [on: BOOLEAN, left: SUBSET Docs]
  PROVE  TypeInv'
<1>1. JobsInv'
  BY TypesAre DEF JobsInv, Doc
<1>2. \A p \in Workers : Shape(worker'[p])
  BY TypesAre
<1>3. QED BY <1>1, <1>2, TypesAre DEF TypeInv, DocTypeOK, StoreTypes, JobRec, WorkerRec

LEMMA WorkersDieTypes ==
  ASSUME TypeInv, WorkersDie, late' \in SUBSET Commands, embedModel' \in Models,
         requests' \in 0..MaxRequests, faults' \in 0..MaxFaults
  PROVE  TypeInv'
<1>1. worker' \in [Workers -> WorkerRec] /\ \A p \in Workers : worker'[p] = Idle
  BY IdleFacts DEF WorkersDie
<1>2. \A p \in Workers : Shape(worker'[p])
  BY <1>1, IdleFacts
<1>3. JobsInv'
  BY <1>1, IdleFacts, TypesAre, JobsKept DEF WorkersDie
<1>4. outcome' \in [Docs -> AllTexts \cup {Unknown, Absent}]
  BY TypesAre DEF WorkersDie
<1>5. reingest' \in [on: BOOLEAN, left: SUBSET Docs]
  BY DEF WorkersDie
<1>6. UNCHANGED <<items, docTexts, rows, vecs, jobs, overlapped>>
  BY DEF WorkersDie
<1>7. QED
  BY <1>1, <1>2, <1>3, <1>4, <1>5, <1>6, TypesAre
     DEF TypeInv, DocTypeOK, StoreTypes, JobRec, WorkerRec

LEMMA SentFacts ==
  ASSUME TypeInv
  PROVE  Sent \in SUBSET Commands
BY TypesAre DEF WorkerRec, Sent

LEMMA CrashFacts ==
  ASSUME TypeInv, GatewayCrash
  PROVE  TypeInv' /\ late \subseteq late' /\ late' \in SUBSET Commands /\ late' \subseteq late \cup Sent
<1>1. late' \in {late, late \cup Sent} /\ late' \in SUBSET Commands
  BY SentFacts, TypesAre DEF StoreTypes, GatewayCrash
<1>2. faults' \in 0..MaxFaults
  BY FaultType DEF GatewayCrash, FaultKinds
<1>3. QED BY <1>1, <1>2, WorkersDieTypes, TypesAre DEF GatewayCrash

LEMMA GoesOnStep ==
  ASSUME TypeInv, GoesOn
  PROVE  /\ TypeInv'
         /\ \/ \E q \in Workers : Work(q) \/ BatchFails(q)
            \/ \E p \in Workers : Starts(p)
            \/ Other
<1>1. CASE \E q \in Workers : Work(q) \/ BatchFails(q)
  BY <1>1, WorkTypeStep
<1>2. CASE \E p \in Workers, d \in Docs :
             (\E t \in Texts : WriteDoc(p, d, t)) \/ DeleteDoc(p, d) \/ Lane(p, d)
  BY <1>2, TaskTypes
<1>3. CASE \E p \in Workers, d \in Docs : DeleteReconcileJob(p, d)
  <2>1. PICK p \in Workers, d \in Docs : DeleteReconcileJob(p, d)
    BY <1>3
  <2>2. /\ StartsTask(p) /\ UNCHANGED Data /\ UNCHANGED <<embedModel, faults, requests, reingest>>
        /\ jobs' \in [Docs -> JobRec] /\ JobsInv'
    BY <2>1, JobStartFacts
  <2>3. PICK w \in WorkerRec : Fresh(w) /\ Start(p, w)
    BY <2>2 DEF StartsTask
  <2>4. TypeInv'
    BY <2>2, <2>3, TypesAre, StartKeepsTypes
  <2>5. QED BY <2>2, <2>4 DEF Starts
<1>4. CASE StartReingest \/ ReingestDone
  <2>1. Quiet /\ UNCHANGED <<jobs, embedModel, faults>>
    BY <1>4 DEF StartReingest, ReingestDone, Quiet, Data
  <2>2. requests' \in 0..MaxRequests
    <3>1. requests \in 0..MaxRequests /\ MaxRequests \in Nat
      BY TypesAre, DocIndexAssumption
    <3>2. requests' = requests \/ (requests < MaxRequests /\ requests' = requests + 1)
      BY <1>4 DEF StartReingest, ReingestDone
    <3>3. QED BY <3>1, <3>2
  <2>3. reingest' \in [on: BOOLEAN, left: SUBSET Docs]
    <3>1. reingest \in [on: BOOLEAN, left: SUBSET Docs] /\ Artifacts \subseteq Docs
      BY TypesAre, DocIndexAssumption
    <3>2. CASE StartReingest
      <4>1. {d \in Artifacts : items[d] # "none"} \in SUBSET Docs
        BY <3>1
      <4>2. QED BY <3>2, <4>1 DEF StartReingest
    <3>3. CASE ReingestDone
      BY <3>1, <3>3 DEF ReingestDone
    <3>4. QED BY <1>4, <3>2, <3>3
  <2>4. TypeInv'
    BY <2>1, <2>2, <2>3, TypesAre, NoTaskTypes DEF Quiet, Data, StoreTypes
  <2>5. QED BY <2>1, <2>4 DEF Other
<1>5. CASE \E d \in Docs : Expire(d)
  <2>1. PICK d \in Docs : Expire(d)
    BY <1>5
  <2>2. items' \in [Docs -> {"none", "live", "expired"}]
    BY <2>1, TypesAre DEF Expire, StoreTypes
  <2>3. TypeInv'
    BY <2>1, <2>2, TypesAre, NoTaskTypes DEF Expire, StoreTypes
  <2>4. QED BY <1>5, <2>3 DEF Other
<1>6. CASE RunLate
  <2>1. PICK c \in late : vecs' = Applied(c) /\ late' = late \ {c}
    BY <1>6 DEF RunLate
  <2>2. c \in Commands /\ late' \in SUBSET Commands
    BY <2>1, TypesAre DEF StoreTypes
  <2>3. vecs' \in [Chunks -> Vectors \cup {None}]
    BY <2>1, <2>2, AppliedType
  <2>4. TypeInv'
    BY <1>6, <2>2, <2>3, TypesAre, NoTaskTypes DEF RunLate, StoreTypes
  <2>5. QED BY <1>6, <2>4 DEF Other
<1>7. CASE UNCHANGED dvars
  <2>1. Quiet
    BY <1>7 DEF dvars, Quiet, Data
  <2>2. UNCHANGED <<jobs, embedModel, faults, requests, reingest>>
    BY <1>7 DEF dvars
  <2>3. TypeInv'
    BY <2>1, <2>2, TypesAre, NoTaskTypes DEF Quiet, Data, StoreTypes
  <2>4. QED BY <2>1, <2>3 DEF Other
<1>8. CASE \E p \in Workers : DeleteCollection(p) \/ TtlSweep(p) \/ TtlCleanupJob(p)
  BY <1>8, TaskTypes
<1>9. QED
  BY <1>1, <1>2, <1>3, <1>4, <1>5, <1>6, <1>7, <1>8 DEF GoesOn, Arrives

-----------------------------------------------------------------------------
(* The inductive invariant.  A worker owns a document it is to work on if  *)
(* nobody else has met it there; nobody else has such a document in his    *)
(* task, and no command is still on its way to it.                         *)
Owns(p, d)  == d \in TargetsOf(worker[p]) /\ (worker[p].alone \/ d \notin overlapped)
OnDoc(p, d) == Active(p) /\ Doc(p) = d /\ worker[p].at \notin {"next", "enqueue"}
BusyWith(p, d)  == d \in worker[p].list \/ worker[p].kind = "collection" \/ OnDoc(p, d)

OwnsInv == \A p, q \in Workers, d \in Docs : Owns(p, d) /\ p # q => d \notin TargetsOf(worker[q])

(* mix are the documents for which somebody else may have sent vectors of  *)
(* other texts: none here, those a rebuild held in Reindex.                *)
LateInv(p, d, mix) ==
  Owns(p, d) /\ (d \in worker[p].list \/ (OnDoc(p, d) /\ ~worker[p].failed)) =>
    \A x \in LateOn(d) : d \in mix /\ x.op = "vset"

(* How far the owner of a document is with it.                             *)
Vectored(p, d, mix) ==
  \A c \in ChunksOf(d, worker[p].text) :
    \/ [op |-> "vset", chunk |-> c, vec |-> [text |-> worker[p].text, model |-> worker[p].vec]]
         \in worker[p].todo
    \/ vecs[c] # None /\ (d \in mix \/ vecs[c].text = worker[p].text)

OwnerInv(p, d, mix) ==
  OnDoc(p, d) /\ Owns(p, d) =>
    /\ worker[p].kind \in Writers /\ worker[p].at \notin {"fetch", "upsert"} => items[d] # "none"
    /\ worker[p].at \in {"save", "again", "forget"} => Bare(d)
    /\ worker[p].at \in {"text", "vset"} => Exact(d, worker[p].text)
    /\ worker[p].at = "vset" /\ d \in Artifacts /\ ~worker[p].broken => docTexts[d] = worker[p].text
    /\ worker[p].at = "vset" /\ ~worker[p].failed /\ worker[p].alone => Vectored(p, d, mix)
    /\ worker[p].at = "vdel" /\ ~worker[p].failed /\ d \notin overlapped \cup mix =>
         \A i \in Slots : vecs[<<d, i>>] # None => VdelOf(<<d, i>>) \in worker[p].todo
    /\ worker[p].at = "again" /\ d \notin overlapped \cup mix => \A i \in Slots : vecs[<<d, i>>] = None

(* What a collection delete has left behind.                               *)
CollInv(p, d) ==
  worker[p].kind = "collection" /\ worker[p].alone /\ ~worker[p].broken /\ d \notin worker[p].list
    => OnDoc(p, d) \/ Bare(d)

(* A command that is still on its way does a written document no harm.     *)
SameText(x, d, mix) ==
  /\ x.op = "vset"
  /\ d \in mix \/ (x.chunk \in ChunksOf(d, outcome[d]) /\ x.vec.text = outcome[d])

Written(d, mix) ==
  /\ Exact(d, outcome[d]) /\ items[d] # "none"
  /\ \A c \in ChunksOf(d, outcome[d]) : vecs[c] # None /\ (d \in mix \/ vecs[c].text = outcome[d])
  /\ \A x \in LateOn(d) : SameText(x, d, mix)
  /\ d \in Artifacts => docTexts[d] = outcome[d]

(* A document nobody is busy with is what the last worker on it left.      *)
SettledInv(d, mix) ==
  (\A p \in Workers : ~BusyWith(p, d)) =>
    /\ outcome[d] \in AllTexts => Written(d, mix)
    /\ outcome[d] = Absent => items[d] = "none" /\ Bare(d)

NoOrphans(mix) == \A c \in Chunks : c[1] \notin overlapped \cup mix /\ vecs[c] # None => rows[c] # None
LateVset(mix)  == \A x \in late : x.op = "vset" /\ x.chunk[1] \notin overlapped \cup mix => rows[x.chunk] # None

DocInv(mix) ==
  /\ OwnsInv
  /\ \A p \in Workers, d \in Docs : LateInv(p, d, mix)
  /\ \A p \in Workers, d \in Docs : OwnerInv(p, d, mix)
  /\ \A p \in Workers, d \in Docs : CollInv(p, d)
  /\ \A d \in Docs : SettledInv(d, mix)
  /\ NoOrphans(mix)
  /\ LateVset(mix)

LEMMA DocInvInit ==
  ASSUME NEW mix, DocInit
  PROVE  DocInv(mix)
<1>1. \A p \in Workers : worker[p] = Idle /\ TargetsOf(worker[p]) = {}
  BY IdleFacts DEF DocInit
<1>2. OwnsInv /\ \A p \in Workers, d \in Docs : LateInv(p, d, mix) /\ OwnerInv(p, d, mix) /\ CollInv(p, d)
  BY <1>1, IdleFacts DEF OwnsInv, Owns, LateInv, OwnerInv, CollInv
<1>3. \A d \in Docs : SettledInv(d, mix)
  BY DocIndexAssumption DEF DocInit, SettledInv, Bare, Chunks, Absent
<1>4. NoOrphans(mix) /\ LateVset(mix)
  BY DEF DocInit, NoOrphans, LateVset
<1>5. QED BY <1>2, <1>3, <1>4 DEF DocInv

(* A busy worker has the document in its task.                             *)
LEMMA BusyTargets ==
  ASSUME TypeInv, NEW p \in Workers, NEW d \in Docs, BusyWith(p, d)
  PROVE  d \in TargetsOf(worker[p]) /\ Active(p)
<1>1. worker[p] \in WorkerRec /\ Shape(worker[p])
  BY WorkerFacts
<1>2. CASE d \in worker[p].list
  BY <1>1, <1>2 DEF TargetsOf, Shape, Active
<1>3. CASE worker[p].kind = "collection"
  BY <1>3 DEF TargetsOf, Active
<1>4. CASE OnDoc(p, d)
  BY <1>4, WorkerFacts DEF OnDoc
<1>5. QED BY <1>2, <1>3, <1>4 DEF BusyWith

(* A chunk of a document is one of its slots.                              *)
LEMMA ChunkOfDoc ==
  ASSUME NEW c \in Chunks
  PROVE  /\ c[1] \in Docs /\ c[2] \in Slots /\ c = <<c[1], c[2]>>
         /\ \A d \in Docs, i \in Slots : c = <<d, i>> => c[1] = d
BY DEF Chunks

(* ---- What is carried over by a step that leaves the document alone, but *)
(* for commands that were under way and vectors sent beside the workers,   *)
(* which have the text of the rows where nobody works.                     *)
Harmless(x, d, mix) ==
  /\ x \in Commands /\ x.chunk[1] = d /\ x.op = "vset"
  /\ d \in mix \/ (Users(d) = {} /\ x.vec.text = rows[x.chunk])

Steady(d, mix) ==
  /\ (items'[d] = "none") = (items[d] = "none")
  /\ docTexts'[d] = docTexts[d] /\ outcome'[d] = outcome[d]
  /\ \A x \in LateOn(d)' : x \in LateOn(d) \/ Harmless(x, d, mix)
  /\ \A i \in Slots : rows'[<<d, i>>] = rows[<<d, i>>]
  /\ \A i \in Slots : \/ vecs'[<<d, i>>] = vecs[<<d, i>>]
                      \/ \E x \in Commands : /\ x.chunk = <<d, i>> /\ vecs'[<<d, i>>] = x.vec
                                             /\ x \in LateOn(d) \/ Harmless(x, d, mix)

KeepsTask(p) ==
  /\ worker'[p].kind = worker[p].kind /\ worker'[p].at = worker[p].at
  /\ worker'[p].doc = worker[p].doc /\ worker'[p].list = worker[p].list
  /\ worker'[p].todo = worker[p].todo /\ worker'[p].failed = worker[p].failed
  /\ worker'[p].broken = worker[p].broken /\ worker'[p].text = worker[p].text
  /\ worker'[p].vec = worker[p].vec
  /\ worker'[p].alone => worker[p].alone
  /\ TargetsOf(worker'[p]) = TargetsOf(worker[p])
  /\ overlapped \subseteq overlapped'

LEMMA KeptTask ==
  ASSUME NEW p \in Workers, KeepsTask(p), NEW d \in Docs
  PROVE  /\ Owns(p, d)' => Owns(p, d)
         /\ OnDoc(p, d)' = OnDoc(p, d) /\ BusyWith(p, d)' = BusyWith(p, d)
<1>1. Owns(p, d)' => Owns(p, d)
  BY DEF KeepsTask, Owns
<1>2. OnDoc(p, d)' = OnDoc(p, d)
  BY DEF KeepsTask, OnDoc, Active, Doc
<1>3. BusyWith(p, d)' = BusyWith(p, d)
  BY <1>2 DEF KeepsTask, BusyWith
<1>4. QED BY <1>1, <1>2, <1>3

LEMMA SteadyRows ==
  ASSUME NEW mix, NEW d \in Docs, Steady(d, mix)
  PROVE  /\ Bare(d)' = Bare(d) /\ \A t \in AllTexts : Exact(d, t)' = Exact(d, t)
<1>1. Bare(d)' = Bare(d)
  BY DEF Steady, Bare
<1>2. ASSUME NEW t \in AllTexts PROVE Exact(d, t)' = Exact(d, t)
  <2>1. \A c \in {d} \X Slots : rows'[c] = rows[c]
    BY DEF Steady
  <2>2. QED BY <2>1 DEF Exact
<1>3. QED BY <1>1, <1>2

LEMMA HarmlessIsSame ==
  ASSUME TypeInv, NEW mix, NEW d \in Docs, NEW x, Harmless(x, d, mix), outcome[d] \in AllTexts,
         Exact(d, outcome[d])
  PROVE  SameText(x, d, mix)
<1>1. CASE d \in mix
  BY <1>1 DEF Harmless, SameText
<1>2. CASE x.vec.text = rows[x.chunk]
  <2>1. x \in Commands /\ x.op = "vset" /\ x.chunk[1] = d
    BY DEF Harmless
  <2>2. x.vec \in Vectors /\ x.chunk \in {d} \X Slots
    BY <2>1, CommandFacts
  <2>3. x.vec.text # None
    BY <2>2, DocIndexAssumption DEF Vectors
  <2>4. QED BY <1>2, <2>1, <2>2, <2>3 DEF Exact, SameText
<1>3. QED BY <1>1, <1>2 DEF Harmless

LEMMA KeptLate ==
  ASSUME NEW mix, NEW p \in Workers, KeepsTask(p), NEW d \in Docs, Owns(p, d) => Steady(d, mix),
         LateInv(p, d, mix)
  PROVE  LateInv(p, d, mix)'
<1> SUFFICES ASSUME Owns(p, d)', (d \in worker[p].list \/ (OnDoc(p, d) /\ ~worker[p].failed))',
                    NEW x \in LateOn(d)'
             PROVE  d \in mix /\ x.op = "vset"
  BY DEF LateInv
<1>1. Owns(p, d) /\ (d \in worker[p].list \/ (OnDoc(p, d) /\ ~worker[p].failed))
  BY KeptTask DEF KeepsTask
<1>2. Users(d) # {}
  BY <1>1 DEF Owns, Users
<1>3. QED BY <1>1, <1>2 DEF LateInv, Steady, Harmless

LEMMA KeptOwner ==
  ASSUME NEW mix, TypeInv, NEW p \in Workers, KeepsTask(p), NEW d \in Docs, Owns(p, d) => Steady(d, mix),
         LateInv(p, d, mix), OwnerInv(p, d, mix)
  PROVE  OwnerInv(p, d, mix)'
<1> SUFFICES ASSUME OnDoc(p, d)', Owns(p, d)'
             PROVE  OwnerInv(p, d, mix)'
  BY DEF OwnerInv
<1>1. OnDoc(p, d) /\ Owns(p, d) /\ Steady(d, mix)
  BY KeptTask
<1>2. worker[p] \in WorkerRec /\ Shape(worker[p]) /\ worker[p].doc = d
  BY <1>1, WorkerFacts DEF OnDoc, Doc
<1>3. ~worker[p].failed => \A i \in Slots : vecs'[<<d, i>>] = vecs[<<d, i>>]
                                             \/ (d \in mix /\ vecs'[<<d, i>>] # None)
  <2> SUFFICES ASSUME ~worker[p].failed, NEW i \in Slots, vecs'[<<d, i>>] # vecs[<<d, i>>]
               PROVE  d \in mix /\ vecs'[<<d, i>>] # None
    OBVIOUS
  <2>1. PICK x \in Commands : vecs'[<<d, i>>] = x.vec /\ (x \in LateOn(d) \/ Harmless(x, d, mix))
    BY <1>1 DEF Steady
  <2>2. Users(d) # {}
    BY <1>1 DEF Owns, Users
  <2>3. d \in mix /\ x.op = "vset"
    BY <1>1, <2>1, <2>2 DEF LateInv, Harmless
  <2>4. QED BY <2>1, <2>3, CommandFacts
<1>4. worker[p].at \in {"text", "vset"} => worker[p].text \in AllTexts
  BY <1>1, <1>2 DEF Shape, OnDoc, Active, WorkerRec, Kinds, Writers, ListKinds
<1>5. worker[p].at = "again" => ~worker[p].failed
  BY <1>2 DEF Shape
<1>6. (worker[p].kind \in Writers /\ worker[p].at \notin {"fetch", "upsert"} => items[d] # "none")'
  BY <1>1 DEF OwnerInv, KeepsTask, Steady
<1>7. (worker[p].at \in {"save", "again", "forget"} => Bare(d))'
  BY <1>1, SteadyRows DEF OwnerInv, KeepsTask
<1>8. (worker[p].at \in {"text", "vset"} => Exact(d, worker[p].text))'
  <2> DEFINE t == worker[p].text
  <2>1. SUFFICES ASSUME worker[p].at \in {"text", "vset"} PROVE Exact(d, worker[p].text)'
    BY DEF KeepsTask
  <2>2. t \in AllTexts /\ Exact(d, t) /\ worker'[p].text = t
    BY <1>1, <1>4, <2>1 DEF OwnerInv, KeepsTask
  <2>3. \A c \in {d} \X Slots : rows'[c] = rows[c]
    BY <1>1 DEF Steady
  <2>4. QED BY <2>2, <2>3 DEF Exact
<1>9. (worker[p].at = "vset" /\ d \in Artifacts /\ ~worker[p].broken => docTexts[d] = worker[p].text)'
  BY <1>1 DEF OwnerInv, KeepsTask, Steady
<1>10. (worker[p].at = "vset" /\ ~worker[p].failed /\ worker[p].alone => Vectored(p, d, mix))'
  <2>1. SUFFICES ASSUME worker[p].at = "vset", ~worker[p].failed, worker[p].alone
                 PROVE  Vectored(p, d, mix)'
    BY DEF KeepsTask
  <2>2. Vectored(p, d, mix) /\ worker[p].text \in AllTexts
    BY <1>1, <1>4, <2>1 DEF OwnerInv
  <2>3. \A c \in ChunksOf(d, worker[p].text) : vecs'[c] = vecs[c] \/ (d \in mix /\ vecs'[c] # None)
    BY <1>3, <2>1, <2>2, ChunkFacts
  <2>4. worker'[p].todo = worker[p].todo /\ worker'[p].text = worker[p].text
        /\ worker'[p].vec = worker[p].vec
    BY DEF KeepsTask
  <2>5. QED BY <2>2, <2>3, <2>4 DEF Vectored
<1>11. (worker[p].at = "vdel" /\ ~worker[p].failed /\ d \notin overlapped \cup mix =>
          \A i \in Slots : vecs[<<d, i>>] # None => VdelOf(<<d, i>>) \in worker[p].todo)'
  <2>1. SUFFICES ASSUME worker[p].at = "vdel", ~worker[p].failed, d \notin overlapped \cup mix,
                        NEW i \in Slots, vecs'[<<d, i>>] # None
                 PROVE  VdelOf(<<d, i>>) \in worker[p].todo
    BY DEF KeepsTask, VdelOf
  <2>2. QED BY <1>1, <1>3, <2>1 DEF OwnerInv
<1>12. (worker[p].at = "again" /\ d \notin overlapped \cup mix => \A i \in Slots : vecs[<<d, i>>] = None)'
  BY <1>1, <1>3, <1>5 DEF OwnerInv, KeepsTask
<1>13. QED BY <1>6, <1>7, <1>8, <1>9, <1>10, <1>11, <1>12 DEF OwnerInv

LEMMA KeptColl ==
  ASSUME NEW mix, NEW p \in Workers, KeepsTask(p), NEW d \in Docs, Owns(p, d) => Steady(d, mix), CollInv(p, d)
  PROVE  CollInv(p, d)'
<1> SUFFICES ASSUME worker[p].kind = "collection", worker[p].alone, ~worker[p].broken,
                    d \notin worker[p].list, worker'[p].alone
             PROVE  (OnDoc(p, d) \/ Bare(d))'
  BY DEF CollInv, KeepsTask
<1>1. Owns(p, d) /\ (OnDoc(p, d) \/ Bare(d))
  BY DEF CollInv, Owns, TargetsOf
<1>2. QED BY <1>1, KeptTask, SteadyRows

LEMMA KeptSettled ==
  ASSUME NEW mix, TypeInv, NEW d \in Docs, Steady(d, mix), \A p \in Workers : BusyWith(p, d) => BusyWith(p, d)', SettledInv(d, mix)
  PROVE  SettledInv(d, mix)'
<1> SUFFICES ASSUME \A p \in Workers : ~BusyWith(p, d)'
             PROVE  /\ (outcome[d] \in AllTexts => Written(d, mix))'
                    /\ (outcome[d] = Absent => items[d] = "none" /\ Bare(d))'
  BY DEF SettledInv
<1>1. /\ outcome[d] \in AllTexts => Written(d, mix)
      /\ outcome[d] = Absent => items[d] = "none" /\ Bare(d)
  BY DEF SettledInv
<1>2. (outcome[d] = Absent => items[d] = "none" /\ Bare(d))'
  BY <1>1, SteadyRows DEF Steady
<1>3. (outcome[d] \in AllTexts => Written(d, mix))'
  <2>1. SUFFICES ASSUME outcome[d] \in AllTexts PROVE Written(d, mix)'
    BY DEF Steady
  <2>2. Written(d, mix) /\ outcome'[d] = outcome[d]
    BY <1>1, <2>1 DEF Steady
  <2>3. \A x : x \in LateOn(d) \/ Harmless(x, d, mix) => SameText(x, d, mix)
    BY <2>1, <2>2, HarmlessIsSame DEF Written
  <2>4. \A c \in ChunksOf(d, outcome[d]) :
          vecs'[c] # None /\ (d \in mix \/ vecs'[c].text = outcome[d])
    <3> SUFFICES ASSUME NEW c \in ChunksOf(d, outcome[d]), vecs'[c] # vecs[c]
                 PROVE  vecs'[c] # None /\ (d \in mix \/ vecs'[c].text = outcome[d])
      BY <2>2 DEF Written
    <3>1. c[2] \in Slots /\ c = <<d, c[2]>>
      BY <2>1, ChunkFacts
    <3>2. PICK x \in Commands : vecs'[c] = x.vec /\ (x \in LateOn(d) \/ Harmless(x, d, mix))
      BY <3>1 DEF Steady
    <3>3. QED BY <2>3, <3>2, CommandFacts DEF SameText
  <2>5. \A x \in LateOn(d)' : SameText(x, d, mix)'
    <3> SUFFICES ASSUME NEW x \in LateOn(d)' PROVE SameText(x, d, mix)'
      OBVIOUS
    <3>1. SameText(x, d, mix)
      BY <2>3 DEF Steady
    <3>2. QED BY <2>2, <3>1 DEF SameText
  <2>6. ((items[d] # "none") => items'[d] # "none") /\ docTexts'[d] = docTexts[d]
    BY DEF Steady
  <2>7. \A c \in {d} \X Slots : rows'[c] = rows[c]
    BY DEF Steady
  <2>8. Exact(d, outcome[d])'
    BY <2>2, <2>7 DEF Written, Exact
  <2>9. QED BY <2>2, <2>4, <2>5, <2>6, <2>8 DEF Written
<1>4. QED BY <1>2, <1>3

LEMMA SameIsSteady ==
  ASSUME NEW mix, NEW d \in Docs, SameDoc(d)
  PROVE  Steady(d, mix)
BY DEF SameDoc, Steady

LEMMA DataIsSteady ==
  ASSUME NEW mix, NEW d \in Docs, UNCHANGED Data
  PROVE  Steady(d, mix)
<1>1. LateOn(d)' = LateOn(d)
  BY DEF LateOn, Data
<1>2. QED BY <1>1 DEF Data, Steady

(* ---- The steps of no worker.                                            *)
LEMMA OrphansKept ==
  ASSUME NEW mix, TypeInv, NoOrphans(mix), LateVset(mix), UNCHANGED <<rows, vecs, late>>, overlapped \subseteq overlapped'
  PROVE  NoOrphans(mix)' /\ LateVset(mix)'
BY DEF NoOrphans, LateVset

(* A step that lets every worker go on with its task.                      *)
LEMMA KeptInv ==
  ASSUME NEW mix, TypeInv, DocInv(mix), \A p \in Workers : KeepsTask(p),
         \A d \in Docs : Steady(d, mix), overlapped' = overlapped, late' \in SUBSET Commands
  PROVE  DocInv(mix)'
<1>1. OwnsInv'
  <2>1. \A p \in Workers, d \in Docs : Owns(p, d)' => Owns(p, d)
    BY KeptTask
  <2>2. \A p \in Workers : TargetsOf(worker'[p]) = TargetsOf(worker[p])
    BY DEF KeepsTask
  <2>3. QED BY <2>1, <2>2 DEF DocInv, OwnsInv
<1>2. \A p \in Workers, d \in Docs : LateInv(p, d, mix)'
  BY KeptLate DEF DocInv
<1>3. \A p \in Workers, d \in Docs : OwnerInv(p, d, mix)'
  BY KeptOwner DEF DocInv
<1>4. \A p \in Workers, d \in Docs : CollInv(p, d)'
  BY KeptColl DEF DocInv
<1>5. \A d \in Docs : SettledInv(d, mix)'
  <2> TAKE d \in Docs
  <2>1. \A p \in Workers : BusyWith(p, d) => BusyWith(p, d)'
    BY KeptTask
  <2>2. QED BY <2>1, KeptSettled DEF DocInv
<1>6. ASSUME NEW x \in Commands, x.op = "vset", x.chunk[1] \notin overlapped \cup mix,
             x \in late \/ Harmless(x, x.chunk[1], mix)
      PROVE  rows[x.chunk] # None
  <2>1. CASE x \in late
    BY <1>6, <2>1 DEF DocInv, LateVset
  <2>2. CASE Harmless(x, x.chunk[1], mix)
    <3>1. x.vec \in Vectors /\ rows[x.chunk] = x.vec.text
      BY <1>6, <2>2, CommandFacts DEF Harmless
    <3>2. QED BY <3>1, DocIndexAssumption DEF Vectors
  <2>3. QED BY <1>6, <2>1, <2>2
<1>7. \A c \in Chunks : rows'[c] = rows[c]
  BY ChunkOfDoc DEF Steady
<1>8. LateVset(mix)'
  <2> SUFFICES ASSUME NEW x \in late', x.op = "vset", x.chunk[1] \notin overlapped \cup mix
               PROVE  rows'[x.chunk] # None
    BY DEF LateVset
  <2>1. x \in Commands /\ x.chunk \in Chunks /\ x.chunk[1] \in Docs
    BY CommandFacts
  <2>2. x \in LateOn(x.chunk[1])'
    BY DEF LateOn
  <2>3. x \in late \/ Harmless(x, x.chunk[1], mix)
    BY <2>1, <2>2 DEF Steady, LateOn
  <2>4. QED BY <1>6, <1>7, <2>1, <2>3
<1>9. NoOrphans(mix)'
  <2> SUFFICES ASSUME NEW c \in Chunks, c[1] \notin overlapped \cup mix, vecs'[c] # None
               PROVE  rows'[c] # None
    BY DEF NoOrphans
  <2>1. CASE vecs'[c] = vecs[c]
    BY <1>7, <2>1 DEF DocInv, NoOrphans
  <2>2. CASE vecs'[c] # vecs[c]
    <3>1. c[1] \in Docs /\ c[2] \in Slots /\ c = <<c[1], c[2]>>
      BY ChunkOfDoc
    <3>2. PICK x \in Commands : x.chunk = c /\ vecs'[c] = x.vec
                                /\ (x \in LateOn(c[1]) \/ Harmless(x, c[1], mix))
      BY <2>2, <3>1 DEF Steady
    <3>3. x.op = "vset" /\ (x \in late \/ Harmless(x, x.chunk[1], mix))
      BY <3>2, CommandFacts DEF LateOn
    <3>4. QED BY <1>6, <1>7, <3>2, <3>3
  <2>3. QED BY <2>1, <2>2
<1>10. QED BY <1>1, <1>2, <1>3, <1>4, <1>5, <1>8, <1>9 DEF DocInv

LEMMA QuietInv ==
  ASSUME NEW mix, TypeInv, DocInv(mix), Quiet \/ (\E d \in Docs : Expire(d)) \/ RunLate
  PROVE  DocInv(mix)'
<1>1. UNCHANGED <<worker, overlapped>>
  BY DEF Quiet, Expire, RunLate
<1>2. \A p \in Workers : KeepsTask(p)
  BY <1>1 DEF KeepsTask
<1>3. late' \in SUBSET Commands
  BY TypesAre DEF StoreTypes, Quiet, Data, Expire, RunLate
<1>4. ASSUME NEW d \in Docs PROVE Steady(d, mix)
  <2>1. CASE Quiet
    BY <2>1, DataIsSteady DEF Quiet
  <2>2. CASE \E x \in Docs : Expire(x)
    <3>1. LateOn(d)' = LateOn(d)
      BY <2>2 DEF LateOn, Expire
    <3>2. (items'[d] = "none") = (items[d] = "none")
      BY <2>2, TypesAre DEF Expire, StoreTypes
    <3>3. QED BY <2>2, <3>1, <3>2 DEF Expire, Steady
  <2>3. CASE RunLate
    <3>1. PICK c \in late : vecs' = Applied(c) /\ late' = late \ {c}
      BY <2>3 DEF RunLate
    <3>2. c \in Commands /\ LateOn(d)' \subseteq LateOn(d)
      BY <3>1, TypesAre DEF StoreTypes, LateOn
    <3>3. \A i \in Slots : vecs'[<<d, i>>] = vecs[<<d, i>>]
                           \/ (c.chunk = <<d, i>> /\ vecs'[<<d, i>>] = c.vec /\ c \in LateOn(d))
      BY <3>1, <3>2, CommandFacts, OtherChunks, TypesAre DEF Applied, StoreTypes, LateOn
    <3>4. QED BY <2>3, <3>2, <3>3 DEF RunLate, Steady
  <2>4. QED BY <2>1, <2>2, <2>3
<1>5. QED BY <1>1, <1>2, <1>3, <1>4, KeptInv

(* ---- The gateway dies.                                                  *)
LEMMA WorkersDieInv ==
  ASSUME NEW mix, TypeInv, DocInv(mix), WorkersDie, late \subseteq late', late' \in SUBSET Commands,
         \A x \in late' \ late : x \in Sent \/ Harmless(x, x.chunk[1], mix)
  PROVE  DocInv(mix)'
<1>1. \A p \in Workers : worker'[p] = Idle /\ TargetsOf(worker'[p]) = {}
  BY IdleFacts DEF WorkersDie
<1>2. \A p \in Workers, d \in Docs : ~Owns(p, d)'
  BY <1>1 DEF Owns
<1>3. OwnsInv' /\ \A p \in Workers, d \in Docs : LateInv(p, d, mix)' /\ OwnerInv(p, d, mix)' /\ CollInv(p, d)'
  BY <1>1, <1>2, IdleFacts DEF OwnsInv, LateInv, OwnerInv, CollInv
<1>4. \A d \in Docs : SettledInv(d, mix)'
  <2> SUFFICES ASSUME NEW d \in Docs
               PROVE  /\ (outcome[d] \in AllTexts => Written(d, mix))'
                      /\ (outcome[d] = Absent => items[d] = "none" /\ Bare(d))'
    BY DEF SettledInv
  <2>1. CASE Users(d) # {}
    <3>1. outcome'[d] = Unknown
      BY <2>1 DEF WorkersDie
    <3>2. Unknown \notin AllTexts /\ Unknown # Absent
      BY DocIndexAssumption DEF Unknown, Absent
    <3>3. QED BY <3>1, <3>2
  <2>2. CASE Users(d) = {}
    <3>1. \A p \in Workers : ~BusyWith(p, d) /\ d \notin TargetsOf(worker[p])
      BY <2>2, BusyTargets DEF Users
    <3>2. outcome'[d] = outcome[d] /\ UNCHANGED <<items, docTexts, rows, vecs>>
      BY <2>2 DEF WorkersDie
    <3>3. /\ outcome[d] \in AllTexts => Written(d, mix)
          /\ outcome[d] = Absent => items[d] = "none" /\ Bare(d)
      BY <3>1 DEF DocInv, SettledInv
    <3>4. (outcome[d] = Absent => items[d] = "none" /\ Bare(d))'
      BY <3>2, <3>3 DEF Bare
    <3>5. (outcome[d] \in AllTexts => Written(d, mix))'
      <4> SUFFICES ASSUME outcome[d] \in AllTexts PROVE Written(d, mix)'
        BY <3>2
      <4>1. \A x \in LateOn(d)' : SameText(x, d, mix)
        <5> SUFFICES ASSUME NEW x \in LateOn(d)' PROVE SameText(x, d, mix)
          OBVIOUS
        <5>1. x \in late' /\ x.chunk[1] = d
          BY DEF LateOn
        <5>2. CASE x \in late
          BY <3>3, <5>1, <5>2 DEF Written, LateOn
        <5>3. CASE x \in Sent
          <6>1. PICK p \in Workers : x \in worker[p].todo
            BY <5>3 DEF Sent
          <6>2. Doc(p) = d
            BY <5>1, <6>1, TodoIsOnDoc
          <6>3. QED BY <3>1, <6>2, WorkerFacts
        <5>4. CASE Harmless(x, d, mix)
          BY <3>3, <5>4, HarmlessIsSame DEF Written
        <5>5. QED BY <5>1, <5>2, <5>3, <5>4
      <4>2. \A x \in LateOn(d)' : SameText(x, d, mix)'
        BY <3>2, <4>1 DEF SameText
      <4>3. QED BY <3>2, <3>3, <4>2 DEF Written, Exact
    <3>6. QED BY <3>4, <3>5
  <2>3. QED BY <2>1, <2>2
<1>5. NoOrphans(mix)'
  BY DEF DocInv, NoOrphans, WorkersDie
<1>6. LateVset(mix)'
  <2> SUFFICES ASSUME NEW c \in late', c.op = "vset", c.chunk[1] \notin overlapped \cup mix
               PROVE  rows[c.chunk] # None
    BY DEF LateVset, WorkersDie
  <2>1. CASE c \in late
    BY <2>1 DEF DocInv, LateVset
  <2>2. CASE c \in Sent
    <3>1. PICK p \in Workers : c \in worker[p].todo
      BY <2>2 DEF Sent
    <3> DEFINE d == Doc(p)
               t == worker[p].text
    <3>2. /\ worker[p].at = "vset" /\ Active(p) /\ d \in Docs /\ c.chunk[1] = d /\ t \in AllTexts
          /\ c \in Commands /\ c.chunk \in ChunksOf(d, t)
      BY <3>1, TodoIsOnDoc
    <3>3. OnDoc(p, d) /\ Owns(p, d)
      BY <3>2, WorkerFacts DEF OnDoc, Owns
    <3>4. Exact(d, t)
      BY <3>2, <3>3 DEF DocInv, OwnerInv
    <3>5. c.chunk \in {d} \X Slots
      BY <3>2, ChunkFacts, SMTT(30)
    <3>6. rows[c.chunk] = t
      BY <3>2, <3>4, <3>5 DEF Exact
    <3>7. QED BY <3>2, <3>6, DocIndexAssumption
  <2>3. CASE Harmless(c, c.chunk[1], mix)
    <3>1. c.vec \in Vectors /\ rows[c.chunk] = c.vec.text
      BY <2>3, CommandFacts DEF Harmless
    <3>2. QED BY <3>1, DocIndexAssumption DEF Vectors
  <2>4. QED BY <2>1, <2>2, <2>3
<1>7. QED BY <1>3, <1>4, <1>5, <1>6 DEF DocInv

LEMMA CrashInv ==
  ASSUME NEW mix, TypeInv, DocInv(mix), GatewayCrash
  PROVE  DocInv(mix)'
<1>1. late \subseteq late' /\ late' \in SUBSET Commands /\ late' \subseteq late \cup Sent
  BY CrashFacts
<1>2. WorkersDie
  BY DEF GatewayCrash
<1>3. \A x \in late' \ late : x \in Sent
  BY <1>1
<1>4. QED BY <1>1, <1>2, <1>3, WorkersDieInv

(* ---- A task starts.                                                     *)
LEMMA StartInv ==
  ASSUME NEW mix, TypeInv, DocInv(mix), NEW p \in Workers, Starts(p)
  PROVE  DocInv(mix)'
<1>1. UNCHANGED Data
  BY DEF Starts
<1>2. PICK w \in WorkerRec : Fresh(w) /\ Start(p, w)
  BY DEF Starts, StartsTask
<1>3. /\ overlapped' = overlapped \cup Shared(w) /\ ~Active(p)
      /\ worker'[p].alone = (Shared(w) = {}) /\ TargetsOf(worker'[p]) = TargetsOf(w)
      /\ worker'[p].kind = w.kind /\ worker'[p].at = w.at /\ worker'[p].list = w.list
      /\ worker'[p] \in WorkerRec
  BY <1>2, StartFacts
<1>4. ASSUME NEW q \in Workers \ {p} PROVE KeepsTask(q)
  <2>1. /\ worker'[q].kind = worker[q].kind /\ worker'[q].at = worker[q].at
        /\ worker'[q].doc = worker[q].doc /\ worker'[q].list = worker[q].list
        /\ worker'[q].todo = worker[q].todo /\ worker'[q].failed = worker[q].failed
        /\ worker'[q].broken = worker[q].broken /\ worker'[q].text = worker[q].text
        /\ worker'[q].vec = worker[q].vec
        /\ worker'[q].alone = (worker[q].alone /\ TargetsOf(worker[q]) \cap Shared(w) = {})
        /\ TargetsOf(worker'[q]) = TargetsOf(worker[q])
    BY <1>2, StartFacts
  <2>2. worker[q].alone \in BOOLEAN
    BY WorkerFacts DEF WorkerRec
  <2>3. worker'[q].alone => worker[q].alone
    BY <2>1, <2>2
  <2>4. QED BY <1>3, <2>1, <2>3 DEF KeepsTask
<1>5. ASSUME NEW q \in Workers \ {p}, NEW d \in Docs, Owns(q, d)'
      PROVE  d \in TargetsOf(worker[q]) /\ d \notin Shared(w)
  <2>1. /\ worker'[q].alone = (worker[q].alone /\ TargetsOf(worker[q]) \cap Shared(w) = {})
        /\ TargetsOf(worker'[q]) = TargetsOf(worker[q])
    BY <1>2, StartFacts
  <2>2. QED BY <1>3, <1>5, <2>1 DEF Owns
<1>6. ASSUME NEW d \in Docs, Owns(p, d)'
      PROVE  d \in TargetsOf(w) /\ Users(d) = {} /\ LateOn(d) = {} /\ LateOn(d)' = {}
  <2>1. d \in TargetsOf(w) /\ d \notin Shared(w)
    BY <1>3, <1>6 DEF Owns
  <2>2. Users(d) = {} /\ LateOn(d) = {}
    BY <2>1 DEF Shared
  <2>3. QED BY <1>1, <2>1, <2>2 DEF Data, LateOn
<1>7. \A d \in Docs : Steady(d, mix)
  BY <1>1, DataIsSteady
<1>8. OwnsInv'
  <2> SUFFICES ASSUME NEW q \in Workers, NEW r \in Workers, NEW d \in Docs, Owns(q, d)', q # r
               PROVE  d \notin TargetsOf(worker'[r])
    BY DEF OwnsInv
  <2>1. CASE q = p
    <3>1. TargetsOf(worker'[r]) = TargetsOf(worker[r])
      BY <1>4, <2>1 DEF KeepsTask
    <3>2. QED BY <1>6, <2>1, <3>1 DEF Users
  <2>2. CASE r = p
    <3>1. d \in TargetsOf(worker[q]) /\ d \notin Shared(w)
      BY <1>5, <2>2
    <3>2. Users(d) # {}
      BY <3>1 DEF Users
    <3>3. QED BY <1>3, <2>2, <3>1, <3>2 DEF Shared
  <2>3. CASE q # p /\ r # p
    <3>1. Owns(q, d) /\ TargetsOf(worker'[r]) = TargetsOf(worker[r])
      BY <1>4, <2>3, KeptTask DEF KeepsTask
    <3>2. QED BY <3>1 DEF DocInv, OwnsInv
  <2>4. QED BY <2>1, <2>2, <2>3
<1>9. \A q \in Workers, d \in Docs : LateInv(q, d, mix)'
  <2> TAKE q \in Workers, d \in Docs
  <2>1. CASE q = p
    BY <1>6, <2>1 DEF LateInv
  <2>2. CASE q # p
    BY <1>4, <1>7, <2>2, KeptLate DEF DocInv
  <2>3. QED BY <2>1, <2>2
<1>10. \A q \in Workers, d \in Docs : OwnerInv(q, d, mix)'
  <2> TAKE q \in Workers, d \in Docs
  <2>1. CASE q = p
    <3>1. worker'[p].at \in {"upsert", "fetch", "read", "next"}
          /\ (worker'[p].kind \in Writers => worker'[p].at \in {"upsert", "fetch"})
      BY <1>2, <1>3 DEF Fresh
    <3>2. QED BY <2>1, <3>1 DEF OwnerInv
  <2>2. CASE q # p
    BY <1>4, <1>7, <2>2, KeptOwner DEF DocInv
  <2>3. QED BY <2>1, <2>2
<1>11. \A q \in Workers, d \in Docs : CollInv(q, d)'
  <2> TAKE q \in Workers, d \in Docs
  <2>1. CASE q = p
    <3>1. worker'[p].kind = "collection" => worker'[p].list = {x \in Docs : ~Bare(x)}
      BY <1>2, <1>3 DEF Fresh
    <3>2. Bare(d)' = Bare(d)
      BY <1>7, SteadyRows
    <3>3. QED BY <2>1, <3>1, <3>2 DEF CollInv
  <2>2. CASE q # p
    BY <1>4, <1>7, <2>2, KeptColl DEF DocInv
  <2>3. QED BY <2>1, <2>2
<1>12. \A d \in Docs : SettledInv(d, mix)'
  <2> TAKE d \in Docs
  <2>1. ~BusyWith(p, d)
    BY <1>3, BusyTargets
  <2>2. \A q \in Workers : BusyWith(q, d) => BusyWith(q, d)'
    BY <1>4, <2>1, KeptTask
  <2>3. QED BY <1>7, <2>2, KeptSettled DEF DocInv
<1>13. NoOrphans(mix)' /\ LateVset(mix)'
  BY <1>1, <1>3, OrphansKept DEF DocInv, Data
<1>14. QED BY <1>8, <1>9, <1>10, <1>11, <1>12, <1>13 DEF DocInv

(* ---- A worker goes on: what the others have.                            *)
LEMMA OthersSteady ==
  ASSUME NEW mix, TypeInv, OwnsInv, NEW q \in Workers, Work(q) \/ BatchFails(q),
         NEW p \in Workers \ {q}, NEW d \in Docs, Owns(p, d)
  PROVE  Steady(d, mix)
<1>1. d \notin TargetsOf(worker[q])
  BY DEF OwnsInv
<1>2. d # Doc(q)
  BY <1>1, WorkerFacts
<1>3. ~CollectionDone(q)
  BY <1>1 DEF CollectionDone, TargetsOf
<1>4. QED BY <1>2, <1>3, StepIsLocal, SameIsSteady

LEMMA OthersKept ==
  ASSUME TypeInv, NEW q \in Workers, Work(q) \/ BatchFails(q), NEW p \in Workers \ {q}
  PROVE  KeepsTask(p)
BY WorkTypeStep DEF Going, KeepsTask

LEMMA WorkOwns ==
  ASSUME TypeInv, OwnsInv, NEW q \in Workers, Work(q) \/ BatchFails(q)
  PROVE  OwnsInv' /\ \A p \in Workers, d \in Docs : Owns(p, d)' => Owns(p, d)
<1>1. \A p \in Workers : TargetsOf(worker'[p]) \subseteq TargetsOf(worker[p])
  BY TaskShrinks, WorkTypeStep DEF Going
<1>2. \A p \in Workers, d \in Docs : Owns(p, d)' => Owns(p, d)
  <2> TAKE p \in Workers, d \in Docs
  <2>1. CASE p = q
    <3>1. worker'[q] = Idle \/ worker'[q].alone = worker[q].alone
      BY TaskShrinks
    <3>2. CASE worker'[q] = Idle
      BY <2>1, <3>2, IdleFacts DEF Owns
    <3>3. CASE worker'[q].alone = worker[q].alone
      BY <1>1, <2>1, <3>3, WorkTypeStep DEF Owns
    <3>4. QED BY <3>1, <3>2, <3>3
  <2>2. CASE p # q
    BY <2>2, OthersKept, KeptTask
  <2>3. QED BY <2>1, <2>2
<1>3. QED BY <1>1, <1>2 DEF OwnsInv

(* A worker that is on a document after its step was on it before, or has  *)
(* just taken it from its list.                                            *)
LEMMA Stays ==
  ASSUME TypeInv, NEW q \in Workers, Work(q) \/ BatchFails(q), ~NextOfList(q),
         NEW d \in Docs, OnDoc(q, d)'
  PROVE  /\ OnDoc(q, d) /\ worker'[q].kind = worker[q].kind
         /\ worker'[q].list = worker[q].list /\ worker'[q].alone = worker[q].alone
         /\ ~worker'[q].failed => ~worker[q].failed /\ UNCHANGED late
<1>0. worker'[q] # Idle /\ worker'[q].kind # "none" /\ worker'[q].doc = d
      /\ worker'[q].at \notin {"next", "enqueue"}
  BY IdleFacts DEF OnDoc, Active, Doc
<1>1. ASSUME worker'[q].kind = worker[q].kind, worker'[q].doc = worker[q].doc,
             worker'[q].list = worker[q].list, worker'[q].alone = worker[q].alone,
             worker[q].at \notin {"next", "enqueue"},
             ~worker'[q].failed => ~worker[q].failed /\ UNCHANGED late
      PROVE  /\ OnDoc(q, d) /\ worker'[q].kind = worker[q].kind
             /\ worker'[q].list = worker[q].list /\ worker'[q].alone = worker[q].alone
             /\ ~worker'[q].failed => ~worker[q].failed /\ UNCHANGED late
  BY <1>0, <1>1 DEF OnDoc, Active, Doc
<1>2. worker[q].at \notin {"vdel", "vset"} => ~worker[q].failed
  BY WorkerFacts DEF Shape
<1>3. CASE FetchText(q)
  BY <1>0, <1>1, <1>2, <1>3, FetchTextFacts DEF FetchText
<1>4. CASE Embed(q)
  BY <1>0, <1>1, <1>2, <1>4, EmbedFacts DEF Embed
<1>5. CASE UpsertItem(q)
  BY <1>1, <1>2, <1>5, UpsertItemFacts DEF UpsertItem, SameTask
<1>6. CASE ReadChunks(q)
  BY <1>1, <1>2, <1>6, ReadChunksFacts DEF ReadChunks, SameTask
<1>7. CASE DropRows(q)
  BY <1>1, <1>7, DropRowsFacts DEF DropRows, SameTask
<1>8. CASE VdelFailed(q)
  BY <1>0, <1>8, VdelFailedFacts
<1>9. CASE EnqueueDeleteReconcile(q)
  BY <1>0, <1>9, EnqueueFacts
<1>10. CASE SaveChunks(q)
  BY <1>1, <1>2, <1>10, SaveChunksFacts DEF SaveChunks, SameTask
<1>11. CASE SaveDocText(q)
  BY <1>1, <1>2, <1>11, SaveDocTextFacts DEF SaveDocText, SameTask
<1>12. CASE Indexed(q) \/ SweepDone(q) \/ CollectionDone(q)
  BY <1>0, <1>12, IndexedFacts, DoneFacts
<1>13. CASE DropRowsAgain(q)
  BY <1>1, <1>13, DropRowsAgainFacts DEF DropRowsAgain, SameTask
<1>14. CASE ForgetItem(q)
  BY <1>0, <1>14, ForgetItemFacts
<1>15. CASE RunCommand(q)
  <2>1. PICK c \in worker[q].todo :
          Set(q, [worker[q] EXCEPT !.todo = @ \ {c}, !.failed = @ \/ Rejected(c)])
    BY <1>15 DEF RunCommand
  <2>2. UNCHANGED late
    BY <1>15 DEF RunCommand
  <2>3. /\ worker[q].at \in {"vdel", "vset"} /\ SameTask(worker'[q], worker[q])
        /\ worker'[q].failed = (worker[q].failed \/ Rejected(c))
    BY <2>1, RunCommandFacts
  <2>4. ~worker'[q].failed => ~worker[q].failed
    BY <2>3
  <2>5. QED BY <1>1, <2>2, <2>3, <2>4 DEF SameTask
<1>16. CASE BatchFails(q)
  BY <1>1, <1>16, BatchFailsFacts DEF SameTask
<1>17. QED
  BY <1>3, <1>4, <1>5, <1>6, <1>7, <1>8, <1>9, <1>10, <1>11, <1>12, <1>13, <1>14, <1>15,
     <1>16 DEF Work

(* The rest of a list is left alone.                                       *)
LEMMA ListShrinks ==
  ASSUME TypeInv, NEW q \in Workers, Work(q) \/ BatchFails(q), NEW d \in Docs
  PROVE  /\ d \in worker'[q].list => d \in worker[q].list /\ SameDoc(d)
         /\ d \in worker[q].list => d \in worker'[q].list \/ (NextOfList(q) /\ OnDoc(q, d)')
<1>1. Shape(worker[q]) /\ worker[q] \in WorkerRec
  BY WorkerFacts
<1>2. worker[q].list # {} => worker[q].kind \in ListKinds
  BY <1>1 DEF Shape
<1>3. ASSUME worker'[q].list = worker[q].list
      PROVE  /\ d \in worker'[q].list => d \in worker[q].list
             /\ d \in worker[q].list => d \in worker'[q].list
  BY <1>3
<1>4. ASSUME worker'[q] = Idle, worker[q].list = {}
      PROVE  worker'[q].list = worker[q].list
  BY <1>4, IdleFacts
<1>5. CASE NextOfList(q)
  <2>1. /\ worker'[q].list = worker[q].list \ {worker'[q].doc} /\ worker'[q].at = "read"
        /\ worker'[q].kind \in ListKinds
    BY <1>5, NextOfListFacts
  <2>2. SameDoc(d)
    <3>1. UNCHANGED Data
      BY <1>5 DEF NextOfList, Data
    <3>2. QED BY <3>1 DEF Data, SameDoc, LateOn
  <2>3. QED BY <1>5, <2>1, <2>2 DEF OnDoc, Active, Doc, ListKinds
<1>6. CASE ~NextOfList(q)
  <2>1. worker'[q].list = worker[q].list
    <3>1. CASE FetchText(q) \/ Embed(q)
      <4>1. worker[q].kind \in Writers
        BY <1>1, <3>1, FetchTextFacts, EmbedFacts DEF Shape, Active, WorkerRec, Kinds, Writers, ListKinds
      <4>2. worker[q].list = {}
        BY <1>2, <4>1 DEF Writers, ListKinds
      <4>3. QED BY <1>4, <3>1, <4>2, FetchTextFacts, EmbedFacts
    <3>2. CASE UpsertItem(q) \/ ReadChunks(q) \/ DropRows(q) \/ EnqueueDeleteReconcile(q)
      BY <3>2, UpsertItemFacts, ReadChunksFacts, DropRowsFacts, EnqueueFacts DEF SameTask
    <3>3. CASE VdelFailed(q)
      <4>1. CASE worker[q].kind \in ListKinds
        <5>1. Set(q, [worker[q] EXCEPT !.at = IF worker[q].kind = "collection" THEN "next" ELSE "enqueue",
                        !.failed = FALSE, !.broken = TRUE])
          BY <3>3, <4>1 DEF VdelFailed
        <5>2. QED BY <1>1, <5>1 DEF Set, TypeInv, DocTypeOK, WorkerRec
      <4>2. CASE worker[q].kind \notin ListKinds
        BY <1>2, <1>4, <3>3, <4>2, VdelFailedFacts
      <4>3. QED BY <4>1, <4>2
    <3>4. CASE ForgetItem(q)
      BY <1>2, <1>4, <3>4, ForgetItemFacts DEF SameTask
    <3>5. CASE SaveChunks(q) \/ SaveDocText(q) \/ DropRowsAgain(q)
      BY <3>5, SaveChunksFacts, SaveDocTextFacts, DropRowsAgainFacts DEF SameTask
    <3>6. CASE Indexed(q)
      <4>1. worker[q].kind \in Writers /\ worker'[q] = Idle
        BY <3>6, IndexedFacts
      <4>2. worker[q].list = {}
        BY <1>2, <4>1 DEF Writers, ListKinds
      <4>3. QED BY <1>4, <4>1, <4>2
    <3>7. CASE SweepDone(q) \/ CollectionDone(q)
      BY <1>4, <3>7, DoneFacts
    <3>8. CASE RunCommand(q)
      <4>1. PICK c \in worker[q].todo :
              Set(q, [worker[q] EXCEPT !.todo = @ \ {c}, !.failed = @ \/ Rejected(c)])
        BY <3>8 DEF RunCommand
      <4>2. QED BY <4>1, RunCommandFacts DEF SameTask
    <3>9. CASE BatchFails(q)
      BY <3>9, BatchFailsFacts DEF SameTask
    <3>10. QED BY <1>6, <3>1, <3>2, <3>3, <3>4, <3>5, <3>6, <3>7, <3>8, <3>9 DEF Work
  <2>2. d \in worker[q].list => SameDoc(d)
    <3>1. d \in worker[q].list => d # Doc(q) /\ ~CollectionDone(q)
      BY <1>1, DoneFacts DEF Shape, Doc
    <3>2. QED BY <3>1, StepIsLocal
  <2>3. QED BY <2>1, <2>2
<1>7. QED BY <1>5, <1>6

LEMMA WorkLate ==
  ASSUME NEW mix, TypeInv, OwnsInv, NEW q \in Workers, Work(q) \/ BatchFails(q), NEW d \in Docs, LateInv(q, d, mix)
  PROVE  LateInv(q, d, mix)'
<1> SUFFICES ASSUME Owns(q, d)', (d \in worker[q].list \/ (OnDoc(q, d) /\ ~worker[q].failed))',
                    NEW x \in LateOn(d)'
             PROVE  d \in mix /\ x.op = "vset"
  BY DEF LateInv
<1>1. Owns(q, d)
  BY WorkOwns
<1>2. CASE d \in worker'[q].list
  <2>1. d \in worker[q].list /\ SameDoc(d)
    BY <1>2, ListShrinks
  <2>2. QED BY <1>1, <2>1 DEF LateInv, SameDoc
<1>3. CASE OnDoc(q, d)' /\ ~worker'[q].failed
  <2>1. CASE NextOfList(q)
    <3>1. d \in worker[q].list /\ UNCHANGED late
      BY <1>3, <2>1, NextOfListFacts DEF NextOfList, OnDoc, Doc
    <3>2. QED BY <1>1, <3>1 DEF LateInv, LateOn
  <2>2. CASE ~NextOfList(q)
    <3>1. OnDoc(q, d) /\ ~worker[q].failed /\ UNCHANGED late
      BY <1>3, <2>2, Stays
    <3>2. QED BY <1>1, <3>1 DEF LateInv, LateOn
  <2>3. QED BY <2>1, <2>2
<1>4. QED BY <1>2, <1>3

(* ---- A worker goes on: how far it is with the document it owns.         *)
LEMMA WorkOwner ==
  ASSUME NEW mix, TypeInv, OwnsInv, NoOrphans(mix), NEW q \in Workers, Work(q) \/ BatchFails(q),
         NEW d \in Docs, LateInv(q, d, mix), OwnerInv(q, d, mix)
  PROVE  OwnerInv(q, d, mix)'
<1> SUFFICES ASSUME OnDoc(q, d)', Owns(q, d)'
             PROVE  OwnerInv(q, d, mix)'
  BY DEF OwnerInv
<1>1. /\ Owns(q, d) /\ overlapped' = overlapped /\ worker'[q].doc = d /\ worker'[q].kind # "none"
      /\ worker'[q].at \notin {"next", "enqueue"} /\ worker'[q] # Idle
      /\ worker[q] \in WorkerRec /\ Shape(worker[q]) /\ Shape(worker'[q])
  BY WorkOwns, WorkTypeStep, WorkerFacts, IdleFacts DEF OnDoc, Active, Doc, Going
<1>2. CASE NextOfList(q)
  BY <1>2, NextOfListFacts DEF OwnerInv, ListKinds, Writers
<1>3. CASE ~NextOfList(q)
  <2>1. OnDoc(q, d) /\ Doc(q) = d /\ worker'[q].kind = worker[q].kind
    BY <1>3, Stays DEF OnDoc
  <2>2. CASE FetchText(q)
    BY <1>1, <2>2, FetchTextFacts DEF OwnerInv
  <2>3. CASE UpsertItem(q)
    <3>1. items'[d] = "live"
      BY <2>1, <2>3, TypesAre DEF UpsertItem, StoreTypes
    <3>2. QED BY <2>3, <3>1, UpsertItemFacts DEF OwnerInv
  <2>4. CASE Embed(q)
    <3>1. worker'[q].at = "read" /\ worker[q].at = "embed" /\ worker[q].kind \in Writers
      BY <1>1, <2>4, EmbedFacts
    <3>2. items[d] # "none" /\ items' = items
      BY <1>1, <2>1, <2>4, <3>1 DEF OwnerInv, Embed
    <3>3. QED BY <3>1, <3>2 DEF OwnerInv
  <2>5. CASE ReadChunks(q)
    <3>1. /\ worker'[q].at = "vdel" /\ worker[q].at = "read"
          /\ worker'[q].todo = {VdelOf(c) : c \in Rowed(d)}
      BY <2>1, <2>5, ReadChunksFacts
    <3>2. worker[q].kind \in Writers => items[d] # "none"
      BY <1>1, <2>1, <3>1 DEF OwnerInv
    <3>3. UNCHANGED <<items, vecs>>
      BY <2>5 DEF ReadChunks
    <3>4. ASSUME d \notin overlapped \cup mix, NEW i \in Slots, vecs[<<d, i>>] # None
          PROVE  VdelOf(<<d, i>>) \in worker'[q].todo
      <4>1. <<d, i>> \in Rowed(d)
        BY <3>4, OtherChunks DEF NoOrphans, Rowed
      <4>2. QED BY <3>1, <4>1
    <3>5. (worker[q].at = "vdel" /\ ~worker[q].failed /\ d \notin overlapped \cup mix =>
             \A i \in Slots : vecs[<<d, i>>] # None => VdelOf(<<d, i>>) \in worker[q].todo)'
      BY <1>1, <3>3, <3>4 DEF VdelOf
    <3>6. QED BY <2>1, <3>1, <3>2, <3>3, <3>5 DEF OwnerInv
  <2>6. CASE DropRows(q)
    <3>1. /\ worker'[q].at \in {"save", "again", "forget"} /\ worker[q].at = "vdel"
          /\ worker[q].todo = {} /\ ~worker[q].failed
      BY <1>1, <2>6, DropRowsFacts
    <3>2. worker[q].kind \in Writers => items[d] # "none"
      BY <1>1, <2>1, <3>1 DEF OwnerInv
    <3>3. UNCHANGED <<items, vecs>>
      BY <2>6 DEF DropRows
    <3>4. Bare(d)'
      BY <2>1, <2>6, OtherChunks DEF DropRows, Bare
    <3>5. d \notin overlapped \cup mix => \A i \in Slots : vecs[<<d, i>>] = None
      BY <1>1, <2>1, <3>1 DEF OwnerInv
    <3>6. QED BY <1>1, <2>1, <3>1, <3>2, <3>3, <3>4, <3>5 DEF OwnerInv
  <2>7. CASE VdelFailed(q) \/ EnqueueDeleteReconcile(q) \/ Indexed(q) \/ SweepDone(q)
             \/ CollectionDone(q) \/ ForgetItem(q)
    BY <1>1, <2>7, VdelFailedFacts, EnqueueFacts, IndexedFacts, DoneFacts, ForgetItemFacts
  <2>8. CASE SaveChunks(q)
    <3> DEFINE t == worker[q].text
    <3>1. /\ worker[q].at = "save" /\ worker[q].kind \in Writers /\ t \in AllTexts
          /\ SameTask(worker'[q], worker[q])
          /\ IF d \in Artifacts THEN worker'[q].at = "text"
             ELSE worker'[q].at = "vset" /\ worker'[q].todo = VsetsOf(worker[q])
      BY <2>1, <2>8, SaveChunksFacts
    <3>2. items[d] # "none" /\ Bare(d) /\ items' = items
      BY <1>1, <2>1, <2>8, <3>1 DEF OwnerInv, SaveChunks
    <3>3. ASSUME NEW c \in {d} \X Slots
          PROVE  rows'[c] = IF c \in ChunksOf(d, t) THEN t ELSE None
      <4>1. c \in Chunks /\ rows[c] = None
        BY <3>2 DEF Bare, Chunks
      <4>2. QED BY <2>1, <2>8, <4>1 DEF SaveChunks
    <3>4. worker'[q].text = t /\ worker'[q].vec = worker[q].vec /\ worker[q].doc = d
      BY <2>1, <3>1 DEF SameTask, Doc
    <3>5. worker'[q].at = "vset" => Vectored(q, d, mix)'
      BY <3>1, <3>4 DEF Vectored, VsetsOf
    <3>6. Exact(d, worker[q].text)'
      BY <3>3, <3>4 DEF Exact
    <3>7. QED BY <3>1, <3>2, <3>5, <3>6 DEF OwnerInv
  <2>9. CASE SaveDocText(q)
    <3> DEFINE t == worker[q].text
    <3>1. /\ worker[q].at = "text" /\ worker[q].kind \in Writers /\ t \in AllTexts
          /\ SameTask(worker'[q], worker[q])
          /\ worker'[q].at = "vset" /\ worker'[q].todo = VsetsOf(worker[q])
          /\ \/ /\ worker'[q].broken = worker[q].broken
                /\ docTexts' = IF items[d] = "none" THEN docTexts ELSE [docTexts EXCEPT ![d] = t]
             \/ worker'[q].broken = TRUE /\ UNCHANGED docTexts
      BY <2>1, <2>9, SaveDocTextFacts
    <3>2. items[d] # "none" /\ Exact(d, t) /\ UNCHANGED <<items, rows>>
      BY <1>1, <2>1, <2>9, <3>1 DEF OwnerInv, SaveDocText
    <3>3. worker'[q].text = t /\ worker'[q].vec = worker[q].vec /\ worker[q].doc = d
      BY <2>1, <3>1 DEF SameTask, Doc
    <3>4. Exact(d, worker[q].text)'
      BY <3>2, <3>3 DEF Exact
    <3>5. ~worker'[q].broken => docTexts'[d] = t
      BY <3>1, <3>2, TypesAre DEF StoreTypes
    <3>6. Vectored(q, d, mix)'
      BY <3>1, <3>3 DEF Vectored, VsetsOf
    <3>7. QED BY <3>1, <3>2, <3>3, <3>4, <3>5, <3>6 DEF OwnerInv
  <2>10. CASE DropRowsAgain(q)
    <3>1. worker'[q].at = "forget" /\ worker[q].at = "again"
      BY <2>10, DropRowsAgainFacts
    <3>2. worker[q].kind \notin Writers
      BY <1>1, <3>1 DEF Shape
    <3>3. Bare(d)'
      BY <2>1, <2>10, OtherChunks DEF DropRowsAgain, Bare
    <3>4. QED BY <2>1, <3>1, <3>2, <3>3 DEF OwnerInv
  <2>11. CASE RunCommand(q)
    <3>1. PICK c \in worker[q].todo :
            /\ vecs' = Applied(c)
            /\ Set(q, [worker[q] EXCEPT !.todo = @ \ {c}, !.failed = @ \/ Rejected(c)])
            /\ UNCHANGED <<items, docTexts, rows, late, jobs, reingest, embedModel,
                           requests, faults, outcome, overlapped>>
      BY <2>11 DEF RunCommand
    <3>2. /\ worker[q].at \in {"vdel", "vset"} /\ c \in Commands /\ c.chunk[1] = d
          /\ worker'[q].at = worker[q].at /\ worker'[q].text = worker[q].text
          /\ worker'[q].vec = worker[q].vec /\ worker'[q].broken = worker[q].broken
          /\ worker'[q].alone = worker[q].alone /\ worker'[q].todo = worker[q].todo \ {c}
          /\ worker'[q].failed = (worker[q].failed \/ Rejected(c))
          /\ worker[q].at = "vdel" => c.op = "vdel"
          /\ worker[q].at = "vset" => c \in VsetsOf(worker[q])
      BY <2>1, <3>1, RunCommandFacts DEF SameTask
    <3>3. ~worker'[q].failed => ~worker[q].failed /\ ~Rejected(c)
      BY <3>2
    <3>4. (worker[q].kind \in Writers => items[d] # "none") /\ items' = items
      BY <1>1, <2>1, <3>1, <3>2 DEF OwnerInv
    <3>5. c.chunk \in Chunks /\ ~Rejected(c) => vecs'[c.chunk] = c.vec
      BY <3>1, TypesAre DEF Applied, StoreTypes
    <3>6. \A x \in Chunks : vecs'[x] = vecs[x] \/ (x = c.chunk /\ vecs'[x] = c.vec)
      BY <3>1, <3>2, CommandFacts, TypesAre DEF Applied, StoreTypes
    <3>7. c.chunk \in Chunks /\ (c.op = "vdel" => c.vec = None)
      BY <3>2, CommandFacts
    <3>8. CASE worker[q].at = "vdel"
      <4>1. ASSUME ~worker'[q].failed, d \notin overlapped \cup mix, NEW i \in Slots, vecs'[<<d, i>>] # None
            PROVE  VdelOf(<<d, i>>) \in worker'[q].todo
        <5>1. ~Rejected(c) /\ c.vec = None
          BY <3>2, <3>7, <3>8 DEF Rejected
        <5>2. <<d, i>> # c.chunk /\ vecs[<<d, i>>] # None
          BY <3>5, <3>6, <3>7, <4>1, <5>1, OtherChunks
        <5>3. VdelOf(<<d, i>>) \in worker[q].todo
          BY <1>1, <2>1, <3>3, <3>8, <4>1, <5>2 DEF OwnerInv
        <5>4. VdelOf(<<d, i>>) # c
          BY <5>2 DEF VdelOf
        <5>5. QED BY <3>2, <5>3, <5>4
      <4>2. (worker[q].at = "vdel" /\ ~worker[q].failed /\ d \notin overlapped \cup mix =>
               \A i \in Slots : vecs[<<d, i>>] # None => VdelOf(<<d, i>>) \in worker[q].todo)'
        BY <1>1, <4>1 DEF VdelOf
      <4>3. worker'[q].at = "vdel" /\ (worker'[q].kind \in Writers => items'[d] # "none")
        BY <2>1, <3>2, <3>4, <3>8
      <4>4. QED BY <4>2, <4>3 DEF OwnerInv
    <3>9. CASE worker[q].at = "vset"
      <4> DEFINE t == worker[q].text
      <4>1. /\ t \in AllTexts /\ Exact(d, t) /\ UNCHANGED <<rows, docTexts>>
            /\ d \in Artifacts /\ ~worker[q].broken => docTexts[d] = t
        BY <1>1, <2>1, <3>1, <3>9, TodoIsOnDoc DEF OwnerInv
      <4>2. Exact(d, worker[q].text)'
        BY <3>2, <4>1 DEF Exact
      <4>3. c.vec.text = t /\ c.vec # None
        <5>1. c.vec.text = t /\ c.op = "vset"
          BY <3>2, <3>9 DEF VsetsOf
        <5>2. QED BY <3>2, <5>1, CommandFacts
      <4>4. ~worker'[q].failed /\ worker'[q].alone => Vectored(q, d, mix)'
        <5> SUFFICES ASSUME ~worker'[q].failed, worker'[q].alone, NEW x \in ChunksOf(d, t)
                     PROVE  \/ [op |-> "vset", chunk |-> x, vec |-> [text |-> t, model |-> worker[q].vec]]
                                 \in worker'[q].todo
                            \/ vecs'[x] # None /\ (d \in mix \/ vecs'[x].text = t)
          BY <3>2 DEF Vectored
        <5> DEFINE y == [op |-> "vset", chunk |-> x, vec |-> [text |-> t, model |-> worker[q].vec]]
        <5>1. x \in Chunks
          BY <4>1, ChunkFacts
        <5>2. y \in worker[q].todo \/ (vecs[x] # None /\ (d \in mix \/ vecs[x].text = t))
          BY <1>1, <2>1, <3>2, <3>3, <3>9 DEF OwnerInv, Vectored
        <5>3. y.chunk = x
          OBVIOUS
        <5> HIDE DEF y
        <5>4. CASE y = c
          BY <3>3, <3>5, <4>3, <5>1, <5>3, <5>4
        <5>5. CASE y \in worker[q].todo /\ y # c
          BY <3>2, <5>5 DEF y
        <5>6. CASE vecs[x] # None /\ (d \in mix \/ vecs[x].text = t)
          BY <3>6, <4>3, <5>1, <5>6
        <5>7. QED BY <5>2, <5>4, <5>5, <5>6
      <4>5. /\ worker'[q].at = "vset" /\ worker'[q].text = t /\ worker'[q].broken = worker[q].broken
            /\ worker'[q].kind \in Writers => items'[d] # "none"
        BY <2>1, <3>2, <3>4, <3>9
      <4>6. QED BY <4>1, <4>2, <4>4, <4>5 DEF OwnerInv
    <3>10. QED BY <3>2, <3>8, <3>9
  <2>12. CASE BatchFails(q)
    <3>1. /\ worker[q].at \in {"vdel", "vset"} /\ worker'[q].at = worker[q].at
          /\ SameTask(worker'[q], worker[q]) /\ worker'[q].failed = TRUE
          /\ worker'[q].broken = worker[q].broken
      BY <2>12, BatchFailsFacts
    <3>2. UNCHANGED <<items, docTexts, rows, vecs>>
      BY <2>12 DEF BatchFails
    <3>3. (worker[q].at \in {"text", "vset"} => Exact(d, worker[q].text))'
      BY <1>1, <2>1, <3>1, <3>2 DEF OwnerInv, SameTask, Exact
    <3>4. QED BY <1>1, <2>1, <3>1, <3>2, <3>3 DEF OwnerInv, SameTask
  <2>13. QED
    BY <1>3, <2>2, <2>3, <2>4, <2>5, <2>6, <2>7, <2>8, <2>9, <2>10, <2>11, <2>12 DEF Work
<1>4. QED BY <1>2, <1>3

(* ---- A worker goes on: what it is not on, and what it leaves.           *)
LEMMA OffDoc ==
  ASSUME TypeInv, NEW q \in Workers, Work(q) \/ BatchFails(q), NEW d \in Docs,
         ~OnDoc(q, d), ~CollectionDone(q)
  PROVE  SameDoc(d)
<1>1. CASE d # Doc(q)
  BY <1>1, StepIsLocal
<1>2. CASE d = Doc(q)
  <2>1. worker[q].at \in {"next", "enqueue"}
    BY <1>2, WorkTypeStep DEF OnDoc
  <2>2. worker[q].todo = {}
    BY <2>1, WorkerFacts DEF Shape
  <2>3. NextOfList(q) \/ SweepDone(q) \/ EnqueueDeleteReconcile(q)
    BY <2>1, <2>2 DEF Work, FetchText, UpsertItem, Embed, ReadChunks, RunCommand,
       DropRows, VdelFailed, SaveChunks, SaveDocText, Indexed, DropRowsAgain, ForgetItem,
       BatchFails, At
  <2>4. UNCHANGED Data
    BY <2>3 DEF NextOfList, SweepDone, EnqueueDeleteReconcile, Data
  <2>5. QED BY <2>4 DEF Data, SameDoc, LateOn
<1>3. QED BY <1>1, <1>2

(* The steps of a collection delete.                                       *)
LEMMA CollectionSteps ==
  ASSUME TypeInv, NEW q \in Workers, Work(q) \/ BatchFails(q), worker[q].kind = "collection"
  PROVE  \/ ReadChunks(q) \/ DropRows(q) \/ VdelFailed(q) \/ NextOfList(q) \/ RunCommand(q)
         \/ BatchFails(q) \/ CollectionDone(q)
<1>1. worker[q].at \in {"next", "read", "vdel"}
  BY WorkerFacts DEF Shape
<1>2. QED
  BY <1>1 DEF Work, FetchText, UpsertItem, Embed, EnqueueDeleteReconcile, SaveChunks, SaveDocText,
     Indexed, DropRowsAgain, ForgetItem, SweepDone, At

LEMMA WorkColl ==
  ASSUME TypeInv, NEW q \in Workers, Work(q) \/ BatchFails(q), NEW d \in Docs, CollInv(q, d)
  PROVE  CollInv(q, d)'
<1> SUFFICES ASSUME worker'[q].kind = "collection", worker'[q].alone, ~worker'[q].broken,
                    d \notin worker'[q].list, ~OnDoc(q, d)'
             PROVE  Bare(d)'
  BY DEF CollInv
<1>1. worker[q].kind = "collection" /\ worker[q].alone
  BY TaskShrinks, IdleFacts
<1>2. d \notin worker[q].list
  BY ListShrinks
<1>3. ~CollectionDone(q) /\ ~VdelFailed(q)
  BY <1>1, DoneFacts, IdleFacts, VdelFailedFacts DEF ListKinds
<1>4. ~worker[q].broken
  <2>1. CASE RunCommand(q)
    <3>1. PICK c \in worker[q].todo :
            Set(q, [worker[q] EXCEPT !.todo = @ \ {c}, !.failed = @ \/ Rejected(c)])
      BY <2>1 DEF RunCommand
    <3>2. QED BY <3>1, RunCommandFacts
  <2>2. QED
    BY <1>1, <1>3, <2>1, CollectionSteps, ReadChunksFacts, DropRowsFacts, NextOfListFacts, BatchFailsFacts
<1>5. OnDoc(q, d) \/ Bare(d)
  BY <1>1, <1>2, <1>4 DEF CollInv
<1>6. CASE ~OnDoc(q, d)
  BY <1>3, <1>5, <1>6, OffDoc DEF SameDoc, Bare
<1>7. CASE OnDoc(q, d)
  <2>1. CASE DropRows(q)
    BY <1>7, <2>1, OtherChunks DEF DropRows, Bare, OnDoc
  <2>2. CASE NextOfList(q)
    BY <1>7, <2>2, NextOfListFacts DEF OnDoc
  <2>3. CASE ReadChunks(q) \/ BatchFails(q)
    BY <1>7, <2>3, ReadChunksFacts, BatchFailsFacts DEF OnDoc, SameTask, Active, Doc
  <2>4. CASE RunCommand(q)
    <3>1. PICK c \in worker[q].todo :
            Set(q, [worker[q] EXCEPT !.todo = @ \ {c}, !.failed = @ \/ Rejected(c)])
      BY <2>4 DEF RunCommand
    <3>2. QED BY <1>7, <3>1, RunCommandFacts DEF OnDoc, SameTask, Active, Doc
  <2>5. QED BY <1>1, <1>3, <2>1, <2>2, <2>3, <2>4, CollectionSteps
<1>8. QED BY <1>6, <1>7

(* A worker is done with a document: what it leaves is what it says.       *)
LEMMA Leaves ==
  ASSUME TypeInv, NEW q \in Workers, Work(q) \/ BatchFails(q), NEW d \in Docs,
         BusyWith(q, d), ~BusyWith(q, d)'
  PROVE  \/ outcome'[d] = Unknown
         \/ (Indexed(q) \/ ForgetItem(q)) /\ OnDoc(q, d) /\ worker[q].alone
         \/ CollectionDone(q) /\ worker[q].alone /\ ~worker[q].broken
<1>1. worker[q] \in WorkerRec /\ Shape(worker[q])
      /\ outcome \in [Docs -> AllTexts \cup {Unknown, Absent}]
  BY WorkerFacts, TypesAre
<1>2. d \notin worker[q].list
  BY ListShrinks DEF BusyWith
<1>3. CASE CollectionDone(q)
  BY <1>3 DEF CollectionDone
<1>4. CASE ~CollectionDone(q) /\ worker[q].kind = "collection"
  <2>1. worker'[q].kind = "collection"
    <3>1. CASE RunCommand(q)
      <4>1. PICK c \in worker[q].todo :
              Set(q, [worker[q] EXCEPT !.todo = @ \ {c}, !.failed = @ \/ Rejected(c)])
        BY <3>1 DEF RunCommand
      <4>2. QED BY <1>4, <4>1, RunCommandFacts DEF SameTask
    <3>2. CASE VdelFailed(q)
      <4>1. SameTask(worker'[q], worker[q])
        <5>1. Set(q, [worker[q] EXCEPT !.at = "next", !.failed = FALSE, !.broken = TRUE])
          BY <1>4, <3>2 DEF VdelFailed, ListKinds
        <5>2. QED BY <1>1, <5>1 DEF Set, SameTask, TypeInv, DocTypeOK, WorkerRec
      <4>2. QED BY <1>4, <4>1 DEF SameTask
    <3>3. QED
      BY <1>4, <3>1, <3>2, CollectionSteps, ReadChunksFacts, DropRowsFacts, NextOfListFacts,
         BatchFailsFacts DEF SameTask
  <2>2. QED BY <2>1 DEF BusyWith
<1>5. CASE ~CollectionDone(q) /\ worker[q].kind # "collection"
  <2>1. OnDoc(q, d) /\ Doc(q) = d /\ worker[q].at \notin {"next", "enqueue"} /\ ~OnDoc(q, d)'
    BY <1>2, <1>5 DEF BusyWith, OnDoc
  <2>2. ASSUME worker'[q].kind = worker[q].kind, worker'[q].doc = worker[q].doc,
               worker'[q].at \notin {"next", "enqueue"}
        PROVE  FALSE
    BY <2>1, <2>2 DEF OnDoc, Active, Doc
  <2>3. ASSUME Fail(q) PROVE outcome'[d] = Unknown
    BY <1>1, <2>1, <2>3 DEF Fail, Left, Doc
  <2>4. CASE FetchText(q)
    BY <2>2, <2>3, <2>4, FetchTextFacts
  <2>5. CASE Embed(q)
    BY <2>2, <2>3, <2>5, EmbedFacts
  <2>6. CASE UpsertItem(q)
    BY <2>2, <2>6, UpsertItemFacts DEF SameTask
  <2>7. CASE ReadChunks(q)
    BY <2>2, <2>7, ReadChunksFacts DEF SameTask
  <2>8. CASE DropRows(q)
    BY <1>5, <2>2, <2>8, DropRowsFacts DEF SameTask
  <2>9. CASE VdelFailed(q)
    BY <1>1, <2>1, <2>3, <2>9, VdelFailedFacts
  <2>10. CASE SaveChunks(q)
    BY <2>2, <2>10, SaveChunksFacts DEF SameTask
  <2>11. CASE SaveDocText(q)
    BY <2>2, <2>11, SaveDocTextFacts DEF SameTask
  <2>12. CASE DropRowsAgain(q)
    BY <2>2, <2>12, DropRowsAgainFacts DEF SameTask
  <2>13. CASE RunCommand(q)
    <3>1. PICK c \in worker[q].todo :
            Set(q, [worker[q] EXCEPT !.todo = @ \ {c}, !.failed = @ \/ Rejected(c)])
      BY <2>13 DEF RunCommand
    <3>2. QED BY <2>2, <3>1, RunCommandFacts DEF SameTask
  <2>14. CASE BatchFails(q)
    BY <2>2, <2>14, BatchFailsFacts DEF SameTask
  <2>15. CASE Indexed(q)
    <3>1. CASE Fail(q)
      BY <2>3, <3>1
    <3>2. CASE ~Fail(q)
      BY <1>1, <2>1, <2>15, <3>2, IndexedFacts
    <3>3. QED BY <3>1, <3>2
  <2>16. CASE ForgetItem(q)
    BY <1>1, <2>1, <2>16, ForgetItemFacts
  <2>17. CASE NextOfList(q) \/ SweepDone(q) \/ EnqueueDeleteReconcile(q)
    BY <2>1, <2>17, NextOfListFacts, DoneFacts, EnqueueFacts
  <2>18. QED
    BY <1>5, <2>4, <2>5, <2>6, <2>7, <2>8, <2>9, <2>10, <2>11, <2>12, <2>13, <2>14, <2>15,
       <2>16, <2>17 DEF Work
<1>6. QED BY <1>3, <1>4, <1>5

LEMMA WorkSettled ==
  ASSUME NEW mix, TypeInv, NEW q \in Workers, Work(q) \/ BatchFails(q), NEW d \in Docs,
         SettledInv(d, mix), LateInv(q, d, mix), OwnerInv(q, d, mix), CollInv(q, d)
  PROVE  SettledInv(d, mix)'
<1>0. Unknown \notin AllTexts /\ Absent \notin AllTexts /\ Unknown # Absent
  BY DocIndexAssumption DEF Unknown, Absent
<1>1. outcome \in [Docs -> AllTexts \cup {Unknown, Absent}]
  BY TypesAre
<1>2. CASE BusyWith(q, d)'
  BY <1>2 DEF SettledInv
<1>3. CASE ~BusyWith(q, d) /\ ~BusyWith(q, d)'
  <2>1. SameDoc(d)
    BY <1>3, OffDoc DEF BusyWith, CollectionDone
  <2>2. \A p \in Workers : BusyWith(p, d) => BusyWith(p, d)'
    BY <1>3, OthersKept, KeptTask
  <2>3. QED BY <2>1, <2>2, SameIsSteady, KeptSettled
<1>4. CASE BusyWith(q, d) /\ ~BusyWith(q, d)'
  <2> SUFFICES /\ (outcome[d] \in AllTexts => Written(d, mix))'
               /\ (outcome[d] = Absent => items[d] = "none" /\ Bare(d))'
    BY DEF SettledInv
  <2>1. CASE outcome'[d] = Unknown
    BY <1>0, <2>1
  <2>2. CASE Indexed(q) /\ OnDoc(q, d) /\ worker[q].alone /\ outcome'[d] # Unknown
    <3> DEFINE t == worker[q].text
    <3>1. /\ worker[q].at = "vset" /\ worker[q].kind \in Writers /\ t \in AllTexts
          /\ worker[q].todo = {} /\ Doc(q) = d
      BY <2>2, IndexedFacts DEF OnDoc
    <3>2. ~Fail(q)
      BY <1>1, <2>2, <3>1 DEF Fail, Left, Doc
    <3>3. ~worker[q].failed /\ ~worker[q].broken /\ outcome'[d] = t
      BY <1>1, <2>2, <3>1, <3>2, IndexedFacts
    <3>4. Owns(q, d)
      BY <2>2, <3>1, WorkerFacts DEF Owns
    <3>5. /\ Exact(d, t) /\ items[d] # "none" /\ Vectored(q, d, mix)
          /\ \A x \in LateOn(d) : d \in mix /\ x.op = "vset"
          /\ d \in Artifacts => docTexts[d] = t
      BY <2>2, <3>1, <3>3, <3>4 DEF OwnerInv, LateInv
    <3>6. UNCHANGED <<items, docTexts, rows, vecs, late>>
      BY <2>2 DEF Indexed
    <3>7. \A c \in ChunksOf(d, t) : vecs[c] # None /\ (d \in mix \/ vecs[c].text = t)
      BY <3>1, <3>5 DEF Vectored
    <3>8. Exact(d, outcome[d])' /\ \A x \in LateOn(d)' : SameText(x, d, mix)'
      BY <3>3, <3>5, <3>6 DEF Exact, LateOn, SameText
    <3>9. Written(d, mix)'
      BY <3>3, <3>5, <3>6, <3>7, <3>8 DEF Written
    <3>10. QED BY <1>0, <3>1, <3>3, <3>9
  <2>3. CASE ForgetItem(q) /\ OnDoc(q, d) /\ worker[q].alone
    <3>1. worker[q].at = "forget" /\ Doc(q) = d /\ outcome'[d] = Absent
      BY <1>1, <2>3, ForgetItemFacts DEF OnDoc
    <3>2. Owns(q, d)
      BY <2>3, <3>1, WorkerFacts DEF Owns
    <3>3. Bare(d) /\ rows' = rows
      BY <2>3, <3>1, <3>2 DEF OwnerInv, ForgetItem
    <3>4. items'[d] = "none"
      BY <2>3, <3>1, TypesAre DEF ForgetItem, StoreTypes
    <3>5. QED BY <1>0, <3>1, <3>3, <3>4 DEF Bare
  <2>4. CASE CollectionDone(q) /\ worker[q].alone /\ ~worker[q].broken
    <3>1. /\ worker[q].kind = "collection" /\ worker[q].list = {} /\ worker[q].at = "next"
          /\ outcome'[d] = Absent /\ items'[d] = "none" /\ rows' = rows
      BY <2>4 DEF CollectionDone, At
    <3>2. Bare(d)
      BY <2>4, <3>1 DEF CollInv, OnDoc
    <3>3. QED BY <1>0, <3>1, <3>2 DEF Bare
  <2>5. QED BY <1>4, <2>1, <2>2, <2>3, <2>4, Leaves
<1>5. QED BY <1>2, <1>3, <1>4

(* The vectors and the rows of the document a worker is on.                *)
LEMMA WorkOrphans ==
  ASSUME NEW mix, TypeInv, NoOrphans(mix), LateVset(mix), NEW q \in Workers, Work(q) \/ BatchFails(q),
         \A d \in Docs : LateInv(q, d, mix) /\ OwnerInv(q, d, mix)
  PROVE  NoOrphans(mix)' /\ LateVset(mix)'
<1>0. UNCHANGED overlapped
  BY WorkTypeStep
<1>1. \A d \in Docs : d \notin overlapped \cup mix /\ OnDoc(q, d) => Owns(q, d)
  BY WorkerFacts DEF Owns, OnDoc
<1>2. CASE UNCHANGED <<rows, vecs, late>>
  BY <1>0, <1>2, OrphansKept
<1>3. ASSUME NEW d \in Docs, UNCHANGED <<vecs, late>>,
             rows' = [c \in Chunks |-> IF c[1] = d THEN None ELSE rows[c]],
             d \notin overlapped \cup mix => LateOn(d) = {} /\ \A i \in Slots : vecs[<<d, i>>] = None
      PROVE  NoOrphans(mix)' /\ LateVset(mix)'
  <2>1. NoOrphans(mix)'
    <3> SUFFICES ASSUME NEW c \in Chunks, c[1] \notin overlapped \cup mix, vecs[c] # None PROVE rows'[c] # None
      BY <1>0, <1>3 DEF NoOrphans
    <3>1. c[1] # d
      BY <1>3, ChunkOfDoc
    <3>2. QED BY <1>3, <3>1 DEF NoOrphans
  <2>2. LateVset(mix)'
    <3> SUFFICES ASSUME NEW c \in late, c.op = "vset", c.chunk[1] \notin overlapped \cup mix
                 PROVE  rows'[c.chunk] # None
      BY <1>0, <1>3 DEF LateVset
    <3>1. c.chunk[1] # d /\ c.chunk \in Chunks
      BY <1>3, CommandFacts, TypesAre DEF LateOn, StoreTypes
    <3>2. QED BY <1>3, <3>1 DEF LateVset
  <2>3. QED BY <2>1, <2>2
<1>4. CASE DropRows(q)
  <2>1. /\ worker[q].at = "vdel" /\ Active(q) /\ Doc(q) \in Docs
        /\ worker[q].todo = {} /\ ~worker[q].failed
    BY <1>4, DropRowsFacts
  <2>2. OnDoc(q, Doc(q))
    BY <2>1 DEF OnDoc
  <2>3. Doc(q) \notin overlapped \cup mix => LateOn(Doc(q)) = {} /\ \A i \in Slots : vecs[<<Doc(q), i>>] = None
    BY <1>1, <2>1, <2>2 DEF LateInv, OwnerInv
  <2>4. QED BY <1>3, <1>4, <2>1, <2>3 DEF DropRows
<1>5. CASE DropRowsAgain(q)
  <2>1. worker[q].at = "again" /\ Active(q) /\ Doc(q) \in Docs /\ ~worker[q].failed
    BY <1>5, DropRowsAgainFacts
  <2>2. OnDoc(q, Doc(q))
    BY <2>1 DEF OnDoc
  <2>3. Doc(q) \notin overlapped \cup mix => LateOn(Doc(q)) = {} /\ \A i \in Slots : vecs[<<Doc(q), i>>] = None
    BY <1>1, <2>1, <2>2 DEF LateInv, OwnerInv
  <2>4. QED BY <1>3, <1>5, <2>1, <2>3 DEF DropRowsAgain
<1>6. CASE SaveChunks(q)
  <2>1. worker[q].text # None /\ UNCHANGED <<vecs, late>>
    BY <1>6, SaveChunksFacts, DocIndexAssumption DEF SaveChunks
  <2>2. \A c \in Chunks : rows[c] # None => rows'[c] # None
    BY <1>6, <2>1 DEF SaveChunks
  <2>3. \A c \in late : c.chunk \in Chunks
    BY CommandFacts, TypesAre DEF StoreTypes
  <2>4. QED BY <1>0, <2>1, <2>2, <2>3 DEF NoOrphans, LateVset
<1>7. ASSUME NEW c \in worker[q].todo, c.op = "vset", c.chunk[1] \notin overlapped \cup mix
      PROVE  rows[c.chunk] # None
  <2> DEFINE d == Doc(q)
             t == worker[q].text
  <2>1. /\ worker[q].at = "vset" /\ Active(q) /\ d \in Docs /\ c.chunk[1] = d /\ t \in AllTexts
        /\ c \in Commands /\ c.chunk \in ChunksOf(d, t)
    BY <1>7, TodoIsOnDoc
  <2>2. OnDoc(q, d) /\ Owns(q, d)
    BY <1>1, <1>7, <2>1 DEF OnDoc
  <2>3. Exact(d, t)
    BY <2>1, <2>2 DEF OwnerInv
  <2>4. c.chunk \in {d} \X Slots
    BY <2>1, CommandFacts
  <2>5. rows[c.chunk] = t
    BY <2>1, <2>3, <2>4 DEF Exact
  <2>6. QED BY <2>1, <2>5, DocIndexAssumption
<1>8. CASE RunCommand(q)
  <2>1. PICK c \in worker[q].todo : vecs' = Applied(c) /\ UNCHANGED <<rows, late>>
    BY <1>8 DEF RunCommand
  <2>2. c \in Commands
    BY <2>1, TodoIsOnDoc
  <2>3. LateVset(mix)'
    BY <1>0, <2>1 DEF LateVset
  <2>4. ASSUME NEW x \in Chunks, x[1] \notin overlapped \cup mix, vecs'[x] # None PROVE rows[x] # None
    <3>1. CASE vecs'[x] = vecs[x]
      BY <2>4, <3>1 DEF NoOrphans
    <3>2. CASE vecs'[x] # vecs[x]
      <4>1. x = c.chunk /\ vecs'[x] = c.vec
        BY <2>1, <2>2, <3>2, CommandFacts, TypesAre DEF Applied, StoreTypes
      <4>2. c.op = "vset"
        BY <2>2, <2>4, <4>1, CommandFacts
      <4>3. QED BY <1>7, <2>1, <2>4, <4>1, <4>2
    <3>3. QED BY <3>1, <3>2
  <2>5. QED BY <1>0, <2>1, <2>3, <2>4 DEF NoOrphans
<1>9. CASE BatchFails(q)
  <2>1. late' \in {late, late \cup worker[q].todo} /\ UNCHANGED <<rows, vecs>>
    BY <1>9, BatchFailsFacts DEF BatchFails
  <2>2. LateVset(mix)'
    BY <1>0, <1>7, <2>1 DEF LateVset
  <2>3. QED BY <1>0, <2>1, <2>2 DEF NoOrphans
<1>10. CASE FetchText(q) \/ UpsertItem(q) \/ Embed(q) \/ ReadChunks(q) \/ VdelFailed(q)
            \/ EnqueueDeleteReconcile(q) \/ SaveDocText(q) \/ Indexed(q) \/ ForgetItem(q)
            \/ NextOfList(q) \/ SweepDone(q) \/ CollectionDone(q)
  <2>1. UNCHANGED <<rows, vecs, late>>
    BY <1>10 DEF FetchText, UpsertItem, Embed, ReadChunks, VdelFailed, EnqueueDeleteReconcile,
       SaveDocText, Indexed, ForgetItem, NextOfList, SweepDone, CollectionDone
  <2>2. QED BY <1>2, <2>1
<1>11. QED BY <1>4, <1>5, <1>6, <1>8, <1>9, <1>10 DEF Work

LEMMA WorkInv ==
  ASSUME NEW mix, TypeInv, DocInv(mix), NEW q \in Workers, Work(q) \/ BatchFails(q)
  PROVE  DocInv(mix)'
<1>1. \A p \in Workers \ {q}, d \in Docs : KeepsTask(p) /\ (Owns(p, d) => Steady(d, mix))
  BY OthersKept, OthersSteady DEF DocInv
<1>2. OwnsInv'
  BY WorkOwns DEF DocInv
<1>3. \A p \in Workers, d \in Docs : LateInv(p, d, mix)'
  <2> TAKE p \in Workers, d \in Docs
  <2>1. CASE p = q
    BY <2>1, WorkLate DEF DocInv
  <2>2. CASE p # q
    BY <1>1, <2>2, KeptLate DEF DocInv
  <2>3. QED BY <2>1, <2>2
<1>4. \A p \in Workers, d \in Docs : OwnerInv(p, d, mix)'
  <2> TAKE p \in Workers, d \in Docs
  <2>1. CASE p = q
    BY <2>1, WorkOwner DEF DocInv
  <2>2. CASE p # q
    BY <1>1, <2>2, KeptOwner DEF DocInv
  <2>3. QED BY <2>1, <2>2
<1>5. \A p \in Workers, d \in Docs : CollInv(p, d)'
  <2> TAKE p \in Workers, d \in Docs
  <2>1. CASE p = q
    BY <2>1, WorkColl DEF DocInv
  <2>2. CASE p # q
    BY <1>1, <2>2, KeptColl DEF DocInv
  <2>3. QED BY <2>1, <2>2
<1>6. \A d \in Docs : SettledInv(d, mix)'
  BY WorkSettled DEF DocInv
<1>7. NoOrphans(mix)' /\ LateVset(mix)'
  BY WorkOrphans DEF DocInv
<1>8. QED BY <1>2, <1>3, <1>4, <1>5, <1>6, <1>7 DEF DocInv

-----------------------------------------------------------------------------
LEMMA GoesOnInv ==
  ASSUME NEW mix, TypeInv, DocInv(mix), GoesOn
  PROVE  TypeInv' /\ DocInv(mix)'
<1>1. TypeInv' /\ \/ \E q \in Workers : Work(q) \/ BatchFails(q)
                  \/ \E p \in Workers : Starts(p)
                  \/ Other
  BY GoesOnStep
<1>2. DocInv(mix)'
  BY <1>1, WorkInv, StartInv, QuietInv DEF Other
<1>3. QED BY <1>1, <1>2

LEMMA DocInvHolds == DocSpec => [](TypeInv /\ DocInv({}))
<1>1. DocInit => TypeInv /\ DocInv({})
  BY DocTypeInit, DocInvInit
<1>2. TypeInv /\ DocInv({}) /\ [DocNext]_dvars => (TypeInv /\ DocInv({}))'
  <2> SUFFICES ASSUME TypeInv, DocInv({}), [DocNext]_dvars PROVE TypeInv' /\ DocInv({})'
    OBVIOUS
  <2>1. CASE GatewayCrash
    BY <2>1, CrashFacts, CrashInv
  <2>2. CASE GoesOn
    BY <2>2, GoesOnInv
  <2>3. QED BY <2>1, <2>2 DEF DocNext, GoesOn
<1>3. QED BY <1>1, <1>2, PTL DEF DocSpec

(* Whatever requests, sweeps, jobs and lanes do at the same time, and      *)
(* whatever fails, every table and every worker keeps its type: a job that *)
(* failed too often is not queued again, and its attempts stay bounded     *)
(* (runDeleteReconcileJob).                                                *)
THEOREM DocTypesAreRight == DocSpec => []DocTypeOK
<1>1. TypeInv => DocTypeOK
  BY DEF TypeInv
<1>2. QED BY <1>1, DocInvHolds, PTL

(* A document nobody works on is what its last worker answered: with the   *)
(* text, exactly the chunks of the text, each with the vector of that text,*)
(* the item, and for an artifact the original text; deleted, no item and   *)
(* no chunk (indexDocument, deleteVectorsForDoc, deleteMemoryItemFully).   *)
THEOREM SettledDocumentsAreRight == DocSpec => []Settled
<1>1. TypeInv /\ DocInv({}) => Settled
  <2> SUFFICES ASSUME TypeInv, DocInv({}), NEW d \in Docs, Users(d) = {}
               PROVE  /\ outcome[d] \in AllTexts => Written(d, {})
                      /\ outcome[d] = Absent => items[d] = "none" /\ Bare(d)
    BY DEF Settled, Written, Bare
  <2>1. \A p \in Workers : ~BusyWith(p, d)
    BY BusyTargets DEF Users
  <2>2. QED BY <2>1 DEF DocInv, SettledInv
<1>2. QED BY <1>1, DocInvHolds, PTL

(* A document that never had two workers at a time has no vector in the    *)
(* store without its chunk row, whatever the store refused, timed out on or*)
(* carried out late, and wherever the gateway died (deleteVectorsForDoc,   *)
(* indexDocument).                                                         *)
THEOREM NoVectorIsOrphaned == DocSpec => []NoOrphanVectors
<1>1. DocInv({}) => NoOrphanVectors
  BY DEF DocInv, NoOrphans, NoOrphanVectors
<1>2. QED BY <1>1, DocInvHolds, PTL
=============================================================================
