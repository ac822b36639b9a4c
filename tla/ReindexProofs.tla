----------------------------- MODULE ReindexProofs -----------------------------
(***************************************************************************)
(* Theorems about the rebuild of the vector store beside live requests,    *)
(* for every value of the constants.                                       *)
(***************************************************************************)
EXTENDS Reindex, DocIndexProofs, FiniteSetTheorems, WellFoundedInduction

RebuildPlaces == {"count", "stats", "decide", "adopt", "clear", "walk", "vset", "flush", "vflush", "write"}
Walking       == {"walk", "vset", "flush", "vflush", "write"}
Flushing      == {"flush", "vflush", "write"}
RebuildRec ==
  [at: RebuildPlaces \cup {"idle"}, status: {"none", "running", "completed", "skipped", "failed"},
   mode: {"auto", "always", "off"}, total: Nat, count: Nat, dim: Nat, clear: BOOLEAN,
   buffer: SUBSET Slices, last: Nat, todo: SUBSET Commands, failed: BOOLEAN]

(* What the rebuild has, by what it is at.                                 *)
RebuildShape(r) ==
  /\ r.status = "running" => r.at \in RebuildPlaces
  /\ r.status # "running" => r = [NoRebuild EXCEPT !.status = r.status]
  /\ r.at \notin {"vset", "vflush"} => r.todo = {} /\ r.failed = FALSE
  /\ r.at \notin Walking => r.buffer = {} /\ r.last = 0
  /\ r.at \in {"vflush", "write"} => r.buffer = {}
  /\ r.at = "flush" => Cardinality(r.buffer) < BatchSize
  /\ r.at \in {"stats", "decide", "adopt", "clear"} => r.total > 0
  /\ IsFiniteSet(r.buffer)

RebuildTypes ==
  /\ fingerprint \in Models \cup {None}
  /\ rebuild \in RebuildRec /\ RebuildShape(rebuild)
  /\ booting \in BOOLEAN /\ misled \in BOOLEAN
  /\ mixed \in SUBSET Docs /\ touched \in SUBSET Docs /\ covered \in SUBSET Docs
  /\ outages \in Nat

(* The rebuild sends what it read.                                         *)
HeldInv ==
  /\ \A s \in rebuild.buffer : s.chunk[1] \notin mixed \cap touched => rows[s.chunk] = s.text
  /\ \A x \in rebuild.todo :
       /\ x.op = "vset" /\ x.vec.model = embedModel
       /\ x.chunk[1] \notin mixed \cap touched => rows[x.chunk] = x.vec.text

(* What the history variables say of the documents at work.                *)
HistoryInv ==
  /\ \A d \in Docs : Held(d) /\ Busy(d) => d \in mixed
  /\ \A d \in Docs : Running /\ Busy(d) => d \in touched
  /\ \A d \in covered : ~Busy(d)
  /\ ~Running => touched = {}
  /\ Running => covered = {}

(* A chunk the rebuild has still to come to, or is at.                     *)
Ahead(c) ==
  \/ rebuild.at \notin Flushing /\ Position(c) > rebuild.last
  \/ \E s \in rebuild.buffer : s.chunk = c
  \/ \E x \in rebuild.todo : x.chunk = c

WalkInv ==
  Running /\ rebuild.at \in Walking /\ ~rebuild.failed =>
    \A c \in RowChunks : c[1] \notin touched =>
      Ahead(c) \/ vecs[c] = [text |-> rows[c], model |-> embedModel]

(* A vector of an earlier model, behind a chunk the property speaks of.    *)
Foreign(c) == vecs[c] # None /\ vecs[c].model # embedModel /\ c[1] \notin overlapped \cup mixed
OldModel   == \E c \in Chunks : Foreign(c)

(* Neither REINDEX_MODE nor an admin's request switches the check off.     *)
AlwaysChecked == ReindexMode # "off" /\ "off" \notin AdminModes

(* Whoever is at work embeds with the configured model.                    *)
Resolved(v)  == v.kind \in Writers /\ v.at \in {"read", "vdel", "save", "text", "vset"}
OneModel ==
  /\ \A x \in late : x.op = "vset" => x.vec.model = embedModel
  /\ \A p \in Workers : Resolved(worker[p]) => worker[p].vec = embedModel

(* Where the rebuild has to find what is old.                              *)
OldIsFound ==
  /\ OldModel => fingerprint \notin {None, embedModel}
  /\ rebuild.at \in {"decide", "adopt", "clear"} /\ rebuild.count = 0 => ~OldModel
  /\ rebuild.at \in Walking /\ ~rebuild.failed => \A c \in Chunks : Foreign(c) => Ahead(c)
  /\ AlwaysChecked /\ rebuild.status \in {"completed", "skipped"} => ~OldModel

SwitchInv ==
  /\ rebuild.at = "adopt" => fingerprint = None
  /\ AlwaysChecked => rebuild.mode # "off"
  /\ ~misled => OneModel /\ OldIsFound

RebuildInv ==
  /\ TypeInv /\ DocInv(mixed)
  /\ RebuildTypes /\ HeldInv /\ HistoryInv /\ WalkInv /\ RebuildIsComplete /\ SwitchInv

-----------------------------------------------------------------------------
(* The order of the chunks.                                                *)
LEMMA NatProduct ==
  ASSUME NEW a \in Nat, NEW b \in Nat
  PROVE  a * b \in Nat
OBVIOUS

LEMMA ChunksAreFinite == IsFiniteSet(Chunks)
BY ReindexAssumption, FS_Product DEF Chunks

LEMMA PositionFacts ==
  ASSUME NEW c \in Chunks
  PROVE  Position(c) \in Nat /\ Position(c) > 0
<1>1. c[1] \in Docs /\ c[2] \in Nat \ {0}
  BY ChunkOfDoc, DocIndexAssumption
<1>2. Rank[c[1]] \in Nat /\ Cardinality(Slots) \in Nat
  BY <1>1, ReindexAssumption, FS_CardinalityType
<1>3. Rank[c[1]] * Cardinality(Slots) \in Nat
  BY <1>2, NatProduct
<1>4. QED BY <1>1, <1>3 DEF Position

(* Of a finite family of sets one contains no other.                       *)
LEMMA LeastOf ==
  ASSUME NEW S, IsFiniteSet(S), S # {}, NEW f \in [S -> SUBSET S]
  PROVE  \E s \in S : \A r \in S : ~(f[r] \subseteq f[s] /\ f[r] # f[s])
<1> DEFINE R == StrictSubsetOrdering(S)
           F == {f[s] : s \in S}
<1>1. IsWellFoundedOn(R, SUBSET S)
  BY FS_StrictSubsetOrderingWellFounded, FS_FiniteSubsetsOfFinite
<1>2. F \subseteq SUBSET S /\ F # {}
  OBVIOUS
<1>3. PICK x \in F : \A y \in F : <<y, x>> \notin R
  <2> HIDE DEF R, F
  <2>1. QED BY <1>1, <1>2, WFMin
<1>4. PICK s \in S : x = f[s]
  BY <1>3
<1>5. ASSUME NEW r \in S, f[r] \subseteq f[s], f[r] # f[s] PROVE FALSE
  <2>1. <<f[r], f[s]>> \in R
    BY <1>5 DEF StrictSubsetOrdering
  <2>2. QED BY <2>1, <1>3, <1>4
<1>6. QED BY <1>5

Slice(S) == IsFiniteSet(S) /\ S \subseteq Slices

LEMMA SliceFacts ==
  ASSUME NEW s \in Slices
  PROVE  /\ s.chunk \in Chunks /\ s.text \in AllTexts /\ Position(s.chunk) \in Nat
         /\ Position(s.chunk) > 0 /\ s.chunk[1] \in Docs
BY PositionFacts, ChunkOfDoc DEF Slices

LEMMA FirstFacts ==
  ASSUME NEW S, Slice(S), NEW n \in Nat \ {0}
  PROVE  /\ First(n, S) \subseteq S /\ Slice(First(n, S)) /\ Slice(S \ First(n, S))
         /\ S # {} => First(n, S) # {}
         /\ Cardinality(S) < n => First(n, S) = S
         /\ \A s \in S \ First(n, S), r \in First(n, S) : Position(r.chunk) < Position(s.chunk)
<1> DEFINE Below(s) == {r \in S : Position(r.chunk) < Position(s.chunk)}
<1>1. First(n, S) = {s \in S : Cardinality(Below(s)) < n}
  BY DEF First
<1>2. \A s \in S : Position(s.chunk) \in Nat
  BY SliceFacts DEF Slice
<1>3. \A s \in S : /\ Below(s) \subseteq S /\ IsFiniteSet(Below(s))
                   /\ Cardinality(Below(s)) \in Nat /\ Cardinality(Below(s)) <= Cardinality(S)
                   /\ Cardinality(S) \in Nat
  <2> TAKE s \in S
  <2>1. Below(s) \subseteq S /\ IsFiniteSet(S)
    BY DEF Slice
  <2> HIDE DEF Below
  <2>2. QED BY <2>1, FS_Subset, FS_CardinalityType
<1>4. First(n, S) \subseteq S
  BY <1>1
<1>5. Slice(First(n, S)) /\ Slice(S \ First(n, S))
  <2>1. \A T : T \subseteq S => IsFiniteSet(T)
    BY FS_Subset DEF Slice
  <2>2. QED BY <1>4, <2>1 DEF Slice
<1>6. ASSUME S # {} PROVE First(n, S) # {}
  <2> DEFINE f == [s \in S |-> Below(s)]
  <2>1. f \in [S -> SUBSET S]
    OBVIOUS
  <2>2. PICK s \in S : \A r \in S : ~(f[r] \subseteq f[s] /\ f[r] # f[s])
    <3> HIDE DEF f
    <3>1. QED BY <1>6, <2>1, LeastOf DEF Slice
  <2>3. Below(s) = {}
    <3> SUFFICES ASSUME NEW r \in Below(s) PROVE FALSE
      OBVIOUS
    <3>1. r \in S /\ Position(r.chunk) < Position(s.chunk)
      OBVIOUS
    <3>2. Below(r) \subseteq Below(s) /\ r \notin Below(r)
      BY <1>2, <3>1
    <3>3. f[r] = Below(r) /\ f[s] = Below(s)
      BY <3>1
    <3> HIDE DEF f, Below
    <3>4. QED BY <2>2, <3>1, <3>2, <3>3
  <2>4. Cardinality(Below(s)) = 0
    BY <2>3, FS_EmptySet
  <2>5. QED BY <1>1, <2>4
<1>7. ASSUME Cardinality(S) < n PROVE First(n, S) = S
  <2>1. \A s \in S : Cardinality(Below(s)) < n
    <3> HIDE DEF Below
    <3>1. QED BY <1>3, <1>7
  <2>2. QED BY <1>1, <2>1
<1>8. ASSUME NEW s \in S \ First(n, S), NEW r \in First(n, S)
      PROVE  Position(r.chunk) < Position(s.chunk)
  <2>1. r \in S /\ Cardinality(Below(r)) < n /\ ~(Cardinality(Below(s)) < n)
    BY <1>1, <1>8
  <2>2. SUFFICES ASSUME ~(Position(r.chunk) < Position(s.chunk)) PROVE FALSE
    OBVIOUS
  <2>3. Below(s) \subseteq Below(r)
    BY <1>2, <2>1, <2>2
  <2> HIDE DEF Below
  <2>4. Cardinality(Below(s)) <= Cardinality(Below(r))
    BY <1>3, <2>1, <2>3, FS_Subset
  <2>5. QED BY <1>3, <2>1, <2>4
<1>9. QED BY <1>4, <1>5, <1>6, <1>7, <1>8

(* The last of a page.                                                     *)
LEMMA LastFacts ==
  ASSUME NEW S, Slice(S), S # {}
  PROVE  /\ LastOf(S) \in Nat /\ \A s \in S : Position(s.chunk) <= LastOf(S)
         /\ \E s \in S : LastOf(S) = Position(s.chunk)
<1> DEFINE f == [s \in S |-> {r \in S : Position(r.chunk) > Position(s.chunk)}]
<1>1. \A s \in S : Position(s.chunk) \in Nat
  BY SliceFacts DEF Slice
<1>2. f \in [S -> SUBSET S]
  OBVIOUS
<1>3. PICK s \in S : \A r \in S : ~(f[r] \subseteq f[s] /\ f[r] # f[s])
  <2> HIDE DEF f
  <2>1. QED BY <1>2, LeastOf DEF Slice
<1>4. \A r \in S : Position(r.chunk) <= Position(s.chunk)
  <2> SUFFICES ASSUME NEW r \in S, Position(r.chunk) > Position(s.chunk) PROVE FALSE
    BY <1>1
  <2>1. f[r] \subseteq f[s] /\ r \in f[s] /\ r \notin f[r]
    BY <1>1
  <2> HIDE DEF f
  <2>2. QED BY <1>3, <2>1
<1>5. \E n \in {Position(r.chunk) : r \in S} : \A r \in S : Position(r.chunk) <= n
  BY <1>4
<1>6. /\ LastOf(S) \in {Position(r.chunk) : r \in S}
      /\ \A r \in S : Position(r.chunk) <= LastOf(S)
  BY <1>5 DEF LastOf
<1>7. QED BY <1>1, <1>6

(* A page of what is left: nothing in it is left out, and what is not in it*)
(* comes after its last row.                                               *)
LEMMA RestFacts ==
  ASSUME TypeInv, NEW n \in Nat \ {0}
  PROVE  LET page == First(n, Rest)
         IN  /\ Slice(page) /\ \A s \in page : rows[s.chunk] = s.text
             /\ page # {} => LastOf(page) \in Nat
             /\ \A c \in RowChunks : Position(c) > rebuild.last =>
                  /\ page # {}
                  /\ (\E s \in page : s.chunk = c) \/ Position(c) > LastOf(page)
<1> DEFINE page == First(n, Rest)
           left == {x \in RowChunks : Position(x) > rebuild.last}
<1>1. Rest = {[chunk |-> c, text |-> rows[c]] : c \in left} /\ left \subseteq Chunks
  BY DEF Rest, RowChunks
<1>2. \A c \in left : rows[c] \in AllTexts
  BY TypesAre DEF StoreTypes, RowChunks
<1>3. Slice(Rest)
  <2>1. IsFiniteSet(left)
    BY <1>1, ChunksAreFinite, FS_Subset
  <2> HIDE DEF left
  <2> DEFINE f == [c \in left |-> [chunk |-> c, text |-> rows[c]]]
  <2>2. f \in Surjection(left, Rest)
    BY <1>1 DEF Surjection
  <2>3. IsFiniteSet(Rest)
    <3> HIDE DEF f
    <3>1. QED BY <2>1, <2>2, FS_Surjection
  <2>4. QED BY <1>1, <1>2, <2>3 DEF Slice, Slices
<1>4. /\ page \subseteq Rest /\ Slice(page) /\ Slice(Rest \ page)
      /\ Rest # {} => page # {}
      /\ \A s \in Rest \ page, r \in page : Position(r.chunk) < Position(s.chunk)
  <2> HIDE DEF page
  <2>1. page = First(n, Rest)
    BY DEF page
  <2>2. QED BY <1>3, <2>1, FirstFacts
<1>5. \A s \in page : rows[s.chunk] = s.text
  BY <1>1, <1>4
<1>6. page # {} => /\ LastOf(page) \in Nat /\ \E s \in page : LastOf(page) = Position(s.chunk)
  <2> HIDE DEF page
  <2>1. QED BY <1>4, LastFacts
<1>7. ASSUME NEW c \in RowChunks, Position(c) > rebuild.last
      PROVE  page # {} /\ ((\E s \in page : s.chunk = c) \/ Position(c) > LastOf(page))
  <2> DEFINE x == [chunk |-> c, text |-> rows[c]]
  <2>1. x \in Rest /\ x.chunk = c
    BY <1>1, <1>7
  <2> HIDE DEF x, page
  <2>2. page # {}
    BY <1>4, <2>1
  <2>3. PICK r \in page : LastOf(page) = Position(r.chunk)
    BY <1>6, <2>2
  <2>4. CASE x \in page
    BY <2>1, <2>2, <2>4
  <2>5. CASE x \notin page
    <3>1. Position(r.chunk) < Position(x.chunk)
      BY <1>4, <2>1, <2>3, <2>5
    <3>2. Position(r.chunk) \in Nat /\ Position(c) \in Nat
      BY <1>3, <1>4, <2>1, <2>3, SliceFacts DEF Slice
    <3>3. QED BY <2>1, <2>2, <2>3, <3>1, <3>2
  <2>6. QED BY <2>4, <2>5
<1>8. QED BY <1>4, <1>5, <1>6, <1>7

-----------------------------------------------------------------------------
(* What the steps do to the documents.                                     *)
LEMMA StoreFaultType ==
  ASSUME TypeInv, \E k : StoreFault(k)
  PROVE  faults' \in 0..MaxFaults
<1>1. faults \in 0..MaxFaults /\ MaxFaults \in Nat
  BY TypesAre, DocIndexAssumption
<1>2. faults < MaxFaults /\ faults' = faults + 1
  BY DEF StoreFault
<1>3. QED BY <1>1, <1>2

(* The steps of the rebuild that only read and count.                      *)
Calm == /\ UNCHANGED <<items, docTexts, rows, vecs, late, outcome, worker, overlapped, jobs,
                       reingest, embedModel>>
        /\ requests' \in 0..MaxRequests /\ faults' \in 0..MaxFaults
Pages == FetchPage \/ EmbedBatch \/ BatchDone
Asks  == (\E mode \in AdminModes : AdminReindex(mode)) \/ AutoReindex \/ WatchStats \/ WatchCount
Looks == CountChunks \/ ReadStats \/ Decide \/ Adopt
Ends  == WriteFingerprint \/ (ClearVectorStore /\ End("failed") /\ StoreFault("clear"))
Clears == ClearVectorStore /\ Lose /\ Go("walk") /\ UNCHANGED faults

LEMMA CalmFacts ==
  ASSUME TypeInv, Pages \/ Asks \/ Looks \/ Ends
  PROVE  Calm
<1>1. faults \in 0..MaxFaults /\ requests \in 0..MaxRequests
  BY TypesAre
<1>2. CASE Asks
  <2>1. CASE \E mode \in AdminModes : AdminReindex(mode)
    <3>1. MaxRequests \in Nat /\ requests < MaxRequests /\ requests' = requests + 1
      BY <2>1, DocIndexAssumption DEF AdminReindex
    <3>2. requests' \in 0..MaxRequests
      BY <1>1, <3>1
    <3>3. QED BY <1>1, <2>1, <3>2 DEF AdminReindex, Calm
  <2>2. CASE AutoReindex \/ WatchStats \/ WatchCount
    BY <1>1, <2>2 DEF AutoReindex, WatchStats, WatchCount, Calm, dvars
  <2>3. QED BY <1>2, <2>1, <2>2 DEF Asks
<1>3. CASE FetchPage \/ BatchDone \/ CountChunks \/ Decide
  BY <1>1, <1>3 DEF FetchPage, BatchDone, CountChunks, Decide, Calm, dvars
<1>4. CASE ReadStats \/ Adopt \/ WriteFingerprint
  <2>1. UNCHANGED faults \/ StoreFault("stats") \/ StoreFault("fingerprint")
    BY <1>4 DEF ReadStats, Adopt, WriteFingerprint
  <2>2. faults' \in 0..MaxFaults
    BY <1>1, <2>1, StoreFaultType
  <2>3. QED BY <1>1, <1>4, <2>2 DEF ReadStats, Adopt, WriteFingerprint, Calm, SameDocs
<1>5. CASE EmbedBatch
  <2>1. UNCHANGED faults \/ Fault("embed")
    BY <1>5 DEF EmbedBatch
  <2>2. faults' \in 0..MaxFaults
    BY <1>1, <2>1, FaultType DEF FaultKinds
  <2>3. QED BY <1>1, <1>5, <2>2 DEF EmbedBatch, Calm, SameDocs
<1>6. CASE ClearVectorStore /\ End("failed") /\ StoreFault("clear")
  <2>1. faults' \in 0..MaxFaults /\ rebuild'.at = "idle"
    BY <1>6, StoreFaultType DEF End, NoRebuild
  <2>2. CASE Lose /\ Go("walk") /\ UNCHANGED faults
    BY <1>1, <1>6, <2>2, DocIndexAssumption DEF StoreFault
  <2>3. CASE UNCHANGED <<vecs, worker, outcome>>
    BY <1>1, <1>6, <2>1, <2>3 DEF ClearVectorStore, Calm, SameDocs
  <2>4. QED BY <1>6, <2>2, <2>3 DEF ClearVectorStore
<1>7. QED BY <1>2, <1>3, <1>4, <1>5, <1>6 DEF Pages, Looks, Ends

LEMMA CalmInv ==
  ASSUME NEW mix, TypeInv, DocInv(mix), Calm
  PROVE  TypeInv' /\ DocInv(mix)'
<1>1. Quiet
  BY DEF Calm, Quiet, Data
<1>2. JobsInv' /\ \A p \in Workers : Shape(worker'[p])
  BY TypesAre DEF Calm, JobsInv, Doc
<1>3. TypeInv'
  BY <1>2, TypesAre DEF Calm, TypeInv, DocTypeOK, StoreTypes, JobRec, WorkerRec
<1>4. QED BY <1>1, <1>3, QuietInv

(* The store loses its vectors.                                            *)
LEMMA LoseInv ==
  ASSUME NEW mix, TypeInv, DocInv(mix), Lose, late' \subseteq late, SameDocs, faults' = faults
  PROVE  TypeInv' /\ DocInv(mix)'
<1>1. ASSUME NEW p \in Workers
      PROVE  /\ worker'[p] \in WorkerRec /\ Shape(worker'[p]) /\ KeepsTask(p)
             /\ Active(p) => worker'[p].alone = FALSE
  <2>1. worker[p] \in WorkerRec /\ Shape(worker[p])
    BY WorkerFacts
  <2>2. CASE ~Active(p)
    <3>1. worker'[p] = worker[p]
      BY <2>2 DEF Lose
    <3>2. QED BY <2>1, <2>2, <3>1 DEF KeepsTask, SameDocs
  <2>3. CASE Active(p)
    <3> DEFINE a == FALSE
    <3>1. worker'[p] = [worker[p] EXCEPT !.alone = a] /\ a \in BOOLEAN
      BY <2>3 DEF Lose
    <3>2. ~a
      OBVIOUS
    <3> HIDE DEF a
    <3>3. /\ worker'[p] \in WorkerRec /\ Shape(worker'[p]) /\ worker'[p].alone = a
          /\ worker'[p].kind = worker[p].kind /\ worker'[p].at = worker[p].at
          /\ worker'[p].doc = worker[p].doc /\ worker'[p].list = worker[p].list
          /\ worker'[p].todo = worker[p].todo /\ worker'[p].failed = worker[p].failed
          /\ worker'[p].broken = worker[p].broken /\ worker'[p].text = worker[p].text
          /\ worker'[p].vec = worker[p].vec /\ TargetsOf(worker'[p]) = TargetsOf(worker[p])
      BY <2>1, <3>1, AloneFacts
    <3>4. worker'[p].alone = FALSE
      BY <3>2, <3>3 DEF WorkerRec
    <3>5. QED BY <3>3, <3>4 DEF KeepsTask, SameDocs
  <2>4. QED BY <2>2, <2>3
<1>2. worker' \in [Workers -> WorkerRec]
  BY <1>1 DEF Lose
<1>3. TypeInv'
  <2>1. JobsInv'
    BY <1>1, TypesAre, JobsKept DEF KeepsTask, SameDocs
  <2>2. outcome' \in [Docs -> AllTexts \cup {Unknown, Absent}]
    BY DEF Lose
  <2>3. vecs' \in [Chunks -> Vectors \cup {None}]
    BY DEF Lose
  <2>4. QED
    BY <1>1, <1>2, <2>1, <2>2, <2>3, TypesAre
       DEF TypeInv, DocTypeOK, StoreTypes, JobRec, WorkerRec, SameDocs
<1>4. OwnsInv'
  BY <1>1, KeptTask DEF DocInv, OwnsInv, KeepsTask
<1>5. ASSUME NEW p \in Workers, NEW d \in Docs
      PROVE  LateInv(p, d, mix)' /\ OwnerInv(p, d, mix)' /\ CollInv(p, d)'
  <2>1. /\ Owns(p, d)' => Owns(p, d)
        /\ OnDoc(p, d)' = OnDoc(p, d) /\ BusyWith(p, d)' = BusyWith(p, d)
    BY <1>1, KeptTask
  <2>2. KeepsTask(p) /\ (Active(p) => worker'[p].alone = FALSE)
    BY <1>1
  <2>3. LateOn(d)' \subseteq LateOn(d)
    BY DEF LateOn
  <2>4. LateInv(p, d, mix)'
    BY <2>1, <2>2, <2>3 DEF DocInv, LateInv, KeepsTask
  <2>5. ASSUME OnDoc(p, d)', Owns(p, d)' PROVE OwnerInv(p, d, mix)'
    <3>1. OwnerInv(p, d, mix) /\ OnDoc(p, d) /\ Owns(p, d) /\ Active(p)
      BY <2>1, <2>5 DEF DocInv, OnDoc
    <3>2. \A i \in Slots : vecs'[<<d, i>>] = None
      BY OtherChunks DEF Lose
    <3>3. UNCHANGED <<items, rows, docTexts, overlapped>>
      BY DEF SameDocs
    <3>4. Exact(d, worker[p].text)' = Exact(d, worker[p].text) /\ Bare(d)' = Bare(d)
      BY <2>2, <3>3 DEF Exact, Bare, KeepsTask
    <3>5. QED BY <2>2, <3>1, <3>2, <3>3, <3>4 DEF OwnerInv, KeepsTask
  <2>6. OwnerInv(p, d, mix)'
    BY <2>5 DEF OwnerInv
  <2>7. CollInv(p, d)'
    BY <2>2 DEF CollInv, KeepsTask, Active
  <2>8. QED BY <2>4, <2>6, <2>7
<1>6. ASSUME NEW d \in Docs PROVE SettledInv(d, mix)'
  <2>1. \A p \in Workers : BusyWith(p, d)' = BusyWith(p, d)
    BY <1>1, KeptTask
  <2>2. outcome'[d] = IF outcome[d] = Absent THEN Absent ELSE Unknown
    BY DEF Lose
  <2>3. Unknown \notin AllTexts /\ Absent \notin AllTexts /\ Unknown # Absent
    BY DocIndexAssumption DEF Unknown, Absent
  <2>4. Bare(d)' = Bare(d) /\ items'[d] = items[d]
    BY DEF Bare, SameDocs
  <2>5. QED BY <2>1, <2>2, <2>3, <2>4 DEF DocInv, SettledInv
<1>7. NoOrphans(mix)' /\ LateVset(mix)'
  BY DEF DocInv, NoOrphans, LateVset, Lose, SameDocs
<1>8. QED BY <1>3, <1>4, <1>5, <1>6, <1>7 DEF DocInv

(* ---- What the rebuild sent. *)
LEMMA HeldHarmless ==
  ASSUME TypeInv, RebuildTypes, HeldInv, HistoryInv, NEW x \in rebuild.todo
  PROVE  x \in Commands /\ x.op = "vset" /\ x.chunk[1] \in Docs /\ Harmless(x, x.chunk[1], mixed)
<1>1. x \in Commands /\ x.chunk[1] \in Docs
  BY CommandFacts DEF RebuildTypes, RebuildRec
<1>2. x.op = "vset" /\ (x.chunk[1] \notin mixed \cap touched => rows[x.chunk] = x.vec.text)
  BY DEF HeldInv
<1>3. Held(x.chunk[1])
  <2>1. x \in rebuild.buffer \cup rebuild.todo
    OBVIOUS
  <2>2. QED BY <2>1 DEF Held
<1>4. x.chunk[1] \notin mixed => Users(x.chunk[1]) = {} /\ x.vec.text = rows[x.chunk]
  BY <1>1, <1>2, <1>3 DEF HistoryInv, Busy
<1>5. QED BY <1>1, <1>2, <1>4 DEF Harmless

LEMMA RebuildCommandInv ==
  ASSUME NEW mix, mix = mixed, TypeInv, DocInv(mix), RebuildTypes, HeldInv, HistoryInv,
         RebuildCommand
  PROVE  TypeInv' /\ DocInv(mix)'
<1>1. PICK x \in rebuild.todo : vecs' = Applied(x)
  BY DEF RebuildCommand
<1>2. x \in Commands /\ x.chunk[1] \in Docs /\ Harmless(x, x.chunk[1], mix)
  BY HeldHarmless
<1>3. UNCHANGED <<items, docTexts, rows, jobs, reingest, embedModel, requests, overlapped,
                  late, worker, faults, outcome>>
  BY DEF RebuildCommand, SameDocs
<1>4. vecs' \in [Chunks -> Vectors \cup {None}]
  BY <1>1, <1>2, AppliedType
<1>5. TypeInv'
  BY <1>3, <1>4, NoTaskTypes, TypesAre DEF StoreTypes
<1>6. \A p \in Workers : KeepsTask(p)
  BY <1>3 DEF KeepsTask
<1>7. ASSUME NEW d \in Docs PROVE Steady(d, mix)
  <2>1. LateOn(d)' = LateOn(d)
    BY <1>3 DEF LateOn
  <2>2. \A i \in Slots : \/ vecs'[<<d, i>>] = vecs[<<d, i>>]
                         \/ x.chunk = <<d, i>> /\ vecs'[<<d, i>>] = x.vec /\ Harmless(x, d, mix)
    BY <1>1, <1>2, CommandFacts, OtherChunks, TypesAre DEF Applied, StoreTypes
  <2>3. QED BY <1>2, <1>3, <2>1, <2>2 DEF Steady
<1>8. QED BY <1>3, <1>5, <1>6, <1>7, KeptInv, TypesAre DEF StoreTypes

LEMMA RebuildFailsInv ==
  ASSUME NEW mix, mix = mixed, TypeInv, DocInv(mix), RebuildTypes, HeldInv, HistoryInv,
         RebuildBatchFails
  PROVE  TypeInv' /\ DocInv(mix)'
<1>1. late' = late \/ late' = late \cup rebuild.todo
  BY DEF RebuildBatchFails
<1>2. \A x \in rebuild.todo : x \in Commands /\ Harmless(x, x.chunk[1], mix)
  BY HeldHarmless
<1>3. UNCHANGED <<items, docTexts, rows, jobs, reingest, embedModel, requests, overlapped,
                  vecs, worker, outcome>>
  BY DEF RebuildBatchFails, SameDocs
<1>4. late' \in SUBSET Commands
  BY <1>1, <1>2, TypesAre DEF StoreTypes
<1>5. faults' \in 0..MaxFaults
  <2>1. CASE Fault("refused")
    BY <2>1, FaultType DEF FaultKinds
  <2>2. CASE StoreFault("late")
    BY <2>2, StoreFaultType
  <2>3. QED BY <2>1, <2>2 DEF RebuildBatchFails
<1>6. TypeInv'
  <2>1. JobsInv' /\ \A p \in Workers : Shape(worker'[p])
    BY <1>3, TypesAre DEF JobsInv, Doc
  <2>2. QED
    BY <1>3, <1>4, <1>5, <2>1, TypesAre DEF TypeInv, DocTypeOK, StoreTypes, JobRec, WorkerRec
<1>7. \A p \in Workers : KeepsTask(p)
  BY <1>3 DEF KeepsTask
<1>8. ASSUME NEW d \in Docs PROVE Steady(d, mix)
  <2>1. \A x \in LateOn(d)' : x \in LateOn(d) \/ Harmless(x, d, mix)
    BY <1>1, <1>2 DEF LateOn
  <2>2. QED BY <1>3, <2>1 DEF Steady
<1>9. QED BY <1>3, <1>4, <1>6, <1>7, <1>8, KeptInv

LEMMA RestartInv ==
  ASSUME NEW mix, mix = mixed, TypeInv, DocInv(mix), RebuildTypes, HeldInv, HistoryInv,
         NEW m \in Models, GatewayRestart(m)
  PROVE  TypeInv' /\ DocInv(mix)'
<1>1. late' = late \/ late' = late \cup Sent \cup rebuild.todo
  BY DEF GatewayRestart
<1>2. \A x \in rebuild.todo : x \in Commands /\ Harmless(x, x.chunk[1], mix)
  BY HeldHarmless
<1>3. late \subseteq late' /\ late' \in SUBSET Commands
  BY <1>1, <1>2, SentFacts, TypesAre DEF StoreTypes
<1>4. faults' \in 0..MaxFaults
  <2>1. CASE StoreFault("late")
    BY <2>1, StoreFaultType
  <2>2. QED BY <2>1, TypesAre DEF GatewayRestart
<1>5. WorkersDie /\ embedModel' = m /\ requests' = requests
  BY DEF GatewayRestart
<1>6. TypeInv'
  BY <1>3, <1>4, <1>5, WorkersDieTypes, TypesAre
<1>7. QED BY <1>1, <1>2, <1>3, <1>5, <1>6, WorkersDieInv

(* ---- Every step of the rebuild and every outage keeps the invariant of  *)
(* the documents.                                                          *)
LEMMA StepKinds ==
  ASSUME RebuildStep
  PROVE  Pages \/ Looks \/ Ends \/ Clears \/ RebuildCommand
BY DEF RebuildStep, Pages, Looks, Ends, Clears, ClearVectorStore

LEMMA StepKeepsDocs ==
  ASSUME NEW mix, mix = mixed, TypeInv, DocInv(mix), RebuildTypes, HeldInv, HistoryInv, Step
  PROVE  TypeInv' /\ DocInv(mix)'
<1>1. CASE DocStep
  BY <1>1, GoesOnInv DEF DocStep, GoesOn
<1>2. CASE (\E mode \in AdminModes : AdminReindex(mode)) \/ AutoReindex \/ WatchStats \/ WatchCount
  BY <1>2, CalmFacts, CalmInv DEF Asks
<1>3. CASE RebuildStep
  <2>1. CASE Pages \/ Looks \/ Ends
    BY <2>1, CalmFacts, CalmInv
  <2>2. CASE Clears
    <3>1. Lose /\ SameDocs /\ late' \subseteq late /\ faults' = faults
      BY <2>2 DEF Clears, ClearVectorStore
    <3>2. QED BY <3>1, LoseInv
  <2>3. QED BY <1>3, <2>1, <2>2, StepKinds, RebuildCommandInv
<1>4. CASE RebuildBatchFails
  BY <1>4, RebuildFailsInv
<1>5. CASE StoreRestart
  BY <1>5, LoseInv DEF StoreRestart
<1>6. CASE \E m \in Models : GatewayRestart(m)
  BY <1>6, RestartInv
<1>7. QED BY <1>1, <1>2, <1>3, <1>4, <1>5, <1>6 DEF Step

(* What holds with the documents mixed so far holds with more of them.     *)
LEMMA MixedGrows ==
  ASSUME NEW mix, mix \subseteq mixed', DocInv(mix)'
  PROVE  DocInv(mixed)'
<1>1. \A d : d \notin mixed' => d \notin mix
  OBVIOUS
<1>2. OwnsInv' /\ \A p \in Workers, d \in Docs : CollInv(p, d)'
  BY DEF DocInv
<1>3. ASSUME NEW p \in Workers, NEW d \in Docs PROVE LateInv(p, d, mixed)'
  <2>1. LateInv(p, d, mix)'
    BY DEF DocInv
  <2>2. QED BY <1>1, <2>1 DEF LateInv
<1>4. ASSUME NEW p \in Workers, NEW d \in Docs PROVE OwnerInv(p, d, mixed)'
  <2>1. OwnerInv(p, d, mix)'
    BY DEF DocInv
  <2>2. Vectored(p, d, mix)' => Vectored(p, d, mixed)'
    BY <1>1 DEF Vectored
  <2>3. d \notin (overlapped \cup mixed)' => d \notin (overlapped \cup mix)'
    BY <1>1
  <2>4. QED BY <2>1, <2>2, <2>3 DEF OwnerInv
<1>5. ASSUME NEW d \in Docs PROVE SettledInv(d, mixed)'
  <2>1. SettledInv(d, mix)'
    BY DEF DocInv
  <2>2. \A x : SameText(x, d, mix)' => SameText(x, d, mixed)'
    BY <1>1 DEF SameText
  <2>3. Written(d, mix)' => Written(d, mixed)'
    BY <1>1, <2>2 DEF Written
  <2>4. QED BY <2>1, <2>3 DEF SettledInv
<1>6. NoOrphans(mixed)' /\ LateVset(mixed)'
  <2>1. NoOrphans(mix)' /\ LateVset(mix)'
    BY DEF DocInv
  <2>2. QED BY <1>1, <2>1 DEF NoOrphans, LateVset
<1>7. QED BY <1>2, <1>3, <1>4, <1>5, <1>6 DEF DocInv

LEMMA DocInvKept ==
  ASSUME TypeInv, DocInv(mixed), RebuildTypes, HeldInv, HistoryInv, ReindexNext
  PROVE  TypeInv' /\ DocInv(mixed)'
<1>1. PICK mix : mix = mixed
  OBVIOUS
<1>2. DocInv(mix) /\ Step /\ mix \subseteq mixed'
  BY <1>1 DEF ReindexNext, History
<1>3. TypeInv' /\ DocInv(mix)'
  BY <1>1, <1>2, StepKeepsDocs
<1>4. QED BY <1>2, <1>3, MixedGrows

-----------------------------------------------------------------------------
(* The types of the rebuild.                                               *)
LEMMA EndFacts ==
  ASSUME NEW st \in {"none", "completed", "skipped", "failed"},
         rebuild' = [NoRebuild EXCEPT !.status = st]
  PROVE  /\ rebuild' \in RebuildRec /\ RebuildShape(rebuild')
         /\ rebuild'.status = st /\ rebuild'.at = "idle" /\ rebuild'.mode = "auto"
         /\ rebuild'.buffer = {} /\ rebuild'.todo = {} /\ rebuild'.failed = FALSE
<1> DEFINE r == [NoRebuild EXCEPT !.status = st]
<1>1. /\ r \in RebuildRec /\ r.status = st /\ r.at = "idle" /\ r.mode = "auto"
      /\ r.buffer = {} /\ r.todo = {} /\ r.failed = FALSE /\ r.last = 0
  BY DEF NoRebuild, RebuildRec, RebuildPlaces
<1>2. r = [NoRebuild EXCEPT !.status = r.status]
  BY <1>1
<1> HIDE DEF r
<1>3. RebuildShape(r)
  BY <1>1, <1>2, FS_EmptySet DEF RebuildShape, Walking
<1>4. rebuild' = r
  BY DEF r
<1>5. QED BY <1>1, <1>3, <1>4

LEMMA BeginFacts ==
  ASSUME NEW mode \in {"auto", "always", "off"}, Begin(mode)
  PROVE  /\ rebuild' \in RebuildRec /\ RebuildShape(rebuild')
         /\ rebuild'.status = "running" /\ rebuild'.at = "count" /\ rebuild'.mode = mode
         /\ rebuild'.buffer = {} /\ rebuild'.todo = {} /\ rebuild'.failed = FALSE
<1> DEFINE r == [NoRebuild EXCEPT !.at = "count", !.status = "running", !.mode = mode]
<1>1. /\ r \in RebuildRec /\ r.status = "running" /\ r.at = "count" /\ r.mode = mode
      /\ r.buffer = {} /\ r.todo = {} /\ r.failed = FALSE /\ r.last = 0
  BY DEF NoRebuild, RebuildRec, RebuildPlaces
<1>2. rebuild' = r
  BY DEF Begin
<1> HIDE DEF r
<1>3. RebuildShape(r)
  BY <1>1, FS_EmptySet DEF RebuildShape, Walking, RebuildPlaces
<1>4. QED BY <1>1, <1>2, <1>3

(* What a rebuild that is not at the start or the end keeps of itself.     *)
SameRun(r, s) == r.status = s.status /\ r.mode = s.mode

LEMMA RunningFacts ==
  ASSUME RebuildTypes
  PROVE  /\ rebuild \in RebuildRec /\ IsFiniteSet(rebuild.buffer) /\ Slice(rebuild.buffer)
         /\ rebuild.at # "idle" => Running
         /\ ~Running => rebuild.at = "idle" /\ rebuild.buffer = {} /\ rebuild.todo = {}
         /\ rebuild.at \notin {"vset", "vflush"} => rebuild.todo = {} /\ rebuild.failed = FALSE
         /\ rebuild.at \notin Walking => rebuild.buffer = {} /\ rebuild.last = 0
         /\ rebuild.at \in {"vflush", "write"} => rebuild.buffer = {}
<1>1. rebuild \in RebuildRec /\ RebuildShape(rebuild)
  BY DEF RebuildTypes
<1>2. IsFiniteSet(rebuild.buffer) /\ Slice(rebuild.buffer)
  BY <1>1 DEF RebuildShape, RebuildRec, Slice
<1>3. ~Running => rebuild.at = "idle" /\ rebuild.buffer = {} /\ rebuild.todo = {}
  <2>1. NoRebuild \in [at: {"idle"}, status: {"none"}, mode: {"auto"}, total: {0}, count: {0}, dim: {0},
                       clear: {FALSE}, buffer: {{}}, last: {0}, todo: {{}}, failed: {FALSE}]
    BY DEF NoRebuild
  <2>2. QED BY <1>1, <2>1 DEF RebuildShape, Running
<1>4. QED BY <1>1, <1>2, <1>3 DEF RebuildShape

SameWalk(r, s) == r.buffer = s.buffer /\ r.last = s.last /\ r.todo = s.todo /\ r.failed = s.failed
SameStats(r, s) == r.total = s.total /\ r.count = s.count /\ r.dim = s.dim

LEMMA GoFacts ==
  ASSUME RebuildTypes, NEW x \in RebuildPlaces, Go(x)
  PROVE  /\ rebuild' \in RebuildRec /\ rebuild'.at = x /\ SameRun(rebuild', rebuild)
         /\ SameWalk(rebuild', rebuild) /\ SameStats(rebuild', rebuild)
<1>1. rebuild \in RebuildRec
  BY DEF RebuildTypes
<1>2. rebuild' = [rebuild EXCEPT !.at = x]
  BY DEF Go
<1>3. QED BY <1>1, <1>2 DEF RebuildRec, SameRun, SameWalk, SameStats

(* A rebuild has the shape of its place when it runs. *)
LEMMA RunShape ==
  ASSUME NEW r, r.status = "running", r.at \in RebuildPlaces, IsFiniteSet(r.buffer),
         r.at \notin {"vset", "vflush"} => r.todo = {} /\ r.failed = FALSE,
         r.at \notin Walking => r.buffer = {} /\ r.last = 0,
         r.at \in {"vflush", "write"} => r.buffer = {},
         r.at = "flush" => Cardinality(r.buffer) < BatchSize,
         r.at \in {"stats", "decide", "adopt", "clear"} => r.total > 0
  PROVE  RebuildShape(r)
BY DEF RebuildShape

StartsWalk(r) == /\ r.at = "walk" /\ r.status = "running" /\ r.failed = FALSE
                 /\ r.buffer = {} /\ r.last = 0 /\ r.todo = {}

LEMMA StartsWalkShape ==
  ASSUME NEW r, StartsWalk(r)
  PROVE  RebuildShape(r)
BY RunShape, FS_EmptySet DEF StartsWalk, Walking, RebuildPlaces

LEMMA CountFacts ==
  ASSUME TypeInv, RebuildTypes, CountChunks
  PROVE  /\ Running /\ rebuild' \in RebuildRec /\ RebuildShape(rebuild')
         /\ \/ /\ rebuild.mode = "off" \/ RowChunks = {}
               /\ rebuild' = [NoRebuild EXCEPT !.status = "skipped"]
            \/ rebuild'.at = "stats" /\ SameRun(rebuild', rebuild)
<1>1. Running /\ rebuild \in RebuildRec /\ rebuild.at = "count"
  BY RunningFacts DEF CountChunks
<1>2. CASE rebuild.mode = "off" \/ RowChunks = {}
  BY <1>1, <1>2, EndFacts DEF CountChunks, End
<1>3. CASE ~(rebuild.mode = "off" \/ RowChunks = {})
  <2> DEFINE n == Cardinality(RowChunks)
  <2>1. n \in Nat /\ n > 0
    <3>1. IsFiniteSet(RowChunks) /\ RowChunks # {}
      BY <1>3, ChunksAreFinite, FS_Subset DEF RowChunks
    <3>2. n \in Nat /\ n # 0
      BY <3>1, FS_CardinalityType, FS_EmptySet
    <3>3. QED BY <3>2
  <2>2. rebuild' = [rebuild EXCEPT !.at = "stats", !.total = n]
    BY <1>3 DEF CountChunks
  <2> HIDE DEF n
  <2>3. /\ rebuild' \in RebuildRec /\ rebuild'.at = "stats" /\ rebuild'.total = n
        /\ SameRun(rebuild', rebuild) /\ SameWalk(rebuild', rebuild)
    BY <1>1, <2>1, <2>2 DEF RebuildRec, RebuildPlaces, SameRun, SameWalk
  <2>4. RebuildShape(rebuild')
    BY <1>1, <2>1, <2>3, RunShape, RunningFacts
       DEF SameRun, SameWalk, Walking, RebuildPlaces, Running
  <2>5. QED BY <1>1, <2>3, <2>4
<1>4. QED BY <1>2, <1>3

LEMMA StoreDimType ==
  ASSUME TypeInv
  PROVE  StoreDim \in Nat
<1>1. CASE StoredChunks = {}
  BY <1>1 DEF StoreDim
<1>2. CASE StoredChunks # {}
  <2>1. PICK c \in StoredChunks : c = CHOOSE x \in StoredChunks : TRUE
    BY <1>2
  <2>2. vecs[c] \in Vectors
    BY <2>1, TypesAre DEF StoreTypes, StoredChunks
  <2>3. Dim[vecs[c].model] \in Nat
    BY <2>2, DocIndexAssumption DEF Vectors
  <2>4. QED BY <1>2, <2>1, <2>3 DEF StoreDim
<1>3. QED BY <1>1, <1>2

LEMMA StatsFacts ==
  ASSUME TypeInv, RebuildTypes, ReadStats
  PROVE  /\ Running /\ rebuild' \in RebuildRec /\ RebuildShape(rebuild') /\ SameRun(rebuild', rebuild)
         /\ StartsWalk(rebuild') \/ (rebuild'.at = "decide" /\ (rebuild'.count = 0 => StoredChunks = {}))
<1>1. Running /\ rebuild \in RebuildRec /\ rebuild.at = "stats" /\ rebuild.total > 0
  BY RunningFacts DEF ReadStats, RebuildTypes, RebuildShape
<1>2. CASE StoreFault("stats") /\ Go("walk")
  <2>1. /\ rebuild' \in RebuildRec /\ rebuild'.at = "walk"
        /\ SameRun(rebuild', rebuild) /\ SameWalk(rebuild', rebuild)
    BY <1>2, GoFacts DEF RebuildPlaces
  <2>2. StartsWalk(rebuild')
    BY <1>1, <2>1, RunningFacts DEF SameRun, SameWalk, StartsWalk, Walking, Running
  <2>3. QED BY <1>1, <2>1, <2>2, StartsWalkShape
<1>3. CASE rebuild' = [rebuild EXCEPT !.at = "decide", !.count = Cardinality(StoredChunks), !.dim = StoreDim]
  <2> DEFINE n == Cardinality(StoredChunks)
             d == StoreDim
  <2>1. IsFiniteSet(StoredChunks)
    BY ChunksAreFinite, FS_Subset DEF StoredChunks
  <2>2. n \in Nat /\ d \in Nat /\ (n = 0 => StoredChunks = {})
    BY <2>1, FS_CardinalityType, FS_EmptySet, StoreDimType
  <2>3. rebuild' = [rebuild EXCEPT !.at = "decide", !.count = n, !.dim = d]
    BY <1>3
  <2> HIDE DEF n, d
  <2>4. /\ rebuild' \in RebuildRec /\ rebuild'.at = "decide" /\ rebuild'.total = rebuild.total
        /\ rebuild'.count = n /\ SameRun(rebuild', rebuild) /\ SameWalk(rebuild', rebuild)
    BY <1>1, <2>2, <2>3 DEF RebuildRec, RebuildPlaces, SameRun, SameWalk
  <2>5. RebuildShape(rebuild')
    BY <1>1, <2>4, RunShape, RunningFacts
       DEF SameRun, SameWalk, Walking, RebuildPlaces, Running
  <2>6. QED BY <1>1, <2>2, <2>4, <2>5
<1>4. QED BY <1>2, <1>3 DEF ReadStats

LEMMA AfterFacts ==
  ASSUME RebuildTypes, rebuild.at \in {"decide", "adopt"}, rebuild' = After(rebuild)
  PROVE  /\ Running /\ rebuild' \in RebuildRec /\ RebuildShape(rebuild')
         /\ \/ ~ShouldReindex(rebuild) /\ rebuild' = [NoRebuild EXCEPT !.status = "skipped"]
            \/ /\ SameRun(rebuild', rebuild)
               /\ StartsWalk(rebuild') \/ (rebuild'.at = "clear" /\ rebuild'.count = rebuild.count)
<1>1. Running /\ rebuild \in RebuildRec /\ rebuild.total > 0
  BY RunningFacts DEF RebuildTypes, RebuildShape
<1>2. CASE ~ShouldReindex(rebuild)
  BY <1>1, <1>2, EndFacts DEF After
<1>3. CASE ShouldReindex(rebuild)
  <2>1. PICK x \in {"clear", "walk"} : rebuild' = [rebuild EXCEPT !.at = x]
    BY <1>3 DEF After
  <2>2. /\ rebuild' \in RebuildRec /\ rebuild'.at = x /\ SameStats(rebuild', rebuild)
        /\ SameRun(rebuild', rebuild) /\ SameWalk(rebuild', rebuild)
    BY <2>1, GoFacts DEF RebuildPlaces, Go
  <2>3. RebuildShape(rebuild')
    BY <1>1, <2>2, RunShape, RunningFacts
       DEF SameRun, SameWalk, SameStats, Walking, RebuildPlaces, Running
  <2>4. x = "walk" => StartsWalk(rebuild')
    BY <1>1, <2>2, RunningFacts DEF SameRun, SameWalk, StartsWalk, Walking, Running
  <2>5. QED BY <1>1, <2>1, <2>2, <2>3, <2>4 DEF SameStats
<1>4. QED BY <1>2, <1>3

LEMMA DecideFacts ==
  ASSUME RebuildTypes, Decide
  PROVE  /\ Running /\ rebuild.at = "decide" /\ rebuild' \in RebuildRec /\ RebuildShape(rebuild')
         /\ \/ /\ rebuild'.at = "adopt" /\ fingerprint = None
               /\ SameRun(rebuild', rebuild) /\ rebuild'.count = rebuild.count
            \/ rebuild' = After(rebuild)
<1>1. Running /\ rebuild \in RebuildRec /\ rebuild.at = "decide" /\ rebuild.total > 0
  BY RunningFacts DEF RebuildTypes, RebuildShape, Decide
<1>2. CASE rebuild' = After(rebuild)
  BY <1>1, <1>2, AfterFacts
<1>3. CASE fingerprint = None /\ rebuild' = [rebuild EXCEPT !.at = "adopt"]
  <2>1. /\ rebuild' \in RebuildRec /\ rebuild'.at = "adopt" /\ SameStats(rebuild', rebuild)
        /\ SameRun(rebuild', rebuild) /\ SameWalk(rebuild', rebuild)
    BY <1>3, GoFacts DEF RebuildPlaces, Go
  <2>2. RebuildShape(rebuild')
    BY <1>1, <2>1, RunShape, RunningFacts
       DEF SameRun, SameWalk, SameStats, Walking, RebuildPlaces, Running
  <2>3. QED BY <1>1, <1>3, <2>1, <2>2 DEF SameStats
<1>4. QED BY <1>2, <1>3 DEF Decide

LEMMA ClearsFacts ==
  ASSUME RebuildTypes, Clears
  PROVE  /\ Running /\ rebuild' \in RebuildRec /\ RebuildShape(rebuild')
         /\ StartsWalk(rebuild') /\ SameRun(rebuild', rebuild)
<1>1. Running /\ rebuild \in RebuildRec /\ rebuild.at = "clear" /\ Go("walk")
  BY RunningFacts DEF Clears, ClearVectorStore
<1>2. /\ rebuild' \in RebuildRec /\ rebuild'.at = "walk"
      /\ SameRun(rebuild', rebuild) /\ SameWalk(rebuild', rebuild)
  BY <1>1, GoFacts DEF RebuildPlaces
<1>3. StartsWalk(rebuild')
  BY <1>1, <1>2, RunningFacts DEF SameRun, SameWalk, StartsWalk, Walking, Running
<1>4. QED BY <1>1, <1>2, <1>3, StartsWalkShape

(* A page is read, or there is none any more.                              *)
LEMMA FetchFacts ==
  ASSUME TypeInv, RebuildTypes, FetchPage
  PROVE  LET page == First(FetchSize, Rest)
         IN  /\ Running /\ rebuild.at = "walk" /\ rebuild.todo = {}
             /\ rebuild' \in RebuildRec /\ RebuildShape(rebuild') /\ SameRun(rebuild', rebuild)
             /\ rebuild'.todo = {} /\ rebuild'.failed = FALSE
             /\ rebuild'.buffer = rebuild.buffer \cup page
             /\ \A s \in page : rows[s.chunk] = s.text
             /\ IF page = {} THEN rebuild'.at \in {"write", "flush"}
                ELSE rebuild'.at = "walk" /\ rebuild'.last = LastOf(page)
<1> DEFINE page == First(FetchSize, Rest)
<1>1. /\ Running /\ rebuild \in RebuildRec /\ rebuild.at = "walk" /\ rebuild.todo = {}
      /\ rebuild.failed = FALSE /\ IsFiniteSet(rebuild.buffer) /\ Slice(rebuild.buffer)
      /\ Cardinality(rebuild.buffer) < BatchSize
  BY RunningFacts DEF FetchPage
<1>2. /\ Slice(page) /\ \A s \in page : rows[s.chunk] = s.text
      /\ page # {} => LastOf(page) \in Nat
  BY RestFacts, ReindexAssumption
<1>3. rebuild' = IF page = {} THEN [rebuild EXCEPT !.at = IF rebuild.buffer = {} THEN "write" ELSE "flush"]
                 ELSE [rebuild EXCEPT !.buffer = @ \cup page, !.last = LastOf(page)]
  BY DEF FetchPage
<1> HIDE DEF page
<1>4. CASE page = {}
  <2>1. PICK x \in {"write", "flush"} : Go(x) /\ (x = "write" => rebuild.buffer = {})
    BY <1>3, <1>4 DEF Go
  <2>2. /\ rebuild' \in RebuildRec /\ rebuild'.at = x /\ SameStats(rebuild', rebuild)
        /\ SameRun(rebuild', rebuild) /\ SameWalk(rebuild', rebuild)
    BY <2>1, GoFacts DEF RebuildPlaces
  <2>3. RebuildShape(rebuild')
    BY <1>1, <2>1, <2>2, RunShape DEF SameRun, SameWalk, Walking, RebuildPlaces, Running
  <2>4. QED BY <1>1, <1>2, <1>4, <2>2, <2>3 DEF SameWalk, page
<1>5. CASE page # {}
  <2>1. rebuild' = [rebuild EXCEPT !.buffer = @ \cup page, !.last = LastOf(page)]
    BY <1>3, <1>5
  <2>2. (rebuild.buffer \cup page) \in SUBSET Slices /\ IsFiniteSet(rebuild.buffer \cup page)
    BY <1>1, <1>2, FS_Union DEF Slice
  <2>3. LastOf(page) \in Nat
    BY <1>2, <1>5
  <2>4. /\ rebuild' \in RebuildRec /\ rebuild'.at = "walk" /\ SameRun(rebuild', rebuild)
        /\ rebuild'.todo = {} /\ rebuild'.failed = FALSE /\ rebuild'.last = LastOf(page)
        /\ rebuild'.buffer = rebuild.buffer \cup page
    BY <1>1, <2>1, <2>2, <2>3 DEF RebuildRec, SameRun
  <2>5. RebuildShape(rebuild')
    BY <1>1, <2>2, <2>4, RunShape DEF SameRun, Walking, RebuildPlaces, Running
  <2>6. QED BY <1>1, <1>2, <1>5, <2>4, <2>5 DEF page
<1>6. QED BY <1>4, <1>5

(* A batch is embedded, or the rebuild ends.                               *)
VsetOf(s) == [op |-> "vset", chunk |-> s.chunk, vec |-> [text |-> s.text, model |-> embedModel]]

LEMMA EmbedBatchFacts ==
  ASSUME TypeInv, RebuildTypes, EmbedBatch
  PROVE  LET batch == First(BatchSize, rebuild.buffer)
         IN  /\ Running /\ rebuild.at \in {"walk", "flush"} /\ rebuild.todo = {}
             /\ rebuild' \in RebuildRec /\ RebuildShape(rebuild')
             /\ \/ rebuild' = [NoRebuild EXCEPT !.status = "failed"]
                \/ /\ rebuild'.at = IF rebuild.at = "walk" THEN "vset" ELSE "vflush"
                   /\ SameRun(rebuild', rebuild) /\ rebuild'.last = rebuild.last
                   /\ rebuild'.buffer = rebuild.buffer \ batch /\ batch \subseteq rebuild.buffer
                   /\ rebuild'.todo = {VsetOf(s) : s \in batch} /\ rebuild'.failed = FALSE
<1> DEFINE batch == First(BatchSize, rebuild.buffer)
           todo == {VsetOf(s) : s \in batch}
           at == IF rebuild.at = "walk" THEN "vset" ELSE "vflush"
<1>1. /\ Running /\ rebuild \in RebuildRec /\ rebuild.at \in {"walk", "flush"} /\ rebuild.todo = {}
      /\ rebuild.failed = FALSE /\ IsFiniteSet(rebuild.buffer) /\ Slice(rebuild.buffer)
      /\ rebuild.at = "flush" => Cardinality(rebuild.buffer) < BatchSize
  BY RunningFacts DEF EmbedBatch, RebuildTypes, RebuildShape
<1>2. /\ batch \subseteq rebuild.buffer /\ Slice(rebuild.buffer \ batch)
      /\ rebuild.at = "flush" => batch = rebuild.buffer
  BY <1>1, FirstFacts, ReindexAssumption
<1>3. todo \in SUBSET Commands
  <2> SUFFICES ASSUME NEW s \in batch PROVE VsetOf(s) \in Commands
    OBVIOUS
  <2>1. s \in Slices
    BY <1>1, <1>2 DEF Slice
  <2>2. s.chunk \in Chunks /\ s.text \in AllTexts /\ embedModel \in Models
    BY <2>1, SliceFacts, TypesAre
  <2>3. QED BY <2>2 DEF VsetOf, Commands, Vectors
<1>4. CASE End("failed")
  BY <1>1, <1>4, EndFacts DEF End
<1>5. CASE rebuild' = [rebuild EXCEPT !.at = at, !.buffer = @ \ batch, !.todo = todo]
  <2>1. at \in RebuildPlaces
    BY DEF RebuildPlaces
  <2>2. (rebuild.buffer \ batch) \in SUBSET Slices
    BY <1>2 DEF Slice
  <2>3. (at = "vflush" => rebuild.at = "flush") /\ at \in {"vset", "vflush"}
    BY <1>1
  <2> HIDE DEF at, batch, todo
  <2>4. /\ rebuild' \in RebuildRec /\ rebuild'.at = at /\ SameRun(rebuild', rebuild)
        /\ rebuild'.buffer = rebuild.buffer \ batch /\ rebuild'.todo = todo
        /\ rebuild'.last = rebuild.last /\ rebuild'.failed = FALSE
    BY <1>1, <1>3, <1>5, <2>1, <2>2 DEF RebuildRec, SameRun
  <2>5. RebuildShape(rebuild')
    BY <1>1, <1>2, <2>3, <2>4, RunShape DEF SameRun, Slice, Walking, RebuildPlaces, Running
  <2>6. QED BY <1>1, <1>2, <2>4, <2>5 DEF at, batch, todo
<1>6. \/ rebuild' = [rebuild EXCEPT !.at = at, !.buffer = @ \ batch, !.todo = todo]
      \/ End("failed")
  BY DEF EmbedBatch, VsetOf
<1>7. QED BY <1>4, <1>5, <1>6

LEMMA RebuildCommandFacts ==
  ASSUME TypeInv, RebuildTypes, NEW x \in rebuild.todo,
         rebuild' = [rebuild EXCEPT !.todo = @ \ {x}, !.failed = @ \/ Rejected(x)]
  PROVE  /\ Running /\ rebuild.at \in {"vset", "vflush"}
         /\ rebuild' \in RebuildRec /\ RebuildShape(rebuild') /\ SameRun(rebuild', rebuild)
         /\ rebuild'.at = rebuild.at /\ rebuild'.buffer = rebuild.buffer /\ rebuild'.last = rebuild.last
         /\ rebuild'.todo = rebuild.todo \ {x}
         /\ ~rebuild'.failed => ~rebuild.failed /\ ~Rejected(x)
<1>1. /\ Running /\ rebuild \in RebuildRec /\ rebuild.at \in {"vset", "vflush"}
      /\ IsFiniteSet(rebuild.buffer) /\ (rebuild.at = "vflush" => rebuild.buffer = {})
  BY RunningFacts
<1> DEFINE rej == Rejected(x)
           todo == rebuild.todo \ {x}
<1>2. rej \in BOOLEAN /\ todo \in SUBSET Commands
  BY <1>1 DEF Rejected, RebuildRec
<1>3. rebuild' = [rebuild EXCEPT !.todo = todo, !.failed = rebuild.failed \/ rej]
  OBVIOUS
<1> HIDE DEF rej, todo
<1>4. /\ rebuild' \in RebuildRec /\ rebuild'.at = rebuild.at /\ SameRun(rebuild', rebuild)
      /\ rebuild'.buffer = rebuild.buffer /\ rebuild'.last = rebuild.last /\ rebuild'.todo = todo
      /\ rebuild'.failed = (rebuild.failed \/ rej)
  BY <1>1, <1>2, <1>3 DEF RebuildRec, SameRun
<1>5. RebuildShape(rebuild')
  BY <1>1, <1>4, RunShape DEF SameRun, Walking, RebuildPlaces, Running
<1>6. QED BY <1>1, <1>4, <1>5 DEF rej, todo

LEMMA RebuildFailsFacts ==
  ASSUME TypeInv, RebuildTypes, RebuildBatchFails
  PROVE  /\ Running /\ rebuild' \in RebuildRec /\ RebuildShape(rebuild') /\ SameRun(rebuild', rebuild)
         /\ rebuild'.at = rebuild.at /\ rebuild.at \in {"vset", "vflush"}
         /\ rebuild'.buffer = rebuild.buffer /\ rebuild'.todo = {} /\ rebuild'.failed = TRUE
<1>1. /\ Running /\ rebuild \in RebuildRec /\ rebuild.at \in {"vset", "vflush"}
      /\ IsFiniteSet(rebuild.buffer) /\ (rebuild.at = "vflush" => rebuild.buffer = {})
  BY RunningFacts DEF RebuildBatchFails
<1>2. rebuild' = [rebuild EXCEPT !.todo = {}, !.failed = TRUE]
  BY DEF RebuildBatchFails
<1>3. /\ rebuild' \in RebuildRec /\ rebuild'.at = rebuild.at /\ SameRun(rebuild', rebuild)
      /\ rebuild'.buffer = rebuild.buffer /\ rebuild'.todo = {} /\ rebuild'.failed = TRUE
  BY <1>1, <1>2 DEF RebuildRec, SameRun
<1>4. RebuildShape(rebuild')
  BY <1>1, <1>3, RunShape DEF SameRun, Walking, RebuildPlaces, Running
<1>5. QED BY <1>1, <1>3, <1>4

LEMMA BatchDoneFacts ==
  ASSUME TypeInv, RebuildTypes, BatchDone
  PROVE  /\ Running /\ rebuild.todo = {} /\ rebuild' \in RebuildRec /\ RebuildShape(rebuild')
         /\ \/ rebuild' = [NoRebuild EXCEPT !.status = "failed"]
            \/ /\ SameRun(rebuild', rebuild) /\ SameWalk(rebuild', rebuild) /\ ~rebuild.failed
               /\ \/ rebuild.at = "vset" /\ rebuild'.at = "walk"
                  \/ rebuild.at = "vflush" /\ rebuild'.at = "write"
<1>1. /\ Running /\ rebuild \in RebuildRec /\ rebuild.at \in {"vset", "vflush"} /\ rebuild.todo = {}
      /\ IsFiniteSet(rebuild.buffer) /\ (rebuild.at = "vflush" => rebuild.buffer = {})
  BY RunningFacts DEF BatchDone
<1>2. CASE rebuild.failed
  BY <1>1, <1>2, EndFacts DEF BatchDone, End
<1>3. CASE ~rebuild.failed
  <2>1. PICK x \in {"walk", "write"} : Go(x) /\ (x = "walk") = (rebuild.at = "vset")
    BY <1>3 DEF BatchDone
  <2>2. /\ rebuild' \in RebuildRec /\ rebuild'.at = x
        /\ SameRun(rebuild', rebuild) /\ SameWalk(rebuild', rebuild)
    BY <2>1, GoFacts DEF RebuildPlaces
  <2>3. rebuild.failed = FALSE
    BY <1>1, <1>3 DEF RebuildRec
  <2>4. RebuildShape(rebuild')
    BY <1>1, <2>1, <2>2, <2>3, RunShape DEF SameRun, SameWalk, Walking, RebuildPlaces, Running
  <2>5. QED BY <1>1, <1>3, <2>1, <2>2, <2>4
<1>4. QED BY <1>2, <1>3

(* ---- The types after any step.                                          *)
RecOk == rebuild' \in RebuildRec /\ RebuildShape(rebuild')

LEMMA AsksFacts ==
  ASSUME RebuildTypes, Asks
  PROVE  RecOk /\ (rebuild' = rebuild \/ \E mode \in AdminModes \cup {ReindexMode, "auto"} : Begin(mode))
<1>1. rebuild' = rebuild \/ \E mode \in AdminModes \cup {ReindexMode, "auto"} : Begin(mode)
  BY DEF Asks, AdminReindex, AutoReindex, WatchStats, WatchCount, dvars
<1>2. RecOk
  BY <1>1, BeginFacts, ReindexAssumption DEF RebuildTypes, RecOk
<1>3. QED BY <1>1, <1>2

LEMMA RebuildTypesKept ==
  ASSUME TypeInv, TypeInv', RebuildTypes, ReindexNext
  PROVE  RebuildTypes'
<1>1. RecOk
  <2>1. CASE UNCHANGED rebuild
    BY <2>1 DEF RebuildTypes, RecOk
  <2>2. CASE (\E mode \in AdminModes : AdminReindex(mode)) \/ AutoReindex \/ WatchStats \/ WatchCount
    BY <2>2, AsksFacts DEF Asks
  <2>3. CASE RebuildStep
    <3>1. CASE Pages
      BY <3>1, FetchFacts, EmbedBatchFacts, BatchDoneFacts DEF Pages, RecOk
    <3>2. CASE Looks
      <4>1. CASE CountChunks \/ ReadStats \/ Decide
        BY <4>1, CountFacts, StatsFacts, DecideFacts DEF RecOk
      <4>2. CASE Adopt
        BY <4>2, AfterFacts DEF Adopt, RecOk
      <4>3. QED BY <3>2, <4>1, <4>2 DEF Looks
    <3>3. CASE Ends
      BY <3>3, EndFacts DEF Ends, WriteFingerprint, End, RecOk
    <3>4. CASE Clears
      BY <3>4, ClearsFacts DEF RecOk
    <3>5. CASE RebuildCommand
      BY <3>5, RebuildCommandFacts DEF RebuildCommand, RecOk
    <3>6. QED BY <2>3, <3>1, <3>2, <3>3, <3>4, <3>5, StepKinds
  <2>4. CASE RebuildBatchFails
    BY <2>4, RebuildFailsFacts DEF RecOk
  <2>5. CASE StoreRestart
    BY <2>1, <2>5 DEF StoreRestart
  <2>6. CASE \E m \in Models : GatewayRestart(m)
    <3>1. rebuild' = NoRebuild
      BY <2>6 DEF GatewayRestart
    <3>2. rebuild' = [NoRebuild EXCEPT !.status = "none"]
      BY <3>1 DEF NoRebuild
    <3>3. QED BY <3>2, EndFacts DEF RecOk
  <2>7. QED BY <2>1, <2>2, <2>3, <2>4, <2>5, <2>6 DEF ReindexNext, Step
<1>2. /\ fingerprint' \in {fingerprint, None, embedModel} /\ booting' \in {booting, TRUE, FALSE}
      /\ outages' \in {outages, outages + 1}
  <2>1. CASE DocStep /\ UNCHANGED <<fingerprint, rebuild, watch, booting, outages>>
    BY <2>1
  <2>2. CASE (\E mode \in AdminModes : AdminReindex(mode)) \/ AutoReindex \/ WatchStats \/ WatchCount
    BY <2>2 DEF AdminReindex, AutoReindex, WatchStats, WatchCount
  <2>3. CASE RebuildStep
    BY <2>3 DEF RebuildStep, CountChunks, ReadStats, Decide, Adopt, ClearVectorStore, FetchPage,
       EmbedBatch, RebuildCommand, BatchDone, WriteFingerprint
  <2>4. CASE RebuildBatchFails \/ StoreRestart \/ \E m \in Models : GatewayRestart(m)
    BY <2>4 DEF RebuildBatchFails, StoreRestart, GatewayRestart, Outage
  <2>5. QED BY <2>1, <2>2, <2>3, <2>4 DEF ReindexNext, Step
<1>3. fingerprint' \in Models \cup {None} /\ booting' \in BOOLEAN /\ outages' \in Nat
  <2>1. outages \in Nat /\ booting \in BOOLEAN /\ fingerprint \in Models \cup {None}
    BY DEF RebuildTypes
  <2>2. embedModel \in Models
    BY TypesAre
  <2>3. booting' \in BOOLEAN
    BY <1>2, <2>1
  <2>4. outages' = outages \/ outages' = outages + 1
    BY <1>2
  <2>5. outages' \in Nat
    BY <2>1, <2>4
  <2>6. QED BY <1>2, <2>1, <2>2, <2>3, <2>5
<1>4. /\ mixed' \in SUBSET Docs /\ touched' \in SUBSET Docs /\ covered' \in SUBSET Docs
      /\ misled' \in BOOLEAN
  BY DEF ReindexNext, History, RebuildTypes
<1>5. QED BY <1>1, <1>3, <1>4 DEF RebuildTypes, RecOk

-----------------------------------------------------------------------------
(* A document nobody works on, with no command on its way, is not touched. *)
LEMMA UnworkedIsSame ==
  ASSUME TypeInv, DocStep, NEW d \in Docs, ~Busy(d), NEW c \in Chunks, c[1] = d
  PROVE  rows'[c] = rows[c] /\ vecs'[c] = vecs[c]
<1>1. \/ \E q \in Workers : Work(q) \/ BatchFails(q)
      \/ \E p \in Workers : Starts(p)
      \/ Other
  BY GoesOnStep DEF DocStep, GoesOn
<1>2. c = <<d, c[2]>> /\ c[2] \in Slots
  BY ChunkOfDoc
<1>3. CASE \E q \in Workers : Work(q) \/ BatchFails(q)
  <2>1. PICK q \in Workers : Work(q) \/ BatchFails(q)
    BY <1>3
  <2>2. CASE CollectionDone(q)
    BY <2>2 DEF CollectionDone
  <2>3. CASE ~CollectionDone(q)
    <3>1. d # Doc(q)
      BY WorkerFacts DEF Busy, Users
    <3>2. QED BY <1>2, <2>1, <2>3, <3>1, StepIsLocal DEF SameDoc
  <2>4. QED BY <2>2, <2>3
<1>4. CASE (\E p \in Workers : Starts(p)) \/ Quiet \/ (\E x \in Docs : Expire(x))
  BY <1>4 DEF Starts, Quiet, Data, Expire
<1>5. CASE RunLate
  <2>1. PICK x \in late : vecs' = Applied(x) /\ rows' = rows
    BY <1>5 DEF RunLate
  <2>2. x.chunk # c
    BY DEF Busy, LateOn
  <2>3. QED BY <2>1, <2>2, TypesAre DEF Applied, StoreTypes
<1>6. QED BY <1>1, <1>3, <1>4, <1>5 DEF Other

LEMMA DocStepModel ==
  ASSUME TypeInv, DocStep
  PROVE  embedModel' = embedModel
<1>1. CASE \E q \in Workers : Work(q) \/ BatchFails(q)
  BY <1>1, WorkTypeStep
<1>2. CASE Arrives
  BY <1>2 DEF Arrives, WriteDoc, DeleteDoc, DeleteReconcileJob, Lane, DeleteCollection, TtlSweep,
     TtlCleanupJob, StartReingest, ReingestDone, Expire
<1>3. CASE RunLate
  BY <1>3 DEF RunLate
<1>4. QED BY <1>1, <1>2, <1>3 DEF DocStep

(* ---- The history.                                                       *)
LEMMA HistoryFacts ==
  ASSUME RebuildTypes, History
  PROVE  /\ mixed \subseteq mixed' /\ (Running' => touched \subseteq touched')
         /\ \A d \in Docs : Running' /\ outages' # outages => d \in touched'
         /\ \A d \in Docs : Busy(d)' => d \notin covered' /\ (Running' => d \in touched')
BY DEF History, RebuildTypes

LEMMA HistoryKept ==
  ASSUME RebuildTypes, History
  PROVE  HistoryInv'
<1>1. \A d \in Docs : Held(d)' /\ Busy(d)' => d \in mixed'
  BY DEF History
<1>2. \A d \in Docs : Running' /\ Busy(d)' => d \in touched'
  BY HistoryFacts
<1>3. \A d \in covered' : ~Busy(d)'
  BY DEF History, RebuildTypes
<1>4. (~Running' => touched' = {}) /\ (Running' => covered' = {})
  BY DEF History, Running
<1>5. QED BY <1>1, <1>2, <1>3, <1>4 DEF HistoryInv

(* ---- What the rebuild holds.                                            *)
HeldOk(s)   == s.chunk[1] \notin mixed \cap touched => rows[s.chunk] = s.text
TodoOk(x)   == /\ x.op = "vset" /\ x.vec.model = embedModel
               /\ x.chunk[1] \notin mixed \cap touched => rows[x.chunk] = x.vec.text

LEMMA HeldKept ==
  ASSUME TypeInv, RebuildTypes, RebuildTypes', HeldInv, HistoryInv, ReindexNext
  PROVE  HeldInv'
<1>1. ~Running' => rebuild'.buffer = {} /\ rebuild'.todo = {}
  <2>1. rebuild' \in RebuildRec /\ RebuildShape(rebuild')
    BY DEF RebuildTypes
  <2>2. \A st : [NoRebuild EXCEPT !.status = st].buffer = {} /\ [NoRebuild EXCEPT !.status = st].todo = {}
    BY DEF NoRebuild
  <2>3. QED BY <2>1, <2>2 DEF RebuildShape, Running
<1>2. CASE ~Running'
  BY <1>1, <1>2 DEF HeldInv
<1>3. CASE Running'
  <2>1. mixed \cap touched \subseteq mixed' \cap touched'
    BY <1>3, HistoryFacts DEF ReindexNext
  <2>2. CASE DocStep /\ rebuild' = rebuild
    <3>1. ASSUME NEW d \in Docs, Held(d), d \notin mixed' \cap touched', NEW c \in Chunks, c[1] = d
          PROVE  rows'[c] = rows[c]
      <4>1. Running
        BY <1>3, <2>2 DEF Running
      <4>2. ~Busy(d)
        BY <2>1, <3>1, <4>1 DEF HistoryInv
      <4>3. QED BY <2>2, <3>1, <4>2, UnworkedIsSame
    <3>2. \A s \in rebuild.buffer : s.chunk \in Chunks /\ s.chunk[1] \in Docs /\ Held(s.chunk[1])
      BY RunningFacts, SliceFacts DEF Slice, Held
    <3>3. \A x \in rebuild.todo : x.chunk \in Chunks /\ x.chunk[1] \in Docs /\ Held(x.chunk[1])
      BY RunningFacts, CommandFacts DEF RebuildRec, Held
    <3>4. embedModel' = embedModel
      BY <2>2, DocStepModel
    <3>5. \A s \in rebuild.buffer : HeldOk(s)'
      BY <2>1, <3>1, <3>2 DEF HeldInv, HeldOk
    <3>6. \A x \in rebuild.todo : TodoOk(x)'
      BY <2>1, <3>1, <3>3, <3>4 DEF HeldInv, TodoOk
    <3>7. QED BY <2>2, <3>5, <3>6 DEF HeldInv, HeldOk, TodoOk
  <2>3. ASSUME rows' = rows, embedModel' = embedModel,
               \A s \in rebuild'.buffer : s \in rebuild.buffer \/ rows[s.chunk] = s.text,
               \A x \in rebuild'.todo : x \in rebuild.todo \/ \E s \in rebuild.buffer : x = VsetOf(s)
        PROVE  HeldInv'
    <3>1. \A s \in rebuild'.buffer : HeldOk(s)'
      BY <2>1, <2>3 DEF HeldInv, HeldOk
    <3>2. ASSUME NEW x, NEW s \in rebuild.buffer, x = VsetOf(s) PROVE TodoOk(x)'
      BY <2>1, <2>3, <3>2 DEF HeldInv, TodoOk, VsetOf
    <3>3. \A x \in rebuild'.todo : TodoOk(x)'
      <4>1. \A x \in rebuild.todo : TodoOk(x)'
        BY <2>1, <2>3 DEF HeldInv, TodoOk
      <4>2. QED BY <2>3, <3>2, <4>1
    <3>4. QED BY <3>1, <3>3 DEF HeldInv, HeldOk, TodoOk
  <2>4. CASE Pages \/ Asks \/ Looks \/ Ends
    <3>1. rows' = rows /\ embedModel' = embedModel
      BY <2>4, CalmFacts DEF Calm
    <3>2. CASE FetchPage
      BY <2>3, <3>1, <3>2, FetchFacts
    <3>3. CASE EmbedBatch
      <4>1. rebuild'.status = "running"
        BY <1>3 DEF Running
      <4>2. rebuild' # [NoRebuild EXCEPT !.status = "failed"]
        BY <4>1, EndFacts
      <4>3. QED BY <2>3, <3>1, <3>3, <4>2, EmbedBatchFacts
    <3>4. CASE rebuild'.buffer \subseteq rebuild.buffer /\ rebuild'.todo \subseteq rebuild.todo
      BY <2>3, <3>1, <3>4
    <3>5. CASE BatchDone
      <4>1. rebuild'.buffer \subseteq rebuild.buffer /\ rebuild'.todo \subseteq rebuild.todo
        BY <3>5, BatchDoneFacts, EndFacts DEF SameWalk
      <4>2. QED BY <3>4, <4>1
    <3>6. CASE Asks
      <4>1. rebuild'.buffer \subseteq rebuild.buffer /\ rebuild'.todo \subseteq rebuild.todo
        BY <3>6, AsksFacts, BeginFacts, ReindexAssumption
      <4>2. QED BY <3>4, <4>1
    <3>7. CASE Looks \/ Ends
      <4>1. rebuild'.at \notin {"vset", "vflush"} /\ (rebuild'.at \in Walking => rebuild'.buffer = {})
        <5>1. CASE CountChunks
          BY <5>1, CountFacts, EndFacts DEF Walking
        <5>2. CASE ReadStats
          BY <5>2, StatsFacts DEF Walking, StartsWalk
        <5>3. CASE rebuild' = After(rebuild) /\ rebuild.at \in {"decide", "adopt"}
          BY <5>3, AfterFacts, EndFacts DEF Walking, StartsWalk
        <5>4. CASE Decide
          BY <5>3, <5>4, DecideFacts DEF Walking
        <5>5. CASE Adopt
          BY <5>3, <5>5 DEF Adopt
        <5>6. CASE Ends
          BY <5>6, EndFacts DEF Ends, WriteFingerprint, End, Walking
        <5>7. QED BY <3>7, <5>1, <5>2, <5>4, <5>5, <5>6 DEF Looks
      <4>2. rebuild'.buffer = {} /\ rebuild'.todo = {}
        BY <4>1 DEF RebuildTypes, RebuildShape
      <4>3. QED BY <3>4, <4>2
    <3>8. QED BY <2>4, <3>2, <3>3, <3>5, <3>6, <3>7 DEF Pages
  <2>5. CASE Clears
    <3>1. rebuild'.buffer = {} /\ rebuild'.todo = {} /\ rows' = rows /\ embedModel' = embedModel
      BY <2>5, ClearsFacts DEF Clears, ClearVectorStore, SameDocs, StartsWalk
    <3>2. QED BY <2>3, <3>1
  <2>6. CASE RebuildCommand
    BY <2>3, <2>6, RebuildCommandFacts DEF RebuildCommand, SameDocs
  <2>7. CASE RebuildBatchFails
    BY <2>3, <2>7, RebuildFailsFacts DEF RebuildBatchFails, SameDocs
  <2>8. CASE StoreRestart
    BY <2>3, <2>8 DEF StoreRestart, SameDocs
  <2>9. CASE \E m \in Models : GatewayRestart(m)
    BY <1>3, <2>9 DEF GatewayRestart, NoRebuild, Running
  <2>10. QED
    BY <2>2, <2>4, <2>5, <2>6, <2>7, <2>8, <2>9, StepKinds DEF ReindexNext, Step, Asks
<1>4. QED BY <1>2, <1>3

-----------------------------------------------------------------------------
(* The walk.  No chunk is lost on the way from one page or batch to the    *)
(* next.                                                                   *)
LEMMA AheadKept ==
  ASSUME TypeInv, RebuildTypes, Pages, Running', NEW c \in RowChunks, Ahead(c)
  PROVE  Ahead(c)'
<1>1. Position(c) \in Nat
  BY PositionFacts DEF RowChunks
<1>2. CASE FetchPage
  <2> DEFINE page == First(FetchSize, Rest)
  <2>1. /\ rebuild.at = "walk" /\ rebuild.todo = {} /\ rebuild'.buffer = rebuild.buffer \cup page
        /\ IF page = {} THEN rebuild'.at \in {"write", "flush"}
           ELSE rebuild'.at = "walk" /\ rebuild'.last = LastOf(page)
    BY <1>2, FetchFacts
  <2>2. Position(c) > rebuild.last => page # {} /\ ((\E s \in page : s.chunk = c) \/ Position(c) > LastOf(page))
    BY RestFacts, ReindexAssumption
  <2> HIDE DEF page
  <2>3. (\E s \in rebuild.buffer : s.chunk = c) => Ahead(c)'
    BY <2>1 DEF Ahead
  <2>4. Position(c) > rebuild.last => Ahead(c)'
    <3> SUFFICES ASSUME Position(c) > rebuild.last PROVE Ahead(c)'
      OBVIOUS
    <3>1. rebuild'.at \notin Flushing
      BY <2>1, <2>2 DEF Flushing
    <3>2. CASE \E s \in page : s.chunk = c
      BY <2>1, <3>2 DEF Ahead
    <3>3. CASE Position(c) > LastOf(page)
      BY <2>1, <2>2, <3>1, <3>3 DEF Ahead, Position
    <3>4. QED BY <2>2, <3>2, <3>3
  <2>5. QED BY <2>1, <2>3, <2>4 DEF Ahead
<1>3. CASE EmbedBatch
  <2> DEFINE batch == First(BatchSize, rebuild.buffer)
  <2>1. rebuild' # [NoRebuild EXCEPT !.status = "failed"]
    BY EndFacts DEF Running
  <2>2. /\ rebuild.at \in {"walk", "flush"} /\ rebuild.todo = {}
        /\ rebuild'.at = IF rebuild.at = "walk" THEN "vset" ELSE "vflush"
        /\ rebuild'.last = rebuild.last
        /\ rebuild'.buffer = rebuild.buffer \ batch /\ batch \subseteq rebuild.buffer
        /\ rebuild'.todo = {VsetOf(s) : s \in batch}
    BY <1>3, <2>1, EmbedBatchFacts
  <2> HIDE DEF batch
  <2>3. CASE rebuild.at \notin Flushing /\ Position(c) > rebuild.last
    BY <2>2, <2>3 DEF Ahead, Flushing, Position
  <2>4. CASE \E s \in rebuild.buffer : s.chunk = c
    <3>1. PICK s \in rebuild.buffer : s.chunk = c
      BY <2>4
    <3>2. CASE s \in batch
      <4>1. VsetOf(s) \in rebuild'.todo /\ VsetOf(s).chunk = c
        BY <2>2, <3>1, <3>2 DEF VsetOf
      <4>2. QED BY <4>1 DEF Ahead
    <3>3. CASE s \notin batch
      BY <2>2, <3>1, <3>3 DEF Ahead
    <3>4. QED BY <3>2, <3>3
  <2>5. QED BY <2>2, <2>3, <2>4 DEF Ahead
<1>4. CASE BatchDone
  <2>1. rebuild' # [NoRebuild EXCEPT !.status = "failed"]
    BY EndFacts DEF Running
  <2>2. /\ SameWalk(rebuild', rebuild)
        /\ \/ rebuild.at = "vset" /\ rebuild'.at = "walk"
           \/ rebuild.at = "vflush" /\ rebuild'.at = "write"
    BY <1>4, <2>1, BatchDoneFacts
  <2>3. QED BY <2>2 DEF Ahead, SameWalk, Flushing, Position
<1>5. QED BY <1>2, <1>3, <1>4 DEF Pages

LEMMA NoneAhead ==
  ASSUME RebuildTypes, rebuild.at = "write"
  PROVE  Running /\ rebuild.failed = FALSE /\ \A c : ~Ahead(c)
BY RunningFacts DEF Ahead, Flushing

LEMMA AllAhead ==
  ASSUME StartsWalk(rebuild'), NEW c \in Chunks
  PROVE  Ahead(c)'
BY PositionFacts DEF StartsWalk, Ahead, Flushing, Position

(* How a rebuild gets to where it walks. *)
Walks(r) == r.status = "running" /\ r.at \in Walking /\ ~r.failed

LEMMA WalkKinds ==
  ASSUME TypeInv, RebuildTypes, ReindexNext, Walks(rebuild')
  PROVE  \/ rebuild' = rebuild /\ (DocStep \/ Calm \/ StoreRestart)
         \/ StartsWalk(rebuild') /\ (Calm \/ Clears)
         \/ Pages /\ Calm /\ Walks(rebuild)
         \/ RebuildCommand
<1>1. CASE Asks
  BY <1>1, AsksFacts, BeginFacts, ReindexAssumption, CalmFacts DEF Walks, Walking
<1>2. CASE Pages
  <2>1. \A st \in {"none", "completed", "skipped", "failed"} : rebuild' # [NoRebuild EXCEPT !.status = st]
    BY EndFacts DEF Walks
  <2>2. Walks(rebuild)
    <3>1. CASE FetchPage \/ EmbedBatch
      <4>1. Running /\ rebuild.at \in {"walk", "flush"}
        BY <3>1, FetchFacts, EmbedBatchFacts
      <4>2. QED BY <4>1, RunningFacts DEF Walks, Walking, Running
    <3>2. CASE BatchDone
      BY <2>1, <3>2, BatchDoneFacts DEF Walks, Walking, Running
    <3>3. QED BY <1>2, <3>1, <3>2 DEF Pages
  <2>3. QED BY <1>2, <2>2, CalmFacts
<1>3. CASE Looks
  <2>1. Calm
    BY <1>3, CalmFacts
  <2>2. StartsWalk(rebuild')
    <3>1. CASE CountChunks
      BY <3>1, CountFacts, EndFacts DEF Walks, Walking
    <3>2. CASE ReadStats
      BY <3>2, StatsFacts DEF Walks, Walking
    <3>3. CASE rebuild' = After(rebuild) /\ rebuild.at \in {"decide", "adopt"}
      BY <3>3, AfterFacts, EndFacts DEF Walks, Walking
    <3>4. CASE Decide
      BY <3>3, <3>4, DecideFacts DEF Walks, Walking
    <3>5. CASE Adopt
      BY <3>3, <3>5 DEF Adopt
    <3>6. QED BY <1>3, <3>1, <3>2, <3>4, <3>5 DEF Looks
  <2>3. QED BY <2>1, <2>2
<1>4. CASE Ends
  BY <1>4, EndFacts DEF Ends, WriteFingerprint, End, Walks
<1>5. CASE Clears
  BY <1>5, ClearsFacts
<1>6. CASE RebuildBatchFails
  BY <1>6, RebuildFailsFacts DEF Walks
<1>7. CASE StoreRestart
  BY <1>7 DEF StoreRestart
<1>8. CASE \E m \in Models : GatewayRestart(m)
  BY <1>8 DEF GatewayRestart, NoRebuild, Walks
<1>9. QED
  BY <1>1, <1>2, <1>3, <1>4, <1>5, <1>6, <1>7, <1>8, StepKinds DEF ReindexNext, Step, Asks

Done(c) == vecs[c] = [text |-> rows[c], model |-> embedModel]

LEMMA WalkKept ==
  ASSUME TypeInv, TypeInv', RebuildTypes, RebuildTypes', HeldInv, HistoryInv, WalkInv, ReindexNext
  PROVE  WalkInv'
<1> SUFFICES ASSUME Walks(rebuild'), NEW c \in RowChunks', c[1] \notin touched'
             PROVE  Ahead(c)' \/ Done(c)'
  BY DEF WalkInv, Walks, Running, Done
<1>1. c \in Chunks /\ c[1] \in Docs /\ Running'
  BY ChunkOfDoc DEF RowChunks, Walks, Running
<1>2. c[1] \notin touched /\ outages' = outages
  BY <1>1, HistoryFacts DEF ReindexNext
<1>3. Walks(rebuild) /\ c \in RowChunks => Ahead(c) \/ Done(c)
  BY <1>2 DEF WalkInv, Walks, Running, Done
<1>4. CASE rebuild' = rebuild /\ DocStep
  <2>1. ~Busy(c[1])
    BY <1>1, <1>2, <1>4 DEF HistoryInv, Running
  <2>2. rows'[c] = rows[c] /\ vecs'[c] = vecs[c] /\ embedModel' = embedModel
    BY <1>1, <1>4, <2>1, UnworkedIsSame, DocStepModel
  <2>3. c \in RowChunks
    BY <2>2 DEF RowChunks
  <2>4. Ahead(c) => Ahead(c)'
    BY <1>4 DEF Ahead, Position
  <2>5. QED BY <1>3, <1>4, <2>2, <2>3, <2>4 DEF Done
<1>5. CASE rebuild' = rebuild /\ Calm
  <2>1. c \in RowChunks
    BY <1>5 DEF Calm, RowChunks
  <2>2. Ahead(c) => Ahead(c)'
    BY <1>5 DEF Ahead, Position
  <2>3. QED BY <1>3, <1>5, <2>1, <2>2 DEF Calm, Done
<1>6. CASE StoreRestart
  <2>1. outages \in Nat
    BY <1>6 DEF RebuildTypes
  <2>2. QED BY <1>2, <1>6, <2>1 DEF StoreRestart, Outage
<1>7. CASE StartsWalk(rebuild')
  BY <1>1, <1>7, AllAhead
<1>8. CASE Pages /\ Calm /\ Walks(rebuild)
  <2>1. c \in RowChunks
    BY <1>8 DEF Calm, RowChunks
  <2>2. Ahead(c) => Ahead(c)'
    BY <1>1, <1>8, <2>1, AheadKept
  <2>3. QED BY <1>3, <1>8, <2>1, <2>2 DEF Calm, Done
<1>9. CASE RebuildCommand
  <2>1. PICK x \in rebuild.todo :
          /\ vecs' = Applied(x)
          /\ rebuild' = [rebuild EXCEPT !.todo = @ \ {x}, !.failed = @ \/ Rejected(x)]
    BY <1>9 DEF RebuildCommand
  <2>2. /\ Running /\ rebuild.at \in {"vset", "vflush"} /\ ~rebuild.failed /\ ~Rejected(x)
        /\ rebuild'.at = rebuild.at /\ rebuild'.buffer = rebuild.buffer /\ rebuild'.last = rebuild.last
        /\ rebuild'.todo = rebuild.todo \ {x}
    BY <2>1, RebuildCommandFacts DEF Walks
  <2>3. x \in Commands /\ x.chunk \in Chunks /\ vecs' = [vecs EXCEPT ![x.chunk] = x.vec]
    BY <2>1, <2>2, HeldHarmless, CommandFacts DEF Applied
  <2>4. rows' = rows /\ embedModel' = embedModel /\ c \in RowChunks
    BY <1>9 DEF RebuildCommand, SameDocs, RowChunks
  <2>5. vecs \in [Chunks -> Vectors \cup {None}]
    BY TypesAre DEF StoreTypes
  <2>6. CASE c = x.chunk
    <3>1. x.vec.model = embedModel /\ x.vec.text = rows[c] /\ x.op = "vset"
      BY <1>2, <2>6 DEF HeldInv
    <3>2. x.vec \in Vectors
      BY <2>3, <3>1, CommandFacts
    <3>3. x.vec = [text |-> rows[c], model |-> embedModel]
      BY <3>1, <3>2 DEF Vectors
    <3>4. QED BY <1>1, <2>3, <2>4, <2>5, <2>6, <3>3 DEF Done
  <2>7. CASE c # x.chunk
    <3>1. vecs'[c] = vecs[c]
      BY <1>1, <2>3, <2>5, <2>7
    <3>2. Walks(rebuild)
      BY <2>2 DEF Walks, Walking, Running
    <3>3. Ahead(c) => Ahead(c)'
      BY <2>2, <2>7 DEF Ahead, Position
    <3>4. QED BY <1>3, <2>4, <3>1, <3>2, <3>3 DEF Done
  <2>8. QED BY <2>6, <2>7
<1>10. QED BY <1>4, <1>5, <1>6, <1>7, <1>8, <1>9, WalkKinds

(* How a rebuild comes to its end. *)
LEMMA EndKinds ==
  ASSUME TypeInv, RebuildTypes, ReindexNext, rebuild'.status \in {"completed", "skipped"}
  PROVE  \/ rebuild' = rebuild
         \/ WriteFingerprint
         \/ /\ rebuild'.status = "skipped" /\ CountChunks
            /\ rebuild.mode = "off" \/ RowChunks = {}
         \/ /\ rebuild'.status = "skipped" /\ (Decide \/ Adopt)
            /\ rebuild.at \in {"decide", "adopt"} /\ ~ShouldReindex(rebuild)
<1>1. CASE Pages \/ Clears \/ RebuildCommand \/ RebuildBatchFails
  BY <1>1, FetchFacts, EmbedBatchFacts, BatchDoneFacts, EndFacts, ClearsFacts,
     RebuildCommandFacts, RebuildFailsFacts DEF Pages, RebuildCommand, SameRun, Running
<1>2. CASE Asks
  BY <1>2, AsksFacts, BeginFacts, ReindexAssumption
<1>3. CASE Looks
  <2>1. CASE CountChunks \/ ReadStats
    BY <2>1, CountFacts, StatsFacts, EndFacts DEF SameRun, Running
  <2>2. CASE rebuild' = After(rebuild) /\ rebuild.at \in {"decide", "adopt"} /\ (Decide \/ Adopt)
    BY <2>2, AfterFacts, EndFacts DEF SameRun, Running
  <2>3. CASE Decide
    BY <2>2, <2>3, DecideFacts DEF SameRun, Running
  <2>4. CASE Adopt
    BY <2>2, <2>4 DEF Adopt
  <2>5. QED BY <1>3, <2>1, <2>3, <2>4 DEF Looks
<1>4. CASE Ends
  BY <1>4, EndFacts DEF Ends, End
<1>5. CASE StoreRestart \/ (\E m \in Models : GatewayRestart(m)) \/ (DocStep /\ rebuild' = rebuild)
  BY <1>5 DEF StoreRestart, GatewayRestart, NoRebuild
<1>6. QED
  BY <1>1, <1>2, <1>3, <1>4, <1>5, StepKinds DEF ReindexNext, Step, Asks

(* A rebuild that has reported completed. *)
LEMMA CompleteKept ==
  ASSUME TypeInv, RebuildTypes, HistoryInv, WalkInv, RebuildIsComplete, ReindexNext
  PROVE  RebuildIsComplete'
<1> SUFFICES ASSUME NEW c \in RowChunks', c[1] \in covered' PROVE Done(c)'
  BY DEF RebuildIsComplete, Done
<1>1. c \in Chunks /\ c[1] \in Docs
  BY ChunkOfDoc DEF RowChunks
<1>2. CASE Running /\ rebuild'.status = "completed"
  <2>1. c[1] \notin touched
    BY <1>2 DEF ReindexNext, History
  <2>4. WriteFingerprint
    BY <1>2, EndKinds DEF Running
  <2>5. rebuild.at = "write"
    BY <2>4 DEF WriteFingerprint
  <2>6. UNCHANGED <<rows, vecs, embedModel>>
    BY <2>4 DEF WriteFingerprint, SameDocs
  <2>7. c \in RowChunks
    BY <2>6 DEF RowChunks
  <2>8. Ahead(c) \/ Done(c)
    BY <1>2, <2>1, <2>5, <2>7, NoneAhead DEF WalkInv, Walking, Done
  <2>9. QED BY <2>5, <2>6, <2>8, NoneAhead DEF Done
<1>3. CASE ~(Running /\ rebuild'.status = "completed")
  <2>1. ~Running' /\ outages' = outages /\ c[1] \in covered
    BY <1>3 DEF ReindexNext, History
  <2>2. ~Running /\ ~Busy(c[1])
    BY <1>1, <2>1 DEF HistoryInv
  <2>3. rebuild.at = "idle" /\ rebuild.todo = {}
    BY <2>2, RunningFacts
  <2>4. c \in RowChunks => Done(c)
    BY <2>1 DEF RebuildIsComplete, Done
  <2>5. CASE DocStep
    <3>1. rows'[c] = rows[c] /\ vecs'[c] = vecs[c] /\ embedModel' = embedModel
      BY <1>1, <2>2, <2>5, UnworkedIsSame, DocStepModel
    <3>2. c \in RowChunks
      BY <3>1 DEF RowChunks
    <3>3. QED BY <2>4, <3>1, <3>2 DEF Done
  <2>6. CASE Asks
    <3>1. UNCHANGED <<rows, vecs, embedModel>>
      BY <2>6, CalmFacts DEF Calm
    <3>2. c \in RowChunks
      BY <3>1 DEF RowChunks
    <3>3. QED BY <2>4, <3>1, <3>2 DEF Done
  <2>7. CASE RebuildStep \/ RebuildBatchFails
    BY <2>3, <2>7 DEF RebuildStep, RebuildBatchFails, CountChunks, ReadStats, Decide, Adopt,
       ClearVectorStore, FetchPage, EmbedBatch, RebuildCommand, BatchDone, WriteFingerprint
  <2>8. CASE StoreRestart \/ (\E m \in Models : GatewayRestart(m))
    BY <2>1, <2>8 DEF StoreRestart, GatewayRestart, Outage, RebuildTypes
  <2>9. QED BY <2>5, <2>6, <2>7, <2>8 DEF ReindexNext, Step, Asks
<1>4. QED BY <1>2, <1>3

-----------------------------------------------------------------------------
(* The models.                                                             *)
LEMMA SentModels ==
  ASSUME TypeInv, OneModel, NEW p \in Workers, NEW x \in worker[p].todo, x.op = "vset"
  PROVE  x.vec.model = embedModel
<1>1. x \in VsetsOf(worker[p]) /\ Resolved(worker[p])
  BY TodoIsOnDoc DEF Resolved
<1>2. QED BY <1>1 DEF OneModel, VsetsOf

(* Only Embed gives a worker a model, and it is the configured one.        *)
LEMMA WorkModel ==
  ASSUME TypeInv, OneModel, NEW q \in Workers, Work(q) \/ BatchFails(q)
  PROVE  Resolved(worker'[q]) => worker'[q].vec = embedModel
<1>1. ~Resolved(Idle)
  BY IdleFacts DEF Resolved, Writers
<1>2. Resolved(worker[q]) => worker[q].vec = embedModel
  BY DEF OneModel
<1>3. CASE FetchText(q) \/ UpsertItem(q)
  BY <1>1, <1>3, FetchTextFacts, UpsertItemFacts DEF Resolved
<1>4. CASE Embed(q)
  <2>1. CASE Fail(q)
    BY <1>1, <2>1, SetFacts, IdleFacts DEF Fail
  <2>2. CASE Set(q, [worker[q] EXCEPT !.at = "read", !.vec = embedModel])
    <3>1. worker \in [Workers -> WorkerRec]
      BY WorkerFacts
    <3>2. worker'[q] = [worker[q] EXCEPT !.at = "read", !.vec = embedModel]
      BY <2>2, <3>1 DEF Set
    <3>3. QED BY <3>1, <3>2 DEF WorkerRec
  <2>3. QED BY <1>4, <2>1, <2>2 DEF Embed
<1>5. CASE ReadChunks(q) \/ DropRows(q) \/ SaveChunks(q) \/ SaveDocText(q) \/ BatchFails(q)
  <2>1. SameTask(worker'[q], worker[q]) /\ worker[q].at \in {"read", "vdel", "save", "text", "vset"}
    BY <1>5, ReadChunksFacts, DropRowsFacts, SaveChunksFacts, SaveDocTextFacts, BatchFailsFacts
  <2>2. QED BY <1>2, <2>1 DEF SameTask, Resolved
<1>6. CASE RunCommand(q)
  <2>1. PICK c \in worker[q].todo :
          Set(q, [worker[q] EXCEPT !.todo = @ \ {c}, !.failed = @ \/ Rejected(c)])
    BY <1>6 DEF RunCommand
  <2>2. QED BY <1>2, <2>1, RunCommandFacts DEF SameTask, Resolved
<1>7. CASE VdelFailed(q) \/ EnqueueDeleteReconcile(q) \/ DropRowsAgain(q) \/ ForgetItem(q)
  <2>1. worker'[q] = Idle \/ worker'[q].at \in {"next", "enqueue", "forget"}
    BY <1>7, VdelFailedFacts, EnqueueFacts, DropRowsAgainFacts, ForgetItemFacts
  <2>2. QED BY <1>1, <2>1 DEF Resolved
<1>8. CASE Indexed(q) \/ SweepDone(q) \/ CollectionDone(q)
  BY <1>1, <1>8, IndexedFacts, DoneFacts
<1>9. CASE NextOfList(q)
  BY <1>9, NextOfListFacts DEF Resolved, Writers, ListKinds
<1>10. QED BY <1>3, <1>4, <1>5, <1>6, <1>7, <1>8, <1>9 DEF Work

(* A vector is as it was, gone, or of the configured model.                *)
Renewed(c) == vecs'[c] \in {vecs[c], None} \/ vecs'[c].model = embedModel

LEMMA AppliedModel ==
  ASSUME TypeInv, NEW x \in Commands, x.op = "vset" => x.vec.model = embedModel, vecs' = Applied(x)
  PROVE  \A c \in Chunks : Renewed(c)
<1>1. vecs' = vecs \/ vecs' = [vecs EXCEPT ![x.chunk] = x.vec]
  BY DEF Applied
<1>2. x.op = "vdel" => x.vec = None
  BY CommandFacts
<1>3. x.op \in {"vdel", "vset"}
  BY CommandFacts
<1>4. QED BY <1>1, <1>2, <1>3, TypesAre DEF StoreTypes, Renewed

LEMMA DocStepModels ==
  ASSUME TypeInv, OneModel, DocStep
  PROVE  OneModel' /\ \A c \in Chunks : Renewed(c)
<1>1. embedModel' = embedModel
  BY DocStepModel
<1>2. \/ \E q \in Workers : Work(q) \/ BatchFails(q)
      \/ \E p \in Workers : Starts(p)
      \/ Other
  BY GoesOnStep DEF DocStep, GoesOn
<1>3. CASE \E q \in Workers : Work(q) \/ BatchFails(q)
  <2>1. PICK q \in Workers : Work(q) \/ BatchFails(q)
    BY <1>3
  <2>2. \A p \in Workers : Resolved(worker'[p]) => worker'[p].vec = embedModel
    <3>1. \A p \in Workers \ {q} : worker'[p] = worker[p]
      BY <2>1, WorkTypeStep DEF Going
    <3>2. QED BY <2>1, <3>1, WorkModel DEF OneModel
  <2>3. \A x \in late' : x \in late \/ x \in worker[q].todo
    <3>1. CASE BatchFails(q)
      BY <3>1, BatchFailsFacts
    <3>2. CASE Work(q)
      BY <3>2 DEF Work, FetchText, UpsertItem, Embed, ReadChunks, RunCommand,
         DropRows, VdelFailed, EnqueueDeleteReconcile, SaveChunks, SaveDocText, Indexed,
         DropRowsAgain, ForgetItem, NextOfList, SweepDone, CollectionDone
    <3>3. QED BY <2>1, <3>1, <3>2
  <2>4. OneModel'
    BY <1>1, <2>2, <2>3, SentModels DEF OneModel
  <2>5. \A c \in Chunks : Renewed(c)
    <3>1. CASE RunCommand(q)
      <4>1. PICK x \in worker[q].todo : vecs' = Applied(x)
        BY <3>1 DEF RunCommand
      <4>2. QED BY <4>1, TodoIsOnDoc, SentModels, AppliedModel
    <3>2. CASE ~RunCommand(q)
      <4>1. vecs' = vecs
        BY <2>1, <3>2 DEF BatchFails, Work, FetchText, UpsertItem, Embed, ReadChunks,
           DropRows, VdelFailed, EnqueueDeleteReconcile, SaveChunks, SaveDocText, Indexed,
           DropRowsAgain, ForgetItem, NextOfList, SweepDone, CollectionDone
      <4>2. QED BY <4>1 DEF Renewed
    <3>3. QED BY <3>1, <3>2
  <2>6. QED BY <2>4, <2>5
<1>4. CASE \E p \in Workers : Starts(p)
  <2>1. PICK p \in Workers : Starts(p)
    BY <1>4
  <2>2. PICK w \in WorkerRec : Fresh(w) /\ Start(p, w)
    BY <2>1 DEF Starts, StartsTask
  <2>3. ~Resolved(w)
    BY <2>2 DEF Fresh, Resolved
  <2>4. \A q \in Workers : Resolved(worker'[q]) => q # p /\ Resolved(worker[q]) /\ worker'[q].vec = worker[q].vec
    BY <2>2, <2>3, StartFacts DEF Resolved
  <2>5. late' = late /\ vecs' = vecs
    BY <2>1 DEF Starts, Data
  <2>6. QED BY <1>1, <2>4, <2>5 DEF OneModel, Renewed
<1>5. CASE Quiet \/ (\E d \in Docs : Expire(d))
  BY <1>1, <1>5 DEF Quiet, Data, Expire, OneModel, Renewed
<1>6. CASE RunLate
  <2>1. PICK x \in late : vecs' = Applied(x) /\ late' = late \ {x} /\ worker' = worker
    BY <1>6 DEF RunLate
  <2>2. x \in Commands /\ (x.op = "vset" => x.vec.model = embedModel)
    BY TypesAre DEF StoreTypes, OneModel
  <2>3. OneModel'
    BY <1>1, <2>1 DEF OneModel
  <2>4. QED BY <2>1, <2>2, <2>3, AppliedModel
<1>7. QED BY <1>2, <1>3, <1>4, <1>5, <1>6 DEF Other

(* Documents that met never go back to having not met. *)
LEMMA OverlappedGrows ==
  ASSUME TypeInv, Step
  PROVE  overlapped \subseteq overlapped'
<1>1. CASE DocStep
  <2>1. \/ \E q \in Workers : Work(q) \/ BatchFails(q)
        \/ \E p \in Workers : Starts(p)
        \/ Other
    BY <1>1, GoesOnStep DEF DocStep, GoesOn
  <2>2. CASE \E q \in Workers : Work(q) \/ BatchFails(q)
    BY <2>2, WorkTypeStep
  <2>3. CASE \E p \in Workers : Starts(p)
    BY <2>3, StartFacts DEF Starts, StartsTask
  <2>4. CASE Other
    BY <2>4 DEF Other, Quiet, Expire, RunLate
  <2>5. QED BY <2>1, <2>2, <2>3, <2>4
<1>2. CASE Pages \/ Asks \/ Looks \/ Ends
  BY <1>2, CalmFacts DEF Calm
<1>3. CASE Clears \/ RebuildCommand \/ RebuildBatchFails \/ StoreRestart
  BY <1>3 DEF Clears, ClearVectorStore, RebuildCommand, RebuildBatchFails, StoreRestart, SameDocs
<1>4. CASE \E m \in Models : GatewayRestart(m)
  BY <1>4 DEF GatewayRestart, WorkersDie
<1>5. QED BY <1>1, <1>2, <1>3, <1>4, StepKinds DEF Step, Asks

(* While the model stays, nothing of another model comes.                  *)
LEMMA OneModelKept ==
  ASSUME TypeInv, RebuildTypes, HeldInv, HistoryInv, OneModel, Step, embedModel' = embedModel
  PROVE  OneModel' /\ \A c \in Chunks : Renewed(c)
<1>1. \A x \in rebuild.todo : x \in Commands /\ x.vec.model = embedModel
  BY HeldHarmless DEF HeldInv
<1>2. CASE DocStep
  BY <1>2, DocStepModels
<1>3. CASE Pages \/ Asks \/ Looks \/ Ends
  BY <1>3, CalmFacts DEF Calm, OneModel, Renewed
<1>4. CASE Clears \/ StoreRestart
  <2>1. Lose /\ late' \subseteq late
    BY <1>4 DEF Clears, ClearVectorStore, StoreRestart
  <2>2. \A p \in Workers : Resolved(worker'[p]) => Resolved(worker[p]) /\ worker'[p].vec = worker[p].vec
    <3> TAKE p \in Workers
    <3>1. worker[p] \in WorkerRec
      BY WorkerFacts
    <3>2. worker'[p] = worker[p] \/ worker'[p] = [worker[p] EXCEPT !.alone = FALSE]
      BY <2>1 DEF Lose
    <3>3. QED BY <3>1, <3>2 DEF WorkerRec, Resolved
  <2>3. QED BY <2>1, <2>2 DEF Lose, OneModel, Renewed
<1>5. CASE RebuildCommand
  <2>1. PICK x \in rebuild.todo : vecs' = Applied(x)
    BY <1>5 DEF RebuildCommand
  <2>2. \A c \in Chunks : Renewed(c)
    BY <1>1, <2>1, AppliedModel
  <2>3. QED BY <1>5, <2>2 DEF RebuildCommand, SameDocs, OneModel
<1>6. CASE RebuildBatchFails
  BY <1>1, <1>6 DEF RebuildBatchFails, SameDocs, OneModel, Renewed
<1>7. CASE \E m \in Models : GatewayRestart(m)
  <2>1. late' \subseteq late \cup Sent \cup rebuild.todo /\ WorkersDie
    BY <1>7 DEF GatewayRestart
  <2>2. \A x \in Sent : x.op = "vset" => x.vec.model = embedModel
    BY SentModels DEF Sent
  <2>3. \A p \in Workers : ~Resolved(worker'[p])
    BY <2>1, IdleFacts DEF WorkersDie, Resolved, Writers
  <2>4. \A x \in late' : x.op = "vset" => x.vec.model = embedModel
    BY <1>1, <2>1, <2>2 DEF OneModel
  <2>5. QED BY <2>1, <2>3, <2>4 DEF WorkersDie, OneModel, Renewed
<1>8. QED BY <1>2, <1>3, <1>4, <1>5, <1>6, <1>7, StepKinds DEF Step, Asks

LEMMA ForeignShrinks ==
  ASSUME TypeInv, RebuildTypes, ReindexNext, embedModel' = embedModel, NEW c \in Chunks, Renewed(c)
  PROVE  Foreign(c)' => Foreign(c)
<1>1. overlapped \subseteq overlapped' /\ mixed \subseteq mixed'
  BY OverlappedGrows, HistoryFacts DEF ReindexNext
<1>2. QED BY <1>1 DEF Renewed, Foreign

(* A vector of an earlier model has its row.                               *)
LEMMA ForeignHasRow ==
  ASSUME DocInv(mixed), NEW c \in Chunks, Foreign(c)
  PROVE  c \in RowChunks
BY DEF DocInv, NoOrphans, Foreign, RowChunks

LEMMA LostIsNotOld ==
  ASSUME Lose
  PROVE  ~OldModel' /\ \A c \in Chunks : ~Foreign(c)'
BY DEF Lose, OldModel, Foreign

(* ---- What the rebuild knows of the models.                              *)
LEMMA ModeKept ==
  ASSUME TypeInv, RebuildTypes, ReindexNext, AlwaysChecked, rebuild.mode # "off"
  PROVE  rebuild'.mode # "off"
<1>1. CASE Pages \/ Clears \/ RebuildCommand \/ RebuildBatchFails
  BY <1>1, FetchFacts, EmbedBatchFacts, BatchDoneFacts, EndFacts, ClearsFacts,
     RebuildCommandFacts, RebuildFailsFacts DEF Pages, RebuildCommand, SameRun
<1>2. CASE Asks
  BY <1>2, AsksFacts, BeginFacts, ReindexAssumption DEF AlwaysChecked
<1>3. CASE Looks
  <2>1. CASE CountChunks \/ ReadStats
    BY <2>1, CountFacts, StatsFacts, EndFacts DEF SameRun
  <2>2. CASE rebuild' = After(rebuild) /\ rebuild.at \in {"decide", "adopt"}
    BY <2>2, AfterFacts, EndFacts DEF SameRun
  <2>3. CASE Decide
    BY <2>2, <2>3, DecideFacts DEF SameRun
  <2>4. QED BY <1>3, <2>1, <2>2, <2>3 DEF Looks, Adopt
<1>4. CASE Ends
  BY <1>4, EndFacts DEF Ends, WriteFingerprint, End
<1>5. CASE StoreRestart \/ (\E m \in Models : GatewayRestart(m)) \/ (DocStep /\ rebuild' = rebuild)
  BY <1>5 DEF StoreRestart, GatewayRestart, NoRebuild
<1>6. QED
  BY <1>1, <1>2, <1>3, <1>4, <1>5, StepKinds DEF ReindexNext, Step, Asks

(* How a rebuild gets to where it decides. *)
LEMMA DecideKinds ==
  ASSUME TypeInv, RebuildTypes, ReindexNext, rebuild'.at \in {"decide", "adopt", "clear"}
  PROVE  \/ rebuild' = rebuild /\ (UNCHANGED fingerprint \/ StoreRestart)
         \/ ReadStats /\ rebuild'.at = "decide" /\ (rebuild'.count = 0 => StoredChunks = {})
         \/ /\ Decide \/ Adopt
            /\ rebuild.at \in {"decide", "adopt"} /\ rebuild'.count = rebuild.count
            /\ rebuild'.at = "adopt" => fingerprint = None /\ UNCHANGED fingerprint
<1>1. CASE Pages \/ Clears \/ RebuildCommand \/ RebuildBatchFails
  BY <1>1, FetchFacts, EmbedBatchFacts, BatchDoneFacts, EndFacts, ClearsFacts,
     RebuildCommandFacts, RebuildFailsFacts DEF Pages, RebuildCommand, StartsWalk
<1>2. CASE Asks
  <2>1. fingerprint' = fingerprint
    BY <1>2 DEF Asks, AdminReindex, AutoReindex, WatchStats, WatchCount
  <2>2. QED BY <1>2, <2>1, AsksFacts, BeginFacts, ReindexAssumption
<1>3. CASE Looks
  <2>1. CASE CountChunks \/ ReadStats
    BY <2>1, CountFacts, StatsFacts, EndFacts DEF StartsWalk
  <2>2. CASE rebuild' = After(rebuild) /\ rebuild.at \in {"decide", "adopt"} /\ (Decide \/ Adopt)
    BY <2>2, AfterFacts, EndFacts DEF StartsWalk
  <2>3. CASE Decide
    <3>1. fingerprint' = fingerprint
      BY <2>3 DEF Decide
    <3>2. QED BY <2>2, <2>3, <3>1, DecideFacts
  <2>4. CASE Adopt
    BY <2>2, <2>4 DEF Adopt
  <2>5. QED BY <1>3, <2>1, <2>3, <2>4 DEF Looks
<1>4. CASE Ends
  BY <1>4, EndFacts DEF Ends, WriteFingerprint, End
<1>5. CASE StoreRestart \/ (\E m \in Models : GatewayRestart(m))
           \/ (DocStep /\ UNCHANGED <<fingerprint, rebuild, watch, booting, outages>>)
  BY <1>5 DEF StoreRestart, GatewayRestart, NoRebuild
<1>6. QED
  BY <1>1, <1>2, <1>3, <1>4, <1>5, StepKinds DEF ReindexNext, Step, Asks

LEMMA FingerprintKinds ==
  ASSUME Step
  PROVE  \/ fingerprint' = fingerprint \/ Adopt \/ WriteFingerprint \/ StoreRestart
<1>1. CASE DocStep /\ UNCHANGED <<fingerprint, rebuild, watch, booting, outages>>
  BY <1>1
<1>2. CASE (\E mode \in AdminModes : AdminReindex(mode)) \/ AutoReindex \/ WatchStats \/ WatchCount
  BY <1>2 DEF AdminReindex, AutoReindex, WatchStats, WatchCount
<1>3. CASE RebuildStep
  BY <1>3 DEF RebuildStep, CountChunks, ReadStats, Decide, ClearVectorStore, FetchPage,
     EmbedBatch, RebuildCommand, BatchDone
<1>4. CASE RebuildBatchFails \/ StoreRestart \/ \E m \in Models : GatewayRestart(m)
  BY <1>4 DEF RebuildBatchFails, GatewayRestart
<1>5. QED BY <1>1, <1>2, <1>3, <1>4 DEF Step

(* At the end of the walk nothing old is left; what decides not to rebuild *)
(* has seen that there is nothing old.                                     *)
LEMMA NothingOld ==
  ASSUME RebuildTypes, DocInv(mixed), OldIsFound,
         \/ rebuild.at = "write"
         \/ rebuild.at \in {"decide", "adopt"} /\ ~ShouldReindex(rebuild)
         \/ RowChunks = {}
         \/ StoredChunks = {}
  PROVE  ~OldModel
<1>1. CASE rebuild.at = "write"
  <2>1. \A c \in Chunks : Foreign(c) => Ahead(c)
    BY <1>1, NoneAhead DEF OldIsFound, Walking
  <2>2. QED BY <1>1, <2>1, NoneAhead DEF OldModel
<1>2. CASE rebuild.at \in {"decide", "adopt"} /\ ~ShouldReindex(rebuild)
  <2>1. rebuild.total \in Nat /\ rebuild.count \in Nat /\ rebuild.total > 0
    BY <1>2 DEF RebuildTypes, RebuildRec, RebuildShape
  <2>2. ~(rebuild.count < rebuild.total) /\ ~ModelChanged(rebuild)
    BY <1>2 DEF ShouldReindex, ClearFirst
  <2>3. fingerprint \in {None, embedModel}
    BY <2>1, <2>2 DEF ModelChanged
  <2>4. QED BY <2>3 DEF OldIsFound
<1>3. CASE RowChunks = {}
  BY <1>3, ForeignHasRow DEF OldModel
<1>4. CASE StoredChunks = {}
  BY <1>4 DEF StoredChunks, OldModel, Foreign
<1>5. QED BY <1>1, <1>2, <1>3, <1>4

LEMMA OldIsFoundKept ==
  ASSUME TypeInv, RebuildTypes, RebuildTypes', DocInv(mixed), HeldInv, HistoryInv, ReindexNext,
         OneModel, OldIsFound, embedModel' = embedModel,
         rebuild.at = "adopt" => fingerprint = None, AlwaysChecked => rebuild.mode # "off"
  PROVE  OldIsFound'
<1>1. \A c \in Chunks : Renewed(c) /\ (Foreign(c)' => Foreign(c))
  BY OneModelKept, ForeignShrinks DEF ReindexNext
<1>2. OldModel' => OldModel
  BY <1>1 DEF OldModel
<1>3. (OldModel => fingerprint \notin {None, embedModel})'
  <2>1. CASE fingerprint' = fingerprint
    BY <1>2, <2>1 DEF OldIsFound
  <2>2. CASE Adopt
    BY <1>2, <2>2 DEF Adopt, OldIsFound
  <2>3. CASE WriteFingerprint
    BY <1>2, <2>3, NothingOld DEF WriteFingerprint
  <2>4. CASE StoreRestart
    BY <2>4, LostIsNotOld DEF StoreRestart
  <2>5. QED BY <2>1, <2>2, <2>3, <2>4, FingerprintKinds DEF ReindexNext
<1>4. (rebuild.at \in {"decide", "adopt", "clear"} /\ rebuild.count = 0 => ~OldModel)'
  <2> SUFFICES ASSUME rebuild'.at \in {"decide", "adopt", "clear"}, rebuild'.count = 0
               PROVE  ~OldModel'
    OBVIOUS
  <2>1. CASE rebuild' = rebuild
    BY <1>2, <2>1 DEF OldIsFound
  <2>2. CASE StoredChunks = {}
    BY <1>2, <2>2, NothingOld
  <2>3. CASE rebuild.at \in {"decide", "adopt"} /\ rebuild'.count = rebuild.count
    BY <1>2, <2>3 DEF OldIsFound
  <2>4. QED BY <2>1, <2>2, <2>3, DecideKinds
<1>5. (rebuild.at \in Walking /\ ~rebuild.failed => \A c \in Chunks : Foreign(c) => Ahead(c))'
  <2> SUFFICES ASSUME rebuild'.at \in Walking, ~rebuild'.failed, NEW c \in Chunks, Foreign(c)'
               PROVE  Ahead(c)'
    OBVIOUS
  <2>1. Walks(rebuild')
    <3>1. \A st : [NoRebuild EXCEPT !.status = st].at = "idle"
      BY DEF NoRebuild
    <3>2. RebuildShape(rebuild')
      BY DEF RebuildTypes
    <3>3. QED BY <3>1, <3>2 DEF RebuildShape, Walks, Walking
  <2>2. Foreign(c) /\ c \in RowChunks
    BY <1>1, ForeignHasRow
  <2>3. Walks(rebuild) => Ahead(c)
    BY <2>2 DEF Walks, OldIsFound
  <2>4. CASE rebuild' = rebuild
    BY <2>1, <2>3, <2>4 DEF Ahead, Position
  <2>5. CASE StartsWalk(rebuild')
    BY <2>5, AllAhead
  <2>6. CASE Pages /\ Walks(rebuild)
    BY <2>1, <2>2, <2>3, <2>6, AheadKept DEF Walks, Running
  <2>7. CASE RebuildCommand
    <3>1. PICK x \in rebuild.todo :
            /\ vecs' = Applied(x)
            /\ rebuild' = [rebuild EXCEPT !.todo = @ \ {x}, !.failed = @ \/ Rejected(x)]
      BY <2>7 DEF RebuildCommand
    <3>2. /\ Running /\ rebuild.at \in {"vset", "vflush"} /\ ~rebuild.failed /\ ~Rejected(x)
          /\ rebuild'.at = rebuild.at /\ rebuild'.buffer = rebuild.buffer /\ rebuild'.last = rebuild.last
          /\ rebuild'.todo = rebuild.todo \ {x}
      BY <3>1, RebuildCommandFacts
    <3>3. vecs' = [vecs EXCEPT ![x.chunk] = x.vec] /\ x.vec.model = embedModel
      BY <3>1, <3>2 DEF Applied, HeldInv
    <3>4. c # x.chunk
      BY <3>3, TypesAre DEF StoreTypes, Foreign
    <3>5. Ahead(c)
      BY <2>3, <3>2 DEF Walks, Walking, Running
    <3>6. QED BY <3>2, <3>4, <3>5 DEF Ahead, Position
  <2>8. QED BY <2>1, <2>4, <2>5, <2>6, <2>7, WalkKinds
<1>6. (AlwaysChecked /\ rebuild.status \in {"completed", "skipped"} => ~OldModel)'
  <2> SUFFICES ASSUME AlwaysChecked, rebuild'.status \in {"completed", "skipped"}
               PROVE  ~OldModel'
    BY DEF AlwaysChecked
  <2>1. CASE rebuild' = rebuild
    BY <1>2, <2>1 DEF OldIsFound
  <2>2. CASE WriteFingerprint
    BY <1>2, <2>2, NothingOld DEF WriteFingerprint
  <2>3. CASE RowChunks = {}
    BY <1>2, <2>3, NothingOld
  <2>4. CASE rebuild.at \in {"decide", "adopt"} /\ ~ShouldReindex(rebuild)
    BY <1>2, <2>4, NothingOld
  <2>5. QED BY <2>1, <2>2, <2>3, <2>4, EndKinds
<1>7. QED BY <1>3, <1>4, <1>5, <1>6 DEF OldIsFound

LEMMA SwitchKept ==
  ASSUME TypeInv, RebuildTypes, RebuildTypes', DocInv(mixed), HeldInv, HistoryInv, SwitchInv, ReindexNext
  PROVE  SwitchInv'
<1>1. (rebuild.at = "adopt" => fingerprint = None)'
  <2> SUFFICES ASSUME rebuild'.at = "adopt" PROVE fingerprint' = None
    OBVIOUS
  <2>1. CASE rebuild' = rebuild /\ (UNCHANGED fingerprint \/ StoreRestart)
    BY <2>1 DEF SwitchInv, StoreRestart
  <2>2. CASE fingerprint = None /\ UNCHANGED fingerprint
    BY <2>2
  <2>3. QED BY <2>1, <2>2, DecideKinds
<1>2. (AlwaysChecked => rebuild.mode # "off")'
  BY ModeKept DEF SwitchInv, AlwaysChecked
<1>3. ASSUME ~misled' PROVE OneModel' /\ OldIsFound'
  <2>1. CASE embedModel' = embedModel
    <3>1. OneModel /\ OldIsFound
      BY <1>3, <2>1 DEF ReindexNext, History, SwitchInv
    <3>2. QED BY <2>1, <3>1, OneModelKept, OldIsFoundKept DEF ReindexNext, SwitchInv
  <2>2. CASE embedModel' # embedModel
    <3>1. PICK m \in Models : GatewayRestart(m)
      <4>1. CASE DocStep
        BY <2>2, <4>1, DocStepModel
      <4>2. CASE Pages \/ Asks \/ Looks \/ Ends
        BY <2>2, <4>2, CalmFacts DEF Calm
      <4>3. CASE Clears \/ RebuildCommand \/ RebuildBatchFails \/ StoreRestart
        BY <2>2, <4>3 DEF Clears, ClearVectorStore, RebuildCommand, RebuildBatchFails, StoreRestart, SameDocs
      <4>4. QED BY <4>1, <4>2, <4>3, StepKinds DEF ReindexNext, Step, Asks
    <3>2. late' = {} /\ ~(OthersModel' /\ fingerprint' \in {None, embedModel'})
      BY <1>3, <2>2 DEF ReindexNext, History
    <3>3. rebuild' = NoRebuild /\ \A p \in Workers : worker'[p] = Idle
      BY <3>1 DEF GatewayRestart, WorkersDie
    <3>4. OneModel'
      BY <3>2, <3>3, IdleFacts DEF OneModel, Resolved, Writers
    <3>5. OldModel' => OthersModel'
      BY DEF OldModel, Foreign, OthersModel, StoredChunks
    <3>6. rebuild'.at = "idle" /\ rebuild'.status = "none"
      BY <3>3 DEF NoRebuild
    <3>7. OldIsFound'
      BY <3>2, <3>5, <3>6 DEF OldIsFound, Walking
    <3>8. QED BY <3>4, <3>7
  <2>3. QED BY <2>1, <2>2
<1>4. QED BY <1>1, <1>2, <1>3 DEF SwitchInv

-----------------------------------------------------------------------------
(* The inductive invariant.                                                *)
LEMMA RebuildInvInit ==
  ASSUME ReindexInit
  PROVE  RebuildInv
<1>1. PICK mix : mix = mixed
  OBVIOUS
<1>2. TypeInv /\ DocInv(mixed)
  BY <1>1, DocTypeInit, DocInvInit DEF ReindexInit
<1>3. rebuild = NoRebuild /\ rebuild \in RebuildRec
  BY DEF ReindexInit, NoRebuild, RebuildRec
<1>4. /\ rebuild.at = "idle" /\ rebuild.status = "none" /\ rebuild.mode = "auto" /\ rebuild.last = 0
      /\ rebuild.buffer = {} /\ rebuild.todo = {} /\ rebuild.failed = FALSE
  BY <1>3 DEF NoRebuild
<1>5. NoRebuild = [NoRebuild EXCEPT !.status = "none"]
  BY DEF NoRebuild
<1>6. RebuildShape(rebuild)
  BY <1>3, <1>4, <1>5, FS_EmptySet DEF RebuildShape, Walking
<1>7. RebuildTypes
  BY <1>3, <1>6 DEF ReindexInit, RebuildTypes
<1>8. HeldInv /\ WalkInv
  BY <1>4 DEF HeldInv, WalkInv, Running
<1>9. \A d \in Docs : ~Held(d)
  BY <1>4 DEF Held
<1>10. HistoryInv
  BY <1>4, <1>9 DEF ReindexInit, HistoryInv, Running
<1>11. RowChunks = {} /\ \A c \in Chunks : vecs[c] = None
  BY DEF ReindexInit, DocInit, RowChunks
<1>12. RebuildIsComplete
  BY <1>11 DEF RebuildIsComplete
<1>13. OneModel
  BY IdleFacts DEF ReindexInit, DocInit, OneModel, Resolved, Writers
<1>14. ~OldModel
  BY <1>11 DEF OldModel, Foreign
<1>15. SwitchInv
  BY <1>4, <1>13, <1>14 DEF SwitchInv, OldIsFound, Walking
<1>16. QED BY <1>2, <1>7, <1>8, <1>10, <1>12, <1>15 DEF RebuildInv

LEMMA RebuildInvStutter ==
  ASSUME RebuildInv, UNCHANGED allvars
  PROVE  RebuildInv'
<1> USE DEF allvars, rvars
<1>1. PICK mix : mix = mixed
  OBVIOUS
<1>2. TypeInv' /\ DocInv(mix)' /\ mix \subseteq mixed'
  BY <1>1, GoesOnInv DEF RebuildInv, GoesOn
<1>3. TypeInv' /\ DocInv(mixed)'
  BY <1>2, MixedGrows
<1> USE DEF dvars
<1>4. RebuildTypes'
  BY DEF RebuildInv, RebuildTypes
<1>5. HeldInv'
  BY DEF RebuildInv, HeldInv
<1>6. HistoryInv'
  BY DEF RebuildInv, HistoryInv, Held, Busy, Users, LateOn, Running
<1>7. WalkInv'
  BY DEF RebuildInv, WalkInv, RowChunks, Ahead, Position, Running
<1>8. RebuildIsComplete'
  BY DEF RebuildInv, RebuildIsComplete, RowChunks
<1>9. SwitchInv'
  BY DEF RebuildInv, SwitchInv, OneModel, OldIsFound, OldModel, Foreign, Ahead, Position, AlwaysChecked
<1>10. QED BY <1>3, <1>4, <1>5, <1>6, <1>7, <1>8, <1>9 DEF RebuildInv

LEMMA RebuildInvHolds == ReindexSpec => []RebuildInv
<1>1. ReindexInit => RebuildInv
  BY RebuildInvInit
<1>2. RebuildInv /\ [ReindexNext]_allvars => RebuildInv'
  <2> SUFFICES ASSUME RebuildInv, [ReindexNext]_allvars PROVE RebuildInv'
    OBVIOUS
  <2>1. CASE UNCHANGED allvars
    BY <2>1, RebuildInvStutter
  <2>2. CASE ReindexNext
    <3>1. TypeInv /\ DocInv(mixed) /\ RebuildTypes /\ HeldInv /\ HistoryInv /\ WalkInv
          /\ RebuildIsComplete /\ SwitchInv /\ History
      BY <2>2 DEF RebuildInv, ReindexNext
    <3>2. TypeInv' /\ DocInv(mixed)'
      BY <2>2, <3>1, DocInvKept
    <3>3. RebuildTypes'
      BY <2>2, <3>1, <3>2, RebuildTypesKept
    <3>4. HistoryInv'
      BY <3>1, HistoryKept
    <3>5. HeldInv'
      BY <2>2, <3>1, <3>3, HeldKept
    <3>6. WalkInv' /\ RebuildIsComplete'
      BY <2>2, <3>1, <3>2, <3>3, WalkKept, CompleteKept
    <3>7. SwitchInv'
      BY <2>2, <3>1, <3>3, SwitchKept
    <3>8. QED BY <3>2, <3>3, <3>4, <3>5, <3>6, <3>7 DEF RebuildInv
  <2>3. QED BY <2>1, <2>2
<1>3. QED BY <1>1, <1>2, PTL DEF ReindexSpec

(* Beside rebuilds, restarts of the store and of the gateway every table   *)
(* and every worker keeps its type, and the rebuild is always at a place   *)
(* of reindexAllChunks with what it has there: one rebuild at a time, no   *)
(* command left from a batch when the next is read, a last batch that is   *)
(* not full.                                                               *)
THEOREM RebuildTypesAreRight == ReindexSpec => [](DocTypeOK /\ RebuildTypes)
<1>1. RebuildInv => DocTypeOK /\ RebuildTypes
  BY DEF RebuildInv, TypeInv
<1>2. QED BY <1>1, RebuildInvHolds, PTL

(* A rebuild beside live requests, clears of the store, its restarts and   *)
(* the gateway's, loses nothing of a document that was written with        *)
(* success: every chunk has a vector, and that of its text unless a rebuild*)
(* held rows of the document while somebody was at it (reindexAllChunks,   *)
(* indexDocument).                                                         *)
THEOREM DocumentsSettleBesideRebuilds == ReindexSpec => []SettledBesideRebuild
<1>1. RebuildInv => SettledBesideRebuild
  <2> SUFFICES ASSUME RebuildInv, NEW d \in Docs, Users(d) = {}, outcome[d] \in AllTexts
               PROVE  Written(d, mixed)
    BY DEF SettledBesideRebuild, Written
  <2>1. TypeInv /\ DocInv(mixed)
    BY DEF RebuildInv
  <2>2. \A p \in Workers : ~BusyWith(p, d)
    BY <2>1, BusyTargets DEF Users
  <2>3. QED BY <2>1, <2>2 DEF DocInv, SettledInv
<1>2. QED BY <1>1, RebuildInvHolds, PTL

(* A rebuild that reports completed has left out no page, no partial batch *)
(* and no vector it cleared, for any number of chunks and any sizes of     *)
(* pages and batches (reindexAllChunks, listChunksAfter,                   *)
(* reindexChunkBatch).                                                     *)
THEOREM RebuildsAreComplete == ReindexSpec => []RebuildIsComplete
<1>1. RebuildInv => RebuildIsComplete
  BY DEF RebuildInv
<1>2. QED BY <1>1, RebuildInvHolds, PTL

(* Unless REINDEX_MODE or an admin switches the check off, a gateway that  *)
(* comes back with another model does not end its check with vectors of the*)
(* old one behind a chunk, provided the store recorded which model it held *)
(* (shouldReindexStoredVectors, the fingerprint).                          *)
THEOREM SwitchesAreNoticed ==
  ASSUME AlwaysChecked
  PROVE  ReindexSpec => []SwitchIsNoticed
<1>1. RebuildInv => SwitchIsNoticed
  BY DEF RebuildInv, SwitchInv, OldIsFound, OldModel, Foreign, RowChunks, SwitchIsNoticed
<1>2. QED BY <1>1, RebuildInvHolds, PTL
=============================================================================
