----------------------------- MODULE StoreProofs -----------------------------
(***************************************************************************)
(* Theorems about the store, for every value of its constants.             *)
(***************************************************************************)
EXTENDS StoreRefinement, FiniteSetTheorems, SequenceTheorems, TLAPS, WellFoundedInduction

(* The number of stored vectors is a natural number.                       *)
LEMMA LiveCount ==
  ASSUME NEW x
  PROVE  Cardinality(LiveIds(x)) \in Nat
<1>1. IsFiniteSet(LiveIds(x))
  BY DataAssumption, FS_Subset DEF LiveIds
<1>2. QED BY <1>1, FS_CardinalityType

(* The index operations keep the type of an image.                          *)
LEMMA AddOrUpdateImageType ==
  ASSUME NEW x \in Image, NEW i \in Ids, NEW v \in Vecs
  PROVE  AddOrUpdate(x, i, v) \in Image
BY DataAssumption DEF AddOrUpdate, Image, VecMap, DimensionMismatch

LEMMA RemoveIdsImageType ==
  ASSUME NEW x \in Image, NEW S \in SUBSET Ids
  PROVE  RemoveIds(x, S) \in Image
BY DEF RemoveIds, Image, VecMap, NoVecs

LEMMA ClearImageType ==
  ASSUME NEW x \in Image
  PROVE  Clear(x) \in Image
BY DEF Clear, Image, VecMap, NoVecs

(* They keep the type of the memory of the process.                         *)
LEMMA AddOrUpdateMemoryType ==
  ASSUME NEW x \in Memory, NEW i \in Ids, NEW v \in Vecs
  PROVE  AddOrUpdate(x, i, v) \in Memory
BY DataAssumption DEF AddOrUpdate, Memory, VecMap, DimensionMismatch

LEMMA RemoveIdsMemoryType ==
  ASSUME NEW x \in Memory, NEW S \in SUBSET Ids
  PROVE  RemoveIds(x, S) \in Memory
BY DEF RemoveIds, Memory, VecMap, NoVecs

LEMMA ClearMemoryType ==
  ASSUME NEW x \in Memory
  PROVE  Clear(x) \in Memory
BY DEF Clear, Memory, VecMap, NoVecs

(* Replaying one line keeps the type of the image.                         *)
LEMMA ReplayLineType ==
  ASSUME NEW img \in Image, NEW l \in Lines
  PROVE  ReplayLine(img, l) \in Image
<1> DEFINE m == [img EXCEPT !.count = IF Counted(l) THEN @ + 1 ELSE @]
<1>1. m \in Image
  BY DEF Image
<1> HIDE DEF m
<1>2. CASE ~img.ok
  BY <1>2 DEF ReplayLine
<1>3. CASE img.ok /\ l \in SetLines
  <2>1. ReplayLine(img, l) =
          [m EXCEPT !.kv = [m.kv EXCEPT ![l.key] = [val |-> l.val, exp |-> l.ttl]]]
    BY <1>3 DEF ReplayLine, m, SetLines
  <2>2. [val |-> l.val, exp |-> l.ttl] \in KvEntry
    BY <1>3, DataAssumption DEF KvEntry, SetLines
  <2>3. QED BY <1>1, <1>3, <2>1, <2>2 DEF Image, SetLines
<1>4. CASE img.ok /\ l \in DelLines
  <2>1. ReplayLine(img, l) = [m EXCEPT !.kv = [m.kv EXCEPT ![l.key] = Absent]]
    BY <1>4 DEF ReplayLine, m, DelLines
  <2>2. QED BY <1>1, <1>4, <2>1 DEF Image, DelLines
<1>5. CASE img.ok /\ l \in VsetLines
  <2>1. ReplayLine(img, l) = AddOrUpdate(m, l.id, l.vec)
    BY <1>5 DEF ReplayLine, m, VsetLines
  <2>2. QED BY <1>1, <1>5, <2>1, AddOrUpdateImageType DEF VsetLines
<1>6. CASE img.ok /\ l \in VdelLines
  <2>1. ReplayLine(img, l) = RemoveIds(m, {l.id})
    BY <1>6 DEF ReplayLine, m, VdelLines
  <2>2. {l.id} \in SUBSET Ids
    BY <1>6 DEF VdelLines
  <2>3. QED BY <1>1, <2>1, <2>2, RemoveIdsImageType
<1>7. CASE img.ok /\ l \in PrefixLines
  <2>1. ReplayLine(img, l) = RemoveIds(m, IdsWith[l.prefix])
    BY <1>7 DEF ReplayLine, m, PrefixLines
  <2>2. IdsWith[l.prefix] \in SUBSET Ids
    BY <1>7, DataAssumption DEF PrefixLines
  <2>3. QED BY <1>1, <2>1, <2>2, RemoveIdsImageType
<1>8. CASE img.ok /\ l \in {VclearLine, FatalLine}
  <2>1. ReplayLine(img, l) = Clear(m) \/ ReplayLine(img, l) = [m EXCEPT !.ok = FALSE]
    BY <1>8 DEF ReplayLine, m, VclearLine, FatalLine
  <2>2. QED BY <1>1, <2>1, ClearImageType DEF Image
<1>9. CASE img.ok /\ l \in [op: {"JUNK"}, counted: BOOLEAN]
  <2>1. ReplayLine(img, l) = m
    BY <1>9 DEF ReplayLine, m
  <2>2. QED BY <1>1, <2>1
<1>10. img.ok \in BOOLEAN
  BY DEF Image
<1>11. QED
  BY <1>2, <1>3, <1>4, <1>5, <1>6, <1>7, <1>8, <1>9, <1>10 DEF Lines, VectorLines, TornLines

-----------------------------------------------------------------------------
(* Log files.                                                              *)

(* A file is well formed when the disk has no more lines than there are,   *)
(* and only a line that exists can lack its newline.                       *)
FileOK(f) == f \in File /\ f.synced <= Len(f.tail) /\ (f.open => f.tail # <<>>)

LEMMA ImageAtType ==
  ASSUME NEW f \in File, NEW n \in 0 .. Len(f.tail)
  PROVE  ImageAt(f, n) \in Image
<1>1. f.base \in Image /\ f.tail \in Seq(Entry)
  BY DEF File
<1>2. CASE n = 0
  BY <1>1, <1>2 DEF ImageAt
<1>3. CASE n \in 1 .. Len(f.tail)
  <2>1. f.tail[n] \in Entry
    BY <1>1, <1>3
  <2>2. QED BY <1>3, <2>1 DEF ImageAt, Entry
<1>4. n = 0 \/ n \in 1 .. Len(f.tail)
  BY <1>1
<1>5. QED BY <1>2, <1>3, <1>4

LEMMA ImageOfType ==
  ASSUME NEW f \in File
  PROVE  ImageOf(f) \in Image
<1>1. Len(f.tail) \in 0 .. Len(f.tail)
  BY DEF File
<1>2. QED BY <1>1, ImageAtType DEF ImageOf

(* Adding a line, complete or without its newline, or cutting the tail     *)
(* leaves a well-formed file.                                              *)
LEMMA AddLineOK ==
  ASSUME NEW f \in File, f.synced <= Len(f.tail), NEW l \in Lines
  PROVE  /\ f.open = FALSE => FileOK(AddLine(f, l))
         /\ FileOK(AddOpenLine(f, l))
<1> DEFINE e == [line |-> l, img |-> ReplayLine(ImageOf(f), l)]
<1>1. e \in Entry
  BY ImageOfType, ReplayLineType DEF Entry
<1>2. /\ Append(f.tail, e) \in Seq(Entry)
      /\ Len(Append(f.tail, e)) = Len(f.tail) + 1
      /\ Append(f.tail, e) # <<>>
  BY <1>1 DEF File
<1>3. AddLine(f, l) = [f EXCEPT !.tail = Append(f.tail, e)]
  BY DEF AddLine
<1> HIDE DEF e
<1>4. AddLine(f, l) \in File /\ AddOpenLine(f, l) \in File
  BY <1>2, <1>3 DEF File, AddOpenLine
<1>5. /\ AddLine(f, l).tail = Append(f.tail, e)
      /\ AddLine(f, l).synced = f.synced
      /\ AddLine(f, l).open = f.open
      /\ AddOpenLine(f, l).tail = Append(f.tail, e)
      /\ AddOpenLine(f, l).synced = f.synced
  BY <1>3 DEF File, AddOpenLine
<1>6. f.synced \in Nat /\ Len(f.tail) \in Nat
  BY DEF File
<1>7. QED BY <1>2, <1>4, <1>5, <1>6 DEF FileOK

LEMMA CutOK ==
  ASSUME NEW f, FileOK(f), NEW n \in 0 .. Len(f.tail)
  PROVE  /\ Cut(f, n) \in File
         /\ Len(Cut(f, n).tail) = n
         /\ Cut(f, n).open => n = Len(f.tail) /\ n # 0
         /\ \A m \in 1 .. n : Cut(f, n).tail[m] = f.tail[m]
         /\ Cut(f, n).base = f.base
         /\ Cut(f, n).synced = f.synced
<1>1. /\ SubSeq(f.tail, 1, n) \in Seq(Entry)
      /\ Len(SubSeq(f.tail, 1, n)) = n
      /\ \A m \in 1 .. n : SubSeq(f.tail, 1, n)[m] = f.tail[m]
  BY DEF FileOK, File
<1>2. Cut(f, n) \in File
  BY <1>1 DEF FileOK, File, Cut
<1>3. /\ Cut(f, n).tail = SubSeq(f.tail, 1, n)
      /\ Cut(f, n).open = (f.open /\ n = Len(f.tail))
      /\ Cut(f, n).base = f.base
      /\ Cut(f, n).synced = f.synced
  BY DEF FileOK, File, Cut
<1>4. n = Len(f.tail) /\ f.open => n # 0
  BY DEF FileOK, File
<1>5. QED BY <1>1, <1>2, <1>3, <1>4

LEMMA JunkIsLine == \A b \in BOOLEAN : JunkLine(b) \in Lines
BY DEF JunkLine, Lines, TornLines

(* Torn text reads as lines.                                               *)
LEMMA FragmentsType ==
  ASSUME NEW l \in Lines
  PROVE  Fragments(l) \subseteq Lines /\ Fused(l) \subseteq Lines
<1>1. Fragments(l) \subseteq Lines
  <2> DEFINE J == {JunkLine(b) : b \in {FALSE, Counted(l)}}
  <2>0. {l} \cup J \subseteq Lines
    BY JunkIsLine DEF Counted
  <2>1. CASE l \in SetLines
    <3> DEFINE X == {SetLine(l.key, s, NoTtl) : s \in CutOf[l.val] \cup {l.val}}
                   \cup (IF l.ttl = NoTtl THEN {}
                         ELSE {SetLine(l.key, l.val, t) : t \in CutOf[l.ttl]})
    <3>1. Fragments(l) = {l} \cup J \cup X
      BY <2>1 DEF Fragments, SetLines
    <3>2. X \subseteq SetLines
      BY <2>1, DataAssumption DEF SetLines, SetLine
    <3>3. SetLines \subseteq Lines
      BY DEF Lines, VectorLines
    <3> HIDE DEF X, J
    <3>4. QED BY <2>0, <3>1, <3>2, <3>3
  <2>2. CASE l \in DelLines
    <3> DEFINE X == {DelLine(k) : k \in CutOf[l.key]}
    <3>1. Fragments(l) = {l} \cup J \cup X
      BY <2>2 DEF Fragments, DelLines
    <3>2. X \subseteq DelLines
      BY <2>2, DataAssumption DEF DelLines, DelLine
    <3>3. DelLines \subseteq Lines
      BY DEF Lines, VectorLines
    <3> HIDE DEF X, J
    <3>4. QED BY <2>0, <3>1, <3>2, <3>3
  <2>3. CASE l \in VsetLines
    <3> DEFINE X == {[l EXCEPT !.vec = v] : v \in CutOf[l.vec]}
    <3>1. Fragments(l) = {l} \cup J \cup X
      BY <2>3 DEF Fragments, VsetLines
    <3>2. X \subseteq VsetLines
      BY <2>3, DataAssumption DEF VsetLines
    <3>3. VsetLines \subseteq Lines
      BY DEF Lines, VectorLines
    <3> HIDE DEF X, J
    <3>4. QED BY <2>0, <3>1, <3>2, <3>3
  <2>4. CASE l \in VdelLines
    <3> DEFINE X == {VdelLine(i) : i \in CutOf[l.id]}
    <3>1. Fragments(l) = {l} \cup J \cup X
      BY <2>4 DEF Fragments, VdelLines
    <3>2. X \subseteq VdelLines
      BY <2>4, DataAssumption DEF VdelLines, VdelLine
    <3>3. VdelLines \subseteq Lines
      BY DEF Lines, VectorLines
    <3> HIDE DEF X, J
    <3>4. QED BY <2>0, <3>1, <3>2, <3>3
  <2>5. CASE l \in PrefixLines
    <3> DEFINE X == {VdelPrefixLine(p) : p \in CutOf[l.prefix]}
    <3>1. Fragments(l) = {l} \cup J \cup X
      BY <2>5 DEF Fragments, PrefixLines
    <3>2. X \subseteq PrefixLines
      BY <2>5, DataAssumption DEF PrefixLines, VdelPrefixLine
    <3>3. PrefixLines \subseteq Lines
      BY DEF Lines, VectorLines
    <3> HIDE DEF X, J
    <3>4. QED BY <2>0, <3>1, <3>2, <3>3
  <2>6. CASE l \in {VclearLine} \cup TornLines
    <3>1. l.op \in {"VCLEAR", "FATAL", "JUNK"}
      BY <2>6 DEF TornLines, VclearLine, FatalLine
    <3>2. Fragments(l) = {l} \cup J
      BY <3>1 DEF Fragments
    <3>3. QED BY <2>0, <3>2
  <2>7. QED BY <2>1, <2>2, <2>3, <2>4, <2>5, <2>6 DEF Lines, VectorLines
<1>2. Fused(l) \subseteq Lines
  <2>1. FatalLine \in Lines /\ JunkLine(FALSE) \in Lines
    BY JunkIsLine DEF Lines, TornLines
  <2>2. QED BY <2>1 DEF Fused
<1>3. QED BY <1>1, <1>2

(* append_line leaves a well-formed file, whatever goes wrong.             *)
LEMMA AppendLineOK ==
  ASSUME NEW f, FileOK(f), NEW l \in Lines, NEW g \in AppendLine(f, l)
  PROVE  FileOK(g)
<1> DEFINE n    == Len(f.tail)
           head == [Cut(f, n - 1) EXCEPT !.synced = IF @ < n THEN @ ELSE n - 1]
<1>1. CASE f.open /\ \E x \in Fused(f.tail[n].line) : g = AddLine(head, x)
  <2>1. n \in 1 .. n /\ n - 1 \in 0 .. n /\ f.tail[n] \in Entry
    BY <1>1 DEF FileOK, File
  <2>2. PICK x \in Fused(f.tail[n].line) : g = AddLine(head, x)
    BY <1>1
  <2>3. x \in Lines
    BY <2>1, <2>2, FragmentsType DEF Entry
  <2>4. /\ Cut(f, n - 1) \in File
        /\ Len(Cut(f, n - 1).tail) = n - 1
        /\ Cut(f, n - 1).open = FALSE
        /\ Cut(f, n - 1).synced = f.synced
    <3>1. Cut(f, n - 1).open => n - 1 = n
      BY <2>1, CutOK
    <3>2. Cut(f, n - 1) \in File
      BY <2>1, CutOK
    <3>3. Cut(f, n - 1).open \in BOOLEAN
      BY <3>2 DEF File
    <3>4. QED BY <2>1, <3>1, <3>2, <3>3, CutOK
  <2>5. /\ head \in File
        /\ head.tail = Cut(f, n - 1).tail
        /\ head.open = FALSE
        /\ head.synced <= n - 1
    BY <2>1, <2>4 DEF File, FileOK
  <2> HIDE DEF head
  <2>6. QED BY <2>2, <2>3, <2>4, <2>5, AddLineOK
<1>2. CASE ~f.open /\ g = AddLine(f, l)
  BY <1>2, AddLineOK DEF FileOK, File
<1>3. CASE g = f
  BY <1>3
<1>4. CASE ~f.open /\ \E x \in Fragments(l) : g = AddOpenLine(f, x)
  BY <1>4, AddLineOK, FragmentsType DEF FileOK
<1>5. QED BY <1>1, <1>2, <1>3, <1>4 DEF AppendLine

(* So does a power cut.                                                    *)
LEMMA SurvivorOK ==
  ASSUME NEW f, FileOK(f), NEW g \in SurvivorsOf(f)
  PROVE  FileOK(g)
<1> DEFINE kept(n) == [Cut(f, n) EXCEPT !.synced = n]
           lengths == f.synced .. Len(f.tail)
<1>0. f.synced \in Nat /\ Len(f.tail) \in Nat /\ f.tail \in Seq(Entry)
  BY DEF FileOK, File
<1>1. ASSUME NEW n \in lengths
      PROVE  /\ FileOK(kept(n)) /\ Len(kept(n).tail) = n /\ kept(n).synced = n
             /\ n < Len(f.tail) => kept(n).open = FALSE
  <2>1. n \in 0 .. Len(f.tail) /\ n \in Nat
    BY <1>0
  <2>2. /\ Cut(f, n) \in File
        /\ Len(Cut(f, n).tail) = n
        /\ Cut(f, n).open => n = Len(f.tail) /\ n # 0
    BY <2>1, CutOK
  <2>3. /\ kept(n) \in File
        /\ kept(n).tail = Cut(f, n).tail
        /\ kept(n).open = Cut(f, n).open
        /\ kept(n).synced = n
    BY <2>1, <2>2 DEF File
  <2>4. Cut(f, n).open \in BOOLEAN
    BY <2>2 DEF File
  <2> HIDE DEF kept
  <2>5. kept(n).open => kept(n).tail # <<>>
    BY <2>2, <2>3
  <2>6. QED BY <1>0, <2>1, <2>2, <2>3, <2>4, <2>5 DEF FileOK
<1>2. CASE \E n \in lengths : g = kept(n)
  BY <1>1, <1>2
<1>3. CASE \E n \in lengths : /\ n < Len(f.tail)
                              /\ \E x \in Fragments(f.tail[n + 1].line) :
                                   g = [AddOpenLine(kept(n), x) EXCEPT !.synced = n + 1]
  <2>1. PICK n \in lengths :
          /\ n < Len(f.tail)
          /\ \E x \in Fragments(f.tail[n + 1].line) :
               g = [AddOpenLine(kept(n), x) EXCEPT !.synced = n + 1]
    BY <1>3
  <2>2. PICK x \in Fragments(f.tail[n + 1].line) :
          g = [AddOpenLine(kept(n), x) EXCEPT !.synced = n + 1]
    BY <2>1
  <2>3. f.tail[n + 1] \in Entry /\ n \in Nat
    BY <1>0, <2>1
  <2>4. x \in Lines
    BY <2>2, <2>3, FragmentsType DEF Entry
  <2>5. /\ FileOK(kept(n)) /\ kept(n) \in File /\ Len(kept(n).tail) = n
        /\ kept(n).synced = n
    BY <1>1, <2>1 DEF FileOK
  <2> DEFINE a == AddOpenLine(kept(n), x)
  <2>6. /\ a \in File
        /\ Len(a.tail) = n + 1
        /\ a.tail # <<>>
    <3> DEFINE b == kept(n)
               e == [line |-> x, img |-> ReplayLine(ImageOf(b), x)]
    <3>1. b \in File /\ Len(b.tail) = n /\ b.synced <= Len(b.tail)
      BY <2>3, <2>5
    <3> HIDE DEF b
    <3>2. FileOK(AddOpenLine(b, x))
      BY <2>4, <3>1, AddLineOK
    <3>3. e \in Entry
      BY <2>4, <3>1, ImageOfType, ReplayLineType DEF Entry
    <3>4. AddOpenLine(b, x).tail = Append(b.tail, e)
      BY <3>1 DEF AddOpenLine, AddLine, File
    <3>5. Len(Append(b.tail, e)) = n + 1 /\ Append(b.tail, e) # <<>>
      BY <3>1, <3>3 DEF File
    <3>6. QED BY <3>2, <3>4, <3>5 DEF FileOK, b
  <2> HIDE DEF a, kept
  <2>7. g = [a EXCEPT !.synced = n + 1]
    BY <2>2 DEF a
  <2>8. g \in File /\ g.tail = a.tail /\ g.synced = n + 1
    BY <2>3, <2>6, <2>7 DEF File
  <2>9. QED BY <2>3, <2>6, <2>8 DEF FileOK
<1>4. QED
  <2> HIDE DEF lengths, kept
  <2>1. SurvivorsOf(f) = {kept(n) : n \in lengths}
          \cup (IF "tear" \in Faults
                THEN UNION {{[AddOpenLine(kept(n), x) EXCEPT !.synced = n + 1] :
                               x \in Fragments(f.tail[n + 1].line)} :
                              n \in {m \in lengths : m < Len(f.tail)}}
                ELSE {})
    BY DEF SurvivorsOf, lengths, kept
  <2>2. QED BY <1>2, <1>3, <2>1

-----------------------------------------------------------------------------
(* Types of the string map.                                                *)
KvMap == [Keys -> KvEntry \cup {Absent}]

LEMMA PurgedType ==
  ASSUME NEW kv \in KvMap
  PROVE  Purged(kv) \in KvMap
BY DEF Purged, KvMap

LEMMA SnapshotEntryType ==
  ASSUME now \in Nat, NEW e \in KvEntry \cup {Absent}
  PROVE  SnapshotEntry(e) \in KvEntry \cup {Absent}
<1>1. CASE e = Absent \/ e.exp = NoTtl
  BY <1>1 DEF SnapshotEntry
<1>2. CASE ~(e = Absent \/ e.exp = NoTtl)
  <2>1. e \in KvEntry /\ e.exp \in Int
    BY <1>2 DEF KvEntry
  <2>2. SecondsLeft(e) \in Int
    BY <2>1, StoreAssumption DEF SecondsLeft
  <2>3. [e EXCEPT !.exp = SecondsLeft(e)] \in KvEntry
    BY <2>1, <2>2 DEF KvEntry
  <2>4. QED BY <1>2, <2>3 DEF SnapshotEntry
<1>3. QED BY <1>1, <1>2

LEMMA SnapshotImageType ==
  ASSUME TypeOK
  PROVE  SnapshotImage \in Image
<1>1. /\ mem.kv \in KvMap /\ mem.vecs \in VecMap /\ mem.dims \in Nat
      /\ now \in Nat
  BY DEF TypeOK, Memory, KvMap
<1>2. Purged(mem.kv) \in KvMap
  BY <1>1, PurgedType
<1>3. [k \in Keys |-> SnapshotEntry(Purged(mem.kv)[k])] \in KvMap
  BY <1>1, <1>2, SnapshotEntryType DEF KvMap
<1>4. [i \in Ids |-> IF mem.vecs[i] = NoVec THEN NoVec ELSE Rounded[mem.vecs[i]]] \in VecMap
  BY <1>1, DataAssumption DEF VecMap
<1>5. Cardinality(LiveIds(mem)) \in Nat
  BY LiveCount
<1>6. QED BY <1>1, <1>3, <1>4, <1>5 DEF SnapshotImage, Image, KvMap

(* A rewritten file is well formed.                                        *)
LEMMA RewrittenOK ==
  ASSUME NEW img \in Image
  PROVE  FileOK(Rewritten(img))
BY DEF FileOK, File, Rewritten

LEMMA SyncFileOK ==
  ASSUME NEW f, FileOK(f)
  PROVE  FileOK(SyncFile(f))
<1>1. Len(f.tail) \in Nat
  BY DEF FileOK, File
<1>2. QED BY <1>1 DEF FileOK, File, SyncFile

(* The lines a command writes are log lines.                               *)
LEMMA CommandLines ==
  /\ \A k \in Keys, s \in Vals, t \in Ttls \cup {NoTtl} : SetLine(k, s, t) \in SetLines
  /\ \A k \in Keys : DelLine(k) \in DelLines
  /\ \A i \in Ids, v \in Vecs : VsetLine(i, v) \in VsetLines
  /\ \A i \in Ids : VdelLine(i) \in VdelLines
  /\ \A p \in IdPrefixes : VdelPrefixLine(p) \in PrefixLines
  /\ VclearLine \in VectorLines
BY DataAssumption DEF SetLine, SetLines, DelLine, DelLines, VsetLine, VsetLines, VdelLine,
   VdelLines, VdelPrefixLine, PrefixLines, VectorLines

-----------------------------------------------------------------------------
(* The type invariant, strengthened: the line a client carries fits the    *)
(* step it is at, and every log file is well formed.                       *)
AppendedLines == VsetLines \cup VdelLines \cup PrefixLines

ArgOK ==
  \A c \in Clients :
    /\ pc[c] = "set" => arg[c] \in SetLines
    /\ pc[c] = "del" => arg[c] \in DelLines
    /\ pc[c] = "append" => arg[c] \in AppendedLines
    /\ pc[c] = "compact" => arg[c] \in VectorLines \cup {NoLine}

FilesOK == FileOK(file) /\ \A f \in priors : FileOK(f)

TypeInv == TypeOK /\ ArgOK /\ FilesOK

LEMMA TypeInit == Init => TypeInv
<1> SUFFICES ASSUME Init PROVE TypeInv
  OBVIOUS
<1>1. EmptyMemory \in Memory /\ EmptyImage \in Image
  BY DEF EmptyMemory, Memory, EmptyImage, Image, VecMap, NoVecs
<1>2. FileOK(EmptyFile)
  BY <1>1 DEF FileOK, File, EmptyFile
<1>3. TypeOK
  BY <1>1, <1>2, StoreAssumption DEF Init, TypeOK, Steps, FileOK
<1>4. ArgOK /\ FilesOK
  BY <1>2 DEF Init, ArgOK, FilesOK
<1>5. QED BY <1>3, <1>4 DEF TypeInv

(* Going on to a step with a line that fits it, or replying, keeps what    *)
(* is known of the clients.                                                *)
StepLines(step) ==
  CASE step = "set" -> SetLines
    [] step = "del" -> DelLines
    [] step = "append" -> AppendedLines
    [] step = "compact" -> VectorLines \cup {NoLine}
    [] OTHER -> {NoLine}

LEMMA GotoType ==
  ASSUME TypeInv, NEW c \in Clients, NEW step \in Steps, NEW line \in StepLines(step),
         Goto(c, step, line)
  PROVE  pc' \in [Clients -> Steps] /\ arg' \in [Clients -> Lines \cup {NoLine}] /\ ArgOK'
<1>1. line \in Lines \cup {NoLine}
  BY DEF StepLines, AppendedLines, Lines, VectorLines
<1>2. pc' \in [Clients -> Steps] /\ arg' \in [Clients -> Lines \cup {NoLine}]
  BY <1>1 DEF Goto, TypeInv, TypeOK
<1>3. ASSUME NEW d \in Clients
      PROVE  /\ pc'[d] = "set" => arg'[d] \in SetLines
             /\ pc'[d] = "del" => arg'[d] \in DelLines
             /\ pc'[d] = "append" => arg'[d] \in AppendedLines
             /\ pc'[d] = "compact" => arg'[d] \in VectorLines \cup {NoLine}
  <2>1. CASE d = c
    <3>1. pc'[d] = step /\ arg'[d] = line
      BY <2>1 DEF Goto, TypeInv, TypeOK
    <3>2. QED BY <3>1 DEF StepLines
  <2>2. CASE d # c
    <3>1. pc'[d] = pc[d] /\ arg'[d] = arg[d]
      BY <2>2 DEF Goto, TypeInv, TypeOK
    <3>2. QED BY <3>1 DEF TypeInv, ArgOK
  <2>3. QED BY <2>1, <2>2
<1>4. QED BY <1>2, <1>3 DEF ArgOK

LEMMA ReplyType ==
  ASSUME TypeInv, NEW c \in Clients, Reply(c)
  PROVE  /\ pc' \in [Clients -> Steps] /\ arg' \in [Clients -> Lines \cup {NoLine}] /\ ArgOK'
         /\ lock' \in Clients \cup {Free}
<1>1. "idle" \in Steps /\ NoLine \in StepLines("idle")
  BY DEF Steps, StepLines
<1>2. QED BY <1>1, GotoType DEF Reply

LEMMA ThenLogType ==
  ASSUME TypeInv, NEW c \in Clients, NEW step \in Steps, NEW line \in StepLines(step),
         ThenLog(c, step, line)
  PROVE  /\ pc' \in [Clients -> Steps] /\ arg' \in [Clients -> Lines \cup {NoLine}] /\ ArgOK'
         /\ lock' \in Clients \cup {Free}
<1>1. CASE walOn
  BY <1>1, GotoType DEF ThenLog, Acquire
<1>2. CASE ~walOn
  BY <1>2 DEF ThenLog, TypeInv, TypeOK, ArgOK
<1>3. QED BY <1>1, <1>2

(* Every step of the store keeps the type invariant.                       *)
LEMMA TypeStep ==
  ASSUME TypeInv, [Next]_vars
  PROVE  TypeInv'
<1> USE DEF TypeInv
<1>a. /\ mem \in Memory /\ mem.kv \in KvMap /\ mem.vecs \in VecMap /\ mem.dims \in Nat
      /\ FileOK(file) /\ file \in File /\ now \in Nat /\ walLines \in Nat
  BY DEF TypeOK, Memory, KvMap, FilesOK, FileOK
<1>b. Steps = {"idle", "set", "del", "append", "note", "compact", "dirsync"}
  BY DEF Steps
<1>c. [mem EXCEPT !.kv = Purged(mem.kv)] \in Memory
  BY <1>a, PurgedType DEF Memory, KvMap
<1>1. ASSUME NEW c \in Clients, NEW k \in Keys, NEW s \in Vals, NEW t \in Ttls \cup {NoTtl},
             SetLog(c, k, s, t)
      PROVE  TypeInv'
  <2>1. SetLine(k, s, t) \in SetLines /\ SetLine(k, s, t) \in Lines
    BY CommandLines DEF Lines
  <2>2. FileOK(file')
    BY <1>a, <1>1, <2>1, AppendLineOK DEF SetLog
  <2>3. SetLine(k, s, t) \in StepLines("set")
    BY <2>1 DEF StepLines
  <2>4. pc' \in [Clients -> Steps] /\ arg' \in [Clients -> Lines \cup {NoLine}] /\ ArgOK'
    BY <1>b, <1>1, <2>3, GotoType DEF SetLog
  <2>5. QED BY <1>1, <2>2, <2>4 DEF SetLog, Acquire, TypeOK, FilesOK, FileOK
<1>2. ASSUME NEW c \in Clients, SetMem(c)
      PROVE  TypeInv'
  <2>1. arg[c] \in SetLines
    BY <1>2 DEF SetMem, ArgOK
  <2> DEFINE exp == IF arg[c].ttl = NoTtl THEN NoTtl ELSE now + arg[c].ttl * Second
             e   == [val |-> arg[c].val, exp |-> exp]
  <2>2. exp \in Int \cup {NoTtl}
    <3>1. arg[c].ttl \in Int \cup {NoTtl}
      BY <2>1, DataAssumption DEF SetLines
    <3>2. Second \in Int /\ now \in Int
      BY <1>a, StoreAssumption
    <3>3. QED BY <3>1, <3>2
  <2> HIDE DEF exp
  <2>3. e \in KvEntry /\ arg[c].key \in Keys
    BY <2>1, <2>2 DEF KvEntry, SetLines
  <2>4. mem' = [mem EXCEPT !.kv = [mem.kv EXCEPT ![arg[c].key] = e]]
    BY <1>2 DEF SetMem, exp
  <2> HIDE DEF e
  <2>5. mem' \in Memory
    BY <1>a, <2>3, <2>4 DEF Memory, KvMap
  <2>6. /\ pc' \in [Clients -> Steps] /\ arg' \in [Clients -> Lines \cup {NoLine}] /\ ArgOK'
        /\ lock' \in Clients \cup {Free}
    BY <1>2, ReplyType DEF SetMem
  <2>7. QED BY <1>2, <2>5, <2>6 DEF SetMem, TypeOK, FilesOK
<1>3. ASSUME NEW c \in Clients, NEW k \in Keys, DelLog(c, k)
      PROVE  TypeInv'
  <2>1. DelLine(k) \in DelLines /\ DelLine(k) \in Lines
    BY CommandLines DEF Lines
  <2>2. FileOK(file')
    BY <1>a, <1>3, <2>1, AppendLineOK DEF DelLog
  <2>3. DelLine(k) \in StepLines("del")
    BY <2>1 DEF StepLines
  <2>4. pc' \in [Clients -> Steps] /\ arg' \in [Clients -> Lines \cup {NoLine}] /\ ArgOK'
    BY <1>b, <1>3, <2>3, GotoType DEF DelLog
  <2>5. QED BY <1>3, <2>2, <2>4 DEF DelLog, Acquire, TypeOK, FilesOK, FileOK
<1>4. ASSUME NEW c \in Clients, DelMem(c)
      PROVE  TypeInv'
  <2>1. arg[c] \in DelLines
    BY <1>4 DEF DelMem, ArgOK
  <2>2. mem' \in Memory
    BY <1>a, <1>4, <2>1 DEF DelMem, DelLines, Memory, KvMap
  <2>3. /\ pc' \in [Clients -> Steps] /\ arg' \in [Clients -> Lines \cup {NoLine}] /\ ArgOK'
        /\ lock' \in Clients \cup {Free}
    BY <1>4, ReplyType DEF DelMem
  <2>4. QED BY <1>4, <2>2, <2>3 DEF DelMem, TypeOK, FilesOK
<1>5. ASSUME NEW c \in Clients, NEW i \in Ids, NEW v \in Vecs, Vset(c, i, v)
      PROVE  TypeInv'
  <2>1. CASE DimensionMismatch(mem, v)
    BY <1>5, <2>1 DEF Vset, TypeOK, ArgOK, FilesOK
  <2>2. CASE ~DimensionMismatch(mem, v)
    <3>1. VsetLine(i, v) \in StepLines("append")
      BY CommandLines DEF StepLines, AppendedLines
    <3>2. mem' \in Memory
      BY <1>a, <1>5, <2>2, AddOrUpdateMemoryType DEF Vset
    <3>3. ThenLog(c, "append", VsetLine(i, v))
      BY <1>5, <2>2 DEF Vset
    <3>4. /\ pc' \in [Clients -> Steps] /\ arg' \in [Clients -> Lines \cup {NoLine}] /\ ArgOK'
          /\ lock' \in Clients \cup {Free}
      BY <1>b, <3>1, <3>3, ThenLogType
    <3>5. QED BY <1>5, <3>2, <3>4 DEF Vset, TypeOK, FilesOK
  <2>3. QED BY <2>1, <2>2
<1>6. ASSUME NEW c \in Clients, NEW i \in Ids, Vdel(c, i)
      PROVE  TypeInv'
  <2>1. VdelLine(i) \in StepLines("append") /\ VdelLine(i) \in StepLines("compact")
    BY CommandLines DEF StepLines, AppendedLines, VectorLines
  <2>2. mem' \in Memory
    BY <1>a, <1>6, RemoveIdsMemoryType DEF Vdel
  <2>3. \/ ThenLog(c, "append", VdelLine(i))
        \/ ThenLog(c, "compact", VdelLine(i))
    BY <1>6 DEF Vdel
  <2>4. /\ pc' \in [Clients -> Steps] /\ arg' \in [Clients -> Lines \cup {NoLine}] /\ ArgOK'
        /\ lock' \in Clients \cup {Free}
    BY <1>b, <2>1, <2>3, ThenLogType
  <2>5. QED BY <1>6, <2>2, <2>4 DEF Vdel, TypeOK, FilesOK
<1>7. ASSUME NEW c \in Clients, NEW p \in IdPrefixes, VdelPrefix(c, p)
      PROVE  TypeInv'
  <2>1. VdelPrefixLine(p) \in StepLines("append") /\ VdelPrefixLine(p) \in StepLines("compact")
    BY CommandLines DEF StepLines, AppendedLines, VectorLines
  <2>2. mem' \in Memory
    BY <1>a, <1>7, RemoveIdsMemoryType, DataAssumption DEF VdelPrefix
  <2>3. \/ ThenLog(c, "append", VdelPrefixLine(p))
        \/ ThenLog(c, "compact", VdelPrefixLine(p))
    BY <1>7 DEF VdelPrefix
  <2>4. /\ pc' \in [Clients -> Steps] /\ arg' \in [Clients -> Lines \cup {NoLine}] /\ ArgOK'
        /\ lock' \in Clients \cup {Free}
    BY <1>b, <2>1, <2>3, ThenLogType
  <2>5. QED BY <1>7, <2>2, <2>4 DEF VdelPrefix, TypeOK, FilesOK
<1>8. ASSUME NEW c \in Clients, Vclear(c)
      PROVE  TypeInv'
  <2>1. VclearLine \in StepLines("compact")
    BY CommandLines DEF StepLines
  <2>2. mem' \in Memory
    BY <1>a, <1>8, ClearMemoryType DEF Vclear
  <2>3. /\ pc' \in [Clients -> Steps] /\ arg' \in [Clients -> Lines \cup {NoLine}] /\ ArgOK'
        /\ lock' \in Clients \cup {Free}
    BY <1>b, <1>8, <2>1, ThenLogType DEF Vclear
  <2>4. QED BY <1>8, <2>2, <2>3 DEF Vclear, TypeOK, FilesOK
<1>9. ASSUME NEW c \in Clients, AppendVectorLine(c)
      PROVE  TypeInv'
  <2>1. arg[c] \in Lines
    BY <1>9 DEF AppendVectorLine, ArgOK, AppendedLines, Lines, VectorLines
  <2>2. FileOK(file')
    BY <1>a, <1>9, <2>1, AppendLineOK DEF AppendVectorLine
  <2>3. NoLine \in StepLines("note")
    BY DEF StepLines
  <2>4. /\ pc' \in [Clients -> Steps] /\ arg' \in [Clients -> Lines \cup {NoLine}] /\ ArgOK'
        /\ lock' \in Clients \cup {Free}
    BY <1>b, <1>9, <2>3, GotoType, ReplyType DEF AppendVectorLine, TypeOK
  <2>5. QED BY <1>9, <2>2, <2>4 DEF AppendVectorLine, TypeOK, FilesOK, FileOK
<1>10. ASSUME NEW c \in Clients, Note(c)
       PROVE  TypeInv'
  <2>1. NoLine \in StepLines("compact")
    BY DEF StepLines
  <2>2. /\ pc' \in [Clients -> Steps] /\ arg' \in [Clients -> Lines \cup {NoLine}] /\ ArgOK'
        /\ lock' \in Clients \cup {Free}
    BY <1>b, <1>10, <2>1, GotoType, ReplyType DEF Note, TypeOK
  <2>3. walLines' \in Nat
    BY <1>a, <1>10 DEF Note
  <2>4. QED BY <1>10, <2>2, <2>3 DEF Note, TypeOK, FilesOK
<1>11. ASSUME NEW c \in Clients, CompactRename(c)
       PROVE  TypeInv'
  <2>1. FileOK(file')
    BY <1>11, SnapshotImageType, RewrittenOK DEF CompactRename
  <2>2. NoLine \in StepLines("dirsync")
    BY DEF StepLines
  <2>3. pc' \in [Clients -> Steps] /\ arg' \in [Clients -> Lines \cup {NoLine}] /\ ArgOK'
    BY <1>b, <1>11, <2>2, GotoType DEF CompactRename
  <2>4. mem' \in Memory
    BY <1>c, <1>11 DEF CompactRename
  <2>5. \A f \in priors' : FileOK(f)
    BY <1>11 DEF CompactRename, FilesOK
  <2>6. QED BY <1>11, <2>1, <2>3, <2>4, <2>5 DEF CompactRename, TypeOK, FilesOK, FileOK
<1>12. ASSUME NEW c \in Clients, CompactFail(c)
       PROVE  TypeInv'
  <2>1. arg[c] = NoLine \/ arg[c] \in Lines
    BY <1>12 DEF CompactFail, ArgOK, Lines
  <2>2. FileOK(file')
    BY <1>a, <1>12, <2>1, AppendLineOK DEF CompactFail
  <2>3. /\ pc' \in [Clients -> Steps] /\ arg' \in [Clients -> Lines \cup {NoLine}] /\ ArgOK'
        /\ lock' \in Clients \cup {Free}
    BY <1>12, ReplyType DEF CompactFail
  <2>4. mem' \in Memory
    BY <1>c, <1>12 DEF CompactFail
  <2>5. QED BY <1>12, <2>2, <2>3, <2>4 DEF CompactFail, TypeOK, FilesOK, FileOK
<1>13. ASSUME NEW c \in Clients, DirSync(c)
       PROVE  TypeInv'
  <2>1. priors' \subseteq priors
    BY <1>13 DEF DirSync
  <2>2. walLines' \in Nat
    BY <1>13, LiveCount DEF DirSync
  <2>3. /\ pc' \in [Clients -> Steps] /\ arg' \in [Clients -> Lines \cup {NoLine}] /\ ArgOK'
        /\ lock' \in Clients \cup {Free}
    BY <1>13, ReplyType DEF DirSync
  <2>4. QED BY <1>13, <2>1, <2>2, <2>3 DEF DirSync, TypeOK, FilesOK
<1>14. CASE TtlCleanup
  BY <1>c, <1>14 DEF TtlCleanup, TypeOK, ArgOK, FilesOK
<1>15. CASE FsyncWal
  <2>1. FileOK(file')
    BY <1>a, <1>15, SyncFileOK DEF FsyncWal
  <2>2. QED BY <1>15, <2>1 DEF FsyncWal, TypeOK, ArgOK, FilesOK, FileOK
<1>16. CASE Tick
  BY <1>a, <1>16 DEF Tick, TypeOK, ArgOK, FilesOK
<1>d. ASSUME Down
      PROVE  /\ up' \in BOOLEAN /\ walOn' \in BOOLEAN /\ mem' \in Memory /\ walLines' \in Nat
             /\ lock' \in Clients \cup {Free} /\ pc' \in [Clients -> Steps]
             /\ arg' \in [Clients -> Lines \cup {NoLine}] /\ now' \in Nat /\ crashes' \in Nat
             /\ ArgOK'
  <2>1. EmptyMemory \in Memory
    BY DEF EmptyMemory, Memory, VecMap, NoVecs
  <2>2. ArgOK'
    BY <1>d DEF Down, ArgOK
  <2>3. crashes' \in Nat
    BY <1>d DEF Down, TypeOK
  <2>4. pc' \in [Clients -> Steps] /\ arg' \in [Clients -> Lines \cup {NoLine}]
    BY <1>b, <1>d DEF Down
  <2>5. up' \in BOOLEAN /\ walOn' \in BOOLEAN /\ lock' \in Clients \cup {Free}
    BY <1>d DEF Down, TypeOK
  <2>6. QED BY <1>a, <1>d, <2>1, <2>2, <2>3, <2>4, <2>5 DEF Down
<1>17. CASE ProcessCrash
  <2>1. CASE file' = file
    BY <1>d, <1>17, <2>1 DEF ProcessCrash, TypeOK, FilesOK
  <2>2. ASSUME NEW c \in Clients, pc[c] = "append", file' = AddOpenLine(file, arg[c])
        PROVE  TypeInv'
    <3>1. arg[c] \in Lines
      BY <2>2 DEF ArgOK, AppendedLines, Lines, VectorLines
    <3>2. FileOK(file')
      BY <1>a, <2>2, <3>1, AddLineOK DEF FileOK
    <3>3. QED BY <1>d, <1>17, <3>2 DEF ProcessCrash, TypeOK, FilesOK, FileOK
  <2>3. QED BY <1>17, <2>1, <2>2 DEF ProcessCrash
<1>18. CASE HostCrash
  <2>1. FileOK(file')
    BY <1>18, SurvivorOK DEF HostCrash, FilesOK
  <2>2. QED BY <1>d, <1>18, <2>1 DEF HostCrash, TypeOK, FilesOK, FileOK
<1>19. CASE Restart
  <2> DEFINE started(e) == IF e = Absent \/ e.exp = NoTtl THEN e
                           ELSE [e EXCEPT !.exp = now + e.exp * Second]
             img == ImageOf(file)
  <2>1. img \in Image
    BY <1>a, ImageOfType
  <2> HIDE DEF img
  <2>2. img.kv \in KvMap /\ img.vecs \in VecMap /\ img.dims \in Nat /\ img.count \in Nat
    BY <2>1 DEF Image, KvMap
  <2>3. ASSUME NEW e \in KvEntry \cup {Absent}
        PROVE  started(e) \in KvEntry \cup {Absent}
    <3>1. CASE e = Absent \/ e.exp = NoTtl
      BY <3>1
    <3>2. CASE ~(e = Absent \/ e.exp = NoTtl)
      <4>1. e \in KvEntry /\ e.exp \in Int
        BY <3>2 DEF KvEntry
      <4>2. now + e.exp * Second \in Int
        BY <1>a, <4>1, StoreAssumption
      <4>3. [e EXCEPT !.exp = now + e.exp * Second] \in KvEntry
        BY <4>1, <4>2 DEF KvEntry
      <4>4. QED BY <3>2, <4>3
    <3>3. QED BY <3>1, <3>2
  <2>4. /\ mem' = [kv |-> [k \in Keys |-> started(img.kv[k])],
                   vecs |-> img.vecs, dims |-> img.dims]
        /\ walLines' = img.count
    BY <1>19 DEF Restart, img
  <2>5. [k \in Keys |-> started(img.kv[k])] \in KvMap
    BY <2>2, <2>3 DEF KvMap
  <2>6. mem' \in Memory /\ walLines' \in Nat
    BY <2>2, <2>4, <2>5 DEF Memory, KvMap
  <2>7. walOn' \in BOOLEAN
    BY <1>19, StoreAssumption DEF Restart
  <2>8. QED BY <1>19, <2>6, <2>7 DEF Restart, TypeOK, ArgOK, FilesOK
<1>20. CASE UNCHANGED vars
  BY <1>20 DEF vars, TypeOK, ArgOK, FilesOK
<1>21. QED
  BY <1>1, <1>2, <1>3, <1>4, <1>5, <1>6, <1>7, <1>8, <1>9, <1>10, <1>11, <1>12, <1>13,
     <1>14, <1>15, <1>16, <1>17, <1>18, <1>19, <1>20 DEF Next, Command, ClientStep

(* The state of the store is well typed, whatever fails: in particular     *)
(* replay always counts a natural number of lines, every log file the      *)
(* disk can hold is a sequence of lines with at most its last one open,    *)
(* and no command acts on a log line of another kind.                      *)
THEOREM TypeCorrect == Spec => []TypeOK
<1>1. TypeInv /\ [Next]_vars => TypeInv'
  BY TypeStep
<1>2. TypeInv => TypeOK
  BY DEF TypeInv
<1>3. QED BY TypeInit, <1>1, <1>2, PTL DEF Spec

-----------------------------------------------------------------------------
(* Why the log is the memory.                                              *)
(*                                                                         *)
(* LogIsMemory says nothing while a command is under way, so it is not     *)
(* inductive.  LogInv says what holds then: one command at most is under   *)
(* way, by the holder of the lock; a vector command that has changed       *)
(* memory still carries the line that brings the log to the same vectors;  *)
(* a string command has its entry in the log before memory has it.         *)

(* What replay reaches at any point of the log is the text of an index.    *)
GoodImage(img) ==
  /\ img \in Image
  /\ img.ok
  /\ OneDimension(img)
  /\ AsText(img.vecs) = img.vecs

GoodFile(f) ==
  /\ FileOK(f)
  /\ ~f.open
  /\ \A n \in 0 .. Len(f.tail) : GoodImage(ImageAt(f, n))

LockInv == \A c \in Clients : pc[c] # "idle" => lock = c /\ up

(* A client whose vector change is not in the log yet, and one whose       *)
(* string change is not in memory yet.                                     *)
Unlogged(c) == pc[c] = "append" \/ (pc[c] = "compact" /\ arg[c] # NoLine)
Unapplied(c, k) == pc[c] \in {"set", "del"} /\ arg[c].key = k

VecsFollow ==
  /\ \A c \in Clients : Unlogged(c) => VecsAgree(ReplayLine(ImageOf(file), arg[c]))
  /\ (\A c \in Clients : ~Unlogged(c)) => VecsAgree(ImageOf(file))

(* The log entry a SET or DEL line leaves.                                 *)
LoggedEntry(l) == IF l.op = "SET" THEN [val |-> l.val, exp |-> l.ttl] ELSE Absent

StringsFollow ==
  \A k \in Keys :
    /\ \A c \in Clients : Unapplied(c, k) => ImageOf(file).kv[k] = LoggedEntry(arg[c])
    /\ (\A c \in Clients : ~Unapplied(c, k)) => KvAgrees(k, ImageOf(file).kv[k])

LogInv ==
  /\ TypeInv
  /\ walOn = TRUE
  /\ GoodFile(file) /\ \A f \in priors : GoodFile(f)
  /\ LockInv
  /\ OneDimension(mem)
  /\ up => VecsFollow /\ StringsFollow

-----------------------------------------------------------------------------
(* What the index operations do to the fields of an index, and that they   *)
(* keep it at one dimension.                                               *)
LEMMA AddFields ==
  ASSUME NEW x \in Memory \cup Image, NEW i \in Ids, NEW v \in Vecs, ~DimensionMismatch(x, v)
  PROVE  /\ AddOrUpdate(x, i, v).vecs = [x.vecs EXCEPT ![i] = v]
         /\ AddOrUpdate(x, i, v).dims = IF x.vecs[i] = NoVec THEN DimOf[v] ELSE x.dims
BY DEF AddOrUpdate, Memory, Image

LEMMA AddOneDimension ==
  ASSUME NEW x \in Memory \cup Image, NEW i \in Ids, NEW v \in Vecs, OneDimension(x)
  PROVE  OneDimension(AddOrUpdate(x, i, v))
<1>1. CASE DimensionMismatch(x, v)
  BY <1>1 DEF AddOrUpdate
<1>2. CASE ~DimensionMismatch(x, v)
  <2> DEFINE y == AddOrUpdate(x, i, v)
  <2>1. /\ y.vecs = [x.vecs EXCEPT ![i] = v]
        /\ y.dims = IF x.vecs[i] = NoVec THEN DimOf[v] ELSE x.dims
    BY <1>2, AddFields
  <2>2. x.vecs \in [Ids -> Vecs \cup {NoVec}] /\ v # NoVec /\ DimOf[v] # 0
    BY DataAssumption DEF Memory, Image, VecMap
  <2> HIDE DEF y
  <2>3. LiveIds(y) = LiveIds(x) \cup {i}
    BY <2>1, <2>2 DEF LiveIds
  <2>4. y.dims = DimOf[v]
    BY <1>2, <2>1, <2>2 DEF OneDimension, LiveIds, DimensionMismatch
  <2>5. \A j \in LiveIds(x) : DimOf[x.vecs[j]] = y.dims
    BY <1>2, <2>2, <2>4 DEF OneDimension, DimensionMismatch
  <2>6. \A j \in LiveIds(y) : DimOf[y.vecs[j]] = y.dims
    BY <2>1, <2>2, <2>3, <2>4, <2>5 DEF LiveIds
  <2>7. QED BY <2>2, <2>3, <2>4, <2>6 DEF OneDimension, y
<1>3. QED BY <1>1, <1>2

Left(x, S) == [j \in Ids |-> IF j \in S THEN NoVec ELSE x.vecs[j]]

LEMMA RemoveFields ==
  ASSUME NEW x \in Memory \cup Image, NEW S \in SUBSET Ids, OneDimension(x)
  PROVE  /\ RemoveIds(x, S).vecs = Left(x, S)
         /\ RemoveIds(x, S).dims = IF Left(x, S) = NoVecs THEN 0 ELSE x.dims
<1>1. x.vecs \in [Ids -> Vecs \cup {NoVec}]
  BY DEF Memory, Image, VecMap
<1>2. CASE S \cap LiveIds(x) = {}
  <2>1. Left(x, S) = x.vecs
    BY <1>1, <1>2 DEF LiveIds, Left
  <2>2. x.vecs = NoVecs => x.dims = 0
    BY DEF OneDimension, LiveIds, NoVecs
  <2>3. RemoveIds(x, S) = x
    BY <1>2 DEF RemoveIds
  <2>4. QED BY <2>1, <2>2, <2>3
<1>3. CASE S \cap LiveIds(x) # {}
  BY <1>3 DEF RemoveIds, Memory, Image, Left
<1>4. QED BY <1>2, <1>3

LEMMA RemoveOneDimension ==
  ASSUME NEW x \in Memory \cup Image, NEW S \in SUBSET Ids, OneDimension(x)
  PROVE  OneDimension(RemoveIds(x, S))
<1> DEFINE y == RemoveIds(x, S)
<1>1. y.vecs = Left(x, S) /\ y.dims = IF Left(x, S) = NoVecs THEN 0 ELSE x.dims
  BY RemoveFields
<1> HIDE DEF y
<1>2. LiveIds(y) = LiveIds(x) \ S
  BY <1>1 DEF LiveIds, Left
<1>3. \A j \in LiveIds(y) : y.vecs[j] = x.vecs[j]
  BY <1>1 DEF LiveIds, Left
<1>4. Left(x, S) = NoVecs <=> LiveIds(y) = {}
  BY <1>1 DEF LiveIds, Left, NoVecs
<1>5. CASE LiveIds(y) = {}
  BY <1>1, <1>4, <1>5 DEF OneDimension, y
<1>6. CASE LiveIds(y) # {}
  <2>1. y.dims = x.dims /\ LiveIds(x) # {}
    BY <1>1, <1>2, <1>4, <1>6
  <2>2. QED BY <1>2, <1>3, <1>6, <2>1 DEF OneDimension, y
<1>7. QED BY <1>5, <1>6

LEMMA ClearFields ==
  ASSUME NEW x \in Memory \cup Image
  PROVE  Clear(x).vecs = NoVecs /\ Clear(x).dims = 0 /\ OneDimension(Clear(x))
<1>1. Clear(x).vecs = NoVecs /\ Clear(x).dims = 0
  BY DEF Clear, Memory, Image
<1>2. LiveIds(Clear(x)) = {}
  BY <1>1 DEF LiveIds, NoVecs
<1>3. QED BY <1>1, <1>2 DEF OneDimension

-----------------------------------------------------------------------------
(* Replaying a line does to an image what the command did to memory.       *)
LEMMA ReplayStringLine ==
  ASSUME NEW img \in Image, img.ok, NEW l \in SetLines \cup DelLines
  PROVE  /\ ReplayLine(img, l).kv = [img.kv EXCEPT ![l.key] = LoggedEntry(l)]
         /\ ReplayLine(img, l).vecs = img.vecs
         /\ ReplayLine(img, l).dims = img.dims
         /\ ReplayLine(img, l).ok
<1>1. CASE l \in SetLines
  <2>1. l.op = "SET" /\ ~Counted(l)
    BY <1>1 DEF SetLines, Counted
  <2>2. [img EXCEPT !.count = IF Counted(l) THEN @ + 1 ELSE @] = img
    BY <2>1 DEF Image
  <2>3. ReplayLine(img, l) =
          [img EXCEPT !.kv = [img.kv EXCEPT ![l.key] = [val |-> l.val, exp |-> l.ttl]]]
    BY <2>1, <2>2 DEF ReplayLine
  <2>4. QED BY <2>1, <2>3 DEF Image, LoggedEntry
<1>2. CASE l \in DelLines
  <2>1. l.op = "DEL" /\ ~Counted(l)
    BY <1>2 DEF DelLines, Counted
  <2>2. [img EXCEPT !.count = IF Counted(l) THEN @ + 1 ELSE @] = img
    BY <2>1 DEF Image
  <2>3. ReplayLine(img, l) = [img EXCEPT !.kv = [img.kv EXCEPT ![l.key] = Absent]]
    BY <2>1, <2>2 DEF ReplayLine
  <2>4. QED BY <2>1, <2>3 DEF Image, LoggedEntry
<1>3. QED BY <1>1, <1>2

(* What one vector line does to the index of an image: img is replayed to  *)
(* y, an image that differs from img at most in its count and its index.   *)
Recounted(img, l) == [img EXCEPT !.count = IF Counted(l) THEN @ + 1 ELSE @]

LEMMA ReplayVectorLine ==
  ASSUME NEW img \in Image, img.ok, NEW l \in VectorLines
  PROVE  /\ Recounted(img, l) \in Image
         /\ Recounted(img, l).vecs = img.vecs /\ Recounted(img, l).dims = img.dims
         /\ ReplayLine(img, l).kv = img.kv
         /\ ReplayLine(img, l).ok
         /\ l \in VsetLines => ReplayLine(img, l) = AddOrUpdate(Recounted(img, l), l.id, l.vec)
         /\ l \in VdelLines => ReplayLine(img, l) = RemoveIds(Recounted(img, l), {l.id})
         /\ l \in PrefixLines =>
              ReplayLine(img, l) = RemoveIds(Recounted(img, l), IdsWith[l.prefix])
         /\ l = VclearLine => ReplayLine(img, l) = Clear(Recounted(img, l))
<1> DEFINE m == Recounted(img, l)
<1>1. m \in Image /\ m.vecs = img.vecs /\ m.dims = img.dims /\ m.kv = img.kv /\ m.ok
  <2> DEFINE n == IF Counted(l) THEN img.count + 1 ELSE img.count
  <2>1. n \in Nat
    BY DEF Image
  <2>2. m = [img EXCEPT !.count = n]
    BY DEF Recounted, Image
  <2> HIDE DEF n, m
  <2>3. QED BY <2>1, <2>2 DEF Image
<1>2. l \in VsetLines => ReplayLine(img, l) = AddOrUpdate(m, l.id, l.vec)
  BY DEF ReplayLine, Recounted, VsetLines
<1>3. l \in VdelLines => ReplayLine(img, l) = RemoveIds(m, {l.id})
  BY DEF ReplayLine, Recounted, VdelLines
<1>4. l \in PrefixLines => ReplayLine(img, l) = RemoveIds(m, IdsWith[l.prefix])
  BY DEF ReplayLine, Recounted, PrefixLines
<1>5. l = VclearLine => ReplayLine(img, l) = Clear(m)
  BY DEF ReplayLine, Recounted, VclearLine
<1> HIDE DEF m
<1>6. ASSUME NEW i \in Ids, NEW v \in Vecs
      PROVE  AddOrUpdate(m, i, v).kv = m.kv /\ AddOrUpdate(m, i, v).ok
  <2>1. CASE DimensionMismatch(m, v)
    BY <1>1, <2>1 DEF AddOrUpdate
  <2>2. CASE ~DimensionMismatch(m, v)
    <3> DEFINE vs == [m.vecs EXCEPT ![i] = v]
               ds == IF m.vecs[i] = NoVec THEN DimOf[v] ELSE m.dims
    <3>1. AddOrUpdate(m, i, v) = [m EXCEPT !.vecs = vs, !.dims = ds]
      BY <2>2 DEF AddOrUpdate
    <3> HIDE DEF vs, ds
    <3>2. QED BY <1>1, <3>1 DEF Image
  <2>3. QED BY <2>1, <2>2
<1>7. \A S \in SUBSET Ids : RemoveIds(m, S).kv = m.kv /\ RemoveIds(m, S).ok
  BY <1>1 DEF RemoveIds, Image
<1>8. Clear(m).kv = m.kv /\ Clear(m).ok
  BY <1>1 DEF Clear, Image
<1>9. l \in VsetLines => l.id \in Ids /\ l.vec \in Vecs
  BY DEF VsetLines
<1>10. l \in VdelLines => {l.id} \in SUBSET Ids
  BY DEF VdelLines
<1>11. l \in PrefixLines => IdsWith[l.prefix] \in SUBSET Ids
  BY DataAssumption DEF PrefixLines
<1>12. ReplayLine(img, l).kv = img.kv /\ ReplayLine(img, l).ok
  <2>1. CASE l \in VsetLines
    BY <1>1, <1>2, <1>6, <1>9, <2>1
  <2>2. CASE l \in VdelLines
    BY <1>1, <1>3, <1>7, <1>10, <2>2
  <2>3. CASE l \in PrefixLines
    BY <1>1, <1>4, <1>7, <1>11, <2>3
  <2>4. CASE l = VclearLine
    BY <1>1, <1>5, <1>8, <2>4
  <2>5. QED BY <2>1, <2>2, <2>3, <2>4 DEF VectorLines
<1>13. QED BY <1>1, <1>2, <1>3, <1>4, <1>5, <1>12 DEF m

(* An image follows a memory when its index is the text of the memory's.   *)
Follows(img, m) == img.vecs = AsText(m.vecs) /\ img.dims = m.dims

LEMMA AsTextFacts ==
  ASSUME NEW vs \in VecMap
  PROVE  /\ AsText(vs) \in VecMap
         /\ AsText(AsText(vs)) = AsText(vs)
         /\ \A i \in Ids : AsText(vs)[i] = NoVec <=> vs[i] = NoVec
         /\ \A i \in Ids : vs[i] # NoVec => /\ AsText(vs)[i] = Rounded[vs[i]]
                                            /\ DimOf[AsText(vs)[i]] = DimOf[vs[i]]
BY DataAssumption DEF AsText, VecMap

LEMMA FollowsIsGood ==
  ASSUME NEW m \in Memory, OneDimension(m), NEW img \in Image, img.ok, Follows(img, m)
  PROVE  GoodImage(img) /\ LiveIds(img) = LiveIds(m)
<1>1. m.vecs \in VecMap
  BY DEF Memory
<1>2. LiveIds(img) = LiveIds(m)
  BY <1>1, AsTextFacts DEF Follows, LiveIds
<1>3. \A i \in LiveIds(img) : DimOf[img.vecs[i]] = img.dims
  BY <1>1, <1>2, AsTextFacts DEF Follows, LiveIds, OneDimension
<1>4. OneDimension(img)
  BY <1>2, <1>3 DEF OneDimension, Follows
<1>5. AsText(img.vecs) = img.vecs
  BY <1>1, AsTextFacts DEF Follows
<1>6. QED BY <1>2, <1>4, <1>5 DEF GoodImage

LEMMA VsetFollows ==
  ASSUME NEW m \in Memory, OneDimension(m), NEW img \in Image, img.ok, Follows(img, m),
         NEW i \in Ids, NEW v \in Vecs, ~DimensionMismatch(m, v)
  PROVE  Follows(ReplayLine(img, VsetLine(i, v)), AddOrUpdate(m, i, v))
<1> DEFINE l == VsetLine(i, v)
           x == Recounted(img, l)
<1>1. l \in VsetLines /\ l \in VectorLines /\ l.id = i /\ l.vec = Rounded[v]
  BY CommandLines DEF VectorLines, VsetLine
<1> HIDE DEF l
<1>2. /\ x \in Image /\ x.vecs = AsText(m.vecs) /\ x.dims = m.dims
      /\ ReplayLine(img, l) = AddOrUpdate(x, i, Rounded[v])
  BY <1>1, ReplayVectorLine DEF Follows
<1>3. Rounded[v] \in Vecs /\ DimOf[Rounded[v]] = DimOf[v]
  BY DataAssumption
<1>4. ~DimensionMismatch(x, Rounded[v])
  BY <1>2, <1>3 DEF DimensionMismatch
<1> HIDE DEF x
<1> DEFINE y == AddOrUpdate(x, i, Rounded[v])
           n == AddOrUpdate(m, i, v)
<1>5. /\ y.vecs = [x.vecs EXCEPT ![i] = Rounded[v]]
      /\ y.dims = IF x.vecs[i] = NoVec THEN DimOf[Rounded[v]] ELSE x.dims
  BY <1>2, <1>3, <1>4, AddFields
<1>6. /\ n.vecs = [m.vecs EXCEPT ![i] = v]
      /\ n.dims = IF m.vecs[i] = NoVec THEN DimOf[v] ELSE m.dims
  BY AddFields
<1> HIDE DEF y, n
<1>7. m.vecs \in VecMap /\ v # NoVec
  BY DataAssumption DEF Memory
<1>8. y.vecs = AsText(n.vecs)
  BY <1>2, <1>5, <1>6, <1>7 DEF AsText, VecMap
<1>9. y.dims = n.dims
  BY <1>2, <1>3, <1>5, <1>6, <1>7, AsTextFacts
<1>10. QED BY <1>2, <1>8, <1>9 DEF Follows, l, n, y

LEMMA RemoveFollows ==
  ASSUME NEW m \in Memory, OneDimension(m), NEW x \in Image, OneDimension(x), Follows(x, m),
         NEW S \in SUBSET Ids
  PROVE  Follows(RemoveIds(x, S), RemoveIds(m, S))
<1>1. /\ RemoveIds(x, S).vecs = Left(x, S)
      /\ RemoveIds(x, S).dims = IF Left(x, S) = NoVecs THEN 0 ELSE x.dims
  BY RemoveFields
<1>2. /\ RemoveIds(m, S).vecs = Left(m, S)
      /\ RemoveIds(m, S).dims = IF Left(m, S) = NoVecs THEN 0 ELSE m.dims
  BY RemoveFields
<1>3. m.vecs \in VecMap
  BY DEF Memory
<1>4. Left(x, S) = AsText(Left(m, S))
  BY <1>3 DEF Follows, AsText, VecMap, Left
<1>5. Left(m, S) \in VecMap
  BY <1>3 DEF Left, VecMap
<1>6. Left(x, S) = NoVecs <=> Left(m, S) = NoVecs
  <2>1. \A i \in Ids : Left(x, S)[i] = NoVec <=> Left(m, S)[i] = NoVec
    BY <1>4, <1>5, AsTextFacts
  <2>2. Left(x, S) \in VecMap
    BY <1>4, <1>5, AsTextFacts
  <2>3. QED BY <1>5, <2>1, <2>2 DEF VecMap, NoVecs
<1>7. QED BY <1>1, <1>2, <1>4, <1>6 DEF Follows

(* Replaying the line of a removal follows the removal.                    *)
LEMMA RemovalFollows ==
  ASSUME NEW m \in Memory, OneDimension(m), NEW img \in Image, img.ok, Follows(img, m)
  PROVE  /\ \A i \in Ids : Follows(ReplayLine(img, VdelLine(i)), RemoveIds(m, {i}))
         /\ \A p \in IdPrefixes :
              Follows(ReplayLine(img, VdelPrefixLine(p)), RemoveIds(m, IdsWith[p]))
         /\ Follows(ReplayLine(img, VclearLine), Clear(m))
<1>1. ASSUME NEW l \in VectorLines
      PROVE  /\ Recounted(img, l) \in Image /\ OneDimension(Recounted(img, l))
             /\ Follows(Recounted(img, l), m)
  <2>1. /\ Recounted(img, l) \in Image
        /\ Recounted(img, l).vecs = img.vecs /\ Recounted(img, l).dims = img.dims
    BY ReplayVectorLine
  <2>2. OneDimension(img)
    BY FollowsIsGood DEF GoodImage
  <2>3. QED BY <2>1, <2>2 DEF Follows, OneDimension, LiveIds
<1>2. ASSUME NEW i \in Ids
      PROVE  Follows(ReplayLine(img, VdelLine(i)), RemoveIds(m, {i}))
  <2>1. VdelLine(i) \in VdelLines /\ VdelLine(i) \in VectorLines /\ VdelLine(i).id = i
    BY CommandLines DEF VectorLines, VdelLine
  <2>2. ReplayLine(img, VdelLine(i)) = RemoveIds(Recounted(img, VdelLine(i)), {i})
    BY <2>1, ReplayVectorLine
  <2>3. QED BY <1>1, <2>1, <2>2, RemoveFollows
<1>3. ASSUME NEW p \in IdPrefixes
      PROVE  Follows(ReplayLine(img, VdelPrefixLine(p)), RemoveIds(m, IdsWith[p]))
  <2>1. /\ VdelPrefixLine(p) \in PrefixLines /\ VdelPrefixLine(p) \in VectorLines
        /\ VdelPrefixLine(p).prefix = p /\ IdsWith[p] \in SUBSET Ids
    BY CommandLines, DataAssumption DEF VectorLines, VdelPrefixLine
  <2>2. ReplayLine(img, VdelPrefixLine(p)) = RemoveIds(Recounted(img, VdelPrefixLine(p)), IdsWith[p])
    BY <2>1, ReplayVectorLine
  <2>3. QED BY <1>1, <2>1, <2>2, RemoveFollows
<1>4. Follows(ReplayLine(img, VclearLine), Clear(m))
  <2>1. ReplayLine(img, VclearLine) = Clear(Recounted(img, VclearLine))
    BY CommandLines, ReplayVectorLine
  <2>2. Recounted(img, VclearLine) \in Image
    BY <1>1, CommandLines
  <2>3. AsText(NoVecs) = NoVecs
    BY DEF AsText, NoVecs
  <2>4. QED BY <2>1, <2>2, <2>3, ClearFields DEF Follows
<1>5. QED BY <1>2, <1>3, <1>4

-----------------------------------------------------------------------------
(* Good files stay good.                                                   *)
LEMMA AddLineImages ==
  ASSUME NEW f \in File, NEW l \in Lines
  PROVE  /\ Len(AddLine(f, l).tail) = Len(f.tail) + 1
         /\ ImageOf(AddLine(f, l)) = ReplayLine(ImageOf(f), l)
         /\ \A n \in 0 .. Len(f.tail) : ImageAt(AddLine(f, l), n) = ImageAt(f, n)
         /\ AddLine(f, l).open = f.open
         /\ AddLine(f, l).synced = f.synced
<1> DEFINE e == [line |-> l, img |-> ReplayLine(ImageOf(f), l)]
           g == AddLine(f, l)
<1>1. e \in Entry /\ e.img = ReplayLine(ImageOf(f), l)
  BY ImageOfType, ReplayLineType DEF Entry
<1>2. g = [f EXCEPT !.tail = Append(f.tail, e)]
  BY DEF AddLine
<1> HIDE DEF e, g
<1>3. /\ g.tail = Append(f.tail, e) /\ g.base = f.base
      /\ g.open = f.open /\ g.synced = f.synced /\ f.tail \in Seq(Entry)
  BY <1>2 DEF File
<1>4. /\ Len(g.tail) = Len(f.tail) + 1 /\ g.tail[Len(f.tail) + 1] = e
      /\ \A n \in 1 .. Len(f.tail) : g.tail[n] = f.tail[n]
      /\ Len(f.tail) \in Nat
  BY <1>1, <1>3
<1>5. ImageOf(g) = ReplayLine(ImageOf(f), l)
  BY <1>1, <1>4 DEF ImageOf, ImageAt
<1>6. \A n \in 0 .. Len(f.tail) : ImageAt(g, n) = ImageAt(f, n)
  BY <1>3, <1>4 DEF ImageAt
<1>7. QED BY <1>3, <1>4, <1>5, <1>6 DEF g

LEMMA GoodAddLine ==
  ASSUME NEW f, GoodFile(f), NEW l \in Lines, GoodImage(ReplayLine(ImageOf(f), l))
  PROVE  GoodFile(AddLine(f, l)) /\ ImageOf(AddLine(f, l)) = ReplayLine(ImageOf(f), l)
<1> DEFINE g == AddLine(f, l)
<1>1. f \in File /\ f.synced <= Len(f.tail) /\ f.open = FALSE /\ Len(f.tail) \in Nat
  BY DEF GoodFile, FileOK, File
<1>2. FileOK(g)
  BY <1>1, AddLineOK
<1>3. /\ Len(g.tail) = Len(f.tail) + 1
      /\ ImageOf(g) = ReplayLine(ImageOf(f), l)
      /\ \A n \in 0 .. Len(f.tail) : ImageAt(g, n) = ImageAt(f, n)
      /\ g.open = FALSE
  BY <1>1, AddLineImages
<1> HIDE DEF g
<1>4. ASSUME NEW n \in 0 .. Len(g.tail)
      PROVE  GoodImage(ImageAt(g, n))
  <2>1. CASE n \in 0 .. Len(f.tail)
    BY <1>3, <2>1 DEF GoodFile
  <2>2. CASE n = Len(g.tail)
    BY <1>3, <2>2 DEF ImageOf
  <2>3. QED BY <1>1, <1>3, <2>1, <2>2
<1>5. QED BY <1>2, <1>3, <1>4 DEF GoodFile, g

(* With disks that take every append, append_line adds the line.           *)
LEMMA SafeAppend ==
  ASSUME "append" \notin Faults, NEW f, GoodFile(f), NEW l, NEW g \in AppendLine(f, l)
  PROVE  g = AddLine(f, l)
BY DEF AppendLine, GoodFile

LEMMA GoodSyncFile ==
  ASSUME NEW f, GoodFile(f)
  PROVE  GoodFile(SyncFile(f)) /\ ImageOf(SyncFile(f)) = ImageOf(f)
<1> DEFINE g == SyncFile(f)
<1>1. FileOK(g)
  BY SyncFileOK DEF GoodFile
<1>2. g.base = f.base /\ g.tail = f.tail /\ g.open = f.open
  BY DEF SyncFile, GoodFile, FileOK, File
<1> HIDE DEF g
<1>3. \A n : ImageAt(g, n) = ImageAt(f, n)
  BY <1>2 DEF ImageAt
<1>4. QED BY <1>1, <1>2, <1>3 DEF GoodFile, ImageOf, g

LEMMA GoodRewritten ==
  ASSUME NEW img, GoodImage(img)
  PROVE  GoodFile(Rewritten(img)) /\ ImageOf(Rewritten(img)) = img
<1> DEFINE g == Rewritten(img)
<1>1. FileOK(g)
  BY RewrittenOK DEF GoodImage
<1>2. g.base = img /\ g.tail = <<>> /\ g.open = FALSE
  BY DEF Rewritten
<1> HIDE DEF g
<1>3. Len(g.tail) = 0
  BY <1>2
<1>4. ImageAt(g, 0) = img
  BY <1>2 DEF ImageAt
<1>5. QED BY <1>1, <1>2, <1>3, <1>4 DEF GoodFile, ImageOf, g

(* With lines that are written whole or not at all, a power cut keeps the  *)
(* log up to some line after the synced ones.                              *)
LEMMA SafeSurvivor ==
  ASSUME "tear" \notin Faults, NEW f, GoodFile(f), NEW g \in SurvivorsOf(f)
  PROVE  /\ GoodFile(g)
         /\ \E n \in f.synced .. Len(f.tail) : ImageOf(g) = ImageAt(f, n)
<1>0. /\ FileOK(f) /\ f.synced \in Nat /\ Len(f.tail) \in Nat
  BY DEF GoodFile, FileOK, File
<1>1. PICK n \in f.synced .. Len(f.tail) : g = [Cut(f, n) EXCEPT !.synced = n]
  BY DEF SurvivorsOf
<1>2. n \in 0 .. Len(f.tail) /\ n \in Nat
  BY <1>0, <1>1
<1>3. /\ Cut(f, n) \in File
      /\ Len(Cut(f, n).tail) = n
      /\ \A m \in 1 .. n : Cut(f, n).tail[m] = f.tail[m]
      /\ Cut(f, n).base = f.base
  BY <1>0, <1>2, CutOK
<1>4. Cut(f, n).open = FALSE
  BY <1>0 DEF Cut, GoodFile, FileOK, File
<1>5. g.tail = Cut(f, n).tail /\ g.base = f.base /\ g.open = FALSE
  BY <1>1, <1>3, <1>4 DEF File
<1>6. ASSUME NEW m \in 0 .. n
      PROVE  ImageAt(g, m) = ImageAt(f, m)
  BY <1>2, <1>3, <1>5, <1>6 DEF ImageAt
<1>7. FileOK(g)
  BY <1>0, SurvivorOK
<1>8. Len(g.tail) = n
  BY <1>3, <1>5
<1>9. \A m \in 0 .. n : GoodImage(ImageAt(g, m))
  BY <1>0, <1>2, <1>6 DEF GoodFile
<1>10. ImageOf(g) = ImageAt(f, n)
  BY <1>2, <1>6, <1>8 DEF ImageOf
<1>11. QED BY <1>1, <1>5, <1>7, <1>8, <1>9, <1>10 DEF GoodFile

(* A snapshot follows the memory it is taken from, and its strings come    *)
(* back as they are or with at most a second less to live.                 *)
LEMMA SnapshotFollows ==
  ASSUME TypeOK, OneDimension(mem)
  PROVE  Follows(SnapshotImage, mem) /\ GoodImage(SnapshotImage)
<1>1. Follows(SnapshotImage, mem) /\ SnapshotImage.ok
  BY DEF SnapshotImage, Follows, AsText
<1>2. QED BY <1>1, SnapshotImageType, FollowsIsGood DEF TypeOK

LEMMA SecondsCover ==
  ASSUME NEW a \in Int, NEW S \in Nat \ {0}
  PROVE  a < (a \div S + 1) * S
OBVIOUS

-----------------------------------------------------------------------------
(* Purging the expired keys, and time passing, keep what the log says of   *)
(* the strings.                                                            *)
LEMMA PurgeAgrees ==
  ASSUME NEW k \in Keys, NEW e, KvAgrees(k, e), mem'.kv = Purged(mem.kv), now' = now
  PROVE  KvAgrees(k, e)'
<1>1. mem'.kv[k] = IF Expired(mem.kv[k]) THEN Absent ELSE mem.kv[k]
  BY DEF Purged
<1>2. CASE e = Absent \/ e.exp = NoTtl
  <2>1. ~Expired(e)
    BY <1>2 DEF Expired
  <2>2. mem.kv[k] = e
    BY <1>2 DEF KvAgrees
  <2>3. QED BY <1>1, <1>2, <2>1, <2>2 DEF KvAgrees
<1>3. CASE ~(e = Absent \/ e.exp = NoTtl)
  <2>1. CASE mem'.kv[k] = Absent
    BY <1>3, <2>1 DEF KvAgrees
  <2>2. CASE mem'.kv[k] = mem.kv[k]
    BY <1>3, <2>2 DEF KvAgrees
  <2>3. QED BY <1>1, <2>1, <2>2
<1>4. QED BY <1>2, <1>3

LEMMA TickAgrees ==
  ASSUME TypeOK, NEW k \in Keys, NEW e \in KvEntry \cup {Absent}, KvAgrees(k, e),
         mem' = mem, now' = now + 1
  PROVE  KvAgrees(k, e)'
<1>1. CASE e = Absent \/ e.exp = NoTtl
  BY <1>1 DEF KvAgrees
<1>2. CASE ~(e = Absent \/ e.exp = NoTtl)
  <2>1. e.exp \in Int /\ Second \in Int /\ now \in Int
    BY <1>2, StoreAssumption DEF KvEntry, TypeOK
  <2> DEFINE q == (e.exp + 1) * Second
  <2>2. q \in Int
    BY <2>1
  <2>3. ASSUME mem.kv[k] # Absent, mem.kv[k].exp # NoTtl
        PROVE  mem.kv[k].exp \in Int
    BY <2>3 DEF TypeOK, Memory, KvEntry
  <2> HIDE DEF q
  <2>4. ASSUME mem.kv[k] # Absent
        PROVE  /\ mem.kv[k].val = e.val /\ mem.kv[k].exp # NoTtl
               /\ mem.kv[k].exp < now + 1 + q
    <3>1. mem.kv[k].val = e.val /\ mem.kv[k].exp # NoTtl /\ mem.kv[k].exp < now + q
      BY <1>2, <2>4 DEF KvAgrees, q
    <3>2. QED BY <2>1, <2>2, <2>3, <2>4, <3>1
  <2>5. QED BY <1>2, <2>4 DEF KvAgrees, q
<1>3. QED BY <1>1, <1>2

(* What a snapshot keeps of a string, and what a restart makes of it.      *)
LEMMA SnapshotAgrees ==
  ASSUME TypeOK, NEW k \in Keys, NEW e, e = SnapshotImage.kv[k],
         mem'.kv = Purged(mem.kv), now' = now
  PROVE  KvAgrees(k, e)'
<1>0. PICK p : p = Purged(mem.kv)[k]
  OBVIOUS
<1>1. p \in KvEntry \cup {Absent} /\ now \in Int /\ Second \in Nat \ {0}
  BY <1>0, PurgedType, StoreAssumption DEF TypeOK, Memory, KvMap
<1>2. e = SnapshotEntry(p)
  BY <1>0 DEF SnapshotImage
<1>3. mem'.kv[k] = p
  BY <1>0
<1>4. CASE p = Absent \/ p.exp = NoTtl
  <2>1. e = p
    BY <1>2, <1>4 DEF SnapshotEntry
  <2>2. QED BY <1>3, <1>4, <2>1 DEF KvAgrees
<1>5. CASE ~(p = Absent \/ p.exp = NoTtl)
  <2>1. p \in KvEntry /\ p.exp \in Int
    BY <1>1, <1>5 DEF KvEntry
  <2>2. SecondsLeft(p) \in Int
    BY <1>1, <2>1 DEF SecondsLeft
  <2>3. p.exp < now + (SecondsLeft(p) + 1) * Second
    <3>1. CASE p.exp - now < Second
      BY <1>1, <2>1, <3>1 DEF SecondsLeft
    <3>2. CASE ~(p.exp - now < Second)
      <4> DEFINE a == p.exp - now
                 q == (a \div Second + 1) * Second
      <4>1. a \in Int /\ p.exp = now + a
        BY <1>1, <2>1
      <4>2. SecondsLeft(p) = a \div Second
        BY <3>2 DEF SecondsLeft
      <4> HIDE DEF a
      <4>3. a < q /\ q \in Int
        BY <1>1, <4>1, SecondsCover
      <4> HIDE DEF q
      <4>4. p.exp < now + q
        BY <1>1, <4>1, <4>3
      <4>5. QED BY <4>2, <4>4 DEF q
    <3>3. QED BY <3>1, <3>2
  <2>4. e = [p EXCEPT !.exp = SecondsLeft(p)]
    BY <1>2, <1>5 DEF SnapshotEntry
  <2>5. e.val = p.val /\ e.exp = SecondsLeft(p) /\ e \in KvEntry
    BY <2>1, <2>2, <2>4 DEF KvEntry
  <2>6. e # Absent /\ e.exp # NoTtl
    BY <2>2, <2>5, DataAssumption
  <2>7. QED BY <1>3, <1>5, <2>3, <2>5, <2>6 DEF KvAgrees
<1>6. QED BY <1>4, <1>5

-----------------------------------------------------------------------------
(* Before a step of client c that holds the lock or takes it, what the log *)
(* and memory have of each other depends on c alone.                       *)
CarriesVector(step, line) == step = "append" \/ (step = "compact" /\ line # NoLine)
CarriesString(step, line, k) == step \in {"set", "del"} /\ line.key = k

LEMMA OthersIdle ==
  ASSUME LogInv, NEW c \in Clients, lock = Free \/ pc[c] # "idle"
  PROVE  \A d \in Clients \ {c} : pc[d] = "idle"
BY StoreAssumption DEF LogInv, LockInv

LEMMA FollowBefore ==
  ASSUME LogInv, up, NEW c \in Clients, lock = Free \/ pc[c] # "idle"
  PROVE  /\ IF CarriesVector(pc[c], arg[c])
            THEN Follows(ReplayLine(ImageOf(file), arg[c]), mem)
            ELSE Follows(ImageOf(file), mem)
         /\ \A k \in Keys : IF CarriesString(pc[c], arg[c], k)
                            THEN ImageOf(file).kv[k] = LoggedEntry(arg[c])
                            ELSE KvAgrees(k, ImageOf(file).kv[k])
<1>1. \A d \in Clients \ {c} : ~Unlogged(d) /\ \A k \in Keys : ~Unapplied(d, k)
  BY OthersIdle DEF Unlogged, Unapplied
<1>2. VecsFollow /\ StringsFollow
  BY DEF LogInv
<1>3. Unlogged(c) <=> CarriesVector(pc[c], arg[c])
  BY DEF Unlogged, CarriesVector
<1>4. \A k \in Keys : Unapplied(c, k) <=> CarriesString(pc[c], arg[c], k)
  BY DEF Unapplied, CarriesString
<1>5. IF CarriesVector(pc[c], arg[c]) THEN Follows(ReplayLine(ImageOf(file), arg[c]), mem)
                                      ELSE Follows(ImageOf(file), mem)
  BY <1>1, <1>2, <1>3 DEF VecsFollow, VecsAgree, Follows
<1>6. ASSUME NEW k \in Keys
      PROVE  IF CarriesString(pc[c], arg[c], k)
             THEN ImageOf(file).kv[k] = LoggedEntry(arg[c])
             ELSE KvAgrees(k, ImageOf(file).kv[k])
  BY <1>1, <1>2, <1>4 DEF StringsFollow
<1>7. QED BY <1>5, <1>6

(* After such a step too.                                                  *)
LEMMA FollowAfter ==
  ASSUME LogInv, up, up', NEW c \in Clients, lock = Free \/ pc[c] # "idle",
         NEW step \in Steps, NEW line, Goto(c, step, line),
         lock' = IF step = "idle" THEN Free ELSE c,
         IF CarriesVector(step, line)
         THEN Follows(ReplayLine(ImageOf(file'), line), mem')
         ELSE Follows(ImageOf(file'), mem'),
         \A k \in Keys : IF CarriesString(step, line, k)
                         THEN ImageOf(file').kv[k] = LoggedEntry(line)
                         ELSE KvAgrees(k, ImageOf(file).kv[k])'
  PROVE  LockInv' /\ VecsFollow' /\ StringsFollow'
<1>1. pc \in [Clients -> Steps] /\ DOMAIN arg = Clients
  BY DEF LogInv, TypeInv, TypeOK
<1>2. pc'[c] = step /\ arg'[c] = line /\ \A d \in Clients \ {c} : pc'[d] = pc[d]
  BY <1>1 DEF Goto
<1>3. \A d \in Clients \ {c} : pc'[d] = "idle"
  BY <1>2, OthersIdle
<1>4. LockInv'
  BY <1>2, <1>3 DEF LockInv
<1>5. Unlogged(c)' <=> CarriesVector(step, line)
  BY <1>2 DEF Unlogged, CarriesVector
<1>6. \A d \in Clients \ {c} : ~Unlogged(d)' /\ \A k \in Keys : ~Unapplied(d, k)'
  BY <1>3 DEF Unlogged, Unapplied
<1>7. VecsFollow'
  BY <1>2, <1>5, <1>6 DEF VecsFollow, VecsAgree, Follows
<1>8. ASSUME NEW k \in Keys
      PROVE  /\ \A d \in Clients : Unapplied(d, k)' => (ImageOf(file).kv[k])' = LoggedEntry(arg'[d])
             /\ (\A d \in Clients : ~Unapplied(d, k)') => KvAgrees(k, ImageOf(file).kv[k])'
  <2>1. Unapplied(c, k)' <=> CarriesString(step, line, k)
    BY <1>2 DEF Unapplied, CarriesString
  <2>2. QED BY <1>2, <1>6, <2>1
<1>9. StringsFollow'
  BY <1>8 DEF StringsFollow
<1>10. QED BY <1>4, <1>7, <1>9

(* The conditions under which the log is the memory: the process runs with *)
(* VECTOR_WAL=1, the disk takes every append, and a line is on the disk    *)
(* whole or not at all.                                                    *)
SafeDisk == WalModes = {TRUE} /\ "append" \notin Faults /\ "tear" \notin Faults

FileFacts(f) == FileOK(f) /\ f \in File /\ ImageOf(f) \in Image /\ ImageOf(f).ok /\ GoodImage(ImageOf(f))

LEMMA GoodFileFacts ==
  ASSUME NEW f, GoodFile(f)
  PROVE  FileFacts(f)
<1>1. f \in File /\ Len(f.tail) \in 0 .. Len(f.tail)
  BY DEF GoodFile, FileOK, File
<1>2. QED BY <1>1 DEF GoodFile, GoodImage, ImageOf, FileFacts

(* SET and DEL, first half: the line is in the log, memory waits.          *)
LEMMA StringLogStep ==
  ASSUME SafeDisk, LogInv, TypeInv',
         NEW c \in Clients, NEW l \in SetLines \cup DelLines, NEW step \in {"set", "del"},
         MayStart(c), Acquire(c), file' \in AppendLine(file, l), Goto(c, step, l),
         UNCHANGED <<up, walOn, mem, walLines, priors, now, crashes>>
  PROVE  LogInv'
<1>1. up /\ up' /\ lock = Free /\ pc[c] = "idle" /\ step \in Steps /\ l \in Lines
  BY DEF MayStart, Acquire, Steps, Lines
<1>2. FileFacts(file) /\ GoodFile(file)
  BY GoodFileFacts DEF LogInv
<1>3. file' = AddLine(file, l)
  BY <1>2, SafeAppend DEF SafeDisk
<1>4. /\ ReplayLine(ImageOf(file), l).kv = [ImageOf(file).kv EXCEPT ![l.key] = LoggedEntry(l)]
      /\ ReplayLine(ImageOf(file), l).vecs = ImageOf(file).vecs
      /\ ReplayLine(ImageOf(file), l).dims = ImageOf(file).dims
      /\ ReplayLine(ImageOf(file), l).ok
      /\ ReplayLine(ImageOf(file), l) \in Image
  BY <1>1, <1>2, ReplayStringLine, ReplayLineType DEF FileFacts
<1>5. /\ Follows(ImageOf(file), mem)
      /\ \A k \in Keys : KvAgrees(k, ImageOf(file).kv[k])
  BY <1>1, FollowBefore DEF CarriesVector, CarriesString
<1>6. Follows(ReplayLine(ImageOf(file), l), mem)
  BY <1>4, <1>5 DEF Follows
<1>7. GoodImage(ReplayLine(ImageOf(file), l))
  BY <1>4, <1>6, FollowsIsGood DEF LogInv, TypeInv, TypeOK
<1>8. GoodFile(file') /\ ImageOf(file') = ReplayLine(ImageOf(file), l)
  BY <1>1, <1>2, <1>3, <1>7, GoodAddLine
<1>9. Follows(ImageOf(file'), mem') /\ ~CarriesVector(step, l)
  BY <1>6, <1>8 DEF CarriesVector
<1>10. ASSUME NEW k \in Keys
       PROVE  IF CarriesString(step, l, k)
              THEN ImageOf(file').kv[k] = LoggedEntry(l)
              ELSE KvAgrees(k, ImageOf(file).kv[k])'
  <2>0. ImageOf(file).kv \in [Keys -> KvEntry \cup {Absent}]
    BY <1>2 DEF FileFacts, Image
  <2>1. CASE l.key = k
    BY <1>4, <1>8, <2>0, <2>1 DEF CarriesString
  <2>2. CASE l.key # k
    <3>1. ImageOf(file').kv[k] = ImageOf(file).kv[k]
      BY <1>4, <1>8, <2>0, <2>2
    <3>2. QED BY <1>5, <2>2, <3>1 DEF CarriesString, KvAgrees
  <2>3. QED BY <2>1, <2>2
<1>11. lock' = IF step = "idle" THEN Free ELSE c
  BY DEF Acquire
<1>12. LockInv' /\ VecsFollow' /\ StringsFollow'
  BY <1>1, <1>9, <1>10, <1>11, FollowAfter
<1>13. QED BY <1>8, <1>12 DEF LogInv, OneDimension, LiveIds

(* SET and DEL, second half: memory has the entry the log has.             *)
LEMMA StringMemStep ==
  ASSUME LogInv, TypeInv',
         NEW c \in Clients, pc[c] \in {"set", "del"}, NEW l, l = arg[c], l.key \in Keys,
         NEW x, mem' = [mem EXCEPT !.kv = [mem.kv EXCEPT ![l.key] = x]],
         KvAgrees(l.key, LoggedEntry(l))', Reply(c),
         UNCHANGED <<up, walOn, walLines, file, priors, now, crashes>>
  PROVE  LogInv'
<1>1. up /\ up' /\ lock = c /\ pc[c] # "idle" /\ "idle" \in Steps
  BY DEF LogInv, LockInv, Steps
<1>2. /\ mem'.vecs = mem.vecs /\ mem'.dims = mem.dims
      /\ \A k \in Keys \ {l.key} : mem'.kv[k] = mem.kv[k]
  BY DEF LogInv, TypeInv, TypeOK, Memory
<1>3. /\ Follows(ImageOf(file), mem)
      /\ \A k \in Keys \ {l.key} : KvAgrees(k, ImageOf(file).kv[k])
      /\ ImageOf(file).kv[l.key] = LoggedEntry(l)
  BY <1>1, FollowBefore DEF CarriesVector, CarriesString
<1>4. Follows(ImageOf(file'), mem')
  BY <1>2, <1>3 DEF Follows
<1>5. ASSUME NEW k \in Keys
      PROVE  KvAgrees(k, ImageOf(file).kv[k])'
  <2>1. CASE k = l.key
    BY <1>3, <2>1
  <2>2. CASE k # l.key
    BY <1>2, <1>3, <2>2 DEF KvAgrees
  <2>3. QED BY <2>1, <2>2
<1>6. LockInv' /\ VecsFollow' /\ StringsFollow'
  BY <1>1, <1>4, <1>5, FollowAfter DEF Reply, CarriesVector, CarriesString
<1>7. QED BY <1>2, <1>6 DEF LogInv, OneDimension, LiveIds

(* A vector command: memory has changed, the client has the line for it.   *)
LEMMA VectorStep ==
  ASSUME SafeDisk, LogInv, TypeInv',
         NEW c \in Clients, NEW step \in {"append", "compact"}, NEW line \in VectorLines,
         MayStart(c), ThenLog(c, step, line),
         Follows(ImageOf(file), mem) => Follows(ReplayLine(ImageOf(file), line), mem'),
         mem'.kv = mem.kv, OneDimension(mem'),
         UNCHANGED <<up, walOn, walLines, file, priors, now, crashes>>
  PROVE  LogInv'
<1>1. /\ up /\ up' /\ lock = Free /\ pc[c] = "idle" /\ step \in Steps /\ line # NoLine
      /\ Goto(c, step, line) /\ lock' = c
  BY StoreAssumption DEF MayStart, ThenLog, Acquire, Steps, Lines, LogInv
<1>2. Follows(ImageOf(file), mem) /\ \A k \in Keys : KvAgrees(k, ImageOf(file).kv[k])
  BY <1>1, FollowBefore DEF CarriesVector, CarriesString
<1>3. \A k \in Keys : KvAgrees(k, ImageOf(file).kv[k])'
  BY <1>2 DEF KvAgrees
<1>4. Follows(ReplayLine(ImageOf(file'), line), mem') /\ CarriesVector(step, line)
  BY <1>1, <1>2 DEF CarriesVector
<1>5. \A k \in Keys : ~CarriesString(step, line, k)
  BY DEF CarriesString
<1>6. lock' = IF step = "idle" THEN Free ELSE c
  BY <1>1
<1>7. LockInv' /\ VecsFollow' /\ StringsFollow'
  BY <1>1, <1>3, <1>4, <1>5, <1>6, FollowAfter
<1>8. QED BY <1>7 DEF LogInv

(* A step of a client that is past its changes, or that makes the log      *)
(* follow memory: the file it leaves is good and follows memory.           *)
LEMMA SettledStep ==
  ASSUME SafeDisk, LogInv, TypeInv',
         NEW c \in Clients, pc[c] # "idle", NEW step \in Steps, Goto(c, step, NoLine),
         lock' = IF step = "idle" THEN Free ELSE c, step \notin {"set", "del", "append"},
         GoodFile(file'), priors' \subseteq priors \cup {file},
         Follows(ImageOf(file'), mem'), mem'.vecs = mem.vecs, mem'.dims = mem.dims,
         \A k \in Keys : KvAgrees(k, ImageOf(file).kv[k])',
         UNCHANGED <<up, walOn, now>>
  PROVE  LogInv'
<1>1. up /\ up'
  BY DEF LogInv, LockInv
<1>2. ~CarriesVector(step, NoLine) /\ \A k \in Keys : ~CarriesString(step, NoLine, k)
  BY DEF CarriesVector, CarriesString
<1>3. LockInv' /\ VecsFollow' /\ StringsFollow'
  BY <1>1, <1>2, FollowAfter
<1>4. OneDimension(mem')
  BY DEF LogInv, OneDimension, LiveIds
<1>5. QED BY <1>3, <1>4 DEF LogInv

(* What a client at a settled step knows.                                  *)
LEMMA SettledBefore ==
  ASSUME LogInv, NEW c \in Clients, pc[c] \notin {"idle", "set", "del"}
  PROVE  /\ FileFacts(file) /\ GoodFile(file) /\ up /\ "idle" \in Steps
         /\ \A k \in Keys : KvAgrees(k, ImageOf(file).kv[k])
         /\ ~CarriesVector(pc[c], arg[c]) => Follows(ImageOf(file), mem)
         /\ CarriesVector(pc[c], arg[c]) => Follows(ReplayLine(ImageOf(file), arg[c]), mem)
<1>1. up
  BY DEF LogInv, LockInv
<1>2. \A k \in Keys : ~CarriesString(pc[c], arg[c], k)
  BY DEF CarriesString
<1>3. FileFacts(file) /\ GoodFile(file)
  BY GoodFileFacts DEF LogInv
<1>4. QED BY <1>1, <1>2, <1>3, FollowBefore DEF Steps

(* Appending the line a vector command carries makes the log follow memory. *)
LEMMA CarriedAppend ==
  ASSUME SafeDisk, LogInv, NEW c \in Clients, CarriesVector(pc[c], arg[c]),
         NEW g, g \in AppendLine(file, arg[c])
  PROVE  GoodFile(g) /\ Follows(ImageOf(g), mem) /\ ImageOf(g).kv = ImageOf(file).kv
<1>1. arg[c] \in VectorLines /\ arg[c] \in Lines
  BY DEF CarriesVector, LogInv, TypeInv, ArgOK, AppendedLines, VectorLines, Lines
<1>2. FileFacts(file) /\ GoodFile(file) /\ Follows(ReplayLine(ImageOf(file), arg[c]), mem)
  BY SettledBefore DEF CarriesVector
<1>3. g = AddLine(file, arg[c])
  BY <1>2, SafeAppend DEF SafeDisk
<1>4. /\ ReplayLine(ImageOf(file), arg[c]).kv = ImageOf(file).kv
      /\ ReplayLine(ImageOf(file), arg[c]).ok
      /\ ReplayLine(ImageOf(file), arg[c]) \in Image
  BY <1>1, <1>2, ReplayVectorLine, ReplayLineType DEF FileFacts
<1>5. GoodImage(ReplayLine(ImageOf(file), arg[c]))
  BY <1>2, <1>4, FollowsIsGood DEF LogInv, TypeInv, TypeOK
<1>6. GoodFile(g) /\ ImageOf(g) = ReplayLine(ImageOf(file), arg[c])
  BY <1>1, <1>2, <1>3, <1>5, GoodAddLine
<1>7. QED BY <1>2, <1>4, <1>6

LEMMA LogInit ==
  ASSUME SafeDisk, Init
  PROVE  LogInv
<1>1. TypeInv
  BY TypeInit
<1>2. walOn = TRUE /\ up /\ lock = Free /\ \A c \in Clients : pc[c] = "idle"
  BY DEF Init, SafeDisk
<1>3. LiveIds(EmptyImage) = {} /\ LiveIds(mem) = {} /\ OneDimension(EmptyImage) /\ OneDimension(mem)
  BY DEF LiveIds, EmptyImage, NoVecs, OneDimension, Init, EmptyMemory
<1>4. GoodImage(EmptyImage)
  BY <1>3 DEF GoodImage, EmptyImage, Image, VecMap, NoVecs, AsText
<1>5. GoodFile(file) /\ ImageOf(file) = EmptyImage
  <2>1. file = Rewritten(EmptyImage)
    BY DEF Init, EmptyFile, Rewritten
  <2>2. QED BY <1>4, <2>1, GoodRewritten
<1>6. VecsFollow
  <2>1. VecsAgree(EmptyImage)
    BY DEF VecsAgree, EmptyImage, Init, EmptyMemory, AsText, NoVecs
  <2>2. QED BY <1>2, <1>5, <2>1 DEF VecsFollow, Unlogged
<1>7. StringsFollow
  <2>1. \A k \in Keys : KvAgrees(k, EmptyImage.kv[k])
    BY DEF KvAgrees, EmptyImage, Init, EmptyMemory
  <2>2. QED BY <1>2, <1>5, <2>1 DEF StringsFollow, Unapplied
<1>8. LockInv /\ priors = {}
  BY <1>2 DEF LockInv, Init
<1>9. QED BY <1>1, <1>2, <1>3, <1>5, <1>6, <1>7, <1>8 DEF LogInv

(* The steps of the clients.                                               *)
LEMMA CommandStep ==
  ASSUME SafeDisk, LogInv, TypeInv', NEW c \in Clients, Command(c)
  PROVE  LogInv'
<1>a. mem \in Memory /\ OneDimension(mem) /\ FileFacts(file)
  BY GoodFileFacts DEF LogInv, TypeInv, TypeOK
<1>1. ASSUME NEW k \in Keys, NEW s \in Vals, NEW t \in Ttls \cup {NoTtl}, SetLog(c, k, s, t)
      PROVE  LogInv'
  BY <1>1, CommandLines, StringLogStep DEF SetLog
<1>2. ASSUME NEW k \in Keys, DelLog(c, k)
      PROVE  LogInv'
  BY <1>2, CommandLines, StringLogStep DEF DelLog
<1>3. ASSUME NEW i \in Ids, NEW v \in Vecs, Vset(c, i, v)
      PROVE  LogInv'
  <2>1. CASE DimensionMismatch(mem, v)
    <3>1. UNCHANGED vars
      BY <1>3, <2>1 DEF Vset, vars
    <3>2. QED BY <3>1 DEF vars, LogInv, LockInv, OneDimension, LiveIds, VecsFollow, StringsFollow,
                          VecsAgree, KvAgrees, Unlogged, Unapplied
  <2>2. CASE ~DimensionMismatch(mem, v)
    <3>1. mem' = AddOrUpdate(mem, i, v) /\ ThenLog(c, "append", VsetLine(i, v)) /\ MayStart(c)
      BY <1>3, <2>2 DEF Vset
    <3>2. Follows(ImageOf(file), mem) => Follows(ReplayLine(ImageOf(file), VsetLine(i, v)), mem')
      BY <1>a, <2>2, <3>1, VsetFollows DEF FileFacts
    <3>3. OneDimension(mem')
      BY <1>a, <3>1, AddOneDimension
    <3>4. mem'.kv = mem.kv
      BY <1>a, <2>2, <3>1 DEF AddOrUpdate, Memory
    <3>5. VsetLine(i, v) \in VectorLines
      BY CommandLines DEF VectorLines
    <3>6. QED BY <1>3, <3>1, <3>2, <3>3, <3>4, <3>5, VectorStep DEF Vset
  <2>3. QED BY <2>1, <2>2
<1>b. ASSUME NEW S \in SUBSET Ids, mem' = RemoveIds(mem, S)
      PROVE  OneDimension(mem') /\ mem'.kv = mem.kv
  BY <1>a, <1>b, RemoveOneDimension DEF RemoveIds, Memory
<1>4. ASSUME NEW i \in Ids, Vdel(c, i)
      PROVE  LogInv'
  <2>1. mem' = RemoveIds(mem, {i}) /\ MayStart(c)
    BY <1>4 DEF Vdel
  <2>2. PICK step \in {"append", "compact"} : ThenLog(c, step, VdelLine(i))
    BY <1>4 DEF Vdel
  <2>3. Follows(ImageOf(file), mem) => Follows(ReplayLine(ImageOf(file), VdelLine(i)), mem')
    BY <1>a, <2>1, RemovalFollows DEF FileFacts
  <2>4. VdelLine(i) \in VectorLines
    BY CommandLines DEF VectorLines
  <2>5. OneDimension(mem') /\ mem'.kv = mem.kv
    BY <1>b, <2>1
  <2>6. QED BY <1>4, <2>1, <2>2, <2>3, <2>4, <2>5, VectorStep DEF Vdel
<1>5. ASSUME NEW p \in IdPrefixes, VdelPrefix(c, p)
      PROVE  LogInv'
  <2>1. mem' = RemoveIds(mem, IdsWith[p]) /\ MayStart(c) /\ IdsWith[p] \in SUBSET Ids
    BY <1>5, DataAssumption DEF VdelPrefix
  <2>2. PICK step \in {"append", "compact"} : ThenLog(c, step, VdelPrefixLine(p))
    BY <1>5 DEF VdelPrefix
  <2>3. Follows(ImageOf(file), mem) => Follows(ReplayLine(ImageOf(file), VdelPrefixLine(p)), mem')
    BY <1>a, <2>1, RemovalFollows DEF FileFacts
  <2>4. VdelPrefixLine(p) \in VectorLines
    BY CommandLines DEF VectorLines
  <2>5. OneDimension(mem') /\ mem'.kv = mem.kv
    BY <1>b, <2>1
  <2>6. QED BY <1>5, <2>1, <2>2, <2>3, <2>4, <2>5, VectorStep DEF VdelPrefix
<1>6. CASE Vclear(c)
  <2>1. mem' = Clear(mem) /\ MayStart(c) /\ ThenLog(c, "compact", VclearLine)
    BY <1>6 DEF Vclear
  <2>2. Follows(ImageOf(file), mem) => Follows(ReplayLine(ImageOf(file), VclearLine), mem')
    BY <1>a, <2>1, RemovalFollows DEF FileFacts
  <2>3. OneDimension(mem')
    BY <1>a, <2>1, ClearFields
  <2>4. mem'.kv = mem.kv
    BY <1>a, <2>1 DEF Clear, Memory
  <2>5. QED BY <1>6, <2>1, <2>2, <2>3, <2>4, CommandLines, VectorStep DEF Vclear
<1>7. QED BY <1>1, <1>2, <1>3, <1>4, <1>5, <1>6 DEF Command

LEMMA ClientStepInv ==
  ASSUME SafeDisk, LogInv, TypeInv', NEW c \in Clients, ClientStep(c)
  PROVE  LogInv'
<1>a. mem \in Memory /\ TypeOK /\ OneDimension(mem)
  BY DEF LogInv, TypeInv, TypeOK
<1>b. [mem EXCEPT !.kv = Purged(mem.kv)].vecs = mem.vecs
      /\ [mem EXCEPT !.kv = Purged(mem.kv)].dims = mem.dims
      /\ [mem EXCEPT !.kv = Purged(mem.kv)].kv = Purged(mem.kv)
  BY <1>a DEF Memory
<1>1. CASE SetMem(c)
  <2>1. PICK l : l = arg[c]
    OBVIOUS
  <2>2. l \in SetLines /\ l.key \in Keys /\ l.op = "SET"
    BY <1>1, <2>1 DEF SetMem, LogInv, TypeInv, ArgOK, SetLines
  <2> DEFINE x == [val |-> l.val, exp |-> IF l.ttl = NoTtl THEN NoTtl ELSE now + l.ttl * Second]
  <2>3. mem' = [mem EXCEPT !.kv = [mem.kv EXCEPT ![l.key] = x]] /\ now' = now
    BY <1>1, <2>1 DEF SetMem
  <2>4. mem'.kv[l.key] = x
    BY <1>a, <2>2, <2>3 DEF Memory
  <2>5. KvAgrees(l.key, LoggedEntry(l))'
    <3>1. LoggedEntry(l) = [val |-> l.val, exp |-> l.ttl]
      BY <2>2 DEF LoggedEntry
    <3>2. [val |-> l.val, exp |-> l.ttl] \in KvEntry
      BY <2>2, DataAssumption DEF SetLines, KvEntry
    <3>3. CASE l.ttl = NoTtl
      <4>1. x = LoggedEntry(l)
        BY <3>1, <3>3
      <4>2. LoggedEntry(l).exp = NoTtl
        BY <3>1, <3>3
      <4> HIDE DEF x
      <4>3. QED BY <2>4, <4>1, <4>2 DEF KvAgrees
    <3>4. CASE l.ttl # NoTtl
      <4>1. l.ttl \in Int /\ Second \in Nat \ {0} /\ now \in Int
        <5>1. l.ttl \in Ttls \cup {NoTtl}
          BY <2>2 DEF SetLines
        <5>2. l.ttl \in Int
          BY <3>4, <5>1, DataAssumption
        <5>3. now \in Int
          BY <1>a DEF TypeOK
        <5>4. QED BY <5>2, <5>3, StoreAssumption
      <4>2. now + l.ttl * Second < now + (l.ttl + 1) * Second /\ now + l.ttl * Second \in Int
        BY <4>1
      <4>3. now + l.ttl * Second # NoTtl
        BY <4>2, DataAssumption
      <4>4. x = [val |-> l.val, exp |-> now + l.ttl * Second]
        BY <3>4
      <4> HIDE DEF x
      <4>5. x.val = l.val /\ x.exp = now + l.ttl * Second
        BY <4>4
      <4>6. QED BY <2>3, <2>4, <3>1, <3>2, <3>4, <4>2, <4>3, <4>5, DataAssumption DEF KvAgrees
    <3>5. QED BY <3>3, <3>4
  <2> HIDE DEF x
  <2>6. QED BY <1>1, <2>1, <2>2, <2>3, <2>5, StringMemStep DEF SetMem
<1>2. CASE DelMem(c)
  <2>1. PICK l : l = arg[c]
    OBVIOUS
  <2>2. l.key \in Keys /\ LoggedEntry(l) = Absent
    BY <1>2, <2>1 DEF DelMem, LogInv, TypeInv, ArgOK, DelLines, LoggedEntry
  <2>3. mem' = [mem EXCEPT !.kv = [mem.kv EXCEPT ![l.key] = Absent]]
    BY <1>2, <2>1 DEF DelMem
  <2>4. mem'.kv[l.key] = Absent
    BY <1>a, <2>2, <2>3 DEF Memory
  <2>5. KvAgrees(l.key, LoggedEntry(l))'
    BY <2>2, <2>4 DEF KvAgrees
  <2>6. QED BY <1>2, <2>1, <2>2, <2>3, <2>5, StringMemStep DEF DelMem
<1>3. CASE AppendVectorLine(c)
  <2>1. CarriesVector(pc[c], arg[c]) /\ pc[c] \notin {"idle", "set", "del"}
    BY <1>3 DEF AppendVectorLine, CarriesVector
  <2>2. GoodFile(file') /\ Follows(ImageOf(file'), mem) /\ ImageOf(file').kv = ImageOf(file).kv
    BY <1>3, <2>1, CarriedAppend DEF AppendVectorLine
  <2>3. \A k \in Keys : KvAgrees(k, ImageOf(file).kv[k])'
    BY <1>3, <2>1, <2>2, SettledBefore DEF AppendVectorLine, KvAgrees
  <2>4. PICK step \in {"note", "idle"} :
          Goto(c, step, NoLine) /\ lock' = IF step = "idle" THEN Free ELSE c
    BY <1>3 DEF AppendVectorLine, Reply, LogInv, LockInv
  <2>5. QED BY <1>3, <2>1, <2>2, <2>3, <2>4, SettledStep DEF AppendVectorLine, Steps
<1>4. CASE Note(c)
  <2>1. ~CarriesVector(pc[c], arg[c]) /\ pc[c] \notin {"idle", "set", "del"}
    BY <1>4 DEF Note, CarriesVector
  <2>2. GoodFile(file) /\ Follows(ImageOf(file), mem)
    BY <2>1, SettledBefore
  <2>3. \A k \in Keys : KvAgrees(k, ImageOf(file).kv[k])'
    BY <1>4, <2>1, SettledBefore DEF Note, KvAgrees
  <2>4. PICK step \in {"compact", "idle"} :
          Goto(c, step, NoLine) /\ lock' = IF step = "idle" THEN Free ELSE c
    BY <1>4 DEF Note, Reply, LogInv, LockInv
  <2>5. QED BY <1>4, <2>1, <2>2, <2>3, <2>4, SettledStep DEF Note, Steps
<1>5. CASE CompactRename(c)
  <2>1. pc[c] \notin {"idle", "set", "del"} /\ mem'.kv = Purged(mem.kv)
        /\ mem'.vecs = mem.vecs /\ mem'.dims = mem.dims
    BY <1>b, <1>5 DEF CompactRename
  <2>2. GoodFile(file') /\ ImageOf(file') = SnapshotImage /\ Follows(SnapshotImage, mem)
    BY <1>a, <1>5, SnapshotFollows, GoodRewritten DEF CompactRename
  <2>3. Follows(ImageOf(file'), mem')
    BY <2>1, <2>2 DEF Follows
  <2>4. ASSUME NEW k \in Keys
        PROVE  KvAgrees(k, ImageOf(file).kv[k])'
    <3>1. PICK e : e = SnapshotImage.kv[k]
      OBVIOUS
    <3>2. KvAgrees(k, e)'
      BY <1>a, <1>5, <2>1, <3>1, SnapshotAgrees DEF CompactRename
    <3>3. e = ImageOf(file').kv[k]
      BY <2>2, <3>1
    <3>4. QED BY <3>2, <3>3
  <2>5. Goto(c, "dirsync", NoLine) /\ lock' = c
    BY <1>5 DEF CompactRename, LogInv, LockInv
  <2>6. QED BY <1>5, <2>1, <2>2, <2>3, <2>4, <2>5, SettledStep DEF CompactRename, Steps
<1>6. CASE CompactFail(c)
  <2>1. pc[c] \notin {"idle", "set", "del"} /\ mem'.kv = Purged(mem.kv)
        /\ mem'.vecs = mem.vecs /\ mem'.dims = mem.dims
    BY <1>b, <1>6 DEF CompactFail
  <2>2. GoodFile(file') /\ Follows(ImageOf(file'), mem) /\ ImageOf(file').kv = ImageOf(file).kv
    <3>1. CASE arg[c] = NoLine
      BY <1>6, <2>1, <3>1, SettledBefore DEF CompactFail, CarriesVector
    <3>2. CASE arg[c] # NoLine
      BY <1>6, <3>2, CarriedAppend DEF CompactFail, CarriesVector
    <3>3. QED BY <3>1, <3>2
  <2>3. Follows(ImageOf(file'), mem')
    BY <2>1, <2>2 DEF Follows
  <2>4. ASSUME NEW k \in Keys
        PROVE  KvAgrees(k, ImageOf(file).kv[k])'
    <3>1. PICK e : e = ImageOf(file).kv[k]
      OBVIOUS
    <3>2. KvAgrees(k, e)
      BY <2>1, <3>1, SettledBefore
    <3>3. KvAgrees(k, e)'
      BY <1>6, <2>1, <3>2, PurgeAgrees DEF CompactFail
    <3>4. e = ImageOf(file').kv[k]
      BY <2>2, <3>1
    <3>5. QED BY <3>3, <3>4
  <2>5. Goto(c, "idle", NoLine) /\ lock' = Free
    BY <1>6 DEF CompactFail, Reply
  <2>6. QED BY <1>6, <2>1, <2>2, <2>3, <2>4, <2>5, SettledStep DEF CompactFail, Steps
<1>7. CASE DirSync(c)
  <2>1. ~CarriesVector(pc[c], arg[c]) /\ pc[c] \notin {"idle", "set", "del"}
    BY <1>7 DEF DirSync, CarriesVector
  <2>2. GoodFile(file) /\ Follows(ImageOf(file), mem)
    BY <2>1, SettledBefore
  <2>3. \A k \in Keys : KvAgrees(k, ImageOf(file).kv[k])'
    BY <1>7, <2>1, SettledBefore DEF DirSync, KvAgrees
  <2>4. Goto(c, "idle", NoLine) /\ lock' = Free /\ priors' \subseteq priors
    BY <1>7 DEF DirSync, Reply
  <2>5. QED BY <1>7, <2>1, <2>2, <2>3, <2>4, SettledStep DEF DirSync, Steps
<1>8. QED BY <1>1, <1>2, <1>3, <1>4, <1>5, <1>6, <1>7 DEF ClientStep

(* Every step keeps the invariant.                                         *)
LEMMA LogStep ==
  ASSUME SafeDisk, LogInv, [Next]_vars
  PROVE  LogInv'
<1>0. TypeInv'
  BY TypeStep DEF LogInv
<1>a. /\ TypeOK /\ GoodFile(file) /\ FileFacts(file) /\ mem \in Memory
      /\ (\A f \in priors : GoodFile(f)) /\ walOn = TRUE /\ OneDimension(mem)
  BY GoodFileFacts DEF LogInv, TypeInv, TypeOK
<1>1. ASSUME NEW c \in Clients, Command(c) \/ ClientStep(c)
      PROVE  LogInv'
  BY <1>0, <1>1, CommandStep, ClientStepInv
<1>b. ASSUME UNCHANGED <<up, walOn, pc, arg, lock, priors>>, GoodFile(file'),
             ImageOf(file') = ImageOf(file), mem'.vecs = mem.vecs, mem'.dims = mem.dims,
             \A k \in Keys, e \in KvEntry \cup {Absent} : KvAgrees(k, e) => KvAgrees(k, e)'
      PROVE  LogInv'
  <2>1. LockInv' /\ OneDimension(mem')
    BY <1>a, <1>b DEF LogInv, LockInv, OneDimension, LiveIds
  <2>2. VecsFollow => VecsFollow'
    BY <1>b DEF VecsFollow, VecsAgree, Unlogged
  <2>3. ASSUME NEW k \in Keys, KvAgrees(k, ImageOf(file).kv[k])
        PROVE  KvAgrees(k, ImageOf(file).kv[k])'
    <3>1. PICK e \in KvEntry \cup {Absent} : e = ImageOf(file).kv[k]
      BY <1>a DEF FileFacts, Image
    <3>2. KvAgrees(k, e)'
      BY <1>b, <2>3, <3>1
    <3>3. QED BY <1>b, <3>1, <3>2
  <2>4. StringsFollow => StringsFollow'
    BY <1>b, <2>3 DEF StringsFollow, Unapplied
  <2>5. QED BY <1>0, <1>b, <1>a, <2>1, <2>2, <2>4 DEF LogInv
<1>2. CASE TtlCleanup
  <2>1. mem'.vecs = mem.vecs /\ mem'.dims = mem.dims /\ mem'.kv = Purged(mem.kv)
    BY <1>a, <1>2 DEF TtlCleanup, Memory
  <2>2. \A k \in Keys, e \in KvEntry \cup {Absent} : KvAgrees(k, e) => KvAgrees(k, e)'
    BY <1>2, <2>1, PurgeAgrees DEF TtlCleanup
  <2>3. QED BY <1>a, <1>b, <1>2, <2>1, <2>2 DEF TtlCleanup
<1>3. CASE FsyncWal
  <2>1. GoodFile(file') /\ ImageOf(file') = ImageOf(file)
    BY <1>a, <1>3, GoodSyncFile DEF FsyncWal
  <2>2. \A k \in Keys, e \in KvEntry \cup {Absent} : KvAgrees(k, e) => KvAgrees(k, e)'
    BY <1>3 DEF FsyncWal, KvAgrees
  <2>3. QED BY <1>b, <1>3, <2>1, <2>2 DEF FsyncWal
<1>4. CASE Tick
  <2>1. \A k \in Keys, e \in KvEntry \cup {Absent} : KvAgrees(k, e) => KvAgrees(k, e)'
    BY <1>a, <1>4, TickAgrees DEF Tick
  <2>2. QED BY <1>a, <1>b, <1>4, <2>1 DEF Tick
<1>5. CASE ProcessCrash
  <2>1. up' = FALSE /\ file' = file /\ priors' = priors /\ walOn' = walOn
        /\ mem' = EmptyMemory /\ \A c \in Clients : pc'[c] = "idle"
    BY <1>5 DEF ProcessCrash, Down, SafeDisk
  <2>2. LockInv' /\ OneDimension(mem')
    BY <2>1 DEF LockInv, OneDimension, LiveIds, EmptyMemory, NoVecs
  <2>3. QED BY <1>0, <1>a, <2>1, <2>2 DEF LogInv
<1>6. CASE HostCrash
  <2>1. up' = FALSE /\ priors' = {} /\ walOn' = walOn
        /\ mem' = EmptyMemory /\ \A c \in Clients : pc'[c] = "idle"
    BY <1>6 DEF HostCrash, Down
  <2>2. GoodFile(file')
    BY <1>a, <1>6, SafeSurvivor DEF HostCrash, SafeDisk
  <2>3. LockInv' /\ OneDimension(mem')
    BY <2>1 DEF LockInv, OneDimension, LiveIds, EmptyMemory, NoVecs
  <2>4. QED BY <1>0, <1>a, <2>1, <2>2, <2>3 DEF LogInv
<1>7. CASE Restart
  <2>1. PICK img : img = ImageOf(file)
    OBVIOUS
  <2>2. img \in Image /\ GoodImage(img) /\ img.kv \in KvMap
    BY <1>a, <2>1 DEF FileFacts, Image, KvMap
  <2>3. /\ walOn' = TRUE /\ file' = file /\ priors' = priors /\ pc' = pc /\ lock' = lock
        /\ arg' = arg /\ now' = now
    BY <1>7 DEF Restart, SafeDisk
  <2>4. \A c \in Clients : pc[c] = "idle"
    BY <1>7 DEF Restart, LogInv, LockInv
  <2>5. mem'.vecs = img.vecs /\ mem'.dims = img.dims
    BY <1>7, <2>1 DEF Restart
  <2>6. LockInv' /\ OneDimension(mem')
    BY <2>2, <2>3, <2>4, <2>5 DEF LockInv, GoodImage, OneDimension, LiveIds
  <2>7. VecsFollow'
    <3>1. \A c \in Clients : ~Unlogged(c)'
      BY <2>3, <2>4 DEF Unlogged
    <3>2. VecsAgree(ImageOf(file))'
      BY <2>1, <2>2, <2>3, <2>5 DEF VecsAgree, GoodImage
    <3>3. QED BY <3>1, <3>2 DEF VecsFollow
  <2>8. ASSUME NEW k \in Keys
        PROVE  KvAgrees(k, img.kv[k])'
    <3>1. PICK e \in KvEntry \cup {Absent} : e = img.kv[k]
      BY <2>2 DEF KvMap
    <3>2. mem'.kv[k] = IF e = Absent \/ e.exp = NoTtl THEN e
                       ELSE [e EXCEPT !.exp = now + e.exp * Second]
      BY <1>7, <2>1, <3>1 DEF Restart
    <3>3. CASE e = Absent \/ e.exp = NoTtl
      BY <3>1, <3>2, <3>3 DEF KvAgrees
    <3>4. CASE ~(e = Absent \/ e.exp = NoTtl)
      <4>1. e \in KvEntry /\ e.exp \in Int /\ now \in Int /\ Second \in Nat \ {0}
        BY <1>a, <3>4, StoreAssumption DEF KvEntry, TypeOK
      <4>2. now + e.exp * Second \in Int /\ now + e.exp * Second < now + (e.exp + 1) * Second
        BY <4>1
      <4> DEFINE x == now + e.exp * Second
      <4>3. x # NoTtl /\ mem'.kv[k] = [e EXCEPT !.exp = x]
        BY <3>2, <3>4, <4>2, DataAssumption
      <4> HIDE DEF x
      <4>4. mem'.kv[k].val = e.val /\ mem'.kv[k].exp = x
        BY <4>1, <4>3 DEF KvEntry
      <4>5. QED BY <2>3, <3>1, <3>4, <4>2, <4>3, <4>4 DEF KvAgrees, x
    <3>5. QED BY <3>3, <3>4
  <2>9. StringsFollow'
    <3>1. \A c \in Clients, k \in Keys : ~Unapplied(c, k)'
      BY <2>3, <2>4 DEF Unapplied
    <3>2. \A k \in Keys : KvAgrees(k, ImageOf(file).kv[k])'
      BY <2>1, <2>3, <2>8
    <3>3. QED BY <3>1, <3>2 DEF StringsFollow
  <2>10. QED BY <1>0, <1>a, <2>3, <2>6, <2>7, <2>9 DEF LogInv
<1>8. CASE UNCHANGED vars
  BY <1>0, <1>8 DEF vars, LogInv, LockInv, OneDimension, LiveIds, VecsFollow, StringsFollow,
                    VecsAgree, KvAgrees, Unlogged, Unapplied
<1>9. QED BY <1>1, <1>2, <1>3, <1>4, <1>5, <1>6, <1>7, <1>8 DEF Next

(* Whenever no command is under way, replaying the log rebuilds the        *)
(* memory: for any number of clients, keys and vectors, any compaction     *)
(* floor, any interleaving of commands, rewrites that fail and crashes of  *)
(* the process or the host, a restart loses nothing that was replied to    *)
(* and brings back nothing that was deleted.                               *)
THEOREM LogRebuildsMemory ==
  ASSUME SafeDisk
  PROVE  Spec => []LogIsMemory
<1>1. Init => LogInv
  BY LogInit
<1>2. LogInv /\ [Next]_vars => LogInv'
  BY LogStep
<1>3. LogInv => LogIsMemory
  <2> SUFFICES ASSUME LogInv, Quiet PROVE Agrees(ImageOf(file))
    BY DEF LogIsMemory
  <2>1. \A c \in Clients : pc[c] = "idle"
    BY StoreAssumption DEF Quiet, LogInv, LockInv
  <2>2. VecsAgree(ImageOf(file))
    BY <2>1 DEF Quiet, LogInv, VecsFollow, Unlogged
  <2>3. \A k \in Keys : KvAgrees(k, ImageOf(file).kv[k])
    BY <2>1 DEF Quiet, LogInv, StringsFollow, Unapplied
  <2>4. ImageOf(file).ok
    BY GoodFileFacts DEF LogInv, FileFacts
  <2>5. QED BY <2>2, <2>3, <2>4 DEF Agrees
<1>4. QED BY <1>1, <1>2, <1>3, PTL DEF Spec

(* Once the fsync thread has caught up and every rename has reached the    *)
(* disk, a host crash too leaves a log that rebuilds the memory.           *)
THEOREM SyncedLogRebuildsMemory ==
  ASSUME SafeDisk
  PROVE  Spec => []SyncedStateSurvives
<1>1. Init => LogInv
  BY LogInit
<1>2. LogInv /\ [Next]_vars => LogInv'
  BY LogStep
<1>3. LogInv => SyncedStateSurvives
  <2> SUFFICES ASSUME LogInv, Quiet, file.synced = Len(file.tail), NEW f \in SurvivorsOf(file)
               PROVE  Agrees(ImageOf(f))
    BY DEF SyncedStateSurvives
  <2>1. \A c \in Clients : pc[c] = "idle"
    BY StoreAssumption DEF Quiet, LogInv, LockInv
  <2>2. PICK n \in file.synced .. Len(file.tail) : ImageOf(f) = ImageAt(file, n)
    BY SafeSurvivor DEF SafeDisk, LogInv
  <2>3. ImageOf(f) = ImageOf(file)
    BY <2>2 DEF ImageOf, LogInv, GoodFile, FileOK, File
  <2>4. VecsAgree(ImageOf(file)) /\ \A k \in Keys : KvAgrees(k, ImageOf(file).kv[k])
    BY <2>1 DEF Quiet, LogInv, VecsFollow, Unlogged, StringsFollow, Unapplied
  <2>5. ImageOf(file).ok
    BY GoodFileFacts DEF LogInv, FileFacts
  <2>6. QED BY <2>3, <2>4, <2>5 DEF Agrees
<1>4. QED BY <1>1, <1>2, <1>3, PTL DEF Spec

-----------------------------------------------------------------------------
(* One dimension, whatever the disk does.                                  *)
LEMMA ReplayOneDimension ==
  ASSUME NEW img \in Image, OneDimension(img), NEW l \in Lines
  PROVE  OneDimension(ReplayLine(img, l))
<1>1. CASE ~img.ok
  BY <1>1 DEF ReplayLine
<1>2. CASE img.ok /\ l \in SetLines \cup DelLines
  <2> DEFINE r == ReplayLine(img, l)
  <2>1. r.vecs = img.vecs /\ r.dims = img.dims
    BY <1>2, ReplayStringLine
  <2> HIDE DEF r
  <2>2. OneDimension(r)
    BY <2>1 DEF OneDimension, LiveIds
  <2>3. QED BY <2>2 DEF r
<1>3. CASE img.ok /\ l \in VectorLines
  <2> DEFINE m == Recounted(img, l)
  <2>1. m \in Image /\ m.vecs = img.vecs /\ m.dims = img.dims
    BY <1>3, ReplayVectorLine
  <2>2. OneDimension(m)
    BY <2>1 DEF OneDimension, LiveIds
  <2> HIDE DEF m
  <2>3. CASE l \in VsetLines
    <3>1. l.id \in Ids /\ l.vec \in Vecs /\ ReplayLine(img, l) = AddOrUpdate(m, l.id, l.vec)
      BY <1>3, <2>3, ReplayVectorLine DEF VsetLines, m
    <3>2. QED BY <2>1, <2>2, <3>1, AddOneDimension
  <2>4. CASE l \in VdelLines
    <3>1. {l.id} \in SUBSET Ids /\ ReplayLine(img, l) = RemoveIds(m, {l.id})
      BY <1>3, <2>4, ReplayVectorLine DEF VdelLines, m
    <3>2. QED BY <2>1, <2>2, <3>1, RemoveOneDimension
  <2>5. CASE l \in PrefixLines
    <3>1. IdsWith[l.prefix] \in SUBSET Ids
      BY <2>5, DataAssumption DEF PrefixLines
    <3>2. ReplayLine(img, l) = RemoveIds(m, IdsWith[l.prefix])
      BY <1>3, <2>5, ReplayVectorLine DEF m
    <3>3. QED BY <2>1, <2>2, <3>1, <3>2, RemoveOneDimension
  <2>6. CASE l = VclearLine
    <3>1. ReplayLine(img, l) = Clear(m)
      BY <1>3, <2>6, ReplayVectorLine DEF m
    <3>2. QED BY <2>1, <3>1, ClearFields
  <2>7. QED BY <1>3, <2>3, <2>4, <2>5, <2>6 DEF VectorLines
<1>4. CASE img.ok /\ l \in TornLines
  <2>1. ReplayLine(img, l).vecs = img.vecs /\ ReplayLine(img, l).dims = img.dims
    <3>1. CASE l = FatalLine
      BY <1>4, <3>1 DEF ReplayLine, FatalLine, Counted, Image
    <3>2. CASE l \in [op: {"JUNK"}, counted: BOOLEAN]
      <4>1. ReplayLine(img, l) = Recounted(img, l)
        BY <1>4, <3>2 DEF ReplayLine, Recounted
      <4>2. QED BY <4>1 DEF Recounted, Image
    <3>3. QED BY <1>4, <3>1, <3>2 DEF TornLines
  <2>2. QED BY <2>1 DEF OneDimension, LiveIds
<1>5. QED BY <1>1, <1>2, <1>3, <1>4 DEF Lines

(* After each line of a flat file replay has an index of one dimension and *)
(* has built what that line makes of the image before it.                  *)
FlatAt(f, n) ==
  /\ OneDimension(ImageAt(f, n))
  /\ n # 0 => ImageAt(f, n) = ReplayLine(ImageAt(f, n - 1), f.tail[n].line)
FlatFile(f) == FileOK(f) /\ \A n \in 0 .. Len(f.tail) : FlatAt(f, n)

(* Adding a line to a flat file leaves a flat one; f need not be FileOK    *)
(* itself, for append_line reopens a line that lacks its newline.          *)
LEMMA FlatAdd ==
  ASSUME NEW f \in File, \A n \in 0 .. Len(f.tail) : FlatAt(f, n),
         NEW l \in Lines, NEW g, g.base = AddLine(f, l).base, g.tail = AddLine(f, l).tail
  PROVE  \A n \in 0 .. Len(g.tail) : FlatAt(g, n)
<1>1. /\ Len(AddLine(f, l).tail) = Len(f.tail) + 1
      /\ ImageOf(AddLine(f, l)) = ReplayLine(ImageOf(f), l)
      /\ \A n \in 0 .. Len(f.tail) : ImageAt(AddLine(f, l), n) = ImageAt(f, n)
      /\ Len(f.tail) \in Nat
  BY AddLineImages DEF File
<1>2. \A n : ImageAt(g, n) = ImageAt(AddLine(f, l), n)
  BY DEF ImageAt
<1>3. OneDimension(ImageOf(f)) /\ ImageOf(f) \in Image
  BY <1>1, ImageOfType DEF ImageOf, FlatAt
<1>4. /\ \A n \in 1 .. Len(f.tail) : g.tail[n] = f.tail[n]
      /\ g.tail[Len(f.tail) + 1].line = l
  <2>1. PICK e : e = [line |-> l, img |-> ReplayLine(ImageOf(f), l)]
    OBVIOUS
  <2>2. g.tail = Append(f.tail, e) /\ f.tail \in Seq(Entry) /\ e.line = l
    BY <2>1 DEF AddLine, File
  <2>3. e \in Entry
    BY <1>3, <2>1, ReplayLineType DEF Entry
  <2>4. QED BY <2>2, <2>3
<1>5. ASSUME NEW n \in 0 .. Len(g.tail)
      PROVE  FlatAt(g, n)
  <2>1. CASE n \in 0 .. Len(f.tail)
    <3>1. FlatAt(f, n) /\ ImageAt(g, n) = ImageAt(f, n)
      BY <1>1, <1>2, <2>1
    <3>2. CASE n = 0
      BY <3>1, <3>2 DEF FlatAt
    <3>3. CASE n # 0
      <4>1. n - 1 \in 0 .. Len(f.tail) /\ n \in 1 .. Len(f.tail)
        BY <1>1, <2>1, <3>3
      <4>2. ImageAt(g, n - 1) = ImageAt(f, n - 1) /\ g.tail[n] = f.tail[n]
        BY <1>1, <1>2, <1>4, <4>1
      <4>3. QED BY <3>1, <4>2 DEF FlatAt
    <3>4. QED BY <3>2, <3>3
  <2>2. CASE n = Len(f.tail) + 1
    <3>1. ImageAt(g, n) = ReplayLine(ImageOf(f), l)
      BY <1>1, <1>2, <2>2 DEF ImageOf
    <3>2. ImageAt(g, n - 1) = ImageOf(f) /\ g.tail[n].line = l
      BY <1>1, <1>2, <1>4, <2>2 DEF ImageOf
    <3>3. QED BY <1>3, <3>1, <3>2, ReplayOneDimension DEF FlatAt
  <2>3. QED BY <1>1, <2>1, <2>2
<1>6. QED BY <1>5

LEMMA FlatCut ==
  ASSUME NEW f, FlatFile(f), NEW n \in 0 .. Len(f.tail), NEW g,
         g.base = f.base, g.tail = Cut(f, n).tail
  PROVE  Len(g.tail) = n /\ \A m \in 0 .. n : FlatAt(g, m)
<1>1. /\ Len(Cut(f, n).tail) = n
      /\ \A m \in 1 .. n : Cut(f, n).tail[m] = f.tail[m]
  BY CutOK DEF FlatFile
<1>2. n \in Nat /\ Len(f.tail) \in Nat
  BY DEF FlatFile, FileOK, File
<1>3. ASSUME NEW m \in 0 .. n
      PROVE  ImageAt(g, m) = ImageAt(f, m)
  BY <1>1, <1>2 DEF ImageAt
<1>4. ASSUME NEW m \in 0 .. n
      PROVE  FlatAt(g, m)
  <2>1. FlatAt(f, m) /\ ImageAt(g, m) = ImageAt(f, m)
    BY <1>2, <1>3 DEF FlatFile
  <2>2. m # 0 => ImageAt(g, m - 1) = ImageAt(f, m - 1) /\ g.tail[m] = f.tail[m]
    BY <1>1, <1>2, <1>3
  <2>3. QED BY <2>1, <2>2 DEF FlatAt
<1>5. QED BY <1>1, <1>4

LEMMA FlatAppend ==
  ASSUME NEW f, FlatFile(f), NEW l \in Lines, NEW g \in AppendLine(f, l)
  PROVE  FlatFile(g)
<1> DEFINE n    == Len(f.tail)
           head == [Cut(f, n - 1) EXCEPT !.synced = IF @ < n THEN @ ELSE n - 1]
<1>0. FileOK(f) /\ f \in File /\ FileOK(g) /\ n \in Nat
  BY AppendLineOK DEF FlatFile, FileOK, File
<1>1. CASE f.open /\ \E x \in Fused(f.tail[n].line) : g = AddLine(head, x)
  <2>1. n \in 1 .. n /\ n - 1 \in 0 .. n /\ f.tail[n] \in Entry
    BY <1>0, <1>1 DEF FileOK, File
  <2>2. PICK x \in Fused(f.tail[n].line) : g = AddLine(head, x)
    BY <1>1
  <2>3. x \in Lines
    BY <2>1, <2>2, FragmentsType DEF Entry
  <2>4. Cut(f, n - 1) \in File /\ Cut(f, n - 1).base = f.base /\ Cut(f, n - 1).synced = f.synced
    BY <1>0, <2>1, CutOK
  <2>5. head \in File /\ head.tail = Cut(f, n - 1).tail /\ head.base = f.base
    BY <1>0, <2>1, <2>4 DEF File
  <2> HIDE DEF head
  <2>6. Len(head.tail) = n - 1 /\ \A m \in 0 .. n - 1 : FlatAt(head, m)
    BY <2>1, <2>5, FlatCut
  <2>7. QED BY <1>0, <2>2, <2>3, <2>5, <2>6, FlatAdd DEF FlatFile
<1>2. CASE g = AddLine(f, l)
  BY <1>0, <1>2, FlatAdd DEF FlatFile
<1>3. CASE g = f
  BY <1>3
<1>4. CASE \E x \in Fragments(l) : g = AddOpenLine(f, x)
  <2>1. PICK x \in Fragments(l) : g = AddOpenLine(f, x)
    BY <1>4
  <2>2. x \in Lines
    BY <2>1, FragmentsType
  <2>3. g.base = AddLine(f, x).base /\ g.tail = AddLine(f, x).tail
    BY <1>0, <2>1 DEF AddOpenLine, AddLine, File
  <2>4. QED BY <1>0, <2>2, <2>3, FlatAdd DEF FlatFile
<1>5. QED BY <1>1, <1>2, <1>3, <1>4 DEF AppendLine

LEMMA FlatSurvivor ==
  ASSUME NEW f, FlatFile(f), NEW g \in SurvivorsOf(f)
  PROVE  FlatFile(g)
<1> DEFINE kept(n) == [Cut(f, n) EXCEPT !.synced = n]
<1>0. /\ FileOK(f) /\ f \in File /\ f.synced \in Nat /\ Len(f.tail) \in Nat
      /\ f.tail \in Seq(Entry) /\ FileOK(g)
  BY SurvivorOK DEF FlatFile, FileOK, File
<1>1. ASSUME NEW n \in f.synced .. Len(f.tail)
      PROVE  /\ kept(n) \in File /\ Len(kept(n).tail) = n
             /\ \A m \in 0 .. n : FlatAt(kept(n), m)
  <2>1. n \in 0 .. Len(f.tail) /\ n \in Nat
    BY <1>0
  <2>2. Cut(f, n) \in File /\ Cut(f, n).base = f.base
    BY <1>0, <2>1, CutOK
  <2>3. kept(n) \in File /\ kept(n).tail = Cut(f, n).tail /\ kept(n).base = f.base
    BY <2>1, <2>2 DEF File
  <2> HIDE DEF kept
  <2>4. QED BY <2>1, <2>3, FlatCut
<1>2. CASE \E n \in f.synced .. Len(f.tail) : g = kept(n)
  BY <1>0, <1>1, <1>2 DEF FlatFile
<1>3. ASSUME NEW n \in f.synced .. Len(f.tail), n < Len(f.tail),
             NEW x \in Fragments(f.tail[n + 1].line),
             g = [AddOpenLine(kept(n), x) EXCEPT !.synced = n + 1]
      PROVE  FlatFile(g)
  <2>1. f.tail[n + 1] \in Entry
    BY <1>0, <1>3
  <2>2. x \in Lines
    BY <2>1, FragmentsType DEF Entry
  <2>3. PICK b : b = kept(n)
    OBVIOUS
  <2>4. b \in File /\ Len(b.tail) = n /\ \A m \in 0 .. n : FlatAt(b, m)
    BY <1>1, <2>3
  <2>5. g = [AddOpenLine(b, x) EXCEPT !.synced = n + 1]
    BY <1>3, <2>3
  <2> HIDE DEF kept
  <2>6. g.base = AddLine(b, x).base /\ g.tail = AddLine(b, x).tail
    BY <2>4, <2>5 DEF AddOpenLine, AddLine, File
  <2>7. QED BY <1>0, <2>2, <2>4, <2>6, FlatAdd DEF FlatFile
<1>4. QED
  <2> HIDE DEF kept
  <2>1. SurvivorsOf(f) = {kept(n) : n \in f.synced .. Len(f.tail)}
          \cup (IF "tear" \in Faults
                THEN UNION {{[AddOpenLine(kept(n), x) EXCEPT !.synced = n + 1] :
                               x \in Fragments(f.tail[n + 1].line)} :
                              n \in {m \in f.synced .. Len(f.tail) : m < Len(f.tail)}}
                ELSE {})
    BY DEF SurvivorsOf, kept
  <2>2. QED BY <1>2, <1>3, <2>1

LEMMA FlatOthers ==
  /\ \A img \in Image : OneDimension(img) => FlatFile(Rewritten(img))
  /\ \A f : FlatFile(f) => FlatFile(SyncFile(f))
<1>1. ASSUME NEW img \in Image, OneDimension(img)
      PROVE  FlatFile(Rewritten(img))
  <2>1. /\ Len(Rewritten(img).tail) = 0
        /\ ImageAt(Rewritten(img), 0) = img
    BY DEF Rewritten, ImageAt
  <2>2. QED BY <1>1, <2>1, RewrittenOK DEF FlatFile, FlatAt
<1>2. ASSUME NEW f, FlatFile(f)
      PROVE  FlatFile(SyncFile(f))
  <2>1. SyncFile(f).base = f.base /\ SyncFile(f).tail = f.tail
    BY <1>2 DEF SyncFile, FlatFile, FileOK, File
  <2>2. \A n : ImageAt(SyncFile(f), n) = ImageAt(f, n)
    BY <2>1 DEF ImageAt
  <2>3. QED BY <1>2, <2>1, <2>2, SyncFileOK DEF FlatFile, FlatAt
<1>3. QED BY <1>1, <1>2

DimsInv ==
  /\ TypeInv
  /\ OneDimension(mem)
  /\ FlatFile(file) /\ \A f \in priors : FlatFile(f)

LEMMA DimsStep ==
  ASSUME DimsInv, [Next]_vars
  PROVE  DimsInv'
<1>0. TypeInv'
  BY TypeStep DEF DimsInv
<1>a. /\ mem \in Memory /\ OneDimension(mem) /\ FlatFile(file) /\ TypeOK
      /\ file \in File /\ \A f \in priors : FlatFile(f)
  BY DEF DimsInv, TypeInv, TypeOK
<1>b. ASSUME mem'.vecs = mem.vecs, mem'.dims = mem.dims
      PROVE  OneDimension(mem')
  BY <1>a, <1>b DEF OneDimension, LiveIds
<1>c. [mem EXCEPT !.kv = Purged(mem.kv)].vecs = mem.vecs
      /\ [mem EXCEPT !.kv = Purged(mem.kv)].dims = mem.dims
  BY <1>a DEF Memory
<1>d. OneDimension(EmptyMemory)
  BY DEF OneDimension, LiveIds, EmptyMemory, NoVecs
<1>1. ASSUME NEW c \in Clients, Command(c)
      PROVE  DimsInv'
  <2>1. ASSUME NEW l \in SetLines \cup DelLines, file' \in AppendLine(file, l),
               UNCHANGED <<mem, priors>>
        PROVE  DimsInv'
    BY <1>0, <1>a, <1>b, <2>1, FlatAppend DEF DimsInv, Lines
  <2>2. ASSUME NEW k \in Keys, NEW s \in Vals, NEW t \in Ttls \cup {NoTtl}, SetLog(c, k, s, t)
        PROVE  DimsInv'
    BY <2>1, <2>2, CommandLines DEF SetLog
  <2>3. ASSUME NEW k \in Keys, DelLog(c, k)
        PROVE  DimsInv'
    BY <2>1, <2>3, CommandLines DEF DelLog
  <2>4. ASSUME OneDimension(mem'), UNCHANGED <<file, priors>>
        PROVE  DimsInv'
    BY <1>0, <1>a, <2>4 DEF DimsInv
  <2>5. ASSUME NEW i \in Ids, NEW v \in Vecs, Vset(c, i, v)
        PROVE  DimsInv'
    BY <1>a, <2>4, <2>5, AddOneDimension DEF Vset
  <2>6. ASSUME NEW i \in Ids, Vdel(c, i)
        PROVE  DimsInv'
    BY <1>a, <2>4, <2>6, RemoveOneDimension DEF Vdel
  <2>7. ASSUME NEW p \in IdPrefixes, VdelPrefix(c, p)
        PROVE  DimsInv'
    BY <1>a, <2>4, <2>7, RemoveOneDimension, DataAssumption DEF VdelPrefix
  <2>8. CASE Vclear(c)
    BY <1>a, <2>4, <2>8, ClearFields DEF Vclear
  <2>9. QED BY <1>1, <2>2, <2>3, <2>5, <2>6, <2>7, <2>8 DEF Command
<1>2. ASSUME NEW c \in Clients, ClientStep(c)
      PROVE  DimsInv'
  <2>1. CASE SetMem(c)
    <3>1. PICK m : mem' = [mem EXCEPT !.kv = m]
      BY <2>1 DEF SetMem
    <3>2. mem'.vecs = mem.vecs /\ mem'.dims = mem.dims
      BY <1>a, <3>1 DEF Memory
    <3>3. QED BY <1>0, <1>a, <1>b, <2>1, <3>2 DEF SetMem, DimsInv
  <2>2. CASE DelMem(c)
    <3>1. PICK m : mem' = [mem EXCEPT !.kv = m]
      BY <2>2 DEF DelMem
    <3>2. mem'.vecs = mem.vecs /\ mem'.dims = mem.dims
      BY <1>a, <3>1 DEF Memory
    <3>3. QED BY <1>0, <1>a, <1>b, <2>2, <3>2 DEF DelMem, DimsInv
  <2>3. CASE AppendVectorLine(c)
    <3>1. arg[c] \in Lines
      BY <2>3 DEF AppendVectorLine, DimsInv, TypeInv, ArgOK, AppendedLines, Lines, VectorLines
    <3>2. QED BY <1>0, <1>a, <1>b, <2>3, <3>1, FlatAppend DEF AppendVectorLine, DimsInv
  <2>4. CASE Note(c)
    BY <1>0, <1>a, <1>b, <2>4 DEF Note, DimsInv
  <2>5. CASE CompactRename(c)
    <3>1. OneDimension(SnapshotImage) /\ SnapshotImage \in Image
      BY <1>a, SnapshotFollows, SnapshotImageType DEF GoodImage
    <3>2. FlatFile(file') /\ \A f \in priors' : FlatFile(f)
      BY <1>a, <2>5, <3>1, FlatOthers DEF CompactRename
    <3>3. OneDimension(mem')
      BY <1>b, <1>c, <2>5 DEF CompactRename
    <3>4. QED BY <1>0, <3>2, <3>3 DEF DimsInv
  <2>6. CASE CompactFail(c)
    <3>1. arg[c] = NoLine \/ arg[c] \in Lines
      BY <2>6 DEF CompactFail, DimsInv, TypeInv, ArgOK, Lines
    <3>2. FlatFile(file') /\ priors' = priors
      BY <1>a, <2>6, <3>1, FlatAppend DEF CompactFail
    <3>3. OneDimension(mem')
      BY <1>b, <1>c, <2>6 DEF CompactFail
    <3>4. QED BY <1>0, <1>a, <3>2, <3>3 DEF DimsInv
  <2>7. CASE DirSync(c)
    <3>1. priors' \subseteq priors /\ file' = file /\ mem' = mem
      BY <2>7 DEF DirSync
    <3>2. QED BY <1>0, <1>a, <1>b, <3>1 DEF DimsInv
  <2>8. QED BY <1>2, <2>1, <2>2, <2>3, <2>4, <2>5, <2>6, <2>7 DEF ClientStep
<1>3. CASE TtlCleanup
  BY <1>0, <1>a, <1>b, <1>c, <1>3 DEF TtlCleanup, DimsInv
<1>4. CASE FsyncWal
  BY <1>0, <1>a, <1>b, <1>4, FlatOthers DEF FsyncWal, DimsInv
<1>5. CASE Tick
  BY <1>0, <1>a, <1>b, <1>5 DEF Tick, DimsInv
<1>6. CASE ProcessCrash
  <2>1. FlatFile(file')
    <3>1. CASE file' = file
      BY <1>a, <3>1
    <3>2. ASSUME NEW c \in Clients, pc[c] = "append", file' = AddOpenLine(file, arg[c])
          PROVE  FlatFile(file')
      <4>1. arg[c] \in Lines
        BY <3>2 DEF DimsInv, TypeInv, ArgOK, AppendedLines, Lines, VectorLines
      <4>2. file'.base = AddLine(file, arg[c]).base /\ file'.tail = AddLine(file, arg[c]).tail
        BY <1>a, <3>2 DEF AddOpenLine, AddLine, File
      <4>3. FileOK(file')
        BY <1>0 DEF TypeInv, FilesOK
      <4>4. QED BY <1>a, <4>1, <4>2, <4>3, FlatAdd DEF FlatFile
    <3>3. QED BY <1>6, <3>1, <3>2 DEF ProcessCrash
  <2>2. QED BY <1>0, <1>a, <1>d, <1>6, <2>1 DEF ProcessCrash, Down, DimsInv
<1>7. CASE HostCrash
  <2>1. FlatFile(file')
    BY <1>a, <1>7, FlatSurvivor DEF HostCrash
  <2>2. QED BY <1>0, <1>d, <1>7, <2>1 DEF HostCrash, Down, DimsInv
<1>8. CASE Restart
  <2>1. PICK img : img = ImageOf(file)
    OBVIOUS
  <2>2. mem'.vecs = img.vecs /\ mem'.dims = img.dims
    BY <1>8, <2>1 DEF Restart
  <2>3. OneDimension(img)
    BY <1>a, <2>1 DEF FlatFile, FlatAt, FileOK, File, ImageOf
  <2>4. OneDimension(mem')
    BY <2>2, <2>3 DEF OneDimension, LiveIds
  <2>5. QED BY <1>0, <1>a, <1>8, <2>4 DEF Restart, DimsInv
<1>9. CASE UNCHANGED vars
  BY <1>0, <1>a, <1>b, <1>9 DEF vars, DimsInv
<1>10. QED BY <1>1, <1>2, <1>3, <1>4, <1>5, <1>6, <1>7, <1>8, <1>9 DEF Next

LEMMA DimsInit == Init => DimsInv
<1> SUFFICES ASSUME Init PROVE DimsInv
  OBVIOUS
<1>1. OneDimension(mem) /\ OneDimension(EmptyImage) /\ EmptyImage \in Image
  BY DEF Init, EmptyMemory, EmptyImage, OneDimension, LiveIds, NoVecs, Image, VecMap
<1>2. file = Rewritten(EmptyImage) /\ priors = {}
  BY DEF Init, EmptyFile, Rewritten
<1>3. QED BY <1>1, <1>2, TypeInit, FlatOthers DEF DimsInv

(* The index and every log that can be replayed hold vectors of one        *)
(* dimension, the one the index reports, whatever lines the disk has lost  *)
(* or torn: a search never meets a vector of another length.               *)
THEOREM OneDimensionAlways == Spec => []DimsConsistent
<1>1. Init => DimsInv
  BY DimsInit
<1>2. DimsInv /\ [Next]_vars => DimsInv'
  BY DimsStep
<1>3. DimsInv => DimsConsistent
  BY DEF DimsInv, DimsConsistent, FlatFile, FlatAt, FileOK, File, ImageOf
<1>4. QED BY <1>1, <1>2, <1>3, PTL DEF Spec

-----------------------------------------------------------------------------
(* What a reader of the strings sees.  Purging shows it nothing new, nor   *)
(* does time passing: both can only hide a string that has expired.        *)
LEMMA PurgeShowsNothing ==
  ASSUME NEW k \in Keys, mem'.kv = Purged(mem.kv), now' = now
  PROVE  Get(k)' = Get(k) \/ Get(k)' = Absent
BY DEF Get, Purged, Expired

LEMMA TickShowsNothing ==
  ASSUME TypeOK, NEW k \in Keys, mem' = mem, now' = now + 1
  PROVE  Get(k)' = Get(k) \/ Get(k)' = Absent
<1>1. PICK e \in KvEntry \cup {Absent} : e = mem.kv[k]
  BY DEF TypeOK, Memory
<1>2. CASE e = Absent
  BY <1>1, <1>2 DEF Get
<1>3. CASE e.exp = NoTtl
  BY <1>1, <1>3 DEF Get, Expired
<1>4. CASE e # Absent /\ e.exp # NoTtl
  <2>1. e.exp \in Int /\ now \in Int
    BY <1>4 DEF KvEntry, TypeOK
  <2>2. now > e.exp => now' > e.exp
    BY <2>1
  <2>3. QED BY <1>1, <1>4, <2>2 DEF Get, Expired
<1>5. QED BY <1>2, <1>3, <1>4

(* A value that a step shows to readers is in the log by then: the step is *)
(* the second half of a SET, whose first half logged it.                   *)
LEMMA ShownIsLogged ==
  ASSUME SafeDisk, LogInv, [Next]_vars, up, up',
         NEW k \in Keys, Get(k)' # Get(k), Get(k)' # Absent
  PROVE  ImageOf(file).kv[k] # Absent /\ ImageOf(file).kv[k].val = Get(k)'.val
<1>a. TypeOK /\ mem \in Memory
  BY DEF LogInv, TypeInv, TypeOK
<1>b. ASSUME mem'.kv = mem.kv, now' = now PROVE FALSE
  BY <1>b DEF Get, Expired
<1>c. ASSUME mem' = [mem EXCEPT !.kv = Purged(mem.kv)], now' = now PROVE FALSE
  <2>1. mem'.kv = Purged(mem.kv)
    BY <1>a, <1>c DEF Memory
  <2>2. QED BY <1>c, <2>1, PurgeShowsNothing
<1>d. ASSUME NEW S \in SUBSET Ids PROVE RemoveIds(mem, S).kv = mem.kv
  BY <1>a DEF RemoveIds, Memory
<1>1. ASSUME NEW c \in Clients, Command(c)
      PROVE  FALSE
  <2>1. ASSUME NEW x \in Keys, NEW s \in Vals, NEW t \in Ttls \cup {NoTtl}, SetLog(c, x, s, t)
        PROVE  FALSE
    BY <1>b, <2>1 DEF SetLog
  <2>2. ASSUME NEW x \in Keys, DelLog(c, x)
        PROVE  FALSE
    BY <1>b, <2>2 DEF DelLog
  <2>3. ASSUME NEW i \in Ids, NEW v \in Vecs, Vset(c, i, v)
        PROVE  FALSE
    <3>1. AddOrUpdate(mem, i, v).kv = mem.kv
      BY <1>a DEF AddOrUpdate, Memory
    <3>2. QED BY <1>b, <2>3, <3>1 DEF Vset
  <2>4. ASSUME NEW i \in Ids, Vdel(c, i)
        PROVE  FALSE
    BY <1>b, <1>d, <2>4 DEF Vdel
  <2>5. ASSUME NEW p \in IdPrefixes, VdelPrefix(c, p)
        PROVE  FALSE
    BY <1>b, <1>d, <2>5, DataAssumption DEF VdelPrefix
  <2>6. CASE Vclear(c)
    <3>1. Clear(mem).kv = mem.kv
      BY <1>a DEF Clear, Memory
    <3>2. QED BY <1>b, <2>6, <3>1 DEF Vclear
  <2>7. QED BY <1>1, <2>1, <2>2, <2>3, <2>4, <2>5, <2>6 DEF Command
<1>2. ASSUME NEW c \in Clients, SetMem(c)
      PROVE  ImageOf(file).kv[k] # Absent /\ ImageOf(file).kv[k].val = Get(k)'.val
  <2>1. PICK l : l = arg[c]
    OBVIOUS
  <2>2. l \in SetLines /\ l.op = "SET" /\ l.key \in Keys
    BY <1>2, <2>1 DEF SetMem, LogInv, TypeInv, ArgOK, SetLines
  <2>3. PICK exp : mem' = [mem EXCEPT !.kv = [mem.kv EXCEPT ![l.key] = [val |-> l.val, exp |-> exp]]]
    BY <1>2, <2>1 DEF SetMem
  <2>4. /\ mem'.kv[l.key] = [val |-> l.val, exp |-> exp]
        /\ \A x \in Keys \ {l.key} : mem'.kv[x] = mem.kv[x]
    BY <1>a, <2>2, <2>3 DEF Memory
  <2>5. now' = now
    BY <1>2 DEF SetMem
  <2>6. k = l.key
    BY <2>4, <2>5 DEF Get, Expired
  <2>7. Get(k)'.val = l.val
    BY <2>4, <2>6 DEF Get
  <2>8. ImageOf(file).kv[k] = LoggedEntry(l)
    BY <1>2, <2>1, <2>2, <2>6 DEF LogInv, StringsFollow, Unapplied, SetMem
  <2>9. LoggedEntry(l) = [val |-> l.val, exp |-> l.ttl] /\ LoggedEntry(l) \in KvEntry
    BY <2>2, DataAssumption DEF LoggedEntry, SetLines, KvEntry
  <2>10. QED BY <2>7, <2>8, <2>9, DataAssumption
<1>3. ASSUME NEW c \in Clients, ClientStep(c), ~SetMem(c)
      PROVE  FALSE
  <2>1. CASE DelMem(c)
    <3>1. arg[c].key \in Keys
      BY <2>1 DEF DelMem, LogInv, TypeInv, ArgOK, DelLines
    <3>2. /\ mem'.kv[arg[c].key] = Absent
          /\ \A x \in Keys \ {arg[c].key} : mem'.kv[x] = mem.kv[x]
      BY <1>a, <2>1, <3>1 DEF DelMem, Memory
    <3>3. QED BY <2>1, <3>2 DEF DelMem, Get, Expired
  <2>2. CASE AppendVectorLine(c)
    BY <1>b, <2>2 DEF AppendVectorLine
  <2>3. CASE Note(c)
    BY <1>b, <2>3 DEF Note
  <2>4. CASE CompactRename(c)
    BY <1>c, <2>4 DEF CompactRename
  <2>5. CASE CompactFail(c)
    BY <1>c, <2>5 DEF CompactFail
  <2>6. CASE DirSync(c)
    BY <1>b, <2>6 DEF DirSync
  <2>7. QED BY <1>3, <2>1, <2>2, <2>3, <2>4, <2>5, <2>6 DEF ClientStep
<1>4. CASE TtlCleanup
  BY <1>c, <1>4 DEF TtlCleanup
<1>5. CASE FsyncWal
  BY <1>b, <1>5 DEF FsyncWal
<1>6. CASE Tick
  BY <1>a, <1>6, TickShowsNothing DEF Tick
<1>7. CASE ProcessCrash \/ HostCrash \/ Restart
  BY <1>7 DEF ProcessCrash, HostCrash, Restart, Down
<1>8. CASE UNCHANGED vars
  BY <1>b, <1>8 DEF vars
<1>9. QED BY <1>1, <1>2, <1>3, <1>4, <1>5, <1>6, <1>7, <1>8 DEF Next

(* A string is in the log before a GET can see it, for any number of       *)
(* clients, keys and times to live: no reader is shown a value that a      *)
(* process crash takes back.                                               *)
THEOREM LogBeforeMemory ==
  ASSUME SafeDisk
  PROVE  Spec => WriteAhead
<1>1. Init => LogInv
  BY LogInit
<1>2. LogInv /\ [Next]_vars => LogInv'
  BY LogStep
<1> DEFINE Shown == up /\ up' => \A k \in Keys :
                      Get(k)' # Get(k) /\ Get(k)' # Absent
                        => /\ ImageOf(file).kv[k] # Absent
                           /\ ImageOf(file).kv[k].val = Get(k)'.val
<1>3. LogInv /\ [Next]_vars => [Shown]_vars
  BY ShownIsLogged
<1> HIDE DEF Shown
<1>4. Spec => [][Shown]_vars
  BY <1>1, <1>2, <1>3, PTL DEF Spec
<1>5. QED BY <1>4 DEF WriteAhead, Shown

-----------------------------------------------------------------------------
(* The variables of DurableMap as the refinement maps them.                *)
Recorded  == ImageOf(file).vecs
Returning == UNION {VecsOnDisk(f) : f \in {file} \cup priors}

(* The indexes a host crash can bring back from a file, after each thing   *)
(* the store does to a file.                                               *)
LEMMA OnDiskHasLast ==
  ASSUME NEW f, GoodFile(f)
  PROVE  ImageOf(f).vecs \in VecsOnDisk(f)
<1>1. Len(f.tail) \in f.synced .. Len(f.tail)
  BY DEF GoodFile, FileOK, File
<1>2. QED BY <1>1 DEF VecsOnDisk, ImageOf

LEMMA OnDiskAdd ==
  ASSUME NEW f, GoodFile(f), NEW l \in Lines
  PROVE  VecsOnDisk(AddLine(f, l)) = VecsOnDisk(f) \cup {ImageOf(AddLine(f, l)).vecs}
<1> DEFINE g == AddLine(f, l)
           n == Len(f.tail)
<1>1. f \in File /\ n \in Nat /\ f.synced \in Nat /\ f.synced <= n
  BY DEF GoodFile, FileOK, File
<1>2. /\ Len(g.tail) = n + 1 /\ g.synced = f.synced
      /\ \A j \in 0 .. n : ImageAt(g, j) = ImageAt(f, j)
  BY <1>1, AddLineImages
<1>3. ImageOf(g) = ImageAt(g, n + 1)
  BY <1>2 DEF ImageOf
<1> HIDE DEF g, n
<1>4. f.synced .. (n + 1) = (f.synced .. n) \cup {n + 1} /\ f.synced .. n \subseteq 0 .. n
  BY <1>1
<1>5. VecsOnDisk(g) = {ImageAt(g, j).vecs : j \in f.synced .. (n + 1)}
  BY <1>2 DEF VecsOnDisk
<1>6. VecsOnDisk(f) = {ImageAt(f, j).vecs : j \in f.synced .. n}
  BY DEF VecsOnDisk, n
<1>7. {ImageAt(g, j).vecs : j \in f.synced .. n} = VecsOnDisk(f)
  BY <1>2, <1>4, <1>6
<1>8. QED BY <1>3, <1>4, <1>5, <1>7 DEF g

LEMMA OnDiskSettled ==
  ASSUME NEW f, f.synced = Len(f.tail), f.synced \in Nat
  PROVE  VecsOnDisk(f) = {ImageOf(f).vecs}
<1>1. f.synced .. Len(f.tail) = {Len(f.tail)}
  OBVIOUS
<1>2. QED BY <1>1 DEF VecsOnDisk, ImageOf

LEMMA OnDiskSync ==
  ASSUME NEW f, GoodFile(f)
  PROVE  VecsOnDisk(SyncFile(f)) = {ImageOf(f).vecs}
<1>1. SyncFile(f).synced = Len(SyncFile(f).tail) /\ SyncFile(f).synced \in Nat
  BY DEF SyncFile, GoodFile, FileOK, File
<1>2. QED BY <1>1, OnDiskSettled, GoodSyncFile

LEMMA OnDiskRewritten ==
  ASSUME NEW img, GoodImage(img)
  PROVE  VecsOnDisk(Rewritten(img)) = {img.vecs}
<1>1. Rewritten(img).synced = Len(Rewritten(img).tail) /\ Rewritten(img).synced \in Nat
  BY DEF Rewritten
<1>2. QED BY <1>1, OnDiskSettled, GoodRewritten

LEMMA OnDiskSurvivor ==
  ASSUME "tear" \notin Faults, NEW f, GoodFile(f), NEW g \in SurvivorsOf(f)
  PROVE  VecsOnDisk(g) = {ImageOf(g).vecs} /\ ImageOf(g).vecs \in VecsOnDisk(f)
<1>0. FileOK(f) /\ f.synced \in Nat /\ Len(f.tail) \in Nat
  BY DEF GoodFile, FileOK, File
<1>1. PICK n \in f.synced .. Len(f.tail) : g = [Cut(f, n) EXCEPT !.synced = n]
  BY DEF SurvivorsOf
<1>2. n \in 0 .. Len(f.tail) /\ n \in Nat
  BY <1>0, <1>1
<1>3. Cut(f, n) \in File /\ Len(Cut(f, n).tail) = n
  BY <1>0, <1>2, CutOK
<1>4. g.synced = n /\ Len(g.tail) = n
  BY <1>1, <1>3 DEF File
<1>5. VecsOnDisk(g) = {ImageOf(g).vecs}
  BY <1>2, <1>4, OnDiskSettled
<1>6. \E j \in f.synced .. Len(f.tail) : ImageOf(g) = ImageAt(f, j)
  BY SafeSurvivor
<1>7. QED BY <1>5, <1>6 DEF VecsOnDisk

-----------------------------------------------------------------------------
(* What the steps of the store do to the mapped variables.                 *)

LEMMA ReturningParts ==
  /\ Returning = VecsOnDisk(file) \cup UNION {VecsOnDisk(f) : f \in priors}
  /\ Returning' = VecsOnDisk(file') \cup UNION {VecsOnDisk(f) : f \in priors'}
<1>1. Returning = VecsOnDisk(file) \cup UNION {VecsOnDisk(f) : f \in priors}
  BY DEF Returning
<1>2. Returning' = UNION {VecsOnDisk(f) : f \in {file'} \cup priors'}
  BY DEF Returning, VecsOnDisk
<1>3. QED BY <1>1, <1>2

LEMMA MappedType ==
  ASSUME LogInv
  PROVE  /\ mem \in Memory /\ OneDimension(mem) /\ GoodFile(file) /\ FileFacts(file)
         /\ Recorded \in Returning /\ VecsOnDisk(file) \subseteq Returning
BY GoodFileFacts, OnDiskHasLast DEF LogInv, TypeInv, TypeOK, Recorded, Returning

(* A vector command finds the one before it recorded.                      *)
LEMMA ChangeIsChange ==
  ASSUME LogInv, NEW c \in Clients, MayStart(c), lock = Free, up' = up,
         file' = file, priors' = priors,
         \/ \E i \in Ids, v \in Vecs : mem'.vecs = [mem.vecs EXCEPT ![i] = v]
         \/ \E S \in SUBSET Ids : mem'.vecs = [i \in Ids |-> IF i \in S THEN NoVec ELSE mem.vecs[i]]
  PROVE  Durable!Change
<1>1. up
  BY DEF MayStart
<1>2. ImageOf(file).vecs = AsText(mem.vecs)
  BY <1>1, FollowBefore DEF MayStart, CarriesVector, Follows
<1>3. Durable!Text(mem.vecs) = ImageOf(file).vecs
  BY <1>2 DEF Durable!Text, AsText
<1>4. QED BY <1>1, <1>3 DEF Durable!Change

(* A step that makes the log follow memory records it.                     *)
LEMMA RecordIsRecord ==
  ASSUME LogInv, up, up', mem'.vecs = mem.vecs, Follows(ImageOf(file'), mem),
         Returning' = Returning \cup {ImageOf(file').vecs}
  PROVE  Durable!Record
<1>1. Durable!Text(mem.vecs) = ImageOf(file').vecs
  BY DEF Durable!Text, AsText, Follows
<1>2. QED BY <1>1 DEF Durable!Record, Returning

(* Appending the line a client carries adds the index of memory to what    *)
(* may return.                                                             *)
LEMMA AppendIsRecord ==
  ASSUME SafeDisk, LogInv, NEW c \in Clients, CarriesVector(pc[c], arg[c]),
         file' \in AppendLine(file, arg[c]), priors' = priors, up' = up, mem'.vecs = mem.vecs
  PROVE  Durable!Record
<1>1. arg[c] \in Lines
  BY DEF CarriesVector, LogInv, TypeInv, ArgOK, AppendedLines, VectorLines, Lines
<1>2. GoodFile(file) /\ up
  BY SettledBefore DEF CarriesVector
<1>3. file' = AddLine(file, arg[c])
  BY <1>2, SafeAppend DEF SafeDisk
<1>4. Follows(ImageOf(file'), mem)
  BY CarriedAppend
<1>5. VecsOnDisk(file') = VecsOnDisk(file) \cup {ImageOf(file').vecs}
  BY <1>1, <1>2, <1>3, OnDiskAdd
<1>6. Returning' = Returning \cup {ImageOf(file').vecs}
  BY <1>5, ReturningParts
<1>7. up'
  BY <1>2
<1>8. QED BY <1>2, <1>4, <1>6, <1>7, RecordIsRecord

LEMMA MapInit ==
  ASSUME Init
  PROVE  Durable!Init
<1>1. file = EmptyFile /\ mem.vecs = NoVecs /\ up /\ priors = {}
  BY DEF Init, EmptyMemory
<1>2. /\ EmptyFile.synced = Len(EmptyFile.tail) /\ EmptyFile.synced \in Nat
      /\ ImageOf(EmptyFile).vecs = NoVecs
  BY DEF EmptyFile, EmptyImage, ImageOf, ImageAt
<1>3. VecsOnDisk(EmptyFile) = {NoVecs}
  BY <1>2, OnDiskSettled
<1>4. QED BY <1>1, <1>2, <1>3 DEF Durable!Init, NoVecs

(* A step that leaves the mapped variables alone is a stutter.             *)
LEMMA MappedStutter ==
  ASSUME up' = up, mem'.vecs = mem.vecs, file' = file, priors' = priors
  PROVE  UNCHANGED Durable!dvars
<1>1. ImageOf(file') = ImageOf(file)
  OBVIOUS
<1>2. QED BY <1>1 DEF Durable!dvars, ImageOf, VecsOnDisk

(* The log line of a SET or DEL changes none of the vectors in the log.    *)
LEMMA StringLineStutter ==
  ASSUME SafeDisk, LogInv, NEW l \in SetLines \cup DelLines, file' \in AppendLine(file, l),
         up' = up, mem' = mem, priors' = priors
  PROVE  UNCHANGED Durable!dvars
<1>1. GoodFile(file) /\ FileFacts(file) /\ l \in Lines
  BY GoodFileFacts DEF LogInv, Lines
<1>2. file' = AddLine(file, l) /\ file \in File
  BY <1>1, SafeAppend DEF SafeDisk, FileFacts
<1>3. ImageOf(file') = ReplayLine(ImageOf(file), l)
  BY <1>1, <1>2, AddLineImages
<1>4. ImageOf(file').vecs = ImageOf(file).vecs
  BY <1>1, <1>3, ReplayStringLine, ZenonT(60) DEF FileFacts
<1>5. VecsOnDisk(file') = VecsOnDisk(file)
  BY <1>1, <1>2, <1>4, OnDiskAdd, OnDiskHasLast
<1>6. Returning' = Returning
  BY <1>5, ReturningParts
<1>7. QED BY <1>4, <1>6 DEF Durable!dvars, Returning

LEMMA MapCommand ==
  ASSUME SafeDisk, LogInv, NEW c \in Clients, Command(c)
  PROVE  Durable!Next \/ UNCHANGED Durable!dvars
<1>a. mem \in Memory /\ OneDimension(mem)
  BY MappedType
<1>1. ASSUME NEW k \in Keys, NEW s \in Vals, NEW t \in Ttls \cup {NoTtl}, SetLog(c, k, s, t)
      PROVE  UNCHANGED Durable!dvars
  BY <1>1, CommandLines, StringLineStutter DEF SetLog
<1>2. ASSUME NEW k \in Keys, DelLog(c, k)
      PROVE  UNCHANGED Durable!dvars
  BY <1>2, CommandLines, StringLineStutter DEF DelLog
<1>b. walOn = TRUE
  BY DEF LogInv
<1>3. ASSUME NEW i \in Ids, NEW v \in Vecs, Vset(c, i, v)
      PROVE  Durable!Change \/ UNCHANGED Durable!dvars
  <2>1. CASE DimensionMismatch(mem, v)
    BY <1>3, <2>1, MappedStutter DEF Vset
  <2>2. CASE ~DimensionMismatch(mem, v)
    <3>1. mem'.vecs = [mem.vecs EXCEPT ![i] = v]
      BY <1>a, <1>3, <2>2, AddFields DEF Vset
    <3>2. MayStart(c) /\ lock = Free /\ UNCHANGED <<up, file, priors>>
      BY <1>3 DEF Vset
    <3>3. QED BY <3>1, <3>2, ChangeIsChange
  <2>3. QED BY <2>1, <2>2
<1>c. ASSUME NEW S \in SUBSET Ids, mem' = RemoveIds(mem, S), MayStart(c), lock = Free,
             UNCHANGED <<up, file, priors>>
      PROVE  Durable!Change
  <2>1. mem'.vecs = [j \in Ids |-> IF j \in S THEN NoVec ELSE mem.vecs[j]]
    BY <1>a, <1>c, RemoveFields DEF Left
  <2>2. QED BY <1>c, <2>1, ChangeIsChange
<1>4. ASSUME NEW i \in Ids, Vdel(c, i)
      PROVE  Durable!Change
  BY <1>4, <1>b, <1>c DEF Vdel, ThenLog, Acquire
<1>5. ASSUME NEW p \in IdPrefixes, VdelPrefix(c, p)
      PROVE  Durable!Change
  BY <1>5, <1>b, <1>c, DataAssumption DEF VdelPrefix, ThenLog, Acquire
<1>6. CASE Vclear(c)
  <2>1. mem'.vecs = [j \in Ids |-> IF j \in Ids THEN NoVec ELSE mem.vecs[j]]
    BY <1>a, <1>6 DEF Vclear, Clear, Memory, NoVecs
  <2>2. MayStart(c) /\ lock = Free /\ UNCHANGED <<up, file, priors>>
    BY <1>6, <1>b DEF Vclear, ThenLog, Acquire
  <2>3. Ids \in SUBSET Ids
    OBVIOUS
  <2>4. Durable!Change
    BY <2>1, <2>2, <2>3, ChangeIsChange
  <2>5. QED BY <2>4 DEF Durable!Next
<1>7. QED BY <1>1, <1>2, <1>3, <1>4, <1>5, <1>6 DEF Command, Durable!Next

LEMMA MapClientStep ==
  ASSUME SafeDisk, LogInv, NEW c \in Clients, ClientStep(c)
  PROVE  Durable!Next \/ UNCHANGED Durable!dvars
<1>a. mem \in Memory /\ TypeOK /\ OneDimension(mem) /\ GoodFile(file)
  BY MappedType DEF LogInv, TypeInv
<1>b. \A kv : [mem EXCEPT !.kv = kv].vecs = mem.vecs
  BY <1>a DEF Memory
<1>1. CASE SetMem(c)
  <2>1. mem'.vecs = mem.vecs
    BY <1>1, <1>b DEF SetMem
  <2>2. QED BY <1>1, <2>1, MappedStutter DEF SetMem
<1>2. CASE DelMem(c)
  <2>1. mem'.vecs = mem.vecs
    BY <1>2, <1>b DEF DelMem
  <2>2. QED BY <1>2, <2>1, MappedStutter DEF DelMem
<1>3. CASE AppendVectorLine(c)
  <2>1. CarriesVector(pc[c], arg[c])
    BY <1>3 DEF AppendVectorLine, CarriesVector
  <2>2. Durable!Record
    BY <1>3, <2>1, AppendIsRecord DEF AppendVectorLine
  <2>3. QED BY <2>2 DEF Durable!Next
<1>4. CASE Note(c)
  BY <1>4, MappedStutter DEF Note
<1>5. CASE CompactRename(c)
  <2>1. up /\ up' /\ mem'.vecs = mem.vecs
    BY <1>5, <1>b DEF CompactRename, LogInv, LockInv
  <2>2. file' = Rewritten(SnapshotImage) /\ priors' = priors \cup {file}
    BY <1>5 DEF CompactRename
  <2>3. GoodImage(SnapshotImage) /\ Follows(SnapshotImage, mem)
    BY <1>a, SnapshotFollows
  <2>4. ImageOf(file') = SnapshotImage
    BY <2>2, <2>3, GoodRewritten
  <2>5. VecsOnDisk(file') = {ImageOf(file').vecs}
    BY <2>2, <2>3, <2>4, OnDiskRewritten
  <2>6. UNION {VecsOnDisk(f) : f \in priors'}
          = (UNION {VecsOnDisk(f) : f \in priors}) \cup VecsOnDisk(file)
    BY <2>2
  <2>7. Returning' = Returning \cup {ImageOf(file').vecs}
    BY <2>5, <2>6, ReturningParts
  <2>8. Durable!Record
    BY <2>1, <2>3, <2>4, <2>7, RecordIsRecord
  <2>9. QED BY <2>8 DEF Durable!Next
<1>6. CASE CompactFail(c)
  <2>1. mem'.vecs = mem.vecs
    BY <1>6, <1>b DEF CompactFail
  <2>2. CASE arg[c] = NoLine
    BY <1>6, <2>1, <2>2, MappedStutter DEF CompactFail
  <2>3. CASE arg[c] # NoLine
    <3>1. CarriesVector(pc[c], arg[c])
      BY <1>6, <2>3 DEF CompactFail, CarriesVector
    <3>2. Durable!Record
      BY <1>6, <2>1, <2>3, <3>1, AppendIsRecord DEF CompactFail
    <3>3. QED BY <3>2 DEF Durable!Next
  <2>4. QED BY <2>2, <2>3
<1>7. CASE DirSync(c)
  <2>1. CASE priors' = priors
    BY <1>7, <2>1, MappedStutter DEF DirSync
  <2>2. CASE priors' = {}
    <3>1. up' = up /\ mem' = mem /\ file' = file
      BY <1>7 DEF DirSync
    <3>2. Returning' = VecsOnDisk(file)
      BY <2>2, <3>1, ReturningParts
    <3>3. Returning' \subseteq Returning /\ Recorded \in Returning'
      BY <1>a, <3>2, MappedType, OnDiskHasLast DEF Recorded
    <3>4. Durable!Sync
      BY <3>1, <3>3 DEF Durable!Sync, Returning, Recorded, ImageOf
    <3>5. QED BY <3>4 DEF Durable!Next
  <2>3. QED BY <1>7, <2>1, <2>2 DEF DirSync
<1>8. QED BY <1>1, <1>2, <1>3, <1>4, <1>5, <1>6, <1>7 DEF ClientStep

(* Every step of the store is a step of the durable map or a stutter.      *)
LEMMA MapStep ==
  ASSUME SafeDisk, LogInv, [Next]_vars
  PROVE  [Durable!Next]_(Durable!dvars)
<1>a. mem \in Memory /\ TypeOK /\ GoodFile(file) /\ FileFacts(file)
  BY MappedType DEF LogInv, TypeInv
<1>1. ASSUME NEW c \in Clients, Command(c) \/ ClientStep(c)
      PROVE  [Durable!Next]_(Durable!dvars)
  BY <1>1, MapCommand, MapClientStep
<1>2. CASE TtlCleanup
  <2>1. mem'.vecs = mem.vecs
    BY <1>a, <1>2 DEF TtlCleanup, Memory
  <2>2. QED BY <1>2, <2>1, MappedStutter DEF TtlCleanup
<1>3. CASE FsyncWal
  <2>1. up' = up /\ mem' = mem /\ priors' = priors /\ file' = SyncFile(file)
    BY <1>3 DEF FsyncWal
  <2>2. ImageOf(file') = ImageOf(file) /\ VecsOnDisk(file') = {ImageOf(file).vecs}
    BY <1>a, <2>1, GoodSyncFile, OnDiskSync
  <2>3. Returning' \subseteq Returning /\ Recorded \in Returning'
    <3>1. ImageOf(file).vecs \in VecsOnDisk(file)
      BY <1>a, OnDiskHasLast
    <3>2. QED BY <2>1, <2>2, <3>1, ReturningParts DEF Recorded
  <2>4. Durable!Sync
    BY <2>1, <2>2, <2>3 DEF Durable!Sync, Returning, Recorded
  <2>5. QED BY <2>4 DEF Durable!Next
<1>4. CASE Tick
  BY <1>4, MappedStutter DEF Tick
<1>5. CASE ProcessCrash
  <2>1. up' = FALSE /\ file' = file /\ priors' = priors
    BY <1>5 DEF ProcessCrash, Down, SafeDisk
  <2>2. Durable!ProcessCrash
    BY <2>1 DEF Durable!ProcessCrash, ImageOf, VecsOnDisk
  <2>3. QED BY <2>2 DEF Durable!Next
<1>6. CASE HostCrash
  <2>1. up' = FALSE /\ priors' = {}
    BY <1>6 DEF HostCrash, Down
  <2>2. PICK f \in {file} \cup priors : file' \in SurvivorsOf(f)
    BY <1>6 DEF HostCrash
  <2>3. PICK m : m = ImageOf(file').vecs
    OBVIOUS
  <2>4. VecsOnDisk(file') = {m} /\ m \in VecsOnDisk(f)
    BY <2>2, <2>3, OnDiskSurvivor DEF SafeDisk, LogInv
  <2>5. m \in Returning /\ Returning' = {m}
    BY <2>1, <2>2, <2>4, ReturningParts DEF Returning
  <2>6. Durable!HostCrash
    BY <2>1, <2>3, <2>5 DEF Durable!HostCrash, Returning
  <2>7. QED BY <2>6 DEF Durable!Next
<1>7. CASE Restart
  <2>1. ~up /\ up' /\ file' = file /\ priors' = priors /\ mem'.vecs = ImageOf(file).vecs
    BY <1>7 DEF Restart
  <2>2. QED BY <2>1 DEF Durable!dvars, ImageOf, VecsOnDisk
<1>8. CASE UNCHANGED vars
  BY <1>8, MappedStutter DEF vars
<1>9. QED BY <1>1, <1>2, <1>3, <1>4, <1>5, <1>6, <1>7, <1>8 DEF Next

(* The store implements the durable map, for any number of clients, ids,   *)
(* vectors and crashes: one vector command at most is ahead of the log, a  *)
(* process crash undoes only that one, and a host crash returns to an      *)
(* index the log really went through since the disk last caught up.        *)
THEOREM StoreIsDurableMap ==
  ASSUME SafeDisk
  PROVE  Spec => ImplementsDurableMap
<1>1. Init => LogInv
  BY LogInit
<1>2. LogInv /\ [Next]_vars => LogInv'
  BY LogStep
<1>3. Init => Durable!Init
  BY MapInit
<1>4. LogInv /\ [Next]_vars => [Durable!Next]_(Durable!dvars)
  BY MapStep
<1>5. QED BY <1>1, <1>2, <1>3, <1>4, PTL DEF Spec, Durable!Spec, ImplementsDurableMap

-----------------------------------------------------------------------------
(* Why the work of a replay stays bounded.                                 *)
(*                                                                         *)
(* ReplayWorkBounded too is silent while a command is under way.  WorkInv  *)
(* says for each step of a command what the counter knows of the log, and  *)
(* that no point of any log a crash can bring back is more than one line   *)
(* and one removal, which lowers the limit by two, beyond the bound: that  *)
(* much a crash adds to it.                                                *)

(* The disk is safe and rewrites do not fail: with rewrites that fail the  *)
(* log grows as long as they do.                                           *)
RewritesSucceed == SafeDisk /\ "rewrite" \notin Faults

Within(img, n) == img.count <= WalLimit(img) + n
FileWithin(f, n) == \A m \in 0 .. Len(f.tail) : Within(ImageAt(f, m), n)

(* What holds of the log while a client is at a step of its command.       *)
WorkAt(step, line) ==
  /\ step \notin {"note", "compact"} => Within(ImageOf(file), 3 * crashes)
  /\ step = "append" /\ line \in PrefixLines
       => IdsWith[line.prefix] \cap LiveIds(ImageOf(file)) = {}
  /\ ImageOf(file).count = IF step = "note" THEN walLines + 1
                           ELSE IF step = "dirsync" THEN Cardinality(LiveIds(mem))
                           ELSE walLines

WorkInv ==
  /\ \A f \in {file} \cup priors : FileWithin(f, 3 * crashes + 3)
  /\ lock = Free => /\ Within(ImageOf(file), 3 * crashes)
                    /\ up => ImageOf(file).count = walLines
  /\ \A c \in Clients : pc[c] # "idle" => WorkAt(pc[c], arg[c])

-----------------------------------------------------------------------------
(* The limit does not depend on more than which ids live, and follows them *)
(* by two lines each.                                                      *)
LEMMA LimitFacts ==
  ASSUME NEW x, NEW y
  PROVE  /\ WalLimit(x) \in Nat /\ Cardinality(LiveIds(x)) <= WalLimit(x)
         /\ LiveIds(x) = LiveIds(y) => WalLimit(x) = WalLimit(y)
         /\ LiveIds(x) \subseteq LiveIds(y) => WalLimit(x) <= WalLimit(y)
         /\ \A i : LiveIds(y) = LiveIds(x) \ {i} => WalLimit(x) <= WalLimit(y) + 2
<1> DEFINE a == Cardinality(LiveIds(x))
           b == Cardinality(LiveIds(y))
<1>1. a \in Nat /\ b \in Nat /\ WalFloor \in Nat
  BY LiveCount, StoreAssumption
<1>2. /\ WalLimit(x) = IF 2 * a > WalFloor THEN 2 * a ELSE WalFloor
      /\ WalLimit(y) = IF 2 * b > WalFloor THEN 2 * b ELSE WalFloor
  BY DEF WalLimit
<1>3. IsFiniteSet(LiveIds(x)) /\ IsFiniteSet(LiveIds(y))
  BY DataAssumption, FS_Subset DEF LiveIds
<1>4. LiveIds(x) = LiveIds(y) => a = b
  OBVIOUS
<1>5. LiveIds(x) \subseteq LiveIds(y) => a <= b
  BY <1>3, FS_Subset
<1>6. \A i : LiveIds(y) = LiveIds(x) \ {i} => a <= b + 1
  BY <1>1, <1>3, FS_RemoveElement
<1> HIDE DEF a, b
<1>7. QED
  <2>1. WalLimit(x) \in Nat /\ a <= WalLimit(x)
    BY <1>1, <1>2
  <2>2. a = b => WalLimit(x) = WalLimit(y)
    BY <1>2
  <2>3. a <= b => WalLimit(x) <= WalLimit(y)
    BY <1>1, <1>2
  <2>4. a <= b + 1 => WalLimit(x) <= WalLimit(y) + 2
    BY <1>1, <1>2
  <2>5. QED BY <1>4, <1>5, <1>6, <2>1, <2>2, <2>3, <2>4 DEF a

(* A string line changes nothing that the bound speaks of.                 *)
LEMMA StringLineWork ==
  ASSUME NEW img \in Image, img.ok, NEW l \in SetLines \cup DelLines
  PROVE  /\ ReplayLine(img, l).count = img.count
         /\ \A n : Within(img, n) => Within(ReplayLine(img, l), n)
<1>1. ReplayLine(img, l).vecs = img.vecs
  BY ReplayStringLine
<1>2. ReplayLine(img, l).count = img.count
  <2>1. ~Counted(l) /\ l.op \in {"SET", "DEL"}
    BY DEF Counted, SetLines, DelLines
  <2>2. [img EXCEPT !.count = IF Counted(l) THEN @ + 1 ELSE @] = img
    BY <2>1 DEF Image
  <2>3. QED BY <2>1, <2>2 DEF ReplayLine, Image
<1>3. LiveIds(ReplayLine(img, l)) = LiveIds(img)
  BY <1>1 DEF LiveIds
<1>4. WalLimit(ReplayLine(img, l)) = WalLimit(img)
  BY <1>3, LimitFacts
<1>5. QED BY <1>2, <1>4 DEF Within

(* The line of a VSET or VDEL is counted and may lower the limit by two;   *)
(* one of a removal that removes nothing leaves the image as it is.        *)
LEMMA VectorLineWork ==
  ASSUME NEW img, GoodImage(img)
  PROVE  /\ \A l \in VsetLines \cup VdelLines :
              /\ Counted(l) /\ ReplayLine(img, l).count = img.count + 1
              /\ \A n \in Nat : Within(img, n) => Within(ReplayLine(img, l), n + 3)
         /\ \A l \in PrefixLines :
              /\ ~Counted(l)
              /\ IdsWith[l.prefix] \cap LiveIds(img) = {} => ReplayLine(img, l) = img
<1>1. img \in Image /\ img.ok /\ OneDimension(img) /\ img.count \in Nat
  BY DEF GoodImage, Image
<1>2. ASSUME NEW l \in VsetLines \cup VdelLines
      PROVE  /\ Counted(l) /\ ReplayLine(img, l).count = img.count + 1
             /\ \A n \in Nat : Within(img, n) => Within(ReplayLine(img, l), n + 3)
  <2> DEFINE x == Recounted(img, l)
             y == ReplayLine(img, l)
  <2>1. Counted(l) /\ l \in VectorLines
    BY DEF Counted, VsetLines, VdelLines, VectorLines
  <2>2. /\ x \in Image /\ x.vecs = img.vecs /\ x.dims = img.dims
        /\ l \in VsetLines => y = AddOrUpdate(x, l.id, l.vec)
        /\ l \in VdelLines => y = RemoveIds(x, {l.id})
    BY <1>1, <2>1, ReplayVectorLine
  <2>3. x.count = img.count + 1
    BY <1>1, <2>1 DEF Recounted, Image
  <2> HIDE DEF x, y
  <2>4. OneDimension(x) /\ LiveIds(x) = LiveIds(img)
    BY <1>1, <2>2 DEF OneDimension, LiveIds
  <2>5. /\ y.count = x.count
        /\ LiveIds(x) \subseteq LiveIds(y) \/ \E i : LiveIds(y) = LiveIds(x) \ {i}
    <3>1. CASE l \in VsetLines
      <4>1. l.id \in Ids /\ l.vec \in Vecs /\ l.vec # NoVec /\ x.vecs \in VecMap
        BY <2>2, <3>1, DataAssumption DEF VsetLines, Image
      <4>2. CASE DimensionMismatch(x, l.vec)
        BY <2>2, <3>1, <4>2 DEF AddOrUpdate
      <4>3. CASE ~DimensionMismatch(x, l.vec)
        <5>1. y.vecs = [x.vecs EXCEPT ![l.id] = l.vec]
          BY <2>2, <3>1, <4>1, <4>3, AddFields
        <5>2. y.count = x.count
          BY <2>2, <3>1, <4>3 DEF AddOrUpdate, Image
        <5>3. LiveIds(x) \subseteq LiveIds(y)
          BY <4>1, <5>1 DEF LiveIds, VecMap
        <5>4. QED BY <5>2, <5>3
      <4>4. QED BY <4>2, <4>3
    <3>2. CASE l \in VdelLines
      <4>1. {l.id} \in SUBSET Ids
        BY <3>2 DEF VdelLines
      <4>2. y.vecs = Left(x, {l.id})
        BY <2>2, <2>4, <3>2, <4>1, RemoveFields
      <4>3. LiveIds(y) = LiveIds(x) \ {l.id}
        BY <4>2 DEF LiveIds, Left
      <4>4. y.count = x.count
        BY <2>2, <3>2 DEF RemoveIds, Image
      <4>5. QED BY <4>3, <4>4
    <3>3. QED BY <3>1, <3>2
  <2>6. WalLimit(img) <= WalLimit(y) + 2 /\ WalLimit(img) \in Nat /\ WalLimit(y) \in Nat
    <3>1. WalLimit(x) = WalLimit(img) /\ WalLimit(img) \in Nat /\ WalLimit(y) \in Nat
      BY <2>4, LimitFacts
    <3>2. WalLimit(x) <= WalLimit(y) \/ WalLimit(x) <= WalLimit(y) + 2
      BY <2>5, LimitFacts
    <3>3. QED BY <3>1, <3>2
  <2>7. \A n \in Nat : Within(img, n) => Within(y, n + 3)
    BY <1>1, <2>3, <2>5, <2>6 DEF Within
  <2>8. QED BY <2>1, <2>3, <2>5, <2>7 DEF y
<1>3. ASSUME NEW l \in PrefixLines
      PROVE  /\ ~Counted(l)
             /\ IdsWith[l.prefix] \cap LiveIds(img) = {} => ReplayLine(img, l) = img
  <2>1. ~Counted(l) /\ l \in VectorLines
    BY DEF Counted, PrefixLines, VectorLines
  <2>2. Recounted(img, l) = img
    BY <1>1, <2>1 DEF Recounted, Image
  <2>3. ReplayLine(img, l) = RemoveIds(img, IdsWith[l.prefix])
    BY <1>1, <2>1, <2>2, ReplayVectorLine
  <2>4. QED BY <2>1, <2>3 DEF RemoveIds
<1>4. QED BY <1>2, <1>3

LEMMA FileWithinAdd ==
  ASSUME NEW f, GoodFile(f), NEW l \in Lines, NEW n,
         FileWithin(f, n), Within(ReplayLine(ImageOf(f), l), n)
  PROVE  FileWithin(AddLine(f, l), n)
<1> DEFINE g == AddLine(f, l)
<1>1. f \in File /\ Len(f.tail) \in Nat
  BY DEF GoodFile, FileOK, File
<1>2. /\ Len(g.tail) = Len(f.tail) + 1 /\ ImageOf(g) = ReplayLine(ImageOf(f), l)
      /\ \A m \in 0 .. Len(f.tail) : ImageAt(g, m) = ImageAt(f, m)
  BY <1>1, AddLineImages
<1> HIDE DEF g
<1>3. ASSUME NEW m \in 0 .. Len(g.tail)
      PROVE  Within(ImageAt(g, m), n)
  <2>1. CASE m \in 0 .. Len(f.tail)
    BY <1>2, <2>1 DEF FileWithin
  <2>2. CASE m = Len(g.tail)
    BY <1>2, <2>2 DEF ImageOf
  <2>3. QED BY <1>1, <1>2, <2>1, <2>2
<1>4. QED BY <1>3 DEF FileWithin, g

LEMMA FileWithinSync ==
  ASSUME NEW f, GoodFile(f), NEW n, FileWithin(f, n)
  PROVE  FileWithin(SyncFile(f), n)
<1>1. SyncFile(f).base = f.base /\ SyncFile(f).tail = f.tail
  BY DEF SyncFile, GoodFile, FileOK, File
<1>2. \A m : ImageAt(SyncFile(f), m) = ImageAt(f, m)
  BY <1>1 DEF ImageAt
<1>3. QED BY <1>1, <1>2 DEF FileWithin

LEMMA FileWithinSurvivor ==
  ASSUME "tear" \notin Faults, NEW f, GoodFile(f), NEW n, FileWithin(f, n), NEW g \in SurvivorsOf(f)
  PROVE  FileWithin(g, n) /\ Within(ImageOf(g), n)
<1>0. /\ FileOK(f) /\ f.synced \in Nat /\ Len(f.tail) \in Nat
  BY DEF GoodFile, FileOK, File
<1>1. PICK k \in f.synced .. Len(f.tail) : g = [Cut(f, k) EXCEPT !.synced = k]
  BY DEF SurvivorsOf
<1>2. k \in 0 .. Len(f.tail) /\ k \in Nat
  BY <1>0, <1>1
<1>3. /\ Cut(f, k) \in File
      /\ Len(Cut(f, k).tail) = k
      /\ \A m \in 1 .. k : Cut(f, k).tail[m] = f.tail[m]
      /\ Cut(f, k).base = f.base
  BY <1>0, <1>2, CutOK
<1>4. g.tail = Cut(f, k).tail /\ g.base = f.base /\ Len(g.tail) = k
  BY <1>1, <1>3 DEF File
<1>5. ASSUME NEW m \in 0 .. k
      PROVE  ImageAt(g, m) = ImageAt(f, m)
  BY <1>2, <1>3, <1>4, <1>5 DEF ImageAt
<1>6. \A m \in 0 .. k : Within(ImageAt(g, m), n)
  BY <1>0, <1>2, <1>5 DEF FileWithin
<1>7. QED BY <1>2, <1>4, <1>6 DEF FileWithin, ImageOf

LEMMA WithinMore ==
  ASSUME NEW img, img.count \in Nat, NEW n \in Nat, NEW k \in Nat, Within(img, n), n <= k
  PROVE  Within(img, k)
<1>1. WalLimit(img) \in Nat
  BY LimitFacts
<1>2. QED BY <1>1 DEF Within

(* A step of the client at work: only where it gets to has to be looked at.*)
LEMMA WorkAfter ==
  ASSUME LogInv, NEW c \in Clients, lock = Free \/ pc[c] # "idle",
         NEW step \in Steps, NEW line, Goto(c, step, line),
         lock' = IF step = "idle" THEN Free ELSE c,
         \A f \in {file'} \cup priors' : FileWithin(f, 3 * crashes' + 3),
         WorkAt(step, line)'
  PROVE  WorkInv'
<1>1. pc \in [Clients -> Steps] /\ DOMAIN arg = Clients
  BY DEF LogInv, TypeInv, TypeOK
<1>2. pc'[c] = step /\ arg'[c] = line /\ \A d \in Clients \ {c} : pc'[d] = pc[d]
  BY <1>1 DEF Goto
<1>3. \A d \in Clients \ {c} : pc'[d] = "idle"
  BY <1>2, OthersIdle
<1>4. \A d \in Clients : (pc[d] # "idle" => WorkAt(pc[d], arg[d]))'
  BY <1>2, <1>3 DEF WorkAt
<1>5. lock' = Free => step = "idle"
  BY StoreAssumption
<1>6. lock' = Free => /\ Within(ImageOf(file), 3 * crashes)'
                      /\ (ImageOf(file).count = walLines)'
  BY <1>5 DEF WorkAt
<1>7. \A f \in {file'} \cup priors' : FileWithin(f, 3 * crashes + 3)'
  BY DEF FileWithin, Within, WalLimit, LiveIds, ImageAt
<1>8. QED BY <1>4, <1>6, <1>7 DEF WorkInv

(* What is known before a command starts, and before a client goes on.     *)
LEMMA WorkBefore ==
  ASSUME LogInv, WorkInv
  PROVE  /\ crashes \in Nat /\ 3 * crashes \in Nat /\ 3 * crashes + 3 \in Nat
         /\ walLines \in Nat /\ mem \in Memory /\ OneDimension(mem)
         /\ GoodFile(file) /\ FileFacts(file) /\ ImageOf(file).count \in Nat
         /\ \A f \in priors : GoodFile(f)
         /\ FileWithin(file, 3 * crashes + 3)
         /\ \A f \in priors : FileWithin(f, 3 * crashes + 3)
         /\ Follows(ImageOf(file), mem) => /\ LiveIds(ImageOf(file)) = LiveIds(mem)
                                           /\ WalLimit(ImageOf(file)) = WalLimit(mem)
<1>1. /\ crashes \in Nat /\ walLines \in Nat /\ mem \in Memory /\ OneDimension(mem)
      /\ GoodFile(file) /\ FileFacts(file) /\ \A f \in priors : GoodFile(f)
  BY GoodFileFacts DEF LogInv, TypeInv, TypeOK
<1>2. ImageOf(file).count \in Nat
  BY <1>1 DEF FileFacts, Image
<1>3. Follows(ImageOf(file), mem) => LiveIds(ImageOf(file)) = LiveIds(mem)
  BY <1>1, FollowsIsGood DEF FileFacts
<1>4. Follows(ImageOf(file), mem) => WalLimit(ImageOf(file)) = WalLimit(mem)
  BY <1>3, LimitFacts
<1>5. QED BY <1>1, <1>2, <1>3, <1>4 DEF WorkInv

LEMMA WorkInit ==
  ASSUME Init
  PROVE  WorkInv
<1>1. file = EmptyFile /\ priors = {} /\ crashes = 0 /\ walLines = 0
      /\ \A c \in Clients : pc[c] = "idle"
  BY DEF Init
<1>2. Len(file.tail) = 0 /\ ImageAt(file, 0) = EmptyImage /\ EmptyImage.count = 0
  BY <1>1 DEF EmptyFile, ImageAt, EmptyImage
<1>3. Within(EmptyImage, 0) /\ Within(EmptyImage, 3)
  <2>1. WalLimit(EmptyImage) \in Nat
    BY LimitFacts
  <2>2. QED BY <1>2, <2>1 DEF Within
<1>4. QED BY <1>1, <1>2, <1>3 DEF WorkInv, FileWithin, ImageOf

LEMMA WorkCommand ==
  ASSUME SafeDisk, LogInv, WorkInv, NEW c \in Clients, Command(c)
  PROVE  WorkInv'
<1>a. /\ crashes \in Nat /\ 3 * crashes + 3 \in Nat /\ GoodFile(file) /\ FileFacts(file)
      /\ FileWithin(file, 3 * crashes + 3) /\ \A f \in priors : FileWithin(f, 3 * crashes + 3)
      /\ ImageOf(file).count \in Nat /\ 3 * crashes \in Nat
  BY WorkBefore
<1>b. /\ lock = Free => /\ Within(ImageOf(file), 3 * crashes)
                        /\ up => ImageOf(file).count = walLines
  BY DEF WorkInv
<1>s. ASSUME NEW l \in SetLines \cup DelLines, NEW step \in {"set", "del"},
             MayStart(c), Acquire(c), file' \in AppendLine(file, l), Goto(c, step, l),
             UNCHANGED <<up, walOn, mem, walLines, priors, now, crashes>>
      PROVE  WorkInv'
  <2>1. up /\ lock = Free /\ lock' = c /\ step \in Steps /\ l \in Lines /\ l \notin PrefixLines
    BY <1>s DEF MayStart, Acquire, Steps, Lines, SetLines, DelLines, PrefixLines
  <2>2. file' = AddLine(file, l)
    BY <1>a, <1>s, SafeAppend DEF SafeDisk
  <2>3. /\ ReplayLine(ImageOf(file), l).count = ImageOf(file).count
        /\ \A n : Within(ImageOf(file), n) => Within(ReplayLine(ImageOf(file), l), n)
    BY <1>a, StringLineWork DEF FileFacts
  <2>4. ImageOf(file') = ReplayLine(ImageOf(file), l)
    BY <1>a, <2>1, <2>2, AddLineImages DEF FileFacts
  <2>5. Within(ImageOf(file'), 3 * crashes) /\ Within(ImageOf(file'), 3 * crashes + 3)
    BY <1>a, <1>b, <2>1, <2>3, <2>4, WithinMore
  <2>6. FileWithin(file', 3 * crashes + 3)
    BY <1>a, <2>1, <2>2, <2>4, <2>5, FileWithinAdd
  <2>7. ImageOf(file').count = walLines
    BY <1>b, <2>1, <2>3, <2>4
  <2>8. WorkAt(step, l)'
    BY <1>s, <2>1, <2>5, <2>7 DEF WorkAt, Within, WalLimit, LiveIds
  <2>9. QED BY <1>a, <1>s, <2>1, <2>6, <2>8, WorkAfter
<1>v. ASSUME NEW step \in {"append", "compact"}, NEW line, MayStart(c), ThenLog(c, step, line),
             step = "append" /\ line \in PrefixLines
               => IdsWith[line.prefix] \cap LiveIds(ImageOf(file)) = {},
             UNCHANGED <<up, walOn, walLines, file, priors, now, crashes>>
      PROVE  WorkInv'
  <2>1. up /\ lock = Free /\ lock' = c /\ step \in Steps /\ Goto(c, step, line)
    BY <1>v DEF MayStart, ThenLog, Acquire, Steps, LogInv
  <2>2. WorkAt(step, line)'
    BY <1>b, <1>v, <2>1 DEF WorkAt, Within, WalLimit, LiveIds
  <2>3. QED BY <1>a, <1>v, <2>1, <2>2, WorkAfter
<1>1. ASSUME NEW k \in Keys, NEW s \in Vals, NEW t \in Ttls \cup {NoTtl}, SetLog(c, k, s, t)
      PROVE  WorkInv'
  BY <1>1, <1>s, CommandLines DEF SetLog
<1>2. ASSUME NEW k \in Keys, DelLog(c, k)
      PROVE  WorkInv'
  BY <1>2, <1>s, CommandLines DEF DelLog
<1>3. ASSUME NEW i \in Ids, NEW v \in Vecs, Vset(c, i, v)
      PROVE  WorkInv'
  <2>1. CASE DimensionMismatch(mem, v)
    <3>1. UNCHANGED vars
      BY <1>3, <2>1 DEF Vset, vars
    <3>2. QED BY <3>1 DEF vars, WorkInv, WorkAt, FileWithin, Within, WalLimit, LiveIds
  <2>2. CASE ~DimensionMismatch(mem, v)
    <3>1. VsetLine(i, v) \notin PrefixLines
      BY DEF VsetLine, PrefixLines
    <3>2. QED BY <1>3, <1>v, <2>2, <3>1 DEF Vset
  <2>3. QED BY <2>1, <2>2
<1>4. ASSUME NEW i \in Ids, Vdel(c, i)
      PROVE  WorkInv'
  <2>1. VdelLine(i) \notin PrefixLines
    BY DEF VdelLine, PrefixLines
  <2>2. PICK step \in {"append", "compact"} : ThenLog(c, step, VdelLine(i))
    BY <1>4 DEF Vdel
  <2>3. QED BY <1>4, <1>v, <2>1, <2>2 DEF Vdel
<1>5. ASSUME NEW p \in IdPrefixes, VdelPrefix(c, p)
      PROVE  WorkInv'
  <2>1. PICK step \in {"append", "compact"} :
          /\ ThenLog(c, step, VdelPrefixLine(p))
          /\ step = "append" => IdsWith[p] \cap LiveIds(mem) = {}
    BY <1>5 DEF VdelPrefix
  <2>2. up /\ lock = Free /\ pc[c] = "idle" /\ MayStart(c)
    BY <1>5, <2>1 DEF VdelPrefix, MayStart, ThenLog, Acquire, LogInv
  <2>3. Follows(ImageOf(file), mem)
    BY <2>2, FollowBefore DEF CarriesVector
  <2>4. LiveIds(ImageOf(file)) = LiveIds(mem)
    BY <2>3, WorkBefore
  <2>5. VdelPrefixLine(p).prefix = p
    BY DEF VdelPrefixLine
  <2>6. step = "append" => IdsWith[VdelPrefixLine(p).prefix] \cap LiveIds(ImageOf(file)) = {}
    BY <2>1, <2>4, <2>5
  <2>7. QED BY <1>5, <1>v, <2>1, <2>2, <2>6 DEF VdelPrefix
<1>6. CASE Vclear(c)
  BY <1>6, <1>v DEF Vclear
<1>7. QED BY <1>1, <1>2, <1>3, <1>4, <1>5, <1>6 DEF Command

LEMMA WorkClientStep ==
  ASSUME RewritesSucceed, LogInv, WorkInv, NEW c \in Clients, ClientStep(c)
  PROVE  WorkInv'
<1>a. /\ crashes \in Nat /\ 3 * crashes + 3 \in Nat /\ 3 * crashes \in Nat
      /\ walLines \in Nat /\ mem \in Memory /\ OneDimension(mem)
      /\ GoodFile(file) /\ FileFacts(file) /\ ImageOf(file).count \in Nat
      /\ FileWithin(file, 3 * crashes + 3) /\ \A f \in priors : FileWithin(f, 3 * crashes + 3)
  BY WorkBefore
<1>b. pc[c] # "idle" => WorkAt(pc[c], arg[c])
  BY DEF WorkInv
<1>c. Steps = {"idle", "set", "del", "append", "note", "compact", "dirsync"}
  BY DEF Steps
<1>1. CASE SetMem(c) \/ DelMem(c)
  <2>1. /\ pc[c] \in {"set", "del"} /\ Goto(c, "idle", NoLine) /\ lock' = Free
        /\ UNCHANGED <<walLines, file, priors, crashes>>
    BY <1>1 DEF SetMem, DelMem, Reply
  <2>2. Within(ImageOf(file), 3 * crashes) /\ ImageOf(file).count = walLines
    BY <1>b, <2>1 DEF WorkAt
  <2>3. WorkAt("idle", NoLine)'
    BY <2>1, <2>2 DEF WorkAt, Within, WalLimit, LiveIds
  <2>4. QED BY <1>a, <1>c, <2>1, <2>3, WorkAfter
<1>2. CASE AppendVectorLine(c)
  <2>1. /\ pc[c] = "append" /\ file' \in AppendLine(file, arg[c])
        /\ UNCHANGED <<walLines, priors, crashes, mem>>
    BY <1>2 DEF AppendVectorLine
  <2>2. PICK l : l = arg[c]
    OBVIOUS
  <2>3. l \in AppendedLines /\ l \in Lines
    BY <2>1, <2>2 DEF LogInv, TypeInv, ArgOK, AppendedLines, VectorLines, Lines
  <2>4. file' = AddLine(file, l)
    BY <1>a, <2>1, <2>2, SafeAppend DEF RewritesSucceed, SafeDisk
  <2>5. ImageOf(file') = ReplayLine(ImageOf(file), l)
    BY <1>a, <2>3, <2>4, AddLineImages DEF FileFacts
  <2>6. /\ Within(ImageOf(file), 3 * crashes) /\ ImageOf(file).count = walLines
        /\ l \in PrefixLines => IdsWith[l.prefix] \cap LiveIds(ImageOf(file)) = {}
    BY <1>b, <2>1, <2>2 DEF WorkAt
  <2>7. CASE l \in VsetLines \cup VdelLines
    <3>1. /\ Counted(l) /\ ImageOf(file').count = walLines + 1
          /\ Within(ImageOf(file'), 3 * crashes + 3)
      BY <1>a, <2>5, <2>6, <2>7, VectorLineWork DEF FileFacts
    <3>2. FileWithin(file', 3 * crashes + 3)
      BY <1>a, <2>3, <2>4, <2>5, <3>1, FileWithinAdd
    <3>3. Goto(c, "note", NoLine) /\ lock' = c
      BY <1>2, <2>1, <2>2, <3>1 DEF AppendVectorLine, LogInv, LockInv
    <3>4. WorkAt("note", NoLine)'
      BY <2>1, <3>1 DEF WorkAt
    <3>5. QED BY <1>a, <1>c, <2>1, <3>2, <3>3, <3>4, WorkAfter
  <2>8. CASE l \in PrefixLines
    <3>1. ~Counted(l) /\ ImageOf(file') = ImageOf(file)
      BY <1>a, <2>5, <2>6, <2>8, VectorLineWork DEF FileFacts
    <3>2. Within(ImageOf(file'), 3 * crashes) /\ Within(ImageOf(file'), 3 * crashes + 3)
      BY <1>a, <2>6, <3>1, WithinMore
    <3>3. FileWithin(file', 3 * crashes + 3)
      BY <1>a, <2>3, <2>4, <2>5, <3>2, FileWithinAdd
    <3>4. Goto(c, "idle", NoLine) /\ lock' = Free
      BY <1>2, <2>2, <3>1 DEF AppendVectorLine, Reply
    <3>5. WorkAt("idle", NoLine)'
      BY <2>1, <2>6, <3>1, <3>2 DEF WorkAt, Within, WalLimit, LiveIds
    <3>6. QED BY <1>a, <1>c, <2>1, <3>3, <3>4, <3>5, WorkAfter
  <2>9. QED BY <2>3, <2>7, <2>8 DEF AppendedLines
<1>3. CASE Note(c)
  <2>1. /\ pc[c] = "note" /\ walLines' = walLines + 1
        /\ UNCHANGED <<mem, file, priors, crashes>>
    BY <1>3 DEF Note
  <2>2. ImageOf(file).count = walLines'
    BY <1>b, <2>1 DEF WorkAt
  <2>3. Follows(ImageOf(file), mem)
    BY <2>1, SettledBefore DEF CarriesVector
  <2>4. CASE walLines' > WalLimit(mem)
    <3>1. Goto(c, "compact", NoLine) /\ lock' = c
      BY <1>3, <2>1, <2>4 DEF Note, LogInv, LockInv
    <3>2. WorkAt("compact", NoLine)'
      BY <2>1, <2>2 DEF WorkAt
    <3>3. QED BY <1>a, <1>c, <2>1, <3>1, <3>2, WorkAfter
  <2>5. CASE ~(walLines' > WalLimit(mem))
    <3>1. Goto(c, "idle", NoLine) /\ lock' = Free
      BY <1>3, <2>5 DEF Note, Reply
    <3>2. WalLimit(ImageOf(file)) = WalLimit(mem) /\ WalLimit(mem) \in Nat
      BY <2>3, WorkBefore, LimitFacts
    <3>3. Within(ImageOf(file), 3 * crashes)
      BY <1>a, <2>2, <2>5, <3>2 DEF Within
    <3>4. WorkAt("idle", NoLine)'
      BY <2>1, <2>2, <3>3 DEF WorkAt, Within, WalLimit, LiveIds
    <3>5. QED BY <1>a, <1>c, <2>1, <3>1, <3>4, WorkAfter
  <2>6. QED BY <2>4, <2>5
<1>4. CASE CompactRename(c)
  <2>1. /\ pc[c] = "compact" /\ file' = Rewritten(SnapshotImage) /\ priors' = priors \cup {file}
        /\ Goto(c, "dirsync", NoLine) /\ lock' = lock /\ crashes' = crashes
        /\ mem' = [mem EXCEPT !.kv = Purged(mem.kv)]
    BY <1>4 DEF CompactRename
  <2>2. lock' = c /\ mem'.vecs = mem.vecs
    BY <1>a, <2>1 DEF LogInv, LockInv, Memory
  <2>3. Follows(SnapshotImage, mem) /\ GoodImage(SnapshotImage)
    BY <1>a, SnapshotFollows DEF LogInv, TypeInv
  <2>4. LiveIds(SnapshotImage) = LiveIds(mem)
    BY <1>a, <2>3, FollowsIsGood DEF GoodImage
  <2>5. SnapshotImage.count = Cardinality(LiveIds(mem)) /\ SnapshotImage.count \in Nat
    BY LiveCount DEF SnapshotImage
  <2>6. Within(SnapshotImage, 3 * crashes) /\ Within(SnapshotImage, 3 * crashes + 3)
    <3>1. /\ WalLimit(SnapshotImage) \in Nat
          /\ Cardinality(LiveIds(SnapshotImage)) <= WalLimit(SnapshotImage)
      BY LimitFacts
    <3>2. SnapshotImage.count <= WalLimit(SnapshotImage)
      BY <2>4, <2>5, <3>1
    <3>3. QED BY <1>a, <2>5, <3>1, <3>2 DEF Within
  <2>7. Len(file'.tail) = 0 /\ ImageAt(file', 0) = SnapshotImage /\ ImageOf(file') = SnapshotImage
    BY <2>1 DEF Rewritten, ImageAt, ImageOf
  <2>8. FileWithin(file', 3 * crashes + 3)
    BY <2>6, <2>7 DEF FileWithin
  <2>9. LiveIds(mem') = LiveIds(mem)
    BY <2>2 DEF LiveIds
  <2>10. WorkAt("dirsync", NoLine)'
    <3>1. Within(ImageOf(file'), 3 * crashes')
      BY <2>1, <2>6, <2>7
    <3>2. ImageOf(file').count = Cardinality(LiveIds(mem'))
      BY <2>5, <2>7, <2>9
    <3>3. QED BY <3>1, <3>2 DEF WorkAt, Within, WalLimit, LiveIds
  <2>11. QED BY <1>a, <1>c, <2>1, <2>2, <2>8, <2>10, WorkAfter
<1>5. CASE CompactFail(c)
  BY <1>5 DEF CompactFail, RewritesSucceed
<1>6. CASE DirSync(c)
  <2>1. /\ pc[c] = "dirsync" /\ priors' \subseteq priors /\ Goto(c, "idle", NoLine) /\ lock' = Free
        /\ walLines' = Cardinality(LiveIds(mem)) /\ UNCHANGED <<mem, file, crashes>>
    BY <1>6 DEF DirSync, Reply
  <2>2. /\ Within(ImageOf(file), 3 * crashes)
        /\ ImageOf(file).count = Cardinality(LiveIds(mem))
    BY <1>b, <2>1 DEF WorkAt
  <2>3. WorkAt("idle", NoLine)'
    BY <2>1, <2>2 DEF WorkAt, Within, WalLimit, LiveIds
  <2>4. QED BY <1>a, <1>c, <2>1, <2>3, WorkAfter
<1>7. QED BY <1>1, <1>2, <1>3, <1>4, <1>5, <1>6 DEF ClientStep

LEMMA WorkStep ==
  ASSUME RewritesSucceed, LogInv, WorkInv, [Next]_vars
  PROVE  WorkInv'
<1>a. /\ crashes \in Nat /\ 3 * crashes + 3 \in Nat /\ 3 * crashes \in Nat
      /\ walLines \in Nat /\ mem \in Memory
      /\ GoodFile(file) /\ FileFacts(file) /\ ImageOf(file).count \in Nat
      /\ \A f \in priors : GoodFile(f)
      /\ FileWithin(file, 3 * crashes + 3) /\ \A f \in priors : FileWithin(f, 3 * crashes + 3)
  BY WorkBefore
<1>1. ASSUME NEW c \in Clients, Command(c) \/ ClientStep(c)
      PROVE  WorkInv'
  BY <1>1, WorkCommand, WorkClientStep DEF RewritesSucceed
<1>b. ASSUME UNCHANGED <<up, lock, pc, arg, priors, walLines, crashes>>, mem'.vecs = mem.vecs,
             FileWithin(file', 3 * crashes + 3), ImageOf(file') = ImageOf(file)
      PROVE  WorkInv'
  <2>1. LiveIds(mem') = LiveIds(mem)
    BY <1>b DEF LiveIds
  <2>2. ASSUME NEW step, NEW line, WorkAt(step, line)
        PROVE  WorkAt(step, line)'
    BY <1>b, <2>1, <2>2 DEF WorkAt, Within, WalLimit, LiveIds
  <2>3. \A c \in Clients : (pc[c] # "idle" => WorkAt(pc[c], arg[c]))'
    <3>1. ASSUME NEW c \in Clients, pc[c] # "idle"
          PROVE  WorkAt(pc[c], arg[c])'
      <4>1. PICK step, line : step = pc[c] /\ line = arg[c]
        OBVIOUS
      <4>2. WorkAt(step, line)
        BY <3>1, <4>1 DEF WorkInv
      <4>3. WorkAt(step, line)'
        BY <2>2, <4>2
      <4>4. QED BY <1>b, <4>1, <4>3 DEF WorkAt
    <3>2. QED BY <1>b, <3>1
  <2>4. (lock = Free => /\ Within(ImageOf(file), 3 * crashes)
                        /\ up => ImageOf(file).count = walLines)'
    <3>1. lock = Free => /\ Within(ImageOf(file), 3 * crashes)
                         /\ up => ImageOf(file).count = walLines
      BY DEF WorkInv
    <3>2. QED BY <1>b, <3>1 DEF Within, WalLimit, LiveIds
  <2>5. \A f \in {file'} \cup priors' : FileWithin(f, 3 * crashes' + 3)
    BY <1>a, <1>b
  <2>6. \A f \in {file'} \cup priors' : FileWithin(f, 3 * crashes + 3)'
    BY <2>5 DEF FileWithin, Within, WalLimit, LiveIds, ImageAt
  <2>7. QED BY <2>3, <2>4, <2>6 DEF WorkInv
<1>2. CASE TtlCleanup
  <2>1. mem'.vecs = mem.vecs /\ file' = file
    BY <1>a, <1>2 DEF TtlCleanup, Memory
  <2>2. QED BY <1>a, <1>b, <1>2, <2>1 DEF TtlCleanup
<1>3. CASE FsyncWal
  <2>1. ImageOf(file') = ImageOf(file) /\ FileWithin(file', 3 * crashes + 3)
    BY <1>a, <1>3, GoodSyncFile, FileWithinSync DEF FsyncWal
  <2>2. QED BY <1>b, <1>3, <2>1 DEF FsyncWal
<1>4. CASE Tick
  BY <1>a, <1>b, <1>4 DEF Tick
<1>c. ASSUME Down, ~up', FileWithin(file', 3 * crashes + 3), Within(ImageOf(file'), 3 * crashes + 3),
             ImageOf(file') \in Image, \A f \in priors' : FileWithin(f, 3 * crashes + 3),
             GoodFile(file'), \A f \in priors' : GoodFile(f)
      PROVE  WorkInv'
  <2>1. crashes' = crashes + 1 /\ \A c \in Clients : pc'[c] = "idle"
    BY <1>c DEF Down
  <2>2. 3 * crashes' = 3 * crashes + 3 /\ 3 * crashes' + 3 \in Nat
    BY <1>a, <2>1
  <2>3. ASSUME NEW f, GoodFile(f), FileWithin(f, 3 * crashes + 3)
        PROVE  FileWithin(f, 3 * crashes' + 3)
    <3>1. ASSUME NEW m \in 0 .. Len(f.tail)
          PROVE  Within(ImageAt(f, m), 3 * crashes' + 3)
      <4>1. ImageAt(f, m).count \in Nat /\ Within(ImageAt(f, m), 3 * crashes + 3)
        BY <2>3 DEF GoodFile, GoodImage, Image, FileWithin
      <4>2. 3 * crashes + 3 <= 3 * crashes' + 3
        BY <1>a, <2>2
      <4>3. QED BY <1>a, <2>2, <4>1, <4>2, WithinMore
    <3>2. QED BY <3>1 DEF FileWithin
  <2>4. \A f \in {file'} \cup priors' : FileWithin(f, 3 * crashes' + 3)
    BY <1>c, <2>3
  <2>5. Within(ImageOf(file'), 3 * crashes')
    BY <1>c, <2>2
  <2>6. QED BY <1>c, <2>1, <2>4, <2>5 DEF WorkInv, FileWithin, Within, WalLimit, LiveIds, ImageAt
<1>5. CASE ProcessCrash
  <2>1. up' = FALSE /\ file' = file /\ priors' = priors /\ Down
    BY <1>5 DEF ProcessCrash, Down, RewritesSucceed, SafeDisk
  <2>2. Within(ImageOf(file), 3 * crashes + 3)
    BY <1>a DEF FileWithin, ImageOf, GoodFile, FileOK, File
  <2>3. QED BY <1>a, <1>c, <2>1, <2>2 DEF FileFacts
<1>6. CASE HostCrash
  <2>1. up' = FALSE /\ priors' = {} /\ Down
    BY <1>6 DEF HostCrash, Down
  <2>2. PICK f \in {file} \cup priors : file' \in SurvivorsOf(f)
    BY <1>6 DEF HostCrash
  <2>3. FileWithin(file', 3 * crashes + 3) /\ Within(ImageOf(file'), 3 * crashes + 3)
    BY <1>a, <2>2, FileWithinSurvivor DEF RewritesSucceed, SafeDisk
  <2>4. GoodFile(file')
    BY <1>a, <2>2, SafeSurvivor DEF RewritesSucceed, SafeDisk
  <2>5. ImageOf(file') \in Image
    BY <2>4, GoodFileFacts DEF FileFacts
  <2>6. QED BY <1>c, <2>1, <2>3, <2>4, <2>5
<1>7. CASE Restart
  <2>1. /\ ~up /\ walLines' = ImageOf(file).count
        /\ UNCHANGED <<lock, pc, arg, file, priors, crashes>>
    BY <1>7 DEF Restart
  <2>2. \A c \in Clients : pc'[c] = "idle"
    BY <2>1 DEF LogInv, LockInv
  <2>3. QED BY <2>1, <2>2 DEF WorkInv, FileWithin, Within, WalLimit, LiveIds, ImageAt
<1>8. CASE UNCHANGED vars
  BY <1>a, <1>b, <1>8 DEF vars
<1>9. QED BY <1>1, <1>2, <1>3, <1>4, <1>5, <1>6, <1>7, <1>8 DEF Next

(* A restart never has more to replay than the limit the log is compacted  *)
(* at and three lines for each crash, for any number of clients, vectors   *)
(* and crashes and any floor of the limit, while rewrites succeed; a       *)
(* directory sync may fail, so that an older log comes back.               *)
THEOREM ReplayStaysShort ==
  ASSUME RewritesSucceed
  PROVE  Spec => []ReplayWorkBounded
<1>1. Init => LogInv /\ WorkInv
  BY LogInit, WorkInit DEF RewritesSucceed
<1>2. LogInv /\ WorkInv /\ [Next]_vars => (LogInv /\ WorkInv)'
  BY LogStep, WorkStep DEF RewritesSucceed
<1>3. LogInv /\ WorkInv => ReplayWorkBounded
  <2> SUFFICES ASSUME LogInv, WorkInv, Quiet
               PROVE  ImageOf(file).count <= WalLimit(mem) + 3 * crashes
    BY DEF ReplayWorkBounded
  <2>1. \A c \in Clients : pc[c] = "idle"
    BY StoreAssumption DEF Quiet, LogInv, LockInv
  <2>2. Follows(ImageOf(file), mem)
    BY <2>1 DEF Quiet, LogInv, VecsFollow, VecsAgree, Unlogged, Follows
  <2>3. WalLimit(ImageOf(file)) = WalLimit(mem)
    BY <2>2, WorkBefore
  <2>4. Within(ImageOf(file), 3 * crashes)
    BY DEF Quiet, WorkInv
  <2>5. QED BY <2>3, <2>4 DEF Within
<1>4. QED BY <1>1, <1>2, <1>3, PTL DEF Spec

-----------------------------------------------------------------------------
(* Replay as a fold.  Of the numbers for which something fails there is a  *)
(* smallest.                                                               *)
LEMMA SmallestNumber ==
  ASSUME NEW N \in Nat, NEW B \in SUBSET (0 .. N), B # {}
  PROVE  \E n \in B : \A k \in B : n <= k
<1> DEFINE S    == 0 .. N
           F    == {0 .. n : n \in B}
           Less == StrictSubsetOrdering(S)
<1>1. IsWellFoundedOn(Less, SUBSET S)
  <2>1. IsFiniteSet(S)
    BY FS_Interval
  <2>2. QED BY <2>1, FS_StrictSubsetOrderingWellFounded, FS_FiniteSubsetsOfFinite
<1>2. F \subseteq SUBSET S /\ F # {}
  <2>1. \A n \in B : 0 .. n \subseteq 0 .. N
    OBVIOUS
  <2>2. QED BY <2>1
<1>3. PICK T \in F : \A R \in F : <<R, T>> \notin Less
  <2> HIDE DEF Less, F, S
  <2>1. QED BY <1>1, <1>2, WFMin
<1>4. PICK n \in B : T = 0 .. n
  BY <1>3
<1>5. ASSUME NEW k \in B, k < n PROVE FALSE
  <2>1. 0 .. k \subseteq 0 .. n /\ n \in 0 .. n /\ n \notin 0 .. k
    BY <1>5
  <2>2. 0 .. k \in F
    OBVIOUS
  <2>3. <<0 .. k, T>> \in Less
    BY <1>2, <1>4, <2>1, <2>2 DEF StrictSubsetOrdering
  <2>4. QED BY <2>2, <2>3, <1>3
<1>6. \A k \in B : n <= k
  BY <1>5
<1>7. QED BY <1>4, <1>6

LEMMA MaxIsIn ==
  ASSUME NEW n \in Nat, NEW T \in SUBSET (1 .. n), T # {}
  PROVE  Max(T) \in T /\ \A x \in T : Max(T) >= x
<1> DEFINE B == {k \in 0 .. n : \A x \in T : x <= k}
<1>1. PICK k \in B : \A j \in B : k <= j
  <2>1. n \in B
    OBVIOUS
  <2>2. B \in SUBSET (0 .. n)
    OBVIOUS
  <2> HIDE DEF B
  <2>3. QED BY <2>1, <2>2, SmallestNumber
<1>2. k \in T
  <2>1. SUFFICES ASSUME k \notin T PROVE FALSE
    OBVIOUS
  <2>2. \A x \in T : x <= k - 1
    BY <1>1, <2>1
  <2>3. k # 0
    <3>1. PICK x \in T : x \in 1 .. n
      OBVIOUS
    <3>2. x <= k - 1 /\ k \in Nat
      BY <1>1, <2>2
    <3>3. QED BY <3>1, <3>2
  <2>4. k - 1 \in B
    BY <2>2, <2>3
  <2>5. QED BY <1>1, <2>4
<1>3. \E x \in T : \A y \in T : x >= y
  BY <1>1, <1>2
<1>4. QED BY <1>3 DEF Max

(* g is the function by which the fold over t is computed.                 *)
ReplayOn(base, t, D, g) ==
  g = [T \in D |-> IF T = {} THEN base ELSE ReplayLine(g[T \ {Max(T)}], t[Max(T)])]

LEMMA ReplayExists ==
  ASSUME NEW base, NEW t, NEW n \in Nat
  PROVE  \E g : ReplayOn(base, t, SUBSET (1 .. n), g)
<1> DEFINE D(k) == SUBSET (1 .. k)
           H(k) == \E g : ReplayOn(base, t, D(k), g)
<1>1. H(0)
  <2>1. \A T \in D(0) : T = {}
    OBVIOUS
  <2> DEFINE g == [T \in D(0) |-> base]
  <2>2. ReplayOn(base, t, D(0), g)
    BY <2>1 DEF ReplayOn
  <2>3. QED BY <2>2
<1>2. ASSUME NEW k \in Nat, H(k) PROVE H(k + 1)
  <2>1. PICK g : ReplayOn(base, t, D(k), g)
    BY <1>2
  <2> DEFINE h == [T \in D(k + 1) |-> IF T = {} THEN base ELSE ReplayLine(g[T \ {Max(T)}], t[Max(T)])]
  <2>2. ASSUME NEW T \in D(k + 1), T # {} PROVE T \ {Max(T)} \in D(k)
    <3>1. T \in SUBSET (1 .. k + 1) /\ k + 1 \in Nat
      BY <2>2
    <3>2. Max(T) \in T /\ \A x \in T : Max(T) >= x
      BY <2>2, <3>1, MaxIsIn
    <3> DEFINE top == Max(T)
    <3>3. top \in 1 .. k + 1
      BY <3>1, <3>2
    <3>4. ASSUME NEW x \in T, x # top PROVE x \in 1 .. k
      <4>1. x \in 1 .. k + 1 /\ top >= x
        BY <3>1, <3>2
      <4> HIDE DEF top
      <4>2. QED BY <3>3, <3>4, <4>1
    <3>5. QED BY <3>4
  <2>3. \A T \in D(k) : T \in D(k + 1)
    OBVIOUS
  <2> HIDE DEF D
  <2>4. \A T \in D(k) : h[T] = g[T]
    BY <2>1, <2>3 DEF ReplayOn
  <2>5. h = [T \in D(k + 1) |-> IF T = {} THEN base ELSE ReplayLine(h[T \ {Max(T)}], t[Max(T)])]
    <3>1. \A T \in D(k + 1) : T # {} => h[T \ {Max(T)}] = g[T \ {Max(T)}]
      BY <2>2, <2>4
    <3>2. QED BY <3>1
  <2>6. ReplayOn(base, t, D(k + 1), h)
    <3> HIDE DEF h
    <3>1. QED BY <2>5 DEF ReplayOn
  <2>7. QED BY <2>6
<1> HIDE DEF H
<1>3. H(n)
  <2> DEFINE B == {k \in 0 .. n : ~H(k)}
  <2>1. SUFFICES ASSUME B # {} PROVE FALSE
    OBVIOUS
  <2>2. PICK k \in B : \A j \in B : k <= j
    <3>1. B \in SUBSET (0 .. n)
      OBVIOUS
    <3> HIDE DEF B
    <3>2. QED BY <2>1, <3>1, SmallestNumber
  <2>3. k # 0 /\ k \in Nat
    BY <1>1
  <2>4. k - 1 \in Nat /\ H(k - 1)
    BY <2>2, <2>3
  <2>5. H((k - 1) + 1)
    BY <1>2, <2>4
  <2>6. QED BY <2>3, <2>5
<1>4. QED BY <1>3 DEF H

(* What a fold over a sequence gives, from what each line adds.            *)
LEMMA ReplayIs ==
  ASSUME NEW n \in Nat, NEW t, DOMAIN t = 1 .. n, NEW a,
         \A k \in 1 .. n : a[k] = ReplayLine(a[k - 1], t[k])
  PROVE  FoldLeft(ReplayLine, a[0], t) = a[n]
<1> DEFINE Body(g) == [T \in SUBSET (1 .. n) |->
                         IF T = {} THEN a[0] ELSE ReplayLine(g[T \ {Max(T)}], t[Max(T)])]
           g == CHOOSE g : g = Body(g)
<1>1. FoldLeft(ReplayLine, a[0], t) = g[1 .. n]
  BY DEF FoldLeft, MapThenFoldSet
<1>2. g = Body(g)
  <2>1. PICK h : ReplayOn(a[0], t, SUBSET (1 .. n), h)
    BY ReplayExists
  <2>2. h = Body(h)
    BY <2>1 DEF ReplayOn
  <2>3. QED BY <2>2
<1> HIDE DEF g
<1> DEFINE B == {k \in 0 .. n : g[1 .. k] # a[k]}
<1>3. B = {}
  <2>1. SUFFICES ASSUME B # {} PROVE FALSE
    OBVIOUS
  <2>2. PICK k \in B : \A j \in B : k <= j
    <3>1. B \in SUBSET (0 .. n)
      OBVIOUS
    <3> HIDE DEF B
    <3>2. QED BY <2>1, <3>1, SmallestNumber
  <2>3. k # 0
    <3>1. 1 .. 0 = {}
      OBVIOUS
    <3>2. g[{}] = a[0]
      BY <1>2
    <3>3. QED BY <3>1, <3>2
  <2>4. k \in 1 .. n /\ g[1 .. k - 1] = a[k - 1]
    BY <2>2, <2>3
  <2> DEFINE K == 1 .. k
  <2>k. K \in SUBSET (1 .. n) /\ K # {} /\ k \in K
    <3>1. k \in Nat /\ 1 <= k /\ k <= n
      BY <2>4
    <3>2. k \in 1 .. k /\ \A x \in 1 .. k : x \in 1 .. n
      BY <3>1
    <3>3. QED BY <3>2
  <2>5. Max(1 .. k) = k
    <3>1. 1 .. k \in SUBSET (1 .. n) /\ 1 .. k # {} /\ k \in 1 .. k
      BY <2>k
    <3>2. Max(1 .. k) \in 1 .. k /\ Max(1 .. k) >= k
      BY <3>1, MaxIsIn
    <3>3. QED BY <3>2
  <2>6. (1 .. k) \ {k} = 1 .. k - 1
    BY <2>4
  <2>7. g[1 .. k] = ReplayLine(g[1 .. k - 1], t[k])
    <3>1. 1 .. k \in SUBSET (1 .. n) /\ 1 .. k # {}
      BY <2>k
    <3>2. g[1 .. k] = ReplayLine(g[(1 .. k) \ {Max(1 .. k)}], t[Max(1 .. k)])
      BY <1>2, <3>1
    <3>3. QED BY <2>5, <2>6, <3>2
  <2>8. QED BY <2>4, <2>7
<1>4. g[1 .. n] = a[n]
  BY <1>3
<1>5. QED BY <1>1, <1>4

(* What replay has built of the memory when it has met the lines in M of   *)
(* its snapshot, whatever their order.                                     *)
StringsLine(k) == SetLine(k, SnapshotImage.kv[k].val, SnapshotImage.kv[k].exp)
VectorsLine(i) == VsetLine(i, mem.vecs[i])
StringsIn(M) == {k \in Keys : SnapshotImage.kv[k] # Absent /\ StringsLine(k) \in M}
VectorsIn(M) == {i \in LiveIds(mem) : VectorsLine(i) \in M}
Rebuilt(P, Q) ==
  [kv |-> [k \in Keys |-> IF k \in P THEN SnapshotImage.kv[k] ELSE Absent],
   vecs |-> [i \in Ids |-> IF i \in Q THEN Rounded[mem.vecs[i]] ELSE NoVec],
   dims |-> IF Q = {} THEN 0 ELSE mem.dims,
   count |-> Cardinality(Q),
   ok |-> TRUE]

LEMMA SnapshotLinesAre ==
  SnapshotLines = {StringsLine(k) : k \in {x \in Keys : SnapshotImage.kv[x] # Absent}}
                  \cup {VectorsLine(i) : i \in LiveIds(mem)}
BY DEF SnapshotLines, StringsLine, VectorsLine

LEMMA LinesTellApart ==
  /\ \A j \in Keys, k \in Keys : StringsLine(j) = StringsLine(k) => j = k
  /\ \A i \in Ids, j \in Ids : VectorsLine(i) = VectorsLine(j) => i = j
  /\ \A k \in Keys, i \in Ids : StringsLine(k) # VectorsLine(i)
<1>1. ASSUME NEW j \in Keys, NEW k \in Keys, StringsLine(j) = StringsLine(k)
      PROVE  j = k
  <2>1. StringsLine(j).key = j /\ StringsLine(k).key = k
    BY DEF StringsLine, SetLine
  <2>2. QED BY <1>1, <2>1
<1>2. ASSUME NEW i \in Ids, NEW j \in Ids, VectorsLine(i) = VectorsLine(j)
      PROVE  i = j
  <2>1. VectorsLine(i).id = i /\ VectorsLine(j).id = j
    BY DEF VectorsLine, VsetLine
  <2>2. QED BY <1>2, <2>1
<1>3. ASSUME NEW k \in Keys, NEW i \in Ids
      PROVE  StringsLine(k) # VectorsLine(i)
  <2>1. StringsLine(k).op = "SET" /\ VectorsLine(i).op = "VSET"
    BY DEF StringsLine, SetLine, VectorsLine, VsetLine
  <2>2. QED BY <2>1
<1>4. QED BY <1>1, <1>2, <1>3

LEMMA PartReplaced ==
  ASSUME NEW a, NEW b, NEW c, NEW n, NEW x,
         NEW r, r = [kv |-> a, vecs |-> b, dims |-> c, count |-> n, ok |-> TRUE]
  PROVE  /\ [r EXCEPT !.kv = x] = [kv |-> x, vecs |-> b, dims |-> c, count |-> n, ok |-> TRUE]
         /\ [r EXCEPT !.vecs = x] = [kv |-> a, vecs |-> x, dims |-> c, count |-> n, ok |-> TRUE]
         /\ [r EXCEPT !.dims = x] = [kv |-> a, vecs |-> b, dims |-> x, count |-> n, ok |-> TRUE]
         /\ [r EXCEPT !.count = x] = [kv |-> a, vecs |-> b, dims |-> c, count |-> x, ok |-> TRUE]
<1>1. ASSUME NEW q, q = [r EXCEPT !.kv = x]
      PROVE  q = [kv |-> x, vecs |-> b, dims |-> c, count |-> n, ok |-> TRUE]
  BY <1>1, Zenon
<1>2. ASSUME NEW q, q = [r EXCEPT !.vecs = x]
      PROVE  q = [kv |-> a, vecs |-> x, dims |-> c, count |-> n, ok |-> TRUE]
  BY <1>2, Zenon
<1>3. ASSUME NEW q, q = [r EXCEPT !.dims = x]
      PROVE  q = [kv |-> a, vecs |-> b, dims |-> x, count |-> n, ok |-> TRUE]
  BY <1>3, Zenon
<1>4. ASSUME NEW q, q = [r EXCEPT !.count = x]
      PROVE  q = [kv |-> a, vecs |-> b, dims |-> c, count |-> x, ok |-> TRUE]
  BY <1>4, Zenon
<1>5. QED BY <1>1, <1>2, <1>3, <1>4

LEMMA RebuiltString ==
  ASSUME NEW P \in SUBSET Keys, NEW Q \in SUBSET Ids, NEW k \in Keys,
         SnapshotImage \in Image, SnapshotImage.kv[k] # Absent
  PROVE  ReplayLine(Rebuilt(P, Q), StringsLine(k)) = Rebuilt(P \cup {k}, Q)
<1> DEFINE x == Rebuilt(P, Q)
           l == StringsLine(k)
           e == [val |-> l.val, exp |-> l.ttl]
<1>1. /\ l.op = "SET" /\ l.key = k /\ ~Counted(l)
      /\ l.val = SnapshotImage.kv[k].val /\ l.ttl = SnapshotImage.kv[k].exp
  BY DEF StringsLine, SetLine, Counted
<1>2. SnapshotImage.kv[k] = e
  BY <1>1 DEF Image, KvEntry
<1>3. x.ok /\ x.kv = [j \in Keys |-> IF j \in P THEN SnapshotImage.kv[j] ELSE Absent]
  BY DEF Rebuilt
<1>4. ReplayLine(x, l) = [x EXCEPT !.kv = [x.kv EXCEPT ![k] = e]]
  <2>1. [x EXCEPT !.count = IF Counted(l) THEN @ + 1 ELSE @] = x
    BY <1>1 DEF Rebuilt
  <2> HIDE DEF x, l
  <2>2. QED BY <1>1, <1>3, <2>1 DEF ReplayLine
<1>5. [x.kv EXCEPT ![k] = e] = Rebuilt(P \cup {k}, Q).kv
  BY <1>2, <1>3 DEF Rebuilt
<1>6. [x EXCEPT !.kv = Rebuilt(P \cup {k}, Q).kv] = Rebuilt(P \cup {k}, Q)
  <2> DEFINE z == Rebuilt(P \cup {k}, Q).kv
  <2>1. PICK a, b, c, n : /\ x = [kv |-> a, vecs |-> b, dims |-> c, count |-> n, ok |-> TRUE]
                          /\ Rebuilt(P \cup {k}, Q) = [kv |-> z, vecs |-> b, dims |-> c, count |-> n, ok |-> TRUE]
    BY DEF Rebuilt
  <2> HIDE DEF x, z
  <2>2. PICK q : q = [x EXCEPT !.kv = z]
    OBVIOUS
  <2>3. q = [kv |-> z, vecs |-> b, dims |-> c, count |-> n, ok |-> TRUE]
    BY <2>1, <2>2, PartReplaced
  <2>4. QED BY <2>1, <2>2, <2>3 DEF z
<1>7. QED BY <1>4, <1>5, <1>6

LEMMA RebuiltVector ==
  ASSUME TypeOK, OneDimension(mem),
         NEW P \in SUBSET Keys, NEW Q \in SUBSET LiveIds(mem), NEW i \in LiveIds(mem), i \notin Q
  PROVE  ReplayLine(Rebuilt(P, Q), VectorsLine(i)) = Rebuilt(P, Q \cup {i})
<1> DEFINE x == Rebuilt(P, Q)
           l == VectorsLine(i)
           m == [x EXCEPT !.count = Cardinality(Q) + 1]
           v == Rounded[mem.vecs[i]]
<1>1. i \in Ids /\ mem.vecs[i] \in Vecs /\ v \in Vecs /\ DimOf[v] = mem.dims
  BY DataAssumption DEF LiveIds, TypeOK, Memory, VecMap, OneDimension
<1>2. l.op = "VSET" /\ l.id = i /\ l.vec = v /\ Counted(l)
  BY DEF VectorsLine, VsetLine, Counted
<1>3. ReplayLine(x, l) = AddOrUpdate(m, i, v)
  <2>1. [x EXCEPT !.count = IF Counted(l) THEN @ + 1 ELSE @] = m
    BY <1>2 DEF Rebuilt
  <2>2. x.ok
    BY DEF Rebuilt
  <2> HIDE DEF x, l, m, v
  <2>3. QED BY <1>2, <2>1, <2>2 DEF ReplayLine
<1>4. /\ m.dims = IF Q = {} THEN 0 ELSE mem.dims
      /\ m.vecs = [j \in Ids |-> IF j \in Q THEN Rounded[mem.vecs[j]] ELSE NoVec]
  BY DEF Rebuilt
<1>5. ~DimensionMismatch(m, v) /\ m.vecs[i] = NoVec
  <2> HIDE DEF m, v
  <2>1. QED BY <1>1, <1>4 DEF DimensionMismatch
<1>6. AddOrUpdate(m, i, v) = [m EXCEPT !.vecs = [m.vecs EXCEPT ![i] = v], !.dims = mem.dims]
  <2> HIDE DEF m, v
  <2>1. QED BY <1>1, <1>5 DEF AddOrUpdate
<1>7. [m.vecs EXCEPT ![i] = v] = Rebuilt(P, Q \cup {i}).vecs
  <2> HIDE DEF m
  <2>1. QED BY <1>1, <1>4 DEF Rebuilt
<1>8. Cardinality(Q \cup {i}) = Cardinality(Q) + 1
  <2>1. IsFiniteSet(Q)
    BY DataAssumption, FS_Subset DEF LiveIds
  <2>2. QED BY <2>1, FS_AddElement
<1>9. [m EXCEPT !.vecs = Rebuilt(P, Q \cup {i}).vecs, !.dims = mem.dims] = Rebuilt(P, Q \cup {i})
  <2> DEFINE n == Cardinality(Q) + 1
             z == Rebuilt(P, Q \cup {i}).vecs
             d == mem.dims
  <2>1. PICK a, b, c, k :
          /\ x = [kv |-> a, vecs |-> b, dims |-> c, count |-> k, ok |-> TRUE]
          /\ Rebuilt(P, Q \cup {i}) = [kv |-> a, vecs |-> z, dims |-> d, count |-> n, ok |-> TRUE]
    BY <1>8 DEF Rebuilt
  <2>2. m = [x EXCEPT !.count = n]
    OBVIOUS
  <2> HIDE DEF m, n, x, z, d
  <2>3. m = [kv |-> a, vecs |-> b, dims |-> c, count |-> n, ok |-> TRUE]
    BY <2>1, <2>2, PartReplaced
  <2>4. PICK q : q = [m EXCEPT !.vecs = z]
    OBVIOUS
  <2>5. q = [kv |-> a, vecs |-> z, dims |-> c, count |-> n, ok |-> TRUE]
    BY <2>3, <2>4, PartReplaced
  <2>6. PICK p : p = [q EXCEPT !.dims = d]
    OBVIOUS
  <2>7. p = [kv |-> a, vecs |-> z, dims |-> d, count |-> n, ok |-> TRUE]
    BY <2>5, <2>6, PartReplaced
  <2>8. [m EXCEPT !.vecs = z, !.dims = d] = p
    BY <2>4, <2>6
  <2>9. QED BY <2>1, <2>7, <2>8 DEF z, d
<1>10. QED BY <1>3, <1>6, <1>7, <1>9

LEMMA RebuiltStep ==
  ASSUME TypeOK, OneDimension(mem),
         NEW M, NEW l \in SnapshotLines, l \notin M
  PROVE  ReplayLine(Rebuilt(StringsIn(M), VectorsIn(M)), l)
           = Rebuilt(StringsIn(M \cup {l}), VectorsIn(M \cup {l}))
<1>1. ASSUME NEW k \in Keys, SnapshotImage.kv[k] # Absent, l = StringsLine(k)
      PROVE  ReplayLine(Rebuilt(StringsIn(M), VectorsIn(M)), l)
               = Rebuilt(StringsIn(M \cup {l}), VectorsIn(M \cup {l}))
  <2>1. StringsIn(M \cup {l}) = StringsIn(M) \cup {k}
    BY <1>1, LinesTellApart DEF StringsIn
  <2>2. VectorsIn(M \cup {l}) = VectorsIn(M)
    BY <1>1, LinesTellApart DEF VectorsIn, LiveIds
  <2>3. StringsIn(M) \in SUBSET Keys /\ VectorsIn(M) \in SUBSET Ids
    BY DEF StringsIn, VectorsIn, LiveIds
  <2>4. QED BY <1>1, <2>1, <2>2, <2>3, SnapshotImageType, RebuiltString
<1>2. ASSUME NEW i \in LiveIds(mem), l = VectorsLine(i)
      PROVE  ReplayLine(Rebuilt(StringsIn(M), VectorsIn(M)), l)
               = Rebuilt(StringsIn(M \cup {l}), VectorsIn(M \cup {l}))
  <2>1. VectorsIn(M \cup {l}) = VectorsIn(M) \cup {i}
    BY <1>2, LinesTellApart DEF VectorsIn, LiveIds
  <2>2. StringsIn(M \cup {l}) = StringsIn(M)
    BY <1>2, LinesTellApart DEF StringsIn, LiveIds
  <2>3. StringsIn(M) \in SUBSET Keys /\ VectorsIn(M) \in SUBSET LiveIds(mem) /\ i \notin VectorsIn(M)
    BY <1>2 DEF StringsIn, VectorsIn
  <2>4. QED BY <1>2, <2>1, <2>2, <2>3, RebuiltVector
<1>3. QED BY <1>1, <1>2, SnapshotLinesAre

LEMMA RebuiltEnds ==
  ASSUME TypeOK, OneDimension(mem)
  PROVE  /\ Rebuilt(StringsIn({}), VectorsIn({})) = EmptyImage
         /\ Rebuilt(StringsIn(SnapshotLines), VectorsIn(SnapshotLines)) = SnapshotImage
<1>1. Rebuilt(StringsIn({}), VectorsIn({})) = EmptyImage
  <2>1. StringsIn({}) = {} /\ VectorsIn({}) = {}
    BY DEF StringsIn, VectorsIn
  <2>2. Cardinality({}) = 0
    BY FS_EmptySet
  <2>3. QED BY <2>1, <2>2 DEF Rebuilt, EmptyImage, NoVecs
<1>2. Rebuilt(StringsIn(SnapshotLines), VectorsIn(SnapshotLines)) = SnapshotImage
  <2> DEFINE P == StringsIn(SnapshotLines)
             Q == VectorsIn(SnapshotLines)
  <2>1. Q = LiveIds(mem) /\ \A k \in Keys : k \in P <=> SnapshotImage.kv[k] # Absent
    BY SnapshotLinesAre DEF StringsIn, VectorsIn
  <2> HIDE DEF P, Q
  <2>2. Rebuilt(P, Q).kv = SnapshotImage.kv
    <3>1. Rebuilt(P, Q).kv = [k \in Keys |-> SnapshotImage.kv[k]]
      BY <2>1 DEF Rebuilt
    <3>2. SnapshotImage.kv = [k \in Keys |-> SnapshotImage.kv[k]]
      BY DEF SnapshotImage
    <3>3. QED BY <3>1, <3>2
  <2>3. Rebuilt(P, Q).vecs = SnapshotImage.vecs
    BY <2>1 DEF Rebuilt, SnapshotImage, LiveIds
  <2>4. Rebuilt(P, Q).dims = SnapshotImage.dims
    BY <2>1 DEF Rebuilt, SnapshotImage, OneDimension
  <2>5. /\ Rebuilt(P, Q) = [kv |-> Rebuilt(P, Q).kv, vecs |-> Rebuilt(P, Q).vecs,
                            dims |-> Rebuilt(P, Q).dims, count |-> Cardinality(Q), ok |-> TRUE]
        /\ SnapshotImage = [kv |-> SnapshotImage.kv, vecs |-> SnapshotImage.vecs,
                            dims |-> SnapshotImage.dims, count |-> Cardinality(LiveIds(mem)), ok |-> TRUE]
    BY DEF Rebuilt, SnapshotImage
  <2>6. QED
    <3> SUFFICES Rebuilt(P, Q) = SnapshotImage
      BY DEF P, Q
    <3>1. QED BY <2>1, <2>2, <2>3, <2>4, <2>5
<1>3. QED BY <1>1, <1>2

(* A sequence of all the lines of the snapshot, each of them once, builds  *)
(* the image, whatever the order of the lines.                             *)
LEMMA SnapshotRebuilds ==
  ASSUME IsFiniteSet(Keys), TypeOK, OneDimension(mem), NEW s \in SetToSeqs(SnapshotLines)
  PROVE  FoldLeft(ReplayLine, EmptyImage, s) = SnapshotImage
<1> DEFINE n    == Cardinality(SnapshotLines)
           M(k) == {s[j] : j \in 1 .. k}
           a    == [k \in 0 .. n |-> Rebuilt(StringsIn(M(k)), VectorsIn(M(k)))]
<1>1. IsFiniteSet(SnapshotLines) /\ n \in Nat
  <2> DEFINE S == {StringsLine(k) : k \in {x \in Keys : SnapshotImage.kv[x] # Absent}}
             V == {VectorsLine(i) : i \in LiveIds(mem)}
  <2>1. IsFiniteSet(S)
    <3> DEFINE K == {x \in Keys : SnapshotImage.kv[x] # Absent}
    <3>1. IsFiniteSet(K)
      BY FS_Subset
    <3>2. PICK g : g = [k \in K |-> StringsLine(k)]
      OBVIOUS
    <3>3. g \in Surjection(K, S)
      BY <3>2 DEF Surjection
    <3> HIDE DEF K, S
    <3>4. QED BY <3>1, <3>3, FS_Surjection
  <2>2. IsFiniteSet(V)
    <3>1. IsFiniteSet(LiveIds(mem))
      BY DataAssumption, FS_Subset DEF LiveIds
    <3>2. PICK g : g = [i \in LiveIds(mem) |-> VectorsLine(i)]
      OBVIOUS
    <3>3. g \in Surjection(LiveIds(mem), V)
      BY <3>2 DEF Surjection
    <3> HIDE DEF V
    <3>4. QED BY <3>1, <3>3, FS_Surjection
  <2> HIDE DEF S, V
  <2>3. SnapshotLines = S \cup V
    BY SnapshotLinesAre DEF S, V
  <2>4. QED BY <2>1, <2>2, <2>3, FS_Union, FS_CardinalityType
<1> HIDE DEF n
<1>2. s \in [1 .. n -> SnapshotLines] /\ \A i, j \in 1 .. n : i # j => s[i] # s[j]
  BY DEF SetToSeqs, n
<1>3. M(n) = SnapshotLines
  <2>1. IsFiniteSet(1 .. n) /\ Cardinality(1 .. n) = n
    BY <1>1, FS_Interval
  <2>2. s \in Surjection(1 .. n, SnapshotLines)
    BY <1>1, <1>2, <2>1, FS_Injection DEF Injection, IsInjective, n
  <2>3. QED BY <1>2, <2>2 DEF Surjection
<1>4. ASSUME NEW k \in 1 .. n
      PROVE  a[k] = ReplayLine(a[k - 1], s[k])
  <2>1. k - 1 \in 0 .. n /\ k \in 0 .. n /\ M(k) = M(k - 1) \cup {s[k]}
    BY <1>1
  <2>2. s[k] \in SnapshotLines /\ s[k] \notin M(k - 1)
    BY <1>1, <1>2
  <2> HIDE DEF M
  <2>3. QED BY <2>1, <2>2, RebuiltStep
<1>5. M(0) = {} /\ 0 \in 0 .. n /\ n \in 0 .. n
  BY <1>1
<1>6. a[0] = EmptyImage /\ a[n] = SnapshotImage
  <2> HIDE DEF M
  <2>1. QED BY <1>3, <1>5, RebuiltEnds
<1>7. DOMAIN s = 1 .. n
  BY <1>2
<1> HIDE DEF a
<1>8. FoldLeft(ReplayLine, a[0], s) = a[n]
  BY <1>1, <1>4, <1>7, ReplayIs
<1>9. QED BY <1>6, <1>8

LEMMA TailRebuilds ==
  ASSUME NEW f, FlatFile(f)
  PROVE  FoldLeft(ReplayLine, f.base, TailLines(f)) = ImageOf(f)
<1> DEFINE n == Len(f.tail)
           a == [k \in 0 .. n |-> ImageAt(f, k)]
<1>1. n \in Nat /\ DOMAIN f.tail = 1 .. n
  BY DEF FlatFile, FileOK, File
<1>2. DOMAIN TailLines(f) = 1 .. n /\ \A k \in 1 .. n : TailLines(f)[k] = f.tail[k].line
  BY <1>1 DEF TailLines
<1>3. ASSUME NEW k \in 1 .. n
      PROVE  a[k] = ReplayLine(a[k - 1], TailLines(f)[k])
  <2>1. k \in 0 .. n /\ k - 1 \in 0 .. n /\ k # 0
    BY <1>1
  <2>2. FlatAt(f, k)
    BY <2>1 DEF FlatFile
  <2>3. QED BY <1>2, <2>1, <2>2 DEF FlatAt
<1>4. a[0] = f.base /\ a[n] = ImageOf(f)
  BY <1>1 DEF ImageAt, ImageOf
<1> HIDE DEF a, n
<1>5. FoldLeft(ReplayLine, a[0], TailLines(f)) = a[n]
  BY <1>1, <1>2, <1>3, ReplayIs
<1>6. QED BY <1>4, <1>5

(* Replay is the inverse of writing the log, for any number of keys,       *)
(* strings and vectors: a snapshot, its lines in whatever order the maps   *)
(* give them, replays to the memory it was taken of, and the lines         *)
(* appended since end in the image the file is said to have, whatever      *)
(* lines the disk has lost or torn.                                        *)
THEOREM LogsReplay ==
  ASSUME IsFiniteSet(Keys)
  PROVE  Spec => []ReplayRebuilds
<1>1. Init => DimsInv
  BY DimsInit
<1>2. DimsInv /\ [Next]_vars => DimsInv'
  BY DimsStep
<1>3. DimsInv => ReplayRebuilds
  BY SnapshotRebuilds, TailRebuilds DEF DimsInv, TypeInv, ReplayRebuilds
<1>4. QED BY <1>1, <1>2, <1>3, PTL DEF Spec
=============================================================================
