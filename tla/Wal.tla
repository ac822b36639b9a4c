--------------------------------- MODULE Wal ---------------------------------
(***************************************************************************)
(* The write-ahead log file (atlasrag/src/wal.h) as operators on a file    *)
(* value: what append_line, rewrite_lines and sync_file can leave behind,  *)
(* and what the file can hold after the host goes down.                    *)
(*                                                                         *)
(* A file is the image its rewritten part replays to (base), the lines     *)
(* appended since, each with the image replay has reached after it (tail), *)
(* whether the last line lacks its newline (open), and how many lines of   *)
(* the tail an fsync has put on disk (synced).  rewrite_lines syncs the    *)
(* whole snapshot before it renames it, so the base is always on disk.     *)
(***************************************************************************)
EXTENDS StoreData

CONSTANT Faults  \* the failures of the disk and of the host that are explored

FaultKinds == {"append", "rewrite", "dirsync", "tear"}
ASSUME FaultAssumption == Faults \subseteq FaultKinds

Entry == [line: Lines, img: Image]
File  == [base: Image, tail: Seq(Entry), open: BOOLEAN, synced: Nat]

EmptyFile == [base |-> EmptyImage, tail |-> <<>>, open |-> FALSE, synced |-> 0]

(* What replay has built after the first n lines of the tail, and after    *)
(* all of them.                                                            *)
ImageAt(f, n) == IF n = 0 THEN f.base ELSE f.tail[n].img
ImageOf(f)    == ImageAt(f, Len(f.tail))

AddLine(f, l) ==
  [f EXCEPT !.tail = Append(f.tail, [line |-> l, img |-> ReplayLine(ImageOf(f), l)])]

AddOpenLine(f, l) == [AddLine(f, l) EXCEPT !.open = TRUE]

(* The first n lines of the tail. *)
Cut(f, n) == [f EXCEPT !.tail = SubSeq(f.tail, 1, n),
                       !.open = f.open /\ n = Len(f.tail)]

-----------------------------------------------------------------------------
(* Torn lines.  Fragments(l) is how the text of l reads when it is cut     *)
(* short, the last possibility being that only its newline is missing.     *)
Fragments(l) ==
  {l} \cup {JunkLine(b) : b \in {FALSE, Counted(l)}} \cup
  CASE l.op = "SET"  -> {SetLine(l.key, s, NoTtl) : s \in CutOf[l.val] \cup {l.val}}
                        \cup (IF l.ttl = NoTtl THEN {}
                              ELSE {SetLine(l.key, l.val, t) : t \in CutOf[l.ttl]})
    [] l.op = "DEL"  -> {DelLine(k) : k \in CutOf[l.key]}
    [] l.op = "VSET" -> {[l EXCEPT !.vec = v] : v \in CutOf[l.vec]}
    [] l.op = "VDEL" -> {VdelLine(i) : i \in CutOf[l.id]}
    [] l.op = "VDELPREFIX" -> {VdelPrefixLine(p) : p \in CutOf[l.prefix]}
    [] OTHER         -> {}

(* append_line opens the file at its end, so after a line without newline  *)
(* the next one continues the same text line.  A VSET with all its floats  *)
(* keeps them (strtof stops at the first letter, further words are not     *)
(* looked at); any other mix is a line replay ignores or a number that     *)
(* std::stoi rejects.  The words of the new line are lost in every case.   *)
Fused(frag) ==
  CASE frag.op = "VSET" -> {frag}
    [] frag.op = "JUNK" -> {frag, FatalLine}
    [] OTHER            -> {JunkLine(FALSE)}

(* append_line(l): the files it can leave.  It reports nothing, so a file  *)
(* that cannot be opened or a full disk goes unnoticed.                    *)
AppendLine(f, l) ==
  (IF f.open
   THEN LET n    == Len(f.tail)
            head == [Cut(f, n - 1) EXCEPT !.synced = IF @ < n THEN @ ELSE n - 1]
        IN  {AddLine(head, x) : x \in Fused(f.tail[n].line)}
   ELSE {AddLine(f, l)})
  \cup (IF "append" \in Faults
        THEN {f} \cup (IF f.open THEN {} ELSE {AddOpenLine(f, x) : x \in Fragments(l)})
        ELSE {})

(* rewrite_lines: the new file once the rename has happened.               *)
Rewritten(img) == [base |-> img, tail |-> <<>>, open |-> FALSE, synced |-> 0]

(* sync_file: every line the file has now is on disk.                      *)
SyncFile(f) == [f EXCEPT !.synced = Len(f.tail)]

(* A power cut keeps the synced lines and any number of the lines after    *)
(* them, the first missing one possibly in part.                           *)
SurvivorsOf(f) ==
  LET kept(n) == [Cut(f, n) EXCEPT !.synced = n]
      torn(n) == {[AddOpenLine(kept(n), x) EXCEPT !.synced = n + 1] :
                    x \in Fragments(f.tail[n + 1].line)}
      lengths == f.synced .. Len(f.tail)
  IN  {kept(n) : n \in lengths}
      \cup (IF "tear" \in Faults
            THEN UNION {torn(n) : n \in {m \in lengths : m < Len(f.tail)}}
            ELSE {})
=============================================================================
