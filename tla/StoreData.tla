------------------------------ MODULE StoreData ------------------------------
(***************************************************************************)
(* The data of the vector store process (atlasrag/src/server.cpp): the     *)
(* string map, the vector index, and the write-ahead-log lines that        *)
(* rebuild them.  Everything here is an operator on values; the state      *)
(* machine is in Store.tla.                                                *)
(*                                                                         *)
(* Names, values and vectors are members of constant sets.  What the       *)
(* properties can tell apart about them is given by constant functions:    *)
(*   DimOf[v]      the dimension of vector v                               *)
(*   Rounded[v]    v after std::to_string and strtof (six decimals)        *)
(*   IdsWith[p]    the vector ids that start with prefix p                 *)
(*   CutOf[x]      the other members of its set that the text of x, cut    *)
(*                 short, spells                                           *)
(***************************************************************************)
EXTENDS Integers, FiniteSets, Sequences

CONSTANTS Keys, Vals, Ttls, Ids, Vecs, IdPrefixes,
          DimOf, Rounded, IdsWith, CutOf,
          Absent,          \* "no such key"
          NoVec,           \* "no such vector"
          NoTtl            \* a key without expiration

(* A stored string and its expiration: a point in time in memory, a number *)
(* of seconds in the log, or NoTtl.                                        *)
KvEntry == [val: Vals, exp: Int \cup {NoTtl}]

ASSUME DataAssumption ==
  /\ IsFiniteSet(Ids)
  /\ Ttls \subseteq Int
  /\ NoTtl \notin Int
  /\ NoVec \notin Vecs
  /\ Absent \notin KvEntry
  /\ DimOf \in [Vecs -> Nat \ {0}]
  /\ Rounded \in [Vecs -> Vecs]
  /\ \A v \in Vecs : DimOf[Rounded[v]] = DimOf[v] /\ Rounded[Rounded[v]] = Rounded[v]
  /\ IdsWith \in [IdPrefixes -> SUBSET Ids]
  /\ \A S \in {Keys, Vals, Ttls, Ids, Vecs, IdPrefixes} : \A x \in S : CutOf[x] \subseteq S

-----------------------------------------------------------------------------
(* The vector index: id -> vector, and the dimension of the stored vectors *)
(* (0 while there is none).  x is any record with fields vecs and dims.    *)

VecMap == [Ids -> Vecs \cup {NoVec}]
NoVecs == [i \in Ids |-> NoVec]
LiveIds(x) == {i \in Ids : x.vecs[i] # NoVec}

DimensionMismatch(x, v) == x.dims # 0 /\ DimOf[v] # x.dims

AddOrUpdate(x, i, v) ==
  IF DimensionMismatch(x, v) THEN x
  ELSE [x EXCEPT !.vecs = [x.vecs EXCEPT ![i] = v],
                 !.dims = IF x.vecs[i] = NoVec THEN DimOf[v] ELSE x.dims]

(* Mutant: the dimension outlives the last vector.                         *)
RemoveIdsKeepsDims(x, S) ==
  [x EXCEPT !.vecs = [i \in Ids |-> IF i \in S THEN NoVec ELSE x.vecs[i]]]

RemoveIds(x, S) ==
  LET left == [i \in Ids |-> IF i \in S THEN NoVec ELSE x.vecs[i]]
  IN  IF S \cap LiveIds(x) = {} THEN x
      ELSE [x EXCEPT !.vecs = left,
                     !.dims = IF left = NoVecs THEN 0 ELSE x.dims]

Clear(x) == [x EXCEPT !.vecs = NoVecs, !.dims = 0]

-----------------------------------------------------------------------------
(* Log lines.  A VSET line carries the vector as text, so it holds the     *)
(* rounded vector.  A Junk line is text that replay does not recognise;    *)
(* counted says whether its first word is VSET or VDEL.  A Fatal line is   *)
(* text on which replay's std::stoi throws.                                *)

SetLine(k, s, t)    == [op |-> "SET", key |-> k, val |-> s, ttl |-> t]
DelLine(k)          == [op |-> "DEL", key |-> k]
VsetLine(i, v)      == [op |-> "VSET", id |-> i, vec |-> Rounded[v]]
VdelLine(i)         == [op |-> "VDEL", id |-> i]
VdelPrefixLine(p)   == [op |-> "VDELPREFIX", prefix |-> p]
VclearLine          == [op |-> "VCLEAR"]
JunkLine(counted)   == [op |-> "JUNK", counted |-> counted]
FatalLine           == [op |-> "FATAL"]

SetLines    == [op: {"SET"}, key: Keys, val: Vals, ttl: Ttls \cup {NoTtl}]
DelLines    == [op: {"DEL"}, key: Keys]
VsetLines   == [op: {"VSET"}, id: Ids, vec: Vecs]
VdelLines   == [op: {"VDEL"}, id: Ids]
PrefixLines == [op: {"VDELPREFIX"}, prefix: IdPrefixes]
VectorLines == VsetLines \cup VdelLines \cup PrefixLines \cup {VclearLine}
TornLines   == [op: {"JUNK"}, counted: BOOLEAN] \cup {FatalLine}
Lines       == SetLines \cup DelLines \cup VectorLines \cup TornLines

(* An image is what replaying a log builds: the string map (a time to live *)
(* starts when it is replayed), the index, the number of VSET and VDEL     *)
(* lines met, and whether the replay got through without an exception.     *)
Image == [kv: [Keys -> KvEntry \cup {Absent}],
          vecs: VecMap, dims: Nat, count: Nat, ok: BOOLEAN]

EmptyImage == [kv |-> [k \in Keys |-> Absent], vecs |-> NoVecs,
               dims |-> 0, count |-> 0, ok |-> TRUE]

Counted(l) == l.op \in {"VSET", "VDEL"} \/ (l.op = "JUNK" /\ l.counted)

(* One line of replay_wal.  Past an exception there is no replay.          *)
ReplayLine(img, l) ==
  LET m == [img EXCEPT !.count = IF Counted(l) THEN @ + 1 ELSE @]
  IN  IF ~img.ok THEN img
      ELSE CASE l.op = "SET"  -> [m EXCEPT !.kv = [m.kv EXCEPT
                                    ![l.key] = [val |-> l.val, exp |-> l.ttl]]]
             [] l.op = "DEL"  -> [m EXCEPT !.kv = [m.kv EXCEPT ![l.key] = Absent]]
             [] l.op = "VSET" -> AddOrUpdate(m, l.id, l.vec)
             [] l.op = "VDEL" -> RemoveIds(m, {l.id})
             [] l.op = "VDELPREFIX" -> RemoveIds(m, IdsWith[l.prefix])
             [] l.op = "VCLEAR" -> Clear(m)
             [] l.op = "FATAL"  -> [m EXCEPT !.ok = FALSE]
             [] OTHER -> m
=============================================================================
