----------------------------- MODULE VectorIndex -----------------------------
(***************************************************************************)
(* The hash tables of the approximate search (atlasrag/src/vector_db.h)    *)
(* beside the vectors they index.  Each table puts the vectors into        *)
(* buckets by their side of some random planes; a search looks only at     *)
(* the buckets of its query and scores what it finds there.                *)
(*                                                                         *)
(* Every operation holds the index's own lock, so each is one step.  What  *)
(* the planes make of a vector is a constant, and so is what two vectors   *)
(* score.  A bucket is a bag of ids: in which order it is searched shows   *)
(* only where the number of candidates is cut, and there any is modelled.  *)
(***************************************************************************)
EXTENDS StoreData

CONSTANTS Tables,      \* VECTOR_ANN_LSH_TABLES: the tables are 1 .. Tables
          Signatures,  \* what a table's bits can be
          SigOf,       \* table -> vector -> its signature there
          Score,       \* query -> vector -> their cosine
          ZeroVecs,    \* the vectors of length zero
          MaxAsked     \* bound: how much a search asks for

ASSUME IndexAssumption ==
  /\ Tables \in Nat \ {0} /\ MaxAsked \in Nat
  /\ SigOf \in [1 .. Tables -> [Vecs -> Signatures]]
  /\ Score \in [Vecs -> [Vecs -> Int]]

VARIABLES
  annEnabled,  \* VECTOR_ANN_ENABLED, which the process does not change
  index,       \* vectors_ and dims_
  planes,      \* the dimension ann_planes_ were made for, 0 if there are none
  tables,      \* ann_tables_: how often an id is in a bucket
  annSize      \* ann_index_size_

xvars == <<annEnabled, index, planes, tables, annSize>>

NoTables == [t \in 1 .. Tables |-> [s \in Signatures |-> [i \in Ids |-> 0]]]

(* The type invariant. *)
IndexTypeOK ==
  /\ annEnabled \in BOOLEAN
  /\ index \in [vecs: VecMap, dims: Nat]
  /\ planes \in Nat
  /\ tables \in [1 .. Tables -> [Signatures -> [Ids -> Nat]]]
  /\ annSize \in Nat

IndexInit ==
  /\ annEnabled \in BOOLEAN
  /\ index = [vecs |-> NoVecs, dims |-> 0]
  /\ planes = 0 /\ tables = NoTables /\ annSize = 0

-----------------------------------------------------------------------------
(* ensure_ann_index_locked, add_to_ann_locked, remove_from_ann_locked,     *)
(* reset_ann_locked.                                                       *)
EnsureAnnIndex(dim) == planes' = IF planes = 0 /\ annEnabled THEN dim ELSE planes

AddToAnn(tb, i, v) == [t \in 1 .. Tables |-> [tb[t] EXCEPT ![SigOf[t][v]][i] = @ + 1]]

(* Mutant: only the first table forgets the ids.                           *)
RemoveFromFirst(tb, S) ==
  [t \in 1 .. Tables |-> [s \in Signatures |-> [i \in Ids |->
    IF i \in S /\ t = 1 /\ SigOf[t][index.vecs[i]] = s THEN 0 ELSE tb[t][s][i]]]]

RemoveFromAnn(tb, S) ==
  [t \in 1 .. Tables |-> [s \in Signatures |-> [i \in Ids |->
    IF i \in S /\ SigOf[t][index.vecs[i]] = s THEN 0 ELSE tb[t][s][i]]]]

Less(S) == IF annSize > Cardinality(S) THEN annSize - Cardinality(S) ELSE 0

ResetAnn == planes' = 0 /\ tables' = NoTables /\ annSize' = 0

Upsert(i, v) ==
  LET old == LiveIds(index) \cap {i}
  IN  /\ ~DimensionMismatch(index, v)
      /\ EnsureAnnIndex(DimOf[v])
      /\ index' = AddOrUpdate(index, i, v)
      /\ IF planes' = 0 THEN UNCHANGED <<tables, annSize>>
         ELSE /\ tables' = AddToAnn(RemoveFromAnn(tables, old), i, v)
              /\ annSize' = Less(old) + 1
      /\ UNCHANGED annEnabled

(* remove and remove_prefix: the ids of S that there are.                  *)
RemoveThose(S) ==
  LET found == LiveIds(index) \cap S
  IN  /\ found # {}
      /\ index' = RemoveIds(index, S)
      /\ IF index'.vecs = NoVecs THEN ResetAnn
         ELSE /\ tables' = RemoveFromAnn(tables, found)
              /\ annSize' = Less(found)
              /\ UNCHANGED planes
      /\ UNCHANGED annEnabled

RemoveOne(i)    == RemoveThose({i})
RemovePrefix(p) == RemoveThose(IdsWith[p])

(* Mutant: the planes outlive the vectors they were made for.              *)
ClearAllKeepsPlanes ==
  /\ index' = Clear(index)
  /\ tables' = NoTables /\ annSize' = 0
  /\ UNCHANGED <<annEnabled, planes>>

ClearAll ==
  /\ index' = Clear(index)
  /\ ResetAnn
  /\ UNCHANGED annEnabled

IndexNext ==
  \/ \E i \in Ids : RemoveOne(i) \/ \E v \in Vecs : Upsert(i, v)
  \/ \E p \in IdPrefixes : RemovePrefix(p)
  \/ ClearAll

IndexSpec == IndexInit /\ [][IndexNext]_xvars

-----------------------------------------------------------------------------
(* The searches.  Ties and the order inside a bucket leave a choice, so    *)
(* each gives the set of results it may have.                              *)
Smaller(a, b) == IF a < b THEN a ELSE b
Larger(a, b)  == IF a > b THEN a ELSE b

(* The k best of the ids C for a query.                                    *)
Best(C, q, k) ==
  {S \in SUBSET C :
     /\ Cardinality(S) = Smaller(k, Cardinality(C))
     /\ \A a \in S, b \in C \ S : Score[q][index.vecs[a]] >= Score[q][index.vecs[b]]}

Refused(q, k) == DimOf[q] # index.dims \/ q \in ZeroVecs \/ k <= 0

(* search, search_subset: allowed holds all ids in the one.                *)
Search(q, k, allowed) ==
  IF Refused(q, k) THEN {{}} ELSE Best(allowed \cap LiveIds(index), q, k)

(* Mutant: as many candidates as results.                                  *)
CandidateLimitIsAsked(n, k, overfetch) == Smaller(n, k)

(* How many candidates are collected of n, without k * overfetch ever      *)
(* being larger than n.                                                    *)
CandidateLimit(n, k, overfetch) ==
  LET clean == IF overfetch > 0 THEN overfetch ELSE 5
      wide  == IF clean > n \div k THEN n ELSE k * clean
  IN  Smaller(n, Larger(k, wide))

(* The allowed ids that the query's buckets in the first tables hold.      *)
FoundUpTo(n, q, allowed) ==
  {i \in allowed : \E t \in 1 .. n : tables[t][SigOf[t][q]][i] > 0}

(* The tables are gone through in their order until there are enough.      *)
Collected(q, allowed, limit) ==
  LET all == FoundUpTo(Tables, q, allowed)
  IN  {C \in SUBSET all :
         \/ C = all /\ Cardinality(C) <= limit
         \/ /\ Cardinality(C) = limit
            /\ \E t \in 1 .. Tables : /\ FoundUpTo(t - 1, q, allowed) \subseteq C
                                      /\ C \subseteq FoundUpTo(t, q, allowed)}

(* search_ann, search_ann_subset: the candidates that are still stored     *)
(* are scored.  n is the number of vectors, or of the ids allowed.         *)
SearchAnn(q, k, overfetch, allowed, n) ==
  IF Refused(q, k) \/ annSize = 0 THEN {{}}
  ELSE UNION {Best(C \cap LiveIds(index), q, k) :
                C \in Collected(q, allowed, CandidateLimit(n, k, overfetch))}

-----------------------------------------------------------------------------
(* Whatever was stored, overwritten and removed, in whatever order and     *)
(* dimension: every table holds exactly the stored vectors, each once and  *)
(* in the bucket of the vector it has now, and the planes are of the       *)
(* vectors' dimension.  The statistics of the store report the index as    *)
(* ready by comparing two of these counts.                                 *)
InBucket(t, s, i) == i \in LiveIds(index) /\ SigOf[t][index.vecs[i]] = s
BucketsHoldVectors ==
  /\ planes = IF annEnabled THEN index.dims ELSE 0
  /\ annSize = IF annEnabled THEN Cardinality(LiveIds(index)) ELSE 0
  /\ \A t \in 1 .. Tables, s \in Signatures, i \in Ids :
       tables[t][s][i] = IF annEnabled /\ InBucket(t, s, i) THEN 1 ELSE 0

(* An approximate search that may look at as many candidates as there are  *)
(* vectors gives what the exact search gives among the vectors that share  *)
(* a bucket with its query, and so it does when restricted to some ids.    *)
(* Nothing removed or overwritten takes the place of what is stored, and   *)
(* the arithmetic of the limit cuts nothing off.                           *)
Near(q, i) == \E t \in 1 .. Tables : SigOf[t][index.vecs[i]] = SigOf[t][q]
NearIds(q, allowed) == {i \in allowed \cap LiveIds(index) : Near(q, i)}
Exact(q, k, overfetch, allowed, n) ==
  k * overfetch >= n => SearchAnn(q, k, overfetch, allowed, n) = Search(q, k, NearIds(q, allowed))
Asked == 1 .. MaxAsked
SearchIsExactInBuckets ==
  annEnabled =>
    \A q \in Vecs, k \in Asked, overfetch \in Asked :
      /\ Exact(q, k, overfetch, Ids, Cardinality(LiveIds(index)))
      /\ \A allowed \in SUBSET Ids : Exact(q, k, overfetch, allowed, Cardinality(allowed))
=============================================================================
