------------------------- MODULE StorePartsProofs -------------------------
(***************************************************************************)
(* Theorems about the two parts of the store that are modelled beside its  *)
(* commands, for every value of their constants.  The vector index: the    *)
(* hash tables hold exactly the stored vectors, and so the approximate     *)
(* search is the exact one within the buckets.  The client, with any       *)
(* number of commands and runners, batches of any size and any breaks:     *)
(* replies are matched with their commands.                                *)
(***************************************************************************)
EXTENDS VectorIndex, StoreClient, FiniteSetTheorems, SequenceTheorems, TLAPS

-----------------------------------------------------------------------------
(*                           The vector index                              *)

(* What keeps the planes at the dimension of the vectors.                  *)
DimsInv  == index.dims = 0 <=> LiveIds(index) = {}
IndexInv == IndexTypeOK /\ DimsInv /\ BucketsHoldVectors

LEMMA FiniteIds ==
  ASSUME NEW S \in SUBSET Ids
  PROVE  IsFiniteSet(S) /\ Cardinality(S) \in Nat
BY DataAssumption, FS_Subset, FS_CardinalityType

LEMMA LiveAreIds == LiveIds(index) \in SUBSET Ids
BY DEF LiveIds

(* How the size changes with the ids taken out.                            *)
LEMMA LessCounts ==
  ASSUME annSize = Cardinality(LiveIds(index)), NEW S \in SUBSET LiveIds(index)
  PROVE  Less(S) = Cardinality(LiveIds(index) \ S)
<1>1. /\ IsFiniteSet(LiveIds(index)) /\ Cardinality(LiveIds(index)) \in Nat
      /\ IsFiniteSet(S) /\ Cardinality(S) \in Nat
  BY FiniteIds, LiveAreIds
<1>2. Cardinality(LiveIds(index) \ S) = Cardinality(LiveIds(index)) - Cardinality(S)
  <2>1. LiveIds(index) \cap S = S
    OBVIOUS
  <2>2. QED BY <1>1, <2>1, FS_Difference
<1>3. Cardinality(S) <= Cardinality(LiveIds(index))
  BY <1>1, FS_Subset
<1>4. QED BY <1>1, <1>2, <1>3 DEF Less

(* One occurrence more in one bucket.                                      *)
LEMMA PushBack ==
  ASSUME NEW b \in [Signatures -> [Ids -> Nat]], NEW g \in Signatures, NEW i \in Ids,
         NEW c, c = [b EXCEPT ![g] = [b[g] EXCEPT ![i] = b[g][i] + 1]]
  PROVE  /\ c \in [Signatures -> [Ids -> Nat]]
         /\ \A s \in Signatures, j \in Ids :
              c[s][j] = IF j = i /\ s = g THEN b[s][j] + 1 ELSE b[s][j]
<1> DEFINE one == [b[g] EXCEPT ![i] = b[g][i] + 1]
<1>1. one \in [Ids -> Nat] /\ \A j \in Ids : one[j] = IF j = i THEN b[g][j] + 1 ELSE b[g][j]
  OBVIOUS
<1>2. c = [b EXCEPT ![g] = one]
  OBVIOUS
<1> HIDE DEF one
<1>3. QED BY <1>1, <1>2

(* The tables an upsert and a removal leave.                               *)
LEMMA RemovedTables ==
  ASSUME IndexInv, NEW S \in SUBSET Ids
  PROVE  LET tb == RemoveFromAnn(tables, S)
         IN  /\ tb \in [1 .. Tables -> [Signatures -> [Ids -> Nat]]]
             /\ \A t \in 1 .. Tables, s \in Signatures, i \in Ids :
                  tb[t][s][i] = IF annEnabled /\ InBucket(t, s, i) /\ i \notin S
                                THEN 1 ELSE 0
<1> DEFINE tb == RemoveFromAnn(tables, S)
<1>1. tb \in [1 .. Tables -> [Signatures -> [Ids -> Nat]]]
  BY DEF IndexInv, IndexTypeOK, RemoveFromAnn
<1>2. ASSUME NEW t \in 1 .. Tables, NEW s \in Signatures, NEW i \in Ids
      PROVE  tb[t][s][i] = IF annEnabled /\ InBucket(t, s, i) /\ i \notin S THEN 1 ELSE 0
  <2>1. tb[t][s][i] = IF i \in S /\ SigOf[t][index.vecs[i]] = s THEN 0 ELSE tables[t][s][i]
    BY DEF RemoveFromAnn
  <2>2. tables[t][s][i] = IF annEnabled /\ InBucket(t, s, i) THEN 1 ELSE 0
    BY DEF IndexInv, BucketsHoldVectors
  <2>3. QED BY <2>1, <2>2 DEF InBucket
<1>3. QED BY <1>1, <1>2

-----------------------------------------------------------------------------
LEMMA InitHolds == IndexInit => IndexInv
<1> SUFFICES ASSUME IndexInit PROVE IndexInv
  OBVIOUS
<1>1. IndexTypeOK
  BY DEF IndexInit, IndexTypeOK, VecMap, NoVecs, NoTables
<1>2. LiveIds(index) = {} /\ index.dims = 0
  BY DEF IndexInit, LiveIds, NoVecs
<1>3. BucketsHoldVectors
  <2>1. \A t \in 1 .. Tables, s \in Signatures, i \in Ids : tables[t][s][i] = 0
    BY DEF IndexInit, NoTables
  <2>2. planes = 0 /\ annSize = 0
    BY DEF IndexInit
  <2>3. QED BY <1>2, <2>1, <2>2, FS_EmptySet DEF BucketsHoldVectors, InBucket
<1>4. QED BY <1>1, <1>2, <1>3 DEF IndexInv, DimsInv

LEMMA UpsertKeeps ==
  ASSUME IndexInv, NEW i \in Ids, NEW v \in Vecs, Upsert(i, v)
  PROVE  IndexInv'
<1> DEFINE live == LiveIds(index)
           old  == live \cap {i}
           tb   == RemoveFromAnn(tables, old)
<1>1. /\ DimOf[v] \in Nat \ {0} /\ v # NoVec
      /\ index.dims = 0 \/ index.dims = DimOf[v]
      /\ annEnabled' = annEnabled
  BY DataAssumption DEF Upsert, DimensionMismatch
<1>2. /\ index' \in [vecs: VecMap, dims: Nat]
      /\ index'.vecs = [index.vecs EXCEPT ![i] = v]
      /\ index'.dims = IF index.vecs[i] = NoVec THEN DimOf[v] ELSE index.dims
  BY <1>1 DEF Upsert, AddOrUpdate, IndexInv, IndexTypeOK, VecMap
<1>3. LiveIds(index') = live \cup {i}
  BY <1>1, <1>2 DEF LiveIds, IndexInv, IndexTypeOK, VecMap
<1>4. index'.dims = DimOf[v]
  <2>1. CASE index.dims = 0
    BY <1>2, <2>1 DEF IndexInv, DimsInv, LiveIds
  <2>2. CASE index.dims = DimOf[v]
    BY <1>2, <2>2
  <2>3. QED BY <1>1, <2>1, <2>2
<1>5. DimsInv'
  BY <1>1, <1>3, <1>4 DEF DimsInv
<1>6. planes' = IF annEnabled' THEN index'.dims ELSE 0
  BY <1>1, <1>4 DEF Upsert, EnsureAnnIndex, IndexInv, BucketsHoldVectors
<1>7. ASSUME NEW t \in 1 .. Tables, NEW s \in Signatures, NEW j \in Ids
      PROVE  InBucket(t, s, j)' <=> IF j = i THEN SigOf[t][v] = s ELSE InBucket(t, s, j)
  BY <1>2, <1>3 DEF InBucket, IndexInv, IndexTypeOK, VecMap
<1>8. CASE ~annEnabled
  <2>1. tables' = tables /\ annSize' = annSize
    BY <1>1, <1>6, <1>8 DEF Upsert
  <2>2. IndexTypeOK'
    BY <1>1, <1>2, <1>6, <1>8, <2>1 DEF IndexInv, IndexTypeOK
  <2>3. BucketsHoldVectors'
    BY <1>1, <1>6, <1>8, <2>1 DEF IndexInv, BucketsHoldVectors
  <2>4. QED BY <1>5, <2>2, <2>3 DEF IndexInv
<1>9. CASE annEnabled
  <2>1. tables' = AddToAnn(tb, i, v) /\ annSize' = Less(old) + 1
    BY <1>1, <1>4, <1>6, <1>9 DEF Upsert
  <2>2. old \in SUBSET Ids
    BY DEF LiveIds
  <2>3. /\ tb \in [1 .. Tables -> [Signatures -> [Ids -> Nat]]]
        /\ \A t \in 1 .. Tables, s \in Signatures, j \in Ids :
             tb[t][s][j] = IF InBucket(t, s, j) /\ j \notin old THEN 1 ELSE 0
    BY <1>9, <2>2, RemovedTables
  <2> HIDE DEF tb
  <2>4. /\ tables' \in [1 .. Tables -> [Signatures -> [Ids -> Nat]]]
        /\ \A t \in 1 .. Tables, s \in Signatures, j \in Ids :
             tables'[t][s][j] = IF j = i /\ s = SigOf[t][v] THEN tb[t][s][j] + 1
                                ELSE tb[t][s][j]
    <3>1. ASSUME NEW t \in 1 .. Tables
          PROVE  /\ tables'[t] = [tb[t] EXCEPT ![SigOf[t][v]][i] = @ + 1]
                 /\ tb[t] \in [Signatures -> [Ids -> Nat]]
                 /\ SigOf[t][v] \in Signatures
      BY <2>1, <2>3, IndexAssumption DEF AddToAnn
    <3>2. ASSUME NEW t \in 1 .. Tables
          PROVE  /\ tables'[t] \in [Signatures -> [Ids -> Nat]]
                 /\ \A s \in Signatures, j \in Ids :
                      tables'[t][s][j] = IF j = i /\ s = SigOf[t][v] THEN tb[t][s][j] + 1
                                         ELSE tb[t][s][j]
      <4> DEFINE b == tb[t]
                 g == SigOf[t][v]
                 c == tables'[t]
      <4>1. /\ b \in [Signatures -> [Ids -> Nat]] /\ g \in Signatures
            /\ c = [b EXCEPT ![g] = [b[g] EXCEPT ![i] = b[g][i] + 1]]
        BY <3>1
      <4> HIDE DEF b, g, c
      <4>2. /\ c \in [Signatures -> [Ids -> Nat]]
            /\ \A s \in Signatures, j \in Ids :
                 c[s][j] = IF j = i /\ s = g THEN b[s][j] + 1 ELSE b[s][j]
        BY <4>1, PushBack
      <4>3. QED BY <4>2 DEF b, g, c
    <3>3. tables' = [t \in 1 .. Tables |-> tables'[t]]
      BY <2>1 DEF AddToAnn
    <3>4. QED BY <3>2, <3>3
  <2>5. \A t \in 1 .. Tables, s \in Signatures, j \in Ids :
          tables'[t][s][j] = IF InBucket(t, s, j)' THEN 1 ELSE 0
    <3> SUFFICES ASSUME NEW t \in 1 .. Tables, NEW s \in Signatures, NEW j \in Ids
                 PROVE  tables'[t][s][j] = IF InBucket(t, s, j)' THEN 1 ELSE 0
      OBVIOUS
    <3>1. CASE j = i
      <4>1. tb[t][s][j] = 0
        BY <2>3, <3>1 DEF InBucket
      <4>2. QED BY <1>7, <2>4, <3>1, <4>1
    <3>2. CASE j # i
      <4>1. j \notin old
        BY <3>2
      <4>2. tables'[t][s][j] = IF InBucket(t, s, j) THEN 1 ELSE 0
        BY <2>3, <2>4, <3>2, <4>1
      <4>3. QED BY <1>7, <3>2, <4>2
    <3>3. QED BY <3>1, <3>2
  <2>6. annSize' = Cardinality(LiveIds(index'))
    <3>1. Less(old) = Cardinality(live \ old)
      BY <1>9, LessCounts DEF IndexInv, BucketsHoldVectors
    <3>2. live \ old = live \ {i} /\ (live \ {i}) \cup {i} = LiveIds(index')
      BY <1>3
    <3>3. IsFiniteSet(live \ {i}) /\ Cardinality(live \ {i}) \in Nat
      BY FiniteIds, LiveAreIds
    <3>4. Cardinality((live \ {i}) \cup {i}) = Cardinality(live \ {i}) + 1
      BY <3>3, FS_AddElement
    <3>5. QED BY <2>1, <3>1, <3>2, <3>4
  <2>7. annSize' \in Nat
    BY <2>6, <1>3, FiniteIds DEF LiveIds
  <2>8. IndexTypeOK'
    BY <1>1, <1>2, <1>6, <2>4, <2>7 DEF IndexInv, IndexTypeOK
  <2>9. BucketsHoldVectors'
    BY <1>1, <1>6, <1>9, <2>5, <2>6 DEF BucketsHoldVectors
  <2>10. QED BY <1>5, <2>8, <2>9 DEF IndexInv
<1>10. QED BY <1>8, <1>9 DEF IndexInv, IndexTypeOK

(* An index that is empty and reset.                                       *)
LEMMA ResetKeeps ==
  ASSUME IndexInv, ResetAnn, annEnabled' = annEnabled,
         index' \in [vecs: VecMap, dims: Nat], index'.vecs = NoVecs, index'.dims = 0
  PROVE  IndexInv'
<1>1. LiveIds(index') = {}
  BY DEF LiveIds, NoVecs
<1>2. \A t \in 1 .. Tables, s \in Signatures, i \in Ids : tables'[t][s][i] = 0
  BY DEF ResetAnn, NoTables
<1>3. IndexTypeOK'
  BY DEF IndexInv, IndexTypeOK, ResetAnn, NoTables
<1>4. BucketsHoldVectors'
  BY <1>1, <1>2, FS_EmptySet DEF BucketsHoldVectors, InBucket, ResetAnn
<1>5. QED BY <1>1, <1>3, <1>4 DEF IndexInv, DimsInv

LEMMA RemoveKeeps ==
  ASSUME IndexInv, NEW S \in SUBSET Ids, RemoveThose(S)
  PROVE  IndexInv'
<1> DEFINE live == LiveIds(index)
           found == live \cap S
<1>1. found # {} /\ annEnabled' = annEnabled /\ index' = RemoveIds(index, S)
  BY DEF RemoveThose
<1>2. /\ index'.vecs = [i \in Ids |-> IF i \in S THEN NoVec ELSE index.vecs[i]]
      /\ index'.dims = IF index'.vecs = NoVecs THEN 0 ELSE index.dims
      /\ index' \in [vecs: VecMap, dims: Nat]
  BY <1>1 DEF RemoveIds, IndexInv, IndexTypeOK, VecMap
<1>3. LiveIds(index') = live \ found
  BY <1>2 DEF LiveIds
<1>4. CASE index'.vecs = NoVecs
  BY <1>1, <1>2, <1>4, ResetKeeps DEF RemoveThose
<1>5. CASE index'.vecs # NoVecs
  <2>1. /\ tables' = RemoveFromAnn(tables, found)
        /\ annSize' = Less(found) /\ planes' = planes /\ index'.dims = index.dims
    BY <1>2, <1>5 DEF RemoveThose
  <2>2. DimsInv'
    <3>1. LiveIds(index') # {}
      BY <1>2, <1>5 DEF LiveIds, NoVecs
    <3>2. index.dims # 0
      BY <1>1 DEF IndexInv, DimsInv
    <3>3. QED BY <2>1, <3>1, <3>2 DEF DimsInv
  <2>3. found \in SUBSET Ids
    OBVIOUS
  <2>4. /\ tables' \in [1 .. Tables -> [Signatures -> [Ids -> Nat]]]
        /\ \A t \in 1 .. Tables, s \in Signatures, i \in Ids :
             tables'[t][s][i] = IF annEnabled /\ InBucket(t, s, i) /\ i \notin found
                                THEN 1 ELSE 0
    BY <2>1, <2>3, RemovedTables
  <2>5. \A t \in 1 .. Tables, s \in Signatures, i \in Ids :
          InBucket(t, s, i)' <=> InBucket(t, s, i) /\ i \notin found
    BY <1>2, <1>3 DEF InBucket
  <2>6. annSize' = IF annEnabled THEN Cardinality(LiveIds(index')) ELSE 0
    <3>1. CASE annEnabled
      BY <1>3, <2>1, <3>1, LessCounts DEF IndexInv, BucketsHoldVectors
    <3>2. CASE ~annEnabled
      <4>1. annSize = 0
        BY <3>2 DEF IndexInv, BucketsHoldVectors
      <4>2. Cardinality(found) \in Nat
        BY FiniteIds
      <4>3. QED BY <2>1, <3>2, <4>1, <4>2 DEF Less
    <3>3. QED BY <3>1, <3>2
  <2>7. annSize' \in Nat
    <3>1. Cardinality(LiveIds(index')) \in Nat
      BY FiniteIds DEF LiveIds
    <3>2. QED BY <2>6, <3>1
  <2>8. IndexTypeOK'
    BY <1>1, <1>2, <2>1, <2>4, <2>7 DEF IndexInv, IndexTypeOK
  <2>9. BucketsHoldVectors'
    <3>1. planes' = IF annEnabled' THEN index'.dims ELSE 0
      BY <1>1, <2>1 DEF IndexInv, BucketsHoldVectors
    <3>2. \A t \in 1 .. Tables, s \in Signatures, i \in Ids :
            tables'[t][s][i] = IF annEnabled' /\ InBucket(t, s, i)' THEN 1 ELSE 0
      BY <1>1, <2>4, <2>5
    <3>3. QED BY <1>1, <2>6, <3>1, <3>2 DEF BucketsHoldVectors
  <2>10. QED BY <2>2, <2>8, <2>9 DEF IndexInv
<1>6. QED BY <1>4, <1>5

LEMMA NextKeeps == IndexInv /\ [IndexNext]_xvars => IndexInv'
<1> SUFFICES ASSUME IndexInv, [IndexNext]_xvars PROVE IndexInv'
  OBVIOUS
<1>1. ASSUME NEW i \in Ids, RemoveOne(i) PROVE IndexInv'
  BY <1>1, RemoveKeeps DEF RemoveOne
<1>2. ASSUME NEW i \in Ids, NEW v \in Vecs, Upsert(i, v) PROVE IndexInv'
  BY <1>2, UpsertKeeps
<1>3. ASSUME NEW p \in IdPrefixes, RemovePrefix(p) PROVE IndexInv'
  BY <1>3, DataAssumption, RemoveKeeps DEF RemovePrefix
<1>4. CASE ClearAll
  <2>1. /\ index' \in [vecs: VecMap, dims: Nat]
        /\ index'.vecs = NoVecs /\ index'.dims = 0
    BY <1>4 DEF ClearAll, Clear, IndexInv, IndexTypeOK, VecMap, NoVecs
  <2>2. QED BY <1>4, <2>1, ResetKeeps DEF ClearAll
<1>5. CASE UNCHANGED xvars
  BY <1>5 DEF xvars, IndexInv, IndexTypeOK, DimsInv, BucketsHoldVectors, InBucket
<1>6. QED BY <1>1, <1>2, <1>3, <1>4, <1>5 DEF IndexNext

LEMMA IndexInvAlways == IndexSpec => []IndexInv
BY InitHolds, NextKeeps, PTL DEF IndexSpec

(* The type invariant: the size of the hash index never goes below zero,   *)
(* in particular.                                                          *)
THEOREM IndexTypeCorrect == IndexSpec => []IndexTypeOK
<1>1. IndexInv => IndexTypeOK
  BY DEF IndexInv
<1>2. QED BY <1>1, IndexInvAlways, PTL

(* After any sequence of upserts, removals and clears the buckets hold     *)
(* each stored vector once per table, where its present value belongs, and *)
(* nothing else (add_to_ann_locked, remove_from_ann_locked).               *)
THEOREM BucketsAlwaysHoldVectors == IndexSpec => []BucketsHoldVectors
<1>1. IndexInv => BucketsHoldVectors
  BY DEF IndexInv
<1>2. QED BY <1>1, IndexInvAlways, PTL

-----------------------------------------------------------------------------
(* The limit does not cut off what the search asked for.                   *)
LEMMA LimitCovers ==
  ASSUME NEW n \in Nat, NEW k \in Nat \ {0}, NEW overfetch \in Nat \ {0},
         k * overfetch >= n
  PROVE  CandidateLimit(n, k, overfetch) = n
<1> DEFINE wide == IF overfetch > n \div k THEN n ELSE k * overfetch
<1>1. wide \in Int /\ wide >= n
  OBVIOUS
<1>2. CandidateLimit(n, k, overfetch) = Smaller(n, Larger(k, wide))
  BY DEF CandidateLimit
<1> HIDE DEF wide
<1>3. QED BY <1>1, <1>2 DEF Smaller, Larger

(* The query's buckets hold the stored vectors that share one with it.     *)
LEMMA FoundAreNear ==
  ASSUME IndexInv, annEnabled, NEW q \in Vecs, NEW allowed \in SUBSET Ids
  PROVE  FoundUpTo(Tables, q, allowed) = NearIds(q, allowed)
<1>1. ASSUME NEW i \in allowed, NEW t \in 1 .. Tables
      PROVE  tables[t][SigOf[t][q]][i] > 0
               <=> i \in LiveIds(index) /\ SigOf[t][index.vecs[i]] = SigOf[t][q]
  <2>1. SigOf[t][q] \in Signatures /\ i \in Ids
    BY IndexAssumption
  <2>2. tables[t][SigOf[t][q]][i] = IF InBucket(t, SigOf[t][q], i) THEN 1 ELSE 0
    BY <2>1 DEF IndexInv, BucketsHoldVectors
  <2>3. QED BY <2>2 DEF InBucket
<1>2. QED BY <1>1 DEF FoundUpTo, NearIds, Near

(* With a limit of as many as there are, all are collected.                *)
LEMMA AllAreCollected ==
  ASSUME NEW q \in Vecs, NEW allowed \in SUBSET Ids, NEW W \in SUBSET Ids,
         FoundUpTo(Tables, q, allowed) \subseteq W
  PROVE  Collected(q, allowed, Cardinality(W)) = {FoundUpTo(Tables, q, allowed)}
<1> DEFINE all == FoundUpTo(Tables, q, allowed)
           limit == Cardinality(W)
<1>1. IsFiniteSet(W)
  BY FiniteIds
<1>2. Cardinality(all) <= limit
  BY <1>1, FS_Subset
<1>3. ASSUME NEW C \in SUBSET all, Cardinality(C) = limit PROVE C = all
  BY <1>1, <1>3, FS_Subset
<1> HIDE DEF all, limit
<1>4. Collected(q, allowed, limit) = {all}
  <2>1. all \in Collected(q, allowed, limit)
    BY <1>2 DEF Collected, all
  <2>2. ASSUME NEW C \in Collected(q, allowed, limit) PROVE C = all
    BY <1>3, <2>2 DEF Collected, all
  <2>3. QED BY <2>1, <2>2
<1>5. QED BY <1>4 DEF all, limit

LEMMA AnnIsExact ==
  ASSUME IndexInv, annEnabled, NEW q \in Vecs,
         NEW k \in Nat \ {0}, NEW overfetch \in Nat \ {0},
         NEW allowed \in SUBSET Ids, NEW W \in SUBSET Ids,
         NearIds(q, allowed) \subseteq W
  PROVE  Exact(q, k, overfetch, allowed, Cardinality(W))
<1> DEFINE n == Cardinality(W)
<1> SUFFICES ASSUME k * overfetch >= n
             PROVE  SearchAnn(q, k, overfetch, allowed, n) = Search(q, k, NearIds(q, allowed))
  BY DEF Exact
<1>1. Collected(q, allowed, CandidateLimit(n, k, overfetch)) = {NearIds(q, allowed)}
  BY FiniteIds, LimitCovers, FoundAreNear, AllAreCollected
<1>2. NearIds(q, allowed) \cap LiveIds(index) = NearIds(q, allowed)
  BY DEF NearIds
<1>3. annSize = 0 => Refused(q, k)
  <2> SUFFICES ASSUME annSize = 0 PROVE Refused(q, k)
    OBVIOUS
  <2>1. LiveIds(index) = {}
    BY FiniteIds, LiveAreIds, FS_EmptySet DEF IndexInv, BucketsHoldVectors
  <2>2. QED BY <2>1, DataAssumption DEF IndexInv, DimsInv, Refused
<1>4. CASE Refused(q, k)
  BY <1>4 DEF SearchAnn, Search
<1>5. CASE ~Refused(q, k)
  <2>1. SearchAnn(q, k, overfetch, allowed, n)
          = UNION {Best(C \cap LiveIds(index), q, k) : C \in {NearIds(q, allowed)}}
    BY <1>1, <1>3, <1>5 DEF SearchAnn
  <2>2. SearchAnn(q, k, overfetch, allowed, n) = Best(NearIds(q, allowed), q, k)
    <3> DEFINE B(C) == Best(C \cap LiveIds(index), q, k)
    <3> HIDE DEF B
    <3>1. UNION {B(C) : C \in {NearIds(q, allowed)}} = B(NearIds(q, allowed))
      OBVIOUS
    <3>2. B(NearIds(q, allowed)) = Best(NearIds(q, allowed), q, k)
      BY <1>2 DEF B
    <3>3. QED BY <2>1, <3>1, <3>2 DEF B
  <2>3. QED BY <1>2, <1>5, <2>2 DEF Search
<1>6. QED BY <1>4, <1>5

(* search_ann and search_ann_subset, when k times overfetch covers what    *)
(* there is: nothing that was removed or overwritten is found, nothing     *)
(* that shares a bucket with the query is missed.                          *)
THEOREM SearchAlwaysExactInBuckets == IndexSpec => []SearchIsExactInBuckets
<1>1. IndexInv => SearchIsExactInBuckets
  <2> SUFFICES ASSUME IndexInv, annEnabled, NEW q \in Vecs, NEW k \in Asked, NEW overfetch \in Asked
               PROVE  /\ Exact(q, k, overfetch, Ids, Cardinality(LiveIds(index)))
                      /\ \A allowed \in SUBSET Ids :
                           Exact(q, k, overfetch, allowed, Cardinality(allowed))
    BY DEF SearchIsExactInBuckets
  <2>1. k \in Nat \ {0} /\ overfetch \in Nat \ {0}
    BY IndexAssumption DEF Asked
  <2>2. \A allowed \in SUBSET Ids :
          NearIds(q, allowed) \subseteq allowed /\ NearIds(q, allowed) \subseteq LiveIds(index)
    BY DEF NearIds
  <2>3. Exact(q, k, overfetch, Ids, Cardinality(LiveIds(index)))
    BY <2>1, <2>2, LiveAreIds, AnnIsExact
  <2>4. ASSUME NEW allowed \in SUBSET Ids
        PROVE  Exact(q, k, overfetch, allowed, Cardinality(allowed))
    BY <2>1, <2>2, AnnIsExact
  <2>5. QED BY <2>3, <2>4
<1>2. QED BY <1>1, IndexInvAlways, PTL

-----------------------------------------------------------------------------
(*                              The client                                 *)

Size(b)   == Cardinality(BatchOf(b))
InBatch(c, b) == c > OffsetOf(b) /\ c <= OffsetOf(b) + PerBatch
Served(b) == Size(b) - Len(inbox[b])

Chars   == [to: Nat, says: {"OK", "ERR", "empty", "end"}]
LaneRec == [batch: Nat, pending: Seq(Chars), replies: Seq(Seq(Chars))]

(* The text with which the store answers a batch: a reply, a line end, a   *)
(* reply, and so on.                                                       *)
CharOf(b, n) ==
  IF n % 2 = 0 THEN LineEnd
  ELSE [to |-> OffsetOf(b) + (n + 1) \div 2, says |-> answered[OffsetOf(b) + (n + 1) \div 2][1]]

TypeInv ==
  /\ cursor \in Nat \ {0}
  /\ lane \in [Lanes -> LaneRec]
  /\ inbox \in [Batches -> Seq(Commands)]
  /\ stream \in [Batches -> Seq(Chars)]
  /\ alone \in [at: {"unused", "ready", "waits", "over"}, text: Seq(Chars)]
  /\ results \in [Commands -> {"none", "ok", "failed", "empty"}]
  /\ answered \in [Commands -> Seq({"OK", "ERR", "empty"})]

-----------------------------------------------------------------------------
(* While batches are sent.  What a thread has not read yet are the last    *)
(* commands of its batch, and nobody has carried those out.                *)
InboxOf(b) ==
  /\ Len(inbox[b]) <= Size(b)
  /\ \A i \in 1 .. Len(inbox[b]) : inbox[b][i] = OffsetOf(b) + Served(b) + i
  /\ \A c \in Commands : InBatch(c, b) /\ inbox[b] # <<>> /\ c > OffsetOf(b) + Served(b)
                           => answered[c] = <<>>
  /\ b >= cursor => /\ inbox[b] = <<>> /\ stream[b] = <<>>
                    /\ \A c \in Commands : InBatch(c, b) => answered[c] = <<>> /\ results[c] = "none"

(* A runner's replies are those of the first commands of its batch, in     *)
(* order; what it has not parsed and what is on its way are the others'.   *)
LaneOf(l) ==
  LET b == lane[l].batch
      k == Len(lane[l].replies)
      p == Len(lane[l].pending)
  IN  /\ b \in Batches /\ b < cursor
      /\ \A m \in Lanes \ {l} : lane[m].batch # b
      /\ p \in {0, 1} /\ 2 * k + p + Len(stream[b]) = 2 * Served(b)
      /\ \A j \in 1 .. Served(b) : answered[OffsetOf(b) + j] \in {<<"OK">>, <<"ERR">>}
      /\ \A j \in 1 .. k : lane[l].replies[j] = <<CharOf(b, 2 * j - 1)>>
      /\ p = 1 => lane[l].pending[1] = CharOf(b, 2 * k + 1)
      /\ \A i \in 1 .. Len(stream[b]) : stream[b][i] = CharOf(b, 2 * k + p + i)

Sending ==
  /\ \A b \in Batches : InboxOf(b)
  /\ \A l \in Lanes : lane[l] = NoBatch \/ LaneOf(l)
  /\ \A c \in Commands : Len(answered[c]) <= 1
  /\ \A c \in Commands : results[c] = "ok" => answered[c] = <<"OK">>
  /\ \A c \in Commands : results[c] # "empty"
  /\ \A b \in Batches, c \in Commands : b < cursor /\ InBatch(c, b) /\ results[c] = "none"
       => \E l \in Lanes : lane[l].batch = b

(* While one command is sent alone.                                        *)
SendingAlone ==
  /\ cursor = 1 /\ \A l \in Lanes : lane[l] = NoBatch
  /\ \A b \in Batches \ {1} : inbox[b] = <<>>
  /\ inbox[1] \in {<<>>, <<1>>}
  /\ \A c \in Commands \ {1} : answered[c] = <<>> /\ results[c] = "none"
  /\ answered[1] = <<>> \/ (inbox[1] = <<>> /\ \E a \in {"OK", "ERR", "empty"} : answered[1] = <<a>>)
  /\ alone.at = "ready" => inbox[1] = <<>> /\ stream[1] = <<>> /\ alone.text = <<>> /\ answered[1] = <<>>
  /\ alone.at = "waits" =>
       \/ stream[1] = <<>> /\ alone.text = <<>> /\ answered[1] = <<>>
       \/ alone.text = <<>> /\ \E a \in {"OK", "ERR", "empty"} :
                                 answered[1] = <<a>> /\ stream[1] = Reply(1, a)
       \/ \E a \in {"OK", "ERR"} :
            answered[1] = <<a>> /\ alone.text = <<[to |-> 1, says |-> a]>> /\ stream[1] = <<LineEnd>>
  /\ alone.at # "over" => results[1] = "none"
  /\ results[1] = "ok" => answered[1] = <<"OK">>
  /\ results[1] = "empty" => answered[1] = <<"empty">>

ClientInv == TypeInv /\ IF alone.at = "unused" THEN Sending ELSE SendingAlone

-----------------------------------------------------------------------------
(* Batches.                                                                *)
LEMMA DivFacts ==
  ASSUME NEW a \in Nat, NEW d \in Nat \ {0}
  PROVE  /\ a \div d \in Nat /\ d * (a \div d) <= a /\ a < d * (a \div d) + d
OBVIOUS

LEMMA Products ==
  ASSUME NEW b \in Nat \ {0}, NEW d \in Nat \ {0}
  PROVE  /\ (b - 1) * d \in Nat /\ (b - 1) * d + d = b * d
         /\ \A x \in Nat : x < b => x * d + d <= b * d
OBVIOUS

LEMMA BatchFacts ==
  ASSUME NEW b \in Batches
  PROVE  /\ b \in Nat \ {0} /\ OffsetOf(b) \in Nat /\ Size(b) \in Nat /\ Size(b) <= PerBatch
         /\ CommandsOf(b) \in Seq(Commands) /\ Len(CommandsOf(b)) = Size(b)
         /\ \A n \in 1 .. Size(b) : /\ CommandsOf(b)[n] = OffsetOf(b) + n
                                    /\ OffsetOf(b) + n \in Commands
                                    /\ InBatch(OffsetOf(b) + n, b)
         /\ \A c \in Commands : InBatch(c, b) <=> \E n \in 1 .. Size(b) : c = OffsetOf(b) + n
<1> DEFINE o == OffsetOf(b)
           s == {c \in Commands : c > o /\ c <= o + PerBatch}
           top == IF o + PerBatch <= CommandCount THEN o + PerBatch ELSE CommandCount
<1>1. b \in Nat \ {0} /\ PerBatch \in Nat \ {0} /\ CommandCount \in Nat
  BY ClientAssumption DEF Batches
<1>2. o \in Nat
  BY <1>1, Products DEF OffsetOf
<1> HIDE DEF o
<1>3. s = (o + 1) .. top /\ top \in Nat /\ top <= o + PerBatch /\ top <= CommandCount
  BY <1>1, <1>2 DEF Commands
<1>4. Cardinality(s) = IF o + 1 <= top THEN top - o ELSE 0
  <2> HIDE DEF s, top
  <2>1. Cardinality((o + 1) .. top) = IF o + 1 > top THEN 0 ELSE top - (o + 1) + 1
    BY <1>2, <1>3, FS_Interval
  <2> QED  BY <1>2, <1>3, <2>1
<1> DEFINE m == Size(b)
<1>5. m = Cardinality(s)
  BY DEF Size, BatchOf, o
<1> HIDE DEF s, top
<1>6. m \in Nat /\ m <= PerBatch /\ \A c \in s : c \in o + 1 .. o + m
  BY <1>1, <1>2, <1>3, <1>4, <1>5
<1>7. \A n \in 1 .. m : o + n \in Commands /\ o + n > o /\ o + n <= o + PerBatch
  BY <1>1, <1>2, <1>3, <1>4, <1>5 DEF Commands
<1>8. CommandsOf(b) = [n \in 1 .. m |-> o + n]
  BY DEF CommandsOf, BatchOf, Size, o
<1>9. Len(CommandsOf(b)) = m /\ DOMAIN CommandsOf(b) = 1 .. m
  BY <1>6, <1>8
<1> HIDE DEF m
<1>10. CommandsOf(b) \in Seq(Commands) /\ Len(CommandsOf(b)) = m
  BY <1>6, <1>7, <1>8
<1>11. \A c \in Commands : (c > o /\ c <= o + PerBatch) => \E n \in 1 .. m : c = o + n
  <2> TAKE c \in Commands
  <2> HAVE c > o /\ c <= o + PerBatch
  <2>1. c \in o + 1 .. o + m /\ c \in Int
    BY <1>6 DEF s, Commands
  <2>2. c - o \in 1 .. m /\ c = o + (c - o)
    BY <1>2, <1>6, <2>1
  <2> QED  BY <2>2
<1>12. \A n \in 1 .. m : InBatch(o + n, b)
  BY <1>7 DEF InBatch, o
<1>13. \A c \in Commands : InBatch(c, b) => c > o /\ c <= o + PerBatch
  BY DEF InBatch, o
<1>14. \A c \in Commands : InBatch(c, b) <=> \E n \in 1 .. m : c = o + n
  BY <1>11, <1>12, <1>13
<1> QED  BY <1>1, <1>2, <1>6, <1>7, <1>8, <1>10, <1>12, <1>14 DEF m, o

LEMMA NthCommand ==
  ASSUME NEW b \in Batches, NEW n \in 1 .. Size(b)
  PROVE  CommandsOf(b)[n] = OffsetOf(b) + n /\ OffsetOf(b) + n \in Commands /\ InBatch(OffsetOf(b) + n, b)
BY BatchFacts

LEMMA EveryBatch ==
  \A c \in Commands : \E b \in Batches : InBatch(c, b)
<1> SUFFICES ASSUME NEW c \in Commands PROVE \E b \in Batches : InBatch(c, b)
  OBVIOUS
<1> DEFINE q == (c - 1) \div PerBatch
           last == (CommandCount + PerBatch - 1) \div PerBatch
<1>1. PerBatch \in Nat \ {0} /\ CommandCount \in Nat /\ c \in Nat \ {0} /\ c <= CommandCount
  BY ClientAssumption DEF Commands
<1>2. q \in Nat /\ PerBatch * q <= c - 1 /\ c - 1 < PerBatch * q + PerBatch
  BY <1>1, DivFacts
<1>3. last \in Nat /\ CommandCount + PerBatch - 1 < PerBatch * last + PerBatch
  BY <1>1, DivFacts
<1> HIDE DEF q, last
<1>4. q + 1 <= last
  <2> SUFFICES ASSUME last <= q PROVE FALSE
    BY <1>2, <1>3
  <2>1. PerBatch * last <= PerBatch * q
    BY <1>1, <1>2, <1>3
  <2>2. PerBatch * last \in Nat /\ PerBatch * q \in Nat
    BY <1>1, <1>2, <1>3
  <2> QED  BY <1>1, <1>2, <1>3, <2>1, <2>2
<1>5. q + 1 \in Batches
  BY <1>2, <1>3, <1>4 DEF Batches, last
<1>6. OffsetOf(q + 1) = PerBatch * q
  BY <1>1, <1>2 DEF OffsetOf
<1>7. PerBatch * q \in Nat
  BY <1>1, <1>2
<1>8. InBatch(c, q + 1)
  BY <1>1, <1>2, <1>6, <1>7 DEF InBatch
<1> QED  BY <1>5, <1>8

LEMMA OneBatch ==
  ASSUME NEW b \in Batches, NEW d \in Batches, NEW c \in Commands, InBatch(c, b), InBatch(c, d)
  PROVE  b = d
<1>1. b \in Nat \ {0} /\ d \in Nat \ {0} /\ PerBatch \in Nat \ {0} /\ c \in Nat
  BY ClientAssumption DEF Batches, Commands
<1>2. /\ OffsetOf(b) + PerBatch = b * PerBatch /\ OffsetOf(d) + PerBatch = d * PerBatch
      /\ OffsetOf(b) \in Nat /\ OffsetOf(d) \in Nat
  BY <1>1, Products DEF OffsetOf
<1>3. /\ b < d => b * PerBatch + PerBatch <= d * PerBatch
      /\ d < b => d * PerBatch + PerBatch <= b * PerBatch
  BY <1>1, Products
<1>4. b * PerBatch \in Nat /\ d * PerBatch \in Nat
  BY <1>1
<1> QED  BY <1>1, <1>2, <1>3, <1>4 DEF InBatch

-----------------------------------------------------------------------------
(* Parsing.  A text with a line end in every second place is taken apart   *)
(* into its lines of one character, and at most one character is left.     *)
Paired(text) == \A i \in 1 .. Len(text) : text[i] = LineEnd <=> i % 2 = 0

LEMMA PairedEnds ==
  ASSUME NEW text \in Seq(Chars), Paired(text)
  PROVE  /\ EndsOf(text) = {n \in 1 .. Len(text) : n % 2 = 0}
         /\ \A n \in 1 .. Len(text) + 1 : EndBefore(text, n) = 2 * ((n - 1) \div 2)
<1>1. EndsOf(text) = {n \in 1 .. Len(text) : n % 2 = 0}
  BY DEF EndsOf, Paired
<1>2. ASSUME NEW n \in 1 .. Len(text) + 1
      PROVE  EndBefore(text, n) = 2 * ((n - 1) \div 2)
  <2> DEFINE before == {k \in EndsOf(text) : k < n}
             h == (n - 1) \div 2
  <2>1. Len(text) \in Nat /\ n \in Nat \ {0} /\ h \in Nat /\ 2 * h <= n - 1 /\ n - 1 < 2 * h + 2
    BY <1>2
  <2>2. before = {k \in 1 .. Len(text) : k % 2 = 0 /\ k < n}
    BY <1>1
  <2>3. \A k \in before : k \in Nat /\ k <= 2 * h
    <3> TAKE k \in before
    <3>1. k \in Nat /\ k % 2 = 0 /\ k <= n - 1
      BY <2>1, <2>2
    <3>2. k = 2 * (k \div 2) /\ k \div 2 \in Nat
      BY <3>1
    <3> QED  BY <2>1, <3>1, <3>2
  <2>4. CASE h = 0
    <3>1. before = {}
      BY <2>1, <2>2, <2>3, <2>4
    <3> QED  BY <2>4, <3>1 DEF EndBefore
  <2>5. CASE h > 0
    <3>1. 2 * h \in before
      <4>1. 2 * h \in 1 .. Len(text) /\ 2 * h < n
        BY <1>2, <2>1, <2>5
      <4>2. (2 * h) % 2 = 0
        BY <2>1
      <4> QED  BY <2>2, <4>1, <4>2
    <3> HIDE DEF before
    <3>2. \A k \in before : (\A j \in before : j <= k) => k = 2 * h
      BY <2>1, <2>3, <3>1
    <3>3. \A j \in before : j <= 2 * h
      BY <2>3
    <3>4. (CHOOSE k \in before : \A j \in before : j <= k) = 2 * h
      BY <3>1, <3>2, <3>3
    <3>5. before # {}
      BY <3>1
    <3>6. EndBefore(text, n) = IF before = {} THEN 0
                               ELSE CHOOSE k \in before : \A j \in before : j <= k
      BY DEF EndBefore, before
    <3> QED  BY <3>4, <3>5, <3>6
  <2> QED  BY <2>1, <2>4, <2>5
<1> QED  BY <1>1, <1>2

LEMMA CountEven ==
  ASSUME NEW m \in Nat
  PROVE  Cardinality({n \in 1 .. 2 * m : n % 2 = 0}) = m
<1> DEFINE e == {n \in 1 .. 2 * m : n % 2 = 0}
           f == [j \in 1 .. m |-> 2 * j]
<1>1. f \in [1 .. m -> e]
  <2>1. \A j \in 1 .. m : 2 * j \in 1 .. 2 * m /\ (2 * j) % 2 = 0
    OBVIOUS
  <2> QED  BY <2>1
<1>2. \A i, j \in 1 .. m : f[i] = f[j] => i = j
  OBVIOUS
<1>3. \A n \in e : \E j \in 1 .. m : f[j] = n
  <2> TAKE n \in e
  <2>1. n \in Nat \ {0} /\ n = 2 * (n \div 2) /\ n \div 2 \in Nat /\ n <= 2 * m
    OBVIOUS
  <2>2. n \div 2 \in 1 .. m
    BY <2>1
  <2> QED  BY <2>1, <2>2
<1>4. f \in Bijection(1 .. m, e)
  <2> HIDE DEF f, e
  <2>1. f \in Injection(1 .. m, e)
    BY <1>1, <1>2 DEF Injection, IsInjective
  <2>2. f \in Surjection(1 .. m, e)
    BY <1>1, <1>3 DEF Surjection
  <2> QED  BY <2>1, <2>2 DEF Bijection
<1>5. IsFiniteSet(1 .. m) /\ Cardinality(1 .. m) = m
  BY FS_Interval
<1> HIDE DEF f, e
<1>6. Cardinality(e) = m
  BY <1>4, <1>5, FS_Bijection DEF ExistsBijection
<1> QED  BY <1>6 DEF e

LEMMA OneOfSeq ==
  ASSUME NEW S, NEW s, NEW i \in Int, s[i] \in S
  PROVE  SubSeq(s, i, i) = <<s[i]>> /\ SubSeq(s, i, i) \in Seq(S)
<1>1. \A k \in i .. i : s[k] \in S
  OBVIOUS
<1>2. /\ SubSeq(s, i, i) \in Seq(S) /\ Len(SubSeq(s, i, i)) = 1
      /\ SubSeq(s, i, i)[1] = s[i]
  <2>1. /\ SubSeq(s, i, i) \in Seq(S) /\ Len(SubSeq(s, i, i)) = i - i + 1
        /\ \A k \in 1 .. i - i + 1 : SubSeq(s, i, i)[k] = s[i + k - 1]
    BY <1>1, SubSeqProperties
  <2> QED  BY <2>1
<1> DEFINE t == SubSeq(s, i, i)
<1> HIDE DEF t
<1>3. t \in Seq(S) /\ Len(t) = 1 /\ t[1] = s[i] => t = <<s[i]>>
  OBVIOUS
<1> QED  BY <1>2, <1>3 DEF t

LEMMA PairedLines ==
  ASSUME NEW text \in Seq(Chars), Paired(text)
  PROVE  /\ LinesOf(text) \in Seq(Seq(Chars)) /\ Len(LinesOf(text)) = Len(text) \div 2
         /\ \A j \in 1 .. Len(text) \div 2 : LinesOf(text)[j] = <<text[2 * j - 1]>>
         /\ Remainder(text) \in Seq(Chars) /\ Len(Remainder(text)) = Len(text) % 2
         /\ Len(text) % 2 = 1 => Remainder(text)[1] = text[Len(text)]
<1> DEFINE m == Len(text) \div 2
           full == {n \in EndsOf(text) : EndBefore(text, n) < n - 1}
           nth(i) == CHOOSE n \in full : Cardinality({k \in full : k < n}) = i - 1
           line(i) == SubSeq(text, EndBefore(text, nth(i)) + 1, nth(i) - 1)
<1>1. Len(text) \in Nat /\ m \in Nat /\ 2 * m <= Len(text) /\ Len(text) - 2 * m = Len(text) % 2
  OBVIOUS
<1>2. full = {n \in 1 .. 2 * m : n % 2 = 0}
  <2>1. ASSUME NEW n \in EndsOf(text) PROVE EndBefore(text, n) < n - 1
    <3>1. n \in 1 .. Len(text) + 1 /\ n \in Nat \ {0} /\ n % 2 = 0
      BY <1>1, PairedEnds
    <3>2. 2 * ((n - 1) \div 2) < n - 1
      BY <3>1
    <3> QED  BY <3>1, <3>2, PairedEnds
  <2>2. \A n \in 1 .. Len(text) : n % 2 = 0 => n \in 1 .. 2 * m
    BY <1>1
  <2> QED  BY <1>1, <2>1, <2>2, PairedEnds
<1>3. Cardinality(full) = m
  BY <1>1, <1>2, CountEven
<1> HIDE DEF full, m
<1>4. ASSUME NEW j \in 1 .. m PROVE nth(j) = 2 * j
  <2>1. \A n \in full : Cardinality({k \in full : k < n}) = (n \div 2) - 1
    <3> TAKE n \in full
    <3> DEFINE h == n \div 2 - 1
    <3>1. n \in Nat /\ n = 2 * (h + 1) /\ h \in Nat /\ n <= 2 * m
      BY <1>1, <1>2
    <3>2. {k \in full : k < n} = {k \in 1 .. 2 * h : k % 2 = 0}
      <4>1. \A k \in Nat : k % 2 = 0 /\ k < n => k <= 2 * h
        BY <3>1
      <4> HIDE DEF h
      <4> QED  BY <1>1, <1>2, <3>1, <4>1
    <3> QED  BY <3>1, <3>2, CountEven
  <2>2. 2 * j \in full /\ \A n \in full : n \div 2 - 1 = j - 1 => n = 2 * j
    BY <1>1, <1>2
  <2>3. (2 * j) \div 2 - 1 = j - 1
    OBVIOUS
  <2>4. Cardinality({k \in full : k < 2 * j}) = j - 1
    BY <2>1, <2>2, <2>3
  <2>5. \A n \in full : Cardinality({k \in full : k < n}) = j - 1 => n = 2 * j
    BY <2>1, <2>2
  <2> QED  BY <2>2, <2>4, <2>5
<1>5. ASSUME NEW j \in 1 .. m PROVE line(j) = <<text[2 * j - 1]>> /\ line(j) \in Seq(Chars)
  <2>1. EndBefore(text, 2 * j) = 2 * j - 2
    <3>1. 2 * j \in 1 .. Len(text) + 1 /\ 2 * ((2 * j - 1) \div 2) = 2 * j - 2
      BY <1>1, <1>5
    <3> QED  BY <3>1, PairedEnds
  <2>2. line(j) = SubSeq(text, 2 * j - 1, 2 * j - 1)
    <3>1. nth(j) = 2 * j
      BY <1>4
    <3> HIDE DEF nth
    <3>2. line(j) = SubSeq(text, 2 * j - 2 + 1, 2 * j - 1)
      BY <2>1, <3>1
    <3>3. 2 * j - 2 + 1 = 2 * j - 1
      BY <1>1, <1>5
    <3> HIDE DEF line
    <3> QED  BY <3>2, <3>3
  <2>3. 2 * j - 1 \in 1 .. Len(text) /\ text[2 * j - 1] \in Chars
    BY <1>1, <1>5
  <2> HIDE DEF line
  <2> QED  BY <2>2, <2>3, OneOfSeq
<1>6. LinesOf(text) = [i \in 1 .. m |-> line(i)]
  BY <1>3 DEF LinesOf, full
<1> HIDE DEF line
<1>7. LinesOf(text) \in Seq(Seq(Chars)) /\ Len(LinesOf(text)) = m
      /\ \A j \in 1 .. m : LinesOf(text)[j] = <<text[2 * j - 1]>>
  BY <1>1, <1>5, <1>6
<1>8. Remainder(text) = SubSeq(text, 2 * m + 1, Len(text))
  <2>1. EndBefore(text, Len(text) + 1) = 2 * m
    BY <1>1, PairedEnds DEF m
  <2> QED  BY <2>1 DEF Remainder
<1>9. /\ Remainder(text) \in Seq(Chars) /\ Len(Remainder(text)) = Len(text) - 2 * m
      /\ Len(text) - 2 * m = 1 => Remainder(text)[1] = text[Len(text)]
  <2>1. Len(text) - 2 * m \in {0, 1}
    BY <1>1
  <2>2. CASE Len(text) - 2 * m = 0
    <3>1. 2 * m + 1 \in Int /\ Len(text) \in Int /\ Len(text) < 2 * m + 1
      BY <1>1, <2>2
    <3>2. Remainder(text) = <<>>
      BY <1>8, <3>1, SubSeqEmpty
    <3> QED  BY <2>2, <3>2
  <2>3. CASE Len(text) - 2 * m = 1
    <3>1. 2 * m + 1 = Len(text) /\ Len(text) \in Int /\ text[Len(text)] \in Chars
      BY <1>1, <2>3
    <3>2. Remainder(text) = <<text[Len(text)]>> /\ Remainder(text) \in Seq(Chars)
      BY <1>8, <3>1, OneOfSeq
    <3> QED  BY <2>3, <3>2
  <2> QED  BY <2>1, <2>2, <2>3
<1> QED  BY <1>1, <1>7, <1>9 DEF m

-----------------------------------------------------------------------------
(* Steps while batches are sent.                                           *)
LEMMA ServedFacts ==
  ASSUME TypeInv, NEW b \in Batches, InboxOf(b)
  PROVE  /\ Served(b) \in Nat /\ Served(b) <= Size(b) /\ Size(b) \in Nat
         /\ Len(inbox[b]) \in Nat /\ Size(b) = Served(b) + Len(inbox[b])
         /\ inbox[b] # <<>> => Served(b) < Size(b)
<1>1. inbox[b] \in Seq(Commands)
  BY DEF TypeInv
<1>2. Size(b) \in Nat
  BY BatchFacts
<1>3. Len(inbox[b]) \in Nat /\ (inbox[b] # <<>> => Len(inbox[b]) > 0)
  BY <1>1
<1> QED  BY <1>2, <1>3 DEF InboxOf, Served

(* A character stays what it is when its command's answer does.            *)
LEMMA CharStays ==
  ASSUME NEW b \in Batches, NEW s \in Nat,
         \A j \in 1 .. s : answered'[OffsetOf(b) + j] = answered[OffsetOf(b) + j]
  PROVE  \A n \in 1 .. 2 * s : CharOf(b, n)' = CharOf(b, n)
<1> TAKE n \in 1 .. 2 * s
<1> DEFINE h == (n + 1) \div 2
<1>1. h \in 1 .. s
  OBVIOUS
<1> HIDE DEF h
<1>2. answered'[OffsetOf(b) + h] = answered[OffsetOf(b) + h]
  BY <1>1
<1> QED  BY <1>2 DEF CharOf, LineEnd, OffsetOf, h

LEMMA Within ==
  ASSUME NEW k \in Nat, NEW p \in {0, 1}, NEW n \in Nat, NEW s \in Nat, 2 * k + p + n = 2 * s
  PROVE  /\ \A j \in 1 .. k : 2 * j - 1 \in 1 .. 2 * s
         /\ p = 1 => 2 * k + 1 \in 1 .. 2 * s
         /\ \A i \in 1 .. n : 2 * k + p + i \in 1 .. 2 * s
         /\ k <= s
<1>1. \A j \in 1 .. k : 2 * j - 1 \in 1 .. 2 * s
  OBVIOUS
<1>2. p = 1 => 2 * k + 1 \in 1 .. 2 * s
  OBVIOUS
<1>3. \A i \in 1 .. n : 2 * k + p + i \in 1 .. 2 * s
  OBVIOUS
<1> QED  BY <1>1, <1>2, <1>3

LEMMA TwoMore ==
  ASSUME NEW k \in Nat, NEW p \in {0, 1}, NEW n \in Nat, NEW s \in Nat, 2 * k + p + n = 2 * s
  PROVE  /\ 2 * k + p + (n + 1) = 2 * s + 1
         /\ 2 * k + p + (n + 2) = 2 * s + 2
         /\ 2 * k + p + (n + 2) = 2 * (s + 1)
OBVIOUS

LEMMA LaneIs ==
  ASSUME NEW m \in Lanes, NEW b, NEW k, NEW p, b = lane'[m].batch,
         k = Len(lane'[m].replies), p = Len(lane'[m].pending),
         b \in Batches, b < cursor',
         \A x \in Lanes \ {m} : lane'[x].batch # b,
         p \in {0, 1}, 2 * k + p + Len(stream'[b]) = 2 * Served(b)',
         \A j \in 1 .. Served(b)' : answered'[OffsetOf(b) + j] \in {<<"OK">>, <<"ERR">>},
         \A j \in 1 .. k : lane'[m].replies[j] = <<CharOf(b, 2 * j - 1)'>>,
         p = 1 => lane'[m].pending[1] = CharOf(b, 2 * k + 1)',
         \A i \in 1 .. Len(stream'[b]) : stream'[b][i] = CharOf(b, 2 * k + p + i)'
  PROVE  LaneOf(m)'
BY DEF LaneOf, OffsetOf

(* A runner whose batch nothing happens to.                                *)
LEMMA LaneKept ==
  ASSUME TypeInv, NEW m \in Lanes, NEW b, b = lane[m].batch, LaneOf(m), InboxOf(b),
         lane'[m] = lane[m], stream'[b] = stream[b], inbox'[b] = inbox[b],
         cursor \in Nat, cursor' \in Nat, cursor <= cursor',
         \A x \in Lanes \ {m} : lane'[x].batch # b,
         \A j \in 1 .. Served(b) : answered'[OffsetOf(b) + j] = answered[OffsetOf(b) + j]
  PROVE  LaneOf(m)'
<1> PICK k : k = Len(lane[m].replies)
  OBVIOUS
<1> PICK p : p = Len(lane[m].pending)
  OBVIOUS
<1> PICK s : s = Served(b)
  OBVIOUS
<1>1. b \in Batches /\ b \in Nat /\ b < cursor
  BY BatchFacts DEF LaneOf
<1>2. s \in Nat /\ Served(b)' = s
  BY <1>1, ServedFacts DEF Served, Size, OffsetOf
<1>3. /\ p \in {0, 1} /\ 2 * k + p + Len(stream[b]) = 2 * s
      /\ \A j \in 1 .. s : answered[OffsetOf(b) + j] \in {<<"OK">>, <<"ERR">>}
      /\ \A j \in 1 .. k : lane[m].replies[j] = <<CharOf(b, 2 * j - 1)>>
      /\ p = 1 => lane[m].pending[1] = CharOf(b, 2 * k + 1)
      /\ \A i \in 1 .. Len(stream[b]) : stream[b][i] = CharOf(b, 2 * k + p + i)
  BY DEF LaneOf
<1>4. k \in Nat /\ Len(stream[b]) \in Nat
  <2>1. lane[m].replies \in Seq(Seq(Chars)) /\ stream[b] \in Seq(Chars)
    BY <1>1 DEF TypeInv, LaneRec
  <2> QED  BY <2>1
<1>5. \A n \in 1 .. 2 * s : CharOf(b, n)' = CharOf(b, n)
  BY <1>1, <1>2, CharStays
<1>6. p \in {0, 1} /\ 2 * k + p + Len(stream[b]) = 2 * s
  BY <1>3
<1>7. \A j \in 1 .. k : lane[m].replies[j] = <<CharOf(b, 2 * j - 1)'>>
  <2> TAKE j \in 1 .. k
  <2>1. 2 * j - 1 \in 1 .. 2 * s
    BY <1>2, <1>4, <1>6, Within
  <2>2. CharOf(b, 2 * j - 1)' = CharOf(b, 2 * j - 1)
    BY <1>5, <2>1
  <2> QED  BY <1>3, <2>2
<1>8. p = 1 => lane[m].pending[1] = CharOf(b, 2 * k + 1)'
  <2> HAVE p = 1
  <2>1. 2 * k + 1 \in 1 .. 2 * s
    BY <1>2, <1>4, <1>6, Within
  <2>2. CharOf(b, 2 * k + 1)' = CharOf(b, 2 * k + 1)
    BY <1>5, <2>1
  <2> QED  BY <1>3, <2>2
<1>9. \A i \in 1 .. Len(stream[b]) : stream[b][i] = CharOf(b, 2 * k + p + i)'
  <2> TAKE i \in 1 .. Len(stream[b])
  <2>1. 2 * k + p + i \in 1 .. 2 * s
    BY <1>2, <1>4, <1>6, Within
  <2>2. CharOf(b, 2 * k + p + i)' = CharOf(b, 2 * k + p + i)
    BY <1>5, <2>1
  <2> QED  BY <1>3, <2>2
<1>10. b < cursor'
  BY <1>1
<1>11. \A j \in 1 .. s : answered'[OffsetOf(b) + j] \in {<<"OK">>, <<"ERR">>}
  BY <1>3
<1> QED
  <2>1. lane'[m].batch = b
    OBVIOUS
  <2>2. \A j \in 1 .. k : lane'[m].replies[j] = <<CharOf(b, 2 * j - 1)'>>
    BY <1>7
  <2>3. \A i \in 1 .. Len(stream'[b]) : stream'[b][i] = CharOf(b, 2 * k + p + i)'
    BY <1>9
  <2>4. p = 1 => lane'[m].pending[1] = CharOf(b, 2 * k + 1)'
    BY <1>8
  <2>5. k = Len(lane'[m].replies) /\ p = Len(lane'[m].pending) /\ stream'[b] = stream[b]
    OBVIOUS
  <2> QED
    BY <1>1, <1>2, <1>6, <1>10, <1>11, <2>1, <2>2, <2>3, <2>4, <2>5, LaneIs

(* A batch that nothing happens to, but for its thread's end.              *)
LEMMA InboxKept ==
  ASSUME TypeInv, NEW b \in Batches, InboxOf(b), inbox'[b] \in {inbox[b], <<>>},
         cursor \in Nat, cursor' \in Nat, cursor <= cursor',
         \A c \in Commands : InBatch(c, b) => answered'[c] = answered[c],
         b >= cursor' => /\ stream'[b] = stream[b]
                         /\ \A c \in Commands : InBatch(c, b) => results'[c] = results[c]
  PROVE  InboxOf(b)'
<1>1. \A c \in Commands : InBatch(c, b)' <=> InBatch(c, b)
  BY DEF InBatch, OffsetOf
<1>2. b \in Nat /\ Size(b) \in Nat /\ Size(b)' = Size(b)
  BY BatchFacts DEF Size, BatchOf, OffsetOf
<1>3. b >= cursor' => b >= cursor
  BY <1>2
<1>4. CASE inbox'[b] = inbox[b]
  <2>1. Served(b)' = Served(b)
    BY <1>2, <1>4 DEF Served
  <2> QED  BY <1>1, <1>2, <1>3, <1>4, <2>1 DEF InboxOf, OffsetOf
<1>5. CASE inbox'[b] = <<>>
  <2>1. Len(inbox'[b]) = 0
    BY <1>5
  <2> QED  BY <1>1, <1>2, <1>3, <1>5, <2>1 DEF InboxOf, OffsetOf
<1> QED  BY <1>4, <1>5

LEMMA SendBatchStep ==
  ASSUME TypeInv, Sending, NEW l \in Lanes, SendBatch(l)
  PROVE  TypeInv' /\ Sending' /\ alone' = alone
<1>b. PICK b : b = cursor
  OBVIOUS
<1>1. b \in Batches /\ b \in Nat \ {0} /\ cursor' = b + 1 /\ lane[l] = NoBatch
  BY <1>b, BatchFacts DEF SendBatch
<1>2. /\ lane' = [lane EXCEPT ![l].batch = b] /\ inbox' = [inbox EXCEPT ![b] = CommandsOf(b)]
      /\ UNCHANGED <<stream, alone, results, answered, breaks>>
  BY <1>b DEF SendBatch
<1>3. TypeInv'
  <2>1. lane' \in [Lanes -> LaneRec]
    BY <1>1, <1>2 DEF TypeInv, LaneRec
  <2>2. inbox' \in [Batches -> Seq(Commands)]
    BY <1>1, <1>2, BatchFacts DEF TypeInv
  <2>3. cursor' \in Nat \ {0}
    BY <1>1
  <2> QED  BY <1>2, <2>1, <2>2, <2>3 DEF TypeInv
<1>4. \A m \in Lanes : m # l => lane'[m] = lane[m]
  BY <1>2 DEF TypeInv
<1>5. /\ lane'[l].batch = b /\ lane'[l].pending = <<>> /\ lane'[l].replies = <<>>
  BY <1>1, <1>2 DEF TypeInv, NoBatch
<1>6. \A d \in Batches : d # b => inbox'[d] = inbox[d]
  BY <1>2 DEF TypeInv
<1>7. inbox'[b] = CommandsOf(b)
  BY <1>1, <1>2 DEF TypeInv
<1>8. /\ \A c \in Commands : InBatch(c, b) => answered[c] = <<>> /\ results[c] = "none"
      /\ stream[b] = <<>>
  BY <1>b, <1>1 DEF Sending, InboxOf
<1>9. Served(b)' = 0 /\ Len(inbox'[b]) = Size(b) /\ Size(b) \in Nat
  BY <1>1, <1>7, BatchFacts DEF Served, Size, BatchOf, OffsetOf
<1>10. ASSUME NEW d \in Batches PROVE InboxOf(d)'
  <2>1. CASE d # b
    <3>1. InboxOf(d) /\ inbox'[d] = inbox[d]
      BY <1>6, <2>1 DEF Sending
    <3>2. cursor \in Nat /\ cursor' \in Nat /\ cursor <= cursor'
      BY <1>b, <1>1
    <3> QED  BY <1>2, <3>1, <3>2, InboxKept
  <2>2. CASE d = b
    <3>1. \A i \in 1 .. Size(b) : inbox'[b][i] = OffsetOf(b) + 0 + i
      <4> TAKE i \in 1 .. Size(b)
      <4>1. OffsetOf(b) \in Nat /\ i \in Int
        BY <1>1, BatchFacts
      <4>2. OffsetOf(b) + 0 + i = OffsetOf(b) + i
        BY <4>1
      <4>3. CommandsOf(b)[i] = OffsetOf(b) + i
        BY <1>1, NthCommand
      <4> QED  BY <1>7, <4>2, <4>3
    <3>2. \A c \in Commands : InBatch(c, d)' => answered'[c] = <<>>
      BY <1>2, <1>8, <2>2 DEF InBatch, OffsetOf
    <3>3. Size(d)' = Size(d) /\ Served(d)' = 0 /\ Len(inbox'[d]) = Size(d) /\ Size(d) \in Nat
      BY <1>9, <2>2 DEF Size, BatchOf, OffsetOf
    <3>4. ~(d >= cursor')
      BY <1>1, <2>2
    <3> QED  BY <2>2, <3>1, <3>2, <3>3, <3>4 DEF InboxOf, OffsetOf
  <2> QED  BY <2>1, <2>2
<1>11. \A m \in Lanes : lane[m] # NoBatch => /\ LaneOf(m) /\ lane[m].batch \in Batches
                                             /\ lane[m].batch < b /\ lane[m].batch # b
  <2> TAKE m \in Lanes
  <2> HAVE lane[m] # NoBatch
  <2>1. LaneOf(m)
    BY DEF Sending
  <2>2. lane[m].batch \in Batches /\ lane[m].batch < b
    BY <1>b, <2>1 DEF LaneOf
  <2> QED  BY <1>1, <2>1, <2>2, BatchFacts
<1>12. \A m \in Lanes : lane[m].batch # b
  BY <1>1, <1>11 DEF NoBatch
<1>13. ASSUME NEW m \in Lanes PROVE lane'[m] = NoBatch \/ LaneOf(m)'
  <2>1. CASE m # l /\ lane[m] # NoBatch
    <3> DEFINE d == lane[m].batch
    <3>1. LaneOf(m) /\ d \in Batches /\ d # b /\ InboxOf(d)
      BY <1>11, <2>1 DEF Sending
    <3>2. \A x \in Lanes \ {m} : lane'[x].batch # d
      BY <1>4, <1>5, <3>1 DEF LaneOf
    <3>3. lane'[m] = lane[m] /\ inbox'[d] = inbox[d] /\ stream'[d] = stream[d]
      BY <1>2, <1>4, <1>6, <2>1, <3>1
    <3>4. cursor \in Nat /\ cursor' \in Nat /\ cursor <= cursor'
      BY <1>b, <1>1
    <3>5. PICK e : e = d
      OBVIOUS
    <3> QED  BY <1>2, <3>1, <3>2, <3>3, <3>4, <3>5, LaneKept
  <2>2. CASE m = l
    <3>1. PICK e : e = b
      OBVIOUS
    <3>2. \A x \in Lanes \ {m} : lane'[x].batch # e
      BY <1>4, <1>12, <2>2, <3>1
    <3>3. e \in Batches /\ e < cursor' /\ lane'[m].batch = e /\ stream'[e] = <<>>
      BY <1>1, <1>2, <1>5, <1>8, <2>2, <3>1
    <3>4. Len(lane'[m].replies) = 0 /\ Len(lane'[m].pending) = 0 /\ Len(stream'[e]) = 0
      BY <1>5, <2>2, <3>3
    <3>5. Served(e)' = 0
      BY <1>9, <3>1 DEF Served, Size, BatchOf, OffsetOf
    <3> QED  BY <3>2, <3>3, <3>4, <3>5 DEF LaneOf
  <2>3. CASE m # l /\ lane[m] = NoBatch
    BY <1>4, <2>3
  <2> QED  BY <2>1, <2>2, <2>3
<1>14. ASSUME NEW d \in Batches, NEW c \in Commands, d < cursor', InBatch(c, d), results[c] = "none"
       PROVE  \E m \in Lanes : lane'[m].batch = d
  <2>1. CASE d = b
    BY <1>5, <2>1
  <2>2. CASE d # b
    <3>1. d < cursor
      BY <1>b, <1>1, <1>14, <2>2, BatchFacts
    <3>2. PICK m \in Lanes : lane[m].batch = d
      BY <1>14, <3>1 DEF Sending
    <3>3. m # l
      BY <1>1, <3>2, BatchFacts DEF NoBatch
    <3> QED  BY <1>4, <3>2, <3>3
  <2> QED  BY <2>1, <2>2
<1>15. Sending'
  BY <1>2, <1>10, <1>13, <1>14 DEF Sending, InBatch, OffsetOf, NoBatch
<1> QED  BY <1>2, <1>3, <1>15

LEMMA ServeStep ==
  ASSUME TypeInv, Sending, alone.at = "unused", NEW b \in Batches, Serve(b)
  PROVE  TypeInv' /\ Sending' /\ alone' = alone
<1>s. PICK s : s = Served(b)
  OBVIOUS
<1>c. PICK c : c = Head(inbox[b])
  OBVIOUS
<1>1. /\ inbox[b] # <<>> /\ inbox[b] \in Seq(Commands) /\ InboxOf(b)
      /\ s \in Nat /\ s + 1 \in 1 .. Size(b) /\ Size(b) \in Nat /\ Size(b) = s + Len(inbox[b])
  <2>1. inbox[b] # <<>> /\ inbox[b] \in Seq(Commands) /\ InboxOf(b)
    BY DEF Serve, TypeInv, Sending
  <2> QED  BY <1>s, <2>1, ServedFacts
<1>2. c = OffsetOf(b) + s + 1 /\ c \in Commands /\ InBatch(c, b) /\ c \in Nat /\ OffsetOf(b) \in Nat
  <2>1. c = inbox[b][1] /\ 1 \in 1 .. Len(inbox[b])
    BY <1>c, <1>1
  <2>2. c = OffsetOf(b) + s + 1
    BY <1>s, <1>1, <2>1 DEF InboxOf
  <2>3. OffsetOf(b) \in Nat /\ OffsetOf(b) + (s + 1) \in Commands /\ InBatch(OffsetOf(b) + (s + 1), b)
    BY <1>1, BatchFacts
  <2> QED  BY <1>1, <2>2, <2>3 DEF Commands
<1>3. answered[c] = <<>>
  <2>1. c > OffsetOf(b) + s
    BY <1>1, <1>2
  <2> QED  BY <1>s, <1>1, <1>2, <2>1 DEF InboxOf
<1>4. PICK a \in {"OK", "ERR"} :
        /\ answered' = [answered EXCEPT ![c] = Append(@, a)]
        /\ stream' = IF Listens(b) THEN [stream EXCEPT ![b] = @ \o Reply(c, a)] ELSE stream
  BY <1>c DEF Serve, Answers
<1>5. inbox' = [inbox EXCEPT ![b] = Tail(@)] /\ UNCHANGED <<cursor, lane, alone, results, breaks>>
  BY <1>c DEF Serve
<1>6. answered'[c] = <<a>> /\ \A x \in Commands : x # c => answered'[x] = answered[x]
  BY <1>2, <1>3, <1>4 DEF TypeInv
<1>7. /\ inbox'[b] = Tail(inbox[b]) /\ Len(inbox'[b]) = Len(inbox[b]) - 1
      /\ \A i \in 1 .. Len(inbox'[b]) : inbox'[b][i] = inbox[b][i + 1]
      /\ inbox'[b] \in Seq(Commands)
      /\ \A d \in Batches : d # b => inbox'[d] = inbox[d]
  BY <1>1, <1>5 DEF TypeInv
<1>8. Served(b)' = s + 1 /\ Size(b)' = Size(b)
  <2>1. Size(b)' = Size(b)
    BY DEF Size, BatchOf, OffsetOf
  <2> QED  BY <1>1, <1>7, <2>1 DEF Served
<1>9. PICK r \in Chars : r = [to |-> c, says |-> a]
  BY <1>2 DEF Chars
<1>10. Reply(c, a) = <<r, LineEnd>> /\ LineEnd \in Chars
  BY <1>9 DEF Reply, LineEnd, Chars
<1>11. stream[b] \in Seq(Chars)
  BY DEF TypeInv
<1>12. \A d \in Batches : d # b => stream'[d] = stream[d]
  BY <1>4 DEF TypeInv
<1>13. Listens(b) => stream'[b] = stream[b] \o <<r, LineEnd>>
  BY <1>4, <1>10 DEF TypeInv
<1>14. TypeInv'
  <2>1. stream' \in [Batches -> Seq(Chars)]
    <3>1. stream[b] \o <<r, LineEnd>> \in Seq(Chars)
      BY <1>10, <1>11
    <3> QED  BY <1>4, <1>10, <3>1 DEF TypeInv
  <2>2. inbox' \in [Batches -> Seq(Commands)]
    BY <1>5, <1>7 DEF TypeInv
  <2>3. answered' \in [Commands -> Seq({"OK", "ERR", "empty"})]
    <3>1. answered[c] \in Seq({"OK", "ERR", "empty"}) /\ a \in {"OK", "ERR", "empty"}
      BY <1>2 DEF TypeInv
    <3>2. Append(answered[c], a) \in Seq({"OK", "ERR", "empty"})
      BY <3>1
    <3> QED  BY <1>4, <3>2 DEF TypeInv
  <2> QED  BY <1>5, <2>1, <2>2, <2>3 DEF TypeInv
<1>15. b \in Nat /\ cursor \in Nat /\ b < cursor
  BY <1>1, BatchFacts DEF InboxOf, TypeInv
<1>16. ASSUME NEW d \in Batches PROVE InboxOf(d)'
  <2>1. CASE d # b
    <3>1. \A x \in Commands : InBatch(x, d) => answered'[x] = answered[x]
      BY <1>2, <1>6, <2>1, OneBatch
    <3>2. InboxOf(d) /\ inbox'[d] = inbox[d] /\ stream'[d] = stream[d]
      BY <1>7, <1>12, <2>1 DEF Sending
    <3>3. /\ inbox'[d] \in {inbox[d], <<>>} /\ cursor \in Nat /\ cursor' \in Nat /\ cursor <= cursor'
          /\ \A x \in Commands : InBatch(x, d) => results'[x] = results[x]
      <4>1. results' = results /\ cursor' = cursor
        BY <1>5
      <4>2. cursor <= cursor' /\ cursor' \in Nat
        BY <1>15, <4>1
      <4> QED  BY <1>15, <3>2, <4>1, <4>2
    <3> QED  BY <3>1, <3>2, <3>3, InboxKept
  <2>2. CASE d = b
    <3>1. \A i \in 1 .. Len(inbox'[b]) : inbox'[b][i] = OffsetOf(b) + (s + 1) + i
      <4> TAKE i \in 1 .. Len(inbox'[b])
      <4>1. i + 1 \in 1 .. Len(inbox[b]) /\ i \in Nat
        BY <1>1, <1>7
      <4>2. inbox[b][i + 1] = OffsetOf(b) + s + (i + 1)
        BY <1>s, <1>1, <4>1 DEF InboxOf
      <4> QED  BY <1>1, <1>2, <1>7, <4>1, <4>2, SMTT(30)
    <3>2. ASSUME NEW x \in Commands, InBatch(x, b), x > OffsetOf(b) + (s + 1)
          PROVE  answered'[x] = <<>>
      <4>1. x \in Nat /\ x # c /\ x > OffsetOf(b) + s
        BY <1>1, <1>2, <3>2 DEF Commands
      <4> QED  BY <1>s, <1>1, <1>6, <3>2, <4>1 DEF InboxOf
    <3>3. \A x \in Commands : InBatch(x, b)' <=> InBatch(x, b)
      BY DEF InBatch, OffsetOf
    <3>4. Len(inbox'[b]) <= Size(b)'
      BY <1>1, <1>7, <1>8
    <3>5. ~(b >= cursor')
      BY <1>5, <1>15
    <3>6. Served(b)' = s + 1 /\ OffsetOf(b)' = OffsetOf(b)
      BY <1>8 DEF OffsetOf
    <3> QED  BY <2>2, <3>1, <3>2, <3>3, <3>4, <3>5, <3>6 DEF InboxOf
  <2> QED  BY <2>1, <2>2
<1>17. ASSUME NEW m \in Lanes, lane[m] # NoBatch PROVE LaneOf(m)'
  <2>d. PICK d : d = lane[m].batch
    OBVIOUS
  <2>1. /\ LaneOf(m) /\ d \in Batches /\ d < cursor' /\ lane'[m] = lane[m] /\ InboxOf(d)
        /\ \A x \in Lanes \ {m} : lane'[x].batch # d
    <3>1. LaneOf(m)
      BY <1>17 DEF Sending
    <3> QED  BY <1>5, <2>d, <3>1 DEF LaneOf, Sending
  <2>2. CASE d # b
    <3>1. \A j \in 1 .. Served(d) : answered'[OffsetOf(d) + j] = answered[OffsetOf(d) + j]
      <4> TAKE j \in 1 .. Served(d)
      <4>1. OffsetOf(d) + j \in Commands /\ InBatch(OffsetOf(d) + j, d)
        <5>1. Served(d) <= Size(d) /\ Served(d) \in Nat /\ Size(d) \in Nat
          BY <2>1, ServedFacts
        <5>2. j \in 1 .. Size(d)
          BY <5>1
        <5> QED  BY <2>1, <5>2, NthCommand
      <4> QED  BY <1>2, <1>6, <2>1, <2>2, <4>1, OneBatch
    <3>2. /\ stream'[d] = stream[d] /\ inbox'[d] = inbox[d]
          /\ cursor \in Nat /\ cursor' \in Nat /\ cursor <= cursor'
      BY <1>5, <1>7, <1>12, <1>15, <2>1, <2>2
    <3> QED  BY <2>d, <2>1, <3>1, <3>2, LaneKept
  <2>3. CASE d = b
    <3>k. PICK k : k = Len(lane[m].replies)
      OBVIOUS
    <3>p. PICK p : p = Len(lane[m].pending)
      OBVIOUS
    <3>n. PICK n : n = Len(stream[b])
      OBVIOUS
    <3>0. s \in Nat
      BY <1>1
    <3>1. k \in Nat /\ n \in Nat
      <4>1. lane[m].replies \in Seq(Seq(Chars))
        BY DEF TypeInv, LaneRec
      <4> QED  BY <1>11, <3>k, <3>n, <4>1
    <3>2. p \in {0, 1} /\ 2 * k + p + n = 2 * s
      BY <1>s, <2>d, <2>1, <2>3, <3>k, <3>p, <3>n DEF LaneOf
    <3>3. \A j \in 1 .. s : answered'[OffsetOf(b) + j] = answered[OffsetOf(b) + j]
      <4> TAKE j \in 1 .. s
      <4>1. j \in Nat /\ j # s + 1
        BY <3>0
      <4>2. j \in 1 .. Size(b)
        <5>1. s + 1 <= Size(b) /\ Size(b) \in Nat
          BY <1>1
        <5> QED  BY <3>0, <5>1
      <4>3. OffsetOf(b) + j # c
        BY <1>2, <3>0, <4>1
      <4> QED  BY <1>6, <4>2, <4>3, NthCommand
    <3>4. \A x \in 1 .. 2 * s : CharOf(b, x)' = CharOf(b, x)
      BY <1>1, <3>3, CharStays
    <3>5. CharOf(b, 2 * s + 1)' = r
      <4>1. (2 * s + 1) % 2 = 1 /\ (2 * s + 1 + 1) \div 2 = s + 1
        BY <1>1
      <4>2. OffsetOf(b) + (s + 1) = c /\ answered'[c][1] = a
        BY <1>1, <1>2, <1>6
      <4> QED  BY <1>9, <4>1, <4>2 DEF CharOf, OffsetOf
    <3>6. CharOf(b, 2 * s + 2)' = LineEnd
      <4>1. (2 * s + 2) % 2 = 0
        BY <1>1
      <4> QED  BY <4>1 DEF CharOf, LineEnd
    <3>7. /\ \A j \in 1 .. k : 2 * j - 1 \in 1 .. 2 * s
          /\ p = 1 => 2 * k + 1 \in 1 .. 2 * s
          /\ \A i \in 1 .. n : 2 * k + p + i \in 1 .. 2 * s
      BY <1>1, <3>1, <3>2, Within
    <3>8. /\ Len(stream'[b]) = n + 2
          /\ \A i \in 1 .. n : stream'[b][i] = stream[b][i]
          /\ stream'[b][n + 1] = r /\ stream'[b][n + 2] = LineEnd
      <4>1. Listens(b)
        BY <2>d, <2>3 DEF Listens
      <4> QED  BY <1>10, <1>11, <1>13, <3>n, <4>1
    <3>9. \A i \in 1 .. n + 2 : stream'[b][i] = CharOf(b, 2 * k + p + i)'
      <4> TAKE i \in 1 .. n + 2
      <4>1. CASE i \in 1 .. n
        <5>1. stream[b][i] = CharOf(b, 2 * k + p + i)
          BY <2>d, <2>1, <2>3, <3>k, <3>p, <3>n, <4>1 DEF LaneOf
        <5> QED  BY <3>4, <3>7, <3>8, <4>1, <5>1
      <4>2. CASE i = n + 1
        <5>1. 2 * k + p + i = 2 * s + 1
          BY <3>0, <3>1, <3>2, <4>2, TwoMore
        <5> QED  BY <3>5, <3>8, <4>2, <5>1
      <4>3. CASE i = n + 2
        <5>1. 2 * k + p + i = 2 * s + 2
          BY <3>0, <3>1, <3>2, <4>3, TwoMore
        <5> QED  BY <3>6, <3>8, <4>3, <5>1
      <4>4. i \in 1 .. n \/ i = n + 1 \/ i = n + 2
        BY <3>1
      <4> QED  BY <4>1, <4>2, <4>3, <4>4
    <3>10. \A j \in 1 .. k : lane'[m].replies[j] = <<CharOf(b, 2 * j - 1)'>>
      <4> TAKE j \in 1 .. k
      <4>1. lane[m].replies[j] = <<CharOf(b, 2 * j - 1)>>
        BY <2>d, <2>1, <2>3, <3>k, <3>p DEF LaneOf
      <4> QED  BY <2>1, <3>4, <3>7, <4>1
    <3>11. p = 1 => lane'[m].pending[1] = CharOf(b, 2 * k + 1)'
      <4> HAVE p = 1
      <4>1. lane[m].pending[1] = CharOf(b, 2 * k + 1)
        BY <2>d, <2>1, <2>3, <3>k, <3>p DEF LaneOf
      <4> QED  BY <2>1, <3>4, <3>7, <4>1
    <3>12. \A j \in 1 .. Served(b)' : answered'[OffsetOf(b) + j] \in {<<"OK">>, <<"ERR">>}
      <4> TAKE j \in 1 .. Served(b)'
      <4>1. CASE j \in 1 .. s
        <5>1. answered[OffsetOf(b) + j] \in {<<"OK">>, <<"ERR">>}
          BY <1>s, <2>d, <2>1, <2>3, <4>1 DEF LaneOf
        <5> QED  BY <3>3, <4>1, <5>1
      <4>2. CASE j = s + 1
        <5>1. OffsetOf(b) + j = c
          BY <1>2, <3>0, <4>2
        <5> QED  BY <1>6, <5>1
      <4>3. j \in 1 .. s \/ j = s + 1
        BY <1>8, <3>0
      <4> QED  BY <4>1, <4>2, <4>3
    <3>13. 2 * k + p + Len(stream'[b]) = 2 * Served(b)'
      <4>1. 2 * k + p + (n + 2) = 2 * (s + 1)
        BY <3>0, <3>1, <3>2, TwoMore
      <4> QED  BY <1>8, <3>8, <4>1
    <3>14. k = Len(lane'[m].replies) /\ p = Len(lane'[m].pending) /\ b = lane'[m].batch
      BY <2>d, <2>1, <2>3, <3>k, <3>p
    <3>15. \A i \in 1 .. Len(stream'[b]) : stream'[b][i] = CharOf(b, 2 * k + p + i)'
      BY <3>8, <3>9
    <3>16. \A x \in Lanes \ {m} : lane'[x].batch # b
      BY <2>1, <2>3
    <3> QED  BY <2>1, <2>3, <3>2, <3>10, <3>11, <3>12, <3>13, <3>14, <3>15, <3>16, LaneIs
  <2> QED  BY <2>2, <2>3
<1>18. /\ \A x \in Commands : Len(answered'[x]) <= 1
       /\ \A x \in Commands : results'[x] = "ok" => answered'[x] = <<"OK">>
  <2>1. /\ \A x \in Commands : Len(answered[x]) <= 1
        /\ \A x \in Commands : results[x] = "ok" => answered[x] = <<"OK">>
    BY DEF Sending
  <2>2. results[c] # "ok"
    BY <1>2, <1>3, <2>1
  <2>3. Len(<<a>>) <= 1
    OBVIOUS
  <2>4. \A x \in Commands : Len(answered'[x]) <= 1
    BY <1>6, <2>1, <2>3
  <2> QED  BY <1>5, <1>6, <2>1, <2>2, <2>4
<1>19. Sending'
  BY <1>5, <1>16, <1>17, <1>18 DEF Sending, InBatch, OffsetOf, NoBatch
<1> QED  BY <1>5, <1>14, <1>19

LEMMA ThreadEndsStep ==
  ASSUME TypeInv, Sending, NEW b \in Batches, ThreadEnds(b)
  PROVE  TypeInv' /\ Sending' /\ alone' = alone
<1>1. /\ inbox' = [inbox EXCEPT ![b] = <<>>] /\ ~Listens(b)
      /\ cursor' = cursor /\ lane' = lane /\ stream' = stream /\ alone' = alone
      /\ results' = results /\ answered' = answered
  BY DEF ThreadEnds
<1>2. inbox' \in [Batches -> Seq(Commands)] /\ inbox'[b] = <<>>
      /\ \A d \in Batches : d # b => inbox'[d] = inbox[d]
  <2>1. <<>> \in Seq(Commands)
    OBVIOUS
  <2> QED  BY <1>1, <2>1 DEF TypeInv
<1>3. TypeInv'
  BY <1>1, <1>2 DEF TypeInv
<1>4. cursor \in Nat /\ cursor' \in Nat /\ cursor <= cursor'
  <2>1. cursor \in Nat
    BY DEF TypeInv
  <2> QED  BY <1>1, <2>1
<1>5. ASSUME NEW d \in Batches PROVE InboxOf(d)'
  <2>1. InboxOf(d) /\ inbox'[d] \in {inbox[d], <<>>}
    BY <1>2 DEF Sending
  <2> QED  BY <1>1, <1>4, <2>1, InboxKept
<1>6. ASSUME NEW m \in Lanes, lane[m] # NoBatch PROVE LaneOf(m)'
  <2>d. PICK d : d = lane[m].batch
    OBVIOUS
  <2>1. LaneOf(m)
    BY <1>6 DEF Sending
  <2>2. d \in Batches /\ \A x \in Lanes \ {m} : lane'[x].batch # d
    BY <1>1, <2>d, <2>1 DEF LaneOf
  <2>3. d # b
    BY <1>1, <2>d DEF Listens
  <2>4. InboxOf(d) /\ inbox'[d] = inbox[d]
    BY <1>2, <2>2, <2>3 DEF Sending
  <2> QED  BY <1>1, <1>4, <2>d, <2>1, <2>2, <2>4, LaneKept
<1>7. Sending'
  BY <1>1, <1>5, <1>6 DEF Sending, InBatch, OffsetOf, NoBatch
<1> QED  BY <1>1, <1>3, <1>7

(* A runner that has done with its batch, in whatever way.                 *)
LEMMA BatchOver ==
  ASSUME TypeInv, Sending, NEW l \in Lanes, lane[l] # NoBatch, NEW b, b = lane[l].batch,
         lane' = [lane EXCEPT ![l] = NoBatch], stream' = [stream EXCEPT ![b] = <<>>],
         inbox' = inbox \/ inbox' = [inbox EXCEPT ![b] = <<>>],
         cursor' = cursor, answered' = answered, alone' = alone,
         results' \in [Commands -> {"none", "ok", "failed", "empty"}],
         \A c \in Commands : IF InBatch(c, b)
                             THEN results'[c] = "failed" \/ (results'[c] = "ok" /\ answered[c] = <<"OK">>)
                             ELSE results'[c] = results[c]
  PROVE  TypeInv' /\ Sending'
<1>1. LaneOf(l) /\ b \in Batches /\ b < cursor
  <2>1. LaneOf(l)
    BY DEF Sending
  <2> QED  BY <2>1 DEF LaneOf
<1>2. /\ \A d \in Batches : inbox'[d] \in {inbox[d], <<>>} /\ (d # b => inbox'[d] = inbox[d])
      /\ inbox' \in [Batches -> Seq(Commands)]
  <2>1. inbox \in [Batches -> Seq(Commands)] /\ <<>> \in Seq(Commands)
    BY DEF TypeInv
  <2> QED  BY <1>1, <2>1
<1>3. /\ \A d \in Batches : d # b => stream'[d] = stream[d]
      /\ stream' \in [Batches -> Seq(Chars)]
  <2>1. stream \in [Batches -> Seq(Chars)] /\ <<>> \in Seq(Chars)
    BY DEF TypeInv
  <2> QED  BY <1>1, <2>1
<1>4. NoBatch \in LaneRec
  BY DEF NoBatch, LaneRec
<1>5. /\ lane' \in [Lanes -> LaneRec] /\ lane'[l] = NoBatch
      /\ \A m \in Lanes : m # l => lane'[m] = lane[m]
  <2>1. lane \in [Lanes -> LaneRec]
    BY DEF TypeInv
  <2> QED  BY <1>4, <2>1
<1>6. TypeInv'
  BY <1>2, <1>3, <1>5 DEF TypeInv
<1>7. cursor \in Nat /\ cursor' \in Nat /\ cursor <= cursor' /\ b \in Nat \ {0}
  <2>1. cursor \in Nat
    BY DEF TypeInv
  <2> QED  BY <1>1, <2>1, BatchFacts
<1>8. ASSUME NEW d \in Batches PROVE InboxOf(d)'
  <2>1. d >= cursor' => d # b
    BY <1>1, <1>7
  <2>2. d # b => \A c \in Commands : InBatch(c, d) => results'[c] = results[c]
    BY <1>1, OneBatch
  <2>3. InboxOf(d)
    BY DEF Sending
  <2> QED  BY <1>2, <1>3, <1>7, <2>1, <2>2, <2>3, InboxKept
<1>9. ASSUME NEW m \in Lanes, m # l, lane[m] # NoBatch PROVE LaneOf(m)'
  <2>d. PICK d : d = lane[m].batch
    OBVIOUS
  <2>1. LaneOf(m)
    BY <1>9 DEF Sending
  <2>2. d \in Batches /\ d # b /\ \A x \in Lanes \ {m} : lane[x].batch # d
    BY <1>1, <1>9, <2>d, <2>1 DEF LaneOf
  <2>3. \A x \in Lanes \ {m} : lane'[x].batch # d
    <3>1. NoBatch.batch # d
      BY <2>2, BatchFacts DEF NoBatch
    <3> QED  BY <1>5, <2>2, <3>1
  <2>4. InboxOf(d) /\ inbox'[d] = inbox[d] /\ stream'[d] = stream[d] /\ lane'[m] = lane[m]
    BY <1>2, <1>3, <1>5, <1>9, <2>2 DEF Sending
  <2> QED  BY <1>7, <2>d, <2>1, <2>2, <2>3, <2>4, LaneKept
<1>10. \A m \in Lanes : lane'[m] = NoBatch \/ LaneOf(m)'
  BY <1>5, <1>9
<1>11. /\ \A c \in Commands : Len(answered'[c]) <= 1
       /\ \A c \in Commands : results'[c] = "ok" => answered'[c] = <<"OK">>
       /\ \A c \in Commands : results'[c] # "empty"
  BY DEF Sending
<1>12. ASSUME NEW d \in Batches, NEW c \in Commands, d < cursor', InBatch(c, d), results'[c] = "none"
       PROVE  \E m \in Lanes : lane'[m].batch = d
  <2>1. ~InBatch(c, b) /\ results[c] = "none"
    BY <1>12
  <2>2. PICK m \in Lanes : lane[m].batch = d
    BY <1>12, <2>1 DEF Sending
  <2>3. m # l
    BY <1>12, <2>1, <2>2
  <2> QED  BY <1>5, <2>2, <2>3
<1>13. Sending'
  BY <1>8, <1>10, <1>11, <1>12 DEF Sending, InBatch, OffsetOf, NoBatch
<1> QED  BY <1>6, <1>13

LEMMA GivenUpStep ==
  ASSUME TypeInv, Sending, NEW l \in Lanes, TimesOut(l) \/ Breaks(l)
  PROVE  TypeInv' /\ Sending' /\ alone' = alone
<1>b. PICK b : b = lane[l].batch
  OBVIOUS
<1>1. /\ lane[l] # NoBatch /\ cursor' = cursor /\ answered' = answered /\ alone' = alone
      /\ inbox' = inbox \/ inbox' = [inbox EXCEPT ![b] = <<>>]
      /\ GivenUp(l)
  BY <1>b DEF TimesOut, Breaks
<1>2. /\ lane' = [lane EXCEPT ![l] = NoBatch] /\ stream' = [stream EXCEPT ![b] = <<>>]
      /\ results' = [c \in Commands |-> IF c \in BatchOf(b) THEN "failed" ELSE results[c]]
  BY <1>b, <1>1 DEF GivenUp
<1>3. /\ results' \in [Commands -> {"none", "ok", "failed", "empty"}]
      /\ \A c \in Commands : IF InBatch(c, b) THEN results'[c] = "failed" ELSE results'[c] = results[c]
  BY <1>2 DEF TypeInv, BatchOf, InBatch
<1> QED  BY <1>b, <1>1, <1>2, <1>3, BatchOver

LEMMA Parsed ==
  ASSUME NEW k \in Nat, NEW p \in {0, 1}, NEW z \in Nat, NEW s \in Nat, 2 * k + p + z = 2 * s,
         NEW n \in 1 .. z, NEW h, h = (p + n) \div 2, NEW r, r = (p + n) % 2
  PROVE  /\ h \in Nat /\ r \in {0, 1} /\ p + n = 2 * h + r /\ k + h <= s
         /\ 2 * (k + h) + r + (z - n) = 2 * s
         /\ \A i \in 1 .. p + n : 2 * k + i \in 1 .. 2 * s
         /\ \A j \in 1 .. h : 2 * j - 1 \in 1 .. p + n
         /\ \A i \in 1 .. p + n : (2 * k + i) % 2 = i % 2
         /\ \A i \in 1 .. p + n : IF i <= p THEN p = 1 /\ i = 1
                                  ELSE i - p \in 1 .. n /\ i - p \in 1 .. z /\ 2 * k + p + (i - p) = 2 * k + i
         /\ r = 1 => p + n \in 1 .. p + n /\ 2 * k + (p + n) = 2 * (k + h) + 1
         /\ \A j \in 1 .. k + h : IF j <= k THEN j \in 1 .. k
                                  ELSE j - k \in 1 .. h /\ 2 * k + (2 * (j - k) - 1) = 2 * j - 1
         /\ \A i \in 1 .. z - n : n + i \in 1 .. z /\ 2 * k + p + (n + i) = 2 * (k + h) + r + i
<1>1. p + n \in Nat
  OBVIOUS
<1>2. h \in Nat /\ r \in {0, 1} /\ p + n = 2 * h + r
  BY <1>1
<1>3. k + h <= s /\ 2 * (k + h) + r + (z - n) = 2 * s
  BY <1>2
<1>4. \A i \in 1 .. p + n : 2 * k + i \in 1 .. 2 * s
  OBVIOUS
<1>5. \A j \in 1 .. h : 2 * j - 1 \in 1 .. p + n
  BY <1>2
<1>6. \A i \in 1 .. p + n : (2 * k + i) % 2 = i % 2
  OBVIOUS
<1>7. \A i \in 1 .. p + n : IF i <= p THEN p = 1 /\ i = 1
                            ELSE i - p \in 1 .. n /\ i - p \in 1 .. z /\ 2 * k + p + (i - p) = 2 * k + i
  OBVIOUS
<1>8. r = 1 => p + n \in 1 .. p + n /\ 2 * k + (p + n) = 2 * (k + h) + 1
  BY <1>1, <1>2
<1>9. \A j \in 1 .. k + h : IF j <= k THEN j \in 1 .. k
                            ELSE j - k \in 1 .. h /\ 2 * k + (2 * (j - k) - 1) = 2 * j - 1
  BY <1>2
<1>10. \A i \in 1 .. z - n : n + i \in 1 .. z /\ 2 * k + p + (n + i) = 2 * (k + h) + r + i
  BY <1>2
<1> QED  BY <1>2, <1>3, <1>4, <1>5, <1>6, <1>7, <1>8, <1>9, <1>10

LEMMA Joined ==
  ASSUME NEW S, NEW x \in Seq(S), NEW y \in Seq(S), NEW t, t = x \o y,
         NEW a, a = Len(x), NEW c, c = Len(y)
  PROVE  /\ t \in Seq(S) /\ Len(t) = a + c
         /\ \A i \in 1 .. a + c : t[i] = IF i <= a THEN x[i] ELSE y[i - a]
BY ConcatProperties

LEMMA CharEnds ==
  ASSUME NEW b \in Batches, NEW s \in Nat,
         \A j \in 1 .. s : answered[OffsetOf(b) + j] \in {<<"OK">>, <<"ERR">>}
  PROVE  \A n \in 1 .. 2 * s : CharOf(b, n) \in Chars /\ (CharOf(b, n) = LineEnd <=> n % 2 = 0)
<1> TAKE n \in 1 .. 2 * s
<1>1. CASE n % 2 = 0
  BY <1>1 DEF CharOf, LineEnd, Chars
<1>2. CASE n % 2 # 0
  <2>h. PICK h : h = (n + 1) \div 2
    OBVIOUS
  <2>1. h \in 1 .. s
    BY <2>h
  <2>2. OffsetOf(b) \in Nat /\ OffsetOf(b) + h \in Nat
    BY <2>1, BatchFacts
  <2>3. answered[OffsetOf(b) + h][1] \in {"OK", "ERR"}
    <3>1. answered[OffsetOf(b) + h] \in {<<"OK">>, <<"ERR">>}
      BY <2>1
    <3>2. <<"OK">>[1] = "OK" /\ <<"ERR">>[1] = "ERR"
      OBVIOUS
    <3> QED  BY <3>1, <3>2
  <2>4. CharOf(b, n) = [to |-> OffsetOf(b) + h, says |-> answered[OffsetOf(b) + h][1]]
    BY <1>2, <2>h DEF CharOf
  <2> QED  BY <1>2, <2>2, <2>3, <2>4 DEF LineEnd, Chars
<1> QED  BY <1>1, <1>2

(* What a runner has when data arrive.                                     *)
Arrival(l, b, s, k, p, n, text, h, r, replies) ==
  /\ LaneOf(l) /\ b = lane[l].batch /\ InboxOf(b) /\ s = Served(b)
  /\ k = Len(lane[l].replies) /\ p = Len(lane[l].pending)
  /\ n \in 1 .. Len(stream[b]) /\ text = lane[l].pending \o SubSeq(stream[b], 1, n)
  /\ h = (p + n) \div 2 /\ r = (p + n) % 2
  /\ replies = lane[l].replies \o LinesOf(text)

LEMMA Received ==
  ASSUME TypeInv, NEW l \in Lanes, NEW b, NEW s, NEW k, NEW p, NEW n, NEW text, NEW h, NEW r,
         NEW replies, Arrival(l, b, s, k, p, n, text, h, r, replies)
  PROVE  /\ replies \in Seq(Seq(Chars)) /\ Len(replies) = k + h
         /\ \A j \in 1 .. k + h : replies[j] = <<CharOf(b, 2 * j - 1)>>
         /\ Remainder(text) \in Seq(Chars) /\ Len(Remainder(text)) = r
         /\ r = 1 => Remainder(text)[1] = CharOf(b, 2 * (k + h) + 1)
         /\ b \in Batches /\ s \in Nat /\ k \in Nat /\ p \in {0, 1} /\ Len(stream[b]) \in Nat
         /\ 2 * k + p + Len(stream[b]) = 2 * s /\ n \in 1 .. Len(stream[b])
         /\ \A j \in 1 .. s : answered[OffsetOf(b) + j] \in {<<"OK">>, <<"ERR">>}
         /\ \A i \in 1 .. Len(stream[b]) : stream[b][i] = CharOf(b, 2 * k + p + i)
<1>z. PICK z : z = Len(stream[b])
  OBVIOUS
<1>1. /\ b \in Batches /\ p \in {0, 1} /\ 2 * k + p + z = 2 * s
      /\ n \in 1 .. z /\ h = (p + n) \div 2 /\ r = (p + n) % 2
  BY <1>z DEF LaneOf, Arrival
<1>2. /\ \A j \in 1 .. s : answered[OffsetOf(b) + j] \in {<<"OK">>, <<"ERR">>}
      /\ \A j \in 1 .. k : lane[l].replies[j] = <<CharOf(b, 2 * j - 1)>>
      /\ p = 1 => lane[l].pending[1] = CharOf(b, 2 * k + 1)
      /\ \A i \in 1 .. z : stream[b][i] = CharOf(b, 2 * k + p + i)
  BY <1>z DEF LaneOf, Arrival
<1>3. s \in Nat
  BY <1>1, ServedFacts DEF Arrival
<1>4. lane[l].replies \in Seq(Seq(Chars)) /\ lane[l].pending \in Seq(Chars) /\ stream[b] \in Seq(Chars)
  BY <1>1 DEF TypeInv, LaneRec
<1>5. k \in Nat /\ z \in Nat
  BY <1>z, <1>4 DEF Arrival
<1>6. /\ h \in Nat /\ r \in {0, 1} /\ p + n = 2 * h + r
      /\ \A i \in 1 .. p + n : 2 * k + i \in 1 .. 2 * s
      /\ \A j \in 1 .. h : 2 * j - 1 \in 1 .. p + n
      /\ \A i \in 1 .. p + n : (2 * k + i) % 2 = i % 2
      /\ \A i \in 1 .. p + n : IF i <= p THEN p = 1 /\ i = 1
                               ELSE i - p \in 1 .. n /\ i - p \in 1 .. z /\ 2 * k + p + (i - p) = 2 * k + i
      /\ r = 1 => p + n \in 1 .. p + n /\ 2 * k + (p + n) = 2 * (k + h) + 1
      /\ \A j \in 1 .. k + h : IF j <= k THEN j \in 1 .. k
                               ELSE j - k \in 1 .. h /\ 2 * k + (2 * (j - k) - 1) = 2 * j - 1
  BY <1>1, <1>3, <1>5, Parsed
<1>7. /\ SubSeq(stream[b], 1, n) \in Seq(Chars) /\ Len(SubSeq(stream[b], 1, n)) = n
      /\ \A i \in 1 .. n : SubSeq(stream[b], 1, n)[i] = stream[b][i]
  <2>1. n \in 1 .. z /\ n \in Int
    BY <1>1
  <2>2. \A i \in 1 .. n : stream[b][i] \in Chars
    BY <1>z, <1>4, <2>1
  <2>3. /\ SubSeq(stream[b], 1, n) \in Seq(Chars)
        /\ Len(SubSeq(stream[b], 1, n)) = IF 1 <= n THEN n - 1 + 1 ELSE 0
        /\ \A i \in 1 .. n - 1 + 1 : SubSeq(stream[b], 1, n)[i] = stream[b][1 + i - 1]
    BY <2>1, <2>2, SubSeqProperties
  <2>4. 1 <= n /\ n - 1 + 1 = n /\ \A i \in 1 .. n : 1 + i - 1 = i
    BY <1>5, <2>1
  <2> QED  BY <2>3, <2>4
<1>8. /\ text \in Seq(Chars) /\ Len(text) = p + n
      /\ \A i \in 1 .. p + n : text[i] = IF i <= p THEN lane[l].pending[i]
                                         ELSE SubSeq(stream[b], 1, n)[i - p]
  <2>1. text = lane[l].pending \o SubSeq(stream[b], 1, n) /\ p = Len(lane[l].pending)
    BY DEF Arrival
  <2> QED  BY <1>4, <1>7, <2>1, Joined, SMTT(30)
<1>9. \A i \in 1 .. p + n : text[i] = CharOf(b, 2 * k + i)
  <2> TAKE i \in 1 .. p + n
  <2>1. CASE i <= p
    BY <1>2, <1>6, <1>8, <2>1
  <2>2. CASE ~(i <= p)
    <3>1. i - p \in 1 .. n /\ i - p \in 1 .. z /\ 2 * k + p + (i - p) = 2 * k + i
      BY <1>6, <2>2
    <3>2. text[i] = stream[b][i - p]
      BY <1>7, <1>8, <2>2, <3>1
    <3>3. stream[b][i - p] = CharOf(b, 2 * k + p + (i - p))
      BY <1>2, <3>1
    <3> QED  BY <3>1, <3>2, <3>3
  <2> QED  BY <2>1, <2>2
<1>10. Paired(text)
  <2> SUFFICES ASSUME NEW i \in 1 .. p + n PROVE text[i] = LineEnd <=> i % 2 = 0
    BY <1>8 DEF Paired
  <2>1. CharOf(b, 2 * k + i) = LineEnd <=> (2 * k + i) % 2 = 0
    BY <1>1, <1>2, <1>3, <1>6, CharEnds
  <2> QED  BY <1>6, <1>9, <2>1
<1>11. /\ LinesOf(text) \in Seq(Seq(Chars)) /\ Len(LinesOf(text)) = h
       /\ \A j \in 1 .. h : LinesOf(text)[j] = <<text[2 * j - 1]>>
       /\ Remainder(text) \in Seq(Chars) /\ Len(Remainder(text)) = r
       /\ r = 1 => Remainder(text)[1] = text[p + n]
  BY <1>1, <1>8, <1>10, PairedLines
<1>12. r = 1 => Remainder(text)[1] = CharOf(b, 2 * (k + h) + 1)
  BY <1>6, <1>9, <1>11
<1>13. /\ replies \in Seq(Seq(Chars)) /\ Len(replies) = k + h
       /\ \A j \in 1 .. k + h : replies[j] = IF j <= k THEN lane[l].replies[j] ELSE LinesOf(text)[j - k]
  <2>s. PICK S : S = Seq(Chars)
    OBVIOUS
  <2>1. lane[l].replies \in Seq(S) /\ LinesOf(text) \in Seq(S)
    BY <1>4, <1>11, <2>s
  <2>2. k = Len(lane[l].replies) /\ replies = lane[l].replies \o LinesOf(text) /\ h = Len(LinesOf(text))
    BY <1>11 DEF Arrival
  <2>3. replies \in Seq(S) /\ Len(replies) = k + h
        /\ \A j \in 1 .. k + h : replies[j] = IF j <= k THEN lane[l].replies[j] ELSE LinesOf(text)[j - k]
    BY <2>1, <2>2, Joined
  <2> QED  BY <2>s, <2>3
<1>14. \A j \in 1 .. k + h : replies[j] = <<CharOf(b, 2 * j - 1)>>
  <2> TAKE j \in 1 .. k + h
  <2>1. CASE j <= k
    BY <1>2, <1>6, <1>13, <2>1
  <2>2. CASE ~(j <= k)
    <3>1. j - k \in 1 .. h /\ 2 * k + (2 * (j - k) - 1) = 2 * j - 1
      BY <1>6, <2>2
    <3>2. replies[j] = <<text[2 * (j - k) - 1]>>
      BY <1>11, <1>13, <2>2, <3>1
    <3>3. text[2 * (j - k) - 1] = CharOf(b, 2 * k + (2 * (j - k) - 1))
      BY <1>6, <1>9, <3>1
    <3> QED  BY <3>1, <3>2, <3>3
  <2> QED  BY <2>1, <2>2
<1> QED  BY <1>z, <1>1, <1>2, <1>3, <1>5, <1>11, <1>12, <1>13, <1>14

(* More replies are to come.                                               *)
LaneGoesOn(l, b, n, text, replies) ==
  /\ lane' = [lane EXCEPT ![l].pending = Remainder(text), ![l].replies = replies]
  /\ stream' = [stream EXCEPT ![b] = SubSeq(@, n + 1, Len(@))]
  /\ UNCHANGED <<cursor, inbox, alone, results, answered>>

LEMMA ReceiveMore ==
  ASSUME TypeInv, Sending, NEW l \in Lanes, NEW b, NEW s, NEW k, NEW p, NEW n, NEW text, NEW h, NEW r,
         NEW replies, Arrival(l, b, s, k, p, n, text, h, r, replies),
         LaneGoesOn(l, b, n, text, replies)
  PROVE  TypeInv' /\ Sending'
<1>1. /\ replies \in Seq(Seq(Chars)) /\ Len(replies) = k + h
      /\ \A j \in 1 .. k + h : replies[j] = <<CharOf(b, 2 * j - 1)>>
      /\ Remainder(text) \in Seq(Chars) /\ Len(Remainder(text)) = r
      /\ r = 1 => Remainder(text)[1] = CharOf(b, 2 * (k + h) + 1)
      /\ b \in Batches /\ s \in Nat
      /\ \A j \in 1 .. s : answered[OffsetOf(b) + j] \in {<<"OK">>, <<"ERR">>}
  BY Received
<1>z. PICK z : z = Len(stream[b])
  OBVIOUS
<1>2. /\ k \in Nat /\ s \in Nat /\ p \in {0, 1} /\ z \in Nat /\ 2 * k + p + z = 2 * s /\ n \in 1 .. z
      /\ h = (p + n) \div 2 /\ r = (p + n) % 2
  <2>1. h = (p + n) \div 2 /\ r = (p + n) % 2
    BY DEF Arrival
  <2>2. /\ k \in Nat /\ s \in Nat /\ p \in {0, 1} /\ Len(stream[b]) \in Nat /\ 2 * k + p + Len(stream[b]) = 2 * s
        /\ n \in 1 .. Len(stream[b])
    BY Received
  <2> QED  BY <1>z, <2>1, <2>2
<1>3. \A i \in 1 .. z : stream[b][i] = CharOf(b, 2 * k + p + i)
  BY <1>z, Received, SMTT(30)
<1>4. /\ h \in Nat /\ r \in {0, 1} /\ p + n = 2 * h + r /\ 2 * (k + h) + r + (z - n) = 2 * s
      /\ \A i \in 1 .. z - n : n + i \in 1 .. z /\ 2 * k + p + (n + i) = 2 * (k + h) + r + i
  BY <1>2, Parsed
<1>5. /\ LaneOf(l) /\ b = lane[l].batch /\ s = Served(b) /\ b < cursor
      /\ \A x \in Lanes \ {l} : lane[x].batch # b
  BY DEF Arrival, LaneOf
<1>6. /\ lane'[l].batch = b /\ lane'[l].pending = Remainder(text) /\ lane'[l].replies = replies
      /\ \A m \in Lanes : m # l => lane'[m] = lane[m]
      /\ lane' \in [Lanes -> LaneRec]
  <2>1. lane \in [Lanes -> LaneRec]
    BY DEF TypeInv
  <2>2. lane[l] \in LaneRec /\ lane[l].batch = b
    BY <1>5, <2>1
  <2>3. lane'[l] = [lane[l] EXCEPT !.pending = Remainder(text), !.replies = replies]
        /\ \A m \in Lanes : m # l => lane'[m] = lane[m]
    BY <2>1 DEF LaneGoesOn
  <2>4. /\ lane'[l].batch = b /\ lane'[l].pending = Remainder(text) /\ lane'[l].replies = replies
        /\ lane'[l] \in LaneRec
    <3>1. Remainder(text) \in Seq(Chars) /\ replies \in Seq(Seq(Chars))
      BY <1>1
    <3>x. PICK x : x = lane[l]
      OBVIOUS
    <3>y. PICK y : y = lane'[l]
      OBVIOUS
    <3>2. x \in LaneRec /\ x.batch = b /\ y = [x EXCEPT !.pending = Remainder(text), !.replies = replies]
      BY <2>2, <2>3, <3>x, <3>y
    <3>3. y \in LaneRec /\ y.batch = x.batch /\ y.pending = Remainder(text) /\ y.replies = replies
      BY <3>1, <3>2 DEF LaneRec
    <3> QED  BY <3>y, <3>2, <3>3
  <2>5. lane' \in [Lanes -> LaneRec]
    BY <2>1, <2>4 DEF LaneGoesOn
  <2> QED  BY <2>3, <2>4, <2>5
<1>7. /\ stream'[b] = SubSeq(stream[b], n + 1, z)
      /\ \A d \in Batches : d # b => stream'[d] = stream[d]
  BY <1>1, <1>z DEF TypeInv, LaneGoesOn
<1>8. /\ stream'[b] \in Seq(Chars) /\ Len(stream'[b]) = z - n
      /\ \A i \in 1 .. z - n : stream'[b][i] = stream[b][n + i]
  <2>1. n + 1 \in Int /\ z \in Int /\ \A i \in n + 1 .. z : i \in 1 .. z
    BY <1>2
  <2>2. \A i \in n + 1 .. z : stream[b][i] \in Chars
    BY <1>1, <1>z, <2>1 DEF TypeInv
  <2>3. /\ SubSeq(stream[b], n + 1, z) \in Seq(Chars)
        /\ Len(SubSeq(stream[b], n + 1, z)) = IF n + 1 <= z THEN z - (n + 1) + 1 ELSE 0
        /\ \A i \in 1 .. z - (n + 1) + 1 : SubSeq(stream[b], n + 1, z)[i] = stream[b][n + 1 + i - 1]
    BY <2>1, <2>2, SubSeqProperties
  <2>4. (IF n + 1 <= z THEN z - (n + 1) + 1 ELSE 0) = z - n /\ z - (n + 1) + 1 = z - n
        /\ \A i \in 1 .. z - n : n + 1 + i - 1 = n + i
    BY <1>2
  <2> QED  BY <1>7, <2>3, <2>4
<1>9. TypeInv'
  <2>1. stream' \in [Batches -> Seq(Chars)]
    BY <1>1, <1>7, <1>8 DEF TypeInv, LaneGoesOn
  <2> QED  BY <1>6, <2>1 DEF TypeInv, LaneGoesOn
<1>10. cursor' = cursor /\ inbox' = inbox /\ results' = results /\ answered' = answered /\ alone' = alone
  BY DEF LaneGoesOn
<1>11. cursor \in Nat /\ cursor' \in Nat /\ cursor <= cursor' /\ b \in Nat
  <2>1. cursor \in Nat
    BY DEF TypeInv
  <2> QED  BY <1>1, <1>10, <2>1, BatchFacts
<1>12. ASSUME NEW d \in Batches PROVE InboxOf(d)'
  <2>1. InboxOf(d) /\ inbox'[d] \in {inbox[d], <<>>}
    BY <1>10 DEF Sending
  <2>2. d >= cursor' => d # b
    BY <1>5, <1>10, <1>11
  <2> QED  BY <1>7, <1>10, <1>11, <2>1, <2>2, InboxKept
<1>13. ASSUME NEW m \in Lanes, m # l, lane[m] # NoBatch PROVE LaneOf(m)'
  <2>d. PICK d : d = lane[m].batch
    OBVIOUS
  <2>1. LaneOf(m)
    BY <1>13 DEF Sending
  <2>2. d \in Batches /\ d # b /\ \A x \in Lanes \ {m} : lane[x].batch # d
    BY <1>5, <1>13, <2>d, <2>1 DEF LaneOf
  <2>3. \A x \in Lanes \ {m} : lane'[x].batch # d
    BY <1>5, <1>6, <2>2
  <2>4. InboxOf(d) /\ inbox'[d] = inbox[d] /\ stream'[d] = stream[d] /\ lane'[m] = lane[m]
    BY <1>6, <1>7, <1>10, <1>13, <2>2 DEF Sending
  <2> QED  BY <1>10, <1>11, <2>d, <2>1, <2>2, <2>3, <2>4, LaneKept
<1>14. LaneOf(l)'
  <2>k. PICK kk : kk = k + h
    OBVIOUS
  <2>1. kk = Len(lane'[l].replies) /\ r = Len(lane'[l].pending)
    BY <1>1, <1>6, <2>k
  <2>2. Served(b)' = s /\ \A x : CharOf(b, x)' = CharOf(b, x)
    BY <1>5, <1>10 DEF Served, Size, BatchOf, OffsetOf, CharOf, LineEnd
  <2>3. b < cursor' /\ \A x \in Lanes \ {l} : lane'[x].batch # b
    BY <1>5, <1>6, <1>10
  <2>4. 2 * kk + r + Len(stream'[b]) = 2 * Served(b)'
    BY <1>4, <1>8, <2>k, <2>2
  <2>5. \A j \in 1 .. Served(b)' : answered'[OffsetOf(b) + j] \in {<<"OK">>, <<"ERR">>}
    BY <1>1, <1>10, <2>2
  <2>6. \A j \in 1 .. kk : lane'[l].replies[j] = <<CharOf(b, 2 * j - 1)'>>
    BY <1>1, <1>6, <2>k, <2>2
  <2>7. r = 1 => lane'[l].pending[1] = CharOf(b, 2 * kk + 1)'
    BY <1>1, <1>6, <2>k, <2>2
  <2>8. ASSUME NEW i \in 1 .. Len(stream'[b])
        PROVE  stream'[b][i] = CharOf(b, 2 * kk + r + i)'
    <3>1. i \in 1 .. z - n
      BY <1>8
    <3>2. n + i \in 1 .. z /\ 2 * k + p + (n + i) = 2 * kk + r + i
      BY <1>4, <2>k, <3>1
    <3>3. stream'[b][i] = CharOf(b, 2 * k + p + (n + i))
      BY <1>3, <1>8, <3>1, <3>2
    <3> QED  BY <2>2, <3>2, <3>3
  <2>9. b \in Batches /\ r \in {0, 1} /\ b = lane'[l].batch
    BY <1>1, <1>4, <1>6
  <2> QED  BY <2>1, <2>3, <2>4, <2>5, <2>6, <2>7, <2>8, <2>9, LaneIs
<1>15. \A m \in Lanes : lane'[m] = NoBatch \/ LaneOf(m)'
  BY <1>6, <1>13, <1>14
<1>16. \A m \in Lanes : lane'[m].batch = lane[m].batch
  BY <1>5, <1>6
<1>17. Sending'
  BY <1>10, <1>12, <1>15, <1>16 DEF Sending, InBatch, OffsetOf, NoBatch
<1> QED  BY <1>9, <1>17

LEMMA ReceiveStep ==
  ASSUME TypeInv, Sending, NEW l \in Lanes, Receive(l)
  PROVE  TypeInv' /\ Sending' /\ alone' = alone
<1>b. PICK b : b = lane[l].batch
  OBVIOUS
<1>1. lane[l] # NoBatch /\ UNCHANGED <<cursor, inbox, alone, answered, breaks>>
  BY DEF Receive
<1>2. PICK n \in 1 .. Len(stream[b]) :
        LET text    == lane[l].pending \o SubSeq(stream[b], 1, n)
            replies == lane[l].replies \o LinesOf(text)
        IN  IF Len(replies) < Len(CommandsOf(b))
            THEN /\ lane' = [lane EXCEPT ![l].pending = Remainder(text), ![l].replies = replies]
                 /\ stream' = [stream EXCEPT ![b] = SubSeq(@, n + 1, Len(@))]
                 /\ UNCHANGED results
            ELSE /\ lane' = [lane EXCEPT ![l] = NoBatch]
                 /\ stream' = [stream EXCEPT ![b] = <<>>]
                 /\ results' = Judged(b, replies)
  BY <1>b DEF Receive
<1>t. PICK text : text = lane[l].pending \o SubSeq(stream[b], 1, n)
  OBVIOUS
<1>r. PICK replies : replies = lane[l].replies \o LinesOf(text)
  OBVIOUS
<1>k. PICK s, k, p : s = Served(b) /\ k = Len(lane[l].replies) /\ p = Len(lane[l].pending)
  OBVIOUS
<1>h. PICK h, r : h = (p + n) \div 2 /\ r = (p + n) % 2
  OBVIOUS
<1>3. LaneOf(l) /\ b \in Batches /\ InboxOf(b)
  <2>1. LaneOf(l)
    BY <1>1 DEF Sending
  <2> QED  BY <1>b, <2>1 DEF LaneOf, Sending
<1>4. Arrival(l, b, s, k, p, n, text, h, r, replies)
  BY <1>b, <1>t, <1>r, <1>k, <1>h, <1>3 DEF Arrival
<1>5. CASE Len(replies) < Len(CommandsOf(b))
  <2>1. /\ lane' = [lane EXCEPT ![l].pending = Remainder(text), ![l].replies = replies]
        /\ stream' = [stream EXCEPT ![b] = SubSeq(@, n + 1, Len(@))] /\ results' = results
    BY <1>2, <1>t, <1>r, <1>5
  <2>2. UNCHANGED <<cursor, inbox, alone, results, answered>> /\ alone' = alone
    BY <1>1, <2>1
  <2>3. LaneGoesOn(l, b, n, text, replies)
    BY <2>1, <2>2 DEF LaneGoesOn
  <2> QED  BY <1>4, <2>2, <2>3, ReceiveMore
<1>6. CASE ~(Len(replies) < Len(CommandsOf(b)))
  <2>1. /\ lane' = [lane EXCEPT ![l] = NoBatch] /\ stream' = [stream EXCEPT ![b] = <<>>]
        /\ results' = Judged(b, replies)
    BY <1>2, <1>t, <1>r, <1>6
  <2>2. Len(replies) = k + h /\ \A j \in 1 .. k + h : replies[j] = <<CharOf(b, 2 * j - 1)>>
    BY <1>4, Received
  <2>3. k \in Nat /\ p \in {0, 1} /\ Len(stream[b]) \in Nat /\ 2 * k + p + Len(stream[b]) = 2 * s /\ s \in Nat
    BY <1>4, Received
  <2>4. \A j \in 1 .. s : answered[OffsetOf(b) + j] \in {<<"OK">>, <<"ERR">>}
    BY <1>4, Received
  <2>5. h \in Nat /\ k + h <= s
    <3>z. PICK z : z = Len(stream[b])
      OBVIOUS
    <3>1. k \in Nat /\ p \in {0, 1} /\ z \in Nat /\ 2 * k + p + z = 2 * s /\ s \in Nat /\ n \in 1 .. z
      BY <2>3, <3>z
    <3> QED  BY <1>h, <3>1, Parsed
  <2>6. s <= Size(b) /\ Size(b) \in Nat /\ Len(CommandsOf(b)) = Size(b)
    BY <1>k, <1>3, ServedFacts, BatchFacts
  <2>7. k + h = s /\ s = Size(b)
    <3>1. ~(k + h < Size(b))
      BY <1>6, <2>2, <2>6
    <3> QED  BY <2>3, <2>5, <2>6, <3>1
  <2>8. \A c \in Commands : c \in BatchOf(b) <=> InBatch(c, b)
    BY DEF BatchOf, InBatch
  <2>9. ASSUME NEW c \in Commands, InBatch(c, b)
        PROVE  results'[c] = "failed" \/ (results'[c] = "ok" /\ answered[c] = <<"OK">>)
    <3>1. PICK j \in 1 .. s : c = OffsetOf(b) + j
      BY <1>3, <2>7, <2>9, BatchFacts
    <3>2. c - OffsetOf(b) = j /\ (2 * j - 1) % 2 = 1 /\ (2 * j - 1 + 1) \div 2 = j
      <4>1. OffsetOf(b) \in Nat
        BY <1>3, BatchFacts
      <4> QED  BY <2>3, <3>1, <4>1
    <3>3. replies[j] = <<CharOf(b, 2 * j - 1)>> /\ CharOf(b, 2 * j - 1).says = answered[c][1]
      BY <2>2, <2>7, <3>1, <3>2 DEF CharOf
    <3>4. replies[c - OffsetOf(b)][1].says = answered[c][1]
      BY <3>2, <3>3
    <3>5. results'[c] = IF answered[c][1] = "OK" THEN "ok" ELSE "failed"
      BY <2>1, <2>8, <2>9, <3>4 DEF Judged
    <3>6. answered[c] \in {<<"OK">>, <<"ERR">>} /\ <<"ERR">>[1] = "ERR"
      BY <2>4, <3>1
    <3> QED  BY <3>5, <3>6
  <2>10. \A c \in Commands : ~InBatch(c, b) => results'[c] = results[c]
    BY <2>1, <2>8 DEF Judged
  <2>11. results' \in [Commands -> {"none", "ok", "failed", "empty"}]
    <3>1. \A c \in Commands : results'[c] \in {"none", "ok", "failed", "empty"}
      BY <2>9, <2>10 DEF TypeInv
    <3>2. results' = [c \in Commands |-> results'[c]]
      BY <2>1 DEF Judged
    <3> QED  BY <3>1, <3>2
  <2>12. cursor' = cursor /\ inbox' = inbox /\ alone' = alone /\ answered' = answered
    BY <1>1
  <2>13. \A c \in Commands : IF InBatch(c, b)
                             THEN results'[c] = "failed" \/ (results'[c] = "ok" /\ answered[c] = <<"OK">>)
                             ELSE results'[c] = results[c]
    BY <2>9, <2>10
  <2> QED  BY <1>b, <1>1, <2>1, <2>11, <2>12, <2>13, BatchOver
<1> QED  BY <1>5, <1>6

-----------------------------------------------------------------------------
(* While one command is sent alone.                                        *)
LEMMA FirstBatch ==
  ASSUME CommandCount # 0
  PROVE  1 \in Commands /\ 1 \in Batches
<1>1. 1 \in Commands
  BY ClientAssumption DEF Commands
<1>2. PICK b : b \in Batches
  BY <1>1, EveryBatch
<1>t. PICK top : top = (CommandCount + PerBatch - 1) \div PerBatch
  OBVIOUS
<1>3. b \in 1 .. top /\ Batches = 1 .. top /\ top \in Nat
  <2>1. CommandCount + PerBatch - 1 \in Nat /\ PerBatch \in Nat \ {0}
    BY ClientAssumption
  <2>2. top \in Nat
    BY <1>t, <2>1, DivFacts
  <2> QED  BY <1>2, <1>t, <2>2 DEF Batches
<1>4. 1 \in 1 .. top
  BY <1>3
<1> QED  BY <1>1, <1>3, <1>4

AnyAnswer == {"OK", "ERR", "empty"}

LEMMA ReplyFacts ==
  ASSUME NEW a \in AnyAnswer
  PROVE  /\ Reply(1, a) \in Seq(Chars)
         /\ a = "empty" => Reply(1, a) = <<LineEnd>>
         /\ a # "empty" => Reply(1, a) = <<[to |-> 1, says |-> a], LineEnd>>
<1>1. LineEnd \in Chars /\ [to |-> 1, says |-> a] \in Chars
  BY DEF LineEnd, Chars, AnyAnswer
<1> QED  BY <1>1 DEF Reply

LEMMA SendAloneStep ==
  ASSUME CommandCount # 0, TypeInv, alone.at # "unused", SendingAlone, SendAlone
  PROVE  TypeInv' /\ SendingAlone' /\ alone'.at # "unused"
<1>1. 1 \in Commands /\ 1 \in Batches
  BY FirstBatch
<1>2. /\ alone.at = "ready" /\ alone' = [alone EXCEPT !.at = "waits"] /\ inbox' = [inbox EXCEPT ![1] = <<1>>]
      /\ cursor' = cursor /\ lane' = lane /\ stream' = stream /\ results' = results /\ answered' = answered
  BY DEF SendAlone
<1>3. /\ alone'.at = "waits" /\ alone'.text = alone.text
      /\ alone' \in [at: {"unused", "ready", "waits", "over"}, text: Seq(Chars)]
  BY <1>2 DEF TypeInv
<1>4. inbox'[1] = <<1>> /\ (\A d \in Batches \ {1} : inbox'[d] = inbox[d]) /\ inbox' \in [Batches -> Seq(Commands)]
  <2>1. <<1>> \in Seq(Commands)
    BY <1>1
  <2> QED  BY <1>1, <1>2, <2>1 DEF TypeInv
<1>5. TypeInv'
  BY <1>2, <1>3, <1>4 DEF TypeInv
<1>6. SendingAlone'
  BY <1>2, <1>3, <1>4 DEF SendingAlone, NoBatch
<1> QED  BY <1>3, <1>5, <1>6

LEMMA ServeAloneStep ==
  ASSUME CommandCount # 0, TypeInv, alone.at # "unused", SendingAlone, NEW b \in Batches, Serve(b)
  PROVE  TypeInv' /\ SendingAlone' /\ alone'.at # "unused"
<1>1. 1 \in Commands /\ 1 \in Batches
  BY FirstBatch
<1>2. b = 1 /\ inbox[1] = <<1>> /\ answered[1] = <<>>
  <2>1. inbox[b] # <<>>
    BY DEF Serve
  <2> QED  BY <2>1 DEF SendingAlone
<1>3. Head(inbox[b]) = 1 /\ Tail(inbox[b]) = <<>>
  BY <1>2
<1>4. PICK a \in AnyAnswer :
        /\ answered' = [answered EXCEPT ![1] = Append(@, a)]
        /\ stream' = IF Listens(1) THEN [stream EXCEPT ![1] = @ \o Reply(1, a)] ELSE stream
  <2>1. \E a \in Answers :
          /\ answered' = [answered EXCEPT ![1] = Append(@, a)]
          /\ stream' = IF Listens(1) THEN [stream EXCEPT ![1] = @ \o Reply(1, a)] ELSE stream
    BY <1>2, <1>3 DEF Serve
  <2>2. Answers \subseteq AnyAnswer
    BY DEF Answers, AnyAnswer
  <2> QED  BY <2>1, <2>2
<1>5. /\ inbox' = [inbox EXCEPT ![1] = <<>>]
      /\ cursor' = cursor /\ lane' = lane /\ alone' = alone /\ results' = results
  BY <1>2, <1>3 DEF Serve
<1>6. inbox'[1] = <<>> /\ (\A d \in Batches \ {1} : inbox'[d] = inbox[d]) /\ inbox' \in [Batches -> Seq(Commands)]
  <2>1. <<>> \in Seq(Commands)
    OBVIOUS
  <2> QED  BY <1>1, <1>5, <2>1 DEF TypeInv
<1>7. /\ answered'[1] = <<a>> /\ \A c \in Commands \ {1} : answered'[c] = answered[c]
      /\ answered' \in [Commands -> Seq(AnyAnswer)]
  <2>1. answered \in [Commands -> Seq(AnyAnswer)]
    BY DEF TypeInv, AnyAnswer
  <2>2. Append(answered[1], a) = <<a>> /\ <<a>> \in Seq(AnyAnswer)
    BY <1>2
  <2> QED  BY <1>1, <1>4, <2>1, <2>2
<1>8. Listens(1) <=> alone.at = "waits"
  <2>1. \A l \in Lanes : lane[l].batch # 1
    BY DEF SendingAlone, NoBatch
  <2> QED  BY <2>1 DEF Listens
<1>9. alone.at = "waits" => stream[1] = <<>> /\ alone.text = <<>>
  <2> HAVE alone.at = "waits"
  <2>1. \A x \in AnyAnswer : answered[1] # <<x>>
    BY <1>2
  <2> QED  BY <2>1 DEF SendingAlone, AnyAnswer
<1>10. alone.at = "waits" => stream'[1] = Reply(1, a)
  <2> HAVE alone.at = "waits"
  <2>1. <<>> \o Reply(1, a) = Reply(1, a)
    BY ReplyFacts
  <2>2. stream' = [stream EXCEPT ![1] = stream[1] \o Reply(1, a)]
    BY <1>4, <1>8
  <2> QED  BY <1>1, <1>9, <2>1, <2>2 DEF TypeInv
<1>11. stream' \in [Batches -> Seq(Chars)]
  <2>1. stream \in [Batches -> Seq(Chars)]
    BY DEF TypeInv
  <2>2. stream[1] \o Reply(1, a) \in Seq(Chars)
    BY <1>1, <2>1, ReplyFacts
  <2> QED  BY <1>1, <1>4, <2>1, <2>2
<1>12. TypeInv'
  BY <1>5, <1>6, <1>7, <1>11 DEF TypeInv, AnyAnswer
<1>13. alone.at # "ready"
  BY <1>2 DEF SendingAlone
<1>14. results[1] # "ok" /\ results[1] # "empty"
  <2>1. <<>> # <<"OK">> /\ <<>> # <<"empty">>
    OBVIOUS
  <2> QED  BY <1>2, <2>1 DEF SendingAlone
<1>15. SendingAlone'
  <2>1. /\ cursor' = 1 /\ \A l \in Lanes : lane'[l] = NoBatch
        /\ \A d \in Batches \ {1} : inbox'[d] = <<>>
        /\ inbox'[1] = <<>>
        /\ \A c \in Commands \ {1} : answered'[c] = <<>> /\ results'[c] = "none"
    BY <1>5, <1>6, <1>7 DEF SendingAlone
  <2>2. \E x \in {"OK", "ERR", "empty"} : answered'[1] = <<x>>
    BY <1>7 DEF AnyAnswer
  <2>3. alone'.at # "ready" 
    BY <1>5, <1>13
  <2>4. ASSUME alone'.at = "waits"
        PROVE  alone'.text = <<>> /\ \E x \in {"OK", "ERR", "empty"} :
                                        answered'[1] = <<x>> /\ stream'[1] = Reply(1, x)
    <3>1. alone'.text = <<>> /\ answered'[1] = <<a>> /\ stream'[1] = Reply(1, a)
      BY <1>5, <1>7, <1>9, <1>10, <2>4
    <3> QED  BY <3>1 DEF AnyAnswer
  <2>5. results'[1] # "ok" /\ results'[1] # "empty"
    BY <1>5, <1>14
  <2>6. alone'.at = "waits" =>
          \/ stream'[1] = <<>> /\ alone'.text = <<>> /\ answered'[1] = <<>>
          \/ alone'.text = <<>> /\ \E x \in {"OK", "ERR", "empty"} :
                                     answered'[1] = <<x>> /\ stream'[1] = Reply(1, x)
          \/ \E x \in {"OK", "ERR"} :
               answered'[1] = <<x>> /\ alone'.text = <<[to |-> 1, says |-> x]>> /\ stream'[1] = <<LineEnd>>
    BY <2>4
  <2>7. inbox'[1] \in {<<>>, <<1>>} /\ (alone'.at # "over" => results'[1] = "none")
    BY <2>1, <1>5 DEF SendingAlone
  <2> QED  BY <2>1, <2>2, <2>3, <2>5, <2>6, <2>7 DEF SendingAlone, NoBatch
<1> QED  BY <1>5, <1>12, <1>15

LEMMA ThreadEndsAlone ==
  ASSUME CommandCount # 0, TypeInv, alone.at # "unused", SendingAlone, NEW b \in Batches, ThreadEnds(b)
  PROVE  TypeInv' /\ SendingAlone' /\ alone'.at # "unused"
<1>1. 1 \in Commands /\ 1 \in Batches
  BY FirstBatch
<1>2. b = 1
  <2>1. inbox[b] # <<>>
    BY DEF ThreadEnds
  <2> QED  BY <2>1 DEF SendingAlone
<1>3. /\ inbox' = [inbox EXCEPT ![1] = <<>>] /\ cursor' = cursor /\ lane' = lane /\ stream' = stream
      /\ alone' = alone /\ results' = results /\ answered' = answered
  BY <1>2 DEF ThreadEnds
<1>4. inbox'[1] = <<>> /\ (\A d \in Batches \ {1} : inbox'[d] = inbox[d]) /\ inbox' \in [Batches -> Seq(Commands)]
  <2>1. <<>> \in Seq(Commands)
    OBVIOUS
  <2> QED  BY <1>1, <1>3, <2>1 DEF TypeInv
<1>5. TypeInv'
  BY <1>3, <1>4 DEF TypeInv
<1>6. SendingAlone'
  BY <1>3, <1>4 DEF SendingAlone, NoBatch
<1> QED  BY <1>3, <1>5, <1>6

(* The caller is told, one way or the other.                               *)
LEMMA AloneIsOver ==
  ASSUME CommandCount # 0, TypeInv, SendingAlone, NEW told, AloneEnds(told),
         inbox' = inbox \/ inbox' = [inbox EXCEPT ![1] = <<>>],
         UNCHANGED <<cursor, lane, answered>>,
         \/ told = "failed"
         \/ told = "ok" /\ answered[1] = <<"OK">>
         \/ told = "empty" /\ answered[1] = <<"empty">>
  PROVE  TypeInv' /\ SendingAlone' /\ alone'.at # "unused"
<1>1. 1 \in Commands /\ 1 \in Batches
  BY FirstBatch
<1>2. /\ alone' = [at |-> "over", text |-> <<>>] /\ results' = [results EXCEPT ![1] = told]
      /\ stream' = [stream EXCEPT ![1] = <<>>]
  BY DEF AloneEnds
<1>3. /\ alone'.at = "over" /\ alone' \in [at: {"unused", "ready", "waits", "over"}, text: Seq(Chars)]
  BY <1>2
<1>4. /\ results'[1] = told /\ \A c \in Commands \ {1} : results'[c] = results[c]
      /\ results' \in [Commands -> {"none", "ok", "failed", "empty"}]
  BY <1>1, <1>2 DEF TypeInv
<1>5. stream' \in [Batches -> Seq(Chars)]
  <2>1. <<>> \in Seq(Chars)
    OBVIOUS
  <2> QED  BY <1>2, <2>1 DEF TypeInv
<1>6. /\ inbox'[1] \in {inbox[1], <<>>} /\ (\A d \in Batches \ {1} : inbox'[d] = inbox[d])
      /\ inbox' \in [Batches -> Seq(Commands)]
  <2>1. <<>> \in Seq(Commands)
    OBVIOUS
  <2>2. inbox \in [Batches -> Seq(Commands)]
    BY DEF TypeInv
  <2>3. CASE inbox' = inbox
    BY <1>1, <2>2, <2>3
  <2>4. CASE inbox' = [inbox EXCEPT ![1] = <<>>]
    BY <1>1, <2>1, <2>2, <2>4
  <2> QED  BY <2>3, <2>4
<1>7. cursor' = cursor /\ lane' = lane /\ answered' = answered
  OBVIOUS
<1>8. TypeInv'
  BY <1>3, <1>4, <1>5, <1>6, <1>7 DEF TypeInv
<1>9. SendingAlone'
  <2>1. /\ cursor = 1 /\ \A l \in Lanes : lane[l] = NoBatch
        /\ \A d \in Batches \ {1} : inbox[d] = <<>>
        /\ inbox[1] \in {<<>>, <<1>>}
        /\ \A c \in Commands \ {1} : answered[c] = <<>> /\ results[c] = "none"
        /\ answered[1] = <<>> \/ (inbox[1] = <<>> /\ \E a \in {"OK", "ERR", "empty"} : answered[1] = <<a>>)
    BY DEF SendingAlone
  <2>2. /\ cursor' = 1 /\ \A l \in Lanes : lane'[l] = NoBatch
        /\ \A d \in Batches \ {1} : inbox'[d] = <<>>
        /\ \A c \in Commands \ {1} : answered'[c] = <<>> /\ results'[c] = "none"
    BY <1>4, <1>6, <1>7, <2>1
  <2>3. inbox'[1] \in {<<>>, <<1>>} /\ (inbox[1] = <<>> => inbox'[1] = <<>>)
    BY <1>6, <2>1
  <2>4. answered'[1] = <<>> \/ (inbox'[1] = <<>> /\ \E a \in {"OK", "ERR", "empty"} : answered'[1] = <<a>>)
    BY <1>7, <2>1, <2>3
  <2>5. /\ results'[1] = "ok" => answered'[1] = <<"OK">>
        /\ results'[1] = "empty" => answered'[1] = <<"empty">>
    BY <1>4, <1>7
  <2> QED  BY <1>3, <2>2, <2>3, <2>4, <2>5 DEF SendingAlone, NoBatch
<1> QED  BY <1>3, <1>8, <1>9

LEMMA Pairs ==
  ASSUME NEW x, NEW y
  PROVE  /\ SubSeq(<<x, y>>, 1, 1) = <<x>> /\ SubSeq(<<x, y>>, 2, 2) = <<y>>
         /\ SubSeq(<<x, y>>, 1, 2) = <<x, y>> /\ SubSeq(<<y>>, 1, 1) = <<y>>
         /\ <<x>> \o <<y>> = <<x, y>> /\ <<>> \o <<y>> = <<y>> /\ <<>> \o <<x>> = <<x>>
         /\ <<>> \o <<x, y>> = <<x, y>>
<1>s. PICK S : S = {x, y}
  OBVIOUS
<1>t. PICK t : t = <<x, y>>
  OBVIOUS
<1>u. PICK u : u = <<y>>
  OBVIOUS
<1>1. t \in Seq(S) /\ u \in Seq(S) /\ <<x>> \in Seq(S) /\ t[1] = x /\ t[2] = y /\ Len(t) = 2 /\ u[1] = y /\ x \in S /\ y \in S
  BY <1>s, <1>t, <1>u
<1>2. SubSeq(t, 1, 1) = <<x>> /\ SubSeq(t, 2, 2) = <<y>> /\ SubSeq(u, 1, 1) = <<y>>
  BY <1>1, OneOfSeq
<1>3. SubSeq(t, 1, 2) = t
  BY <1>1, SubSeqFull
<1>4. <<>> \o t = t /\ <<>> \o u = u /\ <<>> \o <<x>> = <<x>>
  BY <1>1, ConcatEmptySeq
<1>5. <<x>> \o <<y>> = <<x, y>>
  <2>p. PICK p : p = <<x>> \o <<y>>
    OBVIOUS
  <2>1. Len(<<x>>) = 1 /\ Len(<<y>>) = 1 /\ <<x>> \in Seq(S) /\ <<y>> \in Seq(S)
    BY <1>1, <1>u
  <2>2. /\ p \in Seq(S) /\ Len(p) = 1 + 1
        /\ \A i \in 1 .. 1 + 1 : p[i] = IF i <= 1 THEN <<x>>[i] ELSE <<y>>[i - 1]
    BY <2>p, <2>1, Joined
  <2>3. Len(p) = 2 /\ p[1] = x /\ p[2] = y
    BY <2>2
  <2>4. p = <<x, y>>
    BY <2>2, <2>3
  <2> QED  BY <2>p, <2>4
<1> QED  BY <1>t, <1>u, <1>2, <1>3, <1>4, <1>5

LEMMA AlonePieces ==
  ASSUME TypeInv, alone.at = "waits", SendingAlone, stream[1] # <<>>, stream[1] \in Seq(Chars),
         NEW n \in 1 .. Len(stream[1])
  PROVE  LET text == alone.text \o SubSeq(stream[1], 1, n)
         IN  \/ text = <<LineEnd>> /\ answered[1] = <<"empty">>
             \/ \E a \in {"OK", "ERR"} :
                  /\ answered[1] = <<a>>
                  /\ \/ text = <<[to |-> 1, says |-> a], LineEnd>>
                     \/ /\ text = <<[to |-> 1, says |-> a]>>
                        /\ SubSeq(stream[1], n + 1, Len(stream[1])) = <<LineEnd>>
<1>t. PICK text : text = alone.text \o SubSeq(stream[1], 1, n)
  OBVIOUS
<1>1. \/ alone.text = <<>> /\ answered[1] = <<"empty">> /\ stream[1] = <<LineEnd>>
      \/ \E a \in {"OK", "ERR"} :
           /\ answered[1] = <<a>>
           /\ \/ alone.text = <<>> /\ stream[1] = <<[to |-> 1, says |-> a], LineEnd>>
              \/ alone.text = <<[to |-> 1, says |-> a]>> /\ stream[1] = <<LineEnd>>
  <2>1. CASE alone.text = <<>> /\ \E a \in AnyAnswer : answered[1] = <<a>> /\ stream[1] = Reply(1, a)
    <3>1. PICK a \in AnyAnswer : answered[1] = <<a>> /\ stream[1] = Reply(1, a)
      BY <2>1
    <3> QED  BY <2>1, <3>1, ReplyFacts DEF AnyAnswer
  <2>2. CASE \E a \in {"OK", "ERR"} :
               answered[1] = <<a>> /\ alone.text = <<[to |-> 1, says |-> a]>> /\ stream[1] = <<LineEnd>>
    BY <2>2
  <2> QED  BY <2>1, <2>2 DEF SendingAlone, AnyAnswer
<1>2. CASE alone.text = <<>> /\ answered[1] = <<"empty">> /\ stream[1] = <<LineEnd>>
  <2>1. n = 1
    BY <1>2
  <2>2. text = <<LineEnd>>
    BY <1>t, <1>2, <2>1, Pairs
  <2> QED  BY <1>t, <1>2, <2>2
<1>3. ASSUME NEW a \in {"OK", "ERR"}, answered[1] = <<a>>,
             alone.text = <<>>, stream[1] = <<[to |-> 1, says |-> a], LineEnd>>
      PROVE  \/ text = <<[to |-> 1, says |-> a], LineEnd>>
             \/ /\ text = <<[to |-> 1, says |-> a]>>
                /\ SubSeq(stream[1], n + 1, Len(stream[1])) = <<LineEnd>>
  <2>r. PICK r : r = [to |-> 1, says |-> a]
    OBVIOUS
  <2>1. stream[1] = <<r, LineEnd>> /\ n \in {1, 2}
    BY <1>3, <2>r
  <2>2. CASE n = 1
    <3>1. SubSeq(<<r, LineEnd>>, 1, 1) = <<r>> /\ SubSeq(<<r, LineEnd>>, 2, 2) = <<LineEnd>>
      BY Pairs
    <3>2. text = <<r>>
      BY <1>t, <1>3, <2>1, <2>2, <3>1, Pairs
    <3>3. SubSeq(stream[1], n + 1, Len(stream[1])) = <<LineEnd>>
      <4>1. Len(stream[1]) = 2 /\ n + 1 = 2
        BY <2>1, <2>2
      <4> QED  BY <2>1, <3>1, <4>1
    <3> QED  BY <2>r, <3>2, <3>3
  <2>3. CASE n = 2
    <3>1. SubSeq(<<r, LineEnd>>, 1, 2) = <<r, LineEnd>> /\ <<>> \o <<r, LineEnd>> = <<r, LineEnd>>
      BY Pairs
    <3> QED  BY <1>t, <1>3, <2>r, <2>1, <2>3, <3>1
  <2> QED  BY <2>1, <2>2, <2>3
<1>4. ASSUME NEW a \in {"OK", "ERR"}, answered[1] = <<a>>,
             alone.text = <<[to |-> 1, says |-> a]>>, stream[1] = <<LineEnd>>
      PROVE  text = <<[to |-> 1, says |-> a], LineEnd>>
  <2>r. PICK r : r = [to |-> 1, says |-> a]
    OBVIOUS
  <2>1. n = 1
    BY <1>4
  <2>2. <<r>> \o <<LineEnd>> = <<r, LineEnd>> /\ SubSeq(<<LineEnd>>, 1, 1) = <<LineEnd>>
    BY Pairs
  <2> QED  BY <1>t, <1>4, <2>r, <2>1, <2>2
<1> QED  BY <1>t, <1>1, <1>2, <1>3, <1>4

LEMMA ReceiveAloneStep ==
  ASSUME CommandCount # 0, TypeInv, SendingAlone, ReceiveAlone
  PROVE  TypeInv' /\ SendingAlone' /\ alone'.at # "unused"
<1>1. 1 \in Commands /\ 1 \in Batches /\ stream[1] \in Seq(Chars)
  BY FirstBatch DEF TypeInv
<1>2. alone.at = "waits" /\ stream[1] # <<>> /\ UNCHANGED <<cursor, lane, inbox, answered, breaks>>
  BY DEF ReceiveAlone
<1>3. PICK n \in 1 .. Len(stream[1]) :
        LET text == alone.text \o SubSeq(stream[1], 1, n)
        IN  IF EndsOf(text) # {}
            THEN AloneEnds(Meaning(text))
            ELSE /\ alone' = [alone EXCEPT !.text = text]
                 /\ stream' = [stream EXCEPT ![1] = SubSeq(@, n + 1, Len(@))]
                 /\ UNCHANGED results
  BY DEF ReceiveAlone
<1>t. PICK text : text = alone.text \o SubSeq(stream[1], 1, n)
  OBVIOUS
<1>4. CASE text = <<LineEnd>> /\ answered[1] = <<"empty">>
  <2>1. EndsOf(text) # {} /\ Meaning(text) = "empty"
    <3>1. 1 \in EndsOf(text) /\ text[1] = LineEnd
      BY <1>4 DEF EndsOf
    <3>2. Meaning(text) = "empty"
      BY <3>1 DEF Meaning, LineEnd
    <3> QED  BY <3>1, <3>2
  <2>2. AloneEnds("empty")
    BY <1>t, <1>3, <2>1
  <2> QED  BY <1>2, <1>4, <2>2, AloneIsOver
<1>5. ASSUME NEW a \in {"OK", "ERR"}, answered[1] = <<a>>, text = <<[to |-> 1, says |-> a], LineEnd>>
      PROVE  TypeInv' /\ SendingAlone' /\ alone'.at # "unused"
  <2>1. EndsOf(text) # {}
    <3>1. 2 \in EndsOf(text)
      BY <1>5 DEF EndsOf
    <3> QED  BY <3>1
  <2>2. Meaning(text) = IF a = "OK" THEN "ok" ELSE "failed"
    <3>1. text[1] = [to |-> 1, says |-> a]
      BY <1>5
    <3>2. text[1] # LineEnd /\ text[1].says = a
      BY <3>1 DEF LineEnd
    <3> QED  BY <3>2 DEF Meaning
  <2>m. PICK told : told = IF a = "OK" THEN "ok" ELSE "failed"
    OBVIOUS
  <2>3. AloneEnds(told)
    BY <1>t, <1>3, <2>m, <2>1, <2>2
  <2>4. told = "failed" \/ (told = "ok" /\ answered[1] = <<"OK">>)
    BY <1>5, <2>m
  <2> QED  BY <1>2, <2>3, <2>4, AloneIsOver
<1>6. ASSUME NEW a \in {"OK", "ERR"}, answered[1] = <<a>>, text = <<[to |-> 1, says |-> a]>>,
             SubSeq(stream[1], n + 1, Len(stream[1])) = <<LineEnd>>
      PROVE  TypeInv' /\ SendingAlone' /\ alone'.at # "unused"
  <2>r. PICK r : r = [to |-> 1, says |-> a]
    OBVIOUS
  <2>1. r \in Chars /\ LineEnd \in Chars /\ r # LineEnd /\ text = <<r>>
    BY <1>6, <2>r DEF Chars, LineEnd
  <2>2. EndsOf(text) = {}
    BY <2>1 DEF EndsOf
  <2>3. /\ alone' = [alone EXCEPT !.text = text] /\ stream' = [stream EXCEPT ![1] = <<LineEnd>>]
        /\ results' = results
    BY <1>t, <1>3, <1>6, <2>2
  <2>4. /\ alone'.at = "waits" /\ alone'.text = <<r>>
        /\ alone' \in [at: {"unused", "ready", "waits", "over"}, text: Seq(Chars)]
    <3>1. <<r>> \in Seq(Chars)
      BY <2>1
    <3> QED  BY <1>2, <2>1, <2>3, <3>1 DEF TypeInv
  <2>5. stream'[1] = <<LineEnd>> /\ stream' \in [Batches -> Seq(Chars)]
    <3>1. <<LineEnd>> \in Seq(Chars)
      BY <2>1
    <3> QED  BY <1>1, <2>3, <3>1 DEF TypeInv
  <2>6. cursor' = cursor /\ lane' = lane /\ inbox' = inbox /\ answered' = answered
    BY <1>2
  <2>7. TypeInv'
    BY <2>3, <2>4, <2>5, <2>6 DEF TypeInv
  <2>8. /\ cursor = 1 /\ \A l \in Lanes : lane[l] = NoBatch
        /\ \A b \in Batches \ {1} : inbox[b] = <<>>
        /\ inbox[1] \in {<<>>, <<1>>}
        /\ \A c \in Commands \ {1} : answered[c] = <<>> /\ results[c] = "none"
        /\ answered[1] = <<>> \/ (inbox[1] = <<>> /\ \E x \in {"OK", "ERR", "empty"} : answered[1] = <<x>>)
        /\ results[1] = "none"
    BY <1>2 DEF SendingAlone
  <2>9. alone'.text = <<[to |-> 1, says |-> a]>> /\ answered'[1] = <<a>>
    BY <1>6, <2>r, <2>4, <2>6
  <2>10. SendingAlone'
    BY <2>3, <2>4, <2>5, <2>6, <2>8, <2>9 DEF SendingAlone, NoBatch, LineEnd
  <2> QED  BY <2>4, <2>7, <2>10
<1> QED
  <2>1. \/ text = <<LineEnd>> /\ answered[1] = <<"empty">>
        \/ \E a \in {"OK", "ERR"} :
             /\ answered[1] = <<a>>
             /\ \/ text = <<[to |-> 1, says |-> a], LineEnd>>
                \/ /\ text = <<[to |-> 1, says |-> a]>>
                   /\ SubSeq(stream[1], n + 1, Len(stream[1])) = <<LineEnd>>
    BY <1>t, <1>1, <1>2, AlonePieces
  <2> QED  BY <1>4, <1>5, <1>6, <2>1

LEMMA AloneBreaksStep ==
  ASSUME CommandCount # 0, TypeInv, SendingAlone, AloneBreaks
  PROVE  TypeInv' /\ SendingAlone' /\ alone'.at # "unused"
<1>1. 1 \in Commands /\ 1 \in Batches
  BY FirstBatch
<1>2. /\ alone.at = "waits" /\ inbox' = [inbox EXCEPT ![1] = <<>>]
      /\ cursor' = cursor /\ lane' = lane /\ answered' = answered
  BY DEF AloneBreaks
<1>3. CASE AloneEnds("failed")
  BY <1>2, <1>3, AloneIsOver
<1>4. CASE alone' = alone /\ results' = results /\ stream' = stream
  <2>1. inbox'[1] = <<>> /\ (\A d \in Batches \ {1} : inbox'[d] = inbox[d]) /\ inbox' \in [Batches -> Seq(Commands)]
    <3>1. <<>> \in Seq(Commands)
      OBVIOUS
    <3> QED  BY <1>1, <1>2, <3>1 DEF TypeInv
  <2>2. TypeInv'
    BY <1>2, <1>4, <2>1 DEF TypeInv
  <2>3. SendingAlone'
    BY <1>2, <1>4, <2>1 DEF SendingAlone, NoBatch
  <2> QED  BY <1>2, <1>4, <2>2, <2>3
<1> QED  BY <1>3, <1>4 DEF AloneBreaks

-----------------------------------------------------------------------------
LEMMA ClientInvHoldsAtFirst ==
  ASSUME CommandCount # 0, ClientInit
  PROVE  ClientInv
<1>1. TypeInv
  <2>1. <<>> \in Seq(Chars) /\ <<>> \in Seq(Seq(Chars)) /\ <<>> \in Seq(Commands)
        /\ <<>> \in Seq({"OK", "ERR", "empty"})
    OBVIOUS
  <2>2. NoBatch \in LaneRec
    BY <2>1 DEF NoBatch, LaneRec
  <2>3. cursor \in Nat \ {0} /\ lane \in [Lanes -> LaneRec]
    BY <2>2 DEF ClientInit
  <2>4. inbox \in [Batches -> Seq(Commands)] /\ stream \in [Batches -> Seq(Chars)]
    BY <2>1 DEF ClientInit
  <2>5. alone \in [at: {"unused", "ready", "waits", "over"}, text: Seq(Chars)]
    BY <2>1 DEF ClientInit
  <2>6. results \in [Commands -> {"none", "ok", "failed", "empty"}]
        /\ answered \in [Commands -> Seq({"OK", "ERR", "empty"})]
    BY <2>1 DEF ClientInit
  <2> QED  BY <2>3, <2>4, <2>5, <2>6 DEF TypeInv
<1>2. CASE alone.at = "unused"
  <2>1. \A b \in Batches : InboxOf(b)
    <3> TAKE b \in Batches
    <3>1. inbox[b] = <<>> /\ stream[b] = <<>> /\ \A c \in Commands : answered[c] = <<>> /\ results[c] = "none"
      BY DEF ClientInit
    <3>2. Len(inbox[b]) = 0 /\ Size(b) \in Nat
      BY <3>1, BatchFacts
    <3> QED  BY <3>1, <3>2 DEF InboxOf
  <2>2. \A c \in Commands : answered[c] = <<>> /\ results[c] = "none"
    BY DEF ClientInit
  <2>3. \A c \in Commands : Len(answered[c]) <= 1
    BY <2>2
  <2>4. cursor = 1 /\ \A l \in Lanes : lane[l] = NoBatch
    BY DEF ClientInit
  <2>5. \A b \in Batches : ~(b < cursor)
    BY <2>4, BatchFacts
  <2> QED  BY <1>1, <1>2, <2>1, <2>2, <2>3, <2>4, <2>5 DEF ClientInv, Sending
<1>3. CASE alone.at # "unused"
  <2>1. alone.at = "ready" /\ alone.text = <<>>
    BY <1>3 DEF ClientInit
  <2>2. /\ cursor = 1 /\ \A l \in Lanes : lane[l] = NoBatch
        /\ inbox = [b \in Batches |-> <<>>] /\ stream = [b \in Batches |-> <<>>]
        /\ results = [c \in Commands |-> "none"] /\ answered = [c \in Commands |-> <<>>]
    BY DEF ClientInit
  <2>3. CASE CommandCount # 0
    <3>1. inbox[1] = <<>> /\ stream[1] = <<>> /\ answered[1] = <<>> /\ results[1] = "none"
      BY <2>2, <2>3, FirstBatch
    <3>2. SendingAlone
      BY <2>1, <2>2, <3>1 DEF SendingAlone
    <3> QED  BY <1>1, <1>3, <3>2 DEF ClientInv
  <2> QED  BY <2>3
<1> QED  BY <1>2, <1>3

LEMMA SendingKept ==
  ASSUME TypeInv, Sending, alone.at = "unused", ClientNext
  PROVE  TypeInv' /\ Sending' /\ alone' = alone
<1>1. CASE \E l \in Lanes : SendBatch(l)
  BY <1>1, SendBatchStep
<1>2. CASE \E l \in Lanes : Receive(l)
  BY <1>2, ReceiveStep
<1>3. CASE \E l \in Lanes : TimesOut(l) \/ Breaks(l)
  BY <1>3, GivenUpStep
<1>4. CASE \E b \in Batches : Serve(b)
  BY <1>4, ServeStep
<1>5. CASE \E b \in Batches : ThreadEnds(b)
  BY <1>5, ThreadEndsStep
<1>6. ~SendAlone /\ ~ReceiveAlone /\ ~AloneTimesOut /\ ~AloneBreaks
  BY DEF SendAlone, ReceiveAlone, AloneTimesOut, AloneBreaks
<1> QED  BY <1>1, <1>2, <1>3, <1>4, <1>5, <1>6 DEF ClientNext

LEMMA SendingAloneKept ==
  ASSUME CommandCount # 0, TypeInv, SendingAlone, alone.at # "unused", ClientNext
  PROVE  TypeInv' /\ SendingAlone' /\ alone'.at # "unused"
<1>1. CASE SendAlone
  BY <1>1, SendAloneStep
<1>2. CASE ReceiveAlone
  BY <1>2, ReceiveAloneStep
<1>3. CASE AloneTimesOut
  <2>1. AloneEnds("failed") /\ inbox' = inbox /\ UNCHANGED <<cursor, lane, answered>>
    BY <1>3 DEF AloneTimesOut
  <2> QED  BY <2>1, AloneIsOver
<1>4. CASE AloneBreaks
  BY <1>4, AloneBreaksStep
<1>5. CASE \E b \in Batches : Serve(b)
  BY <1>5, ServeAloneStep
<1>6. CASE \E b \in Batches : ThreadEnds(b)
  BY <1>6, ThreadEndsAlone
<1>7. \A l \in Lanes : ~SendBatch(l) /\ ~Receive(l) /\ ~TimesOut(l) /\ ~Breaks(l)
  <2>1. \A l \in Lanes : lane[l] = NoBatch
    BY DEF SendingAlone
  <2> QED  BY <2>1 DEF SendBatch, Receive, TimesOut, Breaks
<1> QED  BY <1>1, <1>2, <1>3, <1>4, <1>5, <1>6, <1>7 DEF ClientNext

LEMMA ClientInvIsKept ==
  ASSUME CommandCount # 0, ClientInv, [ClientNext]_cvars
  PROVE  ClientInv'
<1>1. CASE UNCHANGED cvars
  <2>1. /\ cursor' = cursor /\ lane' = lane /\ inbox' = inbox /\ stream' = stream
        /\ alone' = alone /\ results' = results /\ answered' = answered
    BY <1>1 DEF cvars
  <2>2. /\ \A b : Served(b)' = Served(b) /\ OffsetOf(b)' = OffsetOf(b) /\ Size(b)' = Size(b)
        /\ \A b, c : InBatch(c, b)' = InBatch(c, b)
        /\ \A b, n : CharOf(b, n)' = CharOf(b, n)
    BY <2>1 DEF Served, Size, BatchOf, OffsetOf, InBatch, CharOf, LineEnd
  <2>3. \A b : InboxOf(b)' <=> InboxOf(b)
    BY <2>1, <2>2 DEF InboxOf
  <2>4. \A l : LaneOf(l)' <=> LaneOf(l)
    BY <2>1, <2>2 DEF LaneOf
  <2>5. TypeInv' <=> TypeInv
    BY <2>1 DEF TypeInv
  <2>6. Sending' <=> Sending
    BY <2>1, <2>2, <2>3, <2>4 DEF Sending, NoBatch
  <2>7. SendingAlone' <=> SendingAlone
    BY <2>1 DEF SendingAlone, NoBatch
  <2> QED  BY <2>1, <2>5, <2>6, <2>7 DEF ClientInv
<1>2. CASE ClientNext /\ alone.at = "unused"
  BY <1>2, SendingKept DEF ClientInv
<1>3. CASE ClientNext /\ alone.at # "unused"
  BY <1>3, SendingAloneKept DEF ClientInv
<1> QED  BY <1>1, <1>2, <1>3

LEMMA ClientInvSuffices ==
  ASSUME CommandCount # 0, ClientInv
  PROVE  RepliesMatch
<1>1. CASE alone.at = "unused"
  <2>1. /\ \A c \in Commands : Len(answered[c]) <= 1
        /\ \A c \in Commands : results[c] = "ok" => answered[c] = <<"OK">>
        /\ \A c \in Commands : results[c] # "empty"
    BY <1>1 DEF ClientInv, Sending
  <2>2. ASSUME cursor \notin Batches, \A l \in Lanes : lane[l] = NoBatch, NEW c \in Commands
        PROVE  results[c] # "none"
    <3>1. PICK b \in Batches : InBatch(c, b)
      BY EveryBatch
    <3>2. b \in Nat /\ b # 0 /\ b < cursor
      <4>t. PICK top : top = (CommandCount + PerBatch - 1) \div PerBatch
        OBVIOUS
      <4>1. CommandCount + PerBatch - 1 \in Nat /\ PerBatch \in Nat \ {0}
        BY ClientAssumption
      <4>2. top \in Nat /\ Batches = 1 .. top
        BY <4>t, <4>1, DivFacts DEF Batches
      <4>3. cursor \in Nat \ {0}
        BY DEF ClientInv, TypeInv
      <4>4. b \in 1 .. top /\ cursor \notin 1 .. top
        BY <2>2, <3>1, <4>2
      <4> QED  BY <4>2, <4>3, <4>4
    <3>3. \A l \in Lanes : lane[l].batch # b
      BY <2>2, <3>2 DEF NoBatch
    <3> QED  BY <1>1, <3>1, <3>2, <3>3 DEF ClientInv, Sending
  <2> QED  BY <2>1, <2>2 DEF RepliesMatch
<1>2. CASE alone.at # "unused"
  <2>1. SendingAlone
    BY <1>2 DEF ClientInv
  <2>2. \A c \in Commands \ {1} : answered[c] = <<>> /\ results[c] = "none"
    BY <2>1 DEF SendingAlone
  <2>3. /\ answered[1] = <<>> \/ \E a \in AnyAnswer : answered[1] = <<a>>
        /\ results[1] = "ok" => answered[1] = <<"OK">>
        /\ results[1] = "empty" => answered[1] = <<"empty">>
    BY <2>1 DEF SendingAlone, AnyAnswer
  <2>4. Len(answered[1]) <= 1 /\ \A c \in Commands \ {1} : Len(answered[c]) <= 1
    <3>1. Len(<<>>) <= 1 /\ \A a \in AnyAnswer : Len(<<a>>) <= 1
      OBVIOUS
    <3>2. Len(answered[1]) <= 1
      BY <2>3, <3>1
    <3> QED  BY <2>2, <3>1, <3>2
  <2> QED  BY <1>2, <2>2, <2>3, <2>4 DEF RepliesMatch
<1> QED  BY <1>1, <1>2

(* Whatever the batches, the runners and the pieces are: each command is   *)
(* carried out at most once, and the caller is told of it what its own     *)
(* reply said.                                                             *)
THEOREM RepliesAreMatched == ClientSpec => []RepliesMatch
<1>1. CASE CommandCount = 0
  <2>1. Commands = {}
    BY <1>1 DEF Commands
  <2>2. RepliesMatch
    BY <2>1 DEF RepliesMatch
  <2> QED  BY <2>2, PTL
<1>2. CASE CommandCount # 0
  <2>1. ClientInit => ClientInv
    BY <1>2, ClientInvHoldsAtFirst
  <2>2. ClientInv /\ [ClientNext]_cvars => ClientInv'
    BY <1>2, ClientInvIsKept
  <2>3. ClientInv => RepliesMatch
    BY <1>2, ClientInvSuffices
  <2> QED  BY <2>1, <2>2, <2>3, PTL DEF ClientSpec
<1> QED  BY <1>1, <1>2

=============================================================================
