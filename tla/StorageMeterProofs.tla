------------------------- MODULE StorageMeterProofs -------------------------
(***************************************************************************)
(* Theorems about the storage meter, for every value of its constants: any *)
(* number of gateways and of requests, any sizes, months of any length,    *)
(* any faults.                                                             *)
(***************************************************************************)
EXTENDS StorageMeter, FiniteSetTheorems, WellFoundedInduction, TLAPS

UsageRec   == [there: BOOLEAN, bytes: Nat, at: Nat]
BillingRec == [there: BOOLEAN, bytes: Nat, accrued: Nat]
MonthRec   == [there: BOOLEAN, seconds: Nat, closing: Nat, closed: BOOLEAN]
EntryRec   == [timer: BOOLEAN, running: BOOLEAN, pending: BOOLEAN]
WorkRec    == [at: {"idle", "begun", "read", "measured", "written", "held"}, measures: BOOLEAN,
               now: Nat, seed: UsageRec, snap: Nat, state: BillingRec]

TypeInv ==
  /\ clock \in Nat /\ stored \in Nat /\ missed \in BOOLEAN
  /\ usage \in UsageRec /\ billing \in BillingRec
  /\ months \in [Months -> MonthRec]
  /\ queue \in [MeterGateways -> EntryRec]
  /\ telling \in [MeterGateways -> BOOLEAN]
  /\ work \in [Meters -> WorkRec]
  /\ charged \in [Units -> [times: Nat, bytes: Nat]]

-----------------------------------------------------------------------------
(* The locks do what they are for.                                         *)
LocksInv ==
  /\ \A w \in Meters : HoldsUsage(w) => UsageFree(w)
  /\ \A w \in Meters : HoldsBilling(w) => BillingFree(w)

(* A billing works on the row it holds.  Where there is no such row yet,   *)
(* what it read of the last measurement is still that: whoever measures    *)
(* leaves a billing row behind.                                            *)
BillingInv ==
  /\ billing.there => usage.there /\ billing.bytes = usage.bytes
  /\ ~billing.there => billing.accrued = 0

WorkInv(w) ==
  /\ ~MeterAt(w, "idle") /\ ~work[w].measures => usage.there
  /\ work[w].at \in {"measured", "written"} => work[w].measures
  /\ MeterAt(w, "read") /\ ~work[w].measures =>
       /\ work[w].seed.there
       /\ ~billing.there => work[w].seed.bytes = usage.bytes
  /\ ~(work[w].at \in {"idle", "begun"}) /\ work[w].seed.there => usage.there
  /\ MeterAt(w, "held") =>
       /\ billing.there => work[w].state = billing
       /\ ~work[w].measures => work[w].state.bytes = usage.bytes

(* What is billed lies before the end of what is billed, in one piece; a   *)
(* month is closed when, and not before, all of it is billed.              *)
ChargedInv ==
  /\ EverySecondOnce
  /\ \A u \in Units : charged[u].times = 1 => u < billing.accrued

MonthsInv == \A m \in Months :
  /\ months[m].closed => EndOf(m) <= billing.accrued
  /\ months[m].seconds > 0 => billing.there
  /\ months[m].seconds > 0 /\ EndOf(m) <= billing.accrued => months[m].closed

(* Times lie before the last of the clock.                                 *)
ClockInv == clock <= MaxClock /\ \A w \in Meters : work[w].now <= clock

(* What a month has been billed is the sum over its units; a unit that was *)
(* not billed adds nothing.                                                *)
UnitsOf(m) == {u \in Units : MonthOf(u) = m}
Sum(c, S)  == FoldSet(LAMBDA u, sum : sum + c[u].bytes, 0, S)

SumsInv ==
  /\ \A u \in Units : charged[u].times = 0 => charged[u].bytes = 0
  /\ \A m \in Months : months[m].seconds = Sum(charged, UnitsOf(m))

(* A change that is not measured yet is announced, waits in a queue or is  *)
(* seen by a measurement under way.  One that has seen less than is stored *)
(* leaves something to be measured, or will find that it had no row to     *)
(* lock.                                                                   *)
Measures(w, places) == work[w].measures /\ work[w].at \in places
HasMeasured == {"measured", "written", "held"}

Owed ==
  \/ \E g \in MeterGateways : telling[g] \/ queue[g].pending
  \/ \E w \in Meters : \/ Measures(w, {"begun", "read"})
                       \/ Measures(w, HasMeasured) /\ work[w].snap = stored

OwedInv ==
  ~missed => /\ usage.bytes = stored \/ Owed
             /\ \A w \in Meters : Measures(w, HasMeasured) /\ work[w].snap # stored
                  => Owed \/ (usage.there /\ ~work[w].seed.there)

MeterInv ==
  /\ TypeInv /\ LocksInv /\ BillingInv /\ (\A w \in Meters : WorkInv(w))
  /\ ChargedInv /\ MonthsInv /\ ClockInv /\ SumsInv /\ OwedInv

-----------------------------------------------------------------------------
(* Arithmetic of the months.                                               *)
LEMMA MonthFacts ==
  ASSUME NEW m \in Months, NEW from \in Nat, NEW to \in Nat
  PROVE  /\ m \in Nat /\ m * MonthLength \in Nat /\ EndOf(m) \in Nat
         /\ m * MonthLength < EndOf(m)
         /\ Elapsed(m, from, to) \in Nat
         /\ EndOf(m) <= from => Elapsed(m, from, to) = 0
         /\ Elapsed(m, from, to) > 0 => from < EndOf(m)
         /\ from < EndOf(m) /\ EndOf(m) <= to => Elapsed(m, from, to) > 0
<1>1. m \in Nat /\ MonthLength \in Nat /\ MonthLength > 0
  BY MeterAssumption DEF Months
<1>2. m * MonthLength \in Nat
  BY <1>1
<1>3. EndOf(m) = m * MonthLength + MonthLength
  BY <1>1 DEF EndOf
<1> DEFINE start == m * MonthLength
           end   == EndOf(m)
<1>4. start \in Nat /\ end \in Nat /\ start < end
  BY <1>1, <1>2, <1>3
<1>5. Elapsed(m, from, to) = LaterOf(0, EarlierOf(to, end) - LaterOf(from, start))
  BY DEF Elapsed
<1> HIDE DEF start, end
<1>6. /\ LaterOf(0, EarlierOf(to, end) - LaterOf(from, start)) \in Nat
      /\ end <= from => LaterOf(0, EarlierOf(to, end) - LaterOf(from, start)) = 0
      /\ LaterOf(0, EarlierOf(to, end) - LaterOf(from, start)) > 0 => from < end
      /\ from < end /\ end <= to => LaterOf(0, EarlierOf(to, end) - LaterOf(from, start)) > 0
  BY <1>4 DEF LaterOf, EarlierOf
<1>7. QED BY <1>1, <1>4, <1>5, <1>6 DEF start, end

(* What one billing leaves of a month's row.                               *)
LEMMA AccruedIsMonth ==
  ASSUME TypeInv, NEW w \in Meters, NEW m \in Months
  PROVE  /\ Accrued(w, m) \in MonthRec /\ Touched(w, m) \in MonthRec
         /\ Touched(w, m).seconds = Accrued(w, m).seconds
         /\ Touched(w, m).closed = Accrued(w, m).closed
         /\ BytesNow(w) \in Nat /\ BilledUpTo(w) \in Nat
<1>1. work[w] \in WorkRec /\ months[m] \in MonthRec
  BY DEF TypeInv
<1>2. /\ work[w].state.bytes \in Nat /\ work[w].state.accrued \in Nat
      /\ work[w].now \in Nat /\ work[w].snap \in Nat
  BY <1>1 DEF WorkRec, BillingRec
<1>3. /\ BytesNow(w) \in Nat /\ BilledUpTo(w) \in Nat
  BY <1>2 DEF BytesNow, BilledUpTo, LaterOf
<1>4. Elapsed(m, work[w].state.accrued, work[w].now) \in Nat
  BY <1>2, MonthFacts
<1>5. work[w].state.bytes * Elapsed(m, work[w].state.accrued, work[w].now) \in Nat
  BY <1>2, <1>4
<1>6. Closes(m, work[w].state.accrued, work[w].now) \in BOOLEAN
  BY DEF Closes
<1>7. Accrued(w, m) \in MonthRec
  BY <1>1, <1>2, <1>5, <1>6 DEF Accrued, MonthRec
<1>8. /\ Touched(w, m) \in MonthRec
      /\ Touched(w, m).seconds = Accrued(w, m).seconds
      /\ Touched(w, m).closed = Accrued(w, m).closed
  BY <1>3, <1>7 DEF Touched, MonthRec
<1>9. QED BY <1>3, <1>7, <1>8

-----------------------------------------------------------------------------
(* Sums over finite sets.  A family of subsets of a finite set has one     *)
(* that contains no other: induction, for whatever fails of such subsets.  *)
LEMMA SmallestSet ==
  ASSUME NEW S, IsFiniteSet(S), NEW F \in SUBSET SUBSET S, F # {}
  PROVE  \E T \in F : \A R \in F : ~(R \subseteq T /\ R # T)
<1> DEFINE Less == StrictSubsetOrdering(S)
<1>1. IsWellFoundedOn(Less, SUBSET S)
  BY FS_StrictSubsetOrderingWellFounded, FS_FiniteSubsetsOfFinite
<1>2. PICK T \in F : \A R \in F : <<R, T>> \notin Less
  <2> HIDE DEF Less
  <2>1. QED BY <1>1, WFMin
<1>3. ASSUME NEW R \in F, R \subseteq T, R # T PROVE FALSE
  <2>1. <<R, T>> \in Less
    BY <1>3 DEF StrictSubsetOrdering
  <2>2. QED BY <2>1, <1>2
<1>4. QED BY <1>3

(* The same of the numbers up to a bound.                                  *)
LEMMA SmallestNumber ==
  ASSUME NEW N \in Nat, NEW B \in SUBSET (0 .. N), B # {}
  PROVE  \E n \in B : \A k \in B : n <= k
<1> DEFINE S == 0 .. N
           F == {0 .. n : n \in B}
<1>1. IsFiniteSet(S)
  BY FS_Interval
<1>2. F \in SUBSET SUBSET S /\ F # {}
  <2>1. \A n \in B : 0 .. n \subseteq 0 .. N
    OBVIOUS
  <2>2. QED BY <2>1
<1>3. PICK T \in F : \A R \in F : ~(R \subseteq T /\ R # T)
  <2> HIDE DEF F, S
  <2>1. QED BY <1>1, <1>2, SmallestSet
<1>4. PICK n \in B : T = 0 .. n
  BY <1>3
<1>5. ASSUME NEW k \in B, k < n PROVE FALSE
  <2>1. 0 .. k \subseteq 0 .. n /\ n \in 0 .. n /\ n \notin 0 .. k
    BY <1>5
  <2>2. 0 .. k \in F
    OBVIOUS
  <2>3. QED BY <2>1, <2>2, <1>3, <1>4
<1>6. \A k \in B : n <= k
  BY <1>5
<1>7. QED BY <1>4, <1>6

Any(T)    == CHOOSE u \in T : TRUE

LEMMA AnyIsIn ==
  ASSUME NEW T, T # {}
  PROVE  Any(T) \in T
BY DEF Any

(* g is the function by which Sum(c, S) is computed.                       *)
SumOn(c, D, g) ==
  g \in [D -> Nat] /\ \A T \in D : g[T] = IF T = {} THEN 0 ELSE g[T \ {Any(T)}] + c[Any(T)].bytes

LEMMA SumExists ==
  ASSUME NEW c, NEW S, IsFiniteSet(S), \A u \in S : c[u].bytes \in Nat
  PROVE  \E g : SumOn(c, SUBSET S, g)
<1> DEFINE N    == Cardinality(S)
           D(n) == {T \in SUBSET S : Cardinality(T) <= n}
           H(n) == \E g : SumOn(c, D(n), g)
<1>1. N \in Nat /\ D(N) = SUBSET S /\ \A T \in SUBSET S : IsFiniteSet(T) /\ Cardinality(T) \in Nat
  BY FS_CardinalityType, FS_Subset
<1>2. H(0)
  <2>1. \A T \in D(0) : T = {}
    BY <1>1, FS_EmptySet
  <2>2. SumOn(c, D(0), [T \in D(0) |-> 0])
    BY <2>1 DEF SumOn
  <2>3. QED BY <2>2
<1>3. ASSUME NEW n \in Nat, H(n) PROVE H(n + 1)
  <2>1. PICK g : SumOn(c, D(n), g)
    BY <1>3
  <2> DEFINE h == [T \in D(n + 1) |-> IF T = {} THEN 0 ELSE g[T \ {Any(T)}] + c[Any(T)].bytes]
  <2>2. ASSUME NEW T \in D(n + 1), T # {}
        PROVE  T \ {Any(T)} \in D(n) /\ T \ {Any(T)} \in D(n + 1) /\ Any(T) \in S
    <3>1. Any(T) \in T /\ Any(T) \in S
      BY <2>2, AnyIsIn
    <3>2. Cardinality(T \ {Any(T)}) = Cardinality(T) - 1
      BY <1>1, <3>1, FS_RemoveElement
    <3>3. QED BY <1>1, <3>1, <3>2
  <2>3. \A T \in D(n) : T \in D(n + 1) /\ h[T] = g[T]
    BY <1>1, <2>1 DEF SumOn
  <2>4. h \in [D(n + 1) -> Nat]
    BY <2>1, <2>2 DEF SumOn
  <2>5. \A T \in D(n + 1) : h[T] = IF T = {} THEN 0 ELSE h[T \ {Any(T)}] + c[Any(T)].bytes
    <3> HIDE DEF D
    <3>1. QED BY <2>2, <2>3
  <2>6. SumOn(c, D(n + 1), h)
    <3> HIDE DEF D, h
    <3>1. QED BY <2>4, <2>5 DEF SumOn
  <2>7. QED BY <2>6
<1>4. H(N)
  <2> HIDE DEF D, H
  <2> DEFINE B == {n \in 0 .. N : ~H(n)}
  <2>1. SUFFICES ASSUME B # {} PROVE FALSE
    BY <1>1
  <2>2. PICK n \in B : \A k \in B : n <= k
    <3>1. B \in SUBSET (0 .. N)
      OBVIOUS
    <3> HIDE DEF B
    <3>2. QED BY <1>1, <2>1, <3>1, SmallestNumber
  <2>3. n # 0 /\ n \in Nat
    BY <1>2
  <2>4. n - 1 \in 0 .. N /\ n - 1 \in Nat /\ n - 1 \notin B
    BY <1>1, <2>2, <2>3
  <2>5. H(n - 1)
    BY <2>4
  <2>6. H((n - 1) + 1)
    BY <1>3, <2>4, <2>5
  <2>7. QED BY <2>3, <2>6
<1>5. QED
  <2>1. PICK g : SumOn(c, D(N), g)
    BY <1>4
  <2>2. QED BY <1>1, <2>1

(* g is the function by which Sum(c, S) is computed.                       *)
LEMMA SumIs ==
  ASSUME NEW c, NEW S, IsFiniteSet(S), \A u \in S : c[u].bytes \in Nat
  PROVE  \E g : SumOn(c, SUBSET S, g) /\ Sum(c, S) = g[S]
<1> DEFINE Body(g) == [T \in SUBSET S |-> IF T = {} THEN 0 ELSE g[T \ {Any(T)}] + c[Any(T)].bytes]
           g == CHOOSE g : g = Body(g)
<1>1. Sum(c, S) = g[S]
  BY DEF Sum, FoldSet, MapThenFoldSet, Any
<1>2. PICK h : SumOn(c, SUBSET S, h)
  BY SumExists
<1>3. h = Body(h)
  BY <1>2 DEF SumOn
<1>4. g = Body(g)
  BY <1>3
<1> HIDE DEF g
<1> DEFINE F == {T \in SUBSET S : g[T] # h[T]}
<1>5. F = {}
  <2>1. SUFFICES ASSUME F # {} PROVE FALSE
    OBVIOUS
  <2>2. PICK T \in F : \A R \in F : ~(R \subseteq T /\ R # T)
    <3>1. F \in SUBSET SUBSET S
      OBVIOUS
    <3> HIDE DEF F
    <3>2. QED BY <2>1, <3>1, SmallestSet
  <2>3. g[T] = IF T = {} THEN 0 ELSE g[T \ {Any(T)}] + c[Any(T)].bytes
    BY <1>4
  <2>4. h[T] = IF T = {} THEN 0 ELSE h[T \ {Any(T)}] + c[Any(T)].bytes
    BY <1>2 DEF SumOn
  <2>5. T # {}
    BY <2>3, <2>4
  <2>6. Any(T) \in T
    BY <2>5, AnyIsIn
  <2>7. T \ {Any(T)} \notin F
    BY <2>2, <2>6
  <2>8. g[T \ {Any(T)}] = h[T \ {Any(T)}]
    BY <2>7
  <2>9. QED BY <2>3, <2>4, <2>5, <2>8
<1>6. g = h
  BY <1>2, <1>3, <1>4, <1>5
<1>7. QED BY <1>1, <1>2, <1>6

(* d has k bytes more than c for each member of P.                         *)
MoreIn(P, k, S, c, d) ==
  \A u \in S : c[u].bytes \in Nat /\ d[u].bytes = c[u].bytes + (IF u \in P THEN k ELSE 0)

(* Adding k to the bytes of the members of P adds k for each of them.      *)
LEMMA SumChanged ==
  ASSUME NEW c, NEW d, NEW S, IsFiniteSet(S), NEW P, NEW k \in Nat,
         MoreIn(P, k, S, c, d)
  PROVE  Sum(d, S) = Sum(c, S) + k * Cardinality(S \cap P)
<1>0. \A u \in S : c[u].bytes \in Nat /\ d[u].bytes = c[u].bytes + (IF u \in P THEN k ELSE 0)
  BY DEF MoreIn
<1>1. PICK g : SumOn(c, SUBSET S, g) /\ Sum(c, S) = g[S]
  BY <1>0, SumIs
<1>2. PICK h : SumOn(d, SUBSET S, h) /\ Sum(d, S) = h[S]
  <2>1. \A u \in S : d[u].bytes \in Nat
    BY <1>0
  <2>2. QED BY <2>1, SumIs
<1> DEFINE n(T) == Cardinality(T \cap P)
           F == {T \in SUBSET S : h[T] # g[T] + k * n(T)}
<1>3. F = {}
  <2>1. SUFFICES ASSUME F # {} PROVE FALSE
    OBVIOUS
  <2>2. PICK T \in F : \A R \in F : ~(R \subseteq T /\ R # T)
    <3>1. F \in SUBSET SUBSET S
      OBVIOUS
    <3> HIDE DEF F
    <3>2. QED BY <2>1, <3>1, SmallestSet
  <2>3. T \in SUBSET S /\ h[T] # g[T] + k * n(T)
    OBVIOUS
  <2>4. CASE T = {}
    <3>1. g[T] = 0 /\ h[T] = 0
      BY <1>1, <1>2, <2>4 DEF SumOn
    <3>2. n(T) = 0
      <4>1. T \cap P = {}
        BY <2>4
      <4>2. QED BY <4>1, FS_EmptySet
    <3>3. QED BY <2>3, <3>1, <3>2
  <2>5. CASE T # {}
    <3> DEFINE x == Any(T)
               R == T \ {x}
    <3>1. x \in T /\ x \in S /\ R \in SUBSET S
      BY <2>3, <2>5, AnyIsIn
    <3>2. h[R] = g[R] + k * n(R)
      <4>1. R \notin F
        <5> HIDE DEF F
        <5>1. QED BY <2>2, <3>1
      <4>2. QED BY <3>1, <4>1
    <3>3. g[T] = g[R] + c[x].bytes /\ h[T] = h[R] + d[x].bytes /\ g[R] \in Nat /\ g[T] \in Nat
      BY <1>1, <1>2, <2>3, <2>5, <3>1 DEF SumOn
    <3>4. n(R) \in Nat /\ n(T) = n(R) + (IF x \in P THEN 1 ELSE 0)
      <4>1. IsFiniteSet(T \cap P) /\ IsFiniteSet(R \cap P)
        BY <2>3, FS_Subset
      <4>2. CASE x \in P
        <5>1. R \cap P = (T \cap P) \ {x} /\ x \in T \cap P
          BY <3>1, <4>2
        <5>2. n(R) = n(T) - 1 /\ n(R) \in Nat /\ n(T) \in Nat
          <6> DEFINE A == T \cap P
          <6>1. IsFiniteSet(A) /\ x \in A
            BY <4>1, <5>1
          <6>2. Cardinality(A \ {x}) = Cardinality(A) - 1
            <7> HIDE DEF A, x
            <7>1. QED BY <6>1, FS_RemoveElement
          <6>3. n(R) = Cardinality(A \ {x}) /\ n(T) = Cardinality(A)
            BY <5>1
          <6>4. n(R) \in Nat /\ n(T) \in Nat
            BY <4>1, FS_CardinalityType
          <6> HIDE DEF A, x, R, n
          <6>5. QED BY <6>2, <6>3, <6>4
        <5> HIDE DEF n
        <5>3. QED BY <4>2, <5>2
      <4>3. CASE x \notin P
        <5>1. R \cap P = T \cap P
          BY <4>3
        <5>2. n(R) = n(T) /\ n(R) \in Nat
          BY <4>1, <5>1, FS_CardinalityType
        <5> HIDE DEF n
        <5>3. QED BY <4>3, <5>2
      <4>4. QED BY <4>2, <4>3
    <3>5. c[x].bytes \in Nat /\ d[x].bytes = c[x].bytes + (IF x \in P THEN k ELSE 0)
      BY <1>0, <3>1
    <3> HIDE DEF x, R, n
    <3>6. h[T] = g[T] + k * n(T)
      <4>1. CASE x \in P
        <5>1. k * n(T) = k * n(R) + k /\ k * n(R) \in Nat
          BY <3>4, <4>1
        <5>2. QED BY <3>2, <3>3, <3>5, <4>1, <5>1
      <4>2. CASE x \notin P
        <5>1. n(T) = n(R) /\ k * n(R) \in Nat
          BY <3>4, <4>2
        <5>2. QED BY <3>2, <3>3, <3>5, <4>2, <5>1
      <4>3. QED BY <4>1, <4>2
    <3>7. QED BY <2>3, <3>6 DEF n
  <2>6. QED BY <2>4, <2>5
<1>4. h[S] = g[S] + k * n(S)
  BY <1>3
<1>5. QED BY <1>1, <1>2, <1>4

LEMMA SumOfNothing ==
  ASSUME NEW c, NEW S, IsFiniteSet(S), \A u \in S : c[u].bytes = 0
  PROVE  Sum(c, S) = 0
<1> DEFINE P == {}
<1>1. PICK g : SumOn(c, SUBSET S, g) /\ Sum(c, S) = g[S]
  <2>1. \A u \in S : c[u].bytes \in Nat
    OBVIOUS
  <2>2. QED BY <2>1, SumIs
<1> DEFINE F == {T \in SUBSET S : g[T] # 0}
<1>2. F = {}
  <2>1. SUFFICES ASSUME F # {} PROVE FALSE
    OBVIOUS
  <2>2. PICK T \in F : \A R \in F : ~(R \subseteq T /\ R # T)
    <3>1. F \in SUBSET SUBSET S
      OBVIOUS
    <3> HIDE DEF F
    <3>2. QED BY <2>1, <3>1, SmallestSet
  <2>3. g[T] = IF T = {} THEN 0 ELSE g[T \ {Any(T)}] + c[Any(T)].bytes
    BY <1>1 DEF SumOn
  <2>4. T # {} /\ Any(T) \in T
    BY <2>3, AnyIsIn
  <2>5. g[T \ {Any(T)}] = 0
    BY <2>2, <2>4
  <2>6. QED BY <2>3, <2>4, <2>5
<1>3. QED BY <1>1, <1>2

-----------------------------------------------------------------------------
(* The units of a month, and those of them from one time to another.       *)
LEMMA MonthOfUnit ==
  ASSUME NEW u \in Nat, NEW m \in Nat
  PROVE  MonthOf(u) = m <=> m * MonthLength <= u /\ u < EndOf(m)
<1> DEFINE L == MonthLength
           q == u \div L
<1>1. L \in Nat /\ L > 0
  BY MeterAssumption
<1>2. q \in Nat /\ q * L <= u /\ u < q * L + L
  BY <1>1
<1>3. EndOf(m) = m * L + L /\ m * L \in Nat /\ q * L \in Nat
  BY <1>1, <1>2 DEF EndOf
<1>4. ASSUME NEW a \in Nat, NEW b \in Nat, a < b PROVE a * L + L <= b * L
  <2>1. PICK e \in Nat : b = a + 1 + e
    <3>1. b - a - 1 \in Nat /\ b = a + 1 + (b - a - 1)
      BY <1>4
    <3>2. QED BY <3>1
  <2>2. b * L = a * L + L + e * L /\ e * L \in Nat /\ a * L \in Nat
    BY <1>1, <2>1
  <2>3. QED BY <1>1, <2>2
<1>5. MonthOf(u) = q
  BY DEF MonthOf
<1> HIDE DEF L, q
<1>6. CASE q = m
  BY <1>2, <1>3, <1>5, <1>6 DEF L
<1>7. CASE q < m
  <2>1. q * L + L <= m * L
    BY <1>2, <1>4, <1>7
  <2>2. ~(m * L <= u)
    BY <1>1, <1>2, <1>3, <2>1
  <2>3. QED BY <1>2, <1>5, <1>7, <2>2 DEF L
<1>8. CASE m < q
  <2>1. m * L + L <= q * L
    BY <1>2, <1>4, <1>8
  <2>2. ~(u < EndOf(m))
    BY <1>1, <1>2, <1>3, <2>1
  <2>3. QED BY <1>2, <1>5, <1>8, <2>2
<1>9. QED BY <1>2, <1>6, <1>7, <1>8

LEMMA ElapsedIsUnits ==
  ASSUME NEW m \in Months, NEW from \in Nat, NEW to \in Nat, to <= MaxClock
  PROVE  /\ IsFiniteSet(UnitsOf(m))
         /\ Cardinality(UnitsOf(m) \cap {u \in Units : from <= u /\ u < to}) = Elapsed(m, from, to)
<1> DEFINE start == m * MonthLength
           end   == EndOf(m)
           a     == LaterOf(from, start)
           b     == EarlierOf(to, end)
           P     == {u \in Units : from <= u /\ u < to}
<1>1. m \in Nat /\ start \in Nat /\ end \in Nat
  BY MonthFacts DEF Months
<1>2. MaxClock \in Nat
  BY MeterAssumption
<1>3. \A u \in Units : u \in UnitsOf(m) <=> start <= u /\ u < end
  BY <1>1, <1>2, MonthOfUnit DEF UnitsOf, Units
<1>4. Elapsed(m, from, to) = LaterOf(0, b - a)
  BY DEF Elapsed
<1> HIDE DEF start, end
<1>5. a \in Nat /\ b \in Nat
  BY <1>1 DEF LaterOf, EarlierOf
<1>6. \A u \in Nat : a <= u /\ u < b <=> from <= u /\ start <= u /\ u < to /\ u < end
  BY <1>1 DEF LaterOf, EarlierOf
<1>7. UnitsOf(m) \cap P = a .. b - 1
  <2>1. ASSUME NEW u \in UnitsOf(m) \cap P PROVE u \in a .. b - 1
    <3>1. u \in Units /\ u \in Nat /\ a <= u /\ u < b
      BY <1>2, <1>3, <1>6 DEF UnitsOf, Units
    <3> HIDE DEF a, b
    <3>2. QED BY <1>5, <3>1
  <2>2. ASSUME NEW u \in a .. b - 1 PROVE u \in UnitsOf(m) \cap P
    <3>1. u \in Nat /\ a <= u /\ u < b
      <4> HIDE DEF a, b
      <4>1. QED BY <1>5
    <3>2. from <= u /\ start <= u /\ u < to /\ u < end
      BY <1>6, <3>1
    <3>3. u \in Units
      BY <1>2, <3>1, <3>2 DEF Units
    <3>4. QED BY <1>3, <3>2, <3>3
  <2>3. QED BY <2>1, <2>2
<1>8. Cardinality(a .. b - 1) = LaterOf(0, b - a)
  <2> HIDE DEF a, b
  <2>1. b - 1 \in Int /\ a \in Int
    BY <1>5
  <2>2. Cardinality(a .. b - 1) = IF a > b - 1 THEN 0 ELSE b - 1 - a + 1
    BY <2>1, FS_Interval
  <2>3. QED BY <1>5, <2>2 DEF LaterOf
<1>9. IsFiniteSet(UnitsOf(m))
  <2>1. IsFiniteSet(Units)
    BY <1>2, FS_Interval DEF Units
  <2>2. QED BY <2>1, FS_Subset DEF UnitsOf
<1>10. QED BY <1>4, <1>7, <1>8, <1>9

-----------------------------------------------------------------------------
LEMMA MeterTypeInit ==
  ASSUME MeterInit
  PROVE  TypeInv
<1>1. /\ NoUsage \in UsageRec /\ NoBilling \in BillingRec /\ NoMonth \in MonthRec
      /\ NoEntry \in EntryRec /\ NoWork \in WorkRec
  BY DEF UsageRec, BillingRec, MonthRec, EntryRec, WorkRec, NoUsage, NoBilling, NoMonth, NoEntry,
         NoWork
<1>2. stored \in Nat
  BY MeterAssumption DEF MeterInit
<1>3. [there |-> TRUE, bytes |-> stored, at |-> 0] \in UsageRec
  BY <1>2 DEF UsageRec
<1>4. usage \in UsageRec
  BY <1>1, <1>3 DEF MeterInit
<1>5. QED BY <1>1, <1>2, <1>4 DEF MeterInit, TypeInv

LEMMA SeedType ==
  ASSUME TypeInv, NEW w \in Meters
  PROVE  Seed(w) \in BillingRec
<1>1. work[w] \in WorkRec
  BY DEF TypeInv
<1>2. QED BY <1>1 DEF Seed, WorkRec, UsageRec, BillingRec

LEMMA FlushEndedType ==
  ASSUME TypeInv, NEW w \in Meters
  PROVE  FlushEnded(w) \in [MeterGateways -> EntryRec]
<1>1. w[2] \in MeterGateways
  BY MeterAssumption
<1>2. queue[w[2]] \in EntryRec
  BY <1>1 DEF TypeInv
<1>3. QED BY <1>1, <1>2 DEF FlushEnded, TypeInv, EntryRec

(* What the steps do to a meter's work, in one place.                      *)
LEMMA StartsType ==
  ASSUME TypeInv, NEW w \in Meters, NEW measures \in BOOLEAN, Starts(w, measures)
  PROVE  work' \in [Meters -> WorkRec]
<1>1. [NoWork EXCEPT !.at = "begun", !.measures = measures, !.now = clock] \in WorkRec
  BY DEF NoWork, WorkRec, NoUsage, NoBilling, UsageRec, BillingRec, TypeInv
<1>2. QED BY <1>1 DEF Starts, TypeInv

LEMMA MeterTypeStep ==
  ASSUME TypeInv, [MeterNext]_mvars
  PROVE  TypeInv'
<1>0. NoWork \in WorkRec /\ NoEntry \in EntryRec
  BY MeterAssumption DEF NoWork, WorkRec, NoUsage, NoBilling, UsageRec, BillingRec, NoEntry, EntryRec
<1>1. ASSUME NEW g \in MeterGateways, NEW s \in Sizes, Change(g, s) PROVE TypeInv'
  BY <1>1, MeterAssumption DEF Change, TypeInv
<1>2. ASSUME NEW g \in MeterGateways, Announce(g) PROVE TypeInv'
  <2>1. queue' \in [MeterGateways -> EntryRec]
    BY <1>2, ZenonT(60) DEF Announce, TypeInv, EntryRec
  <2>2. QED BY <1>2, <2>1 DEF Announce, TypeInv
<1>3. ASSUME NEW g \in MeterGateways, MeterCrash(g) PROVE TypeInv'
  BY <1>0, <1>3 DEF MeterCrash, TypeInv
<1>4. ASSUME NEW w \in Meters, Flush(w) PROVE TypeInv'
  <2>1. work' \in [Meters -> WorkRec]
    BY <1>4, StartsType DEF Flush
  <2>2. [timer |-> FALSE, running |-> TRUE, pending |-> FALSE] \in EntryRec
    BY DEF EntryRec
  <2>3. queue' \in [MeterGateways -> EntryRec]
    BY <1>4, <2>2 DEF Flush, TypeInv
  <2>4. QED BY <1>4, <2>1, <2>3 DEF Flush, TypeInv
<1>5. ASSUME NEW w \in Meters, Sweep(w) PROVE TypeInv'
  <2>1. work' \in [Meters -> WorkRec]
    BY <1>5, StartsType DEF Sweep
  <2>2. QED BY <1>5, <2>1 DEF Sweep, TypeInv
<1>6. ASSUME NEW w \in Meters, AskUsage(w) PROVE TypeInv'
  <2>1. (~usage.there) \in BOOLEAN
    OBVIOUS
  <2>2. work' \in [Meters -> WorkRec]
    BY <1>6, <2>1, StartsType DEF AskUsage
  <2>3. QED BY <1>6, <2>2 DEF AskUsage, TypeInv
<1>7. ASSUME NEW w \in Meters, ReadUsage(w) PROVE TypeInv'
  <2>1. work[w] \in WorkRec /\ usage \in UsageRec /\ stored \in Nat
    BY DEF TypeInv
  <2>2. (IF usage.there \/ work[w].measures THEN usage
         ELSE [there |-> TRUE, bytes |-> stored, at |-> work[w].now]) \in UsageRec
    BY <2>1 DEF WorkRec, UsageRec
  <2>3. work' \in [Meters -> WorkRec]
    BY <1>7, <2>1, <2>2 DEF ReadUsage, Goes, TypeInv, WorkRec
  <2>4. QED BY <1>7, <2>3 DEF ReadUsage, TypeInv
<1>8. ASSUME NEW w \in Meters, Measure(w) PROVE TypeInv'
  <2>1. work' \in [Meters -> WorkRec]
    BY <1>8, ZenonT(60) DEF Measure, Goes, TypeInv, WorkRec
  <2>2. QED BY <1>8, <2>1 DEF Measure, TypeInv
<1>9. ASSUME NEW w \in Meters, WriteUsage(w) PROVE TypeInv'
  <2>1. work' \in [Meters -> WorkRec]
    BY <1>9 DEF WriteUsage, Goes, TypeInv, WorkRec
  <2>2. QED BY <1>9, <2>1 DEF WriteUsage, TypeInv
<1>10. ASSUME NEW w \in Meters, HoldBilling(w) PROVE TypeInv'
  <2>1. work[w] \in WorkRec /\ billing \in BillingRec /\ Seed(w) \in BillingRec
    BY SeedType DEF TypeInv
  <2>2. [work[w] EXCEPT !.at = "held", !.seed.bytes = 0,
           !.state = IF billing.there THEN billing ELSE Seed(w)] \in WorkRec
    BY <2>1 DEF WorkRec, UsageRec
  <2>3. work' \in [Meters -> WorkRec]
    BY <1>10, <2>2 DEF HoldBilling, Goes, TypeInv
  <2>4. QED BY <1>10, <2>3 DEF HoldBilling, TypeInv
<1>11. ASSUME NEW w \in Meters, Commit(w) PROVE TypeInv'
  <2>1. work[w] \in WorkRec /\ BytesNow(w) \in Nat /\ BilledUpTo(w) \in Nat
    <3>1. 0 \in Months
      BY MeterAssumption DEF Months
    <3>2. QED BY <3>1, AccruedIsMonth DEF TypeInv
  <2>2. usage' \in UsageRec
    BY <1>11, <2>1 DEF Commit, TypeInv, UsageRec, WorkRec
  <2>3. billing' \in BillingRec
    BY <1>11, <2>1 DEF Commit, BillingRec
  <2>4. months' \in [Months -> MonthRec]
    BY <1>11, AccruedIsMonth DEF Commit
  <2>5. charged' \in [Units -> [times: Nat, bytes: Nat]]
    BY <1>11, <2>1 DEF Commit, TypeInv, WorkRec, BillingRec
  <2>6. queue' \in [MeterGateways -> EntryRec]
    BY <1>11, FlushEndedType DEF Commit
  <2>7. NextWork(w) \in WorkRec
    BY <1>0, <2>1 DEF NextWork, WorkRec
  <2>8. work' \in [Meters -> WorkRec]
    BY <1>11, <2>7 DEF Commit, TypeInv
  <2>9. missed' \in BOOLEAN
    BY <1>11, <2>1 DEF Commit, TypeInv, WorkRec, UsageRec
  <2>10. QED BY <1>11, <2>2, <2>3, <2>4, <2>5, <2>6, <2>8, <2>9 DEF Commit, TypeInv
<1>12. ASSUME NEW w \in Meters, RollBack(w) PROVE TypeInv'
  <2>1. queue' \in [MeterGateways -> EntryRec]
    BY <1>12, FlushEndedType DEF RollBack
  <2>2. work' \in [Meters -> WorkRec]
    BY <1>0, <1>12 DEF RollBack, TypeInv
  <2>3. missed' \in BOOLEAN
    BY <1>12 DEF RollBack, TypeInv, WorkRec
  <2>4. QED BY <1>12, <2>1, <2>2, <2>3 DEF RollBack, TypeInv
<1>13. CASE Tick
  BY <1>13 DEF Tick, TypeInv
<1>14. CASE UNCHANGED mvars
  BY <1>14 DEF mvars, TypeInv
<1>15. QED
  BY <1>1, <1>2, <1>3, <1>4, <1>5, <1>6, <1>7, <1>8, <1>9, <1>10, <1>11, <1>12, <1>13, <1>14
     DEF MeterNext, MeterStep

-----------------------------------------------------------------------------
(* The locks.                                                              *)
LEMMA LocksKept ==
  ASSUME LocksInv, NEW w \in Meters,
         \A v \in Meters \ {w} : (HoldsUsage(v)' => HoldsUsage(v))
                                  /\ (HoldsBilling(v)' => HoldsBilling(v)),
         HoldsUsage(w)' => HoldsUsage(w) \/ UsageFree(w),
         HoldsBilling(w)' => HoldsBilling(w) \/ BillingFree(w)
  PROVE  LocksInv'
BY DEF LocksInv, UsageFree, BillingFree

LEMMA OthersWork ==
  ASSUME TypeInv, NEW w \in Meters, NEW r, work' = [work EXCEPT ![w] = r]
  PROVE  /\ work'[w] = r
         /\ \A v \in Meters \ {w} : work'[v] = work[v]
         /\ \A v \in Meters \ {w} : (HoldsUsage(v)' <=> HoldsUsage(v))
                                    /\ (HoldsBilling(v)' <=> HoldsBilling(v))
BY DEF TypeInv, HoldsUsage, HoldsBilling, MeterAt

LEMMA LocksInit ==
  ASSUME MeterInit
  PROVE  LocksInv
BY DEF MeterInit, LocksInv, HoldsUsage, HoldsBilling, MeterAt, NoWork

LEMMA LocksStep ==
  ASSUME TypeInv, LocksInv, \A w \in Meters : WorkInv(w), [MeterNext]_mvars
  PROVE  LocksInv'
<1>1. ASSUME NEW w \in Meters, NEW r, Goes(w, r), ~(r.at \in {"read", "measured", "written", "held"})
      PROVE  LocksInv'
  <2>1. /\ work'[w] = r
        /\ \A v \in Meters \ {w} : (HoldsUsage(v)' => HoldsUsage(v))
                                   /\ (HoldsBilling(v)' => HoldsBilling(v))
    BY <1>1, OthersWork DEF Goes
  <2>2. ~HoldsUsage(w)' /\ ~HoldsBilling(w)'
    BY <1>1, <2>1 DEF HoldsUsage, HoldsBilling, MeterAt
  <2>3. QED BY <2>1, <2>2, LocksKept
<1>2. ASSUME NEW w \in Meters, NEW measures, Starts(w, measures) PROVE LocksInv'
  <2> DEFINE r == [NoWork EXCEPT !.at = "begun", !.measures = measures, !.now = clock]
  <2>1. r.at = "begun"
    BY DEF NoWork
  <2>2. Goes(w, r)
    BY <1>2 DEF Starts, Goes
  <2> HIDE DEF r
  <2>3. QED BY <1>1, <2>1, <2>2
<1>3. ASSUME NEW w \in Meters, Flush(w) \/ Sweep(w) \/ AskUsage(w) PROVE LocksInv'
  BY <1>2, <1>3 DEF Flush, Sweep, AskUsage
<1>4. ASSUME NEW w \in Meters, Commit(w) PROVE LocksInv'
  <2>1. Goes(w, NextWork(w))
    BY <1>4 DEF Commit, Goes
  <2>2. NextWork(w).at \in {"begun", "idle"}
    BY DEF NextWork, NoWork
  <2>3. QED BY <1>1, <2>1, <2>2
<1>5. ASSUME NEW w \in Meters, RollBack(w) PROVE LocksInv'
  <2>1. Goes(w, NoWork) /\ NoWork.at = "idle"
    BY <1>5 DEF RollBack, Goes, NoWork
  <2>2. QED BY <1>1, <2>1
<1>6. ASSUME NEW w \in Meters, ReadUsage(w) PROVE LocksInv'
  <2>1. work[w] \in WorkRec /\ w \in DOMAIN work
    BY DEF TypeInv
  <2>2. /\ work'[w].at = "read" /\ work'[w].measures = work[w].measures
        /\ work'[w].measures => work'[w].seed = usage
        /\ work[w].measures /\ usage.there => UsageFree(w)
        /\ \A v \in Meters \ {w} : (HoldsUsage(v)' => HoldsUsage(v))
                                   /\ (HoldsBilling(v)' => HoldsBilling(v))
    BY <1>6, <2>1, OthersWork DEF ReadUsage, Goes, WorkRec
  <2>3. HoldsUsage(w)' => UsageFree(w)
    BY <2>2 DEF HoldsUsage, MeterAt
  <2>4. ~HoldsBilling(w)'
    BY <2>2 DEF HoldsBilling, MeterAt
  <2>5. QED BY <2>2, <2>3, <2>4, LocksKept
<1>7. ASSUME NEW w \in Meters, Measure(w) PROVE LocksInv'
  <2>1. work[w] \in WorkRec /\ w \in DOMAIN work
    BY DEF TypeInv
  <2>2. /\ work[w].at = "read" /\ work'[w].at = "measured"
        /\ work'[w].measures = work[w].measures /\ work'[w].seed = work[w].seed
        /\ \A v \in Meters \ {w} : (HoldsUsage(v)' => HoldsUsage(v))
                                   /\ (HoldsBilling(v)' => HoldsBilling(v))
    BY <1>7, <2>1, OthersWork DEF Measure, MeterAt, Goes, WorkRec
  <2>3. (HoldsUsage(w)' => HoldsUsage(w)) /\ ~HoldsBilling(w)'
    BY <2>2 DEF HoldsUsage, HoldsBilling, MeterAt
  <2>4. QED BY <2>2, <2>3, LocksKept
<1>8. ASSUME NEW w \in Meters, WriteUsage(w) PROVE LocksInv'
  <2>1. work[w] \in WorkRec /\ w \in DOMAIN work
    BY DEF TypeInv
  <2>2. /\ UsageFree(w) /\ work'[w].at = "written"
        /\ \A v \in Meters \ {w} : (HoldsUsage(v)' => HoldsUsage(v))
                                   /\ (HoldsBilling(v)' => HoldsBilling(v))
    BY <1>8, <2>1, OthersWork DEF WriteUsage, MeterAt, Goes, WorkRec
  <2>3. ~HoldsBilling(w)'
    BY <2>2 DEF HoldsBilling, MeterAt
  <2>4. QED BY <2>2, <2>3, LocksKept
<1>9. ASSUME NEW w \in Meters, HoldBilling(w) PROVE LocksInv'
  <2>1. work[w] \in WorkRec /\ w \in DOMAIN work
    BY DEF TypeInv
  <2>2. /\ BillingFree(w) /\ ReadyToBill(w) /\ work'[w].at = "held"
        /\ work'[w].measures = work[w].measures
        /\ \A v \in Meters \ {w} : (HoldsUsage(v)' => HoldsUsage(v))
                                   /\ (HoldsBilling(v)' => HoldsBilling(v))
    BY <1>9, <2>1, OthersWork DEF HoldBilling, MeterAt, Goes, WorkRec
  <2>3. HoldsUsage(w)' => HoldsUsage(w)
    BY <2>2 DEF HoldsUsage, MeterAt, ReadyToBill
  <2>4. QED BY <2>2, <2>3, LocksKept
<1>10. ASSUME NEW g \in MeterGateways, MeterCrash(g) PROVE LocksInv'
  <2>1. \A w \in Meters : work'[w] = work[w] \/ work'[w] = NoWork
    BY <1>10 DEF MeterCrash
  <2>2. NoWork.at = "idle" /\ NoWork.measures = FALSE
    BY DEF NoWork
  <2>3. \A w \in Meters : (HoldsUsage(w)' => HoldsUsage(w))
                          /\ (HoldsBilling(w)' => HoldsBilling(w))
    BY <2>1, <2>2 DEF HoldsUsage, HoldsBilling, MeterAt
  <2>4. QED BY <2>3 DEF LocksInv, UsageFree, BillingFree
<1>11. ASSUME UNCHANGED work PROVE LocksInv'
  BY <1>11 DEF LocksInv, UsageFree, BillingFree, HoldsUsage, HoldsBilling, MeterAt
<1>12. ASSUME NEW g \in MeterGateways, Announce(g) \/ \E s \in Sizes : Change(g, s)
       PROVE  UNCHANGED work
  BY <1>12 DEF Announce, Change
<1>13. CASE Tick \/ UNCHANGED mvars
  BY <1>11, <1>13 DEF Tick, mvars
<1>14. QED
  BY <1>3, <1>4, <1>5, <1>6, <1>7, <1>8, <1>9, <1>10, <1>11, <1>12, <1>13
     DEF MeterNext, MeterStep

-----------------------------------------------------------------------------
(* The rows of the database, as the transactions find them.                *)
LEMMA RowsInit ==
  ASSUME MeterInit
  PROVE  BillingInv /\ \A w \in Meters : WorkInv(w)
BY DEF MeterInit, BillingInv, WorkInv, MeterAt, NoWork, NoBilling

LEMMA BillingStep ==
  ASSUME TypeInv, BillingInv, \A w \in Meters : WorkInv(w), [MeterNext]_mvars
  PROVE  BillingInv'
<1>1. ASSUME NEW w \in Meters, Commit(w) PROVE BillingInv'
  <2>1. work[w] \in WorkRec /\ WorkInv(w) /\ usage \in UsageRec
    BY DEF TypeInv
  <2>2. billing'.there /\ billing'.bytes = BytesNow(w)
    BY <1>1 DEF Commit
  <2>3. CASE work[w].measures
    BY <1>1, <2>1, <2>2, <2>3 DEF Commit, BytesNow, BillingInv, UsageRec
  <2>4. CASE ~work[w].measures
    BY <1>1, <2>1, <2>2, <2>4 DEF Commit, BytesNow, BillingInv, WorkInv, MeterAt
  <2>5. QED BY <2>3, <2>4
<1>2. ASSUME UNCHANGED <<usage, billing>> PROVE BillingInv'
  BY <1>2 DEF BillingInv
<1>3. QED
  BY <1>1, <1>2 DEF MeterNext, MeterStep, mvars, Announce, MeterCrash, Change, Flush, Sweep, AskUsage,
     ReadUsage, Measure, WriteUsage, HoldBilling, RollBack, Tick

LEMMA WorkKept ==
  ASSUME \A v \in Meters : WorkInv(v), UNCHANGED <<usage, billing>>,
         NEW w \in Meters, work'[w] = work[w]
  PROVE  WorkInv(w)'
BY DEF WorkInv, MeterAt

LEMMA WorkStep ==
  ASSUME TypeInv, LocksInv, BillingInv, \A w \in Meters : WorkInv(w), [MeterNext]_mvars
  PROVE  \A w \in Meters : WorkInv(w)'
<1>1. ASSUME NEW w \in Meters, NEW r, Goes(w, r), UNCHANGED <<usage, billing>>, WorkInv(w)'
      PROVE  \A v \in Meters : WorkInv(v)'
  BY <1>1, OthersWork, WorkKept DEF Goes
<1>2. ASSUME NEW w \in Meters, Starts(w, ~usage.there) \/ (Starts(w, FALSE) /\ usage.there)
                               \/ Starts(w, TRUE),
             UNCHANGED <<usage, billing>>
      PROVE  \A v \in Meters : WorkInv(v)'
  <2>1. PICK measures \in BOOLEAN : Starts(w, measures) /\ (measures \/ usage.there)
    BY <1>2
  <2> DEFINE r == [NoWork EXCEPT !.at = "begun", !.measures = measures, !.now = clock]
  <2>2. r.at = "begun" /\ r.measures = measures
    BY DEF NoWork
  <2>3. Goes(w, r)
    BY <2>1 DEF Starts, Goes
  <2> HIDE DEF r
  <2>4. work'[w] = r
    BY <2>3, OthersWork DEF Goes
  <2>5. WorkInv(w)'
    BY <1>2, <2>1, <2>2, <2>4 DEF WorkInv, MeterAt
  <2>6. QED BY <1>1, <1>2, <2>3, <2>5
<1>3. ASSUME NEW w \in Meters, Flush(w) \/ AskUsage(w) PROVE \A v \in Meters : WorkInv(v)'
  BY <1>2, <1>3 DEF Flush, AskUsage
<1>4. ASSUME NEW w \in Meters, Sweep(w) PROVE \A v \in Meters : WorkInv(v)'
  BY <1>2, <1>4 DEF Sweep, BillingInv
<1>5. ASSUME NEW w \in Meters, ReadUsage(w) PROVE \A v \in Meters : WorkInv(v)'
  <2>1. work[w] \in WorkRec /\ w \in DOMAIN work /\ WorkInv(w) /\ usage \in UsageRec
    BY DEF TypeInv
  <2>2. /\ work[w].at = "begun" /\ work'[w].at = "read"
        /\ work'[w].measures = work[w].measures
        /\ usage.there \/ work[w].measures => work'[w].seed = usage
    BY <1>5, <2>1, OthersWork DEF ReadUsage, MeterAt, Goes, WorkRec
  <2>3. WorkInv(w)'
    BY <1>5, <2>1, <2>2 DEF ReadUsage, WorkInv, MeterAt, BillingInv
  <2>4. QED BY <1>1, <1>5, <2>3 DEF ReadUsage
<1>6. ASSUME NEW w \in Meters, Measure(w) \/ WriteUsage(w) PROVE \A v \in Meters : WorkInv(v)'
  <2>1. work[w] \in WorkRec /\ w \in DOMAIN work /\ WorkInv(w)
    BY DEF TypeInv
  <2>2. /\ work[w].at \in {"read", "measured"} /\ work[w].measures
        /\ work'[w].at \in {"measured", "written"}
        /\ work'[w].measures = work[w].measures /\ work'[w].seed = work[w].seed
        /\ UNCHANGED <<usage, billing>>
    <3>1. work[w].at = "measured" => work[w].measures
      BY <2>1 DEF WorkInv
    <3>2. CASE Measure(w)
      BY <2>1, <3>2, OthersWork DEF Measure, MeterAt, Goes, WorkRec
    <3>3. CASE WriteUsage(w)
      BY <2>1, <3>1, <3>3, OthersWork DEF WriteUsage, MeterAt, Goes, WorkRec
    <3>4. QED BY <1>6, <3>2, <3>3
  <2>3. WorkInv(w)'
    BY <2>1, <2>2 DEF WorkInv, MeterAt
  <2>4. QED BY <1>1, <1>6, <2>2, <2>3 DEF Measure, WriteUsage
<1>7. ASSUME NEW w \in Meters, HoldBilling(w) PROVE \A v \in Meters : WorkInv(v)'
  <2>1. work[w] \in WorkRec /\ w \in DOMAIN work /\ WorkInv(w)
    BY DEF TypeInv
  <2>2. /\ ReadyToBill(w) /\ work'[w].at = "held"
        /\ work'[w].measures = work[w].measures /\ work'[w].seed.there = work[w].seed.there
        /\ work'[w].state = IF billing.there THEN billing ELSE Seed(w)
        /\ UNCHANGED <<usage, billing>>
    BY <1>7, <2>1, OthersWork DEF HoldBilling, Goes, WorkRec, UsageRec
  <2>3. ~work[w].measures => work'[w].state.bytes = usage.bytes
    BY <2>1, <2>2 DEF ReadyToBill, WorkInv, MeterAt, Seed, BillingInv
  <2>4. WorkInv(w)'
    BY <2>1, <2>2, <2>3 DEF WorkInv, MeterAt, ReadyToBill
  <2>5. QED BY <1>1, <1>7, <2>4 DEF HoldBilling
<1>8. ASSUME NEW w \in Meters, Commit(w) PROVE \A v \in Meters : WorkInv(v)'
  <2>1. /\ work[w] \in WorkRec /\ WorkInv(w) /\ usage \in UsageRec /\ HoldsBilling(w)
        /\ MeterAt(w, "held")
    BY <1>8 DEF TypeInv, Commit, HoldsBilling
  <2>2. /\ work'[w] = NextWork(w)
        /\ \A v \in Meters \ {w} : work'[v] = work[v]
    BY <1>8, OthersWork DEF Commit
  <2>3. usage'.there /\ billing'.there
    BY <1>8, <2>1 DEF Commit, WorkInv, MeterAt, UsageRec
  <2>4. work'[w].at \in {"idle", "begun"}
    BY <2>2 DEF NextWork, NoWork
  <2>5. WorkInv(w)'
    BY <2>3, <2>4 DEF WorkInv, MeterAt
  <2>6. ASSUME NEW v \in Meters \ {w} PROVE WorkInv(v)'
    <3>1. ~MeterAt(v, "held")
      BY <2>1 DEF LocksInv, BillingFree, HoldsBilling
    <3>2. WorkInv(v)
      OBVIOUS
    <3>3. QED BY <2>2, <2>3, <3>1, <3>2 DEF WorkInv, MeterAt
  <2>7. QED BY <2>5, <2>6
<1>9. ASSUME NEW w \in Meters, RollBack(w) PROVE \A v \in Meters : WorkInv(v)'
  <2>1. Goes(w, NoWork) /\ UNCHANGED <<usage, billing>> /\ work'[w] = NoWork
    BY <1>9, OthersWork DEF RollBack, Goes
  <2>2. WorkInv(w)'
    BY <2>1 DEF WorkInv, MeterAt, NoWork
  <2>3. QED BY <1>1, <2>1, <2>2
<1>10. ASSUME NEW g \in MeterGateways, MeterCrash(g) PROVE \A v \in Meters : WorkInv(v)'
  <2>1. UNCHANGED <<usage, billing>>
        /\ \A v \in Meters : work'[v] = NoWork \/ work'[v] = work[v]
    BY <1>10 DEF MeterCrash
  <2>2. ASSUME NEW v \in Meters, work'[v] = NoWork PROVE WorkInv(v)'
    BY <2>2 DEF WorkInv, MeterAt, NoWork
  <2>3. QED BY <2>1, <2>2, WorkKept
<1>11. ASSUME UNCHANGED <<work, usage, billing>> PROVE \A v \in Meters : WorkInv(v)'
  BY <1>11, WorkKept
<1>12. ASSUME NEW g \in MeterGateways, Announce(g) \/ \E s \in Sizes : Change(g, s)
       PROVE  UNCHANGED <<work, usage, billing>>
  BY <1>12 DEF Announce, Change
<1>13. CASE Tick \/ UNCHANGED mvars
  BY <1>11, <1>13 DEF Tick, mvars
<1>14. QED
  BY <1>3, <1>4, <1>5, <1>6, <1>7, <1>8, <1>9, <1>10, <1>11, <1>12, <1>13
     DEF MeterNext, MeterStep

-----------------------------------------------------------------------------
(* What is billed, and the months.                                         *)
LEMMA ChargedInit ==
  ASSUME MeterInit
  PROVE  ChargedInv /\ MonthsInv
BY DEF MeterInit, ChargedInv, EverySecondOnce, MonthsInv, NoMonth

(* A billing bills from where the last one ended, or starts the account.   *)
LEMMA BilledFrom ==
  ASSUME TypeInv, BillingInv, NEW w \in Meters, WorkInv(w), Commit(w)
  PROVE  /\ work[w].state.accrued \in Nat /\ work[w].now \in Nat /\ work[w].state.bytes \in Nat
         /\ billing.there => work[w].state.accrued = billing.accrued
         /\ ~billing.there => billing.accrued = 0
         /\ billing'.there
         /\ billing'.accrued \in Nat /\ billing.accrued \in Nat
         /\ work[w].now <= billing'.accrued /\ work[w].state.accrued <= billing'.accrued
         /\ billing'.accrued = work[w].now \/ billing'.accrued = work[w].state.accrued
<1>1. work[w] \in WorkRec /\ billing \in BillingRec
  BY DEF TypeInv
<1>2. work[w].state.accrued \in Nat /\ work[w].now \in Nat /\ work[w].state.bytes \in Nat
  BY <1>1 DEF WorkRec, BillingRec
<1>3. billing'.there /\ billing'.accrued = LaterOf(work[w].state.accrued, work[w].now)
  BY DEF Commit, BilledUpTo
<1>4. QED BY <1>1, <1>2, <1>3 DEF LaterOf, Commit, WorkInv, BillingInv, BillingRec

LEMMA ChargedStep ==
  ASSUME TypeInv, BillingInv, ChargedInv, \A w \in Meters : WorkInv(w), [MeterNext]_mvars
  PROVE  ChargedInv'
<1>1. ASSUME NEW w \in Meters, Commit(w) PROVE ChargedInv'
  <2> DEFINE from == work[w].state.accrued
             to   == work[w].now
  <2>1. /\ from \in Nat /\ to \in Nat
        /\ billing.there => from = billing.accrued
        /\ ~billing.there => billing.accrued = 0
        /\ billing'.accrued \in Nat /\ billing.accrued \in Nat
        /\ to <= billing'.accrued /\ from <= billing'.accrued
        /\ billing'.accrued = to \/ billing'.accrued = from
    BY <1>1, BilledFrom
  <2>2. \A u \in Units : u \in Nat /\ charged[u] \in [times: Nat, bytes: Nat]
    BY MeterAssumption DEF TypeInv, Units
  <2>3. \A u \in Units : charged'[u].times = IF from <= u /\ u < to THEN charged[u].times + 1
                                             ELSE charged[u].times
    BY <1>1, <2>2 DEF Commit
  <2> HIDE DEF from, to
  <2>4. \A u \in Units : charged[u].times <= 1 /\ (charged[u].times = 1 => u < billing.accrued)
    BY DEF ChargedInv, EverySecondOnce
  <2>5. \A u \in Units : charged[u].times = 1 => billing.there /\ u < from
    BY <2>1, <2>2, <2>4
  <2>6. \A u \in Units : charged'[u].times = 1 <=> (charged[u].times = 1 \/ (from <= u /\ u < to))
    BY <2>1, <2>2, <2>3, <2>4, <2>5
  <2>7. \A u \in Units : charged'[u].times <= 1
    BY <2>1, <2>2, <2>3, <2>4, <2>5
  <2>8. \A u \in Units : charged'[u].times = 1 => u < billing'.accrued
    BY <2>1, <2>2, <2>5, <2>6
  <2>9. ASSUME NEW u \in Units, u + 1 \in Units, charged'[u].times = 1, u + 1 < billing'.accrued
        PROVE  charged'[u + 1].times = 1
    <3>1. CASE charged[u].times = 1 /\ u + 1 < from
      <4>1. u + 1 < billing.accrued
        BY <2>1, <2>5, <3>1
      <4>2. charged[u + 1].times = 1
        BY <2>9, <3>1, <4>1 DEF ChargedInv, EverySecondOnce
      <4>3. QED BY <2>6, <2>9, <4>2
    <3>2. CASE charged[u].times = 1 /\ ~(u + 1 < from)
      <4>1. u + 1 = from
        BY <2>1, <2>2, <2>5, <3>2
      <4>2. from < to
        BY <2>1, <2>9, <4>1
      <4>3. QED BY <2>1, <2>6, <2>9, <4>1, <4>2
    <3>3. CASE from <= u /\ u < to
      <4>1. from <= u + 1 /\ u + 1 < to
        BY <2>1, <2>2, <2>9, <3>3
      <4>2. QED BY <2>6, <2>9, <4>1
    <3>4. QED BY <2>6, <2>9, <3>1, <3>2, <3>3
  <2>10. QED BY <2>7, <2>8, <2>9 DEF ChargedInv, EverySecondOnce
<1>2. ASSUME UNCHANGED <<charged, billing>> PROVE ChargedInv'
  BY <1>2 DEF ChargedInv, EverySecondOnce
<1>3. QED
  BY <1>1, <1>2 DEF MeterNext, MeterStep, mvars, Announce, MeterCrash, Change, Flush, Sweep, AskUsage,
     ReadUsage, Measure, WriteUsage, HoldBilling, RollBack, Tick

(* What a billing does to a month.                                         *)
LEMMA MonthBilled ==
  ASSUME TypeInv, BillingInv, MonthsInv, NEW w \in Meters, WorkInv(w), Commit(w), NEW m \in Months
  PROVE  /\ months[m].closed => months'[m].closed /\ months'[m].seconds = months[m].seconds
         /\ months'[m].closed => EndOf(m) <= billing'.accrued
         /\ months'[m].seconds > 0 /\ EndOf(m) <= billing'.accrued => months'[m].closed
<1> DEFINE from == work[w].state.accrued
           to   == work[w].now
           e    == Elapsed(m, from, to)
           end  == EndOf(m)
           s    == work[w].state.bytes * e
<1>1. /\ from \in Nat /\ to \in Nat /\ work[w].state.bytes \in Nat
      /\ billing.there => from = billing.accrued
      /\ ~billing.there => billing.accrued = 0
      /\ billing'.accrued \in Nat /\ billing.accrued \in Nat
      /\ to <= billing'.accrued /\ from <= billing'.accrued
      /\ billing'.accrued = to \/ billing'.accrued = from
  BY BilledFrom
<1>2. /\ end \in Nat /\ 0 < end /\ e \in Nat
      /\ end <= from => e = 0
      /\ e > 0 => from < end
      /\ from < end /\ end <= to => e > 0
  <2>1. /\ m * MonthLength \in Nat /\ EndOf(m) \in Nat /\ m * MonthLength < EndOf(m)
        /\ Elapsed(m, from, to) \in Nat
        /\ EndOf(m) <= from => Elapsed(m, from, to) = 0
        /\ Elapsed(m, from, to) > 0 => from < EndOf(m)
        /\ from < EndOf(m) /\ EndOf(m) <= to => Elapsed(m, from, to) > 0
    <3> HIDE DEF from, to
    <3>1. QED BY <1>1, MonthFacts
  <2>2. 0 < EndOf(m)
    <3> DEFINE start == m * MonthLength
    <3>1. start \in Nat /\ EndOf(m) \in Nat /\ start < EndOf(m)
      BY <2>1
    <3> HIDE DEF start
    <3>2. QED BY <3>1
  <2>3. QED BY <2>1, <2>2
<1>3. s \in Nat /\ (e = 0 => s = 0)
  <2>1. e \in Nat /\ work[w].state.bytes \in Nat
    BY <1>1, <1>2
  <2>2. QED BY <2>1
<1>4. months[m] \in MonthRec
  BY DEF TypeInv
<1>5. months[m].seconds \in Nat /\ months[m].closed \in BOOLEAN
  BY <1>4 DEF MonthRec
<1>6. /\ months'[m].seconds = Accrued(w, m).seconds
      /\ months'[m].closed = Accrued(w, m).closed
  <2>1. months'[m] = Touched(w, m)
    BY DEF Commit
  <2>2. QED BY <2>1, AccruedIsMonth
<1>7. /\ Closes(m, from, to) <=> e > 0 /\ to >= end
      /\ Accrued(w, m) = IF s = 0 /\ ~Closes(m, from, to) THEN months[m]
                          ELSE [there |-> TRUE, seconds |-> months[m].seconds + s,
                                closing |-> work[w].state.bytes,
                                closed |-> months[m].closed \/ Closes(m, from, to)]
  BY DEF Accrued, Closes
<1>8. /\ months[m].closed => end <= billing.accrued
      /\ months[m].seconds > 0 => billing.there
      /\ months[m].seconds > 0 /\ end <= billing.accrued => months[m].closed
  BY DEF MonthsInv
<1> DEFINE closes == Closes(m, from, to)
<1>9. closes \in BOOLEAN
  BY DEF Closes
<1>10. /\ months'[m].seconds = months[m].seconds + s
       /\ months'[m].closed <=> (months[m].closed \/ closes)
  BY <1>3, <1>5, <1>6, <1>7, <1>9
<1> HIDE DEF from, to, e, end, s, closes
<1>11. months[m].closed => e = 0
  BY <1>1, <1>2, <1>8
<1>12. closes <=> (e > 0 /\ to >= end)
  BY <1>7 DEF closes, e, end
<1>13. ASSUME months[m].seconds + s > 0, end <= billing'.accrued PROVE months[m].closed \/ closes
  <2>1. CASE s > 0
    <3>1. e > 0
      BY <1>2, <1>3, <2>1
    <3>2. from < end
      BY <1>2, <3>1
    <3>3. to >= end
      BY <1>1, <1>2, <1>13, <3>2
    <3>4. QED BY <1>12, <3>1, <3>3
  <2>2. CASE s = 0
    <3>1. billing.there /\ from = billing.accrued
      BY <1>1, <1>5, <1>8, <1>13, <2>2
    <3>2. CASE end <= from
      BY <1>5, <1>8, <1>13, <2>2, <3>1, <3>2
    <3>3. CASE from < end
      <4>1. end <= to
        BY <1>1, <1>2, <1>13, <3>3
      <4>2. QED BY <1>1, <1>2, <1>12, <3>3, <4>1
    <3>4. QED BY <1>1, <1>2, <3>2, <3>3
  <2>3. QED BY <1>3, <2>1, <2>2
<1>14. (months[m].closed \/ closes) => end <= billing'.accrued
  BY <1>1, <1>2, <1>8, <1>12
<1>15. months[m].closed => months'[m].closed /\ months'[m].seconds = months[m].seconds
  BY <1>3, <1>5, <1>10, <1>11
<1>16. QED BY <1>10, <1>13, <1>14, <1>15 DEF end

LEMMA MonthGrows ==
  ASSUME TypeInv, NEW w \in Meters, Commit(w), NEW m \in Months
  PROVE  months'[m].seconds = months[m].seconds
           + work[w].state.bytes * Elapsed(m, work[w].state.accrued, work[w].now)
<1> DEFINE s == work[w].state.bytes * Elapsed(m, work[w].state.accrued, work[w].now)
<1>1. work[w] \in WorkRec /\ months[m] \in MonthRec
  BY DEF TypeInv
<1>2. s \in Nat
  <2>1. work[w].state.bytes \in Nat /\ work[w].state.accrued \in Nat /\ work[w].now \in Nat
    BY <1>1 DEF WorkRec, BillingRec
  <2>2. Elapsed(m, work[w].state.accrued, work[w].now) \in Nat
    BY <2>1, MonthFacts
  <2>3. QED BY <2>1, <2>2
<1>3. months'[m].seconds = Accrued(w, m).seconds
  <2>1. months'[m] = Touched(w, m)
    BY DEF Commit
  <2>2. QED BY <2>1, AccruedIsMonth
<1>4. Accrued(w, m).seconds = IF s = 0 /\ ~Closes(m, work[w].state.accrued, work[w].now)
                              THEN months[m].seconds ELSE months[m].seconds + s
  BY DEF Accrued
<1> HIDE DEF s
<1>5. months[m].seconds \in Nat
  BY <1>1 DEF MonthRec
<1>6. months'[m].seconds = months[m].seconds + s
  BY <1>2, <1>3, <1>4, <1>5
<1>7. QED BY <1>6 DEF s

LEMMA MonthsStep ==
  ASSUME TypeInv, BillingInv, MonthsInv, \A w \in Meters : WorkInv(w), [MeterNext]_mvars
  PROVE  /\ MonthsInv'
         /\ \A m \in Months :
              /\ months[m].closed => months'[m].closed /\ months'[m].seconds = months[m].seconds
              /\ months'[m].seconds > 0 /\ billing'.accrued >= EndOf(m) => months'[m].closed
<1>1. \A m \in Months : EndOf(m) \in Nat
  BY MonthFacts DEF TypeInv
<1>2. billing.accrued \in Nat
  BY DEF TypeInv, BillingRec
<1>3. ASSUME NEW w \in Meters, Commit(w)
      PROVE  /\ MonthsInv'
             /\ \A m \in Months :
                  /\ months[m].closed => months'[m].closed /\ months'[m].seconds = months[m].seconds
                  /\ months'[m].seconds > 0 /\ billing'.accrued >= EndOf(m) => months'[m].closed
  <2>1. billing'.there /\ billing'.accrued \in Nat
    BY <1>3, BilledFrom
  <2>2. \A m \in Months :
          /\ months[m].closed => months'[m].closed /\ months'[m].seconds = months[m].seconds
          /\ months'[m].closed => EndOf(m) <= billing'.accrued
          /\ months'[m].seconds > 0 /\ EndOf(m) <= billing'.accrued => months'[m].closed
    BY <1>3, MonthBilled
  <2>3. \A m \in Months : billing'.accrued >= EndOf(m) <=> EndOf(m) <= billing'.accrued
    BY <1>1, <2>1
  <2>4. MonthsInv'
    BY <2>1, <2>2 DEF MonthsInv, EndOf
  <2>5. QED BY <2>2, <2>3, <2>4
<1>4. ASSUME UNCHANGED <<months, billing>>
      PROVE  /\ MonthsInv'
             /\ \A m \in Months :
                  /\ months[m].closed => months'[m].closed /\ months'[m].seconds = months[m].seconds
                  /\ months'[m].seconds > 0 /\ billing'.accrued >= EndOf(m) => months'[m].closed
  <2>1. MonthsInv'
    BY <1>4 DEF MonthsInv
  <2>2. \A m \in Months : billing.accrued >= EndOf(m) <=> EndOf(m) <= billing.accrued
    BY <1>1, <1>2
  <2>3. QED BY <1>4, <2>1, <2>2 DEF MonthsInv
<1>5. QED
  BY <1>3, <1>4 DEF MeterNext, MeterStep, mvars, Announce, MeterCrash, Change, Flush, Sweep, AskUsage,
     ReadUsage, Measure, WriteUsage, HoldBilling, RollBack, Tick

-----------------------------------------------------------------------------
(* What a month has been billed is the sum over its units.                 *)
LEMMA ClockStep ==
  ASSUME TypeInv, ClockInv, [MeterNext]_mvars
  PROVE  ClockInv'
<1>1. clock \in Nat /\ MaxClock \in Nat /\ clock <= MaxClock
  BY MeterAssumption DEF TypeInv, ClockInv
<1>2. \A w \in Meters : work[w] \in WorkRec /\ work[w].now \in Nat /\ work[w].now <= clock
  BY DEF TypeInv, WorkRec, ClockInv
<1>3. work \in [Meters -> WorkRec]
  BY DEF TypeInv
<1> DEFINE Later == \A v \in Meters : work'[v].now \in {0, clock, work[v].now}
<1>4. ASSUME Later, clock' = clock PROVE ClockInv'
  BY <1>1, <1>2, <1>4 DEF ClockInv
<1>5. ASSUME NEW w \in Meters, NEW measures \in BOOLEAN, Starts(w, measures) PROVE Later
  BY <1>3, <1>5 DEF Starts, NoWork
<1>7. ASSUME NEW w \in Meters, Flush(w) \/ Sweep(w) \/ AskUsage(w) PROVE ClockInv'
  <2>1. \E measures \in BOOLEAN : Starts(w, measures)
    <3>1. (~usage.there) \in BOOLEAN
      OBVIOUS
    <3>2. QED BY <1>7, <3>1 DEF Flush, Sweep, AskUsage
  <2>2. Later
    BY <1>5, <2>1
  <2>3. QED BY <1>4, <1>7, <2>2 DEF Flush, Sweep, AskUsage
<1>8. ASSUME NEW w \in Meters, ReadUsage(w) \/ Measure(w) \/ WriteUsage(w) \/ HoldBilling(w)
      PROVE  ClockInv'
  <2>1. work[w] \in WorkRec
    BY <1>2
  <2>2. Later
    <3>1. CASE ReadUsage(w)
      BY <1>3, <2>1, <3>1 DEF ReadUsage, Goes, WorkRec
    <3>2. CASE Measure(w)
      BY <1>3, <2>1, <3>2 DEF Measure, Goes, WorkRec
    <3>3. CASE WriteUsage(w)
      BY <1>3, <2>1, <3>3 DEF WriteUsage, Goes, WorkRec
    <3>4. CASE HoldBilling(w)
      BY <1>3, <2>1, <3>4 DEF HoldBilling, Goes, WorkRec
    <3>5. QED BY <1>8, <3>1, <3>2, <3>3, <3>4
  <2>3. QED BY <1>4, <1>8, <2>2 DEF ReadUsage, Measure, WriteUsage, HoldBilling
<1>9. ASSUME NEW w \in Meters, Commit(w) PROVE ClockInv'
  <2>1. NextWork(w).now \in {0, work[w].now}
    BY DEF NextWork, NoWork
  <2>2. Later
    BY <1>3, <1>9, <2>1 DEF Commit
  <2>3. QED BY <1>4, <1>9, <2>2 DEF Commit
<1>10. ASSUME NEW w \in Meters, RollBack(w) PROVE ClockInv'
  <2>1. Later
    BY <1>3, <1>10 DEF RollBack, NoWork
  <2>2. QED BY <1>4, <1>10, <2>1 DEF RollBack
<1>11. ASSUME NEW g \in MeterGateways, MeterCrash(g) PROVE ClockInv'
  <2>1. Later
    BY <1>11 DEF MeterCrash, NoWork
  <2>2. QED BY <1>4, <1>11, <2>1 DEF MeterCrash
<1>12. ASSUME Tick PROVE ClockInv'
  BY <1>1, <1>2, <1>12 DEF Tick, ClockInv
<1>13. ASSUME UNCHANGED <<clock, work>> PROVE ClockInv'
  BY <1>13 DEF ClockInv
<1>14. QED
  BY <1>7, <1>8, <1>9, <1>10, <1>11, <1>12, <1>13 DEF MeterNext, MeterStep, mvars, Announce, Change

LEMMA SumsStep ==
  ASSUME TypeInv, BillingInv, ChargedInv, ClockInv, SumsInv, \A w \in Meters : WorkInv(w),
         [MeterNext]_mvars
  PROVE  SumsInv'
<1>1. ASSUME NEW w \in Meters, Commit(w) PROVE SumsInv'
  <2> DEFINE from  == work[w].state.accrued
             to    == work[w].now
             bytes == work[w].state.bytes
             P     == {u \in Units : from <= u /\ u < to}
  <2>1. /\ from \in Nat /\ to \in Nat /\ bytes \in Nat
        /\ billing.there => from = billing.accrued
        /\ ~billing.there => billing.accrued = 0
    BY <1>1, BilledFrom
  <2>2. to <= MaxClock
    BY <2>1, MeterAssumption DEF TypeInv, ClockInv
  <2>3. \A u \in Units : u \in Nat /\ charged[u] \in [times: Nat, bytes: Nat]
    BY MeterAssumption DEF TypeInv, Units
  <2>4. \A u \in Units : charged'[u] = IF u \in P THEN [times |-> charged[u].times + 1, bytes |-> bytes]
                                       ELSE charged[u]
    BY <1>1 DEF Commit
  <2> HIDE DEF from, to, bytes
  <2>5. \A u \in P : charged[u].times = 0 /\ charged[u].bytes = 0
    <3> SUFFICES ASSUME NEW u \in P PROVE charged[u].times = 0 /\ charged[u].bytes = 0
      OBVIOUS
    <3>1. u \in Units /\ from <= u /\ u < to
      OBVIOUS
    <3>2. charged[u].times \in Nat /\ charged[u].times <= 1
      BY <2>3, <3>1 DEF ChargedInv, EverySecondOnce
    <3>3. charged[u].times # 1
      <4>1. charged[u].times = 1 => u < billing.accrued
        BY <3>1 DEF ChargedInv
      <4>2. billing.accrued \in Nat
        BY DEF TypeInv, BillingRec
      <4>3. QED BY <2>1, <2>3, <3>1, <4>1, <4>2
    <3>4. charged[u].times = 0
      BY <3>2, <3>3
    <3>5. QED BY <3>1, <3>4 DEF SumsInv
  <2>6. ASSUME NEW u \in Units, charged'[u].times = 0 PROVE charged'[u].bytes = 0
    <3>1. u \notin P
      <4>1. charged[u].times + 1 # 0
        BY <2>3
      <4>2. ASSUME u \in P PROVE charged'[u] = [times |-> charged[u].times + 1, bytes |-> bytes]
        <5> HIDE DEF P
        <5>1. QED BY <2>4, <4>2
      <4>3. ASSUME u \in P PROVE FALSE
        BY <2>6, <4>1, <4>2, <4>3
      <4>4. QED BY <4>3
    <3>2. QED BY <2>4, <2>6, <3>1 DEF SumsInv
  <2>7. ASSUME NEW m \in Months PROVE months'[m].seconds = Sum(charged', UnitsOf(m))
    <3>1. IsFiniteSet(UnitsOf(m)) /\ Cardinality(UnitsOf(m) \cap P) = Elapsed(m, from, to)
      BY <2>1, <2>2, ElapsedIsUnits
    <3>2. \A u \in UnitsOf(m) : /\ charged[u].bytes \in Nat
                                /\ charged'[u].bytes = charged[u].bytes + (IF u \in P THEN bytes ELSE 0)
      <4> SUFFICES ASSUME NEW u \in UnitsOf(m)
                   PROVE  /\ charged[u].bytes \in Nat
                          /\ charged'[u].bytes = charged[u].bytes + (IF u \in P THEN bytes ELSE 0)
        OBVIOUS
      <4>1. u \in Units /\ charged[u].bytes \in Nat
        BY <2>3 DEF UnitsOf
      <4>2. CASE u \in P
        <5>1. charged'[u] = [times |-> charged[u].times + 1, bytes |-> bytes]
          <6> HIDE DEF P
          <6>1. QED BY <2>4, <4>1, <4>2
        <5>2. charged[u].bytes = 0 /\ charged'[u].bytes = bytes
          BY <2>5, <4>2, <5>1
        <5>3. QED BY <2>1, <4>2, <5>2
      <4>3. CASE u \notin P
        <5>1. charged'[u] = charged[u]
          <6> HIDE DEF P
          <6>1. QED BY <2>4, <4>1, <4>3
        <5>2. QED BY <4>1, <4>3, <5>1
      <4>4. QED BY <4>2, <4>3
    <3>3. Sum(charged', UnitsOf(m)) = Sum(charged, UnitsOf(m)) + bytes * Elapsed(m, from, to)
      <4> HIDE DEF P
      <4>1. MoreIn(P, bytes, UnitsOf(m), charged, charged')
        BY <3>2 DEF MoreIn
      <4>2. Sum(charged', UnitsOf(m)) = Sum(charged, UnitsOf(m)) + bytes * Cardinality(UnitsOf(m) \cap P)
        <5> HIDE DEF P
        <5>1. QED BY <2>1, <3>1, <4>1, SumChanged
      <4>3. QED BY <3>1, <4>2
    <3>4. months'[m].seconds = months[m].seconds + bytes * Elapsed(m, from, to)
      BY <1>1, MonthGrows DEF from, to, bytes
    <3>5. QED BY <3>3, <3>4 DEF SumsInv
  <2>8. QED BY <2>6, <2>7 DEF SumsInv
<1>2. ASSUME UNCHANGED <<charged, months>> PROVE SumsInv'
  BY <1>2 DEF SumsInv
<1>3. QED
  BY <1>1, <1>2 DEF MeterNext, MeterStep, mvars, Announce, MeterCrash, Change, Flush, Sweep, AskUsage,
     ReadUsage, Measure, WriteUsage, HoldBilling, RollBack, Tick

LEMMA SumsInit ==
  ASSUME MeterInit
  PROVE  ClockInv /\ SumsInv
<1>1. ClockInv
  BY MeterAssumption DEF MeterInit, ClockInv, NoWork
<1>2. \A u \in Units : charged[u].bytes = 0
  BY DEF MeterInit
<1>3. ASSUME NEW m \in Months PROVE months[m].seconds = Sum(charged, UnitsOf(m))
  <2>1. IsFiniteSet(UnitsOf(m))
    <3>1. 0 \in Nat /\ 0 <= MaxClock
      BY MeterAssumption
    <3>2. QED BY <3>1, ElapsedIsUnits
  <2>2. \A u \in UnitsOf(m) : charged[u].bytes = 0
    BY <1>2 DEF UnitsOf
  <2>3. Sum(charged, UnitsOf(m)) = 0
    BY <2>1, <2>2, SumOfNothing
  <2>4. QED BY <2>3 DEF MeterInit, NoMonth
<1>4. QED BY <1>1, <1>2, <1>3 DEF SumsInv

-----------------------------------------------------------------------------
(* What is still to be measured.                                           *)
LEMMA OwedKept ==
  ASSUME OwedInv, UNCHANGED <<missed, usage, stored, telling>>,
         \A g \in MeterGateways : queue'[g].pending = queue[g].pending,
         \A v \in Meters :
           /\ Measures(v, {"begun", "read"}) => Measures(v, {"begun", "read"})'
           /\ Measures(v, HasMeasured) <=> Measures(v, HasMeasured)'
           /\ Measures(v, HasMeasured) => /\ work'[v].snap = work[v].snap
                                          /\ work'[v].seed.there = work[v].seed.there
  PROVE  OwedInv'
<1>1. Owed => Owed'
  BY DEF Owed
<1>2. QED BY <1>1 DEF OwedInv

(* The work of the others is as it was.                                    *)
LEMMA OthersMeasure ==
  ASSUME TypeInv, NEW w \in Meters, NEW r, Goes(w, r), NEW v \in Meters \ {w}
  PROVE  /\ work'[v] = work[v]
         /\ Measures(v, {"begun", "read"}) <=> Measures(v, {"begun", "read"})'
         /\ Measures(v, HasMeasured) <=> Measures(v, HasMeasured)'
<1>1. work'[v] = work[v]
  BY OthersWork DEF Goes
<1>2. QED BY <1>1 DEF Measures

LEMMA FlushEndedPending ==
  ASSUME TypeInv, NEW w \in Meters, NEW g \in MeterGateways
  PROVE  FlushEnded(w)[g].pending = queue[g].pending
BY DEF FlushEnded, TypeInv, EntryRec

LEMMA OwedStep ==
  ASSUME TypeInv, LocksInv, \A w \in Meters : WorkInv(w), OwedInv, [MeterNext]_mvars
  PROVE  OwedInv'
<1>0. ASSUME Owed' \/ missed' PROVE OwedInv'
  BY <1>0 DEF OwedInv
<1>1. ASSUME NEW g \in MeterGateways, NEW s \in Sizes, Change(g, s) PROVE OwedInv'
  BY <1>0, <1>1 DEF Change, TypeInv, Owed
<1>2. ASSUME NEW g \in MeterGateways, Announce(g) PROVE OwedInv'
  <2>1. queue'[g].pending
    BY <1>2 DEF Announce, TypeInv, EntryRec
  <2>2. QED BY <1>0, <2>1 DEF Owed
<1>3. ASSUME NEW g \in MeterGateways, MeterCrash(g) PROVE OwedInv'
  BY <1>0, <1>3 DEF MeterCrash
<1>4. ASSUME NEW w \in Meters, Flush(w) PROVE OwedInv'
  <2>1. work'[w].at = "begun" /\ work'[w].measures
    BY <1>4 DEF Flush, Starts, TypeInv, NoWork
  <2>2. QED BY <1>0, <2>1 DEF Owed, Measures
<1>5. ASSUME NEW w \in Meters, Sweep(w) \/ AskUsage(w) PROVE OwedInv'
  <2>1. PICK measures \in BOOLEAN : Starts(w, measures)
    BY <1>5 DEF Sweep, AskUsage
  <2> DEFINE r == [NoWork EXCEPT !.at = "begun", !.measures = measures, !.now = clock]
  <2>2. r.at = "begun" /\ Goes(w, r)
    BY <2>1 DEF NoWork, Starts, Goes
  <2> HIDE DEF r
  <2>3. work[w].at = "idle" /\ work'[w].at = "begun"
    BY <1>5, <2>2, OthersWork DEF Sweep, AskUsage, MeterAt, Goes
  <2>4. ~Measures(w, {"begun", "read"}) /\ ~Measures(w, HasMeasured) /\ ~Measures(w, HasMeasured)'
    BY <2>3 DEF Measures, HasMeasured
  <2>5. UNCHANGED <<missed, usage, stored, telling, queue>>
    BY <1>5 DEF Sweep, AskUsage
  <2>6. QED BY <2>2, <2>4, <2>5, OthersMeasure, OwedKept
<1>6. ASSUME NEW w \in Meters, ReadUsage(w) PROVE OwedInv'
  <2>1. work[w] \in WorkRec /\ w \in DOMAIN work
    BY DEF TypeInv
  <2>2. PICK r : Goes(w, r)
    BY <1>6 DEF ReadUsage
  <2>3. work[w].at = "begun" /\ work'[w].at = "read" /\ work'[w].measures = work[w].measures
    BY <1>6, <2>1, OthersWork DEF ReadUsage, MeterAt, Goes, WorkRec
  <2>4. /\ Measures(w, {"begun", "read"}) => Measures(w, {"begun", "read"})'
        /\ ~Measures(w, HasMeasured) /\ ~Measures(w, HasMeasured)'
    BY <2>3 DEF Measures, HasMeasured
  <2>5. UNCHANGED <<missed, usage, stored, telling, queue>>
    BY <1>6 DEF ReadUsage
  <2>6. QED BY <2>2, <2>4, <2>5, OthersMeasure, OwedKept
<1>7. ASSUME NEW w \in Meters, Measure(w) PROVE OwedInv'
  <2>1. work[w] \in WorkRec /\ w \in DOMAIN work
    BY DEF TypeInv
  <2>2. work'[w].at = "measured" /\ work'[w].measures /\ work'[w].snap = stored'
    BY <1>7, <2>1, OthersWork DEF Measure, MeterAt, Goes, WorkRec
  <2>3. QED BY <1>0, <2>2 DEF Owed, Measures, HasMeasured
<1>8. ASSUME NEW w \in Meters, WriteUsage(w) \/ HoldBilling(w) PROVE OwedInv'
  <2>1. work[w] \in WorkRec /\ w \in DOMAIN work /\ WorkInv(w)
    BY DEF TypeInv
  <2>2. PICK r : Goes(w, r)
    BY <1>8 DEF WriteUsage, HoldBilling
  <2>3. /\ work[w].measures => work[w].at \in {"measured", "written"}
        /\ work'[w].measures => work'[w].at \in {"written", "held"}
        /\ work'[w].measures = work[w].measures /\ work'[w].snap = work[w].snap
        /\ work'[w].seed.there = work[w].seed.there
    <3>1. CASE WriteUsage(w)
      BY <2>1, <3>1, OthersWork DEF WriteUsage, MeterAt, Goes, WorkRec
    <3>2. CASE HoldBilling(w)
      BY <2>1, <3>2, OthersWork DEF HoldBilling, ReadyToBill, MeterAt, Goes, WorkRec, UsageRec
    <3>3. QED BY <1>8, <3>1, <3>2
  <2>4. /\ ~Measures(w, {"begun", "read"})
        /\ Measures(w, HasMeasured) <=> Measures(w, HasMeasured)'
    BY <2>3 DEF Measures, HasMeasured
  <2>5. UNCHANGED <<missed, usage, stored, telling, queue>>
    BY <1>8 DEF WriteUsage, HoldBilling
  <2>6. QED BY <2>2, <2>3, <2>4, <2>5, OthersMeasure, OwedKept
<1>9. ASSUME NEW w \in Meters, Commit(w) PROVE OwedInv'
  <2>1. work[w] \in WorkRec /\ usage \in UsageRec /\ work[w].at = "held"
    BY <1>9 DEF TypeInv, Commit, MeterAt
  <2>2. Goes(w, NextWork(w)) /\ UNCHANGED <<stored, telling>>
    BY <1>9 DEF Commit, Goes
  <2>3. work'[w] = NextWork(w) /\ NextWork(w).measures = FALSE
    BY <2>2, OthersWork DEF Goes, NextWork, NoWork
  <2>4. ~Measures(w, {"begun", "read"}) /\ ~Measures(w, HasMeasured)'
    BY <2>1, <2>3 DEF Measures
  <2>5. \A g \in MeterGateways : queue'[g].pending = queue[g].pending
    BY <1>9, FlushEndedPending DEF Commit
  <2>6. CASE ~work[w].measures
    <3>1. UNCHANGED <<missed, usage>>
      BY <1>9, <2>6 DEF Commit
    <3>2. ~Measures(w, HasMeasured)
      BY <2>6 DEF Measures
    <3>3. QED BY <2>2, <2>4, <2>5, <3>1, <3>2, OthersMeasure, OwedKept
  <2>7. CASE work[w].measures /\ work[w].snap = stored
    <3>1. usage'.there /\ usage'.bytes = stored'
      BY <1>9, <2>1, <2>2, <2>7 DEF Commit, UsageRec
    <3>2. ASSUME NEW v \in Meters, Measures(v, HasMeasured)' PROVE ~work'[v].seed.there
      <4>1. v # w
        BY <2>4, <3>2
      <4>2. work'[v] = work[v] /\ Measures(v, HasMeasured)
        BY <2>2, <3>2, <4>1, OthersMeasure
      <4>3. HoldsUsage(w)
        BY <2>1, <2>7 DEF HoldsUsage, MeterAt
      <4>4. ~HoldsUsage(v)
        BY <4>1, <4>3 DEF LocksInv, UsageFree
      <4>5. QED BY <4>2, <4>4 DEF HoldsUsage, MeterAt, Measures, HasMeasured
    <3>3. QED BY <3>1, <3>2 DEF OwedInv
  <2>8. CASE work[w].measures /\ work[w].snap # stored
    <3>1. SUFFICES ASSUME ~missed' PROVE Owed'
      BY <1>0
    <3>2. ~missed /\ (work[w].seed.there \/ ~usage.there)
      BY <1>9, <2>1, <2>8, <3>1 DEF Commit
    <3>3. Measures(w, HasMeasured)
      BY <2>1, <2>8 DEF Measures, HasMeasured
    <3>4. Owed
      BY <2>8, <3>2, <3>3 DEF OwedInv
    <3>5. ASSUME NEW v \in Meters, Measures(v, {"begun", "read"})
                                   \/ (Measures(v, HasMeasured) /\ work[v].snap = stored)
          PROVE  Owed'
      <4>1. v # w
        BY <2>4, <2>8, <3>5
      <4>2. /\ work'[v] = work[v]
            /\ Measures(v, {"begun", "read"})' <=> Measures(v, {"begun", "read"})
            /\ Measures(v, HasMeasured)' <=> Measures(v, HasMeasured)
        BY <2>2, <4>1, OthersMeasure
      <4>3. QED BY <2>2, <3>5, <4>2 DEF Owed
    <3>6. ASSUME NEW g \in MeterGateways, telling[g] \/ queue[g].pending PROVE Owed'
      BY <2>2, <2>5, <3>6 DEF Owed
    <3>7. QED BY <3>4, <3>5, <3>6 DEF Owed
  <2>9. QED BY <2>6, <2>7, <2>8
<1>10. ASSUME NEW w \in Meters, RollBack(w) PROVE OwedInv'
  <2>1. CASE work[w].measures
    BY <1>0, <1>10, <2>1 DEF RollBack
  <2>2. CASE ~work[w].measures
    <3>1. /\ Goes(w, NoWork) /\ UNCHANGED <<usage, stored, telling>>
          /\ NoWork.measures = FALSE
      BY <1>10 DEF RollBack, Goes, NoWork
    <3>2. UNCHANGED missed
      BY <1>10, <2>2 DEF RollBack, TypeInv
    <3>3. work'[w].measures = FALSE
      BY <3>1, OthersWork DEF Goes
    <3>4. ~Measures(w, {"begun", "read"}) /\ ~Measures(w, HasMeasured) /\ ~Measures(w, HasMeasured)'
      BY <2>2, <3>3 DEF Measures
    <3>5. \A g \in MeterGateways : queue'[g].pending = queue[g].pending
      BY <1>10, FlushEndedPending DEF RollBack
    <3>6. QED BY <3>1, <3>2, <3>4, <3>5, OthersMeasure, OwedKept
  <2>3. QED BY <2>1, <2>2
<1>11. CASE Tick \/ UNCHANGED mvars
  BY <1>11, OwedKept DEF Tick, mvars, Measures
<1>12. QED
  BY <1>1, <1>2, <1>3, <1>4, <1>5, <1>6, <1>7, <1>8, <1>9, <1>10, <1>11 DEF MeterNext, MeterStep

-----------------------------------------------------------------------------
LEMMA MeterInvHolds == MeterSpec => []MeterInv
<1>1. MeterInit => MeterInv
  <2>1. MeterInit => OwedInv
    BY DEF MeterInit, OwedInv, NoUsage, NoWork, Measures
  <2>2. QED BY <2>1, MeterTypeInit, LocksInit, RowsInit, ChargedInit, SumsInit DEF MeterInv
<1>2. MeterInv /\ [MeterNext]_mvars => MeterInv'
  BY MeterTypeStep, LocksStep, BillingStep, WorkStep, ChargedStep, MonthsStep, ClockStep, SumsStep,
     OwedStep DEF MeterInv
<1>3. QED BY <1>1, <1>2, PTL DEF MeterSpec

(* Every second is billed at most once, and from the first one billed to   *)
(* the last none is left out, however measurements, sweeps and requests of *)
(* any number of gateways overlap and wherever they fail; and the          *)
(* byte-seconds of a month are the sum of the bytes its own seconds were   *)
(* billed at (accrueTenantStorageBillingStateTx, splitRangeByUtcMonth).    *)
THEOREM SecondsAreBilledOnce == MeterSpec => []SecondsBilledOnce
<1>1. MeterInv => SecondsBilledOnce
  BY DEF MeterInv, ChargedInv, SumsInv, Sum, UnitsOf, SecondsBilledOnce
<1>2. QED BY <1>1, MeterInvHolds, PTL

(* A month that was billed is closed by the billing that passes its end,   *)
(* and no later one adds to it.                                            *)
THEOREM ClosedMonthsStay == MeterSpec => MonthsClose
<1>1. MeterInv /\ [MeterNext]_mvars =>
        [\A m \in Months :
           /\ months[m].closed => months'[m].closed /\ months'[m].seconds = months[m].seconds
           /\ months'[m].seconds > 0 /\ billing'.accrued >= EndOf(m) => months'[m].closed]_mvars
  BY MonthsStep DEF MeterInv
<1>2. QED BY <1>1, MeterInvHolds, PTL DEF MeterSpec, MonthsClose

(* Whatever is changed while it is measured, by however many gateways:     *)
(* when all is quiet the last measurement is of what is stored, and is     *)
(* what is billed, unless one failed or had no row to lock.                *)
THEOREM QuietMeterIsRight == MeterSpec => []ChangesAreMetered
<1>1. MeterInv => ChangesAreMetered
  <2> SUFFICES ASSUME MeterInv, Quiet, ~missed
               PROVE  /\ usage.bytes = stored
                      /\ billing.there => billing.bytes = usage.bytes
    BY DEF ChangesAreMetered
  <2>1. ~Owed
    BY DEF Quiet, Owed, Measures, MeterAt, HasMeasured
  <2>2. QED BY <2>1 DEF MeterInv, OwedInv, BillingInv
<1>2. QED BY <1>1, MeterInvHolds, PTL
=============================================================================
