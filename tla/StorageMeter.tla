---------------------------- MODULE StorageMeter ----------------------------
(***************************************************************************)
(* What a tenant stores, metered and billed by time (gateway/index.js,     *)
(* db.js, storage_billing.js).  A change is announced to the gateway's     *)
(* queue, whose timer starts one measurement for all changes announced     *)
(* till then; a sweep and the usage request bill up to their time without  *)
(* measuring.  A measurement and a billing are transactions that lock the  *)
(* tenant's rows as they come to them.                                     *)
(*                                                                         *)
(* One tenant.  The clock counts units of MonthLength to the month; all    *)
(* clocks agree.  A size is one number.                                    *)
(***************************************************************************)
EXTENDS Integers, FiniteSets, FiniteSetsExt

CONSTANTS
  MeterGateways,
  Meters,        \* what may measure or bill: <<"flush" or "bill", gateway>>
  Sizes,         \* how much may be stored
  MonthLength,
  MaxClock,      \* bound: the clock
  MaxRequests,   \* bound: requests that change what is stored or ask for the usage
  MeterFaults, MaxMeterFaults

ASSUME MeterAssumption ==
  /\ Meters \subseteq {"flush", "bill"} \X MeterGateways
  /\ Sizes \subseteq Nat /\ 0 \in Sizes /\ MonthLength \in Nat \ {0}
  /\ MaxClock \in Nat /\ MaxRequests \in Nat /\ MaxMeterFaults \in Nat
  /\ MeterFaults \subseteq {"query", "request", "crash"}

VARIABLES
  clock,
  stored,    \* what chunks and memory_items hold
  usage,     \* the row of tenant_storage_usage; its time is read only until there is billing
  billing,   \* the row of tenant_storage_billing_state
  months,    \* the rows of tenant_storage_billing_periods
  queue,     \* per gateway: the tenant's entry in storageUsageSyncQueue
  telling,   \* per gateway: changes made and not yet announced
  work,      \* per meter: its transaction
  charged,   \* history: per unit of time, how often it was billed, and at what size
  missed,    \* history: a measurement that failed or overwrote another unseen
  requests, meterFaults

mvars == <<clock, stored, usage, billing, months, queue, telling, work,
           charged, missed, requests, meterFaults>>

Units       == 0 .. MaxClock - 1
Months      == 0 .. MaxClock \div MonthLength
MonthOf(t)  == t \div MonthLength
EndOf(m)    == (m + 1) * MonthLength

NoUsage     == [there |-> FALSE, bytes |-> 0, at |-> 0]
NoBilling   == [there |-> FALSE, bytes |-> 0, accrued |-> 0]
NoMonth     == [there |-> FALSE, seconds |-> 0, closing |-> 0, closed |-> FALSE]
NoEntry     == [timer |-> FALSE, running |-> FALSE, pending |-> FALSE]
NoWork      == [at |-> "idle", measures |-> FALSE, now |-> 0, seed |-> NoUsage, snap |-> 0,
                state |-> NoBilling]

(* The tenant is new, or was measured before there was billing.            *)
MeterInit ==
  /\ clock = 0 /\ stored \in Sizes
  /\ usage \in {[there |-> TRUE, bytes |-> stored, at |-> 0]}
               \cup {u \in {NoUsage} : stored = 0}
  /\ billing = NoBilling
  /\ months = [m \in Months |-> NoMonth]
  /\ queue = [g \in MeterGateways |-> NoEntry]
  /\ telling = [g \in MeterGateways |-> FALSE]
  /\ work = [w \in Meters |-> NoWork]
  /\ charged = [u \in Units |-> [times |-> 0, bytes |-> 0]]
  /\ missed = FALSE
  /\ requests = 0 /\ meterFaults = 0

-----------------------------------------------------------------------------
MeterAt(w, place) == work[w].at = place
MeterFault(f) == /\ f \in MeterFaults /\ meterFaults < MaxMeterFaults
                 /\ meterFaults' = meterFaults + 1

(* A request changes what is stored, and announces it when it is done; if  *)
(* it fails half-way, it does not.                                         *)
Change(g, s) ==
  /\ requests < MaxRequests /\ requests' = requests + 1
  /\ s # stored /\ stored' = s
  /\ \/ telling' = [telling EXCEPT ![g] = TRUE] /\ UNCHANGED <<missed, meterFaults>>
     \/ MeterFault("request") /\ missed' = TRUE /\ UNCHANGED telling
  /\ UNCHANGED <<clock, usage, billing, months, queue, work, charged>>

(* scheduleStorageUsageMeter: every announcement sets the timer anew,      *)
(* unless the last measurement is still running.                           *)
Announce(g) ==
  /\ telling[g] /\ telling' = [telling EXCEPT ![g] = FALSE]
  /\ queue' = [queue EXCEPT ![g].pending = TRUE, ![g].timer = @ \/ ~queue[g].running]
  /\ UNCHANGED <<clock, stored, usage, billing, months, work, charged, missed, requests, meterFaults>>

Starts(w, measures) ==
  work' = [work EXCEPT ![w] = [NoWork EXCEPT !.at = "begun", !.measures = measures, !.now = clock]]

(* The timer: what is pending now is measured; what is announced from here *)
(* on is pending again.                                                    *)
Flush(w) ==
  /\ w[1] = "flush" /\ queue[w[2]].timer /\ MeterAt(w, "idle")
  /\ queue' = [queue EXCEPT ![w[2]] = [timer |-> FALSE, running |-> TRUE, pending |-> FALSE]]
  /\ Starts(w, TRUE)
  /\ UNCHANGED <<clock, stored, usage, billing, months, telling, charged, missed, requests, meterFaults>>

(* The sweep bills every tenant that has a row.                            *)
Sweep(w) ==
  /\ w[1] = "bill" /\ MeterAt(w, "idle")
  /\ usage.there \/ billing.there
  /\ Starts(w, FALSE)
  /\ UNCHANGED <<clock, stored, usage, billing, months, queue, telling, charged, missed, requests, meterFaults>>

(* A request for the usage measures a tenant that has no row, and bills.   *)
AskUsage(w) ==
  /\ w[1] = "bill" /\ MeterAt(w, "idle")
  /\ requests < MaxRequests /\ requests' = requests + 1
  /\ Starts(w, ~usage.there)
  /\ UNCHANGED <<clock, stored, usage, billing, months, queue, telling, charged, missed, meterFaults>>

-----------------------------------------------------------------------------
(* The transactions.  Their rows are locked till the end, and seen by the  *)
(* others only then; what is not there cannot be locked, but its insertion *)
(* waits for another's.                                                    *)
HoldsUsage(w)   == MeterAt(w, "written") \/ (work[w].measures /\ MeterAt(w, "held"))
                     \/ (work[w].at \in {"read", "measured"} /\ work[w].measures /\ work[w].seed.there)
HoldsBilling(w) == MeterAt(w, "held")
UsageFree(w)    == \A v \in Meters \ {w} : ~HoldsUsage(v)
BillingFree(w)  == \A v \in Meters \ {w} : ~HoldsBilling(v)
Goes(w, r)   == work' = [work EXCEPT ![w] = r]

(* The row of the last measurement, from which the billing may start; a    *)
(* billing reads it without a lock, and counts anew if there is none.      *)
ReadUsage(w) ==
  /\ MeterAt(w, "begun")
  /\ work[w].measures /\ usage.there => UsageFree(w)
  /\ Goes(w, [work[w] EXCEPT !.at = "read",
        !.seed = IF usage.there \/ work[w].measures THEN usage
                 ELSE [there |-> TRUE, bytes |-> stored, at |-> work[w].now]])
  /\ UNCHANGED <<clock, stored, usage, billing, months, queue, telling, charged, missed, requests, meterFaults>>

Measure(w) ==
  /\ MeterAt(w, "read") /\ work[w].measures
  /\ Goes(w, [work[w] EXCEPT !.at = "measured", !.snap = stored])
  /\ UNCHANGED <<clock, stored, usage, billing, months, queue, telling, charged, missed, requests, meterFaults>>

WriteUsage(w) ==
  /\ MeterAt(w, "measured") /\ UsageFree(w)
  /\ Goes(w, [work[w] EXCEPT !.at = "written"])
  /\ UNCHANGED <<clock, stored, usage, billing, months, queue, telling, charged, missed, requests, meterFaults>>

(* The billing row, or a new one that starts with the last measurement.    *)
Seed(w) == [there |-> TRUE, bytes |-> work[w].seed.bytes,
            accrued |-> IF work[w].seed.there THEN work[w].seed.at ELSE work[w].now]
ReadyToBill(w) == MeterAt(w, "written") \/ (MeterAt(w, "read") /\ ~work[w].measures)

(* Mutant: the billing row is read without a lock.                         *)
HoldBillingUnlocked(w) ==
  /\ ReadyToBill(w)
  /\ Goes(w, [work[w] EXCEPT !.at = "held", !.seed.bytes = 0, !.state = IF billing.there THEN billing ELSE Seed(w)])
  /\ UNCHANGED <<clock, stored, usage, billing, months, queue, telling, charged, missed, requests, meterFaults>>

HoldBilling(w) ==
  /\ ReadyToBill(w) /\ BillingFree(w)
  /\ Goes(w, [work[w] EXCEPT !.at = "held", !.seed.bytes = 0, !.state = IF billing.there THEN billing ELSE Seed(w)])
  /\ UNCHANGED <<clock, stored, usage, billing, months, queue, telling, charged, missed, requests, meterFaults>>

(* splitRangeByUtcMonth, as the part of from .. to that lies in a month.   *)
LaterOf(a, b)   == IF a > b THEN a ELSE b
EarlierOf(a, b) == IF a < b THEN a ELSE b
Elapsed(m, from, to) == LaterOf(0, EarlierOf(to, EndOf(m)) - LaterOf(from, m * MonthLength))

(* Mutant: a month that ends just now is left open.                        *)
ClosesLate(m, from, to) == Elapsed(m, from, to) > 0 /\ to > EndOf(m)

Closes(m, from, to) == Elapsed(m, from, to) > 0 /\ to >= EndOf(m)

(* accrueTenantStorageBillingStateTx: every month the time passed since    *)
(* touches gets its share of it, and is closed when it is over.            *)
Accrued(w, m) ==
  LET s       == work[w].state
      seconds == s.bytes * Elapsed(m, s.accrued, work[w].now)
      closes  == Closes(m, s.accrued, work[w].now)
  IN  IF seconds = 0 /\ ~closes THEN months[m]
      ELSE [there |-> TRUE, seconds |-> months[m].seconds + seconds,
            closing |-> s.bytes, closed |-> months[m].closed \/ closes]

BilledUpTo(w) == LaterOf(work[w].state.accrued, work[w].now)
BytesNow(w)   == IF work[w].measures THEN work[w].snap ELSE work[w].state.bytes

(* The row of the month of the transaction's time gets the size of today.  *)
Touched(w, m) ==
  IF m = MonthOf(work[w].now)
  THEN [Accrued(w, m) EXCEPT !.there = TRUE, !.closing = BytesNow(w)]
  ELSE Accrued(w, m)

(* Mutant: what is announced during a flush is taken for measured.         *)
FlushEndedForgets(w) ==
  IF w[1] # "flush" THEN queue ELSE [queue EXCEPT ![w[2]] = NoEntry]

(* A flush that has ended is done again for what has been announced since. *)
FlushEnded(w) ==
  IF w[1] # "flush" THEN queue
  ELSE [queue EXCEPT ![w[2]] = [timer |-> queue[w[2]].pending, running |-> FALSE,
                                pending |-> queue[w[2]].pending]]

(* A usage request that measured goes on to bill.                          *)
NextWork(w) == IF w[1] = "bill" /\ work[w].measures
               THEN [NoWork EXCEPT !.at = "begun", !.now = work[w].now] ELSE NoWork

Commit(w) ==
  /\ MeterAt(w, "held")
  /\ usage' = IF work[w].measures
              THEN [usage EXCEPT !.there = TRUE, !.bytes = work[w].snap] ELSE usage
  /\ billing' = [there |-> TRUE, bytes |-> BytesNow(w), accrued |-> BilledUpTo(w)]
  /\ months' = [m \in Months |-> Touched(w, m)]
  /\ charged' = [u \in Units |->
        IF work[w].state.accrued <= u /\ u < work[w].now
        THEN [times |-> charged[u].times + 1, bytes |-> work[w].state.bytes]
        ELSE charged[u]]
  /\ missed' = IF ~work[w].measures THEN missed
               ELSE IF work[w].seed.there THEN missed /\ stored # work[w].snap
               ELSE missed \/ usage.there
  /\ queue' = FlushEnded(w)
  /\ work' = [work EXCEPT ![w] = NextWork(w)]
  /\ UNCHANGED <<clock, stored, telling, requests, meterFaults>>

(* A statement fails: the transaction is rolled back.  A flush is not      *)
(* tried again.                                                            *)
RollBack(w) ==
  /\ ~MeterAt(w, "idle") /\ MeterFault("query")
  /\ work' = [work EXCEPT ![w] = NoWork]
  /\ queue' = FlushEnded(w)
  /\ missed' = (missed \/ work[w].measures)
  /\ UNCHANGED <<clock, stored, usage, billing, months, telling, charged, requests>>

(* A gateway dies: the queue was in its memory, the database rolls back.   *)
MeterCrash(g) ==
  /\ MeterFault("crash")
  /\ queue' = [queue EXCEPT ![g] = NoEntry]
  /\ telling' = [telling EXCEPT ![g] = FALSE]
  /\ work' = [w \in Meters |-> IF w[2] = g THEN NoWork ELSE work[w]]
  /\ missed' = TRUE
  /\ UNCHANGED <<clock, stored, usage, billing, months, charged, requests>>

Tick ==
  /\ clock < MaxClock /\ clock' = clock + 1
  /\ UNCHANGED <<stored, usage, billing, months, queue, telling, work, charged, missed,
                 requests, meterFaults>>

MeterStep(w) == \/ ReadUsage(w) \/ Measure(w) \/ WriteUsage(w) \/ HoldBilling(w)
                \/ Commit(w) \/ RollBack(w)
MeterNext ==
  \/ \E g \in MeterGateways :
       Announce(g) \/ MeterCrash(g) \/ \E s \in Sizes : Change(g, s)
  \/ \E w \in Meters : Flush(w) \/ Sweep(w) \/ AskUsage(w) \/ MeterStep(w)
  \/ Tick
MeterSpec == MeterInit /\ [][MeterNext]_mvars

-----------------------------------------------------------------------------
(* However measurements and billings of several gateways interleave: every *)
(* second from the tenant's first row to the last billing is billed once,  *)
(* and a month's byte-seconds are those of its own seconds.                *)
EverySecondOnce ==
  /\ \A u \in Units : charged[u].times <= 1
  /\ \A u \in Units : u + 1 \in Units /\ charged[u].times = 1 /\ u + 1 < billing.accrued
       => charged[u + 1].times = 1
SecondsBilledOnce ==
  /\ EverySecondOnce
  /\ \A m \in Months : months[m].seconds =
       FoldSet(LAMBDA u, sum : sum + charged[u].bytes, 0, {u \in Units : MonthOf(u) = m})

(* A month that was billed is closed by the billing that passes its end,   *)
(* and nothing is added to it from then on.                                *)
MonthsClose == [][\A m \in Months :
  /\ months[m].closed => months'[m].closed /\ months'[m].seconds = months[m].seconds
  /\ months'[m].seconds > 0 /\ billing'.accrued >= EndOf(m) => months'[m].closed]_mvars

(* When nothing is announced or measured any more, the last measurement is *)
(* what is stored, and it is what is billed, unless one failed or was made *)
(* without a row to lock.                                                  *)
Quiet == /\ \A g \in MeterGateways : ~telling[g] /\ ~queue[g].pending
         /\ \A w \in Meters : MeterAt(w, "idle")
ChangesAreMetered ==
  Quiet /\ ~missed => /\ usage.bytes = stored
                      /\ billing.there => billing.bytes = usage.bytes
=============================================================================
