------------------------------ MODULE Lifecycle ------------------------------
(***************************************************************************)
(* The value of a memory item, its tier, and the sweep that deletes what   *)
(* is worth little (gateway/index.js, lifecycle_policy.js).  Events of use *)
(* and the decay loop rewrite the value of an item from a row they read    *)
(* before; the sweep does so too, then decides on what it has in hand, and *)
(* compacts a group of items after a language model has summed them up.    *)
(*                                                                         *)
(* One gateway; an item is deleted in one step (DocIndex has its           *)
(* statements).  A value is a number of the smallest steps the thresholds  *)
(* are told apart by.  The summaries and promotions that a sweep writes    *)
(* are new items and change none of these.                                 *)
(***************************************************************************)
EXTENDS Integers, FiniteSets

CONSTANTS
  Items,        \* numbers, in the order of their ids
  MaxValue,     \* valueMax
  Policies,     \* the thresholds that may be configured
  RunPolicies,  \* bound: those with which items are followed
  MaxDeletes,   \* MEMORY_LIFECYCLE_MAX_DELETES, 0 for no limit
  GroupSize,    \* MEMORY_LIFECYCLE_COMPACT_GROUP_SIZE
  MaxUpdates    \* bound: events, decays, pins and expiries

Values == 0 .. MaxValue
Tiers  == {"COLD", "WARM", "HOT"}

ASSUME LifecycleAssumption ==
  /\ IsFiniteSet(Items) /\ Items \subseteq Nat /\ MaxValue \in Nat
  /\ Policies \subseteq [hotUp: Nat, hotDown: Nat, warmUp: Nat, warmDown: Nat, evict: Nat,
                         summary: Nat]
  /\ RunPolicies \subseteq Policies
  /\ MaxDeletes \in Nat /\ GroupSize \in Nat \ {0} /\ MaxUpdates \in Nat

VARIABLES
  policy,   \* the configured thresholds
  items,    \* per item: its row of memory_items
  updater,  \* what an event or the decay loop has read and is about to write
  sweep,    \* lifecycleRunning, the rows listed, the item in hand, the budget used
  deletes,  \* history: how many items the sweep has told to delete
  marks,    \* history: which items were low, and which not pinned, since it began
  taken,    \* history: the items it has deleted without their time being over
  updates

lvars == <<policy, items, updater, sweep, deletes, marks, taken, updates>>

-----------------------------------------------------------------------------
(* resolveTierThresholds: the lower threshold of each pair is put a step   *)
(* below the upper one, and nothing above the lowest is evicted.           *)
BelowIt(down, up) == IF down < up THEN down ELSE IF up > 0 THEN up - 1 ELSE 0

Clamped(p) ==
  LET warmDown == BelowIt(p.warmDown, p.warmUp)
  IN  [p EXCEPT !.hotDown = BelowIt(p.hotDown, p.hotUp), !.warmDown = warmDown,
                !.evict = IF @ > warmDown THEN warmDown ELSE @]

(* Mutant: the thresholds are taken as they are configured.                *)
TierForUnclamped(p, tier, value, pinned) ==
  CASE tier = "HOT"  -> IF ~pinned /\ value < p.hotDown THEN "WARM" ELSE "HOT"
    [] tier = "WARM" -> IF value >= p.hotUp THEN "HOT"
                        ELSE IF ~pinned /\ value < p.warmDown THEN "COLD" ELSE "WARM"
    [] OTHER         -> IF value >= p.warmUp THEN "WARM" ELSE "COLD"

(* resolveTierForValue                                                     *)
TierFor(p, tier, value, pinned) ==
  LET c == Clamped(p)
  IN  CASE tier = "HOT"  -> IF ~pinned /\ value < c.hotDown THEN "WARM" ELSE "HOT"
        [] tier = "WARM" -> IF value >= c.hotUp THEN "HOT"
                            ELSE IF ~pinned /\ value < c.warmDown THEN "COLD" ELSE "WARM"
        [] OTHER         -> IF value >= c.warmUp THEN "WARM" ELSE "COLD"

Rank(tier) == CASE tier = "HOT" -> 2 [] tier = "WARM" -> 1 [] OTHER -> 0

-----------------------------------------------------------------------------
ItemRows  == [there: BOOLEAN, pinned: BOOLEAN, expired: BOOLEAN, tier: Tiers, value: Values]
NoItem    == [there |-> FALSE, pinned |-> FALSE, expired |-> FALSE, tier |-> "COLD", value |-> 0]
NoSweep   == [at |-> "idle", rows |-> {}, hand |-> 0, row |-> [tier |-> "WARM", value |-> 0],
              group |-> {}, used |-> 0]
IdleUpdater == [at |-> "idle", seen |-> {}]

(* Items that have been there for some time.                               *)
LifecycleInit ==
  /\ policy \in Policies
  /\ items \in [Items -> IF policy \notin RunPolicies THEN {NoItem}
                         ELSE {r \in ItemRows : r.there /\ ~r.expired
                                 /\ TierFor(policy, r.tier, r.value, r.pinned) = r.tier}]
  /\ updater = IdleUpdater /\ sweep = NoSweep
  /\ deletes = 0 /\ marks = {} /\ taken = {} /\ updates = 0

Live        == {i \in Items : items[i].there}
LowValue(value) == value < policy.summary \/ value < Clamped(policy).evict
Marks(now)  == LET there == {i \in Items : now[i].there}
               IN  {<<i, "low">> : i \in {j \in there : LowValue(now[j].value)}}
                   \cup {<<i, "free">> : i \in {j \in there : ~now[j].pinned}}
Notes       == marks' = marks \cup Marks(items')
UpdateCounted     == updates < MaxUpdates /\ updates' = updates + 1

(* The value after a change, and the tier that goes with it: what is       *)
(* written back over the row, if it is still there.                        *)
Clamp(value)  == IF value < 0 THEN 0 ELSE IF value > MaxValue THEN MaxValue ELSE value
Valued(row, change) ==
  LET value == Clamp(row.value + change)
  IN  [row EXCEPT !.value = value, !.tier = TierFor(policy, row.tier, value, row.pinned)]
Write(i, row) == items' = [items EXCEPT ![i].value = IF items[i].there THEN row.value ELSE @,
                                        ![i].tier  = IF items[i].there THEN row.tier ELSE @]

(* A queued event is flushed: its item's row is read.  The decay loop      *)
(* reads all rows at once.                                                 *)
ReadRows ==
  /\ updater.at = "idle" /\ UpdateCounted
  /\ \/ \E i \in Live : updater' = [at |-> "event", seen |-> {<<i, items[i]>>}]
     \/ Live # {} /\ updater' = [at |-> "decay", seen |-> {<<i, items[i]>> : i \in Live}]
  /\ UNCHANGED <<policy, items, sweep, deletes, marks, taken>>

(* An event adds or takes some value, decay takes some or, between two     *)
(* readings close together, none.                                          *)
WriteRow ==
  /\ updater.at # "idle"
  /\ \E s \in updater.seen :
       /\ \E change \in (IF updater.at = "event" THEN {-1, 1} ELSE {-1, 0}) :
            Write(s[1], Valued(s[2], change))
       /\ updater' = IF updater.seen = {s} THEN IdleUpdater ELSE [updater EXCEPT !.seen = @ \ {s}]
  /\ Notes
  /\ UNCHANGED <<policy, sweep, deletes, taken, updates>>

(* A memory is written again, with or without pinned: its value stays.     *)
Pin(i) ==
  /\ items[i].there /\ UpdateCounted
  /\ items' = [items EXCEPT ![i].pinned = ~@]
  /\ Notes
  /\ UNCHANGED <<policy, updater, sweep, deletes, taken>>

ExpireItem(i) ==
  /\ items[i].there /\ ~items[i].expired /\ UpdateCounted
  /\ items' = [items EXCEPT ![i].expired = TRUE]
  /\ UNCHANGED <<policy, updater, sweep, deletes, marks, taken>>

-----------------------------------------------------------------------------
SweepAt(place) == sweep.at = place

SweepBegins ==
  /\ SweepAt("idle") /\ Live # {}
  /\ sweep' = [NoSweep EXCEPT !.at = "next", !.rows = {<<i, items[i]>> : i \in Live}]
  /\ deletes' = 0 /\ marks' = Marks(items) /\ taken' = {}
  /\ UNCHANGED <<policy, items, updater, updates>>

(* Mutant: it is only asked whether any of the budget is left.             *)
AffordableAny(n) == MaxDeletes = 0 \/ sweep.used < MaxDeletes

(* canConsumeDeleteBudget and what consumeDeleteBudget makes of it.        *)
Affordable(n) == MaxDeletes = 0 \/ sweep.used + n <= MaxDeletes

BudgetUsed(n) == sweep.used + n

(* The next row as it was listed.  What has expired is deleted if the      *)
(* budget allows, what is pinned is left alone, all else is valued first.  *)
NextRow ==
  /\ SweepAt("next") /\ sweep.rows # {}
  /\ \E r \in sweep.rows :
       /\ \A other \in sweep.rows : r[1] <= other[1]
       /\ LET others == sweep.rows \ {r}
              row    == r[2]
          IN  \/ /\ row.expired /\ Affordable(1)
                 /\ sweep' = [sweep EXCEPT !.at = "delete", !.rows = others, !.hand = r[1],
                                           !.group = {r[1]}, !.used = BudgetUsed(1)]
                 /\ UNCHANGED <<items, marks>>
              \/ /\ IF row.expired THEN ~Affordable(1) ELSE row.pinned
                 /\ sweep' = [sweep EXCEPT !.rows = others]
                 /\ UNCHANGED <<items, marks>>
              \/ /\ ~row.expired /\ ~row.pinned
                 /\ \E change \in {-1, 0} :
                      LET v == Valued(row, change)
                      IN  /\ Write(r[1], v)
                          /\ sweep' = [sweep EXCEPT !.at = "decide", !.rows = others, !.hand = r[1],
                                                    !.row = [tier |-> v.tier, value |-> v.value]]
                 /\ Notes
  /\ UNCHANGED <<policy, updater, deletes, taken, updates>>

(* Too young, or hot enough to be promoted, or in the bands between: kept. *)
Keep ==
  /\ SweepAt("decide")
  /\ sweep' = [sweep EXCEPT !.at = "next"]
  /\ UNCHANGED <<policy, items, updater, deletes, marks, taken, updates>>

Evict ==
  /\ SweepAt("decide") /\ sweep.row.tier = "COLD" /\ sweep.row.value < Clamped(policy).evict
  /\ sweep' = IF Affordable(1)
              THEN [sweep EXCEPT !.at = "delete", !.group = {sweep.hand}, !.used = BudgetUsed(1)]
              ELSE [sweep EXCEPT !.at = "next"]
  /\ UNCHANGED <<policy, items, updater, deletes, marks, taken, updates>>

(* Mutant: a pinned item may be part of a group.                           *)
GroupsOfAll == {g \in SUBSET {i \in Live : items[i].value < policy.summary} :
                  Cardinality(g) <= GroupSize}

(* What the search for similar items may find, as it is now; failing that, *)
(* the item itself.                                                        *)
Groups == {g \in SUBSET {i \in Live : ~items[i].pinned /\ items[i].value < policy.summary
                                     /\ ~items[i].expired} : Cardinality(g) <= GroupSize}
Gathered(g) == IF g = {} THEN {sweep.hand} ELSE g

Compact ==
  /\ SweepAt("decide") /\ sweep.row.tier = "COLD"
  /\ sweep.row.value >= Clamped(policy).evict /\ sweep.row.value < policy.summary
  /\ \E g \in Groups : sweep' = [sweep EXCEPT !.at = "summary", !.group = Gathered(g)]
  /\ UNCHANGED <<policy, items, updater, deletes, marks, taken, updates>>

(* The summary is written and the originals go, unless the model gave      *)
(* nothing or they are more than the budget has left.                      *)
Summed ==
  /\ SweepAt("summary")
  /\ LET n == Cardinality(sweep.group)
     IN  \/ /\ Affordable(n)
            /\ sweep' = [sweep EXCEPT !.at = "delete", !.used = BudgetUsed(n)]
         \/ sweep' = [sweep EXCEPT !.at = "next", !.group = {}]
  /\ UNCHANGED <<policy, items, updater, deletes, marks, taken, updates>>

(* deleteMemoryItemFully, now or, when the store refuses, by a job.        *)
DeleteOne ==
  /\ SweepAt("delete") /\ sweep.group # {}
  /\ \E i \in sweep.group :
       /\ items' = [items EXCEPT ![i].there = FALSE]
       /\ deletes' = deletes + 1
       /\ taken' = IF items[i].expired THEN taken ELSE taken \cup {i}
       /\ sweep' = [sweep EXCEPT !.group = @ \ {i}, !.at = IF sweep.group = {i} THEN "next" ELSE @]
  /\ UNCHANGED <<policy, updater, marks, updates>>

\* All rows are done, or a statement or a call failed: what is left waits
\* for the next sweep.
SweepEnds ==
  /\ sweep.at # "idle"
  /\ sweep' = NoSweep
  /\ UNCHANGED <<policy, items, updater, deletes, marks, taken, updates>>

LifecycleNext ==
  /\ policy \in RunPolicies
  /\ \/ ReadRows \/ WriteRow
     \/ \E i \in Items : Pin(i) \/ ExpireItem(i)
     \/ SweepBegins \/ NextRow \/ Keep \/ Evict \/ Compact \/ Summed \/ DeleteOne \/ SweepEnds
LifecycleSpec == LifecycleInit /\ [][LifecycleNext]_lvars

-----------------------------------------------------------------------------
(* However the thresholds are configured, an item whose value stays does   *)
(* not go to and fro between two tiers: a step up is never taken back, nor *)
(* a step down.                                                            *)
TurnsBack(p, tier, value, pinned) ==
  LET once  == TierFor(p, tier, value, pinned)
      twice == TierFor(p, once, value, pinned)
  IN  \/ Rank(once) > Rank(tier) /\ Rank(twice) < Rank(once)
      \/ Rank(once) < Rank(tier) /\ Rank(twice) > Rank(once)
TiersNeverTurnBack ==
  \A tier \in Tiers, value \in Values, pinned \in BOOLEAN : ~TurnsBack(policy, tier, value, pinned)

(* Whatever events, decay and requests do meanwhile, a sweep deletes only  *)
(* what was worth little at some time since it began, and not pinned at    *)
(* some time since, or what has expired: rows read before an await are     *)
(* never the reason for a deletion that was right at no time of the sweep. *)
DeletedWereLow == \A i \in taken : {<<i, "low">>, <<i, "free">>} \subseteq marks

(* A sweep never deletes more than its budget, whether one by one or in    *)
(* groups.                                                                 *)
BudgetKept == MaxDeletes > 0 => deletes <= MaxDeletes
=============================================================================
