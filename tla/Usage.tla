-------------------------------- MODULE Usage --------------------------------
(***************************************************************************)
(* The count of requests made to the feed (usage/meter.ts, usage/limits.ts *)
(* and syncNow of app/actions.ts).  Every server instance counts in its    *)
(* own memory and adds what it has to the database after a response, under *)
(* the day it was counted; "Sync now" refuses past a cap by what this        *)
(* instance knows.  A run's requests are made under the sync lock, which       *)
(* `syncing' stands for.                                                   *)
(***************************************************************************)
EXTENDS Integers, FiniteSets, FiniteSetsExt

CONSTANTS
    Instances,
    Days,          \* 1 .. a bound
    Cap,           \* SIMPLEFIN_SYNC_NOW_CAP
    PerRun,        \* requests of one run: the listing, and a wider window
    MaxRequests,   \* bound on a day's requests
    MaxUpsets      \* bound on failed statements and ended instances

ASSUME UsageAssumption == IsFiniteSet(Instances) /\ 1 \in Days /\ PerRun \subseteq Nat

VARIABLES
    onDay,         \* the day
    counted,       \* [Days -> Nat]: UsageCount in the database
    pending,       \* [Instances -> [Days -> Nat]]: counted, not yet written
    flight,        \* [Instances -> [Days -> Nat]]: entries of the statement under way
    flushing,      \* [Instances -> "no", "sent" or "landed"]
    tap,           \* [Instances -> "idle", "checked" or "syncing"]
    upsets,
    requests,      \* [Days -> Nat]: what was really asked
    uncounted, doubled  \* [Days -> Nat]: counts of killed instances, counts added twice

uvars == <<onDay, counted, pending, flight, flushing, tap, upsets, requests, uncounted, doubled>>

Zero == [d \in Days |-> 0]
plus(a, b) == [d \in Days |-> a[d] + b[d]]
sumOver(f) == [d \in Days |-> MapThenSumSet(LAMBDA i : f[i][d], Instances)]

UsageInit ==
    /\ onDay = 1
    /\ upsets = 0
    /\ counted = Zero /\ requests = Zero /\ uncounted = Zero /\ doubled = Zero
    /\ pending = [i \in Instances |-> Zero]
    /\ flight = [i \in Instances |-> Zero]
    /\ flushing = [i \in Instances |-> "no"]
    /\ tap = [i \in Instances |-> "idle"]

NextDay ==
    /\ onDay + 1 \in Days
    /\ onDay' = onDay + 1
    /\ UNCHANGED <<upsets, counted, pending, flight, flushing, tap, requests, uncounted, doubled>>

meterVars == <<upsets, onDay, counted, flight, flushing, uncounted, doubled>>

\* What this instance knows of today: stored, and counted here but not written.
simplefinRequestsToday(i) == counted[onDay] + pending[i][onDay]

syncNowRefused(i) == simplefinRequestsToday(i) >= Cap

\* syncNow: the cap is asked before the lock.
SyncNow(i) ==
    /\ tap[i] = "idle" /\ ~syncNowRefused(i)
    /\ tap' = [tap EXCEPT ![i] = "checked"]
    /\ UNCHANGED <<meterVars, pending, requests>>

ClaimAndSync(i) ==
    /\ tap[i] = "checked"
    /\ tap' = [tap EXCEPT ![i] =
            IF \A j \in Instances : tap[j] # "syncing" THEN "syncing" ELSE "idle"]
    /\ UNCHANGED <<meterVars, pending, requests>>

\* recordUsage, before each fetch of a run, a tap's or the cron's.
Requests(i) ==
    /\ tap[i] = "syncing"
    /\ \E n \in PerRun :
        /\ requests[onDay] + n <= MaxRequests
        /\ requests' = [requests EXCEPT ![onDay] = @ + n]
        /\ pending' = [pending EXCEPT ![i][onDay] = @ + n]
    /\ tap' = [tap EXCEPT ![i] = "idle"]
    /\ UNCHANGED meterVars

CronSyncs(i) ==
    /\ tap[i] = "idle" /\ \A j \in Instances : tap[j] # "syncing"
    /\ tap' = [tap EXCEPT ![i] = "syncing"]
    /\ UNCHANGED <<meterVars, pending, requests>>

\* flushUsage: the counts leave the map before the statement is sent, and
\* requests counted while it is under way gather in the map again.
FlushUsage(i) ==
    /\ flushing[i] = "no" /\ pending[i] # Zero
    /\ flight' = [flight EXCEPT ![i] = pending[i]]
    /\ pending' = [pending EXCEPT ![i] = Zero]
    /\ flushing' = [flushing EXCEPT ![i] = "sent"]
    /\ UNCHANGED <<upsets, onDay, counted, tap, requests, uncounted, doubled>>

\* ON CONFLICT DO UPDATE SET count = count + excluded.count.
Lands(i) ==
    /\ flushing[i] = "sent"
    /\ counted' = plus(counted, flight[i])
    /\ flushing' = [flushing EXCEPT ![i] = "landed"]
    /\ UNCHANGED <<upsets, onDay, pending, flight, tap, requests, uncounted, doubled>>

Flushed(i) ==
    /\ flushing[i] = "landed"
    /\ flight' = [flight EXCEPT ![i] = Zero]
    /\ flushing' = [flushing EXCEPT ![i] = "no"]
    /\ UNCHANGED <<upsets, onDay, counted, pending, tap, requests, uncounted, doubled>>

\* The catch: the entries are put back, beside what was counted meanwhile.  A
\* statement that landed while its answer was lost is caught the same way.
putBack_Overwrites(waiting, entries) == entries
putBack(waiting, entries) == plus(waiting, entries)

FlushFails(i) ==
    /\ flushing[i] # "no"
    /\ pending' = [pending EXCEPT ![i] = putBack(@, flight[i])]
    /\ doubled' = IF flushing[i] = "landed" THEN plus(doubled, flight[i]) ELSE doubled
    /\ flight' = [flight EXCEPT ![i] = Zero]
    /\ flushing' = [flushing EXCEPT ![i] = "no"]
    /\ upsets < MaxUpsets /\ upsets' = upsets + 1
    /\ UNCHANGED <<onDay, counted, tap, requests, uncounted>>

\* The host stops an instance: what it had not written goes with it.
InstanceEnds(i) ==
    /\ uncounted' = plus(uncounted, plus(pending[i],
                    IF flushing[i] = "sent" THEN flight[i] ELSE Zero))
    /\ pending' = [pending EXCEPT ![i] = Zero]
    /\ flight' = [flight EXCEPT ![i] = Zero]
    /\ flushing' = [flushing EXCEPT ![i] = "no"]
    /\ tap' = [tap EXCEPT ![i] = "idle"]
    /\ upsets < MaxUpsets /\ upsets' = upsets + 1
    /\ UNCHANGED <<onDay, counted, requests, doubled>>

UsageNext ==
    \/ NextDay
    \/ \E i \in Instances :
        \/ SyncNow(i) \/ ClaimAndSync(i) \/ Requests(i) \/ CronSyncs(i)
        \/ FlushUsage(i) \/ Lands(i) \/ Flushed(i) \/ FlushFails(i) \/ InstanceEnds(i)

UsageSpec == UsageInit /\ [][UsageNext]_uvars

\* What the statements under way are to add.
underWay ==
    [d \in Days |-> MapThenSumSet(LAMBDA i : IF flushing[i] = "sent" THEN flight[i][d] ELSE 0,
                                  Instances)]

\* The meter counts every request once, under its day: a flush that fails, or
\* runs while more are counted, loses none and adds none twice.  Only an
\* instance that ends with counts unwritten loses some, and only a statement
\* that landed with its answer lost adds some twice.
MeterCountsOnce ==
    \A d \in Days :
        counted[d] + sumOver(pending)[d] + underWay[d]
          = requests[d] - uncounted[d] + doubled[d]
=============================================================================
