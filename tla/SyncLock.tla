------------------------------ MODULE SyncLock ------------------------------
(***************************************************************************)
(* The lock around a sync (src/lib/sync/lock.ts, runSync in sync.ts): one  *)
(* Setting row holding "<expiry>|<uuid>", claimed by create or by          *)
(* compare-and-set from the exact value read, released by deleting only    *)
(* the run's own value.  A run here is one invocation of runSync, on any   *)
(* server instance or from a script; it may be killed between any two of   *)
(* its database calls, and a hosted one is killed when it reaches          *)
(* MaxDuration.  Instances read their own clocks, up to Skew ahead of now. *)
(* A definition named X_Fault is the form of X that a plausible bug would  *)
(* give it, for checking that a property notices; no action uses it.       *)
(***************************************************************************)
EXTENDS Naturals

CONSTANTS
    Runs,           \* invocations of runSync
    Hosted,         \* the ones a hosted function executes; the rest are local scripts
    Earlier,        \* the owner of a claim left by a run before this history
    NoRow,          \* the Setting row is absent
    TTL,            \* SYNC_LOCK_TTL_MS
    MaxDuration,    \* the host's limit on one function call
    Skew,           \* how far an instance's clock may run ahead
    MaxTime,        \* bound on the clock
    CreateMayFail   \* whether the create may fail for a reason other than its unique key

ASSUME RunsAssumption == Hosted \subseteq Runs /\ Earlier \notin Runs
ASSUME TimeAssumption ==
    /\ TTL \in Nat /\ MaxDuration \in Nat /\ Skew \in Nat /\ MaxTime \in Nat
    /\ CreateMayFail \in BOOLEAN

Claims == [expires : Nat, by : Runs \union {Earlier}]

ASSUME NoRowAssumption == NoRow \notin Claims

VARIABLES
    now,      \* real time
    row,      \* the Setting row: NoRow or a claim
    pc,       \* where each run stands
    born,     \* real time of the call, from which the host counts MaxDuration
    clock,    \* claimSyncLock's `now`: the caller's clock, read once
    held      \* the row as the run read it

vars == <<now, row, pc, born, clock, held>>

States == {"idle", "reading", "creating", "swapping", "running", "releasing",
           "done", "refused", "dead"}

Ended == {"done", "refused", "dead"}

Working(r) == pc[r] \in {"running", "releasing"}

Alive(r) == pc[r] \notin Ended \union {"idle"}

claim_Past(r) == [expires |-> clock[r] - TTL, by |-> r]
claim(r) == [expires |-> clock[r] + TTL, by |-> r]

\* What the three queries compare: the expiry with the caller's clock, the
\* stored value with the one read, the stored value with the run's own.
live_Always(r) == row # NoRow
live(r) == row.expires > clock[r]

swaps_ByKey(r) == row # NoRow
swaps(r) == row = held[r]

releases_ByKey(r) == row # NoRow
releases(r) == row = claim(r)

\* The row may start absent, or hold what a killed run left: a claim that
\* lapses at any time, 0 also standing for a value nothing can parse.
Init ==
    /\ now = 0
    /\ row \in {NoRow} \union [expires : 0..TTL, by : {Earlier}]
    /\ pc = [r \in Runs |-> "idle"]
    /\ born = [r \in Runs |-> 0]
    /\ clock = [r \in Runs |-> 0]
    /\ held = [r \in Runs |-> NoRow]

\* runSync is called: claimSyncLock reads the clock before its first await.
Call(r) ==
    /\ pc[r] = "idle"
    /\ \E ahead \in 0..Skew : clock' = [clock EXCEPT ![r] = now + ahead]
    /\ born' = [born EXCEPT ![r] = now]
    /\ pc' = [pc EXCEPT ![r] = "reading"]
    /\ UNCHANGED <<now, row, held>>

\* findUnique: an absent row is to be created, a live claim refuses the
\* call, a lapsed one is to be swapped from the value read.
Read(r) ==
    /\ pc[r] = "reading"
    /\ held' = [held EXCEPT ![r] = row]
    /\ pc' = [pc EXCEPT ![r] =
                 IF row = NoRow THEN "creating"
                 ELSE IF live(r) THEN "refused"
                 ELSE "swapping"]
    /\ UNCHANGED <<now, row, born, clock>>

\* setting.create, which the unique key refuses when the row has appeared.
Create(r) ==
    /\ pc[r] = "creating"
    /\ row' = IF row = NoRow THEN claim(r) ELSE row
    /\ pc' = [pc EXCEPT ![r] = IF row = NoRow THEN "running" ELSE "refused"]
    /\ UNCHANGED <<now, born, clock, held>>

\* The create fails for another reason, before or after the row was written;
\* the catch reads every failure as a lost race.
CreateError(r) ==
    /\ CreateMayFail
    /\ pc[r] = "creating"
    /\ row' \in IF row = NoRow THEN {NoRow, claim(r)} ELSE {row}
    /\ pc' = [pc EXCEPT ![r] = "refused"]
    /\ UNCHANGED <<now, born, clock, held>>

\* updateMany where value = the value read.
Swap(r) ==
    /\ pc[r] = "swapping"
    /\ row' = IF swaps(r) THEN claim(r) ELSE row
    /\ pc' = [pc EXCEPT ![r] = IF swaps(r) THEN "running" ELSE "refused"]
    /\ UNCHANGED <<now, born, clock, held>>

\* The pipeline returns or throws; either way `finally` comes next.
Finish(r) ==
    /\ pc[r] = "running"
    /\ pc' = [pc EXCEPT ![r] = "releasing"]
    /\ UNCHANGED <<now, row, born, clock, held>>

\* deleteMany where value = the run's own claim.
Release(r) ==
    /\ pc[r] = "releasing"
    /\ row' = IF releases(r) THEN NoRow ELSE row
    /\ pc' = [pc EXCEPT ![r] = "done"]
    /\ UNCHANGED <<now, born, clock, held>>

\* The host kills the function, the machine stops, or a database call
\* outside the create fails: nothing more of the run is executed.
Kill(r) ==
    /\ Alive(r)
    /\ pc' = [pc EXCEPT ![r] = "dead"]
    /\ UNCHANGED <<now, row, born, clock, held>>

\* Time passes, but no hosted run outlives MaxDuration.
Tick ==
    /\ now < MaxTime
    /\ \A r \in Hosted : Alive(r) => now < born[r] + MaxDuration
    /\ now' = now + 1
    /\ UNCHANGED <<row, pc, born, clock, held>>

Step(r) == Read(r) \/ Create(r) \/ CreateError(r) \/ Swap(r) \/ Finish(r) \/ Release(r)

Next == Tick \/ \E r \in Runs : Call(r) \/ Step(r) \/ Kill(r)

Spec == Init /\ [][Next]_vars

\* A live function keeps executing: Node resumes it after each reply.
FairSpec == Spec /\ \A r \in Runs : WF_vars(Step(r))

-----------------------------------------------------------------------------
TypeOK ==
    /\ now \in Nat
    /\ row \in {NoRow} \union Claims
    /\ pc \in [Runs -> States]
    /\ born \in [Runs -> Nat]
    /\ clock \in [Runs -> Nat]
    /\ held \in [Runs -> {NoRow} \union Claims]

\* While a run works and its lease has lapsed on nobody's clock, the row is
\* still its own claim: no other run created, swapped or released it away.
LeaseHeld ==
    \A r \in Runs :
        Working(r) /\ now + Skew < clock[r] + TTL => row = claim(r)

\* Two runs work at once only after one of them outlived its lease
\* ("one sync at a time, across every server instance", lock.ts).
OverlapOnlyPastLease ==
    \A r, q \in Runs :
        Working(r) /\ Working(q) /\ r # q =>
            \/ now + Skew >= clock[r] + TTL
            \/ now + Skew >= clock[q] + TTL

\* One sync at a time, when every run is stopped by the host before its
\* lease can lapse on any clock.
MutualExclusion ==
    \A r, q \in Runs : Working(r) /\ Working(q) => r = q

\* A claim leaves the row only by its own release, or by a takeover after
\* it lapsed on some instance's clock; a run that lost its lease never
\* deletes the claim of the one that took over.
ClaimLeavesOnlyByOwnerOrLapse ==
    [][ row # NoRow /\ row' # row =>
          \/ row.by \in Runs /\ pc[row.by] = "releasing" /\ pc'[row.by] = "done"
          \/ row' # NoRow /\ row.expires <= now + Skew ]_vars

\* A run that works has the lock: "a local import:csv or import:pdf runs the
\* same pipeline with no limit and must not lose the lock mid-run"
\* (docs/conventions/sync-and-data-ops.md).
KeepsLockWhileWorking ==
    \A r \in Runs : Working(r) => row = claim(r)

\* A call that finds no live claim leads to a sync: its own, or that of the
\* run that beat it to the row.  A claim left by a killed run never blocks.
NoStuckLock ==
    \A r \in Runs :
        (pc[r] = "reading" /\ (row = NoRow \/ row.expires <= clock[r]))
            ~> (pc[r] = "dead" \/ \E q \in Runs : pc[q] = "running")

-----------------------------------------------------------------------------
\* The abstract view: the run that is working, if any.
insideRun ==
    IF \E r \in Runs : Working(r) THEN CHOOSE r \in Runs : Working(r) ELSE NoRow

Serial == INSTANCE SerialSyncs WITH inside <- insideRun, Nobody <- NoRow

\* The lock implements SerialSyncs: runs enter one at a time and the next
\* enters only after the last has left.
ImplementsSerialSyncs == Serial!Spec
=============================================================================
