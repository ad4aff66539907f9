-------------------------------- MODULE Demo --------------------------------
(***************************************************************************)
(* The public demo's nightly reset (lib/demo/reseed.ts, resetDue.ts, the   *)
(* cron route).  Visitors change rows and Settings at any time; the cron   *)
(* decides whether a reset is due, then deletes every table, writes the    *)
(* invented data again and records what it left, one statement at a time,  *)
(* and may be stopped at its sixty seconds between any two of them.        *)
(***************************************************************************)
EXTENDS Integers, FiniteSets, SequencesExt

CONSTANTS
    Tables,        \* tables of rows, in the order they are written
    VisitorKeys,   \* the Settings a visitor's buttons write
    Releases,      \* commits deployed, in order: 1 .. a bound
    DemoMonths,    \* 1 .. a bound
    HoldAfter,     \* resets that spend DEMO_RESET_CAP_SHARE of a month
    MaxStops,      \* bound on resets stopped or failed
    NoRecord

ASSUME DemoAssumption == Tables \in Seq(Range(Tables)) /\ "Setting" \notin Range(Tables)

VARIABLES
    month, release,
    demo,      \* [Tables and Settings -> [seed, by]]: written for, touched by a visitor
    record,    \* Setting demo.lastReset
    reset,     \* the cron's run: [at, done, plan, digest]
    resets,    \* this month's resets as the usage meter has them
    stops

dvars == <<month, release, demo, record, reset, resets, stops>>

Places == Range(Tables) \union VisitorKeys

\* The Settings the reset deletes.
wipedKeys ==
    {"goals.savings", "goals.netWorth", "readiness.house", "cash.additionalAccountIds",
     "backup.lastRun", "lastSync:SIMPLEFIN"}
wiped == Range(Tables) \union (VisitorKeys \intersect wipedKeys)
steps == Append(Tables, "Setting")

Empty == [seed |-> <<>>, by |-> "none"]
plan == <<month, release>>
AtRest == [at |-> "idle", left |-> <<>>, plan |-> <<>>, digest |-> <<>>]

DemoInit ==
    /\ month = 1 /\ release = 1
    /\ demo = [p \in Places |-> Empty]
    /\ record = NoRecord
    /\ reset = AtRest
    /\ resets = 0 /\ stops = 0

\* A visitor's edit; "old" once a reset begins after it.
VisitorChanges(p) ==
    /\ demo' = [demo EXCEPT ![p].by = "new"]
    /\ demo' # demo
    /\ UNCHANGED <<month, release, record, reset, resets, stops>>

NewMonth ==
    /\ month + 1 \in DemoMonths
    /\ month' = month + 1 /\ resets' = 0
    /\ UNCHANGED <<release, demo, record, reset, stops>>

NewRelease ==
    /\ release + 1 \in Releases
    /\ release' = release + 1
    /\ UNCHANGED <<month, demo, record, reset, resets, stops>>

\* demoDigest: every row and Setting but the login's floor and the record.
digestOf(d) == [p \in Places |-> <<d[p].seed, d[p].by # "none">>]

demoResetHold == resets >= HoldAfter
resetDueUnseen == ~(record # NoRecord /\ record.release = release /\ record.month = month)
demoResetDue == ~(~resetDueUnseen /\ digestOf(demo) = record.digest)

CronDecides ==
    /\ reset = AtRest /\ ~demoResetHold /\ demoResetDue
    /\ reset' = [AtRest EXCEPT !.at = "wiping", !.left = Reverse(steps), !.plan = plan]
    /\ demo' = [p \in Places |-> [demo[p] EXCEPT !.by = IF @ = "new" THEN "old" ELSE @]]
    /\ UNCHANGED <<month, release, record, resets, stops>>

\* The tables and the Settings are each one statement.
placesOf(step) == IF step = "Setting" THEN VisitorKeys \intersect wipedKeys ELSE {step}

advance(next, todo) ==
    reset' = IF Len(reset.left) = 1
             THEN [reset EXCEPT !.at = next, !.left = todo]
             ELSE [reset EXCEPT !.left = Tail(@)]

\* deleteMany: children before what they refer to.
Wipe ==
    /\ reset.at = "wiping"
    /\ demo' = [p \in Places |-> IF p \in placesOf(Head(reset.left)) THEN Empty ELSE demo[p]]
    /\ advance("writing", steps)
    /\ UNCHANGED <<month, release, record, resets, stops>>

\* The plan made when the run began, beside whatever a visitor put there
\* since the table was emptied.
WriteDemoData ==
    /\ reset.at = "writing"
    /\ demo' = [p \in Places |->
            IF p \in placesOf(Head(reset.left)) THEN [demo[p] EXCEPT !.seed = reset.plan]
            ELSE demo[p]]
    /\ advance("reading", <<>>)
    /\ UNCHANGED <<month, release, record, resets, stops>>

\* recordDemoReset reads what the data looks like now ...
ReadDigest ==
    /\ reset.at = "reading"
    /\ reset' = [reset EXCEPT !.at = "recording", !.digest = digestOf(demo)]
    /\ UNCHANGED <<month, release, demo, record, resets, stops>>

\* ... and writes it beside the date the run began at and its release.
recordOf_Now(r) == [month |-> month, release |-> r.plan[2], digest |-> r.digest]
recordOf(r) == [month |-> r.plan[1], release |-> r.plan[2], digest |-> r.digest]

RecordDemoReset ==
    /\ reset.at = "recording"
    /\ record' = recordOf(reset)
    /\ reset' = AtRest
    /\ resets' = resets + 1
    /\ UNCHANGED <<month, release, demo, stops>>

\* Out of time, or a statement fails: the rest is not done.
ResetStops ==
    /\ reset # AtRest /\ stops < MaxStops
    /\ stops' = stops + 1
    /\ reset' = AtRest
    /\ UNCHANGED <<month, release, demo, record, resets>>

DemoNext ==
    \/ \E p \in Places : VisitorChanges(p)
    \/ NewMonth \/ NewRelease
    \/ CronDecides \/ Wipe \/ WriteDemoData \/ ReadDigest \/ RecordDemoReset \/ ResetStops

DemoSpec == DemoInit /\ [][DemoNext]_dvars

\* A demo that a stopped reset left with tables missing, or with data of an
\* earlier month or release, is never taken for an unchanged one: the next
\* cron that is not held resets it.
NotDueIsWhole ==
    reset = AtRest /\ ~demoResetDue =>
        \A p \in wiped : demo[p].seed = plan

\* "Whatever you change is put back overnight" (app/login/page.tsx:43,
\* README.md:13): a reset that completes leaves nothing a visitor had changed
\* before it began.
VisitorsUndone ==
    [][ RecordDemoReset => \A p \in Places : demo[p].by # "old" ]_dvars
=============================================================================
