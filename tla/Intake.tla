------------------------------- MODULE Intake -------------------------------
(***************************************************************************)
(* How rows reach the ledger (sync/sync.ts up to its insert and its        *)
(* cursor, connectors/simplefin.ts, sync/statementImport.ts): the nightly  *)
(* feed, which asks for a window that starts a week before the last        *)
(* finished run, and the import of statements, planned from one read of    *)
(* the database and written later.  Both are killed anywhere; both hold    *)
(* the sync lock (module SyncLock) while the pipeline runs.                *)
(*                                                                         *)
(* A purchase is one movement of money at the bank: the feed dates it when *)
(* it posts and shows it some days later, a statement lists it under a day *)
(* of its own.  Every purchase has the same amount, the case in which one  *)
(* can be taken for another.  A row is stored under its source's id, so    *)
(* <<"feed", p>> and <<"pdf", p>> are two rows.  A statement file holds    *)
(* one account; its institution and name match one account or none.        *)
(* X_Fault is the form a plausible bug would give X.                       *)
(***************************************************************************)
EXTENDS Overlap, FiniteSetsExt

CONSTANTS
    Purchases,
    post, seen,     \* [Purchases -> Nat]: the feed's date, the day it shows it
    printedOn,      \* [Purchases -> Nat]: the day on its statement
    closed,         \* purchases of an account no feed covers
    Statements,
    period,         \* [Statements -> [from, to]]
    ofClosed,       \* statements of that account
    Imports,        \* the files of a run, sequences of statements
    Reach,          \* maxHistoryDays: days the feed holds
    ListReach,      \* days listAccounts asks for
    Lookback,       \* days the window starts before the cursor
    Window,         \* --match-days
    MaxDay,         \* bound on the days
    MaxMishaps,     \* bound on killed and failed runs
    None

ASSUME IntakeAssumption ==
    /\ Reach \in Nat /\ ListReach \in 0..Reach /\ Lookback \in Nat
    /\ Window \in Nat /\ MaxDay \in Nat /\ MaxMishaps \in Nat /\ None \notin Int
    /\ Imports \subseteq Seq(Statements)
    /\ \A p \in Purchases : post[p] \in Nat /\ seen[p] \in Nat
    /\ \A p \in Purchases : post[p] <= seen[p] /\ seen[p] - post[p] <= Lookback

VARIABLES
    today,
    stored,         \* rows of the ledger: <<source, purchase>>
    accounts,       \* which of "card" and "old" exist
    snapshots,      \* dated balances, on the days a statement opens or closes
    batches,        \* ImportBatch: statements recorded as imported
    cursor,         \* lastSync, or None
    lockOf,         \* who holds the lock, or None
    feed, import,   \* the two processes
    told,           \* days a SyncLog warns it could not fetch
    mishaps,
    since0,         \* the first day any window asked for, or None
    upTo,           \* the day of the answer the newest finished run stored
    untold,         \* days of a warning killed before its SyncLog
    later,          \* purchases the feed stored after a plan had listed them
    owed            \* [Statements -> rows its last plan was to add]

ivars == <<today, stored, accounts, snapshots, batches, cursor, lockOf,
           feed, import, told, mishaps, since0, upTo, untold, later, owed>>

AccountOf(s) == IF s \in ofClosed THEN "old" ELSE "card"
AccountOfRow(r) == IF r[2] \in closed THEN "old" ELSE "card"
rowDay(r) == IF r[1] = "feed" THEN post[r[2]] ELSE printedOn[r[2]]
rowsOn(s) == {p \in Purchases : (p \in closed) = (s \in ofClosed)
                 /\ printedOn[p] > period[s].from /\ printedOn[p] <= period[s].to}

Resting == [at |-> "idle", day |-> 0, since |-> 0, gap |-> {}, answer |-> {}, from |-> 0]
NoPlan == [at |-> "idle", day |-> 0, take |-> {}, add |-> {}, new |-> FALSE, snaps |-> {}]

IntakeInit ==
    /\ today = 1
    /\ stored = {} /\ accounts = {} /\ snapshots = {}
    /\ batches = {} /\ cursor = None /\ lockOf = None
    /\ feed = Resting /\ import = NoPlan
    /\ told = {} /\ mishaps = 0
    /\ since0 = None /\ upTo = 0 /\ untold = {} /\ later = {}
    /\ owed = [s \in Statements |-> {}]

-----------------------------------------------------------------------------
(* Time.  A run takes minutes: it may see midnight, never two of them. *)

Tomorrow ==
    /\ today < MaxDay
    /\ feed.at # "idle" => feed.day = today
    /\ import.at # "idle" => import.day = today
    /\ today' = today + 1
    /\ UNCHANGED <<stored, accounts, snapshots, batches, cursor, lockOf,
                   feed, import, told, mishaps, since0, upTo, untold, later, owed>>

-----------------------------------------------------------------------------
(* The feed. *)

importVars == <<snapshots, batches, import, owed>>
ghosts == <<since0, upTo, untold, later>>

windowFrom_NoLookback == IF cursor = None THEN today - Reach ELSE cursor

\* The default window: a week before the last finished run, or all the feed
\* holds the first time; a longer one is narrowed to what it holds.
windowFrom == IF cursor = None THEN today - Reach ELSE cursor - Lookback

reach == today - Reach
gapOf(since) == since..(reach - 1)

FeedStarts ==
    /\ feed.at = "idle" /\ lockOf = None
    /\ lockOf' = "feed"
    /\ feed' = [Resting EXCEPT !.at = "list", !.day = today,
                    !.since = Max({windowFrom, reach}), !.gap = gapOf(windowFrom)]
    /\ UNCHANGED <<today, stored, accounts, cursor, told, mishaps, importVars, ghosts>>

shown(since) == {p \in Purchases \ closed : seen[p] <= today /\ post[p] >= since}

closings == {<<"card", period[s].to>> : s \in Statements}

\* listAccounts: one request, 30 days back; the accounts and their balances.
ListAccounts ==
    /\ feed.at = "list"
    /\ feed' = [feed EXCEPT !.at = "fetch", !.from = today - ListReach,
                    !.answer = shown(today - ListReach)]
    /\ accounts' = accounts \union {"card"}
    /\ snapshots' = snapshots \union ({<<"card", today>>} \intersect closings)
    /\ UNCHANGED <<today, stored, batches, cursor, lockOf, import, told, mishaps, ghosts, owed>>

\* fetchData: the cached answer serves a window that starts no earlier.
cacheServes == feed.from <= feed.since

FetchTransactions ==
    /\ feed.at = "fetch"
    /\ feed' = [feed EXCEPT !.at = "insert",
            !.answer = IF cacheServes THEN {p \in @ : post[p] >= feed.since}
                       ELSE shown(feed.since)]
    /\ UNCHANGED <<today, stored, accounts, cursor, lockOf, told, mishaps,
                   importVars, ghosts>>

planned == {r[2] : r \in import.add} \union {r[2] : r \in {x \in stored : x[1] = "pdf"}}

InsertFeed ==
    /\ feed.at = "insert"
    /\ LET rows == {<<"feed", p>> : p \in feed.answer} IN
        /\ stored' = stored \union rows
        /\ later' = later \union {r[2] : r \in {x \in rows \ stored : x[2] \in planned}}
    /\ feed' = [feed EXCEPT !.at = "finish"]
    /\ UNCHANGED <<today, accounts, cursor, lockOf, told, mishaps, importVars,
                   since0, upTo, untold>>

\* The cursor is the moment the run ends, and is written only here.
cursorAt == today
FinishFeed ==
    /\ feed.at = "finish"
    /\ cursor' = cursorAt
    /\ since0' = IF since0 = None THEN feed.since ELSE since0
    /\ upTo' = feed.day
    /\ untold' = untold \union feed.gap
    /\ feed' = [feed EXCEPT !.at = "log"]
    /\ UNCHANGED <<today, stored, accounts, lockOf, told, mishaps, importVars, later>>

LogFeed ==
    /\ feed.at = "log"
    /\ told' = told \union feed.gap
    /\ untold' = untold \ feed.gap
    /\ feed' = Resting
    /\ lockOf' = None
    /\ UNCHANGED <<today, stored, accounts, cursor, mishaps, importVars,
                   since0, upTo, later>>

\* The feed answers an error: the run is logged as failed and leaves the
\* cursor where it was.
FeedFails ==
    /\ mishaps < MaxMishaps
    /\ feed.at \in {"list", "fetch"}
    /\ feed' = Resting
    /\ lockOf' = None
    /\ mishaps' = mishaps + 1
    /\ UNCHANGED <<today, stored, accounts, cursor, told, importVars, ghosts>>

-----------------------------------------------------------------------------
(* The import. *)

feedVars == <<cursor, feed, told, since0, upTo, untold, later>>

overlaps(s, t) ==
    /\ AccountOf(s) = AccountOf(t)
    /\ period[s].from < period[t].to /\ period[s].to > period[t].from

\* Of the files of a run, in their order: not one recorded already, nor one
\* whose period overlaps a recorded or an earlier accepted one's, nor one with
\* no account unless the run creates it.
acceptedFiles(files, creates) ==
    LET ok(s, taken) ==
            /\ s \notin batches
            /\ AccountOf(s) \in accounts \/ (creates /\ AccountOf(s) = "old")
            /\ ~\E t \in batches \union taken : overlaps(s, t)
        take(taken, s) == IF ok(s, taken) THEN taken \union {s} ELSE taken
    IN FoldLeft(take, {}, files)

\* What one account's statements say of its stored rows.
verdicts(ss, a) ==
    LET on == UNION {rowsOn(s) : s \in ss}
        here == {r \in stored : AccountOfRow(r) = a}
        present == {p \in on : <<"pdf", p>> \in here}
        incoming == {[key |-> p, day |-> printedOn[p], nth |-> p, amount |-> 1,
                      posted |-> NotLate] : p \in on \ present}
        held == {[id |-> 2 * r[2] + (IF r[1] = "feed" THEN 1 ELSE 0), day |-> rowDay(r), amount |-> 1] :
                    r \in here \ {<<"pdf", p>> : p \in present}}
        start == IF here = {} THEN MaxDay + 1 ELSE Min({rowDay(r) : r \in here})
    IN matchOverlap(incoming, held, Window, start)

rowsToAdd(ss) ==
    UNION {LET v == verdicts({s \in ss : AccountOf(s) = a}, a)
           IN {<<"pdf", p>> : p \in {q \in DOMAIN v : isAdded(v[q])}} : a \in {"card", "old"}}

\* A closing balance per statement, and an opening zero for an account that
\* begins with its first statement, where no snapshot is of that day.
snapshotsOf(ss) ==
    LET close == {<<AccountOf(s), period[s].to>> : s \in ss}
        firstOf(a) == CHOOSE s \in {t \in ss : AccountOf(t) = a} :
                        \A t \in ss : AccountOf(t) = a => period[s].from <= period[t].from
        opens(a) == /\ a = "old"
                    /\ \A r \in stored : AccountOfRow(r) = a => rowDay(r) >= period[firstOf(a)].from
                    /\ \A n \in snapshots : n[1] = a => n[2] > period[firstOf(a)].from
        open == {<<a, period[firstOf(a)].from>> : a \in {b \in {AccountOf(s) : s \in ss} : opens(b)}}
    IN (close \ snapshots) \union open

\* planStatementImport: every read of a plan, made before anything is written.
Plan(files, creates) ==
    /\ import.at = "idle"
    /\ \A i \in DOMAIN files : period[files[i]].to < today
    /\ LET ss == acceptedFiles(files, creates) IN
        /\ ss # {}
        /\ import' = [at |-> "account", day |-> today, take |-> ss, add |-> rowsToAdd(ss),
                      new |-> {AccountOf(s) : s \in ss} \ accounts # {},
                      snaps |-> snapshotsOf(ss)]
        /\ owed' = [s \in Statements |->
                IF s \in ss THEN {r \in rowsToAdd(ss) : r[2] \in rowsOn(s)} ELSE owed[s]]
    /\ UNCHANGED <<today, stored, accounts, snapshots, batches, lockOf, mishaps, feedVars>>

CreateAccount ==
    /\ import.at = "account"
    /\ accounts' = IF import.new THEN accounts \union {"old"} ELSE accounts
    /\ import' = [import EXCEPT !.at = "snapshots"]
    /\ UNCHANGED <<today, stored, snapshots, batches, lockOf, mishaps, owed, feedVars>>

WriteSnapshots ==
    /\ import.at = "snapshots"
    /\ snapshots' = snapshots \union import.snaps
    /\ import' = [import EXCEPT !.at = "claim"]
    /\ UNCHANGED <<today, stored, accounts, batches, lockOf, mishaps, owed, feedVars>>

\* runSync refuses while another run holds the lock: the import ends there.
ClaimForImport ==
    /\ import.at = "claim"
    /\ IF lockOf = None
       THEN lockOf' = "import" /\ import' = [import EXCEPT !.at = "rows"]
       ELSE lockOf' = lockOf /\ import' = NoPlan
    /\ UNCHANGED <<today, stored, accounts, snapshots, batches, mishaps, owed, feedVars>>

\* The rows the plan decided to add, deduped on their own ids only; the
\* account's balance is not touched, a statement's being history.
InsertRows ==
    /\ import.at = "rows"
    /\ stored' = stored \union import.add
    /\ lockOf' = None
    /\ import' = [import EXCEPT !.at = "record"]
    /\ UNCHANGED <<today, accounts, snapshots, batches, mishaps, owed, feedVars>>

recordsAt_First == "claim"

\* Batches go last: a recorded file is never read again.
recordsAt == "record"

RecordBatches ==
    /\ import.at = recordsAt
    /\ batches' = batches \union import.take
    /\ import' = NoPlan
    /\ UNCHANGED <<today, stored, accounts, snapshots, lockOf, mishaps, owed, feedVars>>

-----------------------------------------------------------------------------
(* A killed process; its claim lapses before the next one asks. *)

DieFeed ==
    /\ mishaps < MaxMishaps /\ feed.at # "idle"
    /\ feed' = Resting /\ lockOf' = None /\ mishaps' = mishaps + 1
    /\ UNCHANGED <<today, stored, accounts, cursor, told, importVars, ghosts>>

DieImport ==
    /\ mishaps < MaxMishaps /\ import.at # "idle"
    /\ import' = NoPlan /\ mishaps' = mishaps + 1
    /\ lockOf' = IF lockOf = "import" THEN None ELSE lockOf
    /\ UNCHANGED <<today, stored, accounts, snapshots, batches, owed, feedVars>>

IntakeNext ==
    \/ Tomorrow
    \/ FeedStarts \/ ListAccounts \/ FetchTransactions \/ InsertFeed \/ FinishFeed
    \/ LogFeed \/ FeedFails \/ DieFeed
    \/ \E files \in Imports, creates \in BOOLEAN : Plan(files, creates)
    \/ CreateAccount \/ WriteSnapshots \/ ClaimForImport \/ InsertRows \/ RecordBatches
    \/ DieImport

IntakeSpec == IntakeInit /\ [][IntakeNext]_ivars

-----------------------------------------------------------------------------
(* What it promises. *)

\* What the feed showed by the newest finished run, from the first day ever
\* asked for, is stored, or a SyncLog names its day as out of reach: whatever
\* runs failed or were killed in between ("name what it could not give",
\* sync.ts).  A warning killed with its run after the cursor moved is lost.
FeedComplete ==
    \A p \in Purchases \ closed :
        since0 # None /\ seen[p] <= upTo /\ post[p] >= since0 =>
            <<"feed", p>> \in stored \/ post[p] \in told \union untold

\* A statement is recorded as imported only once every row its plan was to
\* add, and its closing balance, have landed ("written only once everything
\* the file owes has landed", statementImport.ts).
BatchOwesNothing ==
    \A s \in batches :
        owed[s] \subseteq stored /\ <<AccountOf(s), period[s].to>> \in snapshots

\* No purchase counts twice, however often a killed import is run again and
\* whatever its statements share with each other and with the feed: every row
\* can stand for a purchase of its own, within the days two sources may
\* differ by.  Left out are the rows the feed stored after a plan had listed
\* them: the match runs one way only.
NothingTwice ==
    LET counted == stored \ {<<"feed", p>> : p \in later}
        mayBe(r, p) == r[2] = p \/ rowDay(r) \in (printedOn[p] - Window)..(printedOn[p] + Window)
    IN (\E r, q \in counted : r # q /\ r[2] = q[2]) =>
           \E f \in [counted -> Purchases] :
               /\ \A r \in counted : mayBe(r, f[r])
               /\ \A r, q \in counted : f[r] = f[q] => r = q

\* Whatever runs fail or are killed, and whatever their sources share: nothing
\* the feed showed is missing unnamed, no statement is recorded before it is
\* whole, and no purchase counts twice.
IntakeIsWhole == FeedComplete /\ BatchOwesNothing /\ NothingTwice
=============================================================================
