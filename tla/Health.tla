------------------------------- MODULE Health -------------------------------
(***************************************************************************)
(* What the instance says of its own feeds: provider health derived from   *)
(* sync history, balances and volume (health/health.ts), the rate feed and *)
(* the nightly backup (health/backup.ts), the page that reads them         *)
(* (ui/providers.ts, app/providers/page.tsx) and the state a page falls to *)
(* when its database does not answer (ui/dbHealth.ts).                     *)
(*                                                                         *)
(* The clock counts half days; the sync, the rate fetch and the backup run *)
(* at each whole one.  A part of the world that works, or fails in one of  *)
(* the ways known, keeps on so until it turns.                             *)
(***************************************************************************)
EXTENDS Integers, Sequences, FiniteSets, FiniteSetsExt, SequencesExt

CONSTANTS
    Checked, Exempt,        \* accounts: gap-checked, and INVESTMENT ones
    OVERDUE, STALE, GAP_WINDOW, GAP_MONTH, GAP_MIN_TYPICAL,
    RATE_STALE_DAYS,
    BACKUP_WARN_AFTER_NIGHTS, BACKUP_ERROR_AFTER_NIGHTS,
    LOGS_PAGE_SIZE,
    History, FirstRows,     \* days of rows before the first, and the rows there may be of them
    Nights, MaxTurns,       \* bounds
    NoRun                   \* nothing recorded

ASSUME HealthAssumption ==
    /\ {OVERDUE, STALE, GAP_MONTH, GAP_MIN_TYPICAL, BACKUP_WARN_AFTER_NIGHTS, BACKUP_ERROR_AFTER_NIGHTS, Nights}
          \subseteq Nat
    /\ {GAP_WINDOW, RATE_STALE_DAYS, LOGS_PAGE_SIZE} \subseteq Nat \ {0}
    /\ BACKUP_WARN_AFTER_NIGHTS <= BACKUP_ERROR_AFTER_NIGHTS
    /\ History \in Nat /\ FirstRows \subseteq SUBSET (-History..0)
    /\ Checked # {} /\ NoRun \notin Int

VARIABLES
    clock,      \* in half days
    world,      \* how each part works: [feed, sync, backup, rates]
    turned,     \* [the same parts -> the day it last turned]
    feedRows,   \* days on which the feed had a row of a checked account
    feedDate,   \* the day its balances are of
    rowsHeld, balanceDate, \* the same in the database
    syncLogs,   \* newest first: [day, ok, notices]
    rate,       \* [observed, failed], or NoRun
    backup,     \* the Setting: [at, mirror], or NoRun
    slot,       \* the night the recorded backup is of
    pager,      \* [page, seen, sought] of a reader of the history, or NoRun
    turns       \* what turned, and readers

hvars == <<clock, world, turned, feedRows, feedDate, rowsHeld, balanceDate, syncLogs, rate, backup, slot, pager, turns>>

today == clock \div 2
Ways == [feed |-> {"alive", "silent", "frozen"}, sync |-> {"ok", "noted", "warned", "failing", "stopped"},
         backup |-> {"mirrored", "late", "refused", "missed"}, rates |-> {"fresh", "failing"}]
WellWorld == [feed |-> "alive", sync |-> "ok", backup |-> "mirrored", rates |-> "fresh"]

HealthInit ==
    /\ clock = 0 /\ world = WellWorld /\ turned = [p \in DOMAIN Ways |-> IF p = "feed" THEN 0 ELSE -History]
    /\ feedRows \in FirstRows /\ rowsHeld = feedRows
    /\ feedDate = 0 /\ balanceDate = 0
    /\ syncLogs = <<[day |-> 0, ok |-> TRUE, notices |-> {}]>>
    /\ rate \in {NoRun, [observed |-> -1, failed |-> FALSE]}
    /\ backup \in {NoRun, [at |-> 0, mirror |-> "mirrored"]} /\ slot = 0
    /\ pager = NoRun /\ turns = 0

-----------------------------------------------------------------------------
(* health.ts *)

\* By the age of the balance.
findStaleAccounts == IF today - balanceDate > STALE THEN Checked \union Exempt ELSE {}

\* By rows in the recent window against the account's own rate before it: a
\* quarter of it is a gap.  INVESTMENT accounts are exempt.
historical == {d \in rowsHeld : d < today - GAP_WINDOW}
recent == {d \in rowsHeld : d >= today - GAP_WINDOW}
findGappedAccounts ==
    LET span == today - GAP_WINDOW - Min(historical)
    IN IF historical = {} THEN {}
       ELSE IF span < GAP_MONTH \/ Cardinality(historical) * GAP_MONTH < GAP_MIN_TYPICAL * span THEN {}
       ELSE IF 4 * Cardinality(recent) * span < Cardinality(historical) * GAP_WINDOW THEN Checked ELSE {}

lastOkDay == LET ok == {i \in DOMAIN syncLogs : syncLogs[i].ok} IN IF ok = {} THEN NoRun ELSE syncLogs[Min(ok)].day
syncOverdue == IF lastOkDay = NoRun THEN TRUE ELSE today - lastOkDay > OVERDUE

isExpectedFeedNotice(n) == n = "range"

\* An expected notice is reported and degrades nothing.
deriveStatus(last, overdue, stale, gapped) ==
    IF ~last.ok THEN "ERROR"
    ELSE IF (\E n \in last.notices : ~isExpectedFeedNotice(n)) \/ overdue \/ stale \/ gapped THEN "WARN"
    ELSE "OK"
providerStatus == deriveStatus(Head(syncLogs), syncOverdue, findStaleAccounts # {}, findGappedAccounts # {})

\* The rate feed's health is its stored observation; none, no card.
deriveFredRateStatus ==
    IF rate.failed \/ today - rate.observed > RATE_STALE_DAYS THEN "WARN" ELSE "OK"

-----------------------------------------------------------------------------
(* backup.ts: whole days since the run; a mirror that did not happen warns. *)

ageDays == (clock - backup.at) \div 2
deriveBackupStatus_AgeAlone ==
    IF ageDays > BACKUP_ERROR_AFTER_NIGHTS THEN "ERROR" ELSE IF ageDays > BACKUP_WARN_AFTER_NIGHTS THEN "WARN" ELSE "OK"
deriveBackupStatus ==
    IF ageDays > BACKUP_ERROR_AFTER_NIGHTS THEN "ERROR"
    ELSE IF ageDays > BACKUP_WARN_AFTER_NIGHTS \/ backup.mirror # "mirrored" THEN "WARN"
    ELSE "OK"

-----------------------------------------------------------------------------
(* providers.ts: the one line, and the history's pages. *)

feedLevels == {providerStatus} \union (IF rate = NoRun THEN {} ELSE {deriveFredRateStatus})
providersVerdict ==
    LET levels == feedLevels \union (IF backup = NoRun THEN {} ELSE {deriveBackupStatus})
    IN [level |-> IF "ERROR" \in levels THEN "ERROR" ELSE IF "WARN" \in levels THEN "WARN" ELSE "OK",
        feeds |-> IF feedLevels \subseteq {"OK"} THEN "All feeds OK" ELSE "needs a look",
        backup |-> IF backup = NoRun THEN NoRun ELSE deriveBackupStatus]

lastPage == LET pages == -((-Len(syncLogs)) \div LOGS_PAGE_SIZE) IN IF pages < 1 THEN 1 ELSE pages
pageShown(requested) == IF requested < 1 THEN 1 ELSE IF requested > lastPage THEN lastPage ELSE requested
logsOn(page) == ToSet(SubSeq(syncLogs, (page - 1) * LOGS_PAGE_SIZE + 1,
                             IF page * LOGS_PAGE_SIZE > Len(syncLogs) THEN Len(syncLogs) ELSE page * LOGS_PAGE_SIZE))

OpenHistory ==
    /\ pager = NoRun /\ Len(syncLogs) > LOGS_PAGE_SIZE
    /\ turns < MaxTurns /\ turns' = turns + 1
    /\ pager' = [page |-> 1, seen |-> logsOn(1), sought |-> ToSet(syncLogs)]
    /\ UNCHANGED <<clock, world, turned, feedRows, feedDate, rowsHeld, balanceDate, syncLogs, rate, backup, slot>>
\* The link under the page shown; nights may have passed since it was drawn.
Older ==
    /\ pager # NoRun
    /\ pager.page < lastPage
    /\ LET page == pageShown(pager.page + 1)
       IN pager' = [pager EXCEPT !.page = page, !.seen = @ \union logsOn(page)]
    /\ UNCHANGED <<clock, world, turned, feedRows, feedDate, rowsHeld, balanceDate, syncLogs, rate, backup, slot, turns>>

-----------------------------------------------------------------------------
(* The world. *)

Turn(part, way) ==
    /\ turns < MaxTurns /\ clock % 2 = 1 /\ way # world[part]
    /\ world' = [world EXCEPT ![part] = way] /\ turned' = [turned EXCEPT ![part] = today]
    /\ turns' = turns + 1
    /\ UNCHANGED <<clock, feedRows, feedDate, rowsHeld, balanceDate, syncLogs, rate, backup, slot, pager>>

\* A sync brings the rows and balances there are, and then tries the rate; a
\* failed one leaves only its log.
synced(day, rows, date) ==
    LET ok == world.sync \in {"ok", "noted", "warned"}
        notices == IF world.sync = "noted" THEN {"range"} ELSE IF world.sync = "warned" THEN {"range", "other"} ELSE {}
    IN /\ syncLogs' = IF world.sync = "stopped" THEN syncLogs
                      ELSE <<[day |-> day, ok |-> ok, notices |-> notices]>> \o syncLogs
       /\ rowsHeld' = IF ok THEN rows ELSE rowsHeld
       /\ balanceDate' = IF ok THEN date ELSE balanceDate
       /\ rate' = IF rate = NoRun \/ ~ok THEN rate
                  ELSE IF world.rates = "failing" THEN [rate EXCEPT !.failed = TRUE]
                  ELSE [observed |-> day - 1, failed |-> FALSE]

\* Only a verified run is recorded, when it is done.
backedUp(day) ==
    IF backup = NoRun \/ world.backup \in {"missed", "late"} THEN UNCHANGED <<backup, slot>>
    ELSE backup' = [at |-> 2 * day, mirror |-> world.backup] /\ slot' = day

Night ==
    /\ clock % 2 = 1 /\ today < Nights
    /\ clock' = clock + 1
    /\ LET day == today + 1 IN
       /\ feedRows' = IF world.feed = "alive" THEN feedRows \union {day} ELSE feedRows
       /\ feedDate' = IF world.feed # "frozen" THEN day ELSE feedDate
       /\ synced(day, feedRows', feedDate')
       /\ backedUp(day)
    /\ UNCHANGED <<world, turned, pager, turns>>
\* A slow backup is done half a day on.
Midday ==
    /\ clock % 2 = 0
    /\ clock' = clock + 1
    /\ IF backup # NoRun /\ world.backup = "late" /\ today > turned.backup
       THEN backup' = [at |-> clock + 1, mirror |-> "mirrored"] /\ slot' = today
       ELSE UNCHANGED <<backup, slot>>
    /\ UNCHANGED <<world, turned, feedRows, feedDate, rowsHeld, balanceDate, syncLogs, rate, pager, turns>>

HealthNext ==
    \/ \E part \in DOMAIN Ways : \E way \in Ways[part] : Turn(part, way)
    \/ Night \/ Midday \/ OpenHistory \/ Older

HealthSpec == HealthInit /\ [][HealthNext]_hvars

-----------------------------------------------------------------------------
(* dbHealth.ts: an error as [stamped, codes, says]: whether a query of the  *)
(* database threw it, the codes and the marks of its messages down the      *)
(* chain of causes.                                                         *)

TransportCodes == {"ENOTFOUND", "ECONNREFUSED", "ETIMEDOUT"}
databaseFailure(e) ==
    IF ~e.stamped THEN NoRun
    ELSE IF e.says \cap {"reads blocked", "writes blocked", "blocked"} # {} THEN "usage-blocked"
    ELSE IF e.codes \cap TransportCodes # {} \/ e.says \cap {"HTTP status", "fetch failed"} # {} THEN "unreachable"
    ELSE IF "cannot open" \in e.says THEN "unopenable"
    ELSE IF "not a database" \in e.says THEN "not-a-database"
    ELSE IF "no such table" \in e.says THEN "no-tables"
    ELSE NoRun

\* What the driver throws for what is wrong, through a model query or a raw one.
thrown(what, raw) ==
    LET query(codes, says) == [stamped |-> TRUE, codes |-> codes \union (IF raw THEN {"P2010"} ELSE {}), says |-> says]
    IN CASE what = "outage" -> query({}, {"HTTP status"})
         [] what = "no host" -> query({"ENOTFOUND"}, {"fetch failed"})
         [] what = "bad port" -> query({}, {"fetch failed"})
         [] what = "quota" -> query({"P2039"}, {"reads blocked", "blocked"})
         [] what = "no folder" -> query({}, {"cannot open"})
         [] what = "not a database" -> query({}, {"not a database"})
         [] what = "no table" -> query({}, {"no such table"})
         [] what = "rates down" -> [stamped |-> FALSE, codes |-> {"ENOTFOUND"}, says |-> {"fetch failed"}]
         [] what = "bad query" -> query({}, {"syntax"})
         [] what = "bug" -> [stamped |-> FALSE, codes |-> {}, says |-> {"undefined"}]

-----------------------------------------------------------------------------
well(part) == world[part] \in {WellWorld[part], "noted", "late"}
forDays(part) == today - turned[part]

\* An account's rows, over the days from its first to the window, still average
\* what it takes to be held to a rate: silent days thin them.
stillTypical ==
    LET span == today - GAP_WINDOW - Min(rowsHeld)
    IN rowsHeld # {} /\ span >= GAP_MONTH /\ Cardinality(rowsHeld) * GAP_MONTH >= GAP_MIN_TYPICAL * span
silentPast(days) == world.feed = "silent" /\ forDays("feed") > days

\* Nothing dies quietly: a sync, a rate or a frozen feed that has stopped
\* working shows before its allowance of days is over, whatever still works
\* ("a light that never goes green is one nobody reads" has its other half);
\* a silent feed shows while its account's record is still typical.
NothingDiesQuietly ==
    /\ world.sync = "stopped" /\ forDays("sync") > OVERDUE + 1 => providerStatus # "OK"
    /\ world.sync = "failing" /\ forDays("sync") >= 1 /\ clock % 2 = 1 => providerStatus = "ERROR"
    /\ world.feed = "frozen" /\ forDays("feed") > STALE => providerStatus # "OK"
    /\ silentPast(GAP_WINDOW) /\ stillTypical => providerStatus # "OK"
    /\ rate # NoRun /\ world.rates = "failing" /\ forDays("rates") > RATE_STALE_DAYS => deriveFredRateStatus = "WARN"
    /\ rate # NoRun /\ world.sync \in {"failing", "stopped"} /\ forDays("sync") > RATE_STALE_DAYS
          => deriveFredRateStatus = "WARN"

\* A backup warns by the nights it missed: never for one, always after two;
\* and a mirror that did not happen shows the night it did not.
BackupCountsNights ==
    backup # NoRun =>
        LET missed == today - slot IN
        /\ missed <= BACKUP_WARN_AFTER_NIGHTS /\ backup.mirror = "mirrored" => deriveBackupStatus = "OK"
        /\ missed > BACKUP_WARN_AFTER_NIGHTS + 1 => deriveBackupStatus # "OK"
        /\ missed > BACKUP_ERROR_AFTER_NIGHTS + 1 => deriveBackupStatus = "ERROR"
        /\ backup.mirror = "refused" => providersVerdict.level # "OK"

\* And green means well, and comes back: where everything has worked for a
\* window's time, expected notices and slow nights included, nothing warns.
GreenComesBack ==
    (\A part \in DOMAIN Ways : well(part) /\ forDays(part) > GAP_WINDOW) =>
        providersVerdict.level = "OK" /\ providersVerdict.feeds = "All feeds OK"

\* Following "older" to the end shows every sync there was when the reader
\* began, whatever ran meanwhile.
HistoryIsReachable ==
    pager # NoRun => (pager.page = lastPage => pager.sought \subseteq pager.seen)

\* A page names an outage where there is one, and nothing else is called one:
\* a rate host that is down throws what a database host that is down throws.
OutageIsNamed ==
    clock = 0 =>
        \A raw \in BOOLEAN :
           /\ \A what \in {"outage", "no host", "bad port"} : databaseFailure(thrown(what, raw)) = "unreachable"
           /\ databaseFailure(thrown("quota", raw)) = "usage-blocked"
           /\ databaseFailure(thrown("no folder", raw)) = "unopenable"
           /\ databaseFailure(thrown("not a database", raw)) = "not-a-database"
           /\ databaseFailure(thrown("no table", raw)) = "no-tables"
           /\ \A what \in {"rates down", "bad query", "bug"} : databaseFailure(thrown(what, raw)) = NoRun

\* Stated, and not so: once silent days have thinned the record of a silent feed
\* below the least rate, the account is no longer checked and the page goes
\* green again (health.ts:154-158; 79-83 names such a feed as what it is for).
SilenceKeepsShowing ==
    silentPast(GAP_WINDOW) /\ rowsHeld # {} /\ turned.feed - Min(rowsHeld) >= GAP_MONTH
    /\ Cardinality(rowsHeld) * GAP_MONTH >= GAP_MIN_TYPICAL * (turned.feed - Min(rowsHeld))
        => providerStatus # "OK"

HealthTellsTheTruth ==
    /\ NothingDiesQuietly /\ BackupCountsNights /\ GreenComesBack /\ HistoryIsReachable /\ OutageIsNamed
=============================================================================
