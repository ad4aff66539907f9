------------------------------ MODULE Backups ------------------------------
(***************************************************************************)
(* The copies of the cloud database and what is done with them             *)
(* (scripts/backup-scheduled.ts, cloud-backup.ts, mirror-local.ts and the  *)
(* modules they share): a backup is copied table by table while the cloud  *)
(* is written to, checked, renamed to a name that says it was checked,     *)
(* older ones are pruned, the newest replaces the local database if nobody *)
(* wrote to it, and the run is recorded in the cloud and locally.          *)
(*                                                                         *)
(* A database is its rows, and its settings: `pref' stands for everything  *)
(* the counts and sums of the first check cannot see, `last' for the row   *)
(* backup.lastRun.  A digest is the content it is computed from.  A file   *)
(* name is the date of its run and what its suffix says; two runs within   *)
(* one minute are left out.  X_Fault is the form a plausible bug would     *)
(* give X.                                                                 *)
(***************************************************************************)
EXTENDS Integers, FiniteSets, FiniteSetsExt

CONSTANTS
    CloudRows, LocalRows,   \* rows the cloud and the local app may add
    FirstRow,               \* a row both databases hold at first
    Dates,                  \* dates of runs, 1 .. a bound
    OldDates,               \* of them, runs before this history
    monthOf,                \* [Dates -> Nat]
    DailyKept,              \* DAILY_DATES_KEPT
    MaxPref,                \* bound on changes made in place
    MaxKills,               \* bound on killed or failed processes
    NotYet

ASSUME BackupsAssumption ==
    /\ Dates \subseteq Nat \ {0} /\ OldDates \subseteq Dates
    /\ monthOf \in [Dates -> Nat] /\ DailyKept \in Nat \ {0}
    /\ MaxPref \in Nat /\ MaxKills \in Nat
    /\ IsFiniteSet(OldDates)
    /\ FirstRow \notin LocalRows /\ CloudRows \cap LocalRows = {}

VARIABLES
    cloud, local,   \* the two databases
    files,          \* data/backups: [date, kind, by, db]
    kept,           \* the superseded local databases db:mirror put aside
    state,          \* mirror-state.json: local as it was last recorded, or NotYet
    job,            \* the processes at work
    onDate,         \* date of the newest run
    failures,
    history,        \* every content the cloud has had
    written,        \* the rows local work has added
    exposed         \* those added while a mirror was between read and record

bvars == <<cloud, local, files, kept, state, job, onDate, failures,
           history, written, exposed>>

Jobs == {"backup", "byHand"}
NoDate == 0

Settings == [pref : 0..MaxPref, last : Dates \union {NoDate}]
Database == [rows : SUBSET ({FirstRow} \union CloudRows \union LocalRows),
             set : Settings]

FirstDb == [rows |-> {FirstRow}, set |-> [pref |-> 0, last |-> NoDate]]

Idle == [at |-> "idle", date |-> NoDate, by |-> NotYet, plan |-> FirstDb,
         checks |-> 0, fp |-> FirstDb, remove |-> {}, before |-> FirstDb,
         mirror |-> NotYet]

BackupsInit ==
    /\ cloud = FirstDb
    /\ local = FirstDb
    /\ files = {[date |-> d, kind |-> "verified", by |-> "nightly", db |-> FirstDb]
                  : d \in OldDates}
    /\ kept = {}
    /\ state \in {NotYet, FirstDb}
    /\ job = [j \in Jobs |-> Idle]
    /\ onDate = Max(OldDates \union {NoDate})
    /\ failures = 0
    /\ history = {FirstDb}
    /\ written = {} /\ exposed = {}

-----------------------------------------------------------------------------
(* Names and retention. *)

\* The files that wear the name of a proven backup (BACKUP_FILE): not a
\* copy under way, nor one that failed its checks.
proven == {f \in files : f.kind = "verified"}

newestOf(fs) == CHOOSE f \in fs : \A g \in fs : g.date <= f.date

datesOf_AnyFile(fs) == {f.date : f \in fs}
datesOf(fs) == {f.date : f \in {g \in fs : g.kind = "verified"}}

\* The newest dates, all of whose files stay.
dailyDates(dates) ==
    {d \in dates : Cardinality({e \in dates : e > d}) < DailyKept}

\* Beyond them, the newest date of each month.
monthKeepers(dates) ==
    LET older == dates \ dailyDates(dates) IN
    {d \in older : \A e \in older : monthOf[e] = monthOf[d] => e <= d}

planRetention(dates) == dates \ (dailyDates(dates) \union monthKeepers(dates))

-----------------------------------------------------------------------------
(* What goes on meanwhile: syncs and people write to the cloud, and somebody *)
(* may work in the local app.                                                *)

others == <<files, kept, state, job, onDate, failures>>

CloudAddsRow ==
    \E r \in CloudRows \ cloud.rows :
        /\ cloud' = [cloud EXCEPT !.rows = @ \union {r}]
        /\ history' = history \union {cloud'}
        /\ UNCHANGED <<others, local, written, exposed>>

CloudChangesInPlace ==
    /\ cloud.set.pref < MaxPref
    /\ cloud' = [cloud EXCEPT !.set.pref = @ + 1]
    /\ history' = history \union {cloud'}
    /\ UNCHANGED <<others, local, written, exposed>>

\* A mirror stands between reading what local holds and recording what it
\* was left as: what is written in between is in neither.
Mirroring == {"checking", "copying", "recording", "setCloud", "setLocal", "rerecord"}

mirroring(j) ==
    /\ job[j].at \in Mirroring
    /\ job[j].at = "setCloud" => job[j].mirror \in {"mirrored", "asIs"}

LocalWork ==
    \E r \in LocalRows \ written :
        /\ local' = [local EXCEPT !.rows = @ \union {r}]
        /\ written' = written \union {r}
        /\ exposed' = IF \E j \in Jobs : mirroring(j)
                      THEN exposed \union {r} ELSE exposed
        /\ UNCHANGED <<others, cloud, history>>

-----------------------------------------------------------------------------
(* The backup: backupToFile, then the fingerprints (nightly only). *)

world == <<local, kept, written, exposed>>

Starts(j, from, at) ==
    /\ job[j].at = from
    /\ job' = [job EXCEPT ![j].at = at]

StartBackup ==
    /\ job["backup"].at = "idle"
    /\ \E d \in Dates, by \in {"nightly", "hand"} :
          /\ d = onDate + 1
          /\ onDate' = d
          /\ job' = [job EXCEPT !["backup"] =
                       [Idle EXCEPT !.at = "readSettings", !.date = d, !.by = by]]
    /\ UNCHANGED <<world, cloud, files, state, failures, history>>

\* readPlan, one query per table; Setting comes before Transaction.
ReadSettings ==
    /\ job["backup"].at = "readSettings"
    /\ job' = [job EXCEPT !["backup"].at = "readRows", !["backup"].plan.set = cloud.set]
    /\ UNCHANGED <<world, cloud, files, state, onDate, failures, history>>

ReadRows ==
    /\ job["backup"].at = "readRows"
    /\ job' = [job EXCEPT !["backup"].at = "checks", !["backup"].plan.rows = cloud.rows]
    /\ UNCHANGED <<world, cloud, files, state, onDate, failures, history>>

\* integrityOf(src), then the empty tables of the new file.
partialOf(j) == [date |-> job[j].date, kind |-> "partial", by |-> job[j].by,
                 db |-> [FirstDb EXCEPT !.rows = {}]]

ReadChecks ==
    /\ job["backup"].at = "checks"
    /\ job' = [job EXCEPT !["backup"].at = "filling",
                          !["backup"].checks = Cardinality(cloud.rows)]
    /\ files' = files \union {partialOf("backup")}
    /\ UNCHANGED <<world, cloud, state, onDate, failures, history>>

named(j, kind) == [date |-> job[j].date, kind |-> kind, by |-> job[j].by,
                   db |-> job[j].plan]

renamed(j, kind) == {f \in files : f.date # job[j].date} \union {named(j, kind)}

\* clearAndCopy and verifyAgainst: the counts and sums of the file against
\* those of the source.  The hand-run command stops here and names the file.
Fill ==
    /\ job["backup"].at = "filling"
    /\ LET ok == Cardinality(job["backup"].plan.rows) = job["backup"].checks
           nightly == job["backup"].by = "nightly"
       IN /\ files' = renamed("backup", IF ~ok THEN "unverified"
                                        ELSE IF nightly THEN "partial" ELSE "verified")
          /\ job' = [job EXCEPT !["backup"] =
                       IF ok /\ nightly THEN [@ EXCEPT !.at = "fpSettings"] ELSE Idle]
    /\ UNCHANGED <<world, cloud, state, onDate, failures, history>>

FingerprintSettings ==
    /\ job["backup"].at = "fpSettings"
    /\ job' = [job EXCEPT !["backup"].at = "fpRows", !["backup"].fp.set = cloud.set]
    /\ UNCHANGED <<world, cloud, files, state, onDate, failures, history>>

\* What the two digests must agree on before the file takes its name.
matches_CountsOnly(j) == TRUE
matches(j) == job[j].plan = [job[j].fp EXCEPT !.rows = cloud.rows]

\* The cloud's digest against the file's; then the name, and the list of
\* what retention will remove, read with the new name in the directory.
Fingerprint ==
    /\ job["backup"].at = "fpRows"
    /\ LET named_ == renamed("backup", "verified")
       IN IF matches("backup")
          THEN /\ files' = named_
               /\ job' = [job EXCEPT !["backup"].at = "pruning",
                                     !["backup"].remove = planRetention(datesOf(named_))]
          ELSE /\ files' = renamed("backup", "unverified")
               /\ job' = [job EXCEPT !["backup"] = Idle]
    /\ UNCHANGED <<world, cloud, state, onDate, failures, history>>

Prune ==
    /\ job["backup"].at = "pruning"
    /\ \E d \in job["backup"].remove :
          /\ files' = {f \in files : f.date # d \/ f.kind # "verified"}
          /\ job' = [job EXCEPT !["backup"].remove = @ \ {d}]
    /\ UNCHANGED <<world, cloud, state, onDate, failures, history>>

Pruned ==
    /\ job["backup"].remove = {}
    /\ Starts("backup", "pruning", "mirroring")
    /\ UNCHANGED <<world, cloud, files, state, onDate, failures, history>>

-----------------------------------------------------------------------------
\* Where a run goes when its mirror is done with, whatever became of it.
afterMirror_LocalFirst == "setLocal"
afterMirror == "setCloud"

(* The local mirror (mirrorIntoLocal), by the nightly run and by            *)
(* db:mirror --confirm.  The latter picks the newest proven file, puts a    *)
(* copy of local aside and asks for no unchanged local.                     *)

StartMirror ==
    /\ job["byHand"].at = "idle" /\ proven # {}
    /\ LET source == newestOf(proven) IN
          IF source.db = local
          THEN \* nothing to copy: recorded as a mirror at once
               /\ state' = local
               /\ UNCHANGED <<job, kept>>
          ELSE /\ kept' = kept \union {local}
               /\ job' = [job EXCEPT !["byHand"] =
                            [Idle EXCEPT !.at = "checking", !.by = "confirmed",
                                         !.date = source.date, !.plan = source.db]]
               /\ UNCHANGED state
    /\ UNCHANGED <<cloud, local, files, onDate, failures, history, written, exposed>>

\* Local still holds what it was left with by the last mirror.
unchanged_IfRecorded == state # NotYet
unchanged == state # NotYet /\ local = state

mayReplace(j) == job[j].by = "confirmed" \/ unchanged

\* The fingerprints and the refusals: no such file, never mirrored, changed.
Check(j) ==
    /\ job[j].at = IF j = "backup" THEN "mirroring" ELSE "checking"
    /\ LET source == {f \in proven : f.date = job[j].date}
           to == IF source = {} \/ ~mayReplace(j) THEN "refused"
                 ELSE IF local = job[j].plan THEN "mirrored" ELSE "copying"
       IN job' = [job EXCEPT ![j] =
                    IF to = "copying" THEN [@ EXCEPT !.at = "copying", !.before = local]
                    ELSE IF to = "mirrored"
                    THEN [@ EXCEPT !.at = "recording", !.before = local, !.mirror = "asIs"]
                    ELSE IF j = "backup"
                    THEN [@ EXCEPT !.at = afterMirror, !.mirror = "refused"]
                    ELSE Idle]
    /\ UNCHANGED <<world, cloud, files, state, onDate, failures, history>>

\* One write transaction: local becomes the file.
Replace(j) ==
    /\ job[j].at = "copying"
    /\ local' = job[j].plan
    /\ job' = [job EXCEPT ![j].at = "recording", ![j].mirror = "mirrored"]
    /\ UNCHANGED <<cloud, files, kept, state, onDate, failures, history, written, exposed>>

\* The transaction fails and is rolled back.
ReplaceFails(j) ==
    /\ job[j].at = "copying" /\ failures < MaxKills
    /\ failures' = failures + 1
    /\ job' = [job EXCEPT ![j] =
                 IF j = "backup" THEN [@ EXCEPT !.at = afterMirror, !.mirror = "failed"]
                 ELSE Idle]
    /\ UNCHANGED <<world, cloud, files, state, onDate, history>>

\* What local holds after the copy is read again and recorded.
Record(j) ==
    /\ job[j].at = "recording"
    /\ state' = IF job[j].mirror = "asIs" THEN job[j].before ELSE local
    /\ job' = [job EXCEPT ![j] =
                 IF j = "backup" THEN [@ EXCEPT !.at = afterMirror] ELSE Idle]
    /\ UNCHANGED <<world, cloud, files, onDate, failures, history>>

-----------------------------------------------------------------------------
(* backup.lastRun: the cloud first, then local if it is a mirror now. *)

recordsLocally == job["backup"].mirror \in {"mirrored", "asIs"}

SetCloud ==
    /\ job["backup"].at = "setCloud"
    /\ cloud' = [cloud EXCEPT !.set.last = job["backup"].date]
    /\ history' = history \union {cloud'}
    /\ job' = [job EXCEPT !["backup"] =
                 IF recordsLocally THEN [@ EXCEPT !.at = "setLocal"] ELSE Idle]
    /\ UNCHANGED <<world, files, state, onDate, failures>>

SetLocal ==
    /\ Starts("backup", "setLocal", "rerecord")
    /\ local' = [local EXCEPT !.set.last = job["backup"].date]
    /\ UNCHANGED <<cloud, files, kept, state, onDate, failures, history, written, exposed>>

\* Local's new state, its row of this run included, is recorded for tomorrow.
Rerecord ==
    /\ job["backup"].at = "rerecord"
    /\ state' = local
    /\ job' = [job EXCEPT !["backup"] = Idle]
    /\ UNCHANGED <<world, cloud, files, onDate, failures, history>>

\* A process is killed, or one of its calls throws: nothing more of it runs.
Die(j) ==
    /\ job[j].at # "idle" /\ failures < MaxKills
    /\ failures' = failures + 1
    /\ job' = [job EXCEPT ![j] = Idle]
    /\ UNCHANGED <<world, cloud, files, state, onDate, history>>

MirrorStep(j) == Check(j) \/ Replace(j) \/ Record(j)

BackupStep == ReadSettings \/ ReadRows \/ ReadChecks \/ Fill \/ FingerprintSettings
              \/ Fingerprint \/ Prune \/ Pruned \/ SetCloud \/ SetLocal \/ Rerecord

BackupsNext ==
    \/ CloudAddsRow \/ CloudChangesInPlace \/ LocalWork
    \/ StartBackup \/ StartMirror \/ BackupStep
    \/ \E j \in Jobs : MirrorStep(j) \/ ReplaceFails(j) \/ Die(j)

BackupsSpec == BackupsInit /\ [][BackupsNext]_bvars

-----------------------------------------------------------------------------
At == {"idle", "readSettings", "readRows", "checks", "filling", "fpSettings",
       "fpRows", "pruning", "mirroring"} \union Mirroring

BackupsTypeOK ==
    /\ cloud \in Database /\ local \in Database
    /\ files \subseteq [date : Dates, kind : {"verified", "partial", "unverified"},
                        by : {"nightly", "hand"}, db : Database]
    /\ \A f, g \in files : f.date = g.date => f = g
    /\ kept \subseteq Database /\ state \in Database \union {NotYet}
    /\ \A j \in Jobs : job[j].at \in At /\ job[j].plan \in Database
    /\ failures \in 0..MaxKills

\* A nightly file under its canonical name holds one moment of the cloud,
\* though both its tables and its digests are read while syncs write: equal
\* digests mean nothing changed between the copy and the check.
ProvenIsOneMoment ==
    \A f \in proven : f.by = "nightly" => f.db \in history

\* And every file under such a name, one made by hand, which only counts rows,
\* included, holds settings the cloud had and rows the cloud had: never a table
\* half read, and nothing that was not there.
ProvenWasRead ==
    \A f \in proven : \E h, k \in history : f.db = [rows |-> h.rows, set |-> k.set]

\* Work done in the local app is never replaced unseen: it is still there,
\* or in a copy db:mirror put aside, or was written while a mirror ran.
LocalWorkKept ==
    \A r \in written :
        \/ r \in local.rows
        \/ \E k \in kept : r \in k.rows
        \/ r \in exposed

\* The scheduled mirror never replaces work done in the local app: "the
\* scheduled run refuses whenever local no longer matches them - somebody wrote
\* to local since, and that work would be lost" (mirrorLocal.ts).
ScheduledMirrorSparesWork ==
    [][ Replace("backup") =>
          \A r \in written \cap local.rows :
             r \in local'.rows \/ \E k \in kept : r \in k.rows ]_bvars

\* Pruning removes a proven backup only when as many newer dates as are kept
\* daily stay, a newer one of its month among the files that stay; a copy
\* under way or in quarantine counts for neither.
PruneKeeps ==
    [][ \A f \in proven \ proven' :
          /\ \E g \in proven' : g.date > f.date /\ monthOf[g.date] = monthOf[f.date]
          /\ Cardinality({g \in proven' : g.date > f.date}) >= DailyKept ]_bvars

\* What the local database records of the backups is true: it never names a run
\* the cloud does not know (the cloud's row, the one the phone reads, is written
\* first), and the state recorded for the next run's check never holds local
\* work, unless that work was written while a mirror ran.
LocalRecordTrue ==
    /\ local.set.last <= cloud.set.last
    /\ state # NotYet =>
        \A r \in written \cap state.rows : r \in exposed \/ \E k \in kept : r \in k.rows

\* A nightly copy holds one moment of the cloud, and one made by hand what the
\* cloud had; neither they nor the record beside them cost the local app its
\* work, but what is written while a mirror runs.
CopiesAreTrue == ProvenIsOneMoment /\ ProvenWasRead /\ LocalWorkKept /\ LocalRecordTrue

\* Stated, and not so: the backups a mirror copies from "have already been
\* proved digest-equal" (mirrorLocal.ts:10-11); one made by hand is checked by
\* counts alone, and may hold the settings of one moment, the rows of a later.
ProvenIsDigestEqual == \A f \in proven : f.db \in history
=============================================================================
