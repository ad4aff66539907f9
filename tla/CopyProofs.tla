------------------------------ MODULE CopyProofs ------------------------------
(***************************************************************************)
(* Proofs about the copies of the cloud database: what a proven file       *)
(* holds, what the mirror and its record leave of the work done in the     *)
(* local app, and what pruning keeps; for every set of rows and dates, any *)
(* retention depth and any number of processes killed.                     *)
(***************************************************************************)
EXTENDS Backups, FiniteSetTheorems, WellFoundedInduction, TLAPS

-----------------------------------------------------------------------------
(* The inductive invariant, in four parts.  `backup' is the nightly run or  *)
(* the hand-run backup, whichever is at work.                               *)

backup == job["backup"]

JobRecord(at, date, by, plan, checks, fp, remove, before, mirror) ==
    [at |-> at, date |-> date, by |-> by, plan |-> plan, checks |-> checks, fp |-> fp,
     remove |-> remove, before |-> before, mirror |-> mirror]

Fields(b) == b = JobRecord(b.at, b.date, b.by, b.plan, b.checks, b.fp, b.remove,
                           b.before, b.mirror)

JobShape(b) ==
    /\ Fields(b)
    /\ b.at \in At
    /\ b.plan \in Database /\ b.fp \in Database /\ b.before \in Database

File == [date : Dates, kind : {"verified", "partial", "unverified"},
         by : {"nightly", "hand"}, db : Database]

CopyShape ==
    /\ cloud \in Database /\ local \in Database
    /\ files \subseteq File /\ IsFiniteSet(files)
    /\ kept \subseteq Database /\ state \in Database \union {NotYet}
    /\ onDate \in Nat /\ failures \in 0..MaxKills
    /\ job = [j \in Jobs |-> job[j]]
    /\ \A j \in Jobs : JobShape(job[j])
    /\ backup.at # "idle" => /\ backup.date = onDate /\ backup.date \in Dates
                             /\ backup.by \in {"nightly", "hand"}

\* A copy's tables are of one moment, or its settings already are not those
\* its rows were read with, and the digests will differ.
OneMoment ==
    /\ cloud \in history
    /\ backup.at = "readRows" =>
         /\ cloud.set.pref >= backup.plan.set.pref
         /\ cloud.set.pref = backup.plan.set.pref => cloud.set = backup.plan.set
    /\ backup.at \in {"checks", "filling", "fpSettings"} =>
         backup.plan \in history \/ cloud.set.pref > backup.plan.set.pref
    /\ backup.at = "fpRows" =>
         backup.plan \in history \/ backup.fp.set.pref > backup.plan.set.pref
    /\ ProvenIsOneMoment

NoLocalRow(db) == db.rows \cap LocalRows = {}
OnlyWritten(db) == db.rows \cap LocalRows \subseteq written

\* Losing this database loses no local work, but what came in between.
Spare(db) == \A r \in written \cap db.rows :
                r \in exposed \/ \E k \in kept : r \in k.rows

WorkKept ==
    /\ written \subseteq LocalRows
    /\ NoLocalRow(cloud) /\ \A f \in files : NoLocalRow(f.db)
    /\ \A j \in Jobs : NoLocalRow(job[j].plan) /\ OnlyWritten(job[j].before)
    /\ OnlyWritten(local) /\ (state # NotYet => OnlyWritten(state) /\ Spare(state))
    /\ (\E j \in Jobs : mirroring(j)) => Spare(local)
    /\ \A j \in Jobs : job[j].at \in {"copying", "recording"} => Spare(job[j].before)
    /\ LocalWorkKept

\* The cloud's row of the last run is ahead of every other's.
RunRows ==
    /\ cloud.set.last <= onDate /\ local.set.last <= cloud.set.last
    /\ \A f \in files : f.db.set.last <= cloud.set.last
    /\ \A j \in Jobs : job[j].plan.set.last <= cloud.set.last
    /\ backup.at = "setLocal" => cloud.set.last = backup.date

\* As many newer dates as are kept daily are in the set, one of them the
\* month's.
KeptFor(d, dates) ==
    /\ \E e \in dates : e > d /\ monthOf[e] = monthOf[d]
    /\ Cardinality({e \in dates : e > d}) >= DailyKept

Retained ==
    /\ \A f \in files : f.date <= onDate
    /\ \A f, g \in files : f.date = g.date => f = g
    /\ backup.at \in {"readSettings", "readRows", "checks"} =>
         \A f \in files : f.date # backup.date
    /\ backup.at \in {"filling", "fpSettings", "fpRows"} =>
         \A f \in proven : f.date # backup.date
    /\ backup.at = "pruning" =>
         \A d \in backup.remove : KeptFor(d, datesOf(files) \ backup.remove)

CopyInv == CopyShape /\ OneMoment /\ WorkKept /\ RunRows /\ Retained

-----------------------------------------------------------------------------
(* Finite sets of dates, and what retention keeps of them.                  *)

\* A finite set of numbers has a greatest: by the well-founded order on
\* finite sets, the least one without it would have a smaller one without.
LEMMA GreatestOf ==
  ASSUME NEW S \in SUBSET Nat, IsFiniteSet(S), S # {}
  PROVE  \E x \in S : \A y \in S : x >= y
  <1> DEFINE Bad == {U \in FiniteSubsetsOf(Nat) :
                        U # {} /\ ~ \E x \in U : \A y \in U : x >= y}
  <1> SUFFICES ASSUME Bad # {} PROVE FALSE
    BY DEF FiniteSubsetsOf
  <1>1. Bad \subseteq FiniteSubsetsOf(Nat)
    OBVIOUS
  <1>2. PICK U \in Bad : \A V \in Bad : <<V, U>> \notin StrictSubsetOrdering(Nat)
    <2> HIDE DEF Bad
    <2>1. IsWellFoundedOn(StrictSubsetOrdering(Nat), FiniteSubsetsOf(Nat))
      BY FS_StrictSubsetOrderingWellFounded
    <2> QED
      BY <1>1, <2>1, WFMin
  <1>3. U \in SUBSET Nat /\ IsFiniteSet(U) /\ U # {}
    BY <1>2 DEF FiniteSubsetsOf
  <1>4. PICK x \in U : TRUE
    BY <1>3
  <1>5. PICK y \in U : y > x /\ \A z \in U \ {x} : y >= z
    <2> DEFINE V == U \ {x}
    <2>1. V # {}
      BY <1>2, <1>3, <1>4
    <2>2. V \in SUBSET Nat /\ IsFiniteSet(V) /\ V \subseteq U /\ V # U
      BY <1>3, <1>4, FS_RemoveElement
    <2>3. <<V, U>> \in StrictSubsetOrdering(Nat)
      BY <1>3, <2>2 DEF StrictSubsetOrdering
    <2>4. V \notin Bad
      BY <1>2, <2>3
    <2>5. PICK y \in V : \A z \in V : y >= z
      BY <2>1, <2>2, <2>4 DEF FiniteSubsetsOf
    <2>6. y > x
      <3> SUFFICES ASSUME ~(y > x) PROVE FALSE
        OBVIOUS
      <3>1. \A z \in U : x >= z
        BY <1>3, <1>4, <2>5
      <3> QED
        BY <1>2, <1>4, <3>1
    <2> QED
      BY <2>5, <2>6
  <1>6. \A z \in U : y >= z
    BY <1>3, <1>4, <1>5
  <1> QED
    BY <1>2, <1>5, <1>6

\* A bigger set has no fewer members.
LEMMA MoreMembers ==
  ASSUME NEW S, IsFiniteSet(S), NEW T \in SUBSET S
  PROVE  IsFiniteSet(T) /\ Cardinality(T) \in Nat /\ Cardinality(S) \in Nat
         /\ Cardinality(T) <= Cardinality(S)
  BY FS_Subset, FS_CardinalityType

\* What retention removes of a list of dates leaves, for each date removed,
\* the newest of its month and as many newer dates as are kept daily.
LEMMA RetentionKeeps ==
  ASSUME NEW dates \in SUBSET Nat, IsFiniteSet(dates), NEW d \in planRetention(dates)
  PROVE  KeptFor(d, dates \ planRetention(dates))
  <1> DEFINE daily == dailyDates(dates)
             older == dates \ daily
             stays == dates \ planRetention(dates)
             newer(c) == {e \in dates : e > c}
  <1>1. d \in older /\ older \in SUBSET Nat /\ IsFiniteSet(older)
    BY FS_Subset DEF planRetention
  <1>2. \A c \in older : Cardinality(newer(c)) >= DailyKept
    <2> TAKE c \in older
    <2>1. IsFiniteSet(newer(c)) /\ Cardinality(newer(c)) \in Nat
      BY MoreMembers, newer(c) \in SUBSET dates
    <2>2. ~(Cardinality(newer(c)) < DailyKept)
      BY DEF dailyDates
    <2> HIDE DEF newer
    <2> QED
      BY <2>1, <2>2, BackupsAssumption
  <1>3. \E e \in stays : e > d /\ monthOf[e] = monthOf[d]
    <2> DEFINE same == {e \in older : monthOf[e] = monthOf[d]}
    <2>1. same \in SUBSET Nat /\ IsFiniteSet(same) /\ d \in same
      BY <1>1, FS_Subset
    <2>2. PICK e \in same : \A c \in same : e >= c
      BY <2>1, GreatestOf
    <2>3. e \in monthKeepers(dates)
      BY <1>1, <2>2 DEF monthKeepers
    <2>4. e # d /\ e \in stays
      BY <2>2, <2>3 DEF planRetention
    <2> QED
      BY <1>1, <2>1, <2>2, <2>4
  <1>4. Cardinality({e \in stays : e > d}) >= DailyKept
    <2>1. PICK c \in older : \A e \in older : c >= e
      BY <1>1, GreatestOf
    <2>2. newer(c) \in SUBSET {e \in stays : e > d}
      <3> SUFFICES ASSUME NEW e \in dates, e > c PROVE e \in stays /\ e > d
        OBVIOUS
      <3>1. e \notin older
        BY <1>1, <2>1
      <3> QED
        BY <1>1, <2>1, <3>1 DEF planRetention
    <2>3. IsFiniteSet({e \in stays : e > d})
      BY FS_Subset, {e \in stays : e > d} \in SUBSET dates
    <2>4. /\ Cardinality(newer(c)) <= Cardinality({e \in stays : e > d})
          /\ Cardinality(newer(c)) \in Nat /\ Cardinality({e \in stays : e > d}) \in Nat
      <3> HIDE DEF newer, stays
      <3> QED
        BY <2>2, <2>3, MoreMembers
    <2>5. Cardinality(newer(c)) >= DailyKept
      BY <1>2
    <2> HIDE DEF newer, stays
    <2> QED
      BY <2>4, <2>5, BackupsAssumption
  <1> QED
    BY <1>3, <1>4 DEF KeptFor

\* The dates of the proven files are no more than the files.
LEMMA DatesOfFiles ==
  ASSUME NEW fs, IsFiniteSet(fs), fs \subseteq File, NEW d
  PROVE  /\ datesOf(fs) \in SUBSET Nat /\ IsFiniteSet(datesOf(fs))
         /\ Cardinality({e \in datesOf(fs) : e > d})
              <= Cardinality({g \in fs : g.kind = "verified" /\ g.date > d})
         /\ Cardinality({e \in datesOf(fs) : e > d}) \in Nat
         /\ Cardinality({g \in fs : g.kind = "verified" /\ g.date > d}) \in Nat
  <1> DEFINE vs == {g \in fs : g.kind = "verified"}
             newer == {g \in fs : g.kind = "verified" /\ g.date > d}
             ds == {e \in datesOf(fs) : e > d}
  <1>1. IsFiniteSet(vs) /\ IsFiniteSet(newer)
    BY FS_Subset, vs \in SUBSET fs, newer \in SUBSET fs
  <1>2. datesOf(fs) \in SUBSET Nat
    BY BackupsAssumption DEF datesOf, File
  <1>3. IsFiniteSet(datesOf(fs))
    <2>1. [f \in vs |-> f.date] \in Surjection(vs, datesOf(fs))
      BY DEF datesOf, Surjection
    <2> HIDE DEF vs
    <2> QED
      BY <1>1, <2>1, FS_Surjection
  <1>4. Cardinality(ds) <= Cardinality(newer)
    <2>1. [g \in newer |-> g.date] \in Surjection(newer, ds)
      BY DEF datesOf, Surjection
    <2> HIDE DEF newer, ds
    <2> QED
      BY <1>1, <2>1, FS_Surjection
  <1>5. Cardinality(ds) \in Nat /\ Cardinality(newer) \in Nat
    <2>1. IsFiniteSet(ds)
      BY <1>3, FS_Subset, ds \in SUBSET datesOf(fs)
    <2> HIDE DEF newer, ds
    <2> QED
      BY <1>1, <2>1, FS_CardinalityType
  <1> QED
    BY <1>2, <1>3, <1>4, <1>5

-----------------------------------------------------------------------------
(* Every state of the two databases, the files and the processes is of its  *)
(* type.                                                                    *)

\* The first database and the empty one are databases, with no local row.
LEMMA FirstDbTyped ==
  /\ FirstDb \in Database /\ [FirstDb EXCEPT !.rows = {}] \in Database
  /\ NoLocalRow(FirstDb) /\ NoLocalRow([FirstDb EXCEPT !.rows = {}])
  /\ FirstDb.set.last = NoDate /\ [FirstDb EXCEPT !.rows = {}].set.last = NoDate
  BY BackupsAssumption DEF FirstDb, Database, Settings, NoDate, NoLocalRow

\* A database with other rows, or other settings.
LEMMA OtherRows ==
  ASSUME NEW db \in Database, NEW R \in SUBSET ({FirstRow} \union CloudRows \union LocalRows)
  PROVE  [db EXCEPT !.rows = R] = [rows |-> R, set |-> db.set]
         /\ [rows |-> R, set |-> db.set] \in Database
  BY DEF Database

\* The settings written anew.
LEMMA OtherSettings ==
  ASSUME NEW db \in Database, NEW s \in Settings
  PROVE  [db EXCEPT !.set = s] = [rows |-> db.rows, set |-> s]
         /\ [rows |-> db.rows, set |-> s] \in Database
  BY DEF Database

\* A preference changed in place.
LEMMA OtherPref ==
  ASSUME NEW db \in Database, db.set.pref < MaxPref
  PROVE  LET s == [pref |-> db.set.pref + 1, last |-> db.set.last]
         IN  /\ [db EXCEPT !.set.pref = @ + 1] = [rows |-> db.rows, set |-> s]
             /\ s \in Settings
  BY BackupsAssumption DEF Database, Settings

\* The row of the last run written.
LEMMA OtherLast ==
  ASSUME NEW db \in Database, NEW d \in Dates
  PROVE  LET s == [pref |-> db.set.pref, last |-> d]
         IN  /\ [db EXCEPT !.set.last = d] = [rows |-> db.rows, set |-> s]
             /\ s \in Settings
  BY BackupsAssumption DEF Database, Settings

\* Each field of a process is written apart from the others.
LEMMA IdleShape == JobShape(Idle) /\ Idle.at = "idle" /\ NoLocalRow(Idle.plan)
                   /\ NoLocalRow(Idle.before) /\ Idle.plan.set.last = NoDate
  BY FirstDbTyped DEF JobShape, Fields, JobRecord, Idle, At

\* Before any run: old files, two equal databases, no process.
LEMMA InitCopy == BackupsInit => CopyInv
  <1> SUFFICES ASSUME BackupsInit PROVE CopyInv
    OBVIOUS
  <1> USE DEF BackupsInit
  <1>1. OldDates \in SUBSET Nat /\ IsFiniteSet(OldDates \union {NoDate})
        /\ OldDates \union {NoDate} \in SUBSET Nat
    BY BackupsAssumption, FS_AddElement DEF NoDate
  <1>2. onDate \in Nat /\ \A d \in OldDates : d <= onDate
    <2>1. \E x \in OldDates \union {NoDate} : \A y \in OldDates \union {NoDate} : x >= y
      BY <1>1, GreatestOf
    <2>2. /\ Max(OldDates \union {NoDate}) \in OldDates \union {NoDate}
          /\ \A y \in OldDates \union {NoDate} : Max(OldDates \union {NoDate}) >= y
      BY <2>1 DEF Max
    <2> QED
      BY <1>1, <2>2
  <1>3. job = [j \in Jobs |-> Idle] /\ backup = Idle
    BY DEF backup, Jobs
  <1>4. files \subseteq File /\ \A f \in files : f.db = FirstDb /\ f.date \in OldDates
    BY BackupsAssumption, FirstDbTyped DEF File
  <1>5. IsFiniteSet(files)
    <2>1. [d \in OldDates |-> [date |-> d, kind |-> "verified", by |-> "nightly", db |-> FirstDb]]
             \in Surjection(OldDates, files)
      BY DEF Surjection
    <2> QED
      BY <2>1, FS_Surjection, BackupsAssumption
  <1>6. CopyShape
    <2>1. /\ job = [j \in Jobs |-> job[j]]
          /\ \A j \in Jobs : JobShape(job[j])
          /\ backup.at = "idle"
      BY <1>3, IdleShape
    <2>2. /\ cloud \in Database /\ local \in Database /\ kept \subseteq Database
          /\ state \in Database \union {NotYet} /\ failures \in 0..MaxKills
      BY FirstDbTyped, BackupsAssumption
    <2> HIDE DEF BackupsInit
    <2> QED
      BY <1>2, <1>4, <1>5, <2>1, <2>2 DEF CopyShape
  <1>7. OneMoment
    BY <1>3, <1>4, IdleShape DEF OneMoment, ProvenIsOneMoment, proven
  <1>8. WorkKept
    <2>1. \A j \in Jobs : job[j].at = "idle" /\ ~mirroring(j)
      BY <1>3, IdleShape DEF mirroring, Mirroring
    <2> QED
      BY <1>3, <1>4, <2>1, FirstDbTyped, IdleShape
         DEF WorkKept, OnlyWritten, NoLocalRow, Spare, LocalWorkKept
  <1>9. RunRows
    BY <1>2, <1>3, <1>4, FirstDbTyped, IdleShape DEF RunRows, NoDate
  <1>10. Retained
    <2>1. \A f, g \in files : f.date = g.date => f = g
      BY DEF BackupsInit
    <2>2. \A f \in files : f.date <= onDate
      BY <1>2, <1>4
    <2>3. backup.at = "idle"
      BY <1>3, IdleShape
    <2> HIDE DEF BackupsInit
    <2> QED
      BY <2>1, <2>2, <2>3 DEF Retained
  <1> QED
    BY <1>6, <1>7, <1>8, <1>9, <1>10 DEF CopyInv

-----------------------------------------------------------------------------
(* Each action keeps the invariant.                                         *)

\* What the invariant says of the processes, for the steps below.
LEMMA CopyFacts ==
  ASSUME CopyInv
  PROVE  /\ "backup" \in Jobs /\ "byHand" \in Jobs /\ Jobs = {"backup", "byHand"}
         /\ job = [k \in Jobs |-> job[k]] /\ \A k \in Jobs : JobShape(job[k])
         /\ backup = job["backup"] /\ JobShape(backup)
         /\ onDate \in Nat /\ Dates \subseteq Nat
         /\ cloud \in Database /\ local \in Database /\ backup.plan \in Database
  <1>1. "backup" \in Jobs /\ "byHand" \in Jobs /\ Jobs = {"backup", "byHand"}
    BY DEF Jobs
  <1>2. job = [k \in Jobs |-> job[k]] /\ \A k \in Jobs : JobShape(job[k])
    BY DEF CopyInv, CopyShape
  <1>3. backup = job["backup"] /\ JobShape(backup)
    BY <1>1, <1>2 DEF backup
  <1>4. onDate \in Nat /\ cloud \in Database /\ local \in Database
    BY DEF CopyInv, CopyShape
  <1>5. backup.plan \in Database
    BY <1>3 DEF JobShape
  <1>6. Dates \subseteq Nat
    BY BackupsAssumption
  <1> QED
    BY <1>1, <1>2, <1>3, <1>4, <1>5, <1>6

\* A database is its rows and its settings.
LEMMA DbFacts ==
  ASSUME NEW db \in Database
  PROVE  /\ db = [rows |-> db.rows, set |-> db.set] /\ db.set \in Settings
         /\ db.set = [pref |-> db.set.pref, last |-> db.set.last]
         /\ db.set.pref \in Nat /\ db.set.last \in Nat
  <1>1. db = [rows |-> db.rows, set |-> db.set] /\ db.set \in Settings
    BY DEF Database
  <1>2. db.set = [pref |-> db.set.pref, last |-> db.set.last]
    BY <1>1 DEF Settings
  <1>3. db.set.pref \in 0..MaxPref /\ db.set.last \in Dates \union {NoDate}
    BY <1>1 DEF Settings
  <1>4. db.set.pref \in Nat /\ db.set.last \in Nat
    <2>1. Dates \union {NoDate} \subseteq Nat /\ MaxPref \in Nat
      BY BackupsAssumption DEF NoDate
    <2> QED
      BY <1>3, <2>1
  <1> QED
    BY <1>1, <1>2, <1>4

\* A step of one process, the other's record as it was.
LEMMA OneProcess ==
  ASSUME CopyInv, NEW j \in Jobs, NEW b, JobShape(b), job' = [job EXCEPT ![j] = b]
  PROVE  /\ job' = [k \in Jobs |-> job'[k]]
         /\ job'[j] = b /\ \A k \in Jobs : k # j => job'[k] = job[k]
         /\ \A k \in Jobs : JobShape(job'[k])
  BY DEF CopyInv, CopyShape

\* A process's record, one of its fields changed.
LEMMA Other_at ==
  ASSUME NEW r, Fields(r), NEW v
  PROVE  [r EXCEPT !.at = v] =
           JobRecord(v, r.date, r.by, r.plan, r.checks, r.fp, r.remove, r.before, r.mirror)
  BY DEF Fields, JobRecord

LEMMA Other_date ==
  ASSUME NEW r, Fields(r), NEW v
  PROVE  [r EXCEPT !.date = v] =
           JobRecord(r.at, v, r.by, r.plan, r.checks, r.fp, r.remove, r.before, r.mirror)
  BY DEF Fields, JobRecord

LEMMA Other_by ==
  ASSUME NEW r, Fields(r), NEW v
  PROVE  [r EXCEPT !.by = v] =
           JobRecord(r.at, r.date, v, r.plan, r.checks, r.fp, r.remove, r.before, r.mirror)
  BY DEF Fields, JobRecord

LEMMA Other_plan ==
  ASSUME NEW r, Fields(r), NEW v
  PROVE  [r EXCEPT !.plan = v] =
           JobRecord(r.at, r.date, r.by, v, r.checks, r.fp, r.remove, r.before, r.mirror)
  BY DEF Fields, JobRecord

LEMMA Other_checks ==
  ASSUME NEW r, Fields(r), NEW v
  PROVE  [r EXCEPT !.checks = v] =
           JobRecord(r.at, r.date, r.by, r.plan, v, r.fp, r.remove, r.before, r.mirror)
  BY DEF Fields, JobRecord

LEMMA Other_fp ==
  ASSUME NEW r, Fields(r), NEW v
  PROVE  [r EXCEPT !.fp = v] =
           JobRecord(r.at, r.date, r.by, r.plan, r.checks, v, r.remove, r.before, r.mirror)
  BY DEF Fields, JobRecord

LEMMA Other_remove ==
  ASSUME NEW r, Fields(r), NEW v
  PROVE  [r EXCEPT !.remove = v] =
           JobRecord(r.at, r.date, r.by, r.plan, r.checks, r.fp, v, r.before, r.mirror)
  BY DEF Fields, JobRecord

LEMMA Other_before ==
  ASSUME NEW r, Fields(r), NEW v
  PROVE  [r EXCEPT !.before = v] =
           JobRecord(r.at, r.date, r.by, r.plan, r.checks, r.fp, r.remove, v, r.mirror)
  BY DEF Fields, JobRecord

LEMMA Other_mirror ==
  ASSUME NEW r, Fields(r), NEW v
  PROVE  [r EXCEPT !.mirror = v] =
           JobRecord(r.at, r.date, r.by, r.plan, r.checks, r.fp, r.remove, r.before, v)
  BY DEF Fields, JobRecord

\* A process that stands in this record is between reading local and
\* recording it.
Mirrors(b) == b.at \in Mirroring /\ (b.at = "setCloud" => b.mirror \in {"mirrored", "asIs"})

\* What a process's record must satisfy beside the databases as they are.
Fits(j, b) ==
    /\ JobShape(b)
    /\ NoLocalRow(b.plan) /\ OnlyWritten(b.before)
    /\ b.plan.set.last <= cloud.set.last
    /\ Mirrors(b) => Spare(local)
    /\ b.at \in {"copying", "recording"} => Spare(b.before)
    /\ j = "backup" => /\ b.at # "idle" => b.date \in Dates /\ b.by \in {"nightly", "hand"}
                       /\ b.at = "setLocal" => cloud.set.last = b.date

\* What a step of one process that leaves both databases alone keeps.
LEMMA ProcessMoves ==
  ASSUME CopyInv, NEW j \in Jobs, NEW b, Fits(j, b), job' = [job EXCEPT ![j] = b],
         UNCHANGED <<cloud, local, history, written, exposed>>,
         onDate' \in Nat, onDate' >= onDate, failures' \in 0..MaxKills,
         j = "backup" /\ b.at # "idle" => b.date = onDate',
         j = "byHand" => onDate' = onDate,
         files' \subseteq File, IsFiniteSet(files'),
         \A f \in files' : NoLocalRow(f.db) /\ f.db.set.last <= cloud.set.last,
         kept \subseteq kept', kept' \subseteq Database,
         state' \in Database \union {NotYet},
         state' # NotYet => OnlyWritten(state') /\ Spare(state')
  PROVE  CopyShape' /\ WorkKept' /\ RunRows'
  <1>1. /\ job' = [k \in Jobs |-> job'[k]]
        /\ job'[j] = b /\ \A k \in Jobs : k # j => job'[k] = job[k]
        /\ \A k \in Jobs : JobShape(job'[k])
    BY OneProcess DEF Fits
  <1>2. /\ backup' = job'["backup"]
        /\ j = "backup" => backup' = b
        /\ j # "backup" => j = "byHand" /\ backup' = backup
    BY <1>1, CopyFacts DEF backup
  <1>3. CopyShape'
    <2>1. backup'.at # "idle" => /\ backup'.date = onDate' /\ backup'.date \in Dates
                                 /\ backup'.by \in {"nightly", "hand"}
      BY <1>2 DEF CopyInv, CopyShape, Fits
    <2> QED
      BY <1>1, <2>1 DEF CopyInv, CopyShape
  <1>4. WorkKept'
    <2>1. \A k \in Jobs : NoLocalRow(job'[k].plan) /\ OnlyWritten(job'[k].before)
      BY <1>1 DEF CopyInv, WorkKept, Fits
    <2>2. \A k \in Jobs : Mirrors(job'[k]) => Spare(local)
      BY <1>1 DEF CopyInv, WorkKept, Fits, Mirrors, mirroring
    <2>3. \A k \in Jobs : job'[k].at \in {"copying", "recording"} => Spare(job'[k].before)
      BY <1>1 DEF CopyInv, WorkKept, Fits
    <2>4. \A k \in Jobs : mirroring(k)' <=> Mirrors(job'[k])
      BY DEF mirroring, Mirrors
    <2>5. \A db : Spare(db) => Spare(db)'
      BY DEF Spare
    <2> QED
      BY <2>1, <2>2, <2>3, <2>4, <2>5 DEF CopyInv, WorkKept, NoLocalRow, OnlyWritten, LocalWorkKept
  <1>5. RunRows'
    <2>1. \A k \in Jobs : job'[k].plan.set.last <= cloud.set.last
      BY <1>1 DEF CopyInv, RunRows, Fits
    <2>2. backup'.at = "setLocal" => cloud.set.last = backup'.date
      BY <1>2 DEF CopyInv, RunRows, Fits
    <2>3. cloud.set.last <= onDate'
      <3>1. cloud.set.last \in Nat /\ onDate \in Nat
        BY CopyFacts, DbFacts
      <3> QED
        BY <3>1 DEF CopyInv, RunRows
    <2> QED
      BY <2>1, <2>2, <2>3 DEF CopyInv, RunRows
  <1> QED
    BY <1>3, <1>4, <1>5

\* A step that leaves the files alone and brings the backup to a stage that
\* neither reads nor names one.
LEMMA ProcessMovesAside ==
  ASSUME CopyInv, NEW j \in Jobs, NEW b, Fits(j, b), job' = [job EXCEPT ![j] = b],
         UNCHANGED <<cloud, local, files, onDate, history, written, exposed>>,
         failures' \in 0..MaxKills,
         j = "backup" => /\ b.at \in {"idle", "mirroring"} \union Mirroring
                         /\ b.at # "idle" => b.date = onDate,
         kept \subseteq kept', kept' \subseteq Database,
         state' \in Database \union {NotYet},
         state' # NotYet => OnlyWritten(state') /\ Spare(state')
  PROVE  CopyInv'
  <1>1. CopyShape' /\ WorkKept' /\ RunRows'
    <2>1. /\ onDate' \in Nat /\ onDate' = onDate /\ onDate' >= onDate
          /\ files' \subseteq File /\ IsFiniteSet(files')
          /\ \A f \in files' : NoLocalRow(f.db) /\ f.db.set.last <= cloud.set.last
      BY DEF CopyInv, CopyShape, WorkKept, RunRows
    <2>2. /\ j = "backup" /\ b.at # "idle" => b.date = onDate'
          /\ j = "byHand" => onDate' = onDate
      BY <2>1
    <2> QED
      BY <2>1, <2>2, ProcessMoves
  <1>2. /\ backup' = job'["backup"]
        /\ j = "backup" => backup' = b
        /\ j # "backup" => backup' = backup
    BY CopyFacts, OneProcess DEF backup, Fits
  <1>3. OneMoment'
    BY <1>2 DEF CopyInv, OneMoment, ProvenIsOneMoment, proven, Mirroring
  <1>4. Retained'
    BY <1>2 DEF CopyInv, Retained, proven, Mirroring
  <1> QED
    BY <1>1, <1>3, <1>4 DEF CopyInv

\* A process dies, or the copy into local is rolled back.
LEMMA IdleFits ==
  ASSUME CopyInv, NEW j \in Jobs
  PROVE  Fits(j, Idle) /\ Idle.at = "idle"
  <1>1. Idle.plan.set.last <= cloud.set.last
    <2>1. cloud.set.last \in Nat
      BY CopyFacts, DbFacts
    <2> QED
      BY <2>1, IdleShape DEF NoDate
  <1>2. Idle.at = "idle" /\ "idle" \notin Mirroring
    BY IdleShape DEF Mirroring
  <1> QED
    BY <1>1, <1>2, IdleShape DEF Fits, Mirrors, OnlyWritten, NoLocalRow

\* The records that are on disk stay what they are.
LEMMA RecordsStay ==
  ASSUME CopyInv, UNCHANGED <<kept, state>>
  PROVE  /\ kept \subseteq kept' /\ kept' \subseteq Database
         /\ state' \in Database \union {NotYet}
         /\ state' # NotYet => OnlyWritten(state') /\ Spare(state')
  BY DEF CopyInv, CopyShape, WorkKept

\* A process that dies leaves what it wrote.
LEMMA DieKeeps == ASSUME CopyInv, NEW j \in Jobs, Die(j) PROVE CopyInv'
  <1>1. /\ job' = [job EXCEPT ![j] = Idle] /\ failures' \in 0..MaxKills
        /\ UNCHANGED <<cloud, local, files, kept, state, onDate, history, written, exposed>>
    <2>1. failures \in 0..MaxKills /\ failures < MaxKills /\ failures' = failures + 1
      BY DEF Die, CopyInv, CopyShape
    <2>2. failures' \in 0..MaxKills
      BY <2>1, BackupsAssumption
    <2> QED
      BY <2>2 DEF Die, world
  <1> QED
    BY <1>1, IdleFits, RecordsStay, ProcessMovesAside

\* A copy rolled back leaves local as it was; the run goes on to its record.
LEMMA ReplaceFailsKeeps == ASSUME CopyInv, NEW j \in Jobs, ReplaceFails(j) PROVE CopyInv'
  <1>1. /\ failures' \in 0..MaxKills /\ job[j].at = "copying"
        /\ UNCHANGED <<cloud, local, files, kept, state, onDate, history, written, exposed>>
    <2>1. failures \in 0..MaxKills /\ failures < MaxKills /\ failures' = failures + 1
      BY DEF ReplaceFails, CopyInv, CopyShape
    <2>2. failures' \in 0..MaxKills
      BY <2>1, BackupsAssumption
    <2> QED
      BY <2>2 DEF ReplaceFails, world
  <1>2. CASE j # "backup"
    <2>1. job' = [job EXCEPT ![j] = Idle]
      BY <1>2 DEF ReplaceFails
    <2> QED
      BY <1>1, <1>2, <2>1, IdleFits, RecordsStay, ProcessMovesAside
  <1>3. CASE j = "backup"
    <2> DEFINE q == [job[j] EXCEPT !.at = "setCloud"]
               b == [q EXCEPT !.mirror = "failed"]
    <2>1. job' = [job EXCEPT ![j] = b]
      BY <1>3 DEF ReplaceFails, afterMirror
    <2>2. /\ b.at = "setCloud" /\ b.mirror = "failed" /\ b.plan = job[j].plan
          /\ b.before = job[j].before /\ b.date = job[j].date /\ b.by = job[j].by
          /\ JobShape(b)
      <3>1. q = JobRecord("setCloud", job[j].date, job[j].by, job[j].plan, job[j].checks,
                          job[j].fp, job[j].remove, job[j].before, job[j].mirror)
        BY CopyFacts, Other_at DEF JobShape
      <3> HIDE DEF q
      <3>2. Fields(q)
        BY <3>1 DEF Fields, JobRecord
      <3>3. b = JobRecord("setCloud", job[j].date, job[j].by, job[j].plan, job[j].checks,
                          job[j].fp, job[j].remove, job[j].before, "failed")
        BY <3>1, <3>2, Other_mirror DEF JobRecord
      <3> QED
        BY <3>3, CopyFacts DEF JobShape, Fields, JobRecord, At, Mirroring
    <2> HIDE DEF q, b
    <2>3. Fits(j, b)
      BY <1>1, <1>3, <2>2, CopyFacts
         DEF Fits, Mirrors, CopyInv, WorkKept, RunRows, CopyShape
    <2>4. b.date = onDate /\ b.at \in Mirroring
      BY <1>1, <1>3, <2>2, CopyFacts DEF CopyInv, CopyShape, Mirroring
    <2> QED
      BY <1>1, <1>3, <2>1, <2>3, <2>4, RecordsStay, ProcessMovesAside
  <1> QED
    BY <1>2, <1>3

\* With nothing left to prune, the run goes on to its mirror.
LEMMA PrunedKeeps == ASSUME CopyInv, Pruned PROVE CopyInv'
  <1> DEFINE b == [backup EXCEPT !.at = "mirroring"]
  <1>1. /\ backup.at = "pruning" /\ UNCHANGED failures
        /\ UNCHANGED <<cloud, local, files, kept, state, onDate, history, written, exposed>>
    BY CopyFacts DEF Pruned, Starts, world
  <1>2. job' = [job EXCEPT !["backup"] = b]
    BY DEF Pruned, Starts, backup
  <1>3. /\ b.at = "mirroring" /\ b.plan = backup.plan
        /\ b.before = backup.before /\ b.date = backup.date /\ b.by = backup.by
        /\ JobShape(b)
    <2>1. b = JobRecord("mirroring", backup.date, backup.by, backup.plan, backup.checks,
                        backup.fp, backup.remove, backup.before, backup.mirror)
      BY CopyFacts, Other_at DEF JobShape
    <2> HIDE DEF b
    <2> QED
      BY <2>1, CopyFacts DEF JobShape, Fields, JobRecord, At
  <1> HIDE DEF b
  <1>4. Fits("backup", b)
    BY <1>1, <1>3, CopyFacts
       DEF Fits, Mirrors, Mirroring, CopyInv, WorkKept, RunRows, CopyShape
  <1>5. b.date = onDate /\ failures' \in 0..MaxKills
    BY <1>1, <1>3, CopyFacts DEF CopyInv, CopyShape
  <1> QED
    BY <1>1, <1>2, <1>3, <1>4, <1>5, CopyFacts, RecordsStay, ProcessMovesAside

\* Local's new content is recorded: nothing local holds at that time is lost
\* with it, for the mirror is still under way.
LEMMA RerecordKeeps == ASSUME CopyInv, Rerecord PROVE CopyInv'
  <1>1. /\ backup.at = "rerecord" /\ state' = local
        /\ job' = [job EXCEPT !["backup"] = Idle] /\ failures' \in 0..MaxKills
        /\ UNCHANGED <<cloud, local, files, kept, onDate, history, written, exposed>>
    BY CopyFacts DEF Rerecord, world, CopyInv, CopyShape
  <1>2. OnlyWritten(local) /\ Spare(local)
    BY <1>1, CopyFacts DEF CopyInv, WorkKept, mirroring, Mirroring
  <1>3. kept \subseteq kept' /\ kept' \subseteq Database /\ local \in Database
    BY <1>1 DEF CopyInv, CopyShape
  <1> QED
    BY <1>1, <1>2, <1>3, CopyFacts, IdleFits, ProcessMovesAside

\* What is recorded is local after the copy, or local as it was checked.
LEMMA RecordKeeps == ASSUME CopyInv, NEW j \in Jobs, Record(j) PROVE CopyInv'
  <1>1. /\ job[j].at = "recording" /\ failures' \in 0..MaxKills
        /\ UNCHANGED <<cloud, local, files, kept, onDate, history, written, exposed>>
    BY DEF Record, world, CopyInv, CopyShape
  <1>2. /\ state' \in Database \union {NotYet}
        /\ OnlyWritten(state') /\ Spare(state')
    <2>1. OnlyWritten(local) /\ Spare(local) /\ local \in Database
      BY <1>1 DEF CopyInv, CopyShape, WorkKept, mirroring, Mirroring
    <2>2. OnlyWritten(job[j].before) /\ Spare(job[j].before) /\ job[j].before \in Database
      BY <1>1 DEF CopyInv, CopyShape, WorkKept, JobShape
    <2>3. state' = local \/ state' = job[j].before
      BY DEF Record
    <2> QED
      BY <2>1, <2>2, <2>3
  <1>3. kept \subseteq kept' /\ kept' \subseteq Database
    BY <1>1 DEF CopyInv, CopyShape
  <1>4. CASE j # "backup"
    <2>1. job' = [job EXCEPT ![j] = Idle]
      BY <1>4 DEF Record
    <2> QED
      BY <1>1, <1>2, <1>3, <1>4, <2>1, IdleFits, ProcessMovesAside
  <1>5. CASE j = "backup"
    <2> DEFINE b == [job[j] EXCEPT !.at = "setCloud"]
    <2>1. job' = [job EXCEPT ![j] = b]
      BY <1>5 DEF Record, afterMirror
    <2>2. /\ b.at = "setCloud" /\ b.plan = job[j].plan
          /\ b.before = job[j].before /\ b.date = job[j].date /\ b.by = job[j].by
          /\ JobShape(b)
      <3>1. b = JobRecord("setCloud", job[j].date, job[j].by, job[j].plan, job[j].checks,
                          job[j].fp, job[j].remove, job[j].before, job[j].mirror)
        BY CopyFacts, Other_at DEF JobShape
      <3> HIDE DEF b
      <3> QED
        BY <3>1, CopyFacts DEF JobShape, Fields, JobRecord, At, Mirroring
    <2> HIDE DEF b
    <2>3. Spare(local)
      BY <1>1 DEF CopyInv, WorkKept, mirroring, Mirroring
    <2>4. Fits(j, b)
      BY <1>1, <1>5, <2>2, <2>3, CopyFacts DEF Fits, CopyInv, WorkKept, RunRows, CopyShape
    <2>5. b.date = onDate /\ b.at \in Mirroring
      BY <1>1, <1>5, <2>2, CopyFacts DEF CopyInv, CopyShape, Mirroring
    <2> QED
      BY <1>1, <1>2, <1>3, <1>5, <2>1, <2>4, <2>5, ProcessMovesAside
  <1> QED
    BY <1>4, <1>5

\* The newest proven file, if there is one.
LEMMA NewestTyped ==
  ASSUME CopyInv, proven # {}
  PROVE  newestOf(proven) \in files
  <1>1. {f.date : f \in proven} \in SUBSET Nat /\ {f.date : f \in proven} # {}
    BY BackupsAssumption DEF CopyInv, CopyShape, File, proven
  <1>2. IsFiniteSet({f.date : f \in proven})
    <2>1. files \subseteq File /\ IsFiniteSet(files)
      BY DEF CopyInv, CopyShape
    <2>2. {f.date : f \in proven} = datesOf(files)
      BY DEF proven, datesOf
    <2> QED
      BY <2>1, <2>2, DatesOfFiles
  <1>3. PICK d \in {f.date : f \in proven} : \A e \in {f.date : f \in proven} : d >= e
    BY <1>1, <1>2, GreatestOf
  <1>4. PICK f \in proven : f.date = d
    BY <1>3
  <1>5. \A g \in proven : g.date <= f.date
    BY <1>1, <1>3, <1>4
  <1> QED
    BY <1>4, <1>5 DEF newestOf, proven

\* The record of a mirror run by hand.
LEMMA AsMirror ==
  ASSUME NEW d, NEW db
  PROVE  [Idle EXCEPT !.at = "checking", !.by = "confirmed", !.date = d, !.plan = db] =
           JobRecord("checking", d, "confirmed", db, 0, FirstDb, {}, FirstDb, NotYet)
  <1> DEFINE p == [Idle EXCEPT !.at = "checking"]
             q == [p EXCEPT !.by = "confirmed"]
             s == [q EXCEPT !.date = d]
             t == [s EXCEPT !.plan = db]
  <1>1. p = JobRecord("checking", NoDate, NotYet, FirstDb, 0, FirstDb, {}, FirstDb, NotYet)
    BY DEF Idle, JobRecord
  <1>2. [Idle EXCEPT !.at = "checking", !.by = "confirmed", !.date = d, !.plan = db] = t
    OBVIOUS
  <1> HIDE DEF p
  <1>3. q = JobRecord("checking", NoDate, "confirmed", FirstDb, 0, FirstDb, {}, FirstDb,
                      NotYet)
    BY <1>1, Other_by DEF Fields, JobRecord
  <1> HIDE DEF q
  <1>4. s = JobRecord("checking", d, "confirmed", FirstDb, 0, FirstDb, {}, FirstDb, NotYet)
    BY <1>3, Other_date DEF Fields, JobRecord
  <1> HIDE DEF s
  <1>5. t = JobRecord("checking", d, "confirmed", db, 0, FirstDb, {}, FirstDb, NotYet)
    BY <1>4, Other_plan DEF Fields, JobRecord
  <1> HIDE DEF t
  <1> QED
    BY <1>2, <1>5

\* The command puts local aside first, so that none of its work is lost.
LEMMA StartMirrorKeeps == ASSUME CopyInv, StartMirror PROVE CopyInv'
  <1> DEFINE source == newestOf(proven)
             b == [Idle EXCEPT !.at = "checking", !.by = "confirmed",
                               !.date = source.date, !.plan = source.db]
  <1>1. /\ UNCHANGED <<cloud, local, files, onDate, history, written, exposed>>
        /\ failures' \in 0..MaxKills /\ source \in files /\ job["byHand"].at = "idle"
        /\ local \in Database
    BY NewestTyped DEF StartMirror, CopyInv, CopyShape
  <1>2. CASE source.db = local
    <2>1. job' = job /\ kept' = kept /\ state' = local
      BY <1>2 DEF StartMirror
    <2>2. OnlyWritten(local) /\ Spare(local)
      <3>1. NoLocalRow(local)
        BY <1>1, <1>2 DEF CopyInv, WorkKept
      <3>2. written \subseteq LocalRows
        BY DEF CopyInv, WorkKept
      <3> QED
        BY <3>1, <3>2 DEF OnlyWritten, Spare, NoLocalRow
    <2>3. CopyShape'
      BY <1>1, <2>1 DEF CopyInv, CopyShape, backup
    <2>4. WorkKept'
      BY <1>1, <2>1, <2>2 DEF CopyInv, WorkKept, NoLocalRow, OnlyWritten, Spare,
                              LocalWorkKept, mirroring
    <2>5. OneMoment' /\ RunRows' /\ Retained'
      BY <1>1, <2>1 DEF CopyInv, OneMoment, RunRows, Retained, ProvenIsOneMoment, proven,
                        backup
    <2> QED
      BY <2>3, <2>4, <2>5 DEF CopyInv
  <1>3. CASE source.db # local
    <2> HIDE DEF source
    <2>1. kept' = kept \union {local} /\ state' = state
          /\ job' = [job EXCEPT !["byHand"] = b]
      BY <1>3 DEF StartMirror, source
    <2>2. b = JobRecord("checking", source.date, "confirmed", source.db, 0, FirstDb, {},
                        FirstDb, NotYet)
      BY AsMirror
    <2> HIDE DEF b
    <2>3. JobShape(b) /\ b.plan = source.db /\ b.before = FirstDb /\ b.at = "checking"
      BY <1>1, <2>2, FirstDbTyped
         DEF JobShape, Fields, JobRecord, At, Mirroring, CopyInv, CopyShape, File
    <2>4. /\ job' = [k \in Jobs |-> job'[k]] /\ \A k \in Jobs : JobShape(job'[k])
          /\ backup' = backup /\ job'["byHand"] = b /\ job'["backup"] = job["backup"]
      BY <2>1, <2>3, CopyFacts, OneProcess DEF backup
    <2>5. CopyShape'
      BY <1>1, <2>1, <2>4 DEF CopyInv, CopyShape
    <2>6. WorkKept'
      <3>1. \A k \in Jobs : NoLocalRow(job'[k].plan) /\ OnlyWritten(job'[k].before)
        BY <1>1, <2>3, <2>4, CopyFacts, FirstDbTyped
           DEF CopyInv, WorkKept, NoLocalRow, OnlyWritten
      <3>2. Spare(local)'
        BY <1>1, <2>1 DEF Spare
      <3>3. \A k \in Jobs : job'[k].at \in {"copying", "recording"} => Spare(job'[k].before)
        BY <2>3, <2>4, CopyFacts DEF CopyInv, WorkKept
      <3>4. \A db : Spare(db) => Spare(db)'
        BY <1>1, <2>1 DEF Spare
      <3> QED
        BY <1>1, <2>1, <3>1, <3>2, <3>3, <3>4
           DEF CopyInv, WorkKept, NoLocalRow, OnlyWritten, LocalWorkKept
    <2>7. RunRows'
      BY <1>1, <2>3, <2>4, CopyFacts DEF CopyInv, RunRows
    <2>8. OneMoment' /\ Retained'
      BY <1>1, <2>4 DEF CopyInv, OneMoment, Retained, ProvenIsOneMoment, proven
    <2> QED
      BY <2>5, <2>6, <2>7, <2>8 DEF CopyInv
  <1> QED
    BY <1>2, <1>3

\* The mirror goes on only where local is what it was left as, or where a
\* person asked for it and local was put aside.
LEMMA CheckKeeps == ASSUME CopyInv, NEW j \in Jobs, Check(j) PROVE CopyInv'
  <1>1. /\ job[j].at = IF j = "backup" THEN "mirroring" ELSE "checking"
        /\ failures' \in 0..MaxKills
        /\ UNCHANGED <<cloud, local, files, kept, state, onDate, history, written, exposed>>
    BY DEF Check, world, CopyInv, CopyShape
  <1>2. /\ local \in Database /\ OnlyWritten(local) /\ JobShape(job[j])
        /\ job[j].plan.set.last <= cloud.set.last /\ NoLocalRow(job[j].plan)
        /\ OnlyWritten(job[j].before)
    BY CopyFacts DEF CopyInv, WorkKept, RunRows
  <1>3. mayReplace(j) => Spare(local)
    <2> SUFFICES ASSUME mayReplace(j) PROVE Spare(local)
      OBVIOUS
    <2>1. CASE j = "backup"
      <3>1. job[j].by # "confirmed"
        BY <1>1, <2>1 DEF CopyInv, CopyShape, backup
      <3> QED
        BY <3>1 DEF mayReplace, unchanged, CopyInv, WorkKept
    <2>2. CASE j # "backup"
      BY <1>1, <2>2 DEF CopyInv, WorkKept, mirroring, Mirroring
    <2> QED
      BY <2>1, <2>2
  <1>4. j = "backup" => /\ backup = job[j] /\ job[j].date = onDate /\ job[j].date \in Dates
                        /\ job[j].by \in {"nightly", "hand"}
    BY <1>1 DEF CopyInv, CopyShape, backup
  <1>5. CASE job' = [job EXCEPT ![j] = [@ EXCEPT !.at = "copying", !.before = local]]
             /\ mayReplace(j)
    <2> DEFINE q == [job[j] EXCEPT !.at = "copying"]
               b == [q EXCEPT !.before = local]
    <2>1. job' = [job EXCEPT ![j] = b]
      BY <1>5
    <2>2. /\ b.at = "copying" /\ b.plan = job[j].plan
          /\ b.before = local /\ b.date = job[j].date /\ b.by = job[j].by
          /\ JobShape(b)
      <3>1. q = JobRecord("copying", job[j].date, job[j].by, job[j].plan, job[j].checks,
                          job[j].fp, job[j].remove, job[j].before, job[j].mirror)
        BY <1>2, Other_at DEF JobShape
      <3> HIDE DEF q
      <3>2. Fields(q)
        BY <3>1 DEF Fields, JobRecord
      <3>3. b = JobRecord("copying", job[j].date, job[j].by, job[j].plan, job[j].checks,
                          job[j].fp, job[j].remove, local, job[j].mirror)
        BY <3>1, <3>2, Other_before DEF JobRecord
      <3> QED
        BY <1>2, <3>3 DEF JobShape, Fields, JobRecord, At, Mirroring
    <2> HIDE DEF q, b
    <2>3. Fits(j, b) /\ b.at \in Mirroring
      BY <1>2, <1>3, <1>4, <1>5, <2>2 DEF Fits, Mirroring
    <2> QED
      BY <1>1, <1>4, <2>1, <2>2, <2>3, RecordsStay, ProcessMovesAside
  <1>6. CASE job' = [job EXCEPT ![j] = [@ EXCEPT !.at = "recording", !.before = local,
                                                 !.mirror = "asIs"]]
             /\ mayReplace(j)
    <2> DEFINE q == [job[j] EXCEPT !.at = "recording"]
               p == [q EXCEPT !.before = local]
               b == [p EXCEPT !.mirror = "asIs"]
    <2>1. job' = [job EXCEPT ![j] = b]
      BY <1>6
    <2>2. /\ b.at = "recording" /\ b.plan = job[j].plan
          /\ b.before = local /\ b.date = job[j].date /\ b.by = job[j].by
          /\ JobShape(b)
      <3>1. q = JobRecord("recording", job[j].date, job[j].by, job[j].plan, job[j].checks,
                          job[j].fp, job[j].remove, job[j].before, job[j].mirror)
        BY <1>2, Other_at DEF JobShape
      <3> HIDE DEF q
      <3>2. Fields(q)
        BY <3>1 DEF Fields, JobRecord
      <3>3. p = JobRecord("recording", job[j].date, job[j].by, job[j].plan, job[j].checks,
                          job[j].fp, job[j].remove, local, job[j].mirror)
        BY <3>1, <3>2, Other_before DEF JobRecord
      <3> HIDE DEF p
      <3>4. Fields(p)
        BY <3>3 DEF Fields, JobRecord
      <3>5. b = JobRecord("recording", job[j].date, job[j].by, job[j].plan, job[j].checks,
                          job[j].fp, job[j].remove, local, "asIs")
        BY <3>3, <3>4, Other_mirror DEF JobRecord
      <3> QED
        BY <1>2, <3>5 DEF JobShape, Fields, JobRecord, At, Mirroring
    <2> HIDE DEF p, q, b
    <2>3. Fits(j, b) /\ b.at \in Mirroring
      BY <1>2, <1>3, <1>4, <1>6, <2>2 DEF Fits, Mirroring
    <2> QED
      BY <1>1, <1>4, <2>1, <2>2, <2>3, RecordsStay, ProcessMovesAside
  <1>7. CASE j = "backup"
             /\ job' = [job EXCEPT ![j] = [@ EXCEPT !.at = afterMirror, !.mirror = "refused"]]
    <2> DEFINE q == [job[j] EXCEPT !.at = "setCloud"]
               b == [q EXCEPT !.mirror = "refused"]
    <2>1. job' = [job EXCEPT ![j] = b]
      BY <1>7 DEF afterMirror
    <2>2. /\ b.at = "setCloud" /\ b.mirror = "refused" /\ b.plan = job[j].plan
          /\ b.before = job[j].before /\ b.date = job[j].date /\ b.by = job[j].by
          /\ JobShape(b)
      <3>1. q = JobRecord("setCloud", job[j].date, job[j].by, job[j].plan, job[j].checks,
                          job[j].fp, job[j].remove, job[j].before, job[j].mirror)
        BY <1>2, Other_at DEF JobShape
      <3> HIDE DEF q
      <3>2. Fields(q)
        BY <3>1 DEF Fields, JobRecord
      <3>3. b = JobRecord("setCloud", job[j].date, job[j].by, job[j].plan, job[j].checks,
                          job[j].fp, job[j].remove, job[j].before, "refused")
        BY <3>1, <3>2, Other_mirror DEF JobRecord
      <3> QED
        BY <1>2, <3>3 DEF JobShape, Fields, JobRecord, At, Mirroring
    <2> HIDE DEF q, b
    <2>3. Fits(j, b) /\ b.at \in Mirroring
      BY <1>2, <1>4, <1>7, <2>2 DEF Fits, Mirroring, Mirrors
    <2> QED
      BY <1>1, <1>4, <1>7, <2>1, <2>2, <2>3, RecordsStay, ProcessMovesAside
  <1>8. CASE job' = [job EXCEPT ![j] = Idle]
    BY <1>1, <1>8, IdleFits, RecordsStay, ProcessMovesAside
  <1> QED
    <2> DEFINE source == {f \in proven : f.date = job[j].date}
               refused == source = {} \/ ~mayReplace(j)
    <2>1. CASE refused /\ j = "backup"
      BY <1>7, <2>1 DEF Check
    <2>2. CASE refused /\ j # "backup"
      BY <1>8, <2>2 DEF Check
    <2>3. CASE ~refused /\ local = job[j].plan
      BY <1>6, <2>3 DEF Check
    <2>4. CASE ~refused /\ local # job[j].plan
      BY <1>5, <2>4 DEF Check
    <2> QED
      BY <2>1, <2>2, <2>3, <2>4

\* A backup that reads, and touches no file.
LEMMA BackupReads ==
  ASSUME CopyInv, NEW b, Fits("backup", b), job' = [job EXCEPT !["backup"] = b],
         UNCHANGED <<cloud, local, files, kept, state, onDate, failures, history,
                     written, exposed>>,
         b.date = onDate
  PROVE  CopyShape' /\ WorkKept' /\ RunRows' /\ backup' = b
  <1>1. /\ onDate' \in Nat /\ onDate' = onDate /\ onDate' >= onDate
        /\ failures' \in 0..MaxKills
        /\ files' \subseteq File /\ IsFiniteSet(files')
        /\ \A f \in files' : NoLocalRow(f.db) /\ f.db.set.last <= cloud.set.last
    BY DEF CopyInv, CopyShape, WorkKept, RunRows
  <1>2. "backup" \in Jobs /\ b.date = onDate'
    BY <1>1, CopyFacts
  <1>3. backup' = b
    BY CopyFacts, OneProcess DEF backup, Fits
  <1> QED
    BY <1>1, <1>2, <1>3, RecordsStay, ProcessMoves

\* The settings of the cloud are read before its rows.
LEMMA ReadSettingsKeeps == ASSUME CopyInv, ReadSettings PROVE CopyInv'
  <1> DEFINE db == [backup.plan EXCEPT !.set = cloud.set]
             q == [backup EXCEPT !.at = "readRows"]
             b == [q EXCEPT !.plan = db]
  <1>1. /\ backup.at = "readSettings" /\ backup.plan \in Database /\ cloud \in Database
        /\ UNCHANGED <<cloud, local, files, kept, state, onDate, failures, history,
                      written, exposed>>
    BY CopyFacts DEF ReadSettings, world, JobShape
  <1>2. db = [rows |-> backup.plan.rows, set |-> cloud.set] /\ db \in Database
    <2>1. cloud.set \in Settings
      BY <1>1, DbFacts
    <2> QED
      BY <1>1, <2>1, OtherSettings
  <1>3. job' = [job EXCEPT !["backup"] = b]
    <2>1. job = [k \in Jobs |-> job[k]] /\ "backup" \in Jobs
      BY CopyFacts
    <2> QED
      BY <2>1 DEF ReadSettings, backup
  <1> HIDE DEF db
  <1>4. /\ b = JobRecord("readRows", backup.date, backup.by, db,
                      backup.checks, backup.fp, backup.remove, backup.before, backup.mirror)
        /\ JobShape(b)
    <2>1. q = JobRecord("readRows", backup.date, backup.by, backup.plan, backup.checks,
                      backup.fp, backup.remove, backup.before, backup.mirror)
      BY CopyFacts, Other_at DEF JobShape
    <2> HIDE DEF q
    <2>2. Fields(q)
      BY <2>1 DEF Fields, JobRecord
    <2>3. b = JobRecord("readRows", backup.date, backup.by, db, backup.checks,
                      backup.fp, backup.remove, backup.before, backup.mirror)
      BY <2>1, <2>2, Other_plan DEF JobRecord
    <2> QED
      BY <1>1, <1>2, <2>3, CopyFacts DEF JobShape, Fields, JobRecord, At
  <1> HIDE DEF q, b
  <1>5. /\ b.at = "readRows" /\ b.plan = db /\ b.fp = backup.fp
        /\ b.date = backup.date /\ b.by = backup.by /\ b.before = backup.before
    BY <1>4 DEF JobRecord
  <1>6. b.plan.set.last <= cloud.set.last /\ NoLocalRow(b.plan) /\ OnlyWritten(b.before)
    <2>1. cloud.set.last \in Nat
      BY <1>1, DbFacts
    <2> QED
      BY <1>2, <1>5, <2>1, CopyFacts DEF CopyInv, RunRows, WorkKept, NoLocalRow
  <1>7. Fits("backup", b) /\ b.date = onDate
    BY <1>1, <1>4, <1>5, <1>6 DEF Fits, Mirrors, Mirroring, CopyInv, CopyShape
  <1>8. CopyShape' /\ WorkKept' /\ RunRows' /\ backup' = b
    BY <1>1, <1>3, <1>7, BackupReads
  <1>9. OneMoment'
    <2>1. cloud.set.pref \in Nat /\ backup.plan.set.pref \in Nat
      BY <1>1, CopyFacts, DbFacts
    <2> QED
      BY <1>1, <1>2, <1>5, <1>8, <2>1 DEF CopyInv, OneMoment, ProvenIsOneMoment, proven
  <1>10. Retained'
    BY <1>1, <1>5, <1>8 DEF CopyInv, Retained, proven
  <1> QED
    BY <1>8, <1>9, <1>10 DEF CopyInv

\* If no setting changed between, settings and rows are of one moment.
LEMMA ReadRowsKeeps == ASSUME CopyInv, ReadRows PROVE CopyInv'
  <1> DEFINE db == [backup.plan EXCEPT !.rows = cloud.rows]
             q == [backup EXCEPT !.at = "checks"]
             b == [q EXCEPT !.plan = db]
  <1>1. /\ backup.at = "readRows" /\ backup.plan \in Database /\ cloud \in Database
        /\ UNCHANGED <<cloud, local, files, kept, state, onDate, failures, history,
                      written, exposed>>
    BY CopyFacts DEF ReadRows, world, JobShape
  <1>2. db = [rows |-> cloud.rows, set |-> backup.plan.set] /\ db \in Database
    <2>1. cloud.rows \in SUBSET ({FirstRow} \union CloudRows \union LocalRows)
      BY <1>1 DEF Database
    <2> QED
      BY <1>1, <2>1, OtherRows
  <1>3. job' = [job EXCEPT !["backup"] = b]
    <2>1. job = [k \in Jobs |-> job[k]] /\ "backup" \in Jobs
      BY CopyFacts
    <2> QED
      BY <2>1 DEF ReadRows, backup
  <1> HIDE DEF db
  <1>4. /\ b = JobRecord("checks", backup.date, backup.by, db,
                      backup.checks, backup.fp, backup.remove, backup.before, backup.mirror)
        /\ JobShape(b)
    <2>1. q = JobRecord("checks", backup.date, backup.by, backup.plan, backup.checks,
                      backup.fp, backup.remove, backup.before, backup.mirror)
      BY CopyFacts, Other_at DEF JobShape
    <2> HIDE DEF q
    <2>2. Fields(q)
      BY <2>1 DEF Fields, JobRecord
    <2>3. b = JobRecord("checks", backup.date, backup.by, db, backup.checks,
                      backup.fp, backup.remove, backup.before, backup.mirror)
      BY <2>1, <2>2, Other_plan DEF JobRecord
    <2> QED
      BY <1>1, <1>2, <2>3, CopyFacts DEF JobShape, Fields, JobRecord, At
  <1> HIDE DEF q, b
  <1>5. /\ b.at = "checks" /\ b.plan = db /\ b.fp = backup.fp
        /\ b.date = backup.date /\ b.by = backup.by /\ b.before = backup.before
    BY <1>4 DEF JobRecord
  <1>6. b.plan.set.last <= cloud.set.last /\ NoLocalRow(b.plan) /\ OnlyWritten(b.before)
    <2>1. cloud.set.last \in Nat
      BY <1>1, DbFacts
    <2> QED
      BY <1>2, <1>5, <2>1, CopyFacts DEF CopyInv, RunRows, WorkKept, NoLocalRow
  <1>7. Fits("backup", b) /\ b.date = onDate
    BY <1>1, <1>4, <1>5, <1>6 DEF Fits, Mirrors, Mirroring, CopyInv, CopyShape
  <1>8. CopyShape' /\ WorkKept' /\ RunRows' /\ backup' = b
    BY <1>1, <1>3, <1>7, BackupReads
  <1>9. OneMoment'
    <2>1. cloud.set.pref \in Nat /\ backup.plan.set.pref \in Nat
      BY <1>1, CopyFacts, DbFacts
    <2>2. db \in history \/ cloud.set.pref > db.set.pref
      <3>1. CASE cloud.set.pref = backup.plan.set.pref
        <4>1. cloud.set = backup.plan.set
          BY <1>1, <3>1 DEF CopyInv, OneMoment
        <4>2. db = cloud
          BY <1>1, <1>2, <4>1, DbFacts
        <4> QED
          BY <4>2 DEF CopyInv, OneMoment
      <3>2. CASE cloud.set.pref # backup.plan.set.pref
        BY <1>1, <1>2, <2>1, <3>2 DEF CopyInv, OneMoment
      <3> QED
        BY <3>1, <3>2
    <2> QED
      BY <1>1, <1>5, <1>8, <2>2 DEF CopyInv, OneMoment, ProvenIsOneMoment, proven
  <1>10. Retained'
    BY <1>1, <1>5, <1>8 DEF CopyInv, Retained, proven
  <1> QED
    BY <1>8, <1>9, <1>10 DEF CopyInv

\* The digest of the settings: another than the copy's, if they have changed.
LEMMA FingerprintSettingsKeeps == ASSUME CopyInv, FingerprintSettings PROVE CopyInv'
  <1> DEFINE db == [backup.fp EXCEPT !.set = cloud.set]
             q == [backup EXCEPT !.at = "fpRows"]
             b == [q EXCEPT !.fp = db]
  <1>1. /\ backup.at = "fpSettings" /\ backup.fp \in Database /\ cloud \in Database
        /\ UNCHANGED <<cloud, local, files, kept, state, onDate, failures, history,
                      written, exposed>>
    BY CopyFacts DEF FingerprintSettings, world, JobShape
  <1>2. db = [rows |-> backup.fp.rows, set |-> cloud.set] /\ db \in Database
    <2>1. cloud.set \in Settings
      BY <1>1, DbFacts
    <2> QED
      BY <1>1, <2>1, OtherSettings
  <1>3. job' = [job EXCEPT !["backup"] = b]
    <2>1. job = [k \in Jobs |-> job[k]] /\ "backup" \in Jobs
      BY CopyFacts
    <2> QED
      BY <2>1 DEF FingerprintSettings, backup
  <1> HIDE DEF db
  <1>4. /\ b = JobRecord("fpRows", backup.date, backup.by, backup.plan,
                      backup.checks, db, backup.remove, backup.before, backup.mirror)
        /\ JobShape(b)
    <2>1. q = JobRecord("fpRows", backup.date, backup.by, backup.plan, backup.checks,
                      backup.fp, backup.remove, backup.before, backup.mirror)
      BY CopyFacts, Other_at DEF JobShape
    <2> HIDE DEF q
    <2>2. Fields(q)
      BY <2>1 DEF Fields, JobRecord
    <2>3. b = JobRecord("fpRows", backup.date, backup.by, backup.plan, backup.checks,
                      db, backup.remove, backup.before, backup.mirror)
      BY <2>1, <2>2, Other_fp DEF JobRecord
    <2> QED
      BY <1>1, <1>2, <2>3, CopyFacts DEF JobShape, Fields, JobRecord, At
  <1> HIDE DEF q, b
  <1>5. /\ b.at = "fpRows" /\ b.plan = backup.plan /\ b.fp = db
        /\ b.date = backup.date /\ b.by = backup.by /\ b.before = backup.before
    BY <1>4 DEF JobRecord
  <1>6. b.plan.set.last <= cloud.set.last /\ NoLocalRow(b.plan) /\ OnlyWritten(b.before)
    <2>1. cloud.set.last \in Nat
      BY <1>1, DbFacts
    <2> QED
      BY <1>2, <1>5, <2>1, CopyFacts DEF CopyInv, RunRows, WorkKept, NoLocalRow
  <1>7. Fits("backup", b) /\ b.date = onDate
    BY <1>1, <1>4, <1>5, <1>6 DEF Fits, Mirrors, Mirroring, CopyInv, CopyShape
  <1>8. CopyShape' /\ WorkKept' /\ RunRows' /\ backup' = b
    BY <1>1, <1>3, <1>7, BackupReads
  <1>9. OneMoment'
    BY <1>1, <1>2, <1>5, <1>8 DEF CopyInv, OneMoment, ProvenIsOneMoment, proven
  <1>10. Retained'
    BY <1>1, <1>5, <1>8 DEF CopyInv, Retained, proven
  <1> QED
    BY <1>8, <1>9, <1>10 DEF CopyInv

\* The new file, empty tables first, beside the others.
LEMMA ReadChecksKeeps == ASSUME CopyInv, ReadChecks PROVE CopyInv'
  <1> DEFINE q == [backup EXCEPT !.at = "filling"]
             b == [q EXCEPT !.checks = Cardinality(cloud.rows)]
             file == partialOf("backup")
  <1>1. /\ backup.at = "checks" /\ files' = files \union {file}
        /\ UNCHANGED <<cloud, local, kept, state, onDate, failures, history, written, exposed>>
    BY CopyFacts DEF ReadChecks, world
  <1>2. job' = [job EXCEPT !["backup"] = b]
    <2>1. job = [k \in Jobs |-> job[k]] /\ "backup" \in Jobs
      BY CopyFacts
    <2> QED
      BY <2>1 DEF ReadChecks, backup
  <1>3. /\ b = JobRecord("filling", backup.date, backup.by, backup.plan, Cardinality(cloud.rows),
                         backup.fp, backup.remove, backup.before, backup.mirror)
        /\ JobShape(b)
    <2>1. q = JobRecord("filling", backup.date, backup.by, backup.plan, backup.checks,
                        backup.fp, backup.remove, backup.before, backup.mirror)
      BY CopyFacts, Other_at DEF JobShape
    <2> HIDE DEF q
    <2>2. Fields(q)
      BY <2>1 DEF Fields, JobRecord
    <2>3. b = JobRecord("filling", backup.date, backup.by, backup.plan, Cardinality(cloud.rows),
                        backup.fp, backup.remove, backup.before, backup.mirror)
      BY <2>1, <2>2, Other_checks DEF JobRecord
    <2> QED
      BY <2>3, CopyFacts DEF JobShape, Fields, JobRecord, At
  <1> HIDE DEF q, b
  <1>4. /\ b.at = "filling" /\ b.plan = backup.plan /\ b.date = backup.date
        /\ b.by = backup.by /\ b.before = backup.before
    BY <1>3 DEF JobRecord
  <1>5. /\ backup.date = onDate /\ backup.date \in Dates /\ backup.by \in {"nightly", "hand"}
        /\ onDate \in Nat
    BY <1>1 DEF CopyInv, CopyShape
  <1>6. Fits("backup", b)
    BY <1>3, <1>4, <1>5, CopyFacts
       DEF Fits, Mirrors, Mirroring, CopyInv, RunRows, WorkKept
  <1>7. /\ file \in File /\ file.date = onDate /\ file.kind = "partial"
        /\ NoLocalRow(file.db) /\ file.db.set.last <= cloud.set.last
    <2> DEFINE empty == [FirstDb EXCEPT !.rows = {}]
    <2>1. file = [date |-> backup.date, kind |-> "partial", by |-> backup.by, db |-> empty]
      BY DEF partialOf, backup
    <2>2. cloud.set.last \in Nat
      BY CopyFacts, DbFacts
    <2>3. empty \in Database /\ NoLocalRow(empty) /\ empty.set.last = NoDate
      BY FirstDbTyped
    <2> HIDE DEF file, empty
    <2>4. file.db = empty /\ file \in File /\ file.date = onDate /\ file.kind = "partial"
      BY <1>5, <2>1, <2>3 DEF File
    <2> QED
      BY <2>2, <2>3, <2>4 DEF NoDate
  <1> HIDE DEF file
  <1>8. CopyShape' /\ WorkKept' /\ RunRows' /\ backup' = b
    <2>1. /\ onDate' \in Nat /\ onDate' >= onDate /\ failures' \in 0..MaxKills
          /\ b.date = onDate'
      BY <1>1, <1>4, <1>5 DEF CopyInv, CopyShape
    <2>2. files' \subseteq File /\ IsFiniteSet(files')
      BY <1>1, <1>7, FS_AddElement DEF CopyInv, CopyShape
    <2>3. \A f \in files' : NoLocalRow(f.db) /\ f.db.set.last <= cloud.set.last
      BY <1>1, <1>7 DEF CopyInv, WorkKept, RunRows
    <2>4. backup' = b
      BY <1>2, <1>3, CopyFacts, OneProcess DEF backup
    <2> QED
      BY <1>1, <1>2, <1>6, <2>1, <2>2, <2>3, <2>4, CopyFacts, RecordsStay, ProcessMoves
  <1>9. OneMoment'
    BY <1>1, <1>4, <1>7, <1>8 DEF CopyInv, OneMoment, ProvenIsOneMoment, proven
  <1>10. Retained'
    <2>1. \A f \in files : f.date # onDate /\ f.date <= onDate
      BY <1>1, <1>5 DEF CopyInv, Retained
    <2>2. \A f \in files' : f.date <= onDate
      BY <1>1, <1>5, <1>7, <2>1
    <2>3. \A f, g \in files' : f.date = g.date => f = g
      BY <1>1, <1>7, <2>1 DEF CopyInv, Retained
    <2>4. \A f \in proven' : f.date # backup'.date
      BY <1>1, <1>4, <1>5, <1>7, <1>8, <2>1 DEF proven
    <2> QED
      BY <1>1, <1>4, <1>8, <2>2, <2>3, <2>4 DEF Retained
  <1> QED
    BY <1>8, <1>9, <1>10 DEF CopyInv

\* The file of a run takes its name in place of the copy under way.
LEMMA RenamedTyped ==
  ASSUME CopyInv, backup.at # "idle", NEW kind \in {"verified", "partial", "unverified"}
  PROVE  /\ renamed("backup", kind) \subseteq File /\ IsFiniteSet(renamed("backup", kind))
         /\ \A f \in renamed("backup", kind) :
               /\ NoLocalRow(f.db) /\ f.db.set.last <= cloud.set.last /\ f.date <= onDate
               /\ \/ f \in files /\ f.date # onDate
                  \/ f.date = onDate /\ f.kind = kind /\ f.by = backup.by
                     /\ f.db = backup.plan
         /\ \A f, g \in renamed("backup", kind) : f.date = g.date => f = g
  <1> DEFINE new == named("backup", kind)
             old == {f \in files : f.date # job["backup"].date}
  <1>1. /\ backup.date = onDate /\ backup.date \in Dates /\ backup.by \in {"nightly", "hand"}
        /\ onDate \in Nat /\ files \subseteq File /\ IsFiniteSet(files)
    BY DEF CopyInv, CopyShape
  <1>2. /\ new = [date |-> backup.date, kind |-> kind, by |-> backup.by, db |-> backup.plan]
        /\ renamed("backup", kind) = old \union {new}
    BY CopyFacts DEF named, renamed
  <1>3. \A f \in old : f \in files /\ f.date # onDate
    BY <1>1, CopyFacts
  <1>4. IsFiniteSet(old) /\ old \subseteq files
    BY <1>1, FS_Subset, old \in SUBSET files
  <1> HIDE DEF old, new
  <1>5. /\ new \in File /\ new.date = onDate /\ new.kind = kind /\ new.by = backup.by
        /\ new.db = backup.plan
    BY <1>1, <1>2, CopyFacts DEF File
  <1>6. /\ NoLocalRow(backup.plan) /\ backup.plan.set.last <= cloud.set.last
        /\ \A f \in files : /\ NoLocalRow(f.db) /\ f.db.set.last <= cloud.set.last
                            /\ f.date <= onDate
    BY CopyFacts DEF CopyInv, WorkKept, RunRows, Retained
  <1>7. \A f \in old \union {new} :
           /\ NoLocalRow(f.db) /\ f.db.set.last <= cloud.set.last /\ f.date <= onDate
           /\ \/ f \in files /\ f.date # onDate
              \/ f.date = onDate /\ f.kind = kind /\ f.by = backup.by /\ f.db = backup.plan
    <2> TAKE f \in old \union {new}
    <2>1. CASE f \in old
      BY <1>3, <1>6, <2>1
    <2>2. CASE f = new
      BY <1>1, <1>5, <1>6, <2>2
    <2> QED
      BY <2>1, <2>2
  <1>8. \A f, g \in old \union {new} : f.date = g.date => f = g
    BY <1>3, <1>5 DEF CopyInv, Retained
  <1>9. old \union {new} \subseteq File
    BY <1>1, <1>4, <1>5
  <1>10. IsFiniteSet(old \union {new})
    BY <1>4, FS_AddElement
  <1> QED
    BY <1>2, <1>7, <1>8, <1>9, <1>10

\* A backup that writes the name of its own file.
LEMMA BackupNames ==
  ASSUME CopyInv, backup.at # "idle", NEW kind \in {"verified", "partial", "unverified"},
         files' = renamed("backup", kind),
         NEW b, Fits("backup", b), job' = [job EXCEPT !["backup"] = b],
         UNCHANGED <<cloud, local, kept, state, onDate, failures, history, written, exposed>>,
         b.at # "idle" => b.date = onDate
  PROVE  /\ CopyShape' /\ WorkKept' /\ RunRows' /\ backup' = b
         /\ \A f \in files' : f.date <= onDate'
         /\ \A f, g \in files' : f.date = g.date => f = g
         /\ \A f \in proven' : f \in proven \/ /\ kind = "verified" /\ f.by = backup.by
                                               /\ f.db = backup.plan
         /\ kind # "verified" => \A f \in proven' : f.date # onDate
  <1>1. /\ files' \subseteq File /\ IsFiniteSet(files')
        /\ \A f \in files' :
              /\ NoLocalRow(f.db) /\ f.db.set.last <= cloud.set.last /\ f.date <= onDate
              /\ \/ f \in files /\ f.date # onDate
                 \/ f.date = onDate /\ f.kind = kind /\ f.by = backup.by /\ f.db = backup.plan
        /\ \A f, g \in files' : f.date = g.date => f = g
    BY RenamedTyped
  <1>2. /\ onDate' \in Nat /\ onDate' >= onDate /\ failures' \in 0..MaxKills /\ onDate' = onDate
        /\ b.at # "idle" => b.date = onDate'
    BY DEF CopyInv, CopyShape
  <1>3. backup' = b /\ "backup" \in Jobs
    BY CopyFacts, OneProcess DEF backup, Fits
  <1>4. CopyShape' /\ WorkKept' /\ RunRows'
    BY <1>1, <1>2, <1>3, RecordsStay, ProcessMoves
  <1>5. \A f \in proven' : f \in proven \/ /\ kind = "verified" /\ f.by = backup.by
                                           /\ f.db = backup.plan
    BY <1>1 DEF proven
  <1>6. kind # "verified" => \A f \in proven' : f.date # onDate
    BY <1>1 DEF proven
  <1> QED
    BY <1>1, <1>2, <1>3, <1>4, <1>5, <1>6

\* The counts agree or the file is left unverified; the hand-run command
\* names it here.
LEMMA FillKeeps == ASSUME CopyInv, Fill PROVE CopyInv'
  <1> DEFINE ok == Cardinality(job["backup"].plan.rows) = job["backup"].checks
             kind == IF ~ok THEN "unverified"
                     ELSE IF backup.by = "nightly" THEN "partial" ELSE "verified"
             b == IF ok /\ backup.by = "nightly" THEN [backup EXCEPT !.at = "fpSettings"]
                  ELSE Idle
  <1>1. /\ backup.at = "filling" /\ files' = renamed("backup", kind)
        /\ job' = [job EXCEPT !["backup"] = b]
        /\ UNCHANGED <<cloud, local, kept, state, onDate, failures, history, written, exposed>>
    BY DEF Fill, world, backup
  <1>2. kind \in {"verified", "partial", "unverified"}
        /\ (kind = "verified" => backup.by # "nightly")
    OBVIOUS
  <1>3. b = Idle \/ /\ kind = "partial"
                    /\ b = JobRecord("fpSettings", backup.date, backup.by, backup.plan,
                                     backup.checks, backup.fp, backup.remove, backup.before,
                                     backup.mirror)
    BY CopyFacts, Other_at DEF JobShape
  <1> HIDE DEF ok, kind, b
  <1>4. Fits("backup", b)
    <2>1. CASE b = Idle
      BY <2>1, CopyFacts, IdleFits
    <2>2. CASE b # Idle
      <3>1. /\ b.at = "fpSettings" /\ b.plan = backup.plan /\ b.date = backup.date
            /\ b.by = backup.by /\ b.before = backup.before /\ JobShape(b)
        BY <1>3, <2>2, CopyFacts DEF JobShape, Fields, JobRecord, At
      <3> QED
        BY <1>1, <3>1, CopyFacts
           DEF Fits, Mirrors, Mirroring, CopyInv, CopyShape, RunRows, WorkKept
    <2> QED
      BY <2>1, <2>2
  <1>5. \/ b.at = "idle"
        \/ /\ b.at = "fpSettings" /\ b.plan = backup.plan /\ b.date = onDate /\ kind = "partial"
    BY <1>1, <1>3, IdleShape DEF JobRecord, CopyInv, CopyShape
  <1>6. /\ CopyShape' /\ WorkKept' /\ RunRows' /\ backup' = b
        /\ \A f \in files' : f.date <= onDate'
        /\ \A f, g \in files' : f.date = g.date => f = g
        /\ \A f \in proven' : f \in proven \/ /\ kind = "verified" /\ f.by = backup.by
        /\ kind # "verified" => \A f \in proven' : f.date # onDate
    BY <1>1, <1>2, <1>4, <1>5, BackupNames
  <1>7. OneMoment'
    BY <1>1, <1>2, <1>5, <1>6 DEF CopyInv, OneMoment, ProvenIsOneMoment
  <1>8. Retained'
    BY <1>1, <1>5, <1>6 DEF CopyInv, Retained
  <1> QED
    BY <1>6, <1>7, <1>8 DEF CopyInv

\* The digests agree: the copy is a moment of the cloud, and takes the name.
LEMMA FingerprintKeeps == ASSUME CopyInv, Fingerprint PROVE CopyInv'
  <1> DEFINE kind == IF matches("backup") THEN "verified" ELSE "unverified"
             toRemove == planRetention(datesOf(renamed("backup", "verified")))
             b == IF matches("backup")
                  THEN [[backup EXCEPT !.at = "pruning"] EXCEPT !.remove = toRemove]
                  ELSE Idle
  <1>1. /\ backup.at = "fpRows" /\ files' = renamed("backup", kind)
        /\ UNCHANGED <<cloud, local, kept, state, onDate, failures, history, written, exposed>>
    BY DEF Fingerprint, world, backup
  <1>2. job' = [job EXCEPT !["backup"] = b]
    <2>1. job = [k \in Jobs |-> job[k]] /\ "backup" \in Jobs
      BY CopyFacts
    <2> HIDE DEF toRemove
    <2>2. toRemove = planRetention(datesOf(renamed("backup", "verified")))
      BY DEF toRemove
    <2>3. CASE matches("backup")
      BY <2>1, <2>2, <2>3 DEF Fingerprint, backup
    <2>4. CASE ~matches("backup")
      BY <2>4 DEF Fingerprint, backup
    <2> QED
      BY <2>3, <2>4
  <1>3. \/ ~matches("backup") /\ b = Idle
        \/ /\ matches("backup")
           /\ b = JobRecord("pruning", backup.date, backup.by, backup.plan, backup.checks,
                            backup.fp, toRemove, backup.before, backup.mirror)
    <2> DEFINE q == [backup EXCEPT !.at = "pruning"]
    <2> HIDE DEF toRemove
    <2>1. q = JobRecord("pruning", backup.date, backup.by, backup.plan, backup.checks,
                        backup.fp, backup.remove, backup.before, backup.mirror)
      BY CopyFacts, Other_at DEF JobShape
    <2>2. b = IF matches("backup") THEN [q EXCEPT !.remove = toRemove] ELSE Idle
      OBVIOUS
    <2> HIDE DEF q, b
    <2>3. Fields(q)
      BY <2>1 DEF Fields, JobRecord
    <2>4. [q EXCEPT !.remove = toRemove] =
             JobRecord("pruning", backup.date, backup.by, backup.plan, backup.checks,
                       backup.fp, toRemove, backup.before, backup.mirror)
      BY <2>1, <2>3, Other_remove DEF JobRecord
    <2> QED
      BY <2>2, <2>4
  <1>4. toRemove = planRetention(datesOf(renamed("backup", "verified")))
    OBVIOUS
  <1>5. /\ kind \in {"verified", "unverified"}
        /\ kind = "verified" <=> matches("backup")
    OBVIOUS
  <1> HIDE DEF kind, toRemove, b
  <1>6. Fits("backup", b)
    <2>1. CASE b = Idle
      BY <2>1, CopyFacts, IdleFits
    <2>2. CASE b # Idle
      <3>1. /\ b.at = "pruning" /\ b.plan = backup.plan /\ b.date = backup.date
            /\ b.by = backup.by /\ b.before = backup.before /\ JobShape(b)
        BY <1>3, <2>2, CopyFacts DEF JobShape, Fields, JobRecord, At
      <3> QED
        BY <1>1, <3>1, CopyFacts
           DEF Fits, Mirrors, Mirroring, CopyInv, CopyShape, RunRows, WorkKept
    <2> QED
      BY <2>1, <2>2
  <1>7. \/ b.at = "idle"
        \/ /\ matches("backup") /\ b.at = "pruning" /\ b.remove = toRemove
           /\ b.date = onDate /\ b.plan = backup.plan
    BY <1>1, <1>3, IdleShape DEF JobRecord, CopyInv, CopyShape
  <1>8. /\ CopyShape' /\ WorkKept' /\ RunRows' /\ backup' = b
        /\ \A f \in files' : f.date <= onDate'
        /\ \A f, g \in files' : f.date = g.date => f = g
        /\ \A f \in proven' : f \in proven \/ /\ kind = "verified" /\ f.by = backup.by
                                              /\ f.db = backup.plan
    BY <1>1, <1>2, <1>5, <1>6, <1>7, BackupNames
  <1>9. OneMoment'
    <2>1. matches("backup") => backup.plan \in history
      <3> SUFFICES ASSUME matches("backup") PROVE backup.plan \in history
        OBVIOUS
      <3>1. backup.plan.set = backup.fp.set
        <4>1. backup.plan = [backup.fp EXCEPT !.rows = cloud.rows]
          BY DEF matches, backup
        <4>2. backup.fp = [rows |-> backup.fp.rows, set |-> backup.fp.set]
          BY CopyFacts, DbFacts DEF JobShape
        <4> QED
          BY <4>1, <4>2
      <3>2. backup.plan.set.pref \in Nat
        BY CopyFacts, DbFacts
      <3> QED
        BY <1>1, <3>1, <3>2 DEF CopyInv, OneMoment
    <2>2. \A f \in proven' : f.by = "nightly" => f.db \in history
      BY <1>5, <1>8, <2>1 DEF CopyInv, OneMoment, ProvenIsOneMoment
    <2> QED
      BY <1>1, <1>7, <1>8, <2>2 DEF CopyInv, OneMoment, ProvenIsOneMoment
  <1>10. Retained'
    <2>1. CASE b.at = "idle"
      BY <1>8, <2>1 DEF Retained
    <2>2. CASE b.at # "idle"
      <3>1. b.at = "pruning" /\ b.remove = planRetention(datesOf(files'))
        BY <1>1, <1>4, <1>5, <1>7, <2>2
      <3>2. datesOf(files') \in SUBSET Nat /\ IsFiniteSet(datesOf(files'))
        <4>1. files' \subseteq File /\ IsFiniteSet(files')
          BY <1>8 DEF CopyShape
        <4> QED
          BY <4>1, DatesOfFiles
      <3>3. \A d \in b.remove : KeptFor(d, datesOf(files') \ b.remove)
        BY <3>1, <3>2, RetentionKeeps
      <3>4. datesOf(files)' = datesOf(files')
        BY DEF datesOf
      <3> QED
        BY <1>8, <3>1, <3>3, <3>4 DEF Retained
    <2> QED
      BY <2>1, <2>2
  <1> QED
    BY <1>8, <1>9, <1>10 DEF CopyInv

\* One date less in the list, the same date less among the files.
LEMMA PruneStepKeeps == ASSUME CopyInv, Prune PROVE CopyInv'
  <1>1. PICK d \in backup.remove :
           /\ files' = {f \in files : f.date # d \/ f.kind # "verified"}
           /\ job' = [job EXCEPT !["backup"].remove = @ \ {d}]
    BY DEF Prune, backup
  <1> DEFINE b == [backup EXCEPT !.remove = backup.remove \ {d}]
  <1>2. /\ backup.at = "pruning"
        /\ UNCHANGED <<cloud, local, kept, state, onDate, failures, history, written, exposed>>
    BY DEF Prune, world, backup
  <1>3. job' = [job EXCEPT !["backup"] = b]
    BY <1>1 DEF backup
  <1>4. /\ b = JobRecord("pruning", backup.date, backup.by, backup.plan, backup.checks,
                         backup.fp, backup.remove \ {d}, backup.before, backup.mirror)
        /\ JobShape(b)
    <2>1. b = JobRecord("pruning", backup.date, backup.by, backup.plan, backup.checks,
                        backup.fp, backup.remove \ {d}, backup.before, backup.mirror)
      BY <1>2, CopyFacts, Other_remove DEF JobShape
    <2> HIDE DEF b
    <2> QED
      BY <2>1, CopyFacts DEF JobShape, Fields, JobRecord, At
  <1> HIDE DEF b
  <1>5. /\ b.at = "pruning" /\ b.plan = backup.plan /\ b.date = backup.date
        /\ b.by = backup.by /\ b.before = backup.before /\ b.remove = backup.remove \ {d}
    BY <1>4 DEF JobRecord
  <1>6. Fits("backup", b) /\ b.date = onDate
    BY <1>2, <1>4, <1>5, CopyFacts
       DEF Fits, Mirrors, Mirroring, CopyInv, CopyShape, RunRows, WorkKept
  <1>7. CopyShape' /\ WorkKept' /\ RunRows' /\ backup' = b
    <2>1. /\ onDate' \in Nat /\ onDate' >= onDate /\ failures' \in 0..MaxKills
          /\ b.date = onDate'
      BY <1>2, <1>6 DEF CopyInv, CopyShape
    <2>2. files' \subseteq File /\ IsFiniteSet(files')
      BY <1>1, FS_Subset, files' \in SUBSET files DEF CopyInv, CopyShape
    <2>3. \A f \in files' : NoLocalRow(f.db) /\ f.db.set.last <= cloud.set.last
      BY <1>1 DEF CopyInv, WorkKept, RunRows
    <2>4. backup' = b
      BY <1>3, <1>4, CopyFacts, OneProcess DEF backup
    <2> QED
      BY <1>2, <1>3, <1>6, <2>1, <2>2, <2>3, <2>4, CopyFacts, RecordsStay, ProcessMoves
  <1>8. OneMoment'
    BY <1>1, <1>2, <1>5, <1>7 DEF CopyInv, OneMoment, ProvenIsOneMoment, proven
  <1>9. Retained'
    <2>1. datesOf(files') = datesOf(files) \ {d}
      BY <1>1 DEF datesOf
    <2>2. datesOf(files') \ b.remove = datesOf(files) \ backup.remove
      BY <1>1, <1>5, <2>1
    <2>3. \A e \in b.remove : KeptFor(e, datesOf(files') \ b.remove)
      BY <1>2, <1>5, <2>2 DEF CopyInv, Retained
    <2>4. datesOf(files)' = datesOf(files')
      BY DEF datesOf
    <2>5. /\ \A f \in files' : f.date <= onDate
          /\ \A f, g \in files' : f.date = g.date => f = g
      BY <1>1 DEF CopyInv, Retained
    <2> QED
      BY <1>2, <1>5, <1>7, <2>3, <2>4, <2>5 DEF Retained
  <1> QED
    BY <1>7, <1>8, <1>9 DEF CopyInv

\* A new run has a date no file has.
LEMMA StartBackupKeeps == ASSUME CopyInv, StartBackup PROVE CopyInv'
  <1>1. PICK d \in Dates, by \in {"nightly", "hand"} :
           /\ d = onDate + 1 /\ onDate' = d
           /\ job' = [job EXCEPT !["backup"] =
                        [Idle EXCEPT !.at = "readSettings", !.date = d, !.by = by]]
    BY DEF StartBackup
  <1> DEFINE p == [Idle EXCEPT !.at = "readSettings"]
             q == [p EXCEPT !.date = d]
             b == [q EXCEPT !.by = by]
  <1>2. /\ backup.at = "idle" /\ job' = [job EXCEPT !["backup"] = b]
        /\ UNCHANGED <<cloud, local, files, kept, state, failures, history, written, exposed>>
    BY <1>1 DEF StartBackup, world, backup
  <1>3. b = JobRecord("readSettings", d, by, FirstDb, 0, FirstDb, {}, FirstDb, NotYet)
    <2>1. p = JobRecord("readSettings", NoDate, NotYet, FirstDb, 0, FirstDb, {}, FirstDb,
                        NotYet)
      BY DEF Idle, JobRecord
    <2> HIDE DEF p
    <2>2. q = JobRecord("readSettings", d, NotYet, FirstDb, 0, FirstDb, {}, FirstDb, NotYet)
      BY <2>1, Other_date DEF Fields, JobRecord
    <2> HIDE DEF q
    <2> QED
      BY <2>2, Other_by DEF Fields, JobRecord
  <1> HIDE DEF p, q, b
  <1>4. /\ b.at = "readSettings" /\ b.date = d /\ b.by = by /\ b.plan = FirstDb
        /\ b.before = FirstDb /\ JobShape(b)
    BY <1>3, FirstDbTyped DEF JobShape, Fields, JobRecord, At
  <1>5. Fits("backup", b)
    <2>1. FirstDb.set.last <= cloud.set.last
      <3>1. cloud.set.last \in Nat
        BY CopyFacts, DbFacts
      <3> QED
        BY <3>1, FirstDbTyped DEF NoDate
    <2> QED
      BY <1>4, <2>1, FirstDbTyped DEF Fits, Mirrors, Mirroring, OnlyWritten, NoLocalRow
  <1>6. CopyShape' /\ WorkKept' /\ RunRows' /\ backup' = b
    <2>1. /\ onDate' \in Nat /\ onDate' >= onDate /\ failures' \in 0..MaxKills
          /\ b.date = onDate'
      BY <1>1, <1>2, <1>4, CopyFacts DEF CopyInv, CopyShape
    <2>2. /\ files' \subseteq File /\ IsFiniteSet(files')
          /\ \A f \in files' : NoLocalRow(f.db) /\ f.db.set.last <= cloud.set.last
      BY <1>2 DEF CopyInv, CopyShape, WorkKept, RunRows
    <2>3. backup' = b
      BY <1>2, <1>4, CopyFacts, OneProcess DEF backup
    <2> QED
      BY <1>2, <1>5, <2>1, <2>2, <2>3, CopyFacts, RecordsStay, ProcessMoves
  <1>7. OneMoment'
    BY <1>2, <1>4, <1>6 DEF CopyInv, OneMoment, ProvenIsOneMoment, proven
  <1>8. Retained'
    <2>1. \A f \in files : f.date \in Nat /\ f.date <= onDate
      BY CopyFacts DEF CopyInv, CopyShape, File, Retained
    <2>2. \A f \in files' : f.date # b.date /\ f.date <= onDate'
      BY <1>1, <1>2, <1>4, <2>1, CopyFacts
    <2> QED
      BY <1>2, <1>4, <1>6, <2>2 DEF CopyInv, Retained
  <1> QED
    BY <1>6, <1>7, <1>8 DEF CopyInv

\* Others write to the cloud: what a copy reads is still a moment of it, or
\* its settings have moved on.
LEMMA CloudMoves ==
  ASSUME CopyInv, cloud' \in Database, NoLocalRow(cloud'), history' = history \union {cloud'},
         UNCHANGED <<local, files, kept, state, job, onDate, failures, written, exposed>>,
         cloud'.set.last = cloud.set.last, cloud'.set.pref >= cloud.set.pref,
         cloud'.set.pref = cloud.set.pref => cloud'.set = cloud.set
  PROVE  CopyInv'
  <1>1. backup' = backup
    BY DEF backup
  <1>2. CopyShape'
    BY <1>1 DEF CopyInv, CopyShape
  <1>3. OneMoment'
    <2>1. /\ cloud.set.pref \in Nat /\ cloud'.set.pref \in Nat
          /\ backup.plan.set.pref \in Nat
      BY CopyFacts, DbFacts
    <2>2. backup.at = "readRows" =>
            /\ cloud'.set.pref >= backup.plan.set.pref
            /\ cloud'.set.pref = backup.plan.set.pref => cloud'.set = backup.plan.set
      BY <2>1 DEF CopyInv, OneMoment
    <2>3. backup.at \in {"checks", "filling", "fpSettings"} =>
            backup.plan \in history \/ cloud'.set.pref > backup.plan.set.pref
      BY <2>1 DEF CopyInv, OneMoment
    <2>4. backup.at = "fpRows" =>
            backup.plan \in history \/ backup.fp.set.pref > backup.plan.set.pref
      BY DEF CopyInv, OneMoment
    <2>5. ProvenIsOneMoment'
      BY DEF CopyInv, OneMoment, ProvenIsOneMoment, proven
    <2> QED
      BY <1>1, <2>2, <2>3, <2>4, <2>5 DEF OneMoment
  <1>4. WorkKept'
    BY DEF CopyInv, WorkKept, NoLocalRow, OnlyWritten, Spare, LocalWorkKept, mirroring
  <1>5. RunRows'
    BY <1>1 DEF CopyInv, RunRows
  <1>6. Retained'
    BY <1>1 DEF CopyInv, Retained, proven
  <1> QED
    BY <1>2, <1>3, <1>4, <1>5, <1>6 DEF CopyInv

\* A row more in the cloud.
LEMMA CloudAddsRowKeeps == ASSUME CopyInv, CloudAddsRow PROVE CopyInv'
  <1>1. PICK r \in CloudRows \ cloud.rows :
           /\ cloud' = [cloud EXCEPT !.rows = @ \union {r}]
           /\ history' = history \union {cloud'}
           /\ UNCHANGED <<local, files, kept, state, job, onDate, failures, written, exposed>>
    BY DEF CloudAddsRow, others
  <1> DEFINE rows == cloud.rows \union {r}
  <1>2. rows \in SUBSET ({FirstRow} \union CloudRows \union LocalRows)
    BY CopyFacts DEF Database
  <1>3. cloud' = [rows |-> rows, set |-> cloud.set] /\ cloud' \in Database
    <2>1. cloud' = [cloud EXCEPT !.rows = rows] /\ cloud \in Database
      BY <1>1, CopyFacts
    <2> HIDE DEF rows
    <2> QED
      BY <1>2, <2>1, OtherRows
  <1>4. NoLocalRow(cloud')
    BY <1>3, BackupsAssumption DEF CopyInv, WorkKept, NoLocalRow
  <1> HIDE DEF rows
  <1>5. cloud'.set = cloud.set /\ cloud.set.pref \in Nat
    BY <1>3, CopyFacts, DbFacts
  <1>6. cloud'.set.pref >= cloud.set.pref
    BY <1>5
  <1> QED
    BY <1>1, <1>3, <1>4, <1>5, <1>6, CloudMoves

\* A setting of the cloud changes, and its count of changes with it.
LEMMA CloudChangesKeeps == ASSUME CopyInv, CloudChangesInPlace PROVE CopyInv'
  <1> DEFINE s == [pref |-> cloud.set.pref + 1, last |-> cloud.set.last]
  <1>1. /\ cloud.set.pref < MaxPref /\ cloud' = [cloud EXCEPT !.set.pref = @ + 1]
        /\ history' = history \union {cloud'} /\ cloud \in Database
        /\ UNCHANGED <<local, files, kept, state, job, onDate, failures, written, exposed>>
    BY CopyFacts DEF CloudChangesInPlace, others
  <1>2. cloud' = [rows |-> cloud.rows, set |-> s] /\ s \in Settings
    BY <1>1, OtherPref
  <1>3. cloud' \in Database
    <2> HIDE DEF s
    <2>1. [rows |-> cloud.rows, set |-> s] \in Database
      BY <1>1, <1>2, OtherSettings
    <2> QED
      BY <1>2, <2>1
  <1>4. cloud'.set = s /\ s.pref = cloud.set.pref + 1 /\ s.last = cloud.set.last
        /\ cloud'.rows = cloud.rows
    BY <1>2
  <1>5. NoLocalRow(cloud')
    BY <1>4 DEF CopyInv, WorkKept, NoLocalRow
  <1>6. cloud.set.pref \in Nat
    BY <1>1, DbFacts
  <1> HIDE DEF s
  <1>7. cloud'.set.pref >= cloud.set.pref /\ cloud'.set.pref # cloud.set.pref
        /\ cloud'.set.last = cloud.set.last
    BY <1>4, <1>6
  <1> QED
    BY <1>1, <1>3, <1>5, <1>7, CloudMoves

\* The cloud's row of the run is written first: every other is behind it.
LEMMA SetCloudKeeps == ASSUME CopyInv, SetCloud PROVE CopyInv'
  <1> DEFINE s == [pref |-> cloud.set.pref, last |-> backup.date]
             b == IF recordsLocally THEN [backup EXCEPT !.at = "setLocal"] ELSE Idle
  <1>1. /\ backup.at = "setCloud" /\ cloud' = [cloud EXCEPT !.set.last = backup.date]
        /\ history' = history \union {cloud'} /\ cloud \in Database
        /\ job' = [job EXCEPT !["backup"] = b]
        /\ UNCHANGED <<local, files, kept, state, onDate, failures, written, exposed>>
    BY CopyFacts DEF SetCloud, world, backup
  <1>2. backup.date = onDate /\ backup.date \in Dates /\ backup.by \in {"nightly", "hand"}
        /\ onDate \in Nat
    BY <1>1 DEF CopyInv, CopyShape
  <1>3. cloud' = [rows |-> cloud.rows, set |-> s] /\ s \in Settings
    BY <1>1, <1>2, OtherLast
  <1>4. cloud' \in Database /\ cloud'.set.last = onDate /\ cloud'.rows = cloud.rows
    <2>1. s.last = onDate
      BY <1>2
    <2> HIDE DEF s, b
    <2>2. [rows |-> cloud.rows, set |-> s] \in Database
      BY <1>1, <1>3, OtherSettings
    <2> QED
      BY <1>3, <2>1, <2>2
  <1>5. \/ b = Idle
        \/ /\ recordsLocally
           /\ b = JobRecord("setLocal", backup.date, backup.by, backup.plan, backup.checks,
                            backup.fp, backup.remove, backup.before, backup.mirror)
    BY CopyFacts, Other_at DEF JobShape
  <1> HIDE DEF s, b
  <1>6. /\ JobShape(b) /\ NoLocalRow(b.plan) /\ OnlyWritten(b.before)
        /\ b.plan.set.last <= onDate
        /\ b.at = "idle" \/ /\ recordsLocally /\ b.at = "setLocal"
                            /\ b.date = backup.date /\ b.by = backup.by
    <2>1. CASE b = Idle
      BY <1>2, <2>1, IdleShape DEF NoLocalRow, OnlyWritten, NoDate
    <2>2. CASE b # Idle
      <3>1. /\ b.at = "setLocal" /\ b.plan = backup.plan /\ b.date = backup.date
            /\ b.by = backup.by /\ b.before = backup.before /\ JobShape(b) /\ recordsLocally
        BY <1>5, <2>2, CopyFacts DEF JobShape, Fields, JobRecord, At, Mirroring
      <3>2. backup.plan.set.last <= onDate
        <4>1. backup.plan.set.last \in Nat /\ cloud.set.last \in Nat
          BY CopyFacts, DbFacts
        <4> QED
          BY <1>2, <4>1, CopyFacts DEF CopyInv, RunRows
      <3> QED
        BY <3>1, <3>2, CopyFacts DEF CopyInv, WorkKept
    <2> QED
      BY <2>1, <2>2
  <1>7. /\ job' = [k \in Jobs |-> job'[k]] /\ \A k \in Jobs : JobShape(job'[k])
        /\ backup' = b /\ job'["backup"] = b /\ job'["byHand"] = job["byHand"]
    BY <1>1, <1>6, CopyFacts, OneProcess DEF backup
  <1>8. CopyShape'
    BY <1>1, <1>2, <1>4, <1>6, <1>7 DEF CopyInv, CopyShape
  <1>9. OneMoment'
    <2>1. \A f \in proven' : f.by = "nightly" => f.db \in history'
      BY <1>1 DEF CopyInv, OneMoment, ProvenIsOneMoment, proven
    <2> QED
      BY <1>1, <1>6, <1>7, <2>1 DEF OneMoment, ProvenIsOneMoment
  <1>10. WorkKept'
    <2>1. \A k \in Jobs : NoLocalRow(job'[k].plan) /\ OnlyWritten(job'[k].before)
      BY <1>6, <1>7, CopyFacts DEF CopyInv, WorkKept
    <2>2. \A k \in Jobs : mirroring(k)' => mirroring(k)
      BY <1>1, <1>6, <1>7, CopyFacts DEF mirroring, Mirroring, recordsLocally
    <2>3. \A k \in Jobs : job'[k].at \in {"copying", "recording"} => Spare(job'[k].before)
      BY <1>6, <1>7, CopyFacts DEF CopyInv, WorkKept
    <2> QED
      BY <1>1, <1>4, <2>1, <2>2, <2>3
         DEF CopyInv, WorkKept, NoLocalRow, OnlyWritten, Spare, LocalWorkKept
  <1>11. RunRows'
    <2>1. cloud.set.last \in Nat /\ cloud.set.last <= onDate
      BY CopyFacts, DbFacts DEF CopyInv, RunRows
    <2>2. local.set.last \in Nat /\ local.set.last <= onDate
      <3>1. local.set.last \in Nat /\ local.set.last <= cloud.set.last
        BY CopyFacts, DbFacts DEF CopyInv, RunRows
      <3> QED
        BY <1>2, <2>1, <3>1
    <2>3. \A f \in files : f.db.set.last <= onDate
      <3> TAKE f \in files
      <3>1. f.db.set.last \in Nat /\ f.db.set.last <= cloud.set.last
        <4>1. f.db \in Database
          BY DEF CopyInv, CopyShape, File
        <4> QED
          BY <4>1, DbFacts DEF CopyInv, RunRows
      <3> QED
        BY <1>2, <2>1, <3>1
    <2>4. job["byHand"].plan.set.last <= onDate
      <3>1. job["byHand"].plan \in Database /\ job["byHand"].plan.set.last <= cloud.set.last
        BY CopyFacts DEF CopyInv, RunRows, JobShape
      <3>2. job["byHand"].plan.set.last \in Nat
        BY <3>1, DbFacts
      <3> QED
        BY <1>2, <2>1, <3>1, <3>2
    <2>5. onDate <= onDate
      BY <1>2
    <2> QED
      BY <1>1, <1>2, <1>4, <1>6, <1>7, <2>2, <2>3, <2>4, <2>5, CopyFacts DEF RunRows
  <1>12. Retained'
    BY <1>1, <1>6, <1>7 DEF CopyInv, Retained
  <1> QED
    BY <1>8, <1>9, <1>10, <1>11, <1>12 DEF CopyInv

\* Somebody works in the local app, mirror or no mirror.
LEMMA LocalWorkKeeps == ASSUME CopyInv, LocalWork PROVE CopyInv'
  <1>1. PICK r \in LocalRows \ written :
           /\ local' = [local EXCEPT !.rows = @ \union {r}]
           /\ written' = written \union {r}
           /\ exposed' = IF \E j \in Jobs : mirroring(j) THEN exposed \union {r} ELSE exposed
           /\ UNCHANGED <<cloud, files, kept, state, job, onDate, failures, history>>
    BY DEF LocalWork, others
  <1> DEFINE rows == local.rows \union {r}
  <1>2. local' = [rows |-> rows, set |-> local.set] /\ local' \in Database
    <2>1. local' = [local EXCEPT !.rows = rows] /\ local \in Database
      BY <1>1, CopyFacts
    <2>2. rows \in SUBSET ({FirstRow} \union CloudRows \union LocalRows)
      BY <2>1 DEF Database
    <2> HIDE DEF rows
    <2> QED
      BY <2>1, <2>2, OtherRows
  <1>3. local'.rows = local.rows \union {r} /\ local'.set = local.set
    BY <1>2
  <1>4. backup' = backup
    BY <1>1 DEF backup
  <1>5. CopyShape'
    BY <1>1, <1>2, <1>4 DEF CopyInv, CopyShape
  <1>6. OneMoment' /\ Retained'
    BY <1>1, <1>4 DEF CopyInv, OneMoment, Retained, ProvenIsOneMoment, proven
  <1>7. RunRows'
    BY <1>1, <1>3, <1>4 DEF CopyInv, RunRows
  <1>8. WorkKept'
    <2>1. \A db : OnlyWritten(db) => OnlyWritten(db)'
      BY <1>1 DEF OnlyWritten
    <2>2. \A db : OnlyWritten(db) /\ Spare(db) => Spare(db)'
      BY <1>1 DEF OnlyWritten, Spare
    <2>3. OnlyWritten(local)'
      BY <1>1, <1>3 DEF CopyInv, WorkKept, OnlyWritten
    <2>4. \A j \in Jobs : mirroring(j)' <=> mirroring(j)
      BY <1>1 DEF mirroring
    <2>5. (\E j \in Jobs : mirroring(j)) => Spare(local)'
      <3> SUFFICES ASSUME \E j \in Jobs : mirroring(j) PROVE Spare(local)'
        OBVIOUS
      <3>1. Spare(local) /\ OnlyWritten(local) /\ exposed' = exposed \union {r}
        BY <1>1 DEF CopyInv, WorkKept
      <3> QED
        BY <1>1, <1>3, <3>1 DEF Spare
    <2>6. LocalWorkKept'
      BY <1>1, <1>3 DEF CopyInv, WorkKept, LocalWorkKept
    <2>7. written' \subseteq LocalRows
      BY <1>1 DEF CopyInv, WorkKept
    <2>8. state' # NotYet => OnlyWritten(state)' /\ Spare(state)'
      BY <1>1, <2>1, <2>2 DEF CopyInv, WorkKept
    <2>9. \A j \in Jobs : /\ NoLocalRow(job'[j].plan) /\ OnlyWritten(job[j].before)'
                          /\ job'[j].at \in {"copying", "recording"} => Spare(job[j].before)'
      BY <1>1, <2>1, <2>2 DEF CopyInv, WorkKept
    <2>10. NoLocalRow(cloud') /\ \A f \in files' : NoLocalRow(f.db)
      BY <1>1 DEF CopyInv, WorkKept
    <2> QED
      BY <2>3, <2>4, <2>5, <2>6, <2>7, <2>8, <2>9, <2>10 DEF WorkKept, NoLocalRow
  <1> QED
    BY <1>5, <1>6, <1>7, <1>8 DEF CopyInv

\* Local takes the row of the run the cloud already has.
LEMMA SetLocalKeeps == ASSUME CopyInv, SetLocal PROVE CopyInv'
  <1> DEFINE s == [pref |-> local.set.pref, last |-> backup.date]
             b == [backup EXCEPT !.at = "rerecord"]
  <1>1. /\ backup.at = "setLocal" /\ local' = [local EXCEPT !.set.last = backup.date]
        /\ job' = [job EXCEPT !["backup"] = b] /\ local \in Database
        /\ UNCHANGED <<cloud, files, kept, state, onDate, failures, history, written, exposed>>
    BY CopyFacts DEF SetLocal, Starts, backup
  <1>2. backup.date = onDate /\ backup.date \in Dates /\ backup.by \in {"nightly", "hand"}
    BY <1>1 DEF CopyInv, CopyShape
  <1>3. local' = [rows |-> local.rows, set |-> s] /\ s \in Settings
    BY <1>1, <1>2, OtherLast
  <1>4. local' \in Database /\ local'.set.last = backup.date /\ local'.rows = local.rows
    <2>1. s.last = backup.date
      OBVIOUS
    <2> HIDE DEF s, b
    <2>2. [rows |-> local.rows, set |-> s] \in Database
      BY <1>1, <1>3, OtherSettings
    <2> QED
      BY <1>3, <2>1, <2>2
  <1>5. /\ b = JobRecord("rerecord", backup.date, backup.by, backup.plan, backup.checks,
                         backup.fp, backup.remove, backup.before, backup.mirror)
        /\ JobShape(b)
    <2>1. b = JobRecord("rerecord", backup.date, backup.by, backup.plan, backup.checks,
                        backup.fp, backup.remove, backup.before, backup.mirror)
      BY CopyFacts, Other_at DEF JobShape
    <2> HIDE DEF b
    <2> QED
      BY <2>1, CopyFacts DEF JobShape, Fields, JobRecord, At, Mirroring
  <1> HIDE DEF s, b
  <1>6. /\ b.at = "rerecord" /\ b.plan = backup.plan /\ b.date = backup.date
        /\ b.by = backup.by /\ b.before = backup.before
    BY <1>5 DEF JobRecord
  <1>7. /\ job' = [k \in Jobs |-> job'[k]] /\ \A k \in Jobs : JobShape(job'[k])
        /\ backup' = b /\ job'["backup"] = b /\ job'["byHand"] = job["byHand"]
    BY <1>1, <1>5, CopyFacts, OneProcess DEF backup
  <1>8. CopyShape'
    BY <1>1, <1>2, <1>4, <1>6, <1>7 DEF CopyInv, CopyShape
  <1>9. OneMoment' /\ Retained'
    BY <1>1, <1>6, <1>7 DEF CopyInv, OneMoment, Retained, ProvenIsOneMoment, proven
  <1>10. WorkKept'
    <2>1. \A k \in Jobs : NoLocalRow(job'[k].plan) /\ OnlyWritten(job'[k].before)
      BY <1>6, <1>7, CopyFacts DEF CopyInv, WorkKept
    <2>2. Spare(local)
      BY <1>1, CopyFacts DEF CopyInv, WorkKept, mirroring, Mirroring
    <2>3. \A k \in Jobs : job'[k].at \in {"copying", "recording"} => Spare(job'[k].before)
      BY <1>6, <1>7, CopyFacts DEF CopyInv, WorkKept
    <2> QED
      BY <1>1, <1>4, <2>1, <2>2, <2>3
         DEF CopyInv, WorkKept, NoLocalRow, OnlyWritten, Spare, LocalWorkKept
  <1>11. RunRows'
    <2>1. cloud.set.last = backup.date /\ cloud.set.last \in Nat
      BY <1>1, CopyFacts, DbFacts DEF CopyInv, RunRows
    <2>2. local'.set.last <= cloud.set.last
      BY <1>4, <2>1
    <2>3. \A k \in Jobs : job'[k].plan.set.last <= cloud.set.last
      BY <1>6, <1>7, CopyFacts DEF CopyInv, RunRows
    <2> QED
      BY <1>1, <1>6, <1>7, <2>2, <2>3 DEF CopyInv, RunRows
  <1> QED
    BY <1>8, <1>9, <1>10, <1>11 DEF CopyInv

\* Local becomes the file: whatever it held that the file does not is spare.
LEMMA ReplaceKeeps == ASSUME CopyInv, NEW j \in Jobs, Replace(j) PROVE CopyInv'
  <1> DEFINE q == [job[j] EXCEPT !.at = "recording"]
             b == [q EXCEPT !.mirror = "mirrored"]
  <1>1. /\ job[j].at = "copying" /\ local' = job[j].plan
        /\ job' = [job EXCEPT ![j] = b]
        /\ UNCHANGED <<cloud, files, kept, state, onDate, failures, history, written, exposed>>
    BY CopyFacts DEF Replace
  <1>2. /\ b = JobRecord("recording", job[j].date, job[j].by, job[j].plan, job[j].checks,
                         job[j].fp, job[j].remove, job[j].before, "mirrored")
        /\ JobShape(b)
    <2>1. q = JobRecord("recording", job[j].date, job[j].by, job[j].plan, job[j].checks,
                        job[j].fp, job[j].remove, job[j].before, job[j].mirror)
      BY CopyFacts, Other_at DEF JobShape
    <2> HIDE DEF q
    <2>2. Fields(q)
      BY <2>1 DEF Fields, JobRecord
    <2>3. b = JobRecord("recording", job[j].date, job[j].by, job[j].plan, job[j].checks,
                        job[j].fp, job[j].remove, job[j].before, "mirrored")
      BY <2>1, <2>2, Other_mirror DEF JobRecord
    <2> QED
      BY <2>3, CopyFacts DEF JobShape, Fields, JobRecord, At, Mirroring
  <1> HIDE DEF q, b
  <1>3. /\ b.at = "recording" /\ b.plan = job[j].plan /\ b.date = job[j].date
        /\ b.by = job[j].by /\ b.before = job[j].before
    BY <1>2 DEF JobRecord
  <1>4. /\ job' = [k \in Jobs |-> job'[k]] /\ \A k \in Jobs : JobShape(job'[k])
        /\ job'[j] = b /\ \A k \in Jobs : k # j => job'[k] = job[k]
        /\ j = "backup" => backup' = b /\ backup = job[j]
        /\ j # "backup" => backup' = backup
    BY <1>1, <1>2, CopyFacts, OneProcess DEF backup
  <1>5. /\ local' \in Database /\ NoLocalRow(local') /\ local'.set.last <= cloud.set.last
    BY <1>1, CopyFacts DEF JobShape, CopyInv, WorkKept, RunRows
  <1>6. CopyShape'
    BY <1>1, <1>3, <1>4, <1>5 DEF CopyInv, CopyShape
  <1>7. OneMoment' /\ Retained'
    BY <1>1, <1>3, <1>4 DEF CopyInv, OneMoment, Retained, ProvenIsOneMoment, proven
  <1>8. RunRows'
    BY <1>1, <1>3, <1>4, <1>5, CopyFacts DEF CopyInv, RunRows
  <1>9. WorkKept'
    <2>1. Spare(local) /\ OnlyWritten(job[j].before)
      BY <1>1 DEF CopyInv, WorkKept, mirroring, Mirroring
    <2>2. \A k \in Jobs : NoLocalRow(job'[k].plan) /\ OnlyWritten(job'[k].before)
      BY <1>3, <1>4 DEF CopyInv, WorkKept
    <2>3. written \subseteq LocalRows
      BY DEF CopyInv, WorkKept
    <2>4. Spare(local') /\ OnlyWritten(local')
      BY <1>5, <2>3 DEF NoLocalRow, Spare, OnlyWritten
    <2>5. LocalWorkKept'
      BY <1>1, <2>1 DEF CopyInv, WorkKept, LocalWorkKept, Spare
    <2>6. \A k \in Jobs : job'[k].at \in {"copying", "recording"} => Spare(job'[k].before)
      <3>1. Spare(job[j].before)
        BY <1>1 DEF CopyInv, WorkKept
      <3> QED
        BY <1>3, <1>4, <3>1 DEF CopyInv, WorkKept
    <2> QED
      BY <1>1, <2>2, <2>4, <2>5, <2>6
         DEF CopyInv, WorkKept, NoLocalRow, OnlyWritten, Spare
  <1> QED
    BY <1>6, <1>7, <1>8, <1>9 DEF CopyInv

\* Every step of the program keeps the invariant.
LEMMA CopyStep == CopyInv /\ [BackupsNext]_bvars => CopyInv'
  <1> SUFFICES ASSUME CopyInv, [BackupsNext]_bvars PROVE CopyInv'
    OBVIOUS
  <1>1. CASE UNCHANGED bvars
    <2>1. CopyShape'
      BY <1>1 DEF bvars, CopyInv, CopyShape, backup
    <2>2. OneMoment'
      BY <1>1 DEF bvars, CopyInv, OneMoment, ProvenIsOneMoment, proven, backup
    <2>3. WorkKept'
      BY <1>1 DEF bvars, CopyInv, WorkKept, NoLocalRow, OnlyWritten, Spare, LocalWorkKept,
                  mirroring
    <2>4. RunRows' /\ Retained'
      BY <1>1 DEF bvars, CopyInv, RunRows, Retained, proven, backup
    <2> QED
      BY <2>1, <2>2, <2>3, <2>4 DEF CopyInv
  <1>2. CASE CloudAddsRow \/ CloudChangesInPlace \/ LocalWork
    BY <1>2, CloudAddsRowKeeps, CloudChangesKeeps, LocalWorkKeeps
  <1>3. CASE StartBackup \/ StartMirror
    BY <1>3, StartBackupKeeps, StartMirrorKeeps
  <1>4. CASE BackupStep
    BY <1>4, ReadSettingsKeeps, ReadRowsKeeps, ReadChecksKeeps, FillKeeps,
       FingerprintSettingsKeeps, FingerprintKeeps, PruneStepKeeps, PrunedKeeps,
       SetCloudKeeps, SetLocalKeeps, RerecordKeeps DEF BackupStep
  <1>5. ASSUME NEW j \in Jobs, MirrorStep(j) \/ ReplaceFails(j) \/ Die(j)
        PROVE CopyInv'
    BY <1>5, CheckKeeps, ReplaceKeeps, RecordKeeps, ReplaceFailsKeeps, DieKeeps
       DEF MirrorStep
  <1> QED
    BY <1>1, <1>2, <1>3, <1>4, <1>5 DEF BackupsNext

-----------------------------------------------------------------------------
(* What was read.                                                           *)

\* What a backup has read by each of its steps, and what proven files hold, was
\* the cloud's, table by table.
Was(db) == \E h, k \in history : db = [rows |-> h.rows, set |-> k.set]
ReadInv ==
    /\ cloud \in history
    /\ backup.at = "readRows" => \E k \in history : backup.plan.set = k.set
    /\ backup.at \in {"checks", "filling", "fpSettings", "fpRows"} => Was(backup.plan)
    /\ ProvenWasRead

\* What the steps that read nothing leave of it.
LEMMA ReadStays ==
  ASSUME ReadInv, history \subseteq history', cloud' \in history',
         \A f \in proven' : f \in proven,
         \/ backup' = backup
         \/ backup'.plan = backup.plan /\ {backup.at, backup'.at} \subseteq {"checks", "filling", "fpSettings", "fpRows"}
         \/ backup'.at \notin {"readRows", "checks", "filling", "fpSettings", "fpRows"}
  PROVE  ReadInv'
  <1>1. \A db : Was(db) => Was(db)'
    BY DEF Was
  <1>2. ProvenWasRead'
    BY <1>1 DEF ReadInv, ProvenWasRead, Was
  <1>3. backup'.at = "readRows" => \E k \in history' : backup'.plan.set = k.set
    BY DEF ReadInv
  <1>4. backup'.at \in {"checks", "filling", "fpSettings", "fpRows"} => Was(backup.plan) /\ backup'.plan = backup.plan
    BY DEF ReadInv
  <1>5. backup'.at \in {"checks", "filling", "fpSettings", "fpRows"} => Was(backup.plan)'
    BY <1>1, <1>4 DEF Was
  <1> QED
    BY <1>2, <1>3, <1>4, <1>5 DEF ReadInv, Was

\* A field written leaves a process's step and plan, unless it is one of them.
LEMMA AtApart ==
  ASSUME NEW r, Fields(r), NEW v
  PROVE  Fields([r EXCEPT !.at = v]) /\ [r EXCEPT !.at = v].at = v /\ [r EXCEPT !.at = v].plan = r.plan
  BY Other_at DEF Fields, JobRecord

LEMMA PlanApart ==
  ASSUME NEW r, Fields(r), NEW v
  PROVE  Fields([r EXCEPT !.plan = v]) /\ [r EXCEPT !.plan = v].at = r.at /\ [r EXCEPT !.plan = v].plan = v
  BY Other_plan DEF Fields, JobRecord

LEMMA ChecksApart ==
  ASSUME NEW r, Fields(r), NEW v
  PROVE  [r EXCEPT !.checks = v].at = r.at /\ [r EXCEPT !.checks = v].plan = r.plan
  BY Other_checks DEF JobRecord

LEMMA FpApart ==
  ASSUME NEW r, Fields(r), NEW v
  PROVE  [r EXCEPT !.fp = v].at = r.at /\ [r EXCEPT !.fp = v].plan = r.plan
  BY Other_fp DEF JobRecord

LEMMA RemoveApart == ASSUME NEW r, Fields(r), NEW v PROVE [r EXCEPT !.remove = v].at = r.at
  BY Other_remove DEF JobRecord

LEMMA BeforeApart ==
  ASSUME NEW r, Fields(r), NEW v
  PROVE  Fields([r EXCEPT !.before = v]) /\ [r EXCEPT !.before = v].at = r.at
  BY Other_before DEF Fields, JobRecord

LEMMA MirrorApart == ASSUME NEW r, Fields(r), NEW v PROVE [r EXCEPT !.mirror = v].at = r.at
  BY Other_mirror DEF JobRecord

\* What the backup is left as.
LEMMA BackupIs == ASSUME CopyInv, NEW b, job' = [job EXCEPT !["backup"] = b] PROVE backup' = b
  BY CopyFacts DEF backup

\* The two steps that read.
LEMMA SettingsAreRead == ASSUME CopyInv, ReadInv, ReadSettings PROVE ReadInv'
  <1> DEFINE db == [backup.plan EXCEPT !.set = cloud.set]
             b == [[backup EXCEPT !.at = "readRows"] EXCEPT !.plan = db]
  <1>1. job' = [job EXCEPT !["backup"] = b] /\ UNCHANGED <<cloud, files, history>>
    <2>1. job = [k \in Jobs |-> job[k]] /\ "backup" \in Jobs
      BY CopyFacts
    <2>2. job' = [job EXCEPT !["backup"] = b]
      BY <2>1 DEF ReadSettings, backup
    <2> HIDE DEF b
    <2> QED
      BY <2>2 DEF ReadSettings, world, backup
  <1> HIDE DEF db
  <1>2. b.at = "readRows" /\ b.plan = db
    <2> DEFINE q == [backup EXCEPT !.at = "readRows"]
    <2>1. Fields(q) /\ q.at = "readRows" /\ b = [q EXCEPT !.plan = db]
      BY CopyFacts, AtApart DEF JobShape
    <2> HIDE DEF q, b
    <2> QED
      BY <2>1, PlanApart
  <1> HIDE DEF b
  <1>3. backup' = b
    BY <1>1, BackupIs
  <1>4. db.set = cloud.set
    <2>1. cloud.set \in Settings
      BY CopyFacts, DbFacts
    <2> QED
      BY <2>1, CopyFacts, OtherSettings DEF db
  <1> QED
    BY <1>1, <1>2, <1>3, <1>4 DEF ReadInv, ProvenWasRead, proven

LEMMA RowsAreRead == ASSUME CopyInv, ReadInv, ReadRows PROVE ReadInv'
  <1> DEFINE db == [backup.plan EXCEPT !.rows = cloud.rows]
             b == [[backup EXCEPT !.at = "checks"] EXCEPT !.plan = db]
  <1>1. /\ backup.at = "readRows" /\ job' = [job EXCEPT !["backup"] = b]
        /\ UNCHANGED <<cloud, files, history>>
    <2>1. job = [k \in Jobs |-> job[k]] /\ "backup" \in Jobs
      BY CopyFacts
    <2>2. job' = [job EXCEPT !["backup"] = b]
      BY <2>1 DEF ReadRows, backup
    <2> HIDE DEF b
    <2> QED
      BY <2>2 DEF ReadRows, world, backup
  <1> HIDE DEF db
  <1>2. b.at = "checks" /\ b.plan = db
    <2> DEFINE q == [backup EXCEPT !.at = "checks"]
    <2>1. Fields(q) /\ q.at = "checks" /\ b = [q EXCEPT !.plan = db]
      BY CopyFacts, AtApart DEF JobShape
    <2> HIDE DEF q, b
    <2> QED
      BY <2>1, PlanApart
  <1> HIDE DEF b
  <1>3. backup' = b
    BY <1>1, BackupIs
  <1>4. db = [rows |-> cloud.rows, set |-> backup.plan.set]
    <2>1. cloud.rows \in SUBSET ({FirstRow} \union CloudRows \union LocalRows)
      BY CopyFacts DEF Database
    <2> QED
      BY <2>1, CopyFacts, OtherRows DEF db
  <1>5. Was(db)
    BY <1>1, <1>4 DEF ReadInv, Was
  <1> QED
    BY <1>1, <1>2, <1>3, <1>5 DEF ReadInv, Was, ProvenWasRead, proven

\* The steps that name a file: it is what was read.
LEMMA NamedWasRead ==
  ASSUME CopyInv, ReadInv, Fill \/ Fingerprint
  PROVE  \A f \in proven' : f \in proven \/ Was(f.db)
  <1>1. PICK kind : files' = renamed("backup", kind)
    BY DEF Fill, Fingerprint
  <1>2. backup.at \in {"filling", "fpRows"}
    BY DEF Fill, Fingerprint, backup
  <1>3. Was(backup.plan)
    BY <1>2 DEF ReadInv
  <1> QED
    BY <1>1, <1>3 DEF renamed, named, proven, backup

\* Where a mirror's step leaves its process.
LEMMA MirrorLeaves ==
  ASSUME CopyInv, NEW j \in Jobs, MirrorStep(j) \/ ReplaceFails(j)
  PROVE  \E b : /\ job' = [job EXCEPT ![j] = b]
                /\ b.at \in {"idle", "copying", "recording", "setCloud"}
  <1> DEFINE r == job[j]
  <1>1. Fields(r) /\ Idle.at = "idle" /\ afterMirror = "setCloud"
    BY CopyFacts, IdleShape DEF JobShape, afterMirror
  <1>2. ASSUME NEW at \in {"copying", "recording", "setCloud"}
        PROVE  Fields([r EXCEPT !.at = at]) /\ [r EXCEPT !.at = at].at = at
    BY <1>1, AtApart
  <1>3. ASSUME NEW at \in {"copying", "recording", "setCloud"}, NEW v
        PROVE  /\ [[r EXCEPT !.at = at] EXCEPT !.before = v].at = at
               /\ [[r EXCEPT !.at = at] EXCEPT !.mirror = v].at = at
               /\ Fields([[r EXCEPT !.at = at] EXCEPT !.before = v])
    <2> DEFINE q == [r EXCEPT !.at = at]
    <2>1. Fields(q) /\ q.at = at
      BY <1>2
    <2> HIDE DEF q
    <2>2. [q EXCEPT !.before = v].at = at /\ [q EXCEPT !.mirror = v].at = at /\ Fields([q EXCEPT !.before = v])
      BY <2>1, BeforeApart, MirrorApart
    <2> QED
      BY <2>2 DEF q
  <1>4. [[[r EXCEPT !.at = "recording"] EXCEPT !.before = local] EXCEPT !.mirror = "asIs"].at = "recording"
    <2> DEFINE q == [[r EXCEPT !.at = "recording"] EXCEPT !.before = local]
    <2>1. Fields(q) /\ q.at = "recording"
      BY <1>3
    <2> HIDE DEF q
    <2>2. [q EXCEPT !.mirror = "asIs"].at = "recording"
      BY <2>1, MirrorApart
    <2> QED
      BY <2>2 DEF q
  <1>5. CASE Check(j)
    <2>1. PICK b \in {Idle, [[r EXCEPT !.at = "copying"] EXCEPT !.before = local],
                     [[[r EXCEPT !.at = "recording"] EXCEPT !.before = local] EXCEPT !.mirror = "asIs"],
                     [[r EXCEPT !.at = "setCloud"] EXCEPT !.mirror = "refused"]} :
             job' = [job EXCEPT ![j] = b]
      BY <1>1, <1>5, Zenon DEF Check
    <2>2. /\ [[r EXCEPT !.at = "copying"] EXCEPT !.before = local].at = "copying"
          /\ [[r EXCEPT !.at = "setCloud"] EXCEPT !.mirror = "refused"].at = "setCloud"
      BY <1>3
    <2>3. b.at \in {"idle", "copying", "recording", "setCloud"}
      BY <1>1, <1>4, <2>1, <2>2, Zenon
    <2> QED
      BY <2>1, <2>3
  <1>6. CASE Replace(j)
    <2>1. job' = [job EXCEPT ![j] = [[r EXCEPT !.at = "recording"] EXCEPT !.mirror = "mirrored"]]
      BY <1>6, CopyFacts DEF Replace
    <2>2. [[r EXCEPT !.at = "recording"] EXCEPT !.mirror = "mirrored"].at = "recording"
      BY <1>3
    <2> QED
      BY <2>1, <2>2, Zenon
  <1>7. CASE Record(j)
    <2>1. PICK b \in {Idle, [r EXCEPT !.at = "setCloud"]} : job' = [job EXCEPT ![j] = b]
      BY <1>1, <1>7 DEF Record
    <2> QED
      BY <1>1, <1>2, <2>1
  <1>8. CASE ReplaceFails(j)
    <2>1. PICK b \in {Idle, [[r EXCEPT !.at = "setCloud"] EXCEPT !.mirror = "failed"]} : job' = [job EXCEPT ![j] = b]
      BY <1>1, <1>8 DEF ReplaceFails
    <2>2. [[r EXCEPT !.at = "setCloud"] EXCEPT !.mirror = "failed"].at = "setCloud"
      BY <1>3
    <2>3. b.at \in {"idle", "setCloud"}
      BY <1>1, <2>1, <2>2, Zenon
    <2> QED
      BY <2>1, <2>3
  <1> QED
    BY <1>5, <1>6, <1>7, <1>8 DEF MirrorStep

\* Past its name a backup reads nothing more.
LEMMA BackupLeft ==
  ASSUME CopyInv,
         \/ Prune \/ Pruned \/ SetCloud \/ SetLocal \/ Rerecord
         \/ MirrorStep("backup") \/ ReplaceFails("backup") \/ Die("backup")
  PROVE  backup'.at \notin {"readRows", "checks", "filling", "fpSettings", "fpRows"}
  <1> DEFINE After == {"idle", "pruning", "mirroring", "copying", "recording", "setCloud", "setLocal", "rerecord"}
  <1>1. job = [k \in Jobs |-> job[k]] /\ "backup" \in Jobs /\ Fields(job["backup"])
    BY CopyFacts DEF JobShape
  <1>2. Idle.at = "idle" /\ afterMirror = "setCloud"
    BY IdleShape DEF afterMirror
  <1>3. CASE Prune
    <2>1. PICK R : job' = [job EXCEPT !["backup"] = [job["backup"] EXCEPT !.remove = R]]
      BY <1>1, <1>3 DEF Prune
    <2>2. [job["backup"] EXCEPT !.remove = R].at = "pruning"
      BY <1>1, <1>3, RemoveApart DEF Prune
    <2> QED
      BY <1>1, <2>1, <2>2 DEF backup
  <1>4. CASE Pruned \/ SetLocal
    <2>1. PICK at \in {"mirroring", "rerecord"} : job' = [job EXCEPT !["backup"] = [job["backup"] EXCEPT !.at = at]]
      BY <1>1, <1>4 DEF Pruned, SetLocal, Starts
    <2>2. [job["backup"] EXCEPT !.at = at].at = at
      BY <1>1, AtApart
    <2> QED
      BY <1>1, <2>1, <2>2 DEF backup
  <1>5. CASE SetCloud \/ Rerecord \/ Die("backup")
    <2>1. PICK b \in {Idle, [job["backup"] EXCEPT !.at = "setLocal"]} : job' = [job EXCEPT !["backup"] = b]
      BY <1>1, <1>5 DEF SetCloud, Rerecord, Die
    <2>2. [job["backup"] EXCEPT !.at = "setLocal"].at = "setLocal"
      BY <1>1, AtApart
    <2> QED
      BY <1>1, <1>2, <2>1, <2>2 DEF backup
  <1>6. CASE MirrorStep("backup") \/ ReplaceFails("backup")
    <2>1. PICK b : job' = [job EXCEPT !["backup"] = b] /\ b.at \in After
      BY <1>1, <1>6, MirrorLeaves
    <2> QED
      BY <1>1, <2>1 DEF backup
  <1> QED
    BY <1>3, <1>4, <1>5, <1>6

LEMMA ReadStep == ASSUME CopyInv, ReadInv, [BackupsNext]_bvars PROVE ReadInv'
  <1> DEFINE Reads == {"checks", "filling", "fpSettings", "fpRows"}
  <1>1. CASE UNCHANGED bvars \/ LocalWork
    BY <1>1, ReadStays DEF bvars, LocalWork, others, ReadInv, proven, backup
  <1>2. CASE CloudAddsRow \/ CloudChangesInPlace
    BY <1>2, ReadStays DEF CloudAddsRow, CloudChangesInPlace, others, proven, backup
  <1>3. CASE StartBackup
    <2>1. PICK d, by : job' = [job EXCEPT !["backup"] =
                                  [Idle EXCEPT !.at = "readSettings", !.date = d, !.by = by]]
      BY <1>3 DEF StartBackup
    <2> DEFINE b == [Idle EXCEPT !.at = "readSettings", !.date = d, !.by = by]
    <2>3. b.at = "readSettings"
      BY DEF Idle
    <2> HIDE DEF b
    <2>2. backup'.at = "readSettings" /\ UNCHANGED <<cloud, files, history>>
      BY <1>3, <2>1, <2>3, BackupIs DEF StartBackup, world, b
    <2> QED
      BY <2>2, ReadStays DEF ReadInv, proven
  <1>4. ASSUME StartMirror \/ MirrorStep("byHand") \/ ReplaceFails("byHand") \/ Die("byHand")
        PROVE  ReadInv'
    <2>1. backup' = backup /\ UNCHANGED <<cloud, files, history>>
      BY <1>4, CopyFacts DEF StartMirror, MirrorStep, Check, Replace, Record, ReplaceFails, Die, world, backup
    <2> QED
      BY <2>1, ReadStays DEF ReadInv, proven
  <1>5. CASE ReadSettings \/ ReadRows
    BY <1>5, SettingsAreRead, RowsAreRead
  <1>6. CASE ReadChecks
    <2> DEFINE b == [[backup EXCEPT !.at = "filling"] EXCEPT !.checks = Cardinality(cloud.rows)]
    <2>1. /\ backup.at = "checks" /\ job' = [job EXCEPT !["backup"] = b]
          /\ UNCHANGED <<cloud, history>> /\ files' = files \union {partialOf("backup")}
      BY <1>6, CopyFacts DEF ReadChecks, backup, world
    <2>2. b.at = "filling" /\ b.plan = backup.plan
      <3> DEFINE q == [backup EXCEPT !.at = "filling"]
      <3>1. Fields(q) /\ q.at = "filling" /\ q.plan = backup.plan /\ b = [q EXCEPT !.checks = Cardinality(cloud.rows)]
        BY CopyFacts, AtApart DEF JobShape
      <3> HIDE DEF q, b
      <3> QED
        BY <3>1, ChecksApart
    <2> HIDE DEF b
    <2>3. backup' = b
      BY <2>1, BackupIs
    <2>4. \A f \in proven' : f \in proven
      BY <2>1 DEF proven, partialOf
    <2> QED
      BY <2>1, <2>2, <2>3, <2>4, ReadStays DEF ReadInv
  <1>7. CASE FingerprintSettings
    <2> DEFINE fp == [backup.fp EXCEPT !.set = cloud.set]
               b == [[backup EXCEPT !.at = "fpRows"] EXCEPT !.fp = fp]
    <2>1. /\ backup.at = "fpSettings" /\ job' = [job EXCEPT !["backup"] = b]
          /\ UNCHANGED <<cloud, files, history>>
      <3>1. job = [k \in Jobs |-> job[k]] /\ "backup" \in Jobs
        BY CopyFacts
      <3>2. job' = [job EXCEPT !["backup"] = b]
        BY <1>7, <3>1 DEF FingerprintSettings, backup
      <3> HIDE DEF b
      <3> QED
        BY <1>7, <3>2 DEF FingerprintSettings, world, backup
    <2>2. b.at = "fpRows" /\ b.plan = backup.plan
      <3> DEFINE q == [backup EXCEPT !.at = "fpRows"]
      <3>1. Fields(q) /\ q.at = "fpRows" /\ q.plan = backup.plan /\ b = [q EXCEPT !.fp = fp]
        BY CopyFacts, AtApart DEF JobShape
      <3> HIDE DEF q, b
      <3> QED
        BY <3>1, FpApart
    <2> HIDE DEF b
    <2>3. backup' = b
      BY <2>1, BackupIs
    <2> QED
      BY <2>1, <2>2, <2>3, ReadStays DEF ReadInv, proven
  <1>8. CASE Fill \/ Fingerprint
    <2>1. UNCHANGED <<cloud, history>>
      BY <1>8 DEF Fill, Fingerprint, world
    <2>2. \/ backup'.at \notin Reads \union {"readRows"}
          \/ backup.at = "filling" /\ backup'.at = "fpSettings" /\ backup'.plan = backup.plan
      <3>1. CASE Fill
        <4>1. PICK b \in {Idle, [backup EXCEPT !.at = "fpSettings"]} : job' = [job EXCEPT !["backup"] = b]
          BY <3>1 DEF Fill, backup
        <4>2. backup' = b /\ backup.at = "filling"
          BY <3>1, <4>1, BackupIs DEF Fill, backup
        <4> QED
          <5>1. [backup EXCEPT !.at = "fpSettings"].at = "fpSettings" /\ [backup EXCEPT !.at = "fpSettings"].plan = backup.plan
            BY CopyFacts, AtApart DEF JobShape
          <5> QED
            BY <4>1, <4>2, <5>1, IdleShape, Zenon
      <3>2. CASE Fingerprint
        <4> DEFINE q == [backup EXCEPT !.at = "pruning"]
                   drop == planRetention(datesOf(renamed("backup", "verified")))
        <4>1. PICK b \in {Idle, [q EXCEPT !.remove = drop]} : job' = [job EXCEPT !["backup"] = b]
          <5> HIDE DEF drop
          <5>1. drop = planRetention(datesOf(renamed("backup", "verified")))
            BY DEF drop
          <5> QED
            BY <3>2, <5>1, CopyFacts DEF Fingerprint, backup
        <4> HIDE DEF drop
        <4>2. [q EXCEPT !.remove = drop].at = "pruning"
          <5>1. Fields(q) /\ q.at = "pruning"
            BY CopyFacts, AtApart DEF JobShape
          <5> HIDE DEF q
          <5> QED
            BY <5>1, RemoveApart
        <4>3. backup' = b
          BY <4>1, BackupIs
        <4> QED
          BY <4>1, <4>2, <4>3, IdleShape
      <3> QED
        BY <1>8, <3>1, <3>2
    <2>3. \A f \in proven' : f \in proven \/ Was(f.db)
      BY <1>8, NamedWasRead
    <2>4. ProvenWasRead'
      BY <2>1, <2>3 DEF ReadInv, ProvenWasRead, Was
    <2>5. backup'.at \in Reads => Was(backup'.plan)
      BY <2>2 DEF ReadInv
    <2> QED
      BY <2>1, <2>2, <2>4, <2>5 DEF ReadInv, Was
  <1>9. ASSUME \/ Prune \/ Pruned \/ SetCloud \/ SetLocal \/ Rerecord
               \/ MirrorStep("backup") \/ ReplaceFails("backup") \/ Die("backup")
        PROVE  ReadInv'
    <2>1. backup'.at \notin Reads \union {"readRows"}
      BY <1>9, CopyFacts, BackupLeft DEF backup
    <2>2. history \subseteq history' /\ cloud' \in history' /\ \A f \in proven' : f \in proven
      BY <1>9 DEF Prune, Pruned, SetCloud, SetLocal, Rerecord, MirrorStep, Check, Replace, Record, ReplaceFails,
                  Die, world, ReadInv, proven
    <2> QED
      BY <2>1, <2>2, ReadStays
  <1> QED
    BY <1>1, <1>2, <1>3, <1>4, <1>5, <1>6, <1>7, <1>8, <1>9 DEF BackupsNext, BackupStep, Jobs

-----------------------------------------------------------------------------
(* The theorems.                                                            *)

\* In every state, whatever is copied, pruned, mirrored, killed or rolled back
\* and whoever writes meanwhile: a nightly file under its verified name holds
\* one moment of the cloud; one made by hand, whose rows are only counted, holds
\* settings and rows the cloud had, maybe of two moments; a row added to the
\* local app is there, or in a copy put aside, unless it was added while a
\* mirror stood between its check and its record; and local's row of the last
\* backup is never ahead of the cloud's.
THEOREM CopiesStayTrue == BackupsSpec => []CopiesAreTrue
  <1>1. BackupsInit => ReadInv
    <2> SUFFICES ASSUME BackupsInit PROVE ReadInv
      OBVIOUS
    <2>1. \A f \in proven : f.db = FirstDb
      BY DEF BackupsInit, proven
    <2>2. backup = Idle /\ Idle.at = "idle" /\ cloud = FirstDb /\ history = {FirstDb}
      BY IdleShape DEF BackupsInit, backup, Jobs
    <2>3. FirstDb = [rows |-> FirstDb.rows, set |-> FirstDb.set]
      BY DEF FirstDb
    <2> QED
      BY <2>1, <2>2, <2>3 DEF ReadInv, ProvenWasRead
  <1>2. CopyInv /\ ReadInv => CopiesAreTrue
    BY DEF CopyInv, ReadInv, OneMoment, WorkKept, RunRows, Spare, CopiesAreTrue, LocalRecordTrue
  <1> QED
    BY <1>1, <1>2, InitCopy, CopyStep, ReadStep, PTL DEF BackupsSpec

\* Databases, files, processes and counters keep their types, and no two files
\* bear one date.
THEOREM CopiesTyped == BackupsSpec => []BackupsTypeOK
  <1>1. CopyInv => BackupsTypeOK
    BY DEF CopyInv, CopyShape, Retained, File, JobShape, BackupsTypeOK
  <1> QED
    BY <1>1, InitCopy, CopyStep, PTL DEF BackupsSpec

\* What one step may take away of the proven files.
PrunedOnly ==
    \A f \in proven \ proven' :
       /\ \E g \in proven' : g.date > f.date /\ monthOf[g.date] = monthOf[f.date]
       /\ Cardinality({g \in proven' : g.date > f.date}) >= DailyKept

\* Pruning one date of its list: the dates the list leaves are still there.
LEMMA PruneTakes == ASSUME CopyInv, Prune PROVE PrunedOnly
  <1>1. PICK d \in backup.remove : files' = {f \in files : f.date # d \/ f.kind # "verified"}
    BY DEF Prune, backup
  <1>2. backup.at = "pruning"
    BY DEF Prune, backup
  <1> DEFINE stay == datesOf(files) \ backup.remove
  <1>3. KeptFor(d, stay) /\ DailyKept \in Nat
    BY <1>2, BackupsAssumption DEF CopyInv, Retained
  <1>4. \A f \in proven \ proven' : f.date = d
    BY <1>1 DEF proven
  <1>5. stay \subseteq datesOf(files')
    BY <1>1 DEF datesOf
  <1>6. files' \subseteq File /\ IsFiniteSet(files')
    BY <1>1, FS_Subset, files' \in SUBSET files DEF CopyInv, CopyShape
  <1> HIDE DEF stay
  <1>7. \E g \in proven' : g.date > d /\ monthOf[g.date] = monthOf[d]
    <2>1. PICK e \in stay : e > d /\ monthOf[e] = monthOf[d]
      BY <1>3 DEF KeptFor
    <2>2. PICK g \in files' : g.kind = "verified" /\ g.date = e
      BY <1>5, <2>1 DEF datesOf
    <2> QED
      BY <2>1, <2>2 DEF proven
  <1>8. Cardinality({g \in proven' : g.date > d}) >= DailyKept
    <2> DEFINE few == {e \in stay : e > d}
               more == {e \in datesOf(files') : e > d}
               fs == {g \in files' : g.kind = "verified" /\ g.date > d}
    <2>1. few \in SUBSET more
      BY <1>5
    <2>2. IsFiniteSet(more)
      BY <1>6, DatesOfFiles, FS_Subset, more \in SUBSET datesOf(files')
    <2>3. Cardinality(more) <= Cardinality(fs) /\ Cardinality(more) \in Nat
          /\ Cardinality(fs) \in Nat
      BY <1>6, DatesOfFiles
    <2>4. Cardinality(few) >= DailyKept
      BY <1>3 DEF KeptFor
    <2>5. {g \in proven' : g.date > d} = fs
      BY DEF proven
    <2> HIDE DEF few, more, fs
    <2>6. Cardinality(few) \in Nat /\ Cardinality(few) <= Cardinality(more)
      BY <2>1, <2>2, MoreMembers
    <2> QED
      BY <1>3, <2>3, <2>4, <2>5, <2>6
  <1> QED
    BY <1>4, <1>7, <1>8 DEF PrunedOnly

\* No other step takes a proven file away.
LEMMA OthersTake ==
  ASSUME CopyInv, BackupsNext, ~Prune
  PROVE  PrunedOnly
  <1> SUFFICES proven \subseteq proven'
    BY DEF PrunedOnly
  <1>1. ASSUME NEW kind \in {"verified", "partial", "unverified"},
               files' = renamed("backup", kind), backup.at \in {"filling", "fpRows"}
        PROVE proven \subseteq proven'
    <2>1. \A f \in proven : f.date # job["backup"].date
      BY <1>1, CopyFacts DEF CopyInv, Retained
    <2> QED
      BY <1>1, <2>1 DEF proven, renamed
  <1>2. CASE files' = files
    BY <1>2 DEF proven
  <1>3. CASE StartBackup \/ StartMirror \/ CloudAddsRow \/ CloudChangesInPlace \/ LocalWork
    BY <1>2, <1>3 DEF StartBackup, StartMirror, CloudAddsRow, CloudChangesInPlace,
                      LocalWork, others
  <1>4. CASE ReadChecks
    BY <1>4 DEF ReadChecks, proven
  <1>5. CASE Fill
    BY <1>1, <1>5 DEF Fill, backup
  <1>6. CASE Fingerprint
    BY <1>1, <1>6 DEF Fingerprint, backup
  <1>7. CASE ReadSettings \/ ReadRows \/ FingerprintSettings \/ Pruned \/ SetCloud
             \/ SetLocal \/ Rerecord
    BY <1>2, <1>7 DEF ReadSettings, ReadRows, FingerprintSettings, Pruned, SetCloud,
                      SetLocal, Rerecord
  <1>8. ASSUME NEW j \in Jobs, MirrorStep(j) \/ ReplaceFails(j) \/ Die(j)
        PROVE proven \subseteq proven'
    BY <1>2, <1>8 DEF MirrorStep, Check, Replace, Record, ReplaceFails, Die
  <1> QED
    BY <1>3, <1>4, <1>5, <1>6, <1>7, <1>8 DEF BackupsNext, BackupStep

\* A proven backup disappears only by pruning, and only while a newer one of
\* its month and as many newer dates as are kept daily remain, the copies under
\* way and those that failed not counted.
THEOREM PruningKeeps == BackupsSpec => PruneKeeps
  <1>1. CopyInv /\ [BackupsNext]_bvars => [PrunedOnly]_bvars
    BY PruneTakes, OthersTake
  <1>2. BackupsSpec => [][PrunedOnly]_bvars
    BY <1>1, InitCopy, CopyStep, PTL DEF BackupsSpec
  <1> QED
    BY <1>2, PTL DEF PruneKeeps, PrunedOnly
=============================================================================
