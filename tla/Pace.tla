--------------------------------- MODULE Pace ---------------------------------
(***************************************************************************)
(* Where the month being lived in lands (insights/pace.ts,                 *)
(* ui/currentPace.ts), what to do when that is above a typical month       *)
(* (OverPaceAlert), the recap of the month that closed (ui/monthRecap.ts)  *)
(* and Overview's runway (ui/overview.ts), over one set of past months.    *)
(*                                                                         *)
(* An instant is a half day of the month lived in, 0 its first midnight; a *)
(* past month is [at, total, after, by], after[d] what it spent after day  *)
(* d, or None in the rows of before, by its categories' spending; a plan   *)
(* is [id, last, step, cost, cancelled, billing], charging every step.     *)
(***************************************************************************)
EXTENDS Outlook

CONSTANTS
    PACE_MONTH, DAYS,           \* the month lived in, and its days
    BAND_MONTHS, BAND_MIN_MONTHS,
    RECAP_LAST_DAY, RECAP_MIN_TYPICAL_MONTHS, RECAP_MOVED_MIN, LUMPY_MONTHS,
    PastMonths,                 \* the sequences of months stored
    RecordsBegin,               \* [accounts -> instant their records begin, or None], the sets of
    PaceCash,                   \* cash less the cards it pays
    Plans,                      \* the plans that may bill
    DaySpending                 \* what a half day may spend besides

VARIABLES half, spentSoFar, plansBilled, stored, records

pcvars == <<half, spentSoFar, plansBilled, stored, records>>

MIN_RECENT == 2
HALVES == 2 * DAYS

-----------------------------------------------------------------------------
(* health/commitments.ts, as the pace reads it *)

todayAt == 2 * (half \div 2)
nextPayment(p) == p.last + p.step * larger(0, ceilOf(todayAt - p.last, p.step))
daysLeft == ceilOf(HALVES - half, 2)
dueBefore(p, days) == nextPayment(p) <= todayAt + 2 * days
upcomingTotal(stopped) ==
    MapThenSumSet(LAMBDA p : p.cost, {p \in plansBilled : p.id \notin stopped /\ dueBefore(p, daysLeft)})
cancelledPlans == {p.id : p \in {q \in plansBilled : q.cancelled}}

-----------------------------------------------------------------------------
(* insights/pace.ts *)

coverageOf(m, firsts) == Cardinality({a \in DOMAIN firsts : firsts[a] # None /\ firsts[a] <= monthStart(m)})
comparableWith(m, firsts) == isComparableBaseline(coverageOf(m, firsts), Cardinality(DOMAIN firsts))
priorPeriods == SelectSeq(stored, LAMBDA m : m.at < PACE_MONTH)

quantile75(values) ==
    LET sorted == ascending(values)
        pos4 == 3 * (Len(values) - 1)
        lo == sorted[(pos4 \div 4) + 1]
    IN IF pos4 % 4 = 0 THEN lo ELSE roundOf(4 * lo + (pos4 % 4) * (sorted[(pos4 \div 4) + 2] - lo), 4)

refused(why, committed) ==
    [refusal |-> why, spent |-> spentSoFar, committed |-> committed, typical |-> None, rest |-> None, series |-> FALSE,
     high |-> None, lastYear |-> None, missing |-> 0, months |-> <<>>, projected |-> None]

dayOfPeriod == smaller(DAYS, (half \div 2) + 1)
afterDay(m) == m.after[smaller(dayOfPeriod, Len(m.after) - 1) + 1]
\* The middle of what such months spent after the day, or a share of the
\* typical total; in parts of a unit, HALVES * 2 of them.
restOf(sample, typical, series) ==
    larger(0, IF series THEN HALVES * median2([i \in DOMAIN sample |-> afterDay(sample[i])]) ELSE 2 * typical * (HALVES - half))
totalsOf(sample) == [i \in DOMAIN sample |-> sample[i].total]
isSeries(sample) == \A i \in DOMAIN sample : sample[i].after # None
missingIn(sample) == Max({0} \union {Cardinality(DOMAIN records) - coverageOf(m.at, records) : m \in ToSet(sample)})
yearAgo == {m \in ToSet(priorPeriods) : m.at = PACE_MONTH - 12 /\ comparableWith(m.at, records)}

\* What is known to be due is never talked over.
landsAt_RestAlone(rest, committed) == spentSoFar + roundOf(rest, 2 * HALVES)
landsAt(rest, committed) == spentSoFar + roundOf(larger(rest, 2 * HALVES * committed), 2 * HALVES)
paceFrom(sample, typical, committed, rest) ==
    [refusal |-> None, spent |-> spentSoFar, committed |-> committed, typical |-> typical,
     rest |-> roundOf(rest, 2 * HALVES), series |-> isSeries(sample),
     high |-> IF Len(sample) < BAND_MIN_MONTHS THEN None ELSE quantile75(totalsOf(sample)),
     lastYear |-> IF yearAgo = {} THEN None ELSE (CHOOSE m \in yearAgo : TRUE).total,
     missing |-> missingIn(sample), months |-> [i \in DOMAIN sample |-> sample[i].at],
     projected |-> landsAt(rest, committed)]
paceOn(sample, typical, committed) == paceFrom(sample, typical, committed, restOf(sample, typical, isSeries(sample)))
sampled(sample, committed) ==
    IF Len(sample) < MIN_RECENT THEN refused("NO_BASELINE", committed)
    ELSE paceOn(sample, roundOf(median2(totalsOf(sample)), 2), committed)
computePace(committed) ==
    IF 4 * half < HALVES THEN refused("TOO_EARLY", committed)
    ELSE sampled(SelectSeq(priorPeriods, LAMBDA m : comparableWith(m.at, records) /\ m.at >= PACE_MONTH - BAND_MONTHS), committed)

\* In order: past it, carried past it by what is due, or a day's room.
overPace(pace) ==
    LET room == pace.high - pace.spent
        left == larger(1, DAYS - dayOfPeriod + 1)
    IN IF pace.refusal # None \/ pace.high = None THEN None
       ELSE IF pace.projected <= pace.high THEN None
       ELSE IF room < 0 THEN [kind |-> "past", over |-> -room]
       ELSE IF pace.committed > room THEN [kind |-> "committed", over |-> pace.committed - room]
       ELSE [kind |-> "perDay", perDay |-> roundOf(room, left), daysLeft |-> left]

\* OverPaceAlert, and the two pages that show it.
overPaceSentence(pace) ==
    LET o == overPace(pace)
        dollars(n) == roundOf(n, DOLLAR)
    IN IF o = None THEN <<>>
       ELSE IF o.kind = "past" THEN <<"already over", dollars(o.over)>>
       ELSE IF o.kind = "committed" THEN <<"charges due put it over", dollars(o.over)>>
       ELSE <<IF o.daysLeft = 1 THEN "today" ELSE "per day", dollars(o.perDay)>>
insightsPace == computePace(upcomingTotal(cancelledPlans))
trendsPace == computePace(upcomingTotal({}))

-----------------------------------------------------------------------------
(* ui/monthRecap.ts and ui/overview.ts *)

recapMonth == IF dayOfPeriod <= RECAP_LAST_DAY THEN PACE_MONTH - 1 ELSE None
atMonths(months) == [i \in DOMAIN months |-> months[i].at]
among(months, used) == SelectSeq(months, LAMBDA m : m.at \in ToSet(used))
beforeMonth(period) == SelectSeq(stored, LAMBDA m : m.at < period)
categoryIn(m, c) == IF c \in DOMAIN m.by THEN m.by[c] ELSE 0

movedIn(month, baseline) ==
    LET typical2(c) == median2([i \in DOMAIN baseline |-> categoryIn(baseline[i], c)])
        over(c) == roundOf(2 * month.by[c] - typical2(c), 2)
        far == {<<c, over(c)>> : c \in {d \in DOMAIN month.by : month.by[d] > 0 /\ d # None /\ typical2(d) > 0}}
    IN {f \in far : f[2] >= RECAP_MOVED_MIN /\ \A g \in far : g[2] <= f[2]}
recapFrom(month, baseline, covered) ==
    LET enough == Len(baseline) >= RECAP_MIN_TYPICAL_MONTHS
    IN [total |-> month.total, vsTypical |-> IF enough THEN month.total - roundOf(median2(totalsOf(baseline)), 2) ELSE None,
        caveat |-> ~covered, moved |-> IF enough THEN movedIn(month, baseline) ELSE {}]
buildMonthRecap ==
    {recapFrom(m, among(stored, recentMonths(atMonths(beforeMonth(m.at)), records).used), comparableWith(m.at, records)) :
        m \in {n \in ToSet(stored) : n.at = recapMonth}}

\* A typical month's everyday spending, and a year's travel spread over it.
lumpyOf(months, everyday) ==
    LET dated == SelectSeq(months, LAMBDA m : m.after # None)
        extra == [i \in DOMAIN dated |-> larger(0, dated[i].total - dated[i].after[1])]
    IN IF everyday /\ dated # <<>> THEN roundOf(total(extra), Len(dated)) ELSE 0
lumpyWindow(size) == SelectSeq(lastOf(priorPeriods, size), LAMBDA m : comparableWith(m.at, records))
runwayOn(months) ==
    computeRunway(PaceCash, [i \in DOMAIN months |-> IF isSeries(months) THEN months[i].after[1] ELSE months[i].total],
                  lumpyOf(lumpyWindow(LUMPY_MONTHS), isSeries(months)))
overviewRunway == runwayOn(among(stored, recentMonths(atMonths(priorPeriods), records).used))

-----------------------------------------------------------------------------
PaceInit ==
    /\ half \in {0, 2 * RECAP_LAST_DAY} /\ spentSoFar = 0 /\ plansBilled \in SUBSET Plans
    /\ stored \in PastMonths /\ records \in RecordsBegin

\* Half a day passes: what bills then bills, and the rest is as it comes.
HalfDay(e) ==
    LET next(p) == p.last + p.step * ceilOf(half + 1 - p.last, p.step)
        now == {p \in plansBilled : p.billing /\ next(p) = half + 1}
    IN /\ half < HALVES - 1 /\ half' = half + 1
       /\ spentSoFar' = spentSoFar + e + MapThenSumSet(LAMBDA p : p.cost, now)
       /\ plansBilled' = {IF p \in now THEN [p EXCEPT !.last = half + 1] ELSE p : p \in plansBilled}
       /\ UNCHANGED <<stored, records>>
\* The reader ends a plan and says so.
CancelPlan(p) ==
    /\ ~p.cancelled /\ plansBilled' = (plansBilled \ {p}) \union {[p EXCEPT !.cancelled = TRUE, !.billing = FALSE]}
    /\ UNCHANGED <<half, spentSoFar, stored, records>>
PaceNext == (\E e \in DaySpending : HalfDay(e)) \/ (\E p \in plansBilled : CancelPlan(p))

-----------------------------------------------------------------------------
\* The charges still to come this month, each plan's next.
stillToCome == {p \in plansBilled : p.billing /\ p.last + p.step > half /\ p.last + p.step < HALVES /\ p.last + p.step > todayAt}

\* No less is projected than what is spent and what is still to bill.
DueIsProjected(pace) ==
    pace.projected # None => pace.projected >= spentSoFar + MapThenSumSet(LAMBDA p : p.cost, stillToCome)
\* A month over its range is told what would keep it in, and that does: to a
\* unit a day, the days counted from today.
KeptToLands(pace) ==
    LET o == overPace(pace)
        ahead == Cardinality({d \in 1..DAYS : 2 * d > half})
    IN IF pace.projected = None \/ pace.high = None THEN o = None
       ELSE IF o = None THEN pace.projected <= pace.high
       ELSE CASE o.kind = "perDay" -> abs(pace.spent + o.perDay * ahead - pace.high) <= ahead /\ pace.spent + pace.committed <= pace.high
              [] o.kind = "committed" -> pace.spent <= pace.high /\ pace.spent + pace.committed = pace.high + o.over
              [] OTHER -> pace.spent = pace.high + o.over
\* One typical month: the pace, the runway and next month's recap read the same.
OneWindow(pace) ==
    pace.months # <<>> /\ (\A i \in 1..Len(stored) - 1 : stored[i + 1].at = stored[i].at + 1)
        => pace.months = recentMonths(atMonths(priorPeriods), records).used
\* What moved most of the month moved no more than all that rose in it.
MovedIsPart(month, recap) ==
    \A f \in recap.moved : f[2] <= month.by[f[1]] /\ (recap.vsTypical # None /\ \A c \in DOMAIN month.by : month.by[c] >= 0)
RecapCompares == \A m \in ToSet(stored), r \in buildMonthRecap : m.at = recapMonth => MovedIsPart(m, r)
\* The runway's month is a month it averaged, and what a year's trips come to.
RunwayInRange ==
    LET months == among(stored, recentMonths(atMonths(priorPeriods), records).used)
        lumpy == lumpyOf(lumpyWindow(LUMPY_MONTHS), isSeries(months))
    IN \A run \in {overviewRunway} \ {None} : 2 * run.low <= run.typical2 - 2 * lumpy /\ run.typical2 - 2 * lumpy <= 2 * run.high

\* What the month's projection and its alert tell the reader is so.
PaceKeepsItsWord ==
    /\ \A pace \in {insightsPace} : DueIsProjected(pace) /\ KeptToLands(pace) /\ OneWindow(pace)
    /\ RecapCompares /\ RunwayInRange

\* Stated by the sources, and not so: /trends shows the pace /insights shows
\* (currentPace.ts:52, OverPaceAlert.tsx), but silences no cancelled plan.
PagesSayOnePace == overPaceSentence(insightsPace) = overPaceSentence(trendsPace)
\* A charge that was counted as due changes nothing as it comes in: on its day
\* it is counted as due again (commitments.ts:107-110, "lands after").
ChargeWasCounted ==
    [][(/\ insightsPace.projected # None /\ insightsPace'.projected # None
        /\ spentSoFar' - spentSoFar = MapThenSumSet(LAMBDA p : p.cost, {p \in plansBilled' : p.last = half'}))
          => insightsPace'.projected <= insightsPace.projected]_pcvars
=============================================================================
