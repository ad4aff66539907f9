------------------------------ MODULE WorthGoal ------------------------------
(***************************************************************************)
(* What net worth did and when it reaches a target: the split of growth    *)
(* (netWorthGrowth), the arithmetic of the net worth goal (netWorthGoal),  *)
(* which the server and the panel run alike, the goal's panel              *)
(* (NetWorthGoalPanel) in the browser's tabs, the Setting it saves         *)
(* (saveNetWorthGoal, nextNetWorthGoal), and the month-ends its dates are  *)
(* projected from.  Each control saves the whole draft when it settles; a  *)
(* tab's saves are answered one after another, and an answer may be lost.  *)
(*                                                                         *)
(* Dollars are whole, a yearly rate is a whole percent and a monthly one a *)
(* number of ten-thousandths.  A month-end is [at, value, leftOut, gains,  *)
(* in, paid, estimated, oneOff, topUp, spent]: the accounts it leaves out, *)
(* the market's share, what crossed into and was paid to each account.     *)
(***************************************************************************)
EXTENDS Stats, FiniteSetsExt, Functions, TLC

CONSTANTS
    CashAccounts, InvestedAccounts,
    YEAR,                       \* months in one
    PACE_MONTHS, PACE_MIN_MONTHS, HORIZON,
    IDLE_CASH_MIN,
    INFLATION_PCT,
    Unmeasured,                 \* null
    Histories,      \* what the month-ends may have been, and still be
    FirstMonths,    \* how many of them are complete at first
    GoalTabs,
    Targets, Returns, Monthly,  \* what is typed; Unmeasured: an empty field
    MAX_TARGET, MAX_REAL_RETURN_PCT, MAX_MONTHLY_INVEST,
    FirstGoal,
    NoDate,         \* no return, so no day it was set
    MaxCommits, MaxLost, MaxDay

DEPOSIT_MONTHS == 3
middle(values) == ascending(values)[DEPOSIT_MONTHS \div 2 + 1]
sumFor(accounts, amountOf) == FoldFunctionOnSet(+, 0, amountOf, accounts)

\* A month's own amounts, a month that has none counting nothing.
sumOver(months, from, to, amountOf(_)) == total([i \in 1..(to - from) |-> amountOf(months[from + i])])
gainsOf(m) == IF m.gains = Unmeasured THEN 0 ELSE m.gains

-----------------------------------------------------------------------------
(* netWorthGrowth.ts *)

uncertain(m) == m.estimated \/ m.leftOut # {}

growthBetween(months, from, to) ==
    LET change == months[to].value - months[from].value
        markets == sumOver(months, from, to, gainsOf)
        arrives == {i \in from + 1..to : months[i].leftOut # months[i - 1].leftOut}
        joined == FoldFunctionOnSet(+, 0, [i \in arrives |-> months[i].value - months[i - 1].value - gainsOf(months[i])],
                                    arrives)
    IN [from |-> from, to |-> to, change |-> change, markets |-> markets, joined |-> joined,
        saved |-> change - markets - joined,
        uncertainMonths |-> Cardinality({i \in from..to : uncertain(months[i])})]

yearOf(m) == m.at \div YEAR
\* From the December before, or the first month there is; newest year first.
growthByYear(months) ==
    LET years == SetToSortSeq({yearOf(m) : m \in ToSet(months)}, LAMBDA a, b : a > b)
        in(y) == {i \in DOMAIN months : yearOf(months[i]) = y}
        december(y) == {i \in DOMAIN months : months[i].at = y * YEAR - 1}
        base(y) == IF december(y) # {} THEN CHOOSE i \in december(y) : TRUE
                   ELSE CHOOSE i \in in(y) : \A j \in in(y) : i <= j
        last(y) == CHOOSE i \in in(y) : \A j \in in(y) : i >= j
        rows == [k \in DOMAIN years |-> growthBetween(months, base(years[k]), last(years[k]))]
    IN SelectSeq(rows, LAMBDA g : g.from # g.to)

-----------------------------------------------------------------------------
(* The basis: pace, deposit and cash yield as of months[end]. *)

\* The pace's base: up to PACE_MONTHS back, never across a month that counts
\* other accounts.
paceBase(months, end) ==
    LET first == larger(1, end - PACE_MONTHS)
        other == {i \in first..end : months[i].leftOut # months[end].leftOut}
    IN IF other = {} THEN first ELSE 1 + CHOOSE i \in other : \A j \in other : i >= j

paceAt(months, end) ==
    LET base == paceBase(months, end)
        span == months[end].at - months[base].at
        oneOffOf(m) == m.oneOff
        topUpOf(m) == m.topUp
        growth == growthBetween(months, base, end)
        extra == sumOver(months, base, end, oneOffOf)
        toppedUp == sumOver(months, base, end, topUpOf)
    IN IF span < PACE_MIN_MONTHS THEN Unmeasured
       ELSE [base |-> base, months |-> span, uncertain |-> growth.uncertainMonths,
             perMonth |-> roundOf(growth.saved - extra + toppedUp, span)]

depositIn(m) == sumFor(InvestedAccounts, m.in)
depositAt(months, end) ==
    IF end < DEPOSIT_MONTHS THEN Unmeasured
    ELSE middle([k \in 1..DEPOSIT_MONTHS |-> depositIn(months[end - DEPOSIT_MONTHS + k])])
sameDeposit(a, b) == 50 * abs(a - b) <= larger(abs(a), abs(b))

realOf(nominal) == roundOf(100 * (100 + nominal), 100 + INFLATION_PCT) - 100

\* A yearly yield from what an account was paid on what it held, month by
\* month; the mean of two accounts' by where the cash is, or where it sat.
nominalOf(months, end, a) ==
    LET paying == SelectSeq([k \in 1..DEPOSIT_MONTHS |-> [held |-> months[end - DEPOSIT_MONTHS - 1 + k].holds[a],
                                                          paid |-> months[end - DEPOSIT_MONTHS + k].paid[a]]],
                            LAMBDA m : m.held > 0)
        rates == ascending([i \in DOMAIN paying |-> roundOf(1200 * paying[i].paid, paying[i].held)])
    IN IF paying = <<>> THEN 0 ELSE rates[Len(paying) \div 2 + 1]
mixed(nominal, weights, weight) ==
    roundOf(sumFor(CashAccounts, [a \in CashAccounts |-> weights[a] * nominal[a]]), weight)
yieldFrom(nominal, held, sat, heldTotal, satTotal) ==
    IF satTotal = 0 THEN Unmeasured
    ELSE [nominal |-> nominal, balance |-> heldTotal,
          mixed |-> IF heldTotal > 0 THEN mixed(nominal, held, heldTotal) ELSE mixed(nominal, sat, satTotal),
          newMixed |-> mixed(nominal, sat, satTotal)]
yieldOn(nominal, held, sat) == yieldFrom(nominal, held, sat, sumFor(CashAccounts, held), sumFor(CashAccounts, sat))
cashYieldAt(months, end, base) ==
    IF CashAccounts = {} \/ end <= DEPOSIT_MONTHS THEN Unmeasured
    ELSE yieldOn([a \in CashAccounts |-> nominalOf(months, end, a)],
                 [a \in CashAccounts |-> larger(0, months[end].holds[a])],
                 [a \in CashAccounts |-> total([i \in 1..end - base + 1 |-> larger(0, months[base + i - 1].holds[a])])])

basisFrom(months, end, pace, cash) ==
    [anchor |-> months[end].at, netWorth |-> months[end].value, pace |-> pace.perMonth,
     uncertain |-> pace.uncertain, invested |-> sumFor(InvestedAccounts, months[end].holds),
     contribution |-> depositAt(months, end),
     cash |-> IF cash = Unmeasured THEN 0 ELSE cash.balance,
     cashNominal |-> IF cash = Unmeasured THEN 0 ELSE cash.mixed,
     cashReal |-> IF cash = Unmeasured THEN 0 ELSE realOf(cash.mixed),
     newCashReal |-> IF cash = Unmeasured THEN 0 ELSE realOf(cash.newMixed)]
basisOn(months, end, pace) ==
    IF pace = Unmeasured THEN Unmeasured ELSE basisFrom(months, end, pace, cashYieldAt(months, end, pace.base))
basisAt(months, end) == IF end < 1 THEN Unmeasured ELSE basisOn(months, end, paceAt(months, end))

\* Cash beyond a month's spending where it earns nothing, and what the account
\* that pays best would earn on it.
idleOn(cash, live, buffer) ==
    LET paying == {a \in CashAccounts : cash.nominal[a] > 0}
        idling == {a \in CashAccounts : cash.nominal[a] = 0}
        best == CHOOSE a \in paying : \A b \in paying : cash.nominal[a] >= cash.nominal[b]
        idle == sumFor(idling, [a \in idling |-> larger(0, live[a])]) - buffer
    IN IF paying = {} \/ idling = {} THEN Unmeasured
       ELSE IF idle < IDLE_CASH_MIN THEN Unmeasured
       ELSE [idle |-> idle, from |-> idling, to |-> best, pct |-> cash.nominal[best]]
idleFrom(months, end, live, cash) ==
    IF cash = Unmeasured \/ end < DEPOSIT_MONTHS THEN Unmeasured
    ELSE idleOn(cash, live, middle([k \in 1..DEPOSIT_MONTHS |-> months[end - DEPOSIT_MONTHS + k].spent]))
idleCashAt(months, end, live) ==
    LET pace == paceAt(months, end)
    IN idleFrom(months, end, live, IF pace = Unmeasured THEN Unmeasured ELSE cashYieldAt(months, end, pace.base))

withCashMoved(b, amount, pct) ==
    IF b.cash <= 0 \/ amount <= 0 THEN b
    ELSE LET nominal == b.cashNominal + (smaller(b.cash, amount) * pct) \div b.cash
         IN [b EXCEPT !.cashNominal = nominal, !.cashReal = realOf(nominal)]

\* What the operator set takes the measured figure's place; investing only
\* splits what is saved.
withSaving(b, invest, pace) ==
    [b EXCEPT !.contribution = IF invest # Unmeasured THEN invest ELSE @,
              !.pace = IF pace # Unmeasured THEN pace ELSE @]

-----------------------------------------------------------------------------
(* The projection. *)

monthlyRate(pct) == (pct * 25) \div 3
earns(amount, rate) == IF amount > 0 THEN (amount * rate) \div 10000 ELSE 0

\* Only cash there is can be invested beyond what is saved.
deposit_Uncapped(b, cash) == IF b.contribution = Unmeasured THEN 0 ELSE b.contribution
deposit(b, cash) ==
    smaller(IF b.contribution = Unmeasured THEN 0 ELSE b.contribution, larger(0, cash + b.pace))

\* One month on: what new saving cannot cover is drawn from the cash held.
invests(inv, held, left, drawn) == [inv |-> inv, held |-> held - drawn, saved |-> left + drawn]
deposits(inv, held, left) == invests(inv, held, left, IF left < 0 /\ held > 0 THEN smaller(held, -left) ELSE 0)
compounds(b, inv, held, saved, into) == deposits(inv + into, held, saved + b.pace - into)
growsBy(b, inv, held, saved) == compounds(b, inv, held, saved, deposit(b, held + saved))
monthOn(b, market, s) == growsBy(b, s.inv + (s.inv * market) \div 10000,
                                 s.held + earns(s.held, monthlyRate(b.cashReal)),
                                 s.saved + earns(s.saved, monthlyRate(b.newCashReal)))

\* Month 0 is the month-end itself; cards and loans stand still.
simulate(b, returnPct, months) ==
    LET market == IF returnPct <= 0 THEN 0 ELSE monthlyRate(returnPct)
    IN FoldLeft(LAMBDA run, t : Append(run, monthOn(b, market, Last(run))),
                <<[inv |-> b.invested, held |-> b.cash, saved |-> 0]>>, [t \in 1..months |-> t])
worthOf(b, s) == s.inv + s.held + s.saved + (b.netWorth - b.invested - b.cash)
worths(b, run) == [t \in 0..Len(run) - 1 |-> worthOf(b, run[t + 1])]
goalPath(b, returnPct, months) == worths(b, simulate(b, returnPct, months))

Never == -1
reaches(path, target) ==
    LET there == {t \in DOMAIN path : path[t] >= target}
    IN IF there = {} THEN Never ELSE CHOOSE t \in there : \A u \in there : t <= u
landsOn(b, steps) == IF steps = Never THEN Never ELSE b.anchor + steps
landing(b, returnPct, target) == landsOn(b, reaches(goalPath(b, returnPct, HORIZON), target))

shiftBetween(now, before) == IF Never \in {now, before} THEN Unmeasured ELSE now - before

\* Both dates, and how far each moved since the month-end before.
moved(now, before, target, pct, lands) ==
    [lands |-> lands,
     shift |-> IF before = Unmeasured THEN Unmeasured ELSE shiftBetween(lands, landing(before, pct, target))]
projectGoal(now, before, target, returnPct) ==
    [p \in {0, returnPct} |-> moved(now, before, target, p, landing(now, p, target))]

\* No date for a goal reached; the amounts the operator set move both dates.
assessed(g, netWorth, b, before, latest) ==
    [reached |-> netWorth >= g.target, basis |-> b,
     projection |-> IF b = Unmeasured \/ netWorth >= g.target THEN Unmeasured
                    ELSE projectGoal(withSaving(b, g.invest, g.pace),
                                     IF before = Unmeasured THEN Unmeasured ELSE withSaving(before, g.invest, g.pace),
                                     g.target, g.pct),
     unmatchedDeposit |-> IF b = Unmeasured THEN Unmeasured
                          ELSE IF b.contribution = Unmeasured THEN Unmeasured
                          ELSE IF sameDeposit(latest, b.contribution) THEN Unmeasured ELSE latest]
assessNetWorthGoal(g, netWorth, months, end) ==
    assessed(g, netWorth, basisAt(months, end), basisAt(months, end - 1), IF end < 1 THEN 0 ELSE depositIn(months[end]))

\* The chart's lines end where they land, or run to an edge both fit.
edgeOf(steps) ==
    LET reach == FoldSet(larger, 0, {steps[p] : p \in DOMAIN steps})
    IN smaller(HORIZON, IF reach > 0 THEN reach + 6 ELSE HORIZON \div 2)
linesTo(b, steps, edge) ==
    {[pct |-> p, lands |-> steps[p], values |-> goalPath(b, p, IF steps[p] = Never THEN edge ELSE steps[p])] :
        p \in DOMAIN steps}
linesOf(b, steps) == linesTo(b, steps, edgeOf(steps))
pathsFor(b, target, returnPct) ==
    LET shown == projectGoal(b, Unmeasured, target, returnPct)
    IN linesOf(b, [p \in DOMAIN shown |-> IF shown[p].lands = Never THEN Never ELSE shown[p].lands - b.anchor])

\* A year-old deposit grown by the assumed inflation.
keepingUp(now, yearAgo) ==
    LET needed == (yearAgo * (100 + INFLATION_PCT)) \div 100 IN [needed |-> needed, behind |-> now < needed]
-----------------------------------------------------------------------------

VARIABLES
    monthEnds,  \* the history, complete or still to come
    complete,   \* how many of them are
    goal,       \* the Setting: [target, pct, setOn, invest, pace]
    day,        \* today
    shows,      \* [GoalTabs -> [draft, setOn, saved, failed, seen]]
    saving,     \* [GoalTabs -> the drafts sent and not answered]
    read,       \* [GoalTabs -> the goal its first save has read, or Unmeasured]
    back,       \* [GoalTabs -> the answer on its way, or Unmeasured]
    typedOn,    \* {<<return, day>>}: when the person set it
    crossed,    \* whether a control settled on a draft the Setting had left
    tally       \* [commits, lost]

gvars == <<monthEnds, complete, goal, day, shows, saving, read, back, typedOn, crossed, tally>>

draftOf(g) == [target |-> g.target, pct |-> g.pct, invest |-> g.invest, pace |-> g.pace]

WorthGoalInit ==
    /\ monthEnds \in Histories /\ complete = FirstMonths
    /\ goal = FirstGoal /\ day = FirstGoal.setOn
    /\ shows = [t \in GoalTabs |-> [draft |-> draftOf(FirstGoal), setOn |-> FirstGoal.setOn,
                                    saved |-> draftOf(FirstGoal), failed |-> FALSE, seen |-> FirstMonths]]
    /\ saving = [t \in GoalTabs |-> <<>>]
    /\ read = [t \in GoalTabs |-> Unmeasured] /\ back = [t \in GoalTabs |-> Unmeasured]
    /\ typedOn = {<<FirstGoal.pct, FirstGoal.setOn>>}
    /\ crossed = FALSE
    /\ tally = [commits |-> 0, lost |-> 0]

-----------------------------------------------------------------------------
(* netWorthGoal.ts: what a save writes, or that it refuses. *)

accepts(d) ==
    /\ d.target > 0 /\ d.target <= MAX_TARGET
    /\ d.pct >= 0 /\ d.pct <= MAX_REAL_RETURN_PCT
    /\ d.invest = Unmeasured \/ (d.invest >= 0 /\ d.invest <= MAX_MONTHLY_INVEST)
    /\ d.pace = Unmeasured \/ abs(d.pace) <= MAX_MONTHLY_INVEST

\* A changed return is dated today, an unchanged one keeps its day.
nextNetWorthGoal(stored, d, today) ==
    [target |-> d.target, pct |-> d.pct, invest |-> d.invest, pace |-> d.pace,
     setOn |-> IF d.pct = 0 THEN NoDate ELSE IF d.pct = stored.pct THEN stored.setOn ELSE today]

-----------------------------------------------------------------------------
(* The panel.  Its figures are those of the page it was drawn with. *)

measuredRate(t) == paceAt(monthEnds, shows[t].seen)
measuredPace(t) == LET p == measuredRate(t) IN IF p = Unmeasured THEN 0 ELSE p.perMonth
measuredDeposit(t) == depositAt(monthEnds, shows[t].seen)
shownPace(t) == IF shows[t].draft.pace = Unmeasured THEN measuredPace(t) ELSE shows[t].draft.pace
shownDeposit(t) ==
    IF shows[t].draft.invest # Unmeasured THEN shows[t].draft.invest
    ELSE IF measuredDeposit(t) = Unmeasured THEN 0 ELSE measuredDeposit(t)
sameFigure(a, b) == sameDeposit(a, b)

\* The whole draft goes, unless it is the one last known saved.
saveGoal(t, draft) ==
    LET behind == shows[t].saved # draftOf(goal) \/ shows[t].draft # draftOf(goal)
        others == \E u \in GoalTabs \ {t} : saving[u] # <<>>
        skips == draft = shows[t].saved
    IN /\ shows' = [shows EXCEPT ![t].draft = draft, ![t].failed = IF skips THEN @ ELSE FALSE]
       /\ saving' = [saving EXCEPT ![t] = IF skips THEN @ ELSE Append(@, draft)]
       /\ crossed' = (crossed \/ others \/ (skips /\ saving[t] # <<>>) \/ (behind /\ saving[t] = <<>>))

\* A refused field says so, and shows what it showed.
refuseField(t) ==
    /\ shows' = [shows EXCEPT ![t].failed = TRUE]
    /\ UNCHANGED <<saving, crossed>>

commits == tally.commits < MaxCommits /\ tally' = [tally EXCEPT !.commits = @ + 1]
settles == UNCHANGED <<monthEnds, complete, goal, day, read, back>>

CommitTarget(t, typed) ==
    /\ typed # shows[t].draft.target
    /\ IF typed = Unmeasured THEN refuseField(t)
       ELSE IF typed <= 0 THEN refuseField(t)
       ELSE saveGoal(t, [shows[t].draft EXCEPT !.target = typed])
    /\ commits /\ settles /\ UNCHANGED typedOn

\* The slider moves the draft and saves when let go.
CommitReturn(t, pct) ==
    /\ pct # shows[t].draft.pct
    /\ saveGoal(t, [shows[t].draft EXCEPT !.pct = pct])
    /\ typedOn' = typedOn \union {<<pct, day>>}
    /\ commits /\ settles

\* The measured amount typed back follows the data again; investing more than
\* is saved raises the saving to match.
CommitInvest(t, typed) ==
    /\ IF typed = Unmeasured THEN refuseField(t)
       ELSE IF typed < 0 THEN refuseField(t)
       ELSE LET next == IF measuredDeposit(t) = Unmeasured THEN typed
                        ELSE IF sameFigure(typed, measuredDeposit(t)) THEN Unmeasured ELSE typed
                raised == IF sameFigure(typed, measuredPace(t)) THEN Unmeasured ELSE typed
            IN saveGoal(t, [shows[t].draft EXCEPT !.invest = next,
                                              !.pace = IF typed > shownPace(t) THEN raised ELSE @])
    /\ commits /\ settles /\ UNCHANGED typedOn

CommitGoalPace(t, typed) ==
    /\ measuredRate(t) # Unmeasured
    /\ IF typed = Unmeasured THEN refuseField(t)
       ELSE saveGoal(t, [shows[t].draft EXCEPT !.pace = IF sameFigure(typed, measuredPace(t)) THEN Unmeasured ELSE typed])
    /\ commits /\ settles /\ UNCHANGED typedOn

UseMeasuredDeposit(t) ==
    /\ shows[t].draft.invest # Unmeasured
    /\ saveGoal(t, [shows[t].draft EXCEPT !.invest = Unmeasured])
    /\ commits /\ settles /\ UNCHANGED typedOn
UseMeasuredPace(t) ==
    /\ shows[t].draft.pace # Unmeasured
    /\ saveGoal(t, [shows[t].draft EXCEPT !.pace = Unmeasured])
    /\ commits /\ settles /\ UNCHANGED typedOn

-----------------------------------------------------------------------------
(* saveNetWorthGoal, whose read and write are two statements, and its answer. *)

ReadGoal(t) ==
    /\ saving[t] # <<>> /\ read[t] = Unmeasured /\ back[t] = Unmeasured
    /\ IF accepts(Head(saving[t])) THEN read' = [read EXCEPT ![t] = goal] /\ UNCHANGED back
       ELSE back' = [back EXCEPT ![t] = [ok |-> FALSE]] /\ UNCHANGED read
    /\ UNCHANGED <<monthEnds, complete, goal, day, shows, saving, typedOn, crossed, tally>>

\* The page comes back with the answer, its figures the latest.
WriteGoal(t) ==
    /\ read[t] # Unmeasured
    /\ goal' = nextNetWorthGoal(read[t], Head(saving[t]), day)
    /\ back' = [back EXCEPT ![t] = [ok |-> TRUE, goal |-> goal', seen |-> complete]]
    /\ read' = [read EXCEPT ![t] = Unmeasured]
    /\ UNCHANGED <<monthEnds, complete, day, shows, saving, typedOn, crossed, tally>>

ReadAnswer(t) ==
    /\ back[t] # Unmeasured
    /\ shows' = [shows EXCEPT ![t] = IF back[t].ok
                     THEN [@ EXCEPT !.saved = draftOf(back[t].goal), !.setOn = back[t].goal.setOn, !.seen = back[t].seen]
                     ELSE [@ EXCEPT !.failed = TRUE]]
    /\ saving' = [saving EXCEPT ![t] = Tail(@)]
    /\ back' = [back EXCEPT ![t] = Unmeasured]
    /\ UNCHANGED <<monthEnds, complete, goal, day, read, typedOn, crossed, tally>>

\* Before the save reached the server, or after it was written.
CallFails(t) ==
    /\ saving[t] # <<>> /\ read[t] = Unmeasured /\ tally.lost < MaxLost
    /\ shows' = [shows EXCEPT ![t].failed = TRUE]
    /\ saving' = [saving EXCEPT ![t] = Tail(@)]
    /\ back' = [back EXCEPT ![t] = Unmeasured]
    /\ tally' = [tally EXCEPT !.lost = @ + 1]
    /\ UNCHANGED <<monthEnds, complete, goal, day, read, typedOn, crossed>>

\* A month ends, and a sync records it.
MonthCloses ==
    /\ complete < Len(monthEnds) /\ complete' = complete + 1
    /\ UNCHANGED <<monthEnds, goal, day, shows, saving, read, back, typedOn, crossed, tally>>
DayPasses ==
    /\ day < MaxDay /\ day' = day + 1
    /\ typedOn' = typedOn \union {<<d.pct, day + 1>> : d \in {e \in UNION {ToSet(saving[t]) : t \in GoalTabs} :
                                                              <<e.pct, day>> \in typedOn}}
    /\ UNCHANGED <<monthEnds, complete, goal, shows, saving, read, back, crossed, tally>>

WorthGoalNext ==
    \/ \E t \in GoalTabs :
          \/ \E v \in Targets : CommitTarget(t, v)
          \/ \E v \in Returns : CommitReturn(t, v)
          \/ \E v \in Monthly : CommitInvest(t, v) \/ CommitGoalPace(t, v)
          \/ UseMeasuredDeposit(t) \/ UseMeasuredPace(t)
          \/ ReadGoal(t) \/ WriteGoal(t) \/ ReadAnswer(t) \/ CallFails(t)
    \/ MonthCloses \/ DayPasses

WorthGoalSpec == WorthGoalInit /\ [][WorthGoalNext]_gvars

\* The goal there is at first was accepted, its return typed on a day.
ASSUME WorthGoalAssumption ==
    /\ accepts(draftOf(FirstGoal)) /\ FirstGoal.setOn \in Int /\ NoDate \notin Int
    /\ (FirstGoal.pct = 0) = (FirstGoal.setOn = NoDate)

-----------------------------------------------------------------------------
\* With nothing under way and nothing refused, a panel holds what is stored
\* ("each saves when it settles"), and the day its return is dated is the day
\* the return was set, never one the target or a monthly figure was moved on
\* ("the as-of date means when the assumption was made"): as long as no draft
\* was sent from a page the Setting had left behind or had never received.
SettledIsStored ==
    ~crossed =>
        /\ \A t \in GoalTabs :
              (\A u \in GoalTabs : saving[u] = <<>>) /\ ~shows[t].failed /\ shows[t].saved = draftOf(goal) =>
                  shows[t].draft = draftOf(goal)
        /\ goal.pct > 0 => <<goal.pct, goal.setOn>> \in typedOn
GoalReadsBack == accepts(draftOf(goal)) /\ (goal.pct = 0) = (goal.setOn = NoDate)

\* Every way of cutting the past into spans adds up: the parts of a span to
\* its change, and the years to the whole, an account's arrival apart.
GrowthAddsUp ==
    \A n \in 2..complete :
        LET months == SubSeq(monthEnds, 1, n)
            years == growthByYear(months)
        IN /\ \A i \in 1..n - 1 :
                 LET a == growthBetween(months, 1, i + 1) b == growthBetween(months, i, n) c == growthBetween(months, 1, n)
                     d == growthBetween(months, i, i + 1)
                 IN /\ a.saved + b.saved = c.saved + d.saved /\ a.joined + b.joined = c.joined + d.joined
                    /\ c.change = c.saved + c.markets + c.joined
           /\ total([k \in DOMAIN years |-> years[k].saved]) = growthBetween(months, 1, n).saved

\* An account entering the sum is not saving: a pace never crosses one, and is
\* the average of what its months kept, one-off pay out and pay topped up.
PaceIsSaving ==
    \A n \in 1..complete :
        LET p == paceAt(monthEnds, n)
        IN p # Unmeasured =>
             /\ growthBetween(monthEnds, p.base, n).joined = 0
             /\ \A i \in p.base..n : monthEnds[i].leftOut = monthEnds[n].leftOut

\* A projection makes no money and borrows none: each month adds the pace and
\* what the money there was earned, whatever part of it is invested; and what
\* is invested comes out of what is saved and the cash there is.
ProjectionKeepsMoney(b, run) ==
    \A t \in 1..HORIZON :
       LET s == run[t] u == run[t + 1]
           earned == earns(s.held, monthlyRate(b.cashReal)) + earns(s.saved, monthlyRate(b.newCashReal))
                     + (s.inv * monthlyRate(goal.pct)) \div 10000
       IN /\ worthOf(b, u) = worthOf(b, s) + b.pace + earned
          /\ u.held >= 0 /\ (b.pace >= 0 /\ b.cash >= 0 => u.held + u.saved >= 0)

\* A line of the chart ends on the date beside it: at the target there, short
\* of it until then; a higher return never lands later; and a date does not
\* move with the control that splits the saving unless something earns.
DatesKeepTheirLines(b, still) ==
    /\ b.netWorth < goal.target =>
          \A line \in pathsFor(b, goal.target, goal.pct) :
             \A t \in DOMAIN line.values : (line.values[t] >= goal.target) = (t = line.lands)
    /\ LET lands == [p \in Returns |-> landing(b, p, goal.target)]
       IN \A p, q \in Returns : p < q /\ lands[p] # Never => lands[q] # Never /\ lands[q] <= lands[p]
    /\ LET lands == [m \in Monthly \ {Unmeasured} |-> landing(withSaving(still, m, Unmeasured), 0, goal.target)]
       IN \A m, n \in DOMAIN lands : lands[m] = lands[n]

GoalProjects(b) ==
    b # Unmeasured => /\ ProjectionKeepsMoney(b, simulate(b, goal.pct, HORIZON))
                      /\ DatesKeepTheirLines(b, [b EXCEPT !.cashReal = 0, !.newCashReal = 0])

\* Moving idle cash earns more, and never more of it than there is.
IdleCashIsThere(b, idle, live) ==
    idle # Unmeasured =>
          /\ idle.to \notin idle.from /\ idle.pct > 0
          /\ idle.idle <= sumFor(idle.from, [a \in idle.from |-> larger(0, live[a])])
          /\ withCashMoved(b, idle.idle, idle.pct).cashReal >= b.cashReal

\* A goal short of its target is told no day already past, and the same date
\* with and without a month to compare it with.
DatesAhead(a) ==
    a.projection # Unmeasured =>
        \A p \in DOMAIN a.projection :
           LET shown == a.projection[p] IN
           /\ shown.lands = Never \/ shown.lands > a.basis.anchor
           /\ shown.shift # Unmeasured => shown.lands # Never

FiguresOn(b) ==
    /\ b # Unmeasured => GoalProjects(withSaving(b, goal.invest, goal.pace))
    /\ DatesAhead(assessNetWorthGoal(goal, monthEnds[complete].value, monthEnds, complete))
    /\ IdleCashIsThere(b, idleCashAt(monthEnds, complete, monthEnds[complete].holds), monthEnds[complete].holds)
\* Where no panel has a save under way: the figures are those of the Setting
\* and the month-ends alone.
WorthGoalKeepsItsWord ==
    /\ SettledIsStored /\ GoalReadsBack
    /\ (\A t \in GoalTabs : saving[t] = <<>>) => GrowthAddsUp /\ PaceIsSaving /\ FiguresOn(basisAt(monthEnds, complete))
=============================================================================
