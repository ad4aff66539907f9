------------------------------- MODULE Outlook -------------------------------
(***************************************************************************)
(* What the balances and the complete months say of the months to come:    *)
(* the months a projection averages (recentMonths), the balances and the   *)
(* runway (liquidity), a savings goal's fund and its landing (goals,       *)
(* goalFunds, goalInputs).                                                 *)
(*                                                                         *)
(* Amounts are whole units, DOLLAR of them to the dollar; a month is a     *)
(* number, MONTH instants long on the average and beginning where the      *)
(* calendar says.  An account is [id, type, balance, first], a month of    *)
(* flow [at, net, regular], a month-end [at, by].                          *)
(***************************************************************************)
EXTENDS Stats, FiniteSets, FiniteSetsExt, Functions

CONSTANTS
    DOLLAR, MONTH,
    Skew,               \* how far each month's first instant is from the average
    WINDOW_MONTHS, WINDOW_MIN_MONTHS,   \* GOAL_RATE_MONTHS, RUNWAY_MONTHS and theirs
    SHORTFALL_STEP,
    None,               \* null
    Absent, Junk        \* a Setting with no row, with one that does not parse

monthStart(m) == MONTH * m + Skew[(m % Len(Skew)) + 1]
monthAt(t) == CHOOSE m \in (t \div MONTH) - 1..(t \div MONTH) + 1 : monthStart(m) <= t /\ t < monthStart(m + 1)

lastOf(s, n) == SubSeq(s, larger(1, Len(s) - n + 1), Len(s))

-----------------------------------------------------------------------------
(* recentMonths.ts, pace.ts *)

\* Two thirds of today's accounts reach back over it.
isComparableBaseline(covered, of) == of = 0 \/ 3 * covered >= 2 * of

\* firsts: [accounts -> the instant their records begin, or None].  A month
\* left out is not replaced by an older one.
recentMonths(periods, firsts) ==
    LET window == lastOf(periods, WINDOW_MONTHS)
        covers(m) == Cardinality({a \in DOMAIN firsts : firsts[a] # None /\ firsts[a] <= monthStart(m)})
        comparable(m) == isComparableBaseline(covers(m), Cardinality(DOMAIN firsts))
        partly(m) == \E a \in DOMAIN firsts : firsts[a] = None \/ firsts[a] >= monthStart(m + 1)
        used == SelectSeq(window, comparable)
    IN [used |-> used, short |-> SelectSeq(used, partly),
        dropped |-> SelectSeq(window, LAMBDA m : ~comparable(m))]

-----------------------------------------------------------------------------
(* liquidity.ts *)

countsAsCash(a, extraIds) == a.type = "DEPOSITORY" \/ a.id \in extraIds
balances(accounts) == MapThenSumSet(LAMBDA a : a.balance, accounts)
idsOf(accounts) == {a.id : a \in accounts}
\* Of the accounts named one after another, one named twice twice.
balancesOf(named, accounts) ==
    total([i \in DOMAIN named |-> (CHOOSE a \in accounts : a.id = named[i]).balance])

summariseBalances(accounts, extraIds) ==
    LET cash == {a \in accounts : countsAsCash(a, extraIds)}
        debt == {a \in accounts \ cash : a.type \in {"CREDIT", "LOAN"}}
        cards == {a \in debt : a.type = "CREDIT"}
        held == accounts \ (cash \union debt)
    IN [cash |-> balances(cash), debt |-> balances(debt), cards |-> balances(cards), investments |-> balances(held),
        cashAccounts |-> Cardinality(cash), debtAccounts |-> Cardinality(debt),
        loanAccounts |-> Cardinality(debt \ cards), investmentAccounts |-> Cardinality(held)]

\* The cash over the MIDDLE everyday month and the travel and one-off purchases
\* spread over a month; in tenths of a month, from the last complete ones.
computeRunway(cash, spending, lumpyMonthly) ==
    LET recent == lastOf(spending, WINDOW_MONTHS)
        everyday2 == median2(recent)
        typical2 == everyday2 + 2 * larger(0, lumpyMonthly)
    IN IF Len(recent) < WINDOW_MIN_MONTHS \/ cash <= 0 THEN None
       ELSE IF everyday2 <= 0 THEN None
       ELSE [months10 |-> roundOf(20 * cash, typical2), typical2 |-> typical2,
             low |-> ascending(recent)[1], high |-> ascending(recent)[Len(recent)]]

-----------------------------------------------------------------------------
(* goals.ts.  A pace is [n, d], the measured mean being a quotient. *)

whole(amount) == [n |-> amount, d |-> 1]

projectLanding(remaining, pace, now) ==
    IF pace.n <= 0 \/ remaining <= 0 THEN None
    ELSE [months10 |-> roundOf(10 * remaining * pace.d, pace.n),
          at |-> now + (remaining * MONTH * pace.d) \div pace.n]
landsMonth(landing) == monthAt(landing.at)
monthsAfterTarget(landed, target) == IF target = None THEN None ELSE landed - target

\* The pace that lands in the target month, and what it takes over this one,
\* rounded up.  Nothing to ask on time, or with less than a month left.
extraToLand(remaining, pace, target, now) ==
    LET landing == projectLanding(remaining, whole(pace), now)
        left == monthStart(target + 1) - now
        extra == SHORTFALL_STEP * ceilOf(remaining * MONTH - pace * left, SHORTFALL_STEP * left)
    IN IF target = None \/ landing = None THEN None
       ELSE IF landsMonth(landing) <= target \/ left < MONTH THEN None
       ELSE IF extra <= 0 THEN None
       ELSE [required |-> roundOf(remaining * MONTH, left), extra |-> extra]

\* A card in credit is not cash: the fund is cash after the cards it pays.
assessGoal(goal, pace, accounts, extraIds, nets, now) ==
    LET cash == {a \in accounts : countsAsCash(a, extraIds)}
        onCards == balances({a \in accounts : a.type = "CREDIT"})
        named == SelectSeq(goal.accounts, LAMBDA id : id \in idsOf(accounts))
        saved == IF goal.cash THEN balances(cash) + onCards ELSE balancesOf(named, accounts)
        recent == lastOf(nets, WINDOW_MONTHS)
        measured == IF Len(recent) < WINDOW_MIN_MONTHS THEN None ELSE [n |-> total(recent), d |-> Len(recent)]
        followed == IF pace = None THEN measured ELSE whole(pace)
        landing == projectLanding(goal.target - saved, followed, now)
        base == [saved |-> saved, remaining |-> goal.target - saved, reached |-> FALSE, paceSet |-> pace,
                 measured |-> IF measured = None THEN None ELSE roundOf(measured.n, measured.d),
                 cardsOwed |-> IF goal.cash THEN larger(0, -onCards) ELSE 0,
                 missing |-> IF goal.cash THEN 0 ELSE Len(goal.accounts) - Len(named),
                 lands |-> None, refusal |-> None]
    IN IF (IF goal.cash THEN cash = {} ELSE named = <<>>) THEN [base EXCEPT !.saved = 0, !.remaining = goal.target, !.refusal = "NO_ACCOUNTS"]
       ELSE IF saved >= goal.target THEN [base EXCEPT !.reached = TRUE]
       ELSE IF measured = None THEN [base EXCEPT !.refusal = "TOO_FEW_MONTHS"]
       ELSE IF landing = None THEN [base EXCEPT !.refusal = "RATE_NOT_POSITIVE"]
       ELSE [base EXCEPT !.lands = landsMonth(landing)]

\* What the card asks at the pace it projects at.
shortfallOf(a, target, paceSet, now) ==
    IF a.reached \/ a.refusal = "NO_ACCOUNTS" \/ a.measured = None THEN None
    ELSE extraToLand(a.remaining, IF paceSet = None THEN a.measured ELSE paceSet, target, now)

-----------------------------------------------------------------------------
(* goalFunds.ts: the fund's record, [at, value], from the month-ends whose   *)
(* accounts are known.                                                       *)

fundValue(m, ids) == total([i \in DOMAIN ids |-> IF ids[i] \in DOMAIN m.by THEN m.by[ids[i]] ELSE 0])
fundHistory(months, ids, count) ==
    LET known == lastOf(SelectSeq(months, LAMBDA m : m.by # None), count)
    IN [i \in DOMAIN known |-> [at |-> known[i].at, value |-> fundValue(known[i], ids)]]
endOf(months, at) == {m \in ToSet(months) : m.at = at /\ m.by # None}
\* As a total over the window: its mean is this over Len(window).
fundGrowthOver(months, ids, window) ==
    IF window = <<>> THEN None
    ELSE LET base == endOf(months, window[1] - 1)
             end == endOf(months, window[Len(window)])
         IN IF base = {} \/ end = {} THEN None
            ELSE SumSet({fundValue(m, ids) : m \in end}) - SumSet({fundValue(m, ids) : m \in base})
recordThroughToday(history, anchor, today) ==
    Append(SelectSeq(history, LAMBDA m : m.at < anchor), [at |-> anchor, value |-> today])

-----------------------------------------------------------------------------
(* goalInputs.ts: what both pages stand on, from rows already loaded. *)

\* The months before `period`, and of those the ones the paces average, each
\* with its regular pay.
goalInputs(period, accounts, extraIds, flows, months) ==
    LET complete == SelectSeq(flows, LAMBDA r : r.at < period)
        spends == {a \in accounts : a.type # "INVESTMENT"}
        firsts == [id \in idsOf(spends) |-> (CHOOSE a \in spends : a.id = id).first]
        window == recentMonths([i \in DOMAIN complete |-> complete[i].at], firsts)
        flow == SelectSeq(complete, LAMBDA r : r.at \in ToSet(window.used))
    IN [window |-> window, nets |-> [i \in DOMAIN flow |-> flow[i].net + flow[i].regular],
        months |-> SelectSeq(months, LAMBDA m : m.at < period),
        cashFund |-> SetToSeq(idsOf({a \in accounts : countsAsCash(a, extraIds) \/ a.type = "CREDIT"}))]
=============================================================================
