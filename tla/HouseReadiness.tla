---------------------------- MODULE HouseReadiness ----------------------------
(***************************************************************************)
(* House readiness: what price the declared fund and the observed budget   *)
(* support (readiness), from a rate the operator typed (set-readiness) or  *)
(* the index each sync fetches (mortgageRate).                             *)
(*                                                                         *)
(* Prices are whole thousands; the fund is in hundredths of one and a      *)
(* monthly amount in dollars, so that every product below is whole.  A     *)
(* month is [income, spent, housing].                                      *)
(***************************************************************************)
EXTENDS Outlook

CONSTANTS
    PaymentOf,          \* [rates -> a year's payment on a thousand borrowed, in dollars]
    PRICE_CAP,
    OBSERVATION_LOOKBACK,
    HouseMonths,        \* what the complete months may have been
    HouseFunds,
    FirstDeclared,      \* the Setting at first
    Terms,              \* flags other than the rate's: [floor, term, carry, pmi, closing, down], None: left out
    TypedRates,         \* --rate; None: left out
    TypedDates,         \* --as-of; None: left out
    Published,          \* [days -> the index that day; None: no release]
    HouseSyncs,         \* syncs that may be fetching at once
    LastDay, MaxFetches, MaxDeclared

VARIABLES
    houseMonths, houseFund,
    keyed,              \* whether FRED_API_KEY is set
    readiness,          \* the Setting: [terms, rate, asOf], Absent or Junk
    rates,              \* the Setting: [observation, failed], or Absent
    fetches,            \* [syncs -> what it read, and when, where it is fetching: [prior, began, overtaken]]
    rateRaced,              \* whether what is stored was written over what the writer had not read
    dayNow, counts,     \* [declared, fetched]
    shown               \* observations the panel could have drawn

hrvars == <<houseMonths, houseFund, keyed, readiness, rates, fetches, rateRaced, dayNow, counts, shown>>

HouseInit ==
    /\ houseMonths \in HouseMonths /\ houseFund \in HouseFunds
    /\ keyed \in BOOLEAN
    /\ readiness \in FirstDeclared /\ rates = Absent /\ fetches = [x \in HouseSyncs |-> None] /\ rateRaced = FALSE
    /\ dayNow = 1 /\ counts = [declared |-> 0, fetched |-> 0] /\ shown = {}

-----------------------------------------------------------------------------
(* readiness.ts *)

isRate(r) == r \in DOMAIN PaymentOf
\* The rate and its day are both there or both absent.
isStoredReadinessConfig(c) ==
    /\ \A f \in DOMAIN c.terms : c.terms[f] # None
    /\ (c.rate = None /\ c.asOf = None) \/ (c.rate # None /\ c.asOf # None /\ isRate(c.rate))
parseReadiness(s) == IF s = Absent \/ s = Junk THEN None ELSE s

\* What was typed, over whatever the index says.
resolveReadinessRate(c, observation) ==
    IF c.rate # None THEN [rate |-> c.rate, asOf |-> c.asOf, fetched |-> FALSE]
    ELSE IF observation = None THEN None
    ELSE [rate |-> observation.rate, asOf |-> observation.on, fetched |-> TRUE]

nonHousingSpending(m) == m.spent - m.housing

\* In the units of scaled(budget).  The fund pays closing first and the rest
\* is the down payment; insurance on the loan below the threshold.
monthlyPiti(price, t, rate, fund) ==
    LET down == larger(0, fund - price * t.closing)
        loan == larger(0, 100 * price - down)
    IN loan * PaymentOf[rate] + price * t.carry * 1000 + (IF down < price * t.down THEN loan * t.pmi * 10 ELSE 0)
scaled(budget) == 1200 * budget

\* By halving the interval the price is in.
paymentLimited(budget, t, rate, fund) ==
    LET fits(price) == monthlyPiti(price, t, rate, fund) <= scaled(budget)
        halved(r, k) == LET mid == (r.lo + r.hi) \div 2
                        IN IF r.hi - r.lo <= 1 THEN r ELSE IF fits(mid) THEN [r EXCEPT !.lo = mid] ELSE [r EXCEPT !.hi = mid]
    IN IF fits(PRICE_CAP) THEN PRICE_CAP
       ELSE FoldLeft(halved, [lo |-> 0, hi |-> PRICE_CAP], [k \in 1..12 |-> k]).lo

fundLimited(fund, t) == larger(0, fund \div (t.down + t.closing))
balanced(budget, t, rate) == scaled(budget) \div ((100 - t.down) * PaymentOf[rate] + t.carry * 1000)

assessReadiness(t, rate, fund, months) ==
    LET recent == lastOf(months, WINDOW_MONTHS)
        sum == total([i \in DOMAIN recent |-> recent[i].income - nonHousingSpending(recent[i])])
        budget == sum \div Len(recent) - t.floor
        base == [fundLimited |-> fundLimited(fund, t), budget |-> None, payLimited |-> None, binding |-> None,
                 balanced |-> None, needed |-> None, refusal |-> None]
        pays == paymentLimited(budget, t, rate, fund)
    IN IF Len(recent) < WINDOW_MIN_MONTHS THEN [base EXCEPT !.refusal = "TOO_FEW_MONTHS"]
       ELSE IF budget <= 0 THEN [base EXCEPT !.budget = budget, !.refusal = "FLOOR_EXCEEDS_RESIDUAL"]
       ELSE [base EXCEPT !.budget = budget, !.payLimited = pays,
                         !.binding = IF base.fundLimited <= pays THEN "FUND" ELSE "PAYMENT",
                         !.balanced = balanced(budget, t, rate),
                         !.needed = balanced(budget, t, rate) * (t.down + t.closing)]

-----------------------------------------------------------------------------
(* mortgageRate.ts, in a sync. *)

\* The newest release among the last days asked for.
pickLatestObservation(upTo) ==
    LET usable == {d \in DOMAIN Published : d <= upTo /\ d > upTo - OBSERVATION_LOOKBACK /\ Published[d] # None /\ isRate(Published[d])}
    IN IF usable = {} THEN None ELSE [rate |-> Published[Max(usable)], on |-> Max(usable)]

observationIn(s) == IF s = Absent THEN None ELSE s.observation

\* A fetch reads what is stored, asks, and writes: with no key, none of it.  A
\* sync that outlived its lease may be at it beside the next one.
FetchBegins(x) ==
    /\ keyed /\ counts.fetched < MaxFetches /\ fetches[x] = None
    /\ fetches' = [fetches EXCEPT ![x] = [prior |-> observationIn(rates), began |-> dayNow, overtaken |-> FALSE]]
    /\ counts' = [counts EXCEPT !.fetched = @ + 1]
    /\ UNCHANGED <<houseMonths, houseFund, keyed, readiness, rates, rateRaced, dayNow, shown>>

\* A failed fetch keeps the observation that stood when it began.
refreshed(prior, latest) ==
    IF latest = None THEN [observation |-> prior, failed |-> TRUE] ELSE [observation |-> latest, failed |-> FALSE]
written(x, latest) ==
    /\ rates' = refreshed(fetches[x].prior, latest)
    /\ rateRaced' = (fetches[x].overtaken \/ (rateRaced /\ latest = None))
    /\ fetches' = [y \in HouseSyncs |-> IF y = x \/ fetches[y] = None THEN None ELSE [fetches[y] EXCEPT !.overtaken = TRUE]]
    /\ shown' = IF observationIn(rates') = None THEN shown ELSE shown \union {observationIn(rates')}
FetchEnds(x, answers) ==
    /\ fetches[x] # None
    /\ \E upTo \in fetches[x].began..dayNow : written(x, IF answers THEN pickLatestObservation(upTo) ELSE None)
    /\ UNCHANGED <<houseMonths, houseFund, keyed, readiness, dayNow, counts>>
\* The sync is killed.
FetchKilled(x) ==
    /\ fetches[x] # None /\ fetches' = [fetches EXCEPT ![x] = None]
    /\ UNCHANGED <<houseMonths, houseFund, keyed, readiness, rates, rateRaced, dayNow, counts, shown>>

-----------------------------------------------------------------------------
(* scripts/set-readiness *)

\* The flags over what is stored; a rate typed with no day is today's.
merged(stored, ask) ==
    LET kept == IF stored = None THEN [terms |-> [f \in DOMAIN ask.terms |-> None], rate |-> None, asOf |-> None] ELSE stored
        terms == [f \in DOMAIN ask.terms |-> IF ask.terms[f] = None THEN kept.terms[f] ELSE ask.terms[f]]
    IN [terms |-> terms,
        rate |-> IF ask.fetched THEN None ELSE IF ask.rate # None THEN ask.rate ELSE kept.rate,
        asOf |-> IF ask.asOf # None THEN ask.asOf ELSE IF ask.fetched THEN None ELSE IF ask.rate # None THEN dayNow ELSE kept.asOf]
missingRate(stored, ask) ==
    merged(stored, ask).rate = None /\ ~ask.fetched /\ (IF stored = None THEN TRUE ELSE stored.rate # None)
refusesReadiness(stored, ask) ==
    \/ readiness = Junk
    \/ ask.rate # None /\ ~isRate(ask.rate)
    \/ ask.fetched /\ (ask.rate # None \/ ask.asOf # None)
    \/ ask.asOf # None /\ ask.rate = None /\ (IF stored = None THEN TRUE ELSE stored.rate = None)
    \/ ~isStoredReadinessConfig(merged(stored, ask)) \/ missingRate(stored, ask)

Declare(ask) ==
    LET stored == parseReadiness(readiness)
    IN /\ counts.declared < MaxDeclared /\ ~refusesReadiness(stored, ask)
       /\ readiness' = merged(stored, ask)
       /\ counts' = [counts EXCEPT !.declared = @ + 1]
       /\ UNCHANGED <<houseMonths, houseFund, keyed, rates, fetches, rateRaced, dayNow, shown>>
Clear ==
    /\ readiness # Absent /\ readiness' = Absent
    /\ counts.declared < MaxDeclared /\ counts' = [counts EXCEPT !.declared = @ + 1]
    /\ UNCHANGED <<houseMonths, houseFund, keyed, rates, fetches, rateRaced, dayNow, shown>>
NextDay ==
    /\ dayNow < LastDay /\ dayNow' = dayNow + 1
    /\ UNCHANGED <<houseMonths, houseFund, keyed, readiness, rates, fetches, rateRaced, counts, shown>>

ReadinessAsks == [terms : Terms, rate : TypedRates, asOf : TypedDates, fetched : BOOLEAN]
HouseNext ==
    \/ \E ask \in ReadinessAsks : Declare(ask)
    \/ Clear \/ NextDay
    \/ \E x \in HouseSyncs : FetchBegins(x) \/ (\E answers \in BOOLEAN : FetchEnds(x, answers)) \/ FetchKilled(x)

HouseSpec == HouseInit /\ [][HouseNext]_hrvars

\* Days are numbers; what is stored at first was stored by the script; an
\* observation is not the lack of one.
Observations == [rate : DOMAIN PaymentOf, on : DOMAIN Published]
ASSUME HouseAssumption ==
    /\ OBSERVATION_LOOKBACK \in Nat /\ \A d \in DOMAIN Published : d \in Int
    /\ \A d \in TypedDates \ {None} : d \in Int
    /\ \A c \in FirstDeclared \ {Absent, Junk} :
          isStoredReadinessConfig(c) /\ (c.asOf # None => c.asOf \in TypedDates \/ (c.asOf \in Int /\ c.asOf <= 1))
    /\ Absent \notin {refreshed(prior, latest) : prior, latest \in Observations \union {None}}

\* The panel, where a goal's fund stands behind it.
panel ==
    LET c == parseReadiness(readiness)
        r == IF c = None THEN None ELSE resolveReadinessRate(c, observationIn(rates))
    IN IF r = None THEN None
       ELSE [rate |-> r, says |-> assessReadiness(c.terms, r.rate, houseFund, houseMonths), terms |-> c.terms]

-----------------------------------------------------------------------------
\* The two ceilings are what they are said to be: at the price the fund covers
\* the down payment left by the closing costs reaches the threshold, and at no
\* higher one; every price up to the one the budget bears fits it and none
\* above does; the lower one binds; and they meet at the balanced price, which
\* the budget just bears once the fund is what is said to be needed there, and
\* which tells which of the two binds today.
CeilingsHold(p) ==
    LET t == p.terms r == p.rate.rate a == p.says
        uninsured(price) == houseFund - price * t.closing >= price * t.down
    IN /\ a.fundLimited > 0 => uninsured(a.fundLimited) /\ ~uninsured(a.fundLimited + 1)
       /\ a.payLimited # None =>
             /\ monthlyPiti(a.payLimited, t, r, houseFund) <= scaled(a.budget)
             /\ a.payLimited < PRICE_CAP => monthlyPiti(a.payLimited + 1, t, r, houseFund) > scaled(a.budget)
             /\ a.balanced < PRICE_CAP => paymentLimited(a.budget, t, r, a.needed) = a.balanced
             /\ fundLimited(a.needed, t) = a.balanced
             /\ a.payLimited < PRICE_CAP => (a.binding = "FUND" <=> a.fundLimited <= a.balanced)

\* A rate on the panel is never without its day: what the operator typed, on
\* the day given, which may be to come, or else one that has; or an observation
\* some fetch stored, whole, on the day it is of.  A failed fetch never takes the
\* last one away or back, unless it overlapped another, and then only until one
\* that overlapped none answers.
RateIsDated ==
    /\ panel # None => IF panel.rate.fetched THEN [rate |-> panel.rate.rate, on |-> panel.rate.asOf] \in shown
                       ELSE panel.rate.rate = readiness.rate /\ (panel.rate.asOf \in TypedDates \/ panel.rate.asOf <= dayNow)
    /\ readiness # Absent /\ readiness # Junk => isStoredReadinessConfig(readiness)
    /\ ~rateRaced /\ shown # {} => observationIn(rates) # None /\ \A o \in shown : o.on <= observationIn(rates).on
HouseKeepsItsWord ==
    RateIsDated /\ ((\A x \in HouseSyncs : fetches[x] = None) /\ panel # None => CeilingsHold(panel))

\* Stated, and not so: "a failed fetch must never cost the observation that
\* still stands" (mortgageRate.ts:64-65), but one that read before another
\* stored the first writes the lack of it back.
FailureKeepsTheRate == shown # {} => observationIn(rates) # None
=============================================================================
