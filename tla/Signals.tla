------------------------------- MODULE Signals -------------------------------
(***************************************************************************)
(* What is unusual in a month (insights/anomalies.ts), the few things      *)
(* /insights leads with (insights/digest.ts), and the anomalies it lists   *)
(* below them (ui/insights.ts, getInsightsData), each finding once.        *)
(*                                                                         *)
(* The book is a sequence of Figures' rows, in whole dollars; a median is  *)
(* twice its size (Stats), and so is every stake.                          *)
(***************************************************************************)
EXTENDS Figures

CONSTANTS
    NoKey,
    SIGNAL_MONTH,       \* the month on screen
    HISTORY,            \* a sequence of rows of the months before
    COMPARABLE,         \* the sets of earlier months that may reach back over enough accounts
    PURCHASES,          \* rows that may come in this month
    CHARGES,            \* [merchant, perYear, increased, previous, last, fresh]
    MaxSignalRows, MaxDismissals   \* bounds

VARIABLES
    book,
    comparableMonths,   \* the earlier months that do
    hiddenSignals,      \* the anomalies dismissed, by their key
    dismissals          \* presses of it

sigvars == <<book, comparableMonths, hiddenSignals, dismissals>>

-----------------------------------------------------------------------------
(* insights/anomalies.ts *)

MIN_AMOUNT == 50
MIN_HISTORY == 5

\* (x - median) / (1.4826 * MAD) >= 3.5, the cap beyond it; half as much again
\* as typical; and more than 85 in a hundred of its history.
beyondSpread(x, m2, d2) == IF d2 = 0 THEN 2 * x # m2 ELSE 10000 * abs(2 * x - m2) >= 51891 * d2
fractionBelow(x, history) == (100 * Len(SelectSeq(history, LAMBDA v : v < x))) \div Len(history)
unusual(x, history, least) ==
    /\ x >= MIN_AMOUNT /\ Len(history) >= least
    /\ \A m2 \in {median2(history)} : beyondSpread(x, m2, mad2(history)) /\ 4 * x >= 3 * m2
    /\ fractionBelow(x, history) >= 85

\* A row with a category is compared with it, one without with its merchant's
\* rows, whatever their category.
sameBaseline(h, t) == IF t.category # NoCategory THEN h.category = t.category ELSE h.merchant = t.merchant
baselineOf(t) == IF t.category # NoCategory THEN <<"c", t.category>> ELSE <<"m", t.merchant>>
pastOf(s, t) == SelectSeq(s, LAMBDA h : h.flow = "OUTFLOW" /\ h.month < SIGNAL_MONTH /\ sameBaseline(h, t))
amounts(s) == [i \in DOMAIN s |-> -s[i].amount]

judged(s) == {t \in Range(s) : t.flow = "OUTFLOW" /\ t.month = SIGNAL_MONTH /\ ~isUnreviewedP2P(t)}
\* One per baseline: the furthest out, which is the largest.
outranks(t, u) == t.amount < u.amount \/ (t.amount = u.amount /\ t.id < u.id)
bestOf(found) == {t \in found : ~\E u \in found : baselineOf(u) = baselineOf(t) /\ outranks(u, t)}
detectTransactionAnomalies(s) ==
    {[kind |-> "TRANSACTION", key |-> <<"txn", t.id>>, category |-> t.category, amount |-> -t.amount,
      typical2 |-> median2(amounts(pastOf(s, t)))] :
        t \in bestOf({u \in judged(s) : unusual(-u.amount, amounts(pastOf(s, u)), MIN_HISTORY)})}

\* Net of what came back, against the months the category saw spending in.
netIn(s, credits, c, month) == spent(Range(s), credits, c, month)
activeMonths(s, credits, c) ==
    SelectSeq([m \in 1..(SIGNAL_MONTH - 1) |-> netIn(s, credits, c, m)], LAMBDA v : v > 0)
totalAnomaly(c, now, active) ==
    [kind |-> "CATEGORY_TOTAL", key |-> <<"cat", c>>, category |-> c, amount |-> now, typical2 |-> median2(active)]
detectCategoryTotalAnomalies(s) ==
    LET credits == reimbursementSources(Range(s))
        named == {t.category : t \in {u \in Range(s) : u.flow = "OUTFLOW" /\ u.category # NoCategory}}
    IN IF SIGNAL_MONTH - 1 < MIN_HISTORY - 1 THEN {}
       ELSE {totalAnomaly(c, netIn(s, credits, c, SIGNAL_MONTH), activeMonths(s, credits, c)) :
               c \in {d \in named : unusual(netIn(s, credits, d, SIGNAL_MONTH), activeMonths(s, credits, d), MIN_HISTORY - 1)}}

-----------------------------------------------------------------------------
(* insights/digest.ts *)

MIN_STAKE == 60
MAX_ITEMS == 4
MIN_CATEGORY_SAMPLES == 2
DRIFT_BASELINE_PERIODS == 12
PERIODS_PER_YEAR == 12

item(kind, key, amount, stake2) == [kind |-> kind, key |-> key, amount |-> amount, stake2 |-> stake2]

oneOffsIn(anomalies, c) ==
    sumOf({a \in anomalies : a.kind = "TRANSACTION" /\ a.category = c}, LAMBDA a : a.amount)
\* Without its one-offs, or a single purchase would be a trend as well.
driftDelta2(spending, baseline2, oneOffs) == 2 * (spending - oneOffs) - baseline2

driftPast(s, c) ==
    LET spentThen(m) == computeSpendingByCategory(Range(s), m)
        months == SetToSortSeq(comparableMonths, <)
        lived == SelectSeq(months, LAMBDA m : c \in DOMAIN spentThen(m) /\ spentThen(m)[c] > 0)
        past == SubSeq(lived, larger(1, Len(lived) - DRIFT_BASELINE_PERIODS + 1), Len(lived))
    IN [i \in DOMAIN past |-> spentThen(past[i])[c]]
drifts(s, anomalies, spending) ==
    LET oneOffs(c) == IF c = NoCategory THEN 0 ELSE oneOffsIn(anomalies, c)
        delta2(c, past) == IF Len(past) < MIN_CATEGORY_SAMPLES THEN 0
                           ELSE driftDelta2(spending[c], median2(past), oneOffs(c))
        rises == {<<c, delta2(c, driftPast(s, c))>> : c \in {d \in DOMAIN spending : spending[d] > 0 /\ d # Unreviewed}}
    IN {item("CATEGORY_DRIFT", <<"cat", r[1]>>, spending[r[1]], PERIODS_PER_YEAR * r[2]) : r \in {q \in rises : q[2] > 0}}

\* A rise of the price, or the whole of a plan just recognised.
recurringNews(r) ==
    IF r.increased /\ r.previous # NoKey
    THEN (IF r.last > r.previous THEN {item("PRICE_RISE", NoKey, r.last, 2 * (r.last - r.previous) * r.perYear)} ELSE {})
    ELSE IF r.fresh THEN {item("NEW_COMMITMENT", NoKey, r.last, 2 * r.last * r.perYear)} ELSE {}

digestItems(s, anomalies) ==
    drifts(s, anomalies, computeSpendingByCategory(Range(s), SIGNAL_MONTH))
    \union (UNION {recurringNews(r) : r \in CHARGES})
    \union {item("ONE_OFF", a.key, a.amount, 2 * a.amount) : a \in {b \in anomalies : b.kind = "TRANSACTION"}}

weighs(i, j) == i.stake2 > j.stake2 \/ (i.stake2 = j.stake2 /\ i.amount > j.amount)
leadsOf(items) ==
    LET worth == {i \in items : i.stake2 >= 2 * MIN_STAKE}
    IN CHOOSE S \in SUBSET worth : /\ Cardinality(S) = smaller(MAX_ITEMS, Cardinality(worth))
                                   /\ \A i \in S, j \in worth \ S : ~weighs(j, i)
computeDigest(s, anomalies) == leadsOf(digestItems(s, anomalies))

\* A total no higher than its median without the one-offs the digest leads with.
explainedByOneOffs_AnyTotal(anomalies, promoted) ==
    {a \in anomalies : a.kind = "CATEGORY_TOTAL"
        /\ \E b \in anomalies : b.kind = "TRANSACTION" /\ b.category = a.category /\ b.key \in promoted}
explainedByOneOffs(anomalies, promoted) ==
    LET led(c) == {b \in anomalies : b.kind = "TRANSACTION" /\ b.category = c /\ b.key \in promoted}
    IN {a \in anomalies : a.kind = "CATEGORY_TOTAL" /\ led(a.category) # {}
           /\ 2 * (a.amount - sumOf(led(a.category), LAMBDA b : b.amount)) <= a.typical2}

-----------------------------------------------------------------------------
(* ui/insights.ts: the page *)

anomaliesIn(s) == detectTransactionAnomalies(s) \union detectCategoryTotalAnomalies(s)

pageOf(s, anomalies, dismissed) ==
    [anomalies |-> anomalies, digest |-> computeDigest(s, {a \in anomalies : a.key \notin dismissed})]
promotedBy(page) == {i.key : i \in page.digest} \ {NoKey}
anomalyRows(page) ==
    {a \in page.anomalies : a.key \notin promotedBy(page)} \ explainedByOneOffs(page.anomalies, promotedBy(page))
signalsPage == pageOf(book, anomaliesIn(book), hiddenSignals)

-----------------------------------------------------------------------------
SignalsInit == comparableMonths \in COMPARABLE /\ book = HISTORY /\ hiddenSignals = {} /\ dismissals = 0

\* A sync brings a row, or the repayment of one of the month's.
Arrives(t) ==
    /\ Len(book) < Len(HISTORY) + MaxSignalRows /\ \A r \in Range(book) : r.id # t.id
    /\ t.links # NoLink => \E r \in Range(book) : r.id = t.links
    /\ book' = Append(book, t) /\ UNCHANGED <<comparableMonths, hiddenSignals, dismissals>>
\* The reader says what an unreviewed payment, or any row of no category, was.
Categorize(i, c) ==
    /\ book[i].month = SIGNAL_MONTH /\ book[i].category = NoCategory
    /\ book' = [book EXCEPT ![i].category = c] /\ UNCHANGED <<comparableMonths, hiddenSignals, dismissals>>
Dismiss(a) ==
    /\ dismissals < MaxDismissals /\ dismissals' = dismissals + 1
    /\ hiddenSignals' = (hiddenSignals \union {a.key}) \ (hiddenSignals \intersect {a.key})
    /\ UNCHANGED <<book, comparableMonths>>

SignalsNext ==
    \/ \E t \in PURCHASES : Arrives(t)
    \/ \E i \in DOMAIN book, c \in {t.category : t \in Range(HISTORY)} \ {NoCategory} : Categorize(i, c)
    \/ \E a \in anomaliesIn(book) : Dismiss(a)

-----------------------------------------------------------------------------
\* Nothing unusual and not dismissed goes untold or is told twice: it leads
\* the page, or has its row below, or, a category's total, is what one-offs the
\* page leads with spent there beyond its typical month.
UnusualToldOnce(page) ==
    \A a \in {b \in page.anomalies : b.key \notin hiddenSignals} :
        LET led == {i \in page.digest : i.kind = "ONE_OFF" /\ \E b \in page.anomalies : b.key = i.key /\ b.category = a.category}
            covered == a.kind = "CATEGORY_TOTAL" /\ 2 * (a.amount - sumOf(led, LAMBDA i : i.amount)) <= a.typical2
        IN IF a.key \in promotedBy(page) THEN a \notin anomalyRows(page) ELSE (a \in anomalyRows(page)) # covered
\* No purchase is both a one-off and part of a trend: a category's drift and
\* its one-offs come to no more than what it spent beyond a typical month.
NotBothOnceAndTrend(page) ==
    \A i \in {d \in page.digest : d.kind = "CATEGORY_DRIFT"} :
        LET c == i.key[2]
            once == {a \in page.anomalies : a.kind = "TRANSACTION" /\ a.category = c /\ a.key \notin hiddenSignals}
        IN c # NoCategory => i.stake2 \div PERIODS_PER_YEAR + 2 * sumOf(once, LAMBDA a : a.amount)
                               <= 2 * i.amount - median2(driftPast(book, c))
\* A baseline that is told of is told of by its largest row.
LargestIsTold(page) ==
    \A a \in {b \in page.anomalies : b.kind = "TRANSACTION"} : \E w \in judged(book) :
        a.key = <<"txn", w.id>> /\ \A t \in judged(book) : baselineOf(t) = baselineOf(w) => w.amount <= t.amount

\* What is unusual in a month is told, once, by the purchase that makes it so.
SignalsKeepTheirWord ==
    book # HISTORY => \A page \in {signalsPage} : UnusualToldOnce(page) /\ NotBothOnceAndTrend(page) /\ LargestIsTold(page)

\* Stated by the sources, and not so.  A dismissed anomaly is never suppressed
\* by the digest (ui/insights.ts:566-568): a category's drift, or a one-off that
\* explains its total, hides its row.
DismissedStayListed == \A page \in {signalsPage} : {a \in page.anomalies : a.key \in hiddenSignals} \subseteq anomalyRows(page)
\* A category whose rise the one-off explains is not drifting (digest.ts:199):
\* once the one-off is dismissed, its purchase is a trend for the year.
ExplainedIsNoDrift ==
    \A page \in {signalsPage} : \A i \in {d \in page.digest : d.kind = "CATEGORY_DRIFT" /\ d.key[2] # NoCategory} :
        2 * (i.amount - oneOffsIn(page.anomalies, i.key[2])) > median2(driftPast(book, i.key[2]))
=============================================================================
