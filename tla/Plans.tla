-------------------------------- MODULE Plans --------------------------------
(***************************************************************************)
(* Recurring plans: detected from the ledger's charges                     *)
(* (insights/recurring.ts), folded from their several descriptors          *)
(* (health/detectedSubscriptions.ts), asked about when a price rose or a   *)
(* charge went missing, and answered by the operator                       *)
(* (ui/recurringAlerts.ts, ui/recurringDecisions.ts), and projected as     *)
(* money already spoken for (health/commitments.ts).                       *)
(*                                                                         *)
(* Time is in days, money in dollars.  Every name is charged on one        *)
(* account.  An answer is a call that reads the plans and the whole of the *)
(* Setting, and later writes the whole of it back: other calls, charges    *)
(* and days come between.  X_Fault is the form a plausible bug would give  *)
(* X.                                                                      *)
(***************************************************************************)
EXTENDS Stats, FiniteSets, FiniteSetsExt

CONSTANTS
    Names,           \* merchant strings: a sequence, in order of length then alphabet
    Brand,           \* [Names -> leading word]
    Prices,
    Stride,          \* days between two moments the model looks at
    Histories, Began,   \* the charges there may already be, and the day the model begins
    LastDay, MaxCharges,   \* bounds
    Kept,            \* answers kept of a kind (KEPT, 40)
    Calls,           \* calls of decideRecurring, each made once at most
    Declared         \* [pattern: names it matches, expected, anchor]: a TrackedSubscription

ASSUME KeptAssumption == Kept \in Nat \ {0}

VARIABLES
    asOf,
    bills,      \* [Names -> Seq([at, amount])]: charges, oldest first
    through,    \* newest row of the account: how far its records reach
    decisions,  \* Setting recurring.decisions: [kind -> set of [names, lastDate, price, nth]]
    asks,       \* [Calls -> what a call has read, and what it is to write]
    answered    \* the answers that stand, with the plan's facts when each was read

pvars == <<asOf, bills, through, decisions, asks, answered>>

AnswerKinds == {"keep", "still", "cancel"}
NotMade == [choice |-> "not made"]
Ended == [choice |-> "ended"]
Underway == {c \in Calls : asks[c].choice \in AnswerKinds}

NameSet == Range(Names)
shorter(a, b) == \E i, j \in DOMAIN Names : i < j /\ Names[i] = a /\ Names[j] = b

---------------------------------------------------------------------------
(* insights/recurring.ts *)

MinOccurrences == 3
PriceNewsCharges == 3

\* CADENCE_BANDS, doubled as medians are: [min, max, days of a cycle].
bands == [WEEKLY |-> <<11, 17, 7>>, BIWEEKLY |-> <<24, 32, 14>>, MONTHLY |-> <<52, 70, 31>>,
          QUARTERLY |-> <<160, 200, 92>>, YEARLY |-> <<660, 800, 366>>]
cadencesOf(gap2) == {c \in DOMAIN bands : bands[c][1] <= gap2 /\ gap2 <= bands[c][2]}
longestGapDays(cadence) == bands[cadence][2] \div 2

amountsOf(rows) == [i \in DOMAIN rows |-> rows[i].amount]
gapsOf(rows) == [i \in 1 .. Len(rows) - 1 |-> rows[i + 1].at - rows[i].at]
nearMedian(gap, gap2) == 100 * abs(2 * gap - gap2) <= 45 * gap2
mostOf(s, near) == Cardinality({i \in DOMAIN s : s[i] \in near}) >= ceilOf(8 * Len(s), 10)
valuesOf(s) == {s[i] : i \in DOMAIN s}

\* shapeOf: the gates a series of charges passes; no cadence when one rejects it.
shapeOf(rows) ==
    IF Len(rows) < MinOccurrences THEN {}
    ELSE LET gap2 == median2(gapsOf(rows))
             amount2 == median2(amountsOf(rows))
         IN {c \in cadencesOf(gap2) :
                /\ mostOf(gapsOf(rows), {g \in valuesOf(gapsOf(rows)) : nearMedian(g, gap2)})
                /\ amount2 > 0
                /\ mostOf(amountsOf(rows), {a \in valuesOf(amountsOf(rows)) : 4 * abs(2 * a - amount2) <= amount2})}

\* priceRuns, the band in hundredths of a percent.
bandOf(amounts) ==
    LET steps == [i \in 1 .. Len(amounts) - 1 |->
                    (10000 * abs(amounts[i + 1] - amounts[i])) \div amounts[i]]
    IN IF steps = <<>> THEN 200 ELSE larger(200, median2(steps))
runFrom(amounts, end) ==
    Min({i \in 1 .. end : \A k \in i .. end :
            10000 * abs(amounts[k] - amounts[end]) <= bandOf(amounts) * amounts[end]})
priceRuns(amounts) ==
    LET i == runFrom(amounts, Len(amounts))
    IN [current |-> SubSeq(amounts, i, Len(amounts)),
        previous |-> IF i = 1 THEN <<>> ELSE SubSeq(amounts, runFrom(amounts, i - 1), i - 1)]

rowsOf(chain) == FlattenSeq([k \in DOMAIN chain |-> bills[chain[k]]])

\* continues: the same plan under a new descriptor.
continues(chain, name) ==
    LET rows == rowsOf(chain)
        before == median2(amountsOf(bills[Last(chain)]))
        after == median2(amountsOf(bills[name]))
        handover == bills[name][1].at - Last(rows).at
        joined == rows \o bills[name]
    IN /\ handover > 0
       /\ Brand[Last(chain)] = Brand[name]
       /\ 4 * abs(before - after) <= larger(before, after)
       /\ shapeOf(joined) # {}
       /\ nearMedian(handover, median2(gapsOf(joined)))

\* Each name joins the chain that ended last of those it continues.
withName(chains, name) ==
    LET open == {k \in DOMAIN chains : continues(chains[k], name)}
        latest == CHOOSE k \in open : \A j \in open :
                    Last(rowsOf(chains[j])).at <= Last(rowsOf(chains[k])).at
    IN IF open = {} THEN Append(chains, <<name>>)
       ELSE [chains EXCEPT ![latest] = Append(@, name)]

chainsNow ==
    FoldLeft(withName, <<>>,
        SetToSortSeq({n \in NameSet : bills[n] # <<>>}, LAMBDA a, b :
            \/ bills[a][1].at < bills[b][1].at
            \/ bills[a][1].at = bills[b][1].at /\ shorter(a, b)))

\* The payload of a chain that passes; some one name of it has to.
payloadOf(chain) ==
    LET amounts == amountsOf(rowsOf(chain))
        runs == priceRuns(amounts)
        was == median2(runs.previous)
        is == median2(runs.current)
    IN [merchant |-> Last(chain),
        cadence |-> CHOOSE c \in shapeOf(rowsOf(chain)) : TRUE,
        average |-> median2(amounts),
        lastDate |-> Last(rowsOf(chain)).at,
        price |-> is,
        priceIncreased |->
            /\ runs.previous # <<>>
            /\ Len(runs.current) <= PriceNewsCharges
            /\ 10000 * is > was * (10000 + bandOf(amounts))]
detectRecurringCharges ==
    {payloadOf(c) : c \in {c \in Range(chainsNow) :
        /\ shapeOf(rowsOf(c)) # {}
        /\ \E n \in Range(c) : shapeOf(bills[n]) # {}}}

---------------------------------------------------------------------------
(* health/detectedSubscriptions.ts *)

isActive(p, now) == now - p.lastDate <= 2 * bands[p.cadence][3]

missedCharge(p) == smaller(through, asOf) - p.lastDate > longestGapDays(p.cadence)

dedupeKey(c) == <<Brand[c.merchant], c.cadence, roundOf(c.average, 2)>>

\* The cleanest name and the newest charge's facts; a rise of any is kept.
mergeDetectedSubscriptions(charges) ==
    {LET same == {c \in charges : dedupeKey(c) = key}
         newest == CHOOSE c \in same : \A d \in same : d.lastDate <= c.lastDate
         members == {c.merchant : c \in same}
     IN [members |-> members, cadence |-> newest.cadence, average |-> newest.average,
         lastDate |-> newest.lastDate, price |-> newest.price,
         merchant |-> CHOOSE n \in members : \A m \in members \ {n} : shorter(n, m),
         priceIncreased |-> \E c \in same : c.priceIncreased]
     : key \in {dedupeKey(c) : c \in charges}}

\* projectNextPayment, from the last charge, past yesterday: the first whole
\* number of cycles.  A month is its usual thirty days here.
cycleDays == [WEEKLY |-> 7, BIWEEKLY |-> 14, MONTHLY |-> 30, QUARTERLY |-> 90, YEARLY |-> 365]
projectNextPayment(origin, cadence, now) ==
    origin + cycleDays[cadence] * larger(0, 1 + (now - origin) \div cycleDays[cadence])

---------------------------------------------------------------------------
(* ui/recurringDecisions.ts *)

reaches(d, p) == p.members \intersect d.names # {}
isCancelled(p) == \E d \in decisions.cancel : reaches(d, p) /\ p.lastDate <= d.lastDate
riseKept(p) == \E d \in decisions.keep : reaches(d, p) /\ d.price = p.price
missedNews(p) ==
    missedCharge(p) /\ ~\E d \in decisions.still : reaches(d, p) /\ d.lastDate = p.lastDate

plansNow == mergeDetectedSubscriptions(detectRecurringCharges)
livePlans == {p \in plansNow : isActive(p, asOf) /\ ~isCancelled(p)}

namesOf_Survivor(p) == {p.merchant}
namesOf(p) == p.members

\* remember: an answer about the same names replaces the older one, and of the
\* list, in the order it was answered, the last few are kept.
besides(list, d) == {x \in list : x.names \intersect d.names = {}}
atEnd(list, d) ==
    [names |-> d.names, lastDate |-> d.lastDate, price |-> d.price,
     nth |-> 1 + Max({0} \union {x.nth : x \in besides(list, d)})]
lengthened(list, d) == besides(list, d) \union {atEnd(list, d)}
remember(list, d) ==
    {x \in lengthened(list, d) : Cardinality({y \in lengthened(list, d) : y.nth > x.nth}) < Kept}
fallenAway(list, d) == lengthened(list, d) \ remember(list, d)

mayAnswer(choice, p) ==
    CASE choice = "keep" -> p.priceIncreased /\ ~riseKept(p)
      [] choice = "still" -> missedNews(p)
      [] choice = "cancel" -> TRUE

---------------------------------------------------------------------------
(* ui/recurringAlerts.ts, health/commitments.ts *)

alertsOf(p) ==
    IF missedNews(p) THEN {"Not charging"}
    ELSE IF p.priceIncreased /\ ~riseKept(p) THEN {"Price up"}
    ELSE {}

\* reconcileSubscription: the declared subscription's newest plausible charge.
declaredCharges == UNION {Range(bills[n]) : n \in Declared.pattern}
plausible == {c \in declaredCharges : abs(c.amount - Declared.expected) <= larger(Declared.expected \div 2, 1)}
declaredLast ==
    LET pool == IF plausible # {} THEN plausible ELSE declaredCharges
    IN {c \in pool : \A d \in pool : d.at <= c.at}

SpokenDays == 30
dueOf(p) == projectNextPayment(p.lastDate, p.cadence, asOf - 1)
silenced(p) == ~isActive(p, asOf) \/ missedCharge(p) \/ isCancelled(p)

detectedCommitments == {p \in plansNow : ~silenced(p) /\ dueOf(p) <= asOf + SpokenDays}

\* The declared one stands in for a service the detector does not list, unless
\* the detector stopped expecting it and nothing newer was found.
declaredCommitted ==
    LET from == IF declaredLast = {} THEN Declared.anchor ELSE (CHOOSE c \in declaredLast : TRUE).at
        quiet == {p \in plansNow : silenced(p) /\ p.merchant \in Declared.pattern}
    IN /\ ~\E p \in detectedCommitments : p.merchant \in Declared.pattern
       /\ quiet = {} \/ \E p \in quiet : \E c \in declaredLast : c.at > p.lastDate
       /\ projectNextPayment(from, "MONTHLY", asOf) <= asOf + SpokenDays

---------------------------------------------------------------------------

PlansInit ==
    /\ asOf = Began /\ through = Began
    /\ bills \in Histories
    /\ decisions = [k \in AnswerKinds |-> {}]
    /\ asks = [c \in Calls |-> NotMade]
    /\ answered = {}

DaysPass ==
    /\ asOf + Stride <= LastDay
    /\ asOf' = asOf + Stride
    /\ UNCHANGED <<bills, through, decisions, asks, answered>>

\* A sync or an import brings the charge of the day.
Charged(name, price) ==
    /\ MapThenSumSet(LAMBDA n : Len(bills[n]), NameSet) < MaxCharges
    /\ bills[name] # <<>> => Last(bills[name]).at < asOf
    /\ bills' = [bills EXCEPT ![name] = Append(@, [at |-> asOf, amount |-> price])]
    /\ through' = asOf
    /\ UNCHANGED <<asOf, decisions, asks, answered>>

\* Any other row of the account.
OtherRow ==
    /\ through # asOf
    /\ through' = asOf
    /\ UNCHANGED <<asOf, bills, decisions, asks, answered>>

\* decideRecurring reads the plans and the Setting, and refuses what is no news.
decideRecurring(c, choice, p) ==
    /\ asks[c] = NotMade
    /\ mayAnswer(choice, p)
    /\ LET d == [names |-> namesOf(p), lastDate |-> p.lastDate, price |-> p.price]
           fact == [choice |-> choice, names |-> p.members, lastDate |-> p.lastDate, price |-> p.price]
       IN asks' = [asks EXCEPT ![c] = [choice |-> choice, fact |-> fact, knew |-> answered,
                                       next |-> [decisions EXCEPT ![choice] = remember(@, d)],
                                       gone |-> fallenAway(decisions[choice], d)]]
    /\ UNCHANGED <<asOf, bills, through, decisions, answered>>

\* Its upsert writes the whole value.  What still stands: the new answer, and
\* of those it had read the ones it neither replaces nor cuts off the list.
DecisionsSaved(c) ==
    /\ c \in Underway
    /\ LET ask == asks[c]
           ended(a) == /\ a.choice = ask.choice
                       /\ \/ a.names \intersect ask.fact.names # {}
                          \/ \E x \in ask.gone : x.names = a.names
       IN /\ decisions' = ask.next
          /\ answered' = {a \in answered \intersect ask.knew : ~ended(a)} \union {ask.fact}
    /\ asks' = [asks EXCEPT ![c] = Ended]
    /\ UNCHANGED <<asOf, bills, through>>

\* A call is killed, or the database refuses its write.
DecisionLost(c) ==
    /\ c \in Underway
    /\ asks' = [asks EXCEPT ![c] = Ended]
    /\ UNCHANGED <<asOf, bills, through, decisions, answered>>

PlansNext ==
    \/ DaysPass
    \/ \E n \in NameSet, price \in Prices : Charged(n, price)
    \/ OtherRow
    \/ \E c \in Calls : \E p \in livePlans, choice \in AnswerKinds : decideRecurring(c, choice, p)
    \/ \E c \in Calls : DecisionsSaved(c) \/ DecisionLost(c)

PlansSpec == PlansInit /\ [][PlansNext]_pvars

\* An answered alert stays answered, however the plan's descriptors fold or
\* part afterwards, until a newer charge or a newer answer about one of its
\* names: what was cancelled does not come back, a kept price is not news, and
\* a plan said to be still active is not asked about again.  Only a call that
\* read the Setting before the answer was saved, and saves after it, or Kept
\* later ones of its kind, take it away.
AnswersHold ==
    \A a \in answered : \A p \in livePlans :
        p.members \subseteq a.names =>
            /\ a.choice = "cancel" => ~(p.lastDate <= a.lastDate)
            /\ a.choice = "keep" /\ p.price = a.price => "Price up" \notin alertsOf(p)
            /\ a.choice = "still" /\ p.lastDate = a.lastDate => "Not charging" \notin alertsOf(p)

\* An answer about one plan leaves every other answer in the Setting, unless
\* the list of its kind is full.
OtherAnswersStay ==
    [][ \A c \in Calls : DecisionsSaved(c) =>
          \A k \in AnswerKinds : \A d \in decisions[k] :
             \/ \E e \in decisions'[k] : e.names = d.names
             \/ d.names \intersect asks[c].fact.names # {}
             \/ Cardinality(decisions[k]) = Kept ]_pvars

\* What is called spoken for is money a biller still takes: a plan the
\* operator cancelled is not in it, nor is its declared twin in its place,
\* until something newer is charged.
CancelledNotDue ==
    \A a \in answered : a.choice = "cancel" =>
        \A p \in detectedCommitments : p.members \subseteq a.names => ~(p.lastDate <= a.lastDate)
TwinNotDue ==
    \A a \in answered : a.choice = "cancel" /\ a.names = Declared.pattern /\ declaredCommitted =>
        \E c \in declaredCharges : c.at > a.lastDate

\* An answer of the operator holds on the page and in the money spoken for.
AnswersKept == AnswersHold /\ CancelledNotDue /\ TwinNotDue
=============================================================================
