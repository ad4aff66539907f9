-------------------------------- MODULE Budget --------------------------------
(***************************************************************************)
(* The budget (ui/budget.ts, app/budget, BudgetTable): a limit a category, *)
(* monthly or yearly, suggested from its own months unless the operator    *)
(* typed one, and the tabs it is typed in.                                 *)
(*                                                                         *)
(* A month is [at, by]: by gives each category what each of its days       *)
(* spent.  Amounts are dollars; the calendar is scaled down by constants.  *)
(***************************************************************************)
EXTENDS Stats, FiniteSets, FiniteSetsExt

CONSTANTS
    DAYS, YEAR,                 \* days in a month, months in a year
    WINDOW, YEARLY_WINDOW,      \* the months monthly and yearly limits are suggested from
    PACE_MIN_MONTHS, YEARLY_MIN_MONTHS,
    MAX_MONTHLY_LINES, RING_SLICES,
    STEP, YEARLY_STEP,          \* what suggestions round up to
    AHEAD_MIN, AHEAD_TENTHS,
    NOT_EVERYDAY,               \* the categories spent in bulk by nature
    Keys, Tabs, Records,        \* categories, tabs, the records of complete months
    Purchases, Limits,          \* [categories -> what is spent in one, or refunded], what is typed
    LastMonth, MaxSaves

VARIABLES record, day, spending, choices, page, saving, typedAs, saves

bvars == <<record, day, spending, choices, page, saving, typedAs, saves>>

Junk == [unreadable |-> [limit |-> -1, yearly |-> "default"]]     \* a Setting that does not parse
Idle == [step |-> "idle"]
NoChoice == [limit |-> -1, yearly |-> "default"]

-----------------------------------------------------------------------------
(* Suggestions: ui/budget.ts *)

now == record[Len(record)].at + 1
spendingOf(m, k) == IF k \in DOMAIN m.by THEN total(m.by[k]) ELSE 0
sumOver(months, k) == FoldLeft(LAMBDA s, m : s + spendingOf(m, k), 0, months)
lastMonths(size) == SubSeq(record, larger(1, Len(record) - size + 1), Len(record))
windowRows == lastMonths(WINDOW)
yearlyRows == lastMonths(YEARLY_WINDOW)
monthNow == [at |-> now, by |-> spending]
yearRows == Append(SelectSeq(record, LAMBDA m : m.at \div YEAR = now \div YEAR), monthNow)
ceilTo(n, d, step) == IF n <= 0 THEN 0 ELSE step * ceilOf(n, d * step)

names == (UNION {DOMAIN yearlyRows[i].by : i \in DOMAIN yearlyRows}) \union {k \in DOMAIN spending : spending[k] # <<>>}
activeMonths(k) == Len(SelectSeq(yearlyRows, LAMBDA m : spendingOf(m, k) > 0))
yearlyByDefault(k) ==
    \/ k \in NOT_EVERYDAY
    \/ Len(yearlyRows) >= YEARLY_MIN_MONTHS /\ activeMonths(k) > 0 /\ 3 * activeMonths(k) <= Len(yearlyRows)

parseBudget == IF choices = Junk THEN [k \in {} |-> NoChoice] ELSE choices
budgetChoice(all, k) == IF k \in DOMAIN all THEN all[k] ELSE NoChoice
isYearly(k) ==
    LET chosen == budgetChoice(parseBudget, k).yearly
    IN IF chosen = "default" THEN yearlyByDefault(k) ELSE chosen = "yes"

suggestedFor(k, yearly) ==
    IF yearly THEN ceilTo(sumOver(yearlyRows, k) * YEAR, Len(yearlyRows), YEARLY_STEP)
    ELSE ceilTo(median2([i \in DOMAIN windowRows |-> spendingOf(windowRows[i], k)]), 2, STEP)

\* The middle of its months' shares, in thousandths: what each had spent
\* through today over its whole.
throughDay_Before(days) == total(SubSeq(days, 1, day - 1))
throughDay(days) == total(SubSeq(days, 1, day))
typicalShare(k) ==
    LET told == SelectSeq(windowRows, LAMBDA m : k \in DOMAIN m.by /\ total(m.by[k]) > 0)
        share(m) == smaller(1000, larger(0, roundOf(1000 * throughDay(m.by[k]), total(m.by[k]))))
        shares == [i \in DOMAIN told |-> share(told[i])]
    IN IF Len(shares) < PACE_MIN_MONTHS THEN roundOf(1000 * day, DAYS) ELSE roundOf(median2(shares), 2)

statusOf(spent, limit, expected, yearly) ==
    IF spent > limit THEN "over"
    ELSE IF ~yearly /\ spent > expected + larger(AHEAD_MIN, (limit * AHEAD_TENTHS) \div 10) THEN "ahead" ELSE "on pace"

lineWith(k, yearly, suggested, limit, spent, expected) ==
    [key |-> k, yearly |-> yearly, byDefault |-> yearlyByDefault(k), limit |-> limit, suggested |-> suggested,
     typed |-> budgetChoice(parseBudget, k).limit # -1, spent |-> spent, expected |-> expected,
     status |-> statusOf(spent, limit, expected, yearly), folded |-> {}]
lineOn(k, yearly, suggested) ==
    LET typed == budgetChoice(parseBudget, k).limit
        limit == IF typed = -1 THEN suggested ELSE typed
    IN lineWith(k, yearly, suggested, limit,
                IF yearly THEN sumOver(yearRows, k) ELSE spendingOf(monthNow, k),
                IF yearly THEN roundOf(limit * (DAYS * (now % YEAR) + day), DAYS * YEAR)
                ELSE roundOf(limit * typicalShare(k), 1000))
lineOf(k) == lineOn(k, isYearly(k), suggestedFor(k, isYearly(k)))

lines == {l \in {lineOf(k) : k \in names} : l.limit # 0 \/ l.spent > 0 \/ l.typed}
byLimit(a, b) == a.limit > b.limit \/ (a.limit = b.limit /\ a.spent > b.spent)
sorted(some) == SortSeq(SetToSeq(some), byLimit)
limitsOf(s) == FoldLeft(LAMBDA n, l : n + l.limit, 0, s)
spentOf(s) == FoldLeft(LAMBDA n, l : n + l.spent, 0, s)
expectedOf(s) == FoldLeft(LAMBDA n, l : n + l.expected, 0, s)

\* The largest, and one line that adds up the rest.
otherLine(rest) ==
    [key |-> "other", yearly |-> FALSE, byDefault |-> FALSE, limit |-> limitsOf(rest), suggested |-> limitsOf(rest),
     typed |-> FALSE, spent |-> spentOf(rest), expected |-> expectedOf(rest),
     status |-> statusOf(spentOf(rest), limitsOf(rest), expectedOf(rest), FALSE),
     folded |-> {rest[i].key : i \in DOMAIN rest}]
foldMonthly(all) ==
    IF Len(all) <= MAX_MONTHLY_LINES THEN all
    ELSE Append(SubSeq(all, 1, MAX_MONTHLY_LINES - 1), otherLine(SubSeq(all, MAX_MONTHLY_LINES, Len(all))))

budgetOf(monthly, yearly) ==
    LET left == limitsOf(monthly) - spentOf(monthly)
    IN [monthly |-> foldMonthly(monthly), yearly |-> yearly, monthlyLimit |-> limitsOf(monthly),
        monthlySpent |-> spentOf(monthly), left |-> left,
        perDay |-> IF left > 0 THEN roundOf(left, DAYS - day + 1) ELSE -1,
        yearlySetAside |-> roundOf(limitsOf(yearly), YEAR)]
buildBudget == budgetOf(sorted({l \in lines : ~l.yearly}), sorted({l \in lines : l.yearly}))

\* The page's ring: the largest spenders, the rest, and what is left.
limitsRing(b) ==
    LET spent == SortSeq(SelectSeq(b.monthly, LAMBDA l : l.spent > 0), LAMBDA x, y : x.spent > y.spent)
        named == SubSeq(spent, 1, smaller(Len(spent), RING_SLICES))
        rest == SubSeq(spent, RING_SLICES + 1, Len(spent))
    IN [whole |-> larger(b.monthlyLimit, b.monthlySpent),
        values |-> [i \in DOMAIN named |-> named[i].spent] \o (IF rest = <<>> THEN <<>> ELSE <<spentOf(rest)>>)
                   \o (IF b.left > 0 THEN <<b.left>> ELSE <<>>)]

-----------------------------------------------------------------------------
(* An edit: withBudgetEdit, and the action that reads the Setting, applies it *)
(* and writes the whole of it back                                           *)

withLimit(choice, limit) == [choice EXCEPT !.limit = limit]
withYearly(choice, e) ==
    [limit |-> -1, yearly |-> IF e.yearly = e.byDefault THEN "default" ELSE IF e.yearly THEN "yes" ELSE "no"]

withBudgetEdit(all, e) ==
    LET was == budgetChoice(all, e.key)
        is == IF e.kind = "limit" THEN withLimit(was, e.limit) ELSE withYearly(was, e)
    IN IF is = NoChoice THEN [k \in DOMAIN all \ {e.key} |-> all[k]]
       ELSE [k \in DOMAIN all \union {e.key} |-> IF k = e.key THEN is ELSE all[k]]

\* A row's editor: the suggestion typed back follows the data again, and says
\* nothing when it was followed already.
limitEdit(l, typed) ==
    [kind |-> "limit", key |-> l.key, limit |-> IF typed = l.suggested THEN -1 ELSE typed, yearly |-> l.yearly, byDefault |-> l.byDefault]
yearlyEdit(l) == [kind |-> "yearly", key |-> l.key, limit |-> -1, yearly |-> ~l.yearly, byDefault |-> l.byDefault]
editsOn(l) ==
    {limitEdit(l, n) : n \in {x \in Limits \union {l.suggested} : x # l.suggested \/ l.typed}} \union {yearlyEdit(l)}
\* What a row's editor was drawn with; the folded row has none.
rowsOf(b) ==
    {[key |-> l.key, yearly |-> l.yearly, byDefault |-> l.byDefault, suggested |-> l.suggested, typed |-> l.typed] :
        l \in {x \in ToSet(b.monthly) \union ToSet(b.yearly) : x.folded = {}}}

Load(t) ==
    /\ page[t] = {} /\ page' = [page EXCEPT ![t] = rowsOf(buildBudget)]
    /\ UNCHANGED <<record, day, spending, choices, saving, typedAs, saves>>

Press(t) ==
    /\ saving[t] = Idle /\ saves < MaxSaves /\ saves' = saves + 1
    /\ \E l \in page[t] : \E e \in editsOn(l) : saving' = [saving EXCEPT ![t] = [step |-> "sent", edit |-> e]]
    /\ UNCHANGED <<record, day, spending, choices, page, typedAs>>

SaveRead(t) ==
    /\ saving[t].step = "sent"
    /\ saving' = [saving EXCEPT ![t] = IF choices = Junk THEN Idle ELSE [step |-> "read", edit |-> @.edit, read |-> choices]]
    /\ UNCHANGED <<record, day, spending, choices, page, typedAs, saves>>

\* What was meant by a limit: the unit its page showed, and whether the page
\* still said what the Setting and the data did.
meant(e, read) ==
    IF e.kind = "yearly" THEN typedAs
    ELSE (e.key :> [yearly |-> e.yearly, byDefault |-> e.byDefault,
                    fresh |-> budgetChoice(read, e.key).yearly = IF e.yearly = e.byDefault THEN "default" ELSE IF e.yearly THEN "yes" ELSE "no"])
         @@ typedAs

SaveWrite(t) ==
    /\ saving[t].step = "read"
    /\ choices' = withBudgetEdit(saving[t].read, saving[t].edit)
    /\ typedAs' = meant(saving[t].edit, saving[t].read)
    /\ saving' = [saving EXCEPT ![t] = Idle]
    /\ page' = [page EXCEPT ![t] = {}]
    /\ UNCHANGED <<record, day, spending, saves>>

SaveFails(t) ==
    /\ saving[t].step # "idle"
    /\ saving' = [saving EXCEPT ![t] = Idle]
    /\ UNCHANGED <<record, day, spending, choices, page, typedAs, saves>>

-----------------------------------------------------------------------------
(* Time and spending: a category is spent in once a month at most, or nets a refund *)

Spend(k, amount) ==
    /\ spending[k] = <<>>
    /\ spending' = [spending EXCEPT ![k] = [i \in 1..day |-> IF i = day THEN amount ELSE 0]]
    /\ UNCHANGED <<record, day, choices, page, saving, typedAs, saves>>

filled(days) == [i \in 1..DAYS |-> IF i <= Len(days) THEN days[i] ELSE 0]
NextDay ==
    /\ IF day < DAYS THEN day' = day + 1 /\ UNCHANGED <<record, spending>>
       ELSE /\ now < LastMonth /\ day' = 1
            /\ record' = Append(record, [at |-> now, by |-> [k \in {x \in Keys : spending[x] # <<>>} |-> filled(spending[k])]])
            /\ spending' = [k \in Keys |-> <<>>]
    /\ UNCHANGED <<choices, page, saving, typedAs, saves>>

BudgetInit ==
    /\ record \in Records /\ day = 1 /\ spending = [k \in Keys |-> <<>>]
    /\ choices \in {Junk, [k \in {} |-> NoChoice]}
    /\ page = [t \in Tabs |-> {}] /\ saving = [t \in Tabs |-> Idle] /\ typedAs = [k \in {} |-> NoChoice] /\ saves = 0

BudgetNext ==
    \/ NextDay
    \/ \E k \in DOMAIN Purchases : \E n \in Purchases[k] : Spend(k, n)
    \/ \E t \in Tabs : Load(t) \/ Press(t) \/ SaveRead(t) \/ SaveWrite(t) \/ SaveFails(t)

-----------------------------------------------------------------------------

\* The lines shown add up to the headline whatever was folded, no more of them
\* than are named, and the ring to the larger of its two figures and what came
\* back under the lines in credit, which it does not draw (budget.ts:146-151,
\* app/budget/page.tsx:88-106).
credits(b) == spentOf(SelectSeq(b.monthly, LAMBDA l : l.spent < 0))
AddsUp(b) ==
    /\ limitsOf(b.monthly) = b.monthlyLimit /\ spentOf(b.monthly) = b.monthlySpent
    /\ Len(b.monthly) <= MAX_MONTHLY_LINES
    /\ total(limitsRing(b).values) = limitsRing(b).whole - credits(b)

\* A yearly fund's spending never touches the headline (budget.ts:11-16): it is
\* what the monthly categories spent, but for those in credit with nothing to
\* budget, which have no line (budget.ts:302).
spentMonthly(some) == MapThenSumSet(LAMBDA k : IF isYearly(k) THEN 0 ELSE spendingOf(monthNow, k), some)
HeadlineIsMonthly(b) ==
    LET dropped == {k \in names : spendingOf(monthNow, k) < 0 /\ lineOf(k).limit = 0 /\ ~lineOf(k).typed}
    IN b.monthlySpent = spentMonthly(Keys \ dropped)

\* A month over, its whole record is behind it: on the last day nothing that
\* fits its limit is ahead of pace (budget.ts:203-223).
LastDayIsWhole(b) == day = DAYS => \A i \in DOMAIN b.monthly : b.monthly[i].status # "ahead"

\* A typed limit is read in the unit it was typed in, if its page was no older
\* than the last switch and the category's default has not moved since
\* (budget.ts:87-91).
LimitInItsUnit ==
    choices # Junk =>
        \A k \in DOMAIN choices \intersect DOMAIN typedAs :
            choices[k].limit # -1 /\ typedAs[k].fresh /\ typedAs[k].byDefault = yearlyByDefault(k) =>
                isYearly(k) = typedAs[k].yearly

BudgetKeepsItsWord ==
    /\ LimitInItsUnit
    /\ \A b \in {buildBudget} : AddsUp(b) /\ HeadlineIsMonthly(b) /\ LastDayIsWhole(b)

\* Stated, and not so: the default moves with the months, and a tab can be
\* older than another's switch.
TypedUnitHolds ==
    choices # Junk =>
        \A k \in DOMAIN choices \intersect DOMAIN typedAs : choices[k].limit # -1 => isYearly(k) = typedAs[k].yearly

\* Stated, and not so: two tabs saving at once keep one edit (actions.ts:10-14).
EditTouchesOne ==
    [][choices' # choices => \E e \in {saving[t].edit : t \in {u \in Tabs : saving[u].step = "read"}} :
            \A k \in Keys \ {e.key} : budgetChoice(choices', k) = budgetChoice(choices, k)]_bvars

\* Stated, and not so: with no more lines than are named, a category new this
\* month reads as over a limit nobody set (budget.ts:149-151).
NewIsNeverOver ==
    \A b \in {buildBudget} : \A i \in DOMAIN b.monthly :
        b.monthly[i].limit = 0 /\ ~b.monthly[i].typed => b.monthly[i].status # "over"

\* Stated, and not so: "the ring is the month's limits: each category's
\* spending a slice", "what is left drawn as empty" (app/budget/page.tsx:83-86);
\* with a category in credit its slices come to more than the whole.
RingIsTheLimits == \A b \in {buildBudget} : total(limitsRing(b).values) = limitsRing(b).whole

\* Stated, and not so: "every figure is the analyzers' own" (budget.ts:18-19);
\* a category in credit with nothing to budget is not in the headline.
HeadlineIsTheMonth == \A b \in {buildBudget} : b.monthlySpent = spentMonthly(Keys)
=============================================================================
