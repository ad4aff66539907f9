------------------------------- MODULE Figures -------------------------------
(***************************************************************************)
(* The figures the screens print of one ledger: the stored insights        *)
(* (insights/spendingByCategory.ts, cashFlow.ts), the report of /trends    *)
(* (ui/report.ts), the ring (ui/spendingBreakdown.ts) and the totals of    *)
(* the list a figure links to (app/transactions/page.tsx,                  *)
(* ui/ledgerTotals.ts, repaid.ts, flowFilter.ts).  Each adds the same rows *)
(* up its own way.                                                         *)
(*                                                                         *)
(* A ledger is a set of rows [id, month, day, amount, flow, category, p2p, *)
(* merchant, account, links]; money is in cents, a category is a name,     *)
(* NoCategory none.  X_Fault is the form a plausible bug would give X.     *)
(***************************************************************************)
EXTENDS Stats, FiniteSets, FiniteSetsExt, Functions

CONSTANTS
    NoCategory, NoLink,
    IncomeCategories,
    MerchantRows,     \* MERCHANT_ROWS: groups a comparison names
    GroupLines,       \* GROUP_LINES: lines a chart draws
    MinShare,         \* in hundredths: the smallest slice of a ring
    MaxSlices         \* rows of its legend

sumOf(S, Op(_)) == MapThenSumSet(Op, S)

---------------------------------------------------------------------------
(* p2p.ts, insights/reimbursements.ts *)

Unreviewed == "p2p-unreviewed"
isUnreviewedP2P(t) ==
    t.category = NoCategory /\ t.links = NoLink /\ t.flow # "TRANSFER" /\ t.p2p

isReimbursement(t) ==
    /\ t.flow = "INFLOW"
    /\ t.links # NoLink \/ (t.category # NoCategory /\ t.category \notin IncomeCategories)

creditsLinkedRow(linked) == \E s \in linked : s.flow = "OUTFLOW"
linkedTo(t, rows) == {s \in rows : s.id = t.links}

\* Every reimbursement and the row it nets against: the expense, or itself.
reimbursementSources(rows) ==
    {LET linked == linkedTo(t, rows)
     IN [of |-> t.id, source |-> IF creditsLinkedRow(linked) THEN CHOOSE s \in linked : TRUE ELSE t,
         amount |-> t.amount] : t \in {r \in rows : isReimbursement(r)}}

relabelled(rows) ==
    {IF t.flow = "OUTFLOW" /\ isUnreviewedP2P(t) THEN [t EXCEPT !.category = Unreviewed] ELSE t : t \in rows}

---------------------------------------------------------------------------
(* insights/spendingByCategory.ts, cashFlow.ts: a month of stored insights *)

spent(rows, credits, category, month) ==
    sumOf({t \in rows : t.flow = "OUTFLOW" /\ t.month = month /\ t.category = category}, LAMBDA t : -t.amount)
    - sumOf({c \in credits : c.source.month = month /\ c.source.category = category}, LAMBDA c : c.amount)

spendingFor(rows, credits, month) ==
    LET named == {t.category : t \in {r \in rows : r.flow = "OUTFLOW" /\ r.month = month}}
                   \union {c.source.category : c \in {d \in credits : d.source.month = month}}
    IN [c \in named |-> spent(rows, credits, c, month)]

\* Relabelled before the totals or the credits read a category.
computeSpendingByCategory(rows, month) ==
    spendingFor(relabelled(rows), reimbursementSources(relabelled(rows)), month)

\* Spending after a day of the month, the one-off purchases and the categories
\* that are not everyday left out, a credit with the row it nets against.
NOT_EVERYDAY_CATEGORIES == {"Travel"}
NEVER_ONE_OFF_CATEGORIES == {"Rent & Housing"}
everyday_CreditsStay(source, id, oneOffs) ==
    /\ source.category \notin NOT_EVERYDAY_CATEGORIES
    /\ id \notin oneOffs \/ source.category \in NEVER_ONE_OFF_CATEGORIES
everyday(source, id, oneOffs) ==
    /\ source.category \notin NOT_EVERYDAY_CATEGORIES
    /\ source.id \notin oneOffs \/ source.category \in NEVER_ONE_OFF_CATEGORIES

everydayAfterDay(rows, credits, month, oneOffs, day) ==
    sumOf({t \in rows : t.flow = "OUTFLOW" /\ t.month = month /\ t.day > day /\ everyday(t, t.id, oneOffs)},
          LAMBDA t : -t.amount)
    - sumOf({c \in credits : c.source.month = month /\ c.source.day > day
                               /\ everyday(c.source, c.of, oneOffs)}, LAMBDA c : c.amount)

flowsFor(rows, month) ==
    LET plain == {t \in rows : t.flow # "TRANSFER" /\ ~isReimbursement(t) /\ t.month = month}
        back == {c \in reimbursementSources(rows) : c.source.month = month}
    IN [income |-> sumOf({t \in plain : t.flow = "INFLOW"}, LAMBDA t : t.amount),
        spending |-> sumOf({t \in plain : t.flow = "OUTFLOW"}, LAMBDA t : -t.amount)
                       - sumOf(back, LAMBDA c : c.amount)]

---------------------------------------------------------------------------
(* ui/report.ts: entries, and the three groupings of them *)

entry(id, t, measure, cents) ==
    [of |-> id, month |-> t.month, day |-> t.day, measure |-> measure, cents |-> cents,
     category |-> t.category, merchant |-> t.merchant, account |-> t.account]

buildEntries(book) ==
    LET rows == relabelled(book)
        income(t) == entry(t.id, IF isUnreviewedP2P(t) THEN [t EXCEPT !.category = Unreviewed] ELSE t,
                           "income", t.amount)
    IN {entry(t.id, t, "spending", -t.amount) : t \in {r \in rows : r.flow = "OUTFLOW"}}
       \union {income(t) : t \in {r \in rows : r.flow = "INFLOW" /\ ~isReimbursement(r)}}
       \union {entry(c.of, c.source, "spending", -c.amount) : c \in reimbursementSources(rows)}

cents(entries) == sumOf(entries, LAMBDA e : e.cents)
measured(entries, measure, months) == {e \in entries : e.measure = measure /\ e.month \in months}
grouped(entries, by) ==
    [k \in {e[by] : e \in entries} |-> cents({e \in entries : e[by] = k})]

\* compare: what changed between two spans, the groups past the cap in one.
moves(now, was) ==
    [k \in DOMAIN now \union DOMAIN was |->
        [current |-> IF k \in DOMAIN now THEN now[k] ELSE 0, prior |-> IF k \in DOMAIN was THEN was[k] ELSE 0]]
changed(m) == {k \in DOMAIN m : m[k].current # 0 \/ m[k].prior # 0}
mostMoved(m, keys, n) ==
    {k \in keys : Cardinality({j \in keys : abs(m[j].current - m[j].prior) > abs(m[k].current - m[k].prior)}) < n}

compareRows(m, named) ==
    [rows |-> [k \in named |-> m[k]],
     rest |-> [current |-> sumOf(changed(m) \ named, LAMBDA k : m[k].current),
               prior |-> sumOf(changed(m) \ named, LAMBDA k : m[k].prior)]]
\* `throughDay' stops both spans at a day of the month.
compare(entries, measure, by, current, prior, throughDay) ==
    LET until(months) == {e \in measured(entries, measure, months) : e.day <= throughDay}
        m == moves(grouped(until(current), by), grouped(until(prior), by))
        keys == changed(m)
        \* Ties past the cap go by label in the code; any of them will do here.
        some == CHOOSE s \in SUBSET mostMoved(m, keys, MerchantRows) : Cardinality(s) = MerchantRows
    IN [total |-> [current |-> cents(until(current)), prior |-> cents(until(prior))]]
       @@ compareRows(m, IF by = "merchant" /\ Cardinality(keys) > MerchantRows THEN some ELSE keys)

\* groupedSeries: the largest groups as lines, every other one in the rest; a
\* group that comes to nothing over the span is in neither, nor ranked.
groupedSeries(entries, measure, by, months) ==
    LET on == measured(entries, measure, months)
        groups == grouped(on, by)
        ranked == {k \in DOMAIN groups : groups[k] > 0}
        top == {k \in ranked : Cardinality({j \in ranked : groups[j] > groups[k]}) < GroupLines}
        \* Ties by label; fewer lines than the cap only when there are no more groups.
        lines == CHOOSE s \in SUBSET top : Cardinality(s) = smaller(GroupLines, Cardinality(ranked))
        inMonth(keys, m) == cents({e \in on : e.month = m /\ e[by] \in keys})
        shown == {k \in DOMAIN groups : groups[k] # 0}
        others == shown \ lines
    IN [groups |-> [k \in shown |-> groups[k]], total |-> cents(on),
        lines |-> [k \in lines |-> [m \in months |-> inMonth({k}, m)]],
        restByMonth |-> [m \in months |-> inMonth(others, m)],
        totalByMonth |-> [m \in months |-> cents({e \in on : e.month = m})]]

\* monthSoFar: running spending after each day.
running(entries, month, day) ==
    cents({e \in measured(entries, "spending", {month}) : e.day <= day})

---------------------------------------------------------------------------
(* ui/spendingBreakdown.ts *)

\* Floor every share, then the leftover points to the largest fractions; the
\* shares are parts of one whole, 0 for a category in credit.
wholePercents(parts, whole) ==
    LET floored == [i \in DOMAIN parts |-> (100 * parts[i]) \div whole]
        frac(i) == (100 * parts[i]) % whole
        left == 100 - total(floored)
        before(i) == {j \in DOMAIN parts : parts[j] > 0 /\
                        (frac(j) > frac(i) \/ (frac(j) = frac(i) /\ j < i))}
    IN [i \in DOMAIN parts |->
            floored[i] + IF parts[i] > 0 /\ Cardinality(before(i)) < left THEN 1 ELSE 0]

\* How many of the positive categories get a slice of their own.
namedCount(parts, whole) ==
    LET n == Len(parts)
        eligible == Cardinality({i \in DOMAIN parts : 100 * parts[i] >= MinShare * whole})
    IN IF n - eligible = 1 /\ eligible < MaxSlices THEN n
       ELSE IF n = eligible /\ eligible <= MaxSlices THEN eligible
       ELSE smaller(eligible, MaxSlices - 1)

sliced(ranked, spending, drawable, named) ==
    LET own == [i \in 1..named |-> [categories |-> {ranked[i]}, value |-> spending[ranked[i]]]]
        rest == {ranked[i] : i \in (named + 1)..Len(ranked)}
    IN IF rest = {} THEN own
       ELSE Append(own, [categories |-> rest, value |-> sumOf(rest, LAMBDA c : spending[c])])

\* The ring draws the categories with net spending; credits shrink the total.
ringOf(spending, ranked, drawable) ==
    [drawable |-> drawable, total |-> sumOf(DOMAIN spending, LAMBDA c : spending[c]),
     slices |-> IF drawable = 0 THEN <<>>
                ELSE sliced(ranked, spending, drawable,
                            namedCount([i \in DOMAIN ranked |-> spending[ranked[i]]], drawable))]
spendingBreakdown(spending) ==
    LET positive == {c \in DOMAIN spending : spending[c] > 0}
    IN ringOf(spending, SetToSortSeq(positive, LAMBDA a, b : spending[a] > spending[b]),
              sumOf(positive, LAMBDA c : spending[c]))

---------------------------------------------------------------------------
(* The list a figure links to, and what its rows add up to *)

\* ui/categoryFilter.ts: Uncategorized and unreviewed are both no category.
inCategory(t, c) ==
    CASE c = Unreviewed -> isUnreviewedP2P(t)
      [] c = NoCategory -> t.category = NoCategory /\ ~isUnreviewedP2P(t)
      [] OTHER -> t.category = c
matchesGroup(t, by, key) == IF by = "category" THEN inCategory(t, key) ELSE t[by] = key

\* ui/flowFilter.ts: the two figures, finished in memory.
flowFinish_OwnFlow(measure, t, rows) == t.flow = IF measure = "income" THEN "INFLOW" ELSE "OUTFLOW"
flowFinish(measure, t, rows) ==
    IF measure = "income" THEN t.flow = "INFLOW" /\ ~isReimbursement(t)
    ELSE t.flow = "OUTFLOW" \/ (isReimbursement(t) /\ ~creditsLinkedRow(linkedTo(t, rows)))

ledgerRows(rows, months, by, key, measure) ==
    {t \in rows : t.month \in months /\ matchesGroup(t, by, key) /\ flowFinish(measure, t, rows)}

\* ui/repaid.ts: what linked repayments the list does not show paid back.
repaidFromOutside(some, rows, listed) ==
    sumOf({r \in rows : r.flow = "INFLOW" /\ r \notin listed
              /\ \E t \in some : t.flow = "OUTFLOW" /\ t.id = r.links}, LAMBDA r : r.amount)

ledgerTotals(some, repaid) ==
    LET of(flow) == {t \in some : t.flow = flow}
        out == sumOf(of("OUTFLOW"), LAMBDA t : -t.amount)
        in == sumOf(of("INFLOW"), LAMBDA t : t.amount)
    IN [out |-> out, in |-> in, repaid |-> repaid, net |-> in + repaid - out,
        transfersIn |-> sumOf({t \in of("TRANSFER") : t.amount > 0}, LAMBDA t : t.amount),
        transfersOut |-> sumOf({t \in of("TRANSFER") : t.amount < 0}, LAMBDA t : -t.amount)]

band(some, rows, listed) == ledgerTotals(some, repaidFromOutside(some, rows, listed))
=============================================================================
