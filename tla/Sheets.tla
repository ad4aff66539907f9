-------------------------------- MODULE Sheets --------------------------------
(***************************************************************************)
(* The pure algorithms, each run once on a small input beside what it      *)
(* promises: the overlap match, the statement readers, the figures.  A     *)
(* sheet names the algorithm it is for and holds its input.                *)
(***************************************************************************)
EXTENDS Overlap, Statements, Figures

CONSTANTS
    Unread,        \* the verdict before the algorithm runs
    Nearness,      \* --match-days of the overlap sheets
    Printed(_, _)  \* the file a bank prints of its rows and a scanner mishandles

VARIABLES sheet, verdict

sheetVars == <<sheet, verdict>>

Reads(of, result) ==
    /\ sheet.of = of /\ verdict = Unread
    /\ verdict' = result
    /\ UNCHANGED sheet

MatchOverlap == Reads("overlap", matchOverlap(sheet.incoming, sheet.stored, Nearness, 2))

ReadStatement == Reads("statement", readStatement(Printed(sheet.truth, sheet.mishaps)))

\* Every screen's sums of one ledger.
DrawFigures ==
    LET rows == sheet.rows
        credits == reimbursementSources(relabelled(rows))
    IN Reads("ledger",
        [entries |-> buildEntries(rows),
         stored |-> [m \in sheet.months |-> computeSpendingByCategory(rows, m)],
         flows |-> [m \in sheet.months |-> flowsFor(rows, m)],
         everyday |-> [m \in sheet.months |-> [d \in 0..2 |->
                        everydayAfterDay(relabelled(rows), credits, m, sheet.oneOffs, d)]]])

SheetsNext == MatchOverlap \/ ReadStatement \/ DrawFigures

read(of) == sheet.of = of /\ verdict # Unread

-----------------------------------------------------------------------------
(* Overlap *)

\* The most rows that can each have a stored row of their own.
MostMatched ==
    LET pairings == {M \in SUBSET (sheet.incoming \X sheet.stored) :
            /\ \A m \in M : near(m[1], m[2], Nearness)
            /\ \A m, n \in M : m # n => m[1] # n[1] /\ m[2] # n[2]}
    IN CHOOSE n \in 0..Cardinality(sheet.incoming) :
            /\ \E M \in pairings : Cardinality(M) = n
            /\ \A M \in pairings : Cardinality(M) <= n

\* "Only the surplus over what is stored counts as missing" and "a guessed
\* row is worse than a reported one" (overlap.ts): no more rows are added than
\* can have no stored row of their own, and when rows of different days
\* compete, the whole surplus of them is reported and none is added.
OnlySurplusAdded ==
    read("overlap") =>
        /\ Cardinality({k \in DOMAIN verdict : isAdded(verdict[k])})
              <= Cardinality(sheet.incoming) - MostMatched
        /\ \A a, b \in sheet.incoming, s \in sheet.stored :
              near(a, s, Nearness) /\ near(b, s, Nearness) /\ a.day # b.day
                 => ~isAdded(verdict[a.key])

-----------------------------------------------------------------------------
(* Statements *)

bagOf(rows) ==
    [r \in {<<x.date, x.amount>> : x \in Range(rows)} |->
        Cardinality({i \in DOMAIN rows : <<rows[i].date, rows[i].amount>> = r})]

\* The rows whose post date the scan spoiled, or dropped; the trans date the
\* scan left beside it.
spoiled == {m[2][1] : m \in {x \in sheet.mishaps : x[1] = "post"}}
dropped == {m[2][1] : m \in {x \in sheet.mishaps : x[1] = "post" /\ x[2][2] = <<>>}}
transRead(i) == LET left == {m[2][2] : m \in {x \in sheet.mishaps : x[1] = "trans" /\ x[2][1] = i}}
                IN exact(IF left = {} THEN sheet.truth.rows[i].trans ELSE CHOOSE d \in left : TRUE)
transDays(p) == {rowDate(d, p) : d \in UNION {transRead(j) : j \in spoiled}}

\* "The file either reads whole or is refused" (pdf/read.ts, statement.ts): a
\* row dropped, a page lost, an amount read against the wrong column, row or
\* section, a digit of a date spoiled: no statement that passed its checks
\* holds other rows or other amounts than the bank printed, nor other dates but
\* for a late posting's, which counts from the day its statement opens, and
\* those of card rows whose post date did not read: such a row bears that date
\* all the same, or the trans date of such a row, its own or the one it was
\* listed over ("the row is dated by its trans date instead",
\* wellsFargoCard.ts).  Where a post date is missing whole, a spoiled row may
\* bear any day of the statement's as well.
AcceptedIsTrue ==
    LET truth == sheet.truth.rows
        counts(p, day) == IF day < p.start - LatePostingDays THEN p.start ELSE day
        mayBear(p, i) == {truth[i].date} \union transDays(p)
                             \union (IF dropped = {} THEN {} ELSE (p.start - 1)..p.end)
        dayings(p) == {d \in [spoiled -> {x.date : x \in Range(p.rows)}] :
                        \A i \in spoiled : \E day \in mayBear(p, i) : d[i] = counts(p, day)}
        kept(p, d) == [i \in DOMAIN truth |->
            [truth[i] EXCEPT !.date = IF i \in spoiled THEN d[i] ELSE counts(p, @)]]
    IN read("statement") => \A p \in verdict : \E d \in dayings(p) : bagOf(p.rows) = bagOf(kept(p, d))

\* "So this reads post dates only" (wellsFargoCard.ts, of the digit it
\* mends): every date of an accepted card statement is one it prints, or an
\* end of its period.  Refuted: with the post date missing whole, a trans date
\* of the month before is mended into a day of this one.
DatesArePrinted ==
    LET truth == sheet.truth.rows
        on(p) == {p.start, p.end} \union transDays(p) \union {truth[i].date : i \in DOMAIN truth}
                 \union {rowDate(truth[i].trans, p) : i \in {j \in DOMAIN truth : truth[j].trans # <<>>}}
    IN read("statement") /\ sheet.truth.layout = "wells-fargo-card" =>
        \A p \in verdict : \A x \in Range(p.rows) : x.date \in on(p)

-----------------------------------------------------------------------------
(* Figures *)

Spans == {{m} : m \in sheet.months} \union {sheet.months}
Groupings == {"category", "merchant", "account"}
Measures == {"spending", "income"}
figureOf(measure, months) == cents(measured(verdict.entries, measure, months))

\* A month costs, and earns, the same wherever it is printed: "the two cannot
\* drift" (ui/report.ts, report.test.ts).
ViewsAgree ==
    \A m \in sheet.months :
        /\ figureOf("spending", {m}) = sumOf(DOMAIN verdict.stored[m], LAMBDA c : verdict.stored[m][c])
        /\ figureOf("spending", {m}) = verdict.flows[m].spending
        /\ figureOf("income", {m}) = verdict.flows[m].income
        /\ running(verdict.entries, m, 31) = figureOf("spending", {m})
        /\ \A c \in DOMAIN verdict.stored[m] :
              verdict.stored[m][c] = cents({e \in measured(verdict.entries, "spending", {m}) : e.category = c})

\* "The rows still add up to the total": a comparison's groups and the ones it
\* folds; a chart's groups over the whole span; and its lines with the rest of
\* each month, but for the groups that come to nothing over the span, which are
\* in no line and in no rest while their months count in the total.
canceled(measure, by, months) ==
    LET on == measured(verdict.entries, measure, months)
        groups == grouped(on, by)
    IN {e \in on : groups[e[by]] = 0}
chartRest(g, m) == g.restByMonth[m] + sumOf(DOMAIN g.lines, LAMBDA k : g.lines[k][m])

GroupsAddUp ==
    \A measure \in Measures, by \in Groupings :
        /\ \A m \in sheet.months :
              LET c == compare(verdict.entries, measure, by, {m}, sheet.months \ {m}, 31)
              IN /\ c.total.current = sumOf(DOMAIN c.rows, LAMBDA k : c.rows[k].current) + c.rest.current
                 /\ c.total.prior = sumOf(DOMAIN c.rows, LAMBDA k : c.rows[k].prior) + c.rest.prior
        /\ LET g == groupedSeries(verdict.entries, measure, by, sheet.months)
               gone == canceled(measure, by, sheet.months)
           IN /\ g.total = sumOf(DOMAIN g.groups, LAMBDA k : g.groups[k])
              /\ g.total = sumOf(sheet.months, LAMBDA m : chartRest(g, m))
              /\ \A m \in sheet.months :
                    g.totalByMonth[m] - chartRest(g, m) = cents({e \in gone : e.month = m})

\* "The drawn lines plus the rest add up month by month" (ui/report.test.ts).
\* Refuted: a refund of a whole purchase that joins a group with no other row
\* cancels it over the span, and it is in neither.
ChartAddsUp ==
    read("ledger") => \A measure \in Measures, by \in Groupings :
        LET g == groupedSeries(verdict.entries, measure, by, sheet.months)
        IN \A m \in sheet.months : g.totalByMonth[m] = chartRest(g, m)

\* The ring's slices are every category with net spending, once each, and its
\* percentages one whole; its total is the month's.
RingWhole ==
    \A m \in sheet.months :
        LET ring == spendingBreakdown(verdict.stored[m])
            parts == [i \in DOMAIN ring.slices |-> ring.slices[i].value]
            drawn == {c \in DOMAIN verdict.stored[m] : verdict.stored[m][c] > 0}
        IN /\ ring.total = verdict.flows[m].spending
           /\ total(parts) = ring.drawable
           /\ UNION {ring.slices[i].categories : i \in DOMAIN parts} = drawn
           /\ \A i, j \in DOMAIN parts : i # j => ring.slices[i].categories \cap ring.slices[j].categories = {}
           /\ Len(parts) <= MaxSlices
           /\ drawn # {} => total(wholePercents(parts, ring.drawable)) = 100
           /\ \A i \in DOMAIN parts :
                abs(ring.drawable * wholePercents(parts, ring.drawable)[i] - 100 * parts[i]) < ring.drawable

\* The list a figure opens adds up to it to the cent, whatever the group, the
\* repayments it does not show netted (ui/report.ts, ui/flowFilter.ts); its
\* pages add up to it (ui/ledgerTotals.ts).
ListAddsUp ==
    \A measure \in Measures, by \in Groupings, months \in Spans :
        LET figures == groupedSeries(verdict.entries, measure, by, months).groups
        IN \A key \in DOMAIN figures :
             LET view == ledgerRows(sheet.rows, months, by, key, measure)
             IN /\ band(view, sheet.rows, view).net
                     = IF measure = "income" THEN figures[key] ELSE -figures[key]
                /\ \A page \in SUBSET view :
                     band(view, sheet.rows, view).net
                       = band(page, sheet.rows, view).net + band(view \ page, sheet.rows, view).net

FiguresAgree == read("ledger") => ViewsAgree /\ GroupsAddUp /\ RingWhole /\ ListAddsUp

\* What is left of a month is never below nothing because of a repayment of a
\* bill that is not in it ("a month ... read below zero", spendingByCategory.ts).
EverydayNotNegative ==
    LET paid == {t \in sheet.rows : isReimbursement(t)}
        \* Every repayment is of one expense, which it and its like do not outgrow.
        paidBack(s) == sumOf({t \in paid : s \in linkedTo(t, sheet.rows)}, LAMBDA t : t.amount)
    IN read("ledger")
          /\ (\A t \in paid : \E s \in linkedTo(t, sheet.rows) : s.flow = "OUTFLOW")
          /\ (\A s \in sheet.rows : s.flow = "OUTFLOW" => paidBack(s) <= -s.amount)
        => \A m \in sheet.months, d \in 0..2 : verdict.everyday[m][d] >= 0

\* The views of one ledger tell one story (lib/ui, spendingByCategory.ts).
FiguresTellTheLedger == FiguresAgree /\ EverydayNotNegative
=============================================================================
