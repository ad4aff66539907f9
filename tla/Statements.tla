----------------------------- MODULE Statements -----------------------------
(***************************************************************************)
(* Reading one PDF statement (connectors/pdf): a layout makes rows of the  *)
(* page's lines, and the file is accepted only when every statement in it  *)
(* adds up to its printed balances and totals.                             *)
(*                                                                         *)
(* A line is a record naming what the layout recognises it as; an amount   *)
(* is in cents and NoMoney where the text gave none; a place on the page   *)
(* is a number of points.  A parse is the set of statements it returns,    *)
(* none when it throws.  X_Fault is the form a plausible bug would give X. *)
(***************************************************************************)
EXTENDS Stats, FiniteSets, FiniteSetsExt, Functions

CONSTANTS NoMoney, NoSection, Smudge

---------------------------------------------------------------------------
(* statement.ts: what every layout returns, and whether it adds up *)

covered(rows, S) == FoldFunctionOnSet(+, 0, [i \in DOMAIN rows |-> rows[i].amount], S)

check(S, printed) == [rows |-> S, printed |-> printed, signed |-> FALSE]
change(S, printed) == [rows |-> S, printed |-> printed, signed |-> TRUE]

agrees(rows, c) ==
    IF c.signed THEN covered(rows, c.rows) = c.printed
    ELSE abs(covered(rows, c.rows)) = abs(c.printed)

reconciles_BalanceOnly(p) ==
    covered(p.rows, DOMAIN p.rows) = p.closing - p.opening - p.market
\* The opening balance and every row make the closing one, and every printed
\* total matches the rows it covers.
reconciles(p) ==
    /\ covered(p.rows, DOMAIN p.rows) = p.closing - p.opening - p.market
    /\ \A c \in p.checks : agrees(p.rows, c)

LatePostingDays == 7

\* A row dated long before its statement opens moves to the opening day.
settleLatePostings(p) ==
    [p EXCEPT !.rows = [i \in DOMAIN p.rows |->
        IF p.rows[i].date < p.start - LatePostingDays
          THEN [p.rows[i] EXCEPT !.date = p.start] ELSE p.rows[i]]]

---------------------------------------------------------------------------
(* layouts/chaseCard.ts *)

\* The lines of the activity table: after its header, before the year's totals.
chaseTable(lines) ==
    {i \in DOMAIN lines :
        /\ \E h \in 1..(i - 1) : lines[h].kind = "header"
        /\ \A t \in 1..i : lines[t].kind # "totals"}

headingOver(lines, table, i) ==
    LET above == {h \in table : h < i /\ lines[h].kind = "heading"}
    IN IF above = {} THEN NoSection ELSE lines[Max(above)].section

\* Its rows, each under its heading; a purchase prints positive.
chaseRows(lines, table) ==
    LET row(i) == [date |-> lines[i].date, printed |-> lines[i].amount,
                   section |-> headingOver(lines, table, i)]
        at == SetToSortSeq({i \in table : lines[i].kind = "row"}, <)
    IN [k \in DOMAIN at |-> row(at[k])]

chaseStatement(s, read) ==
    IF \E k \in DOMAIN read : read[k].printed = NoMoney \/ read[k].section = NoSection THEN {}
    ELSE {[start |-> s.start, opening |-> -s.previous, closing |-> -s.latest, market |-> 0,
           rows |-> [k \in DOMAIN read |-> [date |-> read[k].date, amount |-> -read[k].printed]],
           checks |-> {check({k \in DOMAIN read : read[k].section = c}, s.printed[c]) :
                        c \in DOMAIN s.printed}]}

chaseCard(s) == chaseStatement(s, chaseRows(s.lines, chaseTable(s.lines)))

---------------------------------------------------------------------------
(* layouts/wellsFargoDeposit.ts: an amount means what its column says *)

blank(date) == [date |-> date, deposits |-> NoMoney, withdrawals |-> NoMoney, daily |-> NoMoney]

placed(draft, cells) == FoldLeft(LAMBDA d, c : [d EXCEPT ![c.under] = c.amount], draft, cells)

\* The rows of the table, down to its Totals line: a line with no date goes on
\* with the row above it.
drafted(lines) ==
    LET add(ds, l) ==
            CASE l.kind = "row" -> Append(ds, placed(blank(l.date), l.cells))
              [] l.kind = "wrap" /\ ds # <<>> -> [ds EXCEPT ![Len(ds)] = placed(@, l.cells)]
              [] OTHER -> ds
        ends == {i \in DOMAIN lines : lines[i].kind = "totals"}
    IN FoldLeft(add, <<>>, IF ends = {} THEN lines ELSE SubSeq(lines, 1, Min(ends) - 1))

signedByColumn(drafts) ==
    [k \in DOMAIN drafts |->
        [date |-> drafts[k].date,
         amount |-> IF drafts[k].deposits # NoMoney THEN abs(drafts[k].deposits)
                                                    ELSE -abs(drafts[k].withdrawals)]]

moving(rows, under) ==
    {k \in DOMAIN rows : IF under = "deposits" THEN rows[k].amount > 0 ELSE rows[k].amount < 0}

\* Three independent checks: the daily balances, the summary, the Totals row.
depositChecks(s, drafts, rows) ==
    {change(1..k, drafts[k].daily - s.opening) : k \in {j \in DOMAIN drafts : drafts[j].daily # NoMoney}}
    \union {check(moving(rows, c), s.printed[c]) : c \in {"deposits", "withdrawals"}}
    \union {check(moving(rows, t.under), t.amount) :
              t \in UNION {Range(l.cells) : l \in {m \in Range(s.lines) : m.kind = "totals"}}}

depositStatement(s, drafts, rows) ==
    IF \/ \E l \in Range(s.lines) : l.kind \in {"row", "wrap"}
              /\ \E c \in Range(l.cells) : c.under \notin {"deposits", "withdrawals", "daily"}
       \/ s.ending \notin {NoMoney, s.closing}
       \/ \E d \in Range(drafts) : (d.deposits = NoMoney) = (d.withdrawals = NoMoney)
      THEN {}
      ELSE {[start |-> s.start, opening |-> s.opening, closing |-> s.closing, market |-> 0,
             rows |-> rows, checks |-> depositChecks(s, drafts, rows)]}

wellsFargoDeposit(s) ==
    LET drafts == drafted(s.lines) IN depositStatement(s, drafts, signedByColumn(drafts))

---------------------------------------------------------------------------
(* layouts/wellsFargoCard.ts: scanned paper, whose amounts drift off their
   rows, read as a column of their own *)

NearLine == 6
AmountNear == 4
PostedBeforeOpeningDays == 1
UndatedSections == {"fees", "interest"}

TransBeforeOpeningDays == 7
MonthDays == 31
LatestDays == 7

\* A date is <<month, tens, ones>>, <<>> where nothing like one stands; a digit
\* the scan spoiled is Smudge.  One past the statement is of the year before.
isDate(d) == /\ d # <<>> /\ \A i \in DOMAIN d : d[i] # Smudge
             /\ d[1] \in 1..12 /\ 10 * d[2] + d[3] \in 1..MonthDays
rowDate(d, s) == LET day == MonthDays * d[1] + 10 * d[2] + d[3]
                 IN IF day > s.end + LatestDays THEN day - 12 * MonthDays ELSE day
inside(d, s) == isDate(d) /\ rowDate(d, s) \in (s.start - PostedBeforeOpeningDays)..s.end

\* A date with ONE digit wrong is read when one digit, changed, can only make
\* one date of the period.
resolvePostDate(d, s) ==
    LET smudged == {i \in DOMAIN d : d[i] = Smudge}
        wrong == IF smudged = {} THEN DOMAIN d ELSE smudged
        found == {e \in {[d EXCEPT ![i] = n] : i \in wrong, n \in 0..9} : inside(e, s)}
    IN CASE Cardinality(smudged) > 1 -> {}
         [] inside(d, s) -> {d}
         [] OTHER -> IF Cardinality(found) = 1 THEN found ELSE {}

\* The date of a row that prints two: its post date, as far as it reads.  With
\* the post date beyond reading the trans date stands in, read exactly; with
\* nothing where it stood, the one date left is taken for the post date.
exact(d) == IF isDate(d) THEN {d} ELSE {}
rowDates(l, s) ==
    LET read(d) == IF resolvePostDate(d, s) # {} THEN resolvePostDate(d, s) ELSE exact(d)
        posted(days, trans) == {[post |-> d, trans |-> trans, fromTrans |-> FALSE] : d \in days}
    IN CASE read(l.date) # {} -> posted(read(l.date), exact(l.trans))
         [] l.date = <<>> -> posted(read(l.trans), {})
         [] OTHER -> {[post |-> d, trans |-> {}, fromTrans |-> TRUE] : d \in exact(l.trans)}

\* Each row's amount: in order when there are as many, else the nearest left.
nearest(draft, amounts, claimed) ==
    LET free == {j \in DOMAIN amounts : j \notin claimed /\ abs(amounts[j].y - draft.y) <= AmountNear}
    IN IF free = {} THEN 0
       ELSE CHOOSE j \in free : \A k \in free :
              LET dj == abs(amounts[j].y - draft.y)  dk == abs(amounts[k].y - draft.y)
              IN dj < dk \/ (dj = dk /\ j <= k)

takes(drafts, amounts) ==
    IF Len(drafts) = Len(amounts) THEN [i \in DOMAIN drafts |-> i]
    ELSE FoldLeft(LAMBDA got, d : Append(got, nearest(d, amounts, Range(got))), <<>>, drafts)

\* What is being read: the section, its rows and amounts so far, the rows whose
\* date did not read, a total whose figure drifted off its line.
noBlock == [drafts |-> <<>>, amounts |-> <<>>, waiting |-> <<>>, lastPost |-> <<>>, open |-> <<>>]
emptyReading == noBlock @@ [section |-> NoSection, rows |-> <<>>, totals |-> {}, refused |-> FALSE, done |-> FALSE]

\* The block's rows settle; an amount left over beside an open total is its.
besideTotal(r, took) ==
    {j \in DOMAIN r.amounts \ Range(took) :
        r.open # <<>> /\ abs(r.amounts[j].y - r.open.y) <= NearLine}

settled(r, took) ==
    LET kept == SelectSeq([i \in DOMAIN took |-> i],
                    LAMBDA i : took[i] # 0 /\ (r.amounts[took[i]].amount # 0 \/ r.drafts[i].dated))
    IN [k \in DOMAIN kept |->
            [date |-> r.drafts[kept[k]].date, amount |-> r.amounts[took[kept[k]]].amount,
             section |-> r.section]]

settle(r, took) ==
    noBlock @@
    [section |-> r.section, done |-> r.done,
     rows |-> r.rows \o settled(r, took),
     totals |-> r.totals \union
        {<<r.open.section, abs(r.amounts[j].amount)>> :
            j \in {j \in besideTotal(r, took) : \A k \in besideTotal(r, took) : j <= k}},
     refused |-> r.refused \/ \E i \in DOMAIN took : took[i] = 0 /\ r.drafts[i].dated]

flush(r) == settle(r, takes(r.drafts, r.amounts))

heading(r, l) == [flush(r) EXCEPT !.section = l.section]

totalled(f, l) ==
    [(IF l.amounts = <<>> THEN [f EXCEPT !.open = [section |-> l.section, y |-> l.y]]
      ELSE [f EXCEPT !.totals = @ \union {<<l.section, abs(l.amounts[1])>>}])
        EXCEPT !.done = l.section = "interest"]
totalLine(r, l) == totalled(flush(r), l)

\* No row is posted outside the period, or before the day of its transaction.
refusedDate(d, s) ==
    LET lag == IF d.fromTrans THEN TransBeforeOpeningDays ELSE 0
    IN \/ rowDate(d.post, s) \notin (s.start - PostedBeforeOpeningDays - lag)..s.end
       \/ \E t \in d.trans : rowDate(t, s) > rowDate(d.post, s)

\* A row with its date adopts the undated rows above it when the row above
\* them was posted that day too.
dated(r, l, d, s) ==
    LET row(y) == [y |-> y, date |-> rowDate(d.post, s), dated |-> TRUE]
        adopted == IF r.lastPost = d.post THEN [k \in DOMAIN r.waiting |-> row(r.waiting[k])] ELSE <<>>
    IN [r EXCEPT !.drafts = @ \o adopted \o <<row(l.y)>>, !.waiting = <<>>, !.lastPost = d.post,
                 !.refused = @ \/ r.section = NoSection \/ refusedDate(d, s)]

undated(r, l, s) ==
    CASE r.section \in UndatedSections ->
            [r EXCEPT !.drafts = Append(@, [y |-> l.y, date |-> s.end, dated |-> FALSE])]
      [] r.section \notin UndatedSections /\ r.section # NoSection /\ (l.date # <<>> \/ l.trans # <<>>) ->
            [r EXCEPT !.waiting = Append(@, l.y)]
      [] OTHER -> r

takenByTotal(r, l) == r.open # <<>> /\ l.amounts # <<>> /\ abs(l.y - r.open.y) <= NearLine

withAmounts(r, l) ==
    [r EXCEPT !.amounts = @ \o [k \in DOMAIN l.amounts |-> [y |-> l.y, amount |-> l.amounts[k]]]]

rowOf(r, l, s, read) ==
    CASE l.kind = "amount" -> r
      [] l.kind # "amount" /\ read = {} -> undated(r, l, s)
      [] OTHER -> dated(r, l, CHOOSE d \in read : TRUE, s)

rowLine(r, l, s) ==
    IF takenByTotal(r, l)
      THEN [r EXCEPT !.totals = @ \union {<<r.open.section, abs(l.amounts[1])>>}, !.open = <<>>]
      ELSE rowOf(withAmounts(r, l), l, s, IF l.kind = "amount" THEN {} ELSE rowDates(l, s))

cardPage(r, page, s) ==
    LET line(q, l) ==
            CASE q.done -> q
              [] l.kind = "heading" -> heading(q, l)
              [] l.kind = "total" -> totalLine(q, l)
              [] OTHER -> rowLine(q, l, s)
    IN IF r.done THEN r ELSE flush(FoldLeft(line, [r EXCEPT !.waiting = <<>>, !.lastPost = <<>>], page.lines))

\* The page with the account summary first, then by printed number.
NoNumber == 50
inStatementOrder(pages) ==
    LET key(i) == IF pages[i].summary THEN 0 ELSE pages[i].number * 1000 + i
    IN SetToSortSeq(DOMAIN pages, LAMBDA i, j : key(i) < key(j))

cardStatement(s, read) ==
    IF read.refused THEN {}
    ELSE {[start |-> s.start, end |-> s.end, opening |-> -s.previous, closing |-> -s.latest, market |-> 0,
           rows |-> read.rows,
           checks |-> {check({k \in DOMAIN read.rows : read.rows[k].section = t[1]}, t[2]) :
                         t \in read.totals \union {<<c, s.printed[c]>> : c \in DOMAIN s.printed}}]}

wellsFargoCard(s) ==
    cardStatement(s, FoldLeft(LAMBDA r, i : cardPage(r, s.pages[i], s), emptyReading,
                              inStatementOrder(s.pages)))

---------------------------------------------------------------------------
(* layouts/fidelityReport.ts: the money that crossed the account's boundary *)

\* The account summary's lines, placed under Additions or Subtractions.
summary(lines) ==
    LET place(a, l) ==
            CASE l.kind \in {"Additions", "Subtractions"} ->
                    [a EXCEPT ![l.kind] = IF l.value = NoMoney THEN 0 ELSE l.value,
                              !.under = IF l.kind = "Additions" THEN 1 ELSE -1]
              [] l.kind = "Change" -> [a EXCEPT !.market = l.value, !.under = 0]
              [] l.kind = "InKind" ->
                    [a EXCEPT !.under = 0, !.breakdown = IF l.value \in {NoMoney, 0} THEN @
                        ELSE Append(@, l @@ [sign |-> IF l.value < 0 THEN -1 ELSE 1])]
              [] OTHER ->
                    IF l.value = NoMoney THEN a
                    ELSE [a EXCEPT !.breakdown = Append(@, l @@ [sign |-> a.under]),
                                   !.refused = @ \/ a.under = 0 \/ ~l.indented]
        none == [under |-> 0, market |-> 0, breakdown |-> <<>>, refused |-> FALSE] @@
                [k \in {"Additions", "Subtractions"} |-> 0]
    IN FoldLeft(place, none, lines)

\* What the lines of some kinds under one heading come to.
headed(b, kinds, sign) ==
    total([i \in DOMAIN b |-> IF b[i].sign = sign /\ b[i].kind \in kinds THEN abs(b[i].value) ELSE 0])

\* Where the rows behind a summary line are listed, none when nowhere.
listing(s, line, side) ==
    CASE line.kind = "InKind" -> s.inKind[side]
      [] line.kind # "InKind" /\ line.name \in DOMAIN s.tables -> s.tables[line.name]
      [] line.kind = "Exchange" /\ line.name \notin DOMAIN s.tables -> s.transfers[side]
      [] OTHER -> [rows |-> <<>>, total |-> NoMoney]

listed(line, i, rows) ==
    [k \in DOMAIN rows |->
        [date |-> rows[k].date, line |-> i, kind |-> line.kind, amount |-> line.sign * abs(rows[k].amount)]]

fidelityChecks(a, b, lists, rows) ==
    UNION {{check({k \in DOMAIN rows : rows[k].line = i}, n) : n \in {b[i].value, lists[i].total} \ {NoMoney}} :
             i \in DOMAIN b}
    \union {check({k \in DOMAIN rows : h[2] * rows[k].amount > 0 /\ rows[k].kind # "InKind"},
                  abs(a[h[1]]) - headed(a.breakdown, {"Cost"}, h[2])) :
              h \in {<<"Additions", 1>>, <<"Subtractions", -1>>}}

fidelityStatement(s, a, b, lists, rows) ==
    [start |-> s.start, opening |-> s.opening, closing |-> s.closing, rows |-> rows,
     market |-> a.market + headed(a.breakdown, {"Cost"}, 1) - headed(a.breakdown, {"Cost"}, -1),
     checks |-> fidelityChecks(a, b, lists, rows)]

fidelityRows(b, lists) ==
    FoldLeft(LAMBDA got, i : got \o listed(b[i], i, lists[i].rows), <<>>, [i \in DOMAIN b |-> i])

fidelityRead(s, a, b, lists) ==
    IF \/ a.refused \/ a.market = NoMoney
       \/ \E h \in {<<"Additions", 1>>, <<"Subtractions", -1>>} :
            headed(a.breakdown, {"line", "Exchange", "Cost"}, h[2]) # abs(a[h[1]])
       \/ \E i \in DOMAIN b : lists[i].rows = <<>>
      THEN {} ELSE {fidelityStatement(s, a, b, lists, fidelityRows(b, lists))}

fidelityFrom(s, a, b) ==
    fidelityRead(s, a, b, [i \in DOMAIN b |-> listing(s, b[i], IF b[i].sign = 1 THEN "From" ELSE "To")])

fidelityAccount(s, a) ==
    fidelityFrom(s, a, SelectSeq(a.breakdown, LAMBDA l : l.value # 0 /\ l.kind # "Cost"))

fidelityReport(s) == UNION {fidelityAccount(x, summary(x.summary)) : x \in s.accounts}

---------------------------------------------------------------------------
(* read.ts: a file is read whole or refused whole *)

\* The accounts a file covers, before one of them fails to add up.
parse(s) ==
    CASE s.layout = "chase-card" -> chaseCard(s)
      [] s.layout = "wells-fargo-deposit" -> wellsFargoDeposit(s)
      [] s.layout = "wells-fargo-card" -> wellsFargoCard(s)
      [] OTHER -> fidelityReport(s)

accepted(read) == IF \A p \in read : reconciles(p) THEN {settleLatePostings(p) : p \in read} ELSE {}
readStatement(s) == accepted(parse(s))
=============================================================================
