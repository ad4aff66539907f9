-------------------------------- MODULE MCParts --------------------------------
(* The components that share no state, in one run: it picks the one that moves, *)
(* and the others stay where they began.                                        *)
EXTENDS Intake, Usage, InsightStore, Access, Demo, Plans, Backups, Schema, Sheets, TLC

--------------------------------------------------------------------------------
(* Schemas: two tables, and what later checkouts do to them. *)

Col(n, clauses, default) == [name |-> n, type |-> "TEXT", clauses |-> clauses, default |-> default]
Tab(n, items) == [name |-> n, items |-> items, tail |-> ""]
Idx(n, t, columns, unique) == [name |-> n, table |-> t, columns |-> columns, unique |-> unique]
idCol == Col("id", {"NOT NULL", "PRIMARY KEY"}, "none")
val == Col("value", {"NOT NULL"}, "none")
fk == [constraint |-> "fkey"]

Sql(tables, indexes) == [tables |-> tables, indexes |-> indexes]
MCFirst == Sql({Tab("Setting", <<idCol, val>>)}, {Idx("value_idx", "Setting", {"value"}, FALSE)})

\* A release that adds: a column, a table, an index on both.
MCAdds(col, unique) ==
    Sql({Tab("Setting", <<idCol, val, col>>), Tab("Goal", <<idCol, fk>>)},
        {Idx("value_idx", "Setting", {"value"}, FALSE), Idx("note_idx", "Setting", {col.name}, unique)})
\* One that renames, and changes an index's columns.
MCRenames == Sql({Tab("Setting", <<idCol, Col("content", {"NOT NULL"}, "const")>>)},
                 {Idx("value_idx", "Setting", {"content"}, FALSE)})
MCRetypes == Sql({Tab("Setting", <<idCol, Col("value", {}, "none"), fk>>)}, {Idx("value_idx", "Setting", {"id", "value"}, TRUE)})

ByHandColumn == [name |-> "note", type |-> "text", clauses |-> {}, default |-> "NULL"]
MCFirstStored ==
    {Sql({}, {}), MCFirst,
     [MCFirst EXCEPT !.tables = @ \union {Tab("_prisma_migrations", <<idCol>>)},
                     !.indexes = {Idx("value_idx", "Setting", {"id"}, FALSE)}],
     Sql({Tab("Setting", <<idCol, val, ByHandColumn>>)}, {})}
MCNotes == {<<{}, "none">>, <<{"NOT NULL"}, "none">>, <<{"NOT NULL"}, "now">>, <<{"NOT NULL"}, "const">>,
            <<{"REFERENCES"}, "const">>, <<{"UNIQUE"}, "none">>}
MCSeconds == {MCAdds(Col("note", n[1], n[2]), n[1] = {}) : n \in MCNotes} \union {MCRenames, MCRetypes}
MCShipments == {<<MCFirst, s>> : s \in MCSeconds}

\* Two rows can repeat a value; a table that is only created needs one.
MCMaxRows == [t \in TableNames |-> IF t = "Setting" THEN 2 ELSE 1]

\* The calls are alike.
MCAlike == Permutations(Calls)

\* A database nobody upgrades.
SchemaAtRest ==
    /\ inDatabase = MCFirst /\ began = inDatabase
    /\ held = [t \in TableNames |-> 0] /\ doubles = {}
    /\ shipped = <<MCFirst>> /\ checkout = 1
    /\ push = [p \in People |-> NoCommand] /\ lastSaid = [p \in People |-> Silent]
    /\ byHand = 0 /\ stopped = 0

--------------------------------------------------------------------------------
(***************************************************************************)
(* Statements as the banks print them, and what can happen to a page on    *)
(* its way to a layout.  A truth is the rows a bank knows; its mishaps are *)
(* one or two faults of the paper, the scan or the text behind it.         *)
(***************************************************************************)

sumIn(rows, c) == abs(covered(rows, {i \in DOMAIN rows : rows[i].section = c}))
said(faults, what) == {f[2] : f \in {g \in faults : g[1] = what}}
without(lines, gone) ==
    LET at == SelectSeq([i \in DOMAIN lines |-> i], LAMBDA i : i \notin gone) IN [k \in DOMAIN at |-> lines[at[k]]]

---------------------------------------------------------------------------
(* Chase: a line lost, a minus lost *)

ChaseTruths ==
    {<<[section |-> "payments", date |-> 5, amount |-> 40]>> \o
        [i \in 1..2 |-> [section |-> "purchases", date |-> 5 + i, amount |-> a[i]]] : a \in [1..2 -> {-40, -25}]}
    \union {<<[section |-> "payments", date |-> -9, amount |-> 40],
              [section |-> "purchases", date |-> 3, amount |-> -25]>>}

chaseLines(rows, flipped) ==
    LET line(k) == [kind |-> k, section |-> NoSection, date |-> 0, amount |-> NoMoney]
        head(c) == <<[line("heading") EXCEPT !.section = c]>>
        listed1(c) == LET at == SetToSortSeq({i \in DOMAIN rows : rows[i].section = c}, <)
                      IN [k \in DOMAIN at |-> [line("row") EXCEPT !.date = rows[at[k]].date,
                            !.amount = IF at[k] \in flipped THEN rows[at[k]].amount ELSE -rows[at[k]].amount]]
    IN <<line("other"), line("header")>> \o head("payments") \o listed1("payments") \o head("purchases")
        \o listed1("purchases") \o <<line("totals"), [line("row") EXCEPT !.date = 9, !.amount = 60]>>

printedChase(rows, faults) ==
    [layout |-> "chase-card", start |-> 1, previous |-> 100, latest |-> 100 - covered(rows, DOMAIN rows),
     printed |-> [c \in {"payments", "purchases"} |-> sumIn(rows, c)],
     lines |-> without(chaseLines(rows, said(faults, "minus")), said(faults, "line"))]

ChaseFaults(rows) == {<<"line", i>> : i \in DOMAIN chaseLines(rows, {})} \union {<<"minus", 1>>}

---------------------------------------------------------------------------
(* Wells Fargo deposit: amounts read under the other column, a line or a cell lost *)

DepositTruths ==
    {[i \in 1..3 |-> [section |-> "all", date |-> d[i], amount |-> a[i]]] :
        a \in [1..3 -> {10, -10, 7}], d \in {<<5, 5, 6>>, <<5, 6, 6>>, <<5, 6, 7>>}}

columnOf(amount, swapped) == IF (amount > 0) = swapped THEN "withdrawals" ELSE "deposits"
depositLines(rows, f) ==
    LET lastOfDay(i) == \A j \in DOMAIN rows : j > i => rows[j].date # rows[i].date
        amountCell(i) == {[under |-> IF i \in said(f, "gap") THEN "gap"
                                     ELSE columnOf(rows[i].amount, \E S \in said(f, "columns") : i \in S),
                           amount |-> abs(rows[i].amount)]}
        daily(i) == IF lastOfDay(i) /\ i \notin said(f, "daily")
                      THEN {[under |-> "daily", amount |-> 100 + covered(rows, 1..i)]} ELSE {}
        cells(S) == SetToSeq(S)
        row(i) == IF i \in said(f, "wrap")
            THEN <<[kind |-> "row", date |-> rows[i].date, cells |-> cells(daily(i))],
                   [kind |-> "wrap", date |-> 0, cells |-> cells(amountCell(i))]>>
            ELSE <<[kind |-> "row", date |-> rows[i].date, cells |-> cells(daily(i) \union amountCell(i))]>>
        totals == <<[under |-> "deposits", amount |-> covered(rows, moving(rows, "deposits"))],
                    [under |-> "withdrawals", amount |-> abs(covered(rows, moving(rows, "withdrawals")))]>>
    IN row(1) \o row(2) \o row(3) \o
        <<[kind |-> "totals", date |-> 0, cells |-> totals], [kind |-> "other", date |-> 0, cells |-> <<>>]>>

printedDeposit(rows, f) ==
    LET end == 100 + covered(rows, DOMAIN rows)
    IN [layout |-> "wells-fargo-deposit", start |-> 1, opening |-> 100, closing |-> end,
        ending |-> IF said(f, "ending") = {} THEN end ELSE NoMoney,
        printed |-> [c \in {"deposits", "withdrawals"} |-> abs(covered(rows, moving(rows, c)))],
        lines |-> without(depositLines(rows, f), said(f, "line"))]

\* A wrapped row is how the bank prints a long description, no fault.
DepositMishaps ==
    {{f, w} : f \in {<<"columns", S>> : S \in SUBSET (1..3)} \union {<<"gap", i>> : i \in 1..3}
                 \union {<<"line", i>> : i \in 1..6} \union {<<"daily", i>> : i \in 1..3} \union {<<"ending", 1>>},
              w \in {<<"wrap", i>> : i \in 0..3}}

---------------------------------------------------------------------------
(* Wells Fargo card: scanned paper *)

CardPeriod == [start |-> 94, end |-> 123]
Smudged == <<3, Smudge, Smudge>>
cardTruth(c, d, trans, amount) ==
    [section |-> c, at |-> d, trans |-> trans, date |-> rowDate(d, CardPeriod), amount |-> amount]
CardTruths ==
    LET pay == cardTruth("payments", <<3, 0, 5>>, <<2, 2, 8>>, 40)
        buys == {cardTruth("purchases", d[1], d[2], a) :
                    d \in {<<<<3, 0, 6>>, <<3, 0, 5>>>>, <<<<3, 1, 2>>, <<3, 0, 6>>>>}, a \in {-40, -25}}
    IN {<<pay>> \o t : t \in {s \in UNION {[1..n -> buys] : n \in 2..3} :
                                \A i \in 1..(Len(s) - 1) : s[i].date <= s[i + 1].date}}
       \union {<<cardTruth("payments", <<3, 0, 5>>, <<2, 2, 4>>, 40), cardTruth("purchases", <<3, 0, 6>>, <<>>, -25),
                 [section |-> "interest", at |-> <<>>, trans |-> <<>>, date |-> 123, amount |-> -3]>>}
\* Three rows of one page, the scan having lost the trans date of the middle one.
CardRuns ==
    {<<cardTruth("payments", <<3, 0, 5>>, <<2, 2, 8>>, 40), cardTruth("purchases", <<3, 0, 5>>, <<3, 0, 4>>, -25),
       cardTruth("purchases", <<3, 0, 6>>, <<3, 0, 5>>, -40), cardTruth("purchases", d[1], <<3, 0, 6>>, -25),
       cardTruth("purchases", d[2], <<3, 0, 6>>, -25)>> :
        d \in {<<<<3, 0, 6>>, <<3, 0, 6>>>>, <<<<3, 0, 8>>, <<3, 1, 2>>>>}}

cardFaults(rows) ==
    LET both == {i \in DOMAIN rows : rows[i].at # <<>>}
    IN {<<"lost", i>> : i \in DOMAIN rows}
       \union {<<"drift", d>> : d \in {-4, 3}} \union {<<"totalDrift", d>> : d \in {-3, 3}}
       \union (IF Len(rows) = 2 THEN {} ELSE {<<"page", 1>>})
       \union {<<"post", <<i, d>>>> : i \in both, d \in {<<>>, Smudged}}
       \union {m \in {<<"post", <<i, [rows[i].at EXCEPT ![j] = n]>>>> : i \in both, j \in 1..3, n \in {Smudge, 4}} :
                    ~inside(m[2][2], CardPeriod)}
       \union {<<"trans", <<i, d>>>> : i \in {k \in both : rows[k].trans # <<>>}, d \in {Smudged, <<3, 2, 8>>}}

first(S, none) == IF S = {} THEN none ELSE CHOOSE x \in S : TRUE
cardRow(rows, i, f, y) ==
    LET left(kind, d) == first({m[2] : m \in {x \in said(f, kind) : x[1] = i}}, d)
        drift == first(said(f, "drift"), 0)
        row(amounts) == [kind |-> "row", y |-> y, date |-> left("post", rows[i].at),
                         trans |-> left("trans", rows[i].trans), amounts |-> amounts]
    IN CASE i \in said(f, "lost") -> <<row(<<>>)>>
         [] i \notin said(f, "lost") /\ drift = 0 -> <<row(<<rows[i].amount>>)>>
         [] OTHER -> <<row(<<>>), [kind |-> "amount", y |-> y + drift, date |-> <<>>, amounts |-> <<rows[i].amount>>]>>

cardBlock(rows, S, f, totalled1) ==
    LET at == SetToSortSeq(S, <)
        c == rows[at[1]].section
        y == 10 * (Len(at) + 1)
        drift == first(said(f, "totalDrift"), 0)
        line(amounts) == [kind |-> "total", y |-> y, section |-> c, date |-> <<>>, amounts |-> amounts]
        last == IF ~totalled1 THEN <<>>
                ELSE IF drift = 0 THEN <<line(<<sumIn(rows, c)>>)>>
                ELSE <<line(<<>>), [kind |-> "amount", y |-> y + drift, date |-> <<>>, amounts |-> <<-sumIn(rows, c)>>]>>
    IN SortSeq(FoldLeft(LAMBDA g, k : g \o cardRow(rows, at[k], f, 10 * k), <<>>, [k \in DOMAIN at |-> k]) \o last,
               LAMBDA a, b : a.y < b.y)
cardHead(c) == <<[kind |-> "heading", section |-> c, y |-> 0, date |-> <<>>, amounts |-> <<>>]>>

\* Page one holds the summary, the payment and the first purchase; the second,
\* scanned first, the rest.
cardPages(rows, f) ==
    LET n == Len(rows)
        ends == rows[n].section = "interest"
        one == [summary |-> TRUE, number |-> 1,
                lines |-> cardHead("payments") \o cardBlock(rows, {1}, f, TRUE) \o cardHead("purchases")
                            \o cardBlock(rows, {2}, f, n = 2 \/ ends)]
        two == [summary |-> FALSE, number |-> NoNumber,
                lines |-> (IF ends THEN cardHead("interest") ELSE <<>>) \o cardBlock(rows, 3..n, f, TRUE)]
    IN IF n = 2 THEN <<one>> ELSE without(<<two, one>>, said(f, "page"))

printedCard(rows, f) ==
    CardPeriod @@ [layout |-> "wells-fargo-card", previous |-> 100, latest |-> 100 - covered(rows, DOMAIN rows),
     printed |-> [c \in {"payments", "purchases"} |-> sumIn(rows, c)], pages |-> cardPages(rows, f)]

---------------------------------------------------------------------------
(* Fidelity: lines of the summary and of the tables lost, a line set wrong *)

FidelityTruths ==
    {<<[section |-> "Deposits", date |-> 5, amount |-> 15], [section |-> "Deposits", date |-> d, amount |-> 25],
       [section |-> "Withdrawals", date |-> 7, amount |-> -10], [section |-> "Exchanges In", date |-> 8, amount |-> 12],
       [section |-> "In kind", date |-> 8, amount |-> k]>> : d \in {5, 6}, k \in {6, -10}}

fidelitySummary(rows, f) ==
    LET line(k, n, v) == [kind |-> k, name |-> n, value |-> v, indented |-> TRUE]
        lines == <<line("Additions", "", 52), line("line", "Deposits", 40), line("Exchange", "Exchanges In", 12),
                   line("Subtractions", "", -12), line("line", "Withdrawals", -10), line("Cost", "Fees", -2),
                   line("InKind", "In kind", rows[5].amount), line("Change", "", 30)>>
    IN without([i \in DOMAIN lines |-> CASE i \in said(f, "margin") -> [lines[i] EXCEPT !.indented = FALSE]
                                         [] i \in said(f, "value") -> [lines[i] EXCEPT !.value = NoMoney]
                                         [] OTHER -> lines[i]], said(f, "line"))

fidelityTable(rows, S, f) ==
    LET at == SetToSortSeq(S \ said(f, "row"), <)
    IN [rows |-> [k \in DOMAIN at |-> [date |-> rows[at[k]].date, amount |-> rows[at[k]].amount]],
        total |-> IF said(f, "total") = {} THEN abs(covered(rows, S)) ELSE NoMoney]
noTable == [rows |-> <<>>, total |-> NoMoney]

printedFidelity(rows, f) ==
    [layout |-> "fidelity-report",
     accounts |-> {[start |-> 1, opening |-> 100, closing |-> 100 + covered(rows, DOMAIN rows) + 28,
        summary |-> fidelitySummary(rows, f),
        tables |-> [n \in {"Deposits", "Withdrawals"} \ said(f, "table") |->
                        fidelityTable(rows, {i \in DOMAIN rows : rows[i].section = n}, f)],
        transfers |-> [From |-> fidelityTable(rows, {4}, f), To |-> noTable],
        inKind |-> [s \in {"From", "To"} |->
            IF (s = "From") = (rows[5].amount > 0) THEN fidelityTable(rows, {5}, f) ELSE noTable]]}]

FidelityFaults ==
    {<<k, i>> : k \in {"line", "value", "margin"}, i \in 1..8} \union {<<"row", i>> : i \in 1..5}
    \union {<<"table", n>> : n \in {"Deposits", "Withdrawals"}} \union {<<"total", 1>>}

---------------------------------------------------------------------------

StatementSheet(layout, rows, faulty) ==
    [of |-> "statement", truth |-> [layout |-> layout, rows |-> rows], mishaps |-> faulty]

MCPrinted(truth, f) ==
    CASE truth.layout = "chase-card" -> printedChase(truth.rows, f)
      [] truth.layout = "wells-fargo-deposit" -> printedDeposit(truth.rows, f)
      [] truth.layout = "wells-fargo-card" -> printedCard(truth.rows, f)
      [] OTHER -> printedFidelity(truth.rows, f)

--------------------------------------------------------------------------------
(* Sheets *)

\* Overlap: up to three rows of a statement and up to two stored ones.
OverlapRow == {[key |-> k, day |-> d, nth |-> k, amount |-> 1, posted |-> NotLate] : k \in 1..3, d \in 1..4}
Stored == {[id |-> i, day |-> d, amount |-> 1] : i \in 1..2, d \in 1..4}
Held == {S \in SUBSET Stored : \A a, b \in S : a.id = b.id => a = b}

\* Ledgers: an expense, a repayment of it or of another row, and any other row.
LedgerRow(id, amount, flows, categories, links, p2p, months) ==
    {[id |-> id, month |-> m, day |-> id, amount |-> IF f = "INFLOW" THEN amount ELSE -amount, flow |-> f, category |-> c,
      p2p |-> b, merchant |-> IF b THEN 1 ELSE id, account |-> id % 2, links |-> l] :
        f \in flows, c \in categories, l \in links, b \in p2p, m \in months}
Expenses == LedgerRow(1, 10, {"OUTFLOW", "TRANSFER"}, {NoCategory, "Travel"}, {NoLink}, BOOLEAN, {1})
Repayments == LedgerRow(2, 4, {"INFLOW", "TRANSFER"}, {NoCategory, "Dining", "Salary"}, {NoLink, 1, 3}, BOOLEAN, {1, 2})
\* A refund as large as the expense, of it or of no row.
Refunds == LedgerRow(2, 10, {"INFLOW", "TRANSFER"}, {NoCategory, "Travel"}, {NoLink, 1}, BOOLEAN, {1, 2})
Others == LedgerRow(3, 3, {"OUTFLOW"}, {NoCategory, "Dining"}, {NoLink}, {FALSE}, {1, 2})
   \union LedgerRow(3, 3, {"INFLOW"}, {NoCategory, "Travel"}, {NoLink, 1}, BOOLEAN, {2})

OverlapSheets(rows) == {S \in SUBSET rows : \A a, b \in S : a.key = b.key => a = b}

SheetsInit ==
    /\ verdict = Unread
    /\ \/ \E i \in OverlapSheets(OverlapRow), h \in Held :
            sheet = [of |-> "overlap", incoming |-> i, stored |-> h]
       \/ \E e \in Expenses, r \in Repayments \union Refunds, o \in Others, one \in {{}, {1}} :
            sheet = [of |-> "ledger", rows |-> {e, r, o}, months |-> {1, 2}, oneOffs |-> one]
       \/ \E t \in ChaseTruths : \E f, g \in ChaseFaults(t) : sheet = StatementSheet("chase-card", t, {f, g})
       \/ \E t \in DepositTruths, m \in DepositMishaps : sheet = StatementSheet("wells-fargo-deposit", t, m)
       \/ \E t \in CardTruths : \E f, g \in cardFaults(t) : sheet = StatementSheet("wells-fargo-card", t, {f, g})
       \/ \E t \in CardRuns : \E f, g \in cardFaults(t) :
            sheet = StatementSheet("wells-fargo-card", t, {f, g, <<"trans", <<4, Smudged>>>>})
       \/ \E t \in FidelityTruths : \E f, g \in FidelityFaults : sheet = StatementSheet("fidelity-report", t, {f, g})

\* The same, with rows listed long after the day they are dated.
LateRow == {[r EXCEPT !.posted = [from |-> 3, to |-> p]] : r \in {x \in OverlapRow : x.day = 1}, p \in 3..4}
LateSheetsInit ==
    /\ verdict = Unread
    /\ \E i \in OverlapSheets(OverlapRow \union LateRow), h \in Held :
            sheet = [of |-> "overlap", incoming |-> i, stored |-> h]

--------------------------------------------------------------------------------
VARIABLE part
allVars == <<ivars, uvars, nvars, avars, dvars, pvars, bvars, scvars, sheetVars, part>>

\* Purchases: one a weekend late in the feed, two of which one's statement day
\* is the other's, one of a closed account.  Statements: a month, a quarter
\* that overlaps it, and the closed account's.
MCpost == <<2, 3, 5, 2>>
MCseen == <<3, 3, 5, 2>>
MCprintedOn == <<2, 2, 4, 2>>
MCperiod == [A |-> [from |-> 1, to |-> 3], Q |-> [from |-> 1, to |-> 5], C |-> [from |-> 1, to |-> 3]]
MCImports == {<<"A", "Q">>, <<"Q", "C">>}

\* Deployments: in the cloud with a password and a feed, without and with a
\* second factor; on a laptop with half of its secrets; and with none.
E(inCloud, hash, secret, totp) == [cloud |-> inCloud, hash |-> hash, secret |-> secret, totp |-> totp, demoFeed |-> FALSE]
MCDeployed == E(TRUE, 1, TRUE, 1)
MCDeployments == {E(TRUE, 1, TRUE, 0), MCDeployed, E(FALSE, 0, TRUE, 1), E(FALSE, 0, FALSE, 0)}

MCTables == <<"Account", "Transaction">>

\* One service under two descriptors: its charges under the first, and under
\* the second, of which either may have risen.
MCNames == <<"v", "v pay">>
MCBrand == [n \in {"v", "v pay"} |-> "v"]
Bills(days, amounts) == [i \in DOMAIN days |-> [at |-> days[i], amount |-> amounts[i]]]
MCHistories ==
    LET days == <<0, 30, 60>>
        older == {Bills(days, <<10, 10, 10>>), Bills(<<0, 30>>, <<10, 10>>), Bills(days, <<10, 10, 12>>)}
        newer == {<<>>, Bills(days, <<10, 10, 10>>), Bills(days, <<10, 10, 11>>)}
    IN {[n \in {"v", "v pay"} |-> IF n = "v" THEN b ELSE c] : b \in older, c \in newer}
MCDeclared == [pattern |-> {"v", "v pay"}, expected |-> 10, anchor |-> 0]

\* Backups of the first month stand, one date is kept daily and two more runs
\* follow, one in each month, so that pruning removes a file and keeps a
\* month's newest.
MCmonth == [d \in Dates |-> IF d <= 3 THEN 1 ELSE 2]

\* Of three deposits, two alike are most.
MCMostly == <<2, 3>>

CONSTANT Parts

PartsInit ==
    /\ part \in Parts
    /\ IntakeInit /\ UsageInit /\ AccessInit /\ DemoInit
    /\ InsightInit /\ (part = "insights" \/ ledger = [m \in Months |-> FALSE])
    /\ PlansInit /\ (part = "plans" \/ (bills["v pay"] = <<>> /\ Len(bills["v"]) = 2))
    /\ BackupsInit /\ (part = "copies" \/ state = NotYet)
    /\ IF part = "schema" THEN SchemaInit ELSE SchemaAtRest
    /\ CASE part = "sheets" -> SheetsInit
         [] part = "late sheets" -> LateSheetsInit
         [] OTHER -> sheet = [of |-> "none"] /\ verdict = Unread

Moves(who, Next, vars) == IF part \in who THEN Next ELSE UNCHANGED vars

PartsNext ==
    /\ Moves({"intake"}, IntakeNext, ivars)
    /\ Moves({"usage"}, UsageNext, uvars)
    /\ Moves({"insights"}, InsightNext, nvars)
    /\ Moves({"access"}, AccessNext, avars)
    /\ Moves({"demo"}, DemoNext, dvars)
    /\ Moves({"plans"}, PlansNext, pvars)
    /\ Moves({"copies"}, BackupsNext, bvars)
    /\ Moves({"schema"}, SchemaNext, scvars)
    /\ Moves({"sheets", "late sheets"}, SheetsNext, sheetVars)
    /\ UNCHANGED part

PartsSpec == PartsInit /\ [][PartsNext]_allVars
================================================================================
