------------------------------ MODULE MCScreens ------------------------------
(* The screens that share no state, in one run: it picks the one that moves, *)
(* and the others stay where they began.                                     *)
EXTENDS Pickers, Trips, LedgerPage, Review, Repay, CsvImport, Budget

-----------------------------------------------------------------------------
(* Pickers: a list of three categories, one the person's own, and two rows of
   one merchant, the second in a closed box. *)
CategoryName(words, caps) == [words |-> words, caps |-> caps]
MCFirstCategories ==
    {[id |-> 1, name |-> CategoryName(<<"rent", "home">>, TRUE), isIncome |-> FALSE],
     [id |-> 2, name |-> CategoryName(<<"home", "gear">>, TRUE), isIncome |-> FALSE],
     [id |-> 3, name |-> CategoryName(<<"salary">>, TRUE), isIncome |-> TRUE]}
MCPackCategories == {<<"rent", "home">>, <<"salary">>}
MCReserved == {<<"none">>}
MCTypings == {Nothing, CategoryName(<<"home">>, FALSE), CategoryName(<<"pets">>, FALSE)}
MCNewNames == {CategoryName(<<"pets">>, TRUE), CategoryName(<<"salary">>, FALSE)}
MCFirstRules == {[cat |-> 2, transfer |-> FALSE], [cat |-> 2, transfer |-> TRUE]}
Filed(cat, source) == [cat |-> cat, source |-> source, transfer |-> FALSE]
MCFirstFiled == {<<Filed(1, "RULE"), Filed(2, "MANUAL")>>, <<Filed(0, "AGGREGATOR"), Filed(2, "MANUAL")>>}

-----------------------------------------------------------------------------
(* Trips: three rows, and names in two casings. *)
TripName(word, caps) == [word |-> word, caps |-> caps]
MCTripNames == {TripName(1, TRUE), TripName(1, FALSE), TripName(2, TRUE), TripName(2, FALSE)}
MCFirstTags == {<<TripName(1, TRUE), TripName(1, TRUE), Untagged>>, <<TripName(1, TRUE), TripName(2, TRUE), Untagged>>}
MCAmount == <<-3, 5, -7>>

-----------------------------------------------------------------------------
(* The ledger page: rows of three months, a bill and the repayment of it in
   another month, a refund, a transfer, and payments nobody has decided. *)
PageRow(id, m, d, amount, flow, category, p2p, merchant) ==
    [id |-> id, month |-> m, day |-> d, amount |-> amount, flow |-> flow, category |-> category, p2p |-> p2p,
     merchant |-> merchant, word |-> IF merchant = "Zed" THEN "z" ELSE "a", text |-> IF id < 4 THEN "x" ELSE "y",
     account |-> IF id % 2 = 0 THEN "card" ELSE "bank", links |-> NoLink, trip |-> All, paired |-> FALSE]
MCBook ==
    <<[PageRow(1, 1, 5, -90, "OUTFLOW", "Food", FALSE, "Ana") EXCEPT !.trip = "Rome"],
     [PageRow(2, 3, 2, 30, "INFLOW", NoCategory, TRUE, "Zed") EXCEPT !.links = 1],
     PageRow(3, 2, 9, -20, "OUTFLOW", NoCategory, TRUE, "Zed"),
     PageRow(4, 3, 2, -7, "OUTFLOW", NoCategory, FALSE, "Ann"),
     [PageRow(5, 3, 4, 15, "INFLOW", "Food", FALSE, "Ann") EXCEPT !.trip = "Rome"],
     [PageRow(6, 3, 4, -50, "TRANSFER", NoCategory, FALSE, "Ana") EXCEPT !.trip = "Rome"],
     PageRow(7, 1, 1, 400, "INFLOW", "Salary", FALSE, "Ana")>>
\* And a ledger of one row.
MCFirstBooks == {MCBook, <<MCBook[4]>>}
MCLateRow == PageRow(8, 4, 1, -11, "OUTFLOW", NoCategory, TRUE, "Zed")
Span(a, b) == [from |-> a, to |-> b, span |-> TRUE]
MCFirstAddresses ==
    {NoFilters, [period |-> Span(1, 3), category |-> {"Food", NoCategory}, flow |-> "SPENDING"],
     [flow |-> "INCOME"], [merchant |-> [key |-> "Zed", word |-> "z"]], [trip |-> "Rome"],
     [account |-> {"bank", "gone"}], [page |-> 3],
     [period |-> Span(3, 1), account |-> {Blank}]}
MCAsks ==
    {FirstPage, [category |-> {Unreviewed}], [flow |-> "SPENDING"], [flow |-> "OUTFLOW"],
     [q |-> "x"], [period |-> month(3)]}
MCPageCategories == {"Food", "Salary"}

-----------------------------------------------------------------------------
(* Review: two spellings of one cafe, one of them with an older payee behind
   it; a person paid before and twice waiting, who may leave a memo; a payee
   whose key is too short for a rule; and a row a sync brings in. *)
MCRails == {"zelle"}
MCRailWords == {"to", "from"}
MCNoise == {"REF", "4417"}
MCMarks == {"*"}
MCLetters == {"zelle", "to", "ana", "marigold", "cafe", "llc"}
MCNameWords == {"marigold", "cafe"}
MCBookkeeping == {"zelle", "to"}
MCMemoWords == [rent |-> "Home"]

row(id, amount, on, desc, merchant) ==
    [id |-> id, amount |-> amount, day |-> on, desc |-> desc, merchant |-> merchant, says |-> "purchase"]
Ana(id, amount, memo) == row(id, amount, id, <<"zelle", "to", "ana", "REF">> \o memo, <<"zelle">>)
Cafe(id, more) == row(id, -12, id, <<"marigold", "cafe">> \o more \o <<"4417">>, <<"marigold", "cafe">> \o more)

MCLedger == {Cafe(1, <<"roastery">>), Ana(2, -30, <<>>), Cafe(3, <<>>), Cafe(4, <<"llc">>), Ana(5, -30, <<>>),
               row(6, -9, 6, <<"o">>, <<"o">>)}
\* Or no row at all.
MCFirstLedgers == {MCLedger, {}}
MCArriving == {Ana(7, -90, <<"rent">>)}
MCFirst == [i \in 1..8 |-> IF i = 1 THEN [cat |-> "Food", source |-> "RULE"]
                           ELSE IF i = 2 THEN [cat |-> "Gift", source |-> "MANUAL"]
                           ELSE [cat |-> Unknown, source |-> "AGGREGATOR"]]
MCRules == <<>>
MCOptions == {"Home", "Transfer"}
MCShort == {<<"o">>}

-----------------------------------------------------------------------------
(* Repayments: a payment of 30.00, a dinner three ways before it and one after, a
   rent it is a share of by chance, tickets a month ahead, and a payment earlier. *)
owed(id, on, amount, splits, words) ==
    [id |-> id, day |-> on, amount |-> amount, flow |-> "OUTFLOW", account |-> "card", splits |-> splits, words |-> words]
came(id, on, amount, account) ==
    [id |-> id, day |-> on, amount |-> amount, flow |-> "INFLOW", account |-> account, splits |-> TRUE, words |-> {}]
MCMoney ==
    <<owed(1, 128, 3100, TRUE, {"tickets"}), owed(2, 103, 9050, TRUE, {"dinner"}), came(3, 100, 3000, "bank"),
      owed(4, 97, 9000, TRUE, {"dinner"}), owed(5, 96, 60000, FALSE, {"rent"}), came(6, 70, 2000, "brokerage"),
      owed(7, 60, 4000, TRUE, {"dinner"}), owed(8, 20, 3000, TRUE, {"rent"})>>
\* And nothing but the payment.
MCFirstMonies == {MCMoney, <<MCMoney[3]>>}
MCQueries == {"dinner", "none typed"}

-----------------------------------------------------------------------------
(* Statement files: four banks of three or four lines. *)
MCPosted(acct, on, amt, text, after) ==
    [acct |-> acct, day |-> on, amt |-> amt, hold |-> amt, text |-> text, after |-> after]
MCChecking ==
    <<MCPosted("chk", 1, -5, "coffee", 95), MCPosted("chk", 1, -5, "coffee", 90),
      MCPosted("chk", 3, -5, "coffee", 85), MCPosted("chk", 3, 100, "pay", 185)>>
MCCard ==
    <<MCPosted("card", 1, -20, "shop", 0), MCPosted("card", 2, 20, "payment", 0), MCPosted("card", 2, -5, "coffee", 0)>>
MCWells ==
    <<MCPosted("wf", 1, -30, "gas", 0),
      [MCPosted("wf", 2, -40, "gas", 0) EXCEPT !.hold = -1], MCPosted("wf", 2, -5, "coffee", 0)>>
MCBrokerage ==
    <<MCPosted("b1", 1, -10, "bought", 0), MCPosted("b2", 1, -10, "bought", 0), MCPosted("b3", 2, 7, "dividend", 0)>>
MCBanks == {MCChecking, MCCard, MCWells, MCBrokerage}
MCExportedBy ==
    [chk |-> "chase_checking", card |-> "chase_credit", wf |-> "wells_fargo",
     b1 |-> "fidelity", b2 |-> "fidelity", b3 |-> "fidelity"]
MCInvestments == <<"b1", "b2", "b3">>
MCLabels == DOMAIN MCExportedBy \union {"x1", "x2", "ira"}
MCExact == [l \in MCLabels |-> {l} \intersect DOMAIN MCExportedBy]
MCTails == [l \in MCLabels |-> IF l = "x1" THEN {"b1"} ELSE IF l = "x2" THEN {"b2"} ELSE {}]
MCWithin == [l \in MCLabels |-> IF l \in {"ira", "b3"} THEN {"b2", "b3"} ELSE {}]
MCLabelOf ==
    [a \in DOMAIN MCExportedBy |->
        IF a = "b1" THEN "x1" ELSE IF a = "b2" THEN "x2" ELSE IF a = "b3" THEN "ira" ELSE a]

-----------------------------------------------------------------------------
(* The budget: three months of food and one trip. Two tabs meet only where the
   month does not close. *)
MCBudgetMonth(at, food, trip) ==
    [at |-> at,
     by |-> IF trip = 0 THEN "food" :> <<food, 20>> ELSE ("food" :> <<food, 20>>) @@ ("trip" :> <<trip, 0>>)]
MCLastMonths == <<MCBudgetMonth(1, 30, 90), MCBudgetMonth(2, 20, 0), MCBudgetMonth(3, 20, 0)>>
MCRecords == {<<MCBudgetMonth(0, 30, 0), MCBudgetMonth(1, 30, 90), MCBudgetMonth(2, 20, 0)>>, MCLastMonths}
\* A purchase, or a refund of an earlier month's.
MCPurchases == ("food" :> {30}) @@ ("new" :> {15, -5})
\* Two tabs meet in a month that does not close, and without a refund, which
\* sees one edit; a month-end stored short sees no dry run.
MCRefunded == \E k \in DOMAIN spending : \E i \in DOMAIN spending[k] : spending[k][i] < 0
MCOneTabElsewhere ==
    /\ record # MCLastMonths \/ MCRefunded => \E t \in Tabs : page[t] = {} /\ saving[t] = Idle
    /\ MCRefunded => saves <= 1
    /\ toldOf.stage = "previewed" => \A s \in monthEnds : asStated(s)

-----------------------------------------------------------------------------
VARIABLE screen
CONSTANT ScreensMoved
screenVars == <<kvars, tvars, pgvars, rvars, rpvars, cvars, bvars, screen>>

MCSame == Permutations(Screens)

ScreensInit ==
    /\ screen \in ScreensMoved
    /\ PickersInit
    /\ screen = "pickers" \/ (filed = <<Filed(1, "RULE"), Filed(2, "MANUAL")>> /\ ~theRule.transfer)
    /\ TripsInit /\ (screen = "trips" \/ tag[2] = tag[1])
    /\ LedgerPageInit /\ (screen = "ledger page" \/ (url = NoFilters /\ Len(book) = 1))
    /\ ReviewInit /\ (screen = "review" \/ there = {})
    /\ RepayInit /\ (screen = "repayments" \/ Len(money) = 1)
    /\ CsvInit /\ (screen = "statement files" \/ bank = MCCard)
    /\ BudgetInit /\ (screen = "budget" \/ (record = MCLastMonths /\ choices # Junk))

MovesScreen(which, Next, vars) == IF screen = which THEN Next ELSE UNCHANGED vars

ScreensNext ==
    /\ MovesScreen("pickers", PickersNext, kvars)
    /\ MovesScreen("trips", TripsNext, tvars)
    /\ MovesScreen("ledger page", LedgerPageNext, pgvars)
    /\ MovesScreen("review", ReviewNext, rvars)
    /\ MovesScreen("repayments", RepayNext, rpvars)
    /\ MovesScreen("statement files", CsvNext, cvars)
    /\ MovesScreen("budget", BudgetNext, bvars)
    /\ UNCHANGED screen

ScreensSpec == ScreensInit /\ [][ScreensNext]_screenVars

\* Each screen keeps its word while it moves; at rest it stays in a state its
\* own invariant was checked in.
\* What is decided of a row is what was asked, once, for the rows it was shown
\* for: the pickers offer, create and file what the list holds (CategoryPicker,
\* categories.ts); a trip keeps every row tagged to it whatever the tabs do
\* (GroupPicker); a payee's rows are grouped and decided together (GroupedReview).
LedgerDecisions ==
    /\ screen = "pickers" => CategoriesKeepTheirWord
    /\ screen = "trips" => TripsKeepTheirRows
    /\ screen = "review" => ReviewKeepsItsWord
\* What a screen says of money is the ledger's: the rows, totals and pages an
\* address asks for (transactions/page.tsx), the bills a repayment may be of and
\* the row an answer is for (ReimburseControl, reimburseCandidates.ts), the
\* budget's lines, ring and headline (budget.ts, BudgetTable).
MoneyPages ==
    /\ screen = "ledger page" => PageTellsTheLedger
    /\ screen = "repayments" => RepaymentsKeepTheirWord
    /\ screen = "budget" => BudgetKeepsItsWord
\* A statement file is stored once however often and however cut it is imported,
\* and the dry run foretells it (csv.ts, previewImport.ts, import-balances.ts).
StatementFiles == screen = "statement files" => CsvKeepsItsWord
=============================================================================
