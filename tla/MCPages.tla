------------------------------- MODULE MCPages -------------------------------
(* The pages that share no state, in one run: it picks the one that moves,    *)
(* and the others stay where they began.                                      *)
EXTENDS WorthGoal, Health, Renewals, SavingsGoals, HouseReadiness, Nudges, Signals, Pace

------------------------------------------------------------------------------
(* The worth goal: eight month-ends over two years, an account that is counted
   from the third on, a bonus, a raise, a lump moved into the market, cash that
   earns beside cash that does not. *)
Kept(at, bank, fund, broker, gains, deposited) ==
    [at |-> at, holds |-> [bank |-> bank, fund |-> fund, broker |-> broker], value |-> bank + fund + broker - 500,
     leftOut |-> {}, gains |-> gains, in |-> [broker |-> deposited], paid |-> [bank |-> 0, fund |-> fund \div 300],
     estimated |-> FALSE, oneOff |-> 0, topUp |-> 0, spent |-> 900]
Late == Kept(2, 3000, 4000, 8000, 100, 300)
MCRising ==
    <<[Late EXCEPT !.value = @ - 4000, !.leftOut = {"fund"}],
      [Kept(3, 3600, 4000, 8400, 100, 300) EXCEPT !.value = @ - 4000, !.leftOut = {"fund"}],
      Kept(4, 4100, 4300, 8600, -100, 300), Kept(5, 4800, 4300, 9000, 100, 300),
      [Kept(6, 7000, 4300, 9400, Unmeasured, 400) EXCEPT !.oneOff = 1500, !.estimated = TRUE],
      [Kept(7, 2500, 4300, 14900, 200, 5300) EXCEPT !.topUp = 100],
      Kept(8, 3200, 4300, 15400, 100, 400), Kept(9, 3900, 4300, 15900, 100, 400)>>
MCFalling == [i \in 1..8 |-> Kept(i + 1, 6000 - 700 * i, 1000, 9000 + 100 * i, 0, 100)]
MCHistories == {MCRising, MCFalling}
MCGoal == [target |-> 30000, pct |-> 0, setOn |-> NoDate, invest |-> Unmeasured, pace |-> Unmeasured]
MCFirstGoal == [MCGoal EXCEPT !.pct = 6, !.setOn = 1]

------------------------------------------------------------------------------
(* Renewals: months of three to five days. *)
MCMonthDays == <<5, 3, 5, 4, 5, 3, 5>>

------------------------------------------------------------------------------
(* Savings goals: pages of one record, and what the script is asked. *)
Acc(id, type, balance, first) == [id |-> id, type |-> type, balance |-> balance, first |-> first]
End(at, bank, card, market) == [at |-> at, by |-> [bank |-> bank, card |-> card, market |-> market]]
Flow(at, net, regular) == [at |-> at, net |-> net, regular |-> regular]
MCFirm == [now |-> 82, period |-> 8, extraIds |-> {},
           accounts |-> {Acc("bank", "DEPOSITORY", 4000, 0),
                        Acc("card", "CREDIT", -300, 15), Acc("market", "INVESTMENT", 9000, 0)},
           flows |-> <<Flow(1, 500, 0), Flow(2, 240, 0), Flow(3, 200, 0), Flow(4, 200, 0),
                       Flow(5, 100, 20), Flow(6, 200, 0), Flow(7, 250, 0), Flow(8, 900, 0)>>,
           months |-> <<[at |-> 1, by |-> None], End(2, 3000, -100, 8000), End(3, 3100, -100, 8200), End(4, 3300, -200, 8500),
                        [at |-> 5, by |-> None], End(6, 3700, -300, 8900), End(7, 3900, -200, 9100)>>]
MCYoung == [MCFirm EXCEPT !.flows = <<Flow(6, 200, 0), Flow(7, 250, 0)>>, !.extraIds = {"market"}]
MCLoss == [MCFirm EXCEPT !.flows = [i \in 1..7 |-> Flow(i, -60, i)],
                         !.accounts = {Acc("bank", "DEPOSITORY", 4000, 0), Acc("card", "CREDIT", 50, None)}]
MCRich == [MCFirm EXCEPT !.flows = [i \in 1..7 |-> Flow(i, 6001, 0)]]

Entry(name, target, month, cash, accounts, pace) ==
    [id |-> <<name, 1>>, name |-> name, target |-> target, month |-> month, cash |-> cash, accounts |-> accounts,
     pace |-> pace, reads |-> TRUE]
HouseFund == Entry("house", 6000, 13, TRUE, <<>>, None)
TripFund == Entry("trip", 4300, 9, FALSE, <<"bank">>, 100)
LaterFund == [Entry("later", 1, None, FALSE, <<>>, None) EXCEPT !.reads = FALSE]
OldFund == Entry("old", 900, None, FALSE, <<"gone">>, None)
MCFirstPages == {<<MCFirm, <<HouseFund, TripFund>>>>,
                 <<MCFirm, <<HouseFund, LaterFund, [TripFund EXCEPT !.pace = BadPace]>>>>, <<MCYoung, Junk>>,
                 <<MCLoss, Absent>>, <<MCYoung, <<HouseFund, TripFund>>>>, <<MCLoss, <<OldFund, HouseFund>>>>,
                 <<MCRich, <<Entry("home", 33150, 12, TRUE, <<>>, None)>>>>}
Ask(name, target, month, cash, needles) ==
    [name |-> name, target |-> target, price |-> None, down |-> 20, closing |-> 3,
     month |-> month, cash |-> cash, needles |-> needles]
MCAddAsks == {Ask("house", 5000, 12, FALSE, <<{"bank"}>>), Ask("two", 5000, 12, FALSE, <<{"bank", "card"}>>),
              Ask("both", 9000, 12, FALSE, <<{"bank"}, {"bank"}>>),
              [Ask("flat", None, None, TRUE, <<>>) EXCEPT !.price = 20013]}
MCRemoveAsks == {{"house"}, {"house", "trip"}}

------------------------------------------------------------------------------
(* The house: four months, three funds, and the terms an operator may give. *)
MCPaymentOf == (5 :> 64) @@ (6 :> 72) @@ (7 :> 80)
HouseMonth(income, out, housing) == [income |-> income, spent |-> out, housing |-> housing]
MCHouseMonths == {<<HouseMonth(5200, 3900, 1500), HouseMonth(5200, 2000, -400),
                    HouseMonth(5300, 4200, 1500), HouseMonth(5200, 3600, 1500)>>,
                  <<HouseMonth(5200, 3900, 1500), HouseMonth(5200, 3900, 1500)>>,
                  [i \in 1..4 |-> HouseMonth(2600, 2500, 100)]}
MCHouseFunds == {-300, 6000, 23000}
\* A third fetch, which repairs what two that overlapped left, sees one fund.
MCThirdFetch == counts.fetched = 3 => houseFund = 6000 /\ counts.declared <= 1
MCTerms == [floor |-> 600, term |-> 30, carry |-> 1, pmi |-> 1, closing |-> 3, down |-> 20]
MCNoTerms == [f \in DOMAIN MCTerms |-> None]
MCFloorOnly == [MCNoTerms EXCEPT !.floor = 200, !.down = 10]
MCTermsAsked == {MCTerms, MCNoTerms, MCFloorOnly}
MCFirstDeclared == {Absent, Junk, [terms |-> MCTerms, rate |-> 6, asOf |-> 0]}
MCPublished == [d \in -1..4 |-> CASE d = -1 -> 6 [] d = 1 -> 7 [] d = 3 -> 99 [] OTHER -> None]

------------------------------------------------------------------------------
(* Health: an account with rows every day, most days, or now and then. *)
MCFirstRows == {-7..0, {-7, -6, -4, -3, -1, 0}, {-4, -1}}

------------------------------------------------------------------------------
(* Overview's nudges: nothing to say, much of it, and a quiet page with rows to
   review. *)
Held(date, polls) == [date |-> date, polls |-> polls]
MCQuiet == [alerts |-> {}, goals |-> {}, idle |-> None, keeping |-> None, rows |-> {}, accounts |-> <<>>]
MCBusy == [alerts |-> {[plan |-> "music", kind |-> "Price up", daysAway |-> 3, last |-> 1],
                       [plan |-> "home", kind |-> "Not split", daysAway |-> None, last |-> 0]},
           goals |-> {[id |-> "trip", extra |-> 40, fund |-> {"bank"}]},
           idle |-> None, keeping |-> [end |-> 2], rows |-> {},
           accounts |-> ("bank" :> Held(2, TRUE)) @@ ("paper" :> Held(0, FALSE))]
MCTidy == [MCQuiet EXCEPT !.idle = [yearly |-> 90, from |-> {"bank"}],
                          !.rows = {[id |-> 1, p2p |-> FALSE, imported |-> 3],
                                    [id |-> 2, p2p |-> TRUE, imported |-> 1]},
                          !.accounts = ("bank" :> Held(0, TRUE)) @@ ("card" :> Held(3, TRUE))]
MCFirstAsked == {MCQuiet, MCBusy, MCTidy}

------------------------------------------------------------------------------
(* Signals: six months of two merchants and loose payments. *)
MCOut(id, month, dollars, category, merchant) ==
    [id |-> id, month |-> month, day |-> 1, amount |-> -dollars, flow |-> "OUTFLOW", category |-> category, p2p |-> FALSE,
     merchant |-> merchant, account |-> "card", links |-> NoLink]
MCShop == [i \in 1..5 |-> MCOut(i, i, <<20, 22, 30, 22, 24>>[i], "Shopping", "store")]
MCDining == [i \in 1..5 |-> MCOut(5 + i, i, 40, "Dining", "bistro")]
MCLoose == <<MCOut(11, 1, 10, NoCategory, "venmo"), MCOut(12, 2, 10, "Dining", "venmo"), MCOut(13, 2, 10, NoCategory, "venmo"),
             MCOut(14, 4, 10, NoCategory, "venmo"), MCOut(15, 5, 12, NoCategory, "venmo")>>
MCHistory == MCShop \o MCDining \o MCLoose
MCPurchases ==
    {MCOut(21, 6, 300, "Shopping", "store"), MCOut(22, 6, 90, "Shopping", "store"), MCOut(23, 6, 70, "Dining", "bistro"),
     [MCOut(24, 6, 120, NoCategory, "venmo") EXCEPT !.p2p = TRUE], MCOut(25, 6, 60, NoCategory, "venmo"),
     [MCOut(26, 6, 0, NoCategory, "store") EXCEPT !.flow = "INFLOW", !.amount = 300, !.links = 21]}
MCCharges == {[merchant |-> "music", perYear |-> 12, increased |-> TRUE, previous |-> 10, last |-> 20, fresh |-> FALSE],
              [merchant |-> "cloud", perYear |-> 1, increased |-> FALSE, previous |-> NoKey, last |-> 40, fresh |-> TRUE],
              [merchant |-> "paper", perYear |-> 52, increased |-> FALSE, previous |-> NoKey, last |-> 5, fresh |-> TRUE]}

------------------------------------------------------------------------------
(* Pace: seven steady months, four old ones, one thin one, and two plans. *)
MCAfter(n) == [d \in 1..5 |-> (n * (5 - d)) \div 4]
MCPast(at, n, after) == [at |-> at, total |-> n + 20, after |-> after, by |-> ("food" :> n) @@ ("rent" :> 20)]
MCSteady == [i \in 1..7 |-> MCPast(13 + i, <<60, 52, 64, 60, 52, 56, 90>>[i], MCAfter(40))]
MCOld == [i \in 1..4 |-> MCPast(16 + i, 40 + 4 * i, None)]
MCThin == <<MCPast(20, 70, MCAfter(60))>>
MCPastMonths == {MCSteady, MCOld, MCThin, <<MCPast(9, 80, MCAfter(20))>> \o MCOld}
MCRecords == {[a \in {"bank", "card"} |-> 0], ("bank" :> 0) @@ ("card" :> 185)}
MCPlans == {[id |-> "rent", last |-> -1, step |-> 8, cost |-> 60, cancelled |-> FALSE, billing |-> TRUE],
            [id |-> "music", last |-> -5, step |-> 8, cost |-> 9, cancelled |-> FALSE, billing |-> TRUE]}

------------------------------------------------------------------------------
VARIABLE page
CONSTANT PagesMoved
pageVars == <<gvars, hvars, rnvars, sgvars, hrvars, nvars, sigvars, pcvars, page>>

MCSkew == <<0, 1, -1, 0>>
MCSameTabs == Permutations(GoalTabs)

PagesInit ==
    /\ page \in PagesMoved
    /\ WorthGoalInit /\ (page = "worth goal" \/ monthEnds = MCFalling)
    /\ HealthInit /\ (page = "health" \/ (rate = NoRun /\ backup = NoRun /\ feedRows = -7..0))
    /\ RenewalsInit /\ (page = "renewals" \/ sub = [cycle |-> 1, anchor |-> 2])
    /\ SavingsGoalsInit /\ (page = "savings goals" \/ setting = Absent)
    /\ HouseInit /\ (page = "house" \/ (readiness = Absent /\ ~keyed /\ houseFund = -300 /\ Len(houseMonths) = 2))
    /\ NudgesInit /\ (page = "nudges" \/ (askedNow = MCQuiet /\ done = Absent))
    /\ SignalsInit /\ (page = "signals" \/ comparableMonths = {5})
    /\ PaceInit
    /\ page = "pace" \/ (half = 0 /\ plansBilled = {} /\ stored = MCThin /\ records = [a \in {"bank", "card"} |-> 0])

MovesPage(which, Next, vars) == IF page = which THEN Next ELSE UNCHANGED vars

PagesNext ==
    /\ MovesPage("worth goal", WorthGoalNext, gvars)
    /\ MovesPage("health", HealthNext, hvars)
    /\ MovesPage("renewals", RenewalsNext, rnvars)
    /\ MovesPage("savings goals", SavingsGoalsNext, sgvars)
    /\ MovesPage("house", HouseNext, hrvars)
    /\ MovesPage("nudges", NudgesNext, nvars)
    /\ MovesPage("signals", SignalsNext, sigvars)
    /\ MovesPage("pace", PaceNext, pcvars)
    /\ UNCHANGED page

PagesSpec == PagesInit /\ [][PagesNext]_pageVars

\* Each page keeps its word while it moves; at rest it stays in a state its own
\* invariant was checked in.
\* A goal's figures are the record's and its saved answers the reader's: the
\* worth goal's panel and landing (NetWorthGoalPanel, netWorthGoal.ts), the
\* savings goals' cards beside the script (SavingsGoalCard, set-goals.ts,
\* goals.ts), the house panel's rate and prices (readiness.ts, mortgageRate.ts).
GoalPages ==
    /\ page = "worth goal" => WorthGoalKeepsItsWord
    /\ page = "savings goals" => SavingsGoalsKeepTheirWord
    /\ page = "house" => HouseKeepsItsWord
\* No feed, sync or backup dies without the providers page turning (health/),
\* and the next renewal is the biller's day, a price that moved flagged
\* (health/subscriptions.ts).
HealthPages ==
    /\ page = "health" => HealthTellsTheTruth
    /\ page = "renewals" => RenewalsKeepTheirWord
\* A finding is said once and is so: Overview's nudges (nextAction.ts,
\* app/page.tsx), what is unusual in a month (digest.ts, anomalies.ts), where
\* the month is heading (pace.ts, currentPace.ts, commitments.ts).
InsightPages ==
    /\ page = "nudges" => NudgesKeepTheirWord
    /\ page = "signals" => SignalsKeepTheirWord
    /\ page = "pace" => PaceKeepsItsWord
=============================================================================
