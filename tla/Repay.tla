-------------------------------- MODULE Repay --------------------------------
(***************************************************************************)
(* Which expense a payment pays back: the ranking (suggestReimbursements,  *)
(* reimburseCandidates), and the control that offers it on a ledger row    *)
(* (ReimburseControl), whose list and search are asked of the server when  *)
(* it opens.  A tab's actions run one after another, and any may fail.     *)
(*                                                                         *)
(* A row is [id, day, amount, flow, account, splits, words]: the amount in *)
(* cents without its sign, and the queries that find it.                   *)
(***************************************************************************)
EXTENDS Stats, FiniteSets, TLC

CONSTANTS
    FirstMonies,        \* the rows there may be, newest first
    PaysBack,           \* the inflow whose control is looked at
    Queries,            \* what may be typed: a query, or Untyped
    Untyped,            \* fewer than two characters
    WINDOW_DAYS, LEAD_DAYS, POSTING_LAG_DAYS,
    POOL_TAKE, CANDIDATE_LIMIT, SEARCH_LIMIT,
    BarredAccounts,     \* NON_REIMBURSABLE_ACCOUNT_TYPES
    Unlinked,           \* reimbursesId of no expense
    MaxOpens, MaxTyped, MaxFailures, MaxPaired

VARIABLES
    money,      \* the ledger, a sequence
    pays,       \* [inflow ids -> the expense linked, or Unlinked]
    rowShown,      \* the payment's row, as the page last showed it: [offers, linked, hint]
    panel,      \* [open, nth, query, effect, unasked, candidates, results, failed, refused]
    asking,     \* the actions sent, the first on the server
    reply,      \* its answer on the way back: a sequence of at most one
    repaySpent       \* [typed, failures, paired]

rpvars == <<money, pays, rowShown, panel, asking, reply, repaySpent>>

-----------------------------------------------------------------------------
(* suggestReimbursements.ts.  A score is a whole number over another.      *)

MAX_SPLIT == 8
cleanShare(inflow, outflow) == \E n \in 2..MAX_SPLIT : abs(inflow * n - outflow) <= n
\* People round their share up: 2% of the bill, and eight cents at least.
roundedShare(inflow, outflow) ==
    \E n \in 2..MAX_SPLIT : abs(inflow * n - outflow) <= larger(MAX_SPLIT, roundOf(outflow, 50))

\* In hundredths; 0 where it pays back more than was spent.
amountEvidence(inflow, outflow, splits) ==
    IF inflow > outflow \/ outflow = 0 THEN 0
    ELSE IF inflow = outflow THEN 100
    ELSE IF ~splits THEN 30
    ELSE IF cleanShare(inflow, outflow) THEN 85
    ELSE IF roundedShare(inflow, outflow) THEN 70 ELSE 30

inWindow(gap) == gap \in -LEAD_DAYS..WINDOW_DAYS
\* 14 over 14 and the days between, three fifths of it well after the payment.
dateEvidence(gap) ==
    [num |-> IF ~inWindow(gap) THEN 0 ELSE 14 * (IF gap < -POSTING_LAG_DAYS THEN 3 ELSE 5),
     den |-> 5 * (14 + abs(gap))]

scored(inflow, out, splits) ==
    LET gap == inflow.day - out.day
        amount == amountEvidence(inflow.amount, out.amount, splits)
    IN [id |-> out.id, gap |-> abs(gap), strong |-> amount >= 70, why |-> amount,
        num |-> amount * dateEvidence(gap).num, den |-> 100 * dateEvidence(gap).den]

\* By score, then by the days between, else as the pool has them.  Below a
\* twentieth nothing is said.
suggestReimbursements(inflow, pool, limit) ==
    LET all == [i \in DOMAIN pool |-> scored(inflow, pool[i], pool[i].splits) @@ [at |-> i]]
        told == SelectSeq(all, LAMBDA s : s.num > 0 /\ 20 * s.num >= s.den)
        ranked == SortSeq(told, LAMBDA s, t :
                     \/ s.num * t.den > t.num * s.den
                     \/ s.num * t.den = t.num * s.den /\ s.gap < t.gap
                     \/ s.num * t.den = t.num * s.den /\ s.gap = t.gap /\ s.at < t.at)
    IN SubSeq(ranked, 1, smaller(limit, Len(ranked)))

-----------------------------------------------------------------------------
(* reimburseCandidates.ts *)

outflowsIn(rows, from, to) ==
    LET in == SelectSeq(rows, LAMBDA r : r.flow = "OUTFLOW" /\ r.day \in from..to)
    IN SubSeq(in, 1, smaller(POOL_TAKE, Len(in)))

\* The page's one pool spans every inflow on it; the action's, one inflow.
pagePool(rows) ==
    LET days == {r.day : r \in {s \in ToSet(rows) : s.flow = "INFLOW"}}
        first == CHOOSE d \in days : \A e \in days : d <= e
        last == CHOOSE d \in days : \A e \in days : d >= e
    IN IF days = {} THEN <<>> ELSE outflowsIn(rows, first - WINDOW_DAYS, last + LEAD_DAYS)
narrowPool(rows, inflow) == outflowsIn(rows, inflow.day - WINDOW_DAYS, inflow.day + LEAD_DAYS)

candidatesFor(pool, inflow) ==
    IF inflow.account \in BarredAccounts THEN <<>> ELSE suggestReimbursements(inflow, pool, CANDIDATE_LIMIT)

\* Nearest in time first, whatever its amount.
searchCandidates(pool, inflow, query) ==
    LET hit == SelectSeq(pool, LAMBDA o : query \in o.words)
        near == SortSeq(hit, LAMBDA o, p : \/ abs(inflow.day - o.day) < abs(inflow.day - p.day)
                                           \/ abs(inflow.day - o.day) = abs(inflow.day - p.day) /\ o.id < p.id)
    IN SubSeq(near, 1, smaller(SEARCH_LIMIT, Len(near)))

idsOf(list) == [i \in DOMAIN list |-> list[i].id]

-----------------------------------------------------------------------------
(* The page and the control. *)

rowOf(id) == CHOOSE r \in ToSet(money) : r.id = id
theInflow == rowOf(PaysBack)

NoHint == 0
hintOf(list) ==
    LET at == SelectInSeq(list, LAMBDA s : s.strong) IN IF at = 0 THEN NoHint ELSE list[at].id
strongHintFor(rows, inflow) == hintOf(candidatesFor(pagePool(rows), inflow))

\* The row as the page draws it: the picker, the chip of what is linked, or neither.
pageAs(rows, links) ==
    LET r == CHOOSE s \in ToSet(rows) : s.id = PaysBack
    IN [offers |-> r.flow = "INFLOW" /\ links[r.id] = Unlinked /\ r.account \notin BarredAccounts,
        linked |-> r.flow = "INFLOW" /\ links[r.id] # Unlinked,
        hint |-> IF r.flow = "INFLOW" THEN strongHintFor(rows, r) ELSE NoHint]

NotAsked == <<>>        \* null: a list is held as the sequence of it alone
Closed == [open |-> FALSE, nth |-> 0, query |-> Untyped, effect |-> 0, unasked |-> FALSE,
           candidates |-> NotAsked, results |-> NotAsked, failed |-> FALSE, refused |-> FALSE]

RepayInit ==
    /\ money \in FirstMonies
    /\ pays = [id \in {r.id : r \in ToSet(money)} |-> Unlinked]
    /\ rowShown = pageAs(money, pays)
    /\ panel = Closed
    /\ asking = <<>> /\ reply = <<>>
    /\ repaySpent = [typed |-> 0, failures |-> 0, paired |-> 0]

ask(a) == asking' = Append(asking, a)
onServer(kind) == asking # <<>> /\ reply = <<>> /\ Head(asking).do = kind

\* Asked anew on every open; the query's effect begins with nothing to ask.
OpenPicker ==
    /\ rowShown.offers /\ ~panel.open /\ panel.nth < MaxOpens
    /\ panel' = [Closed EXCEPT !.open = TRUE, !.nth = panel.nth + 1, !.effect = panel.effect + 1]
    /\ ask([do |-> "suggest", nth |-> panel.nth + 1])
    /\ UNCHANGED <<money, pays, rowShown, reply, repaySpent>>

\* The trigger, cancel, Escape, or a press outside.  What it holds it keeps.
ClosePicker ==
    /\ panel.open
    /\ panel' = [panel EXCEPT !.open = FALSE, !.effect = @ + 1, !.unasked = FALSE]
    /\ UNCHANGED <<money, pays, rowShown, asking, reply, repaySpent>>

\* The effect runs again: the timer of the one before is cleared.
TypeQuery(q) ==
    /\ panel.open /\ q # panel.query /\ repaySpent.typed < MaxTyped
    /\ panel' = [panel EXCEPT !.query = q, !.effect = @ + 1, !.unasked = (q # Untyped),
                              !.results = IF q = Untyped THEN NotAsked ELSE @]
    /\ repaySpent' = [repaySpent EXCEPT !.typed = @ + 1]
    /\ UNCHANGED <<money, pays, rowShown, asking, reply>>

SearchTimer ==
    /\ panel.open /\ panel.unasked
    /\ panel' = [panel EXCEPT !.unasked = FALSE]
    /\ ask([do |-> "search", query |-> panel.query, effect |-> panel.effect])
    /\ UNCHANGED <<money, pays, rowShown, reply, repaySpent>>

\* What is listed; the rows are held while a transition of the control runs.
offeredRows == IF panel.results # NotAsked THEN panel.results[1]
          ELSE IF panel.candidates # NotAsked THEN panel.candidates[1] ELSE <<>>
pending == \E i \in DOMAIN asking : asking[i].do # "search"

PickExpense ==
    /\ panel.open /\ ~pending
    /\ \E i \in DOMAIN offeredRows : ask([do |-> "link", expense |-> offeredRows[i]])
    /\ UNCHANGED <<money, pays, rowShown, panel, reply, repaySpent>>

Unlink ==
    /\ rowShown.linked /\ ~pending
    /\ ask([do |-> "unlink"])
    /\ UNCHANGED <<money, pays, rowShown, panel, reply, repaySpent>>

-----------------------------------------------------------------------------
(* The server, one action at a time, and its answers. *)

answerWith(value) == reply' = <<value>>
\* An inflow no more has no window.
windowOf == IF theInflow.flow = "INFLOW" THEN narrowPool(money, theInflow) ELSE <<>>

SuggestCandidates ==
    /\ onServer("suggest")
    /\ answerWith(idsOf(IF theInflow.flow = "INFLOW" THEN candidatesFor(windowOf, theInflow) ELSE <<>>))
    /\ UNCHANGED <<money, pays, rowShown, panel, asking, repaySpent>>

SearchReimbursable ==
    /\ onServer("search")
    /\ answerWith(idsOf(searchCandidates(windowOf, theInflow, Head(asking).query)))
    /\ UNCHANGED <<money, pays, rowShown, panel, asking, repaySpent>>

LinkReimbursement ==
    /\ onServer("link")
    /\ LET fits == theInflow.flow = "INFLOW" /\ rowOf(Head(asking).expense).flow = "OUTFLOW"
       IN /\ pays' = IF fits THEN [pays EXCEPT ![PaysBack] = Head(asking).expense] ELSE pays
          /\ IF fits THEN reply' = <<<<1>>, pageAs(money, pays')>> ELSE answerWith(<<>>)
    /\ UNCHANGED <<money, rowShown, panel, asking, repaySpent>>

UnlinkReimbursement ==
    /\ onServer("unlink")
    /\ pays' = [pays EXCEPT ![PaysBack] = Unlinked]
    /\ reply' = <<<<1>>, pageAs(money, pays')>>
    /\ UNCHANGED <<money, rowShown, panel, asking, repaySpent>>

\* A search is let go by the effect it was asked by, if that one has ended.
current_Always(a) == TRUE
current(a) == a.effect = panel.effect

told(a, value) ==
    CASE a.do = "suggest" -> [panel EXCEPT !.candidates = <<value>>]
      [] a.do = "search" -> IF current(a) THEN [panel EXCEPT !.results = <<value>>] ELSE panel
      [] a.do = "link" -> IF value = <<>> THEN [panel EXCEPT !.refused = TRUE]
                          ELSE [panel EXCEPT !.open = FALSE, !.effect = @ + 1, !.unasked = FALSE]
      [] OTHER -> panel

\* After a write the page comes with the answer, drawn again.
ReadReply ==
    /\ reply # <<>>
    /\ panel' = told(Head(asking), Head(reply))
    /\ rowShown' = IF Len(reply) = 2 THEN reply[2] ELSE rowShown
    /\ asking' = Tail(asking) /\ reply' = <<>>
    /\ UNCHANGED <<money, pays, repaySpent>>

\* A failed search reads as one that found nothing, a failed list as failed.
CallFails ==
    /\ asking # <<>> /\ Head(asking).do \in {"suggest", "search"} /\ repaySpent.failures < MaxFailures
    /\ LET a == Head(asking)
       IN panel' = IF a.do = "suggest" THEN [panel EXCEPT !.failed = TRUE] ELSE told(a, <<>>)
    /\ asking' = Tail(asking) /\ reply' = <<>>
    /\ repaySpent' = [repaySpent EXCEPT !.failures = @ + 1]
    /\ UNCHANGED <<money, pays, rowShown>>

\* A sync pairs a row: it is a transfer now, under a page drawn before.
SyncPairsRow ==
    /\ repaySpent.paired < MaxPaired
    /\ \E i \in DOMAIN money :
          /\ money[i].flow # "TRANSFER"
          /\ money' = [money EXCEPT ![i].flow = "TRANSFER"]
    /\ repaySpent' = [repaySpent EXCEPT !.paired = @ + 1]
    /\ UNCHANGED <<pays, rowShown, panel, asking, reply>>

RepayNext ==
    \/ OpenPicker \/ ClosePicker \/ SearchTimer \/ PickExpense \/ Unlink
    \/ \E q \in Queries : TypeQuery(q)
    \/ SuggestCandidates \/ SearchReimbursable \/ LinkReimbursement \/ UnlinkReimbursement
    \/ ReadReply \/ CallFails \/ SyncPairsRow

-----------------------------------------------------------------------------
inflows == {r \in ToSet(money) : r.flow = "INFLOW"}

\* What opens is what would have been embedded: for every payment the list the
\* action ranks over the payment's own window is the list the page ranked over
\* the window of all of them, so a hint never opens onto a list without it.
OpensOntoItsHint ==
    \A r \in inflows :
        /\ candidatesFor(narrowPool(money, r), r) = candidatesFor(pagePool(money), r)
        /\ strongHintFor(money, r) # NoHint =>
              \E i \in DOMAIN candidatesFor(narrowPool(money, r), r) :
                  candidatesFor(narrowPool(money, r), r)[i].id = strongHintFor(money, r)

\* "Search is the guarantee that any expense in the window can be found": each
\* is listed under its own words, unless the limit's worth of nearer ones is;
\* everything ranked can be searched for, and amount leads: of two expenses as
\* far away in time and on one side of the payment, the one whose amount says
\* more is first.
SearchReachesTheWindow ==
    \A r \in inflows :
        LET pool == narrowPool(money, r)
            ranked == suggestReimbursements(r, pool, Len(pool))
        IN /\ \A o \in ToSet(money), q \in Queries \ {Untyped} :
                 o.flow = "OUTFLOW" /\ inWindow(r.day - o.day) /\ q \in o.words =>
                    LET found == searchCandidates(pool, r, q)
                    IN \/ o.id \in ToSet(idsOf(found))
                       \/ Len(found) = SEARCH_LIMIT
                          /\ \A f \in ToSet(found) : abs(r.day - f.day) <= abs(r.day - o.day)
           /\ ToSet(idsOf(ranked)) \subseteq ToSet(idsOf(pool))
           /\ \A i, j \in DOMAIN ranked :
                 LET side(k) == rowOf(ranked[k].id).day > r.day + POSTING_LAG_DAYS
                 IN side(i) = side(j) /\ ranked[i].gap = ranked[j].gap /\ ranked[i].why > ranked[j].why => i < j

\* With nothing asked and no timer running, what is listed answers the query
\* in the box, and while there is none the ranked list ("a stale answer is
\* dropped if the query moved on"): no answer to an earlier query, nor one
\* that came after the box was emptied, is left standing.
PanelAnswersItsBox ==
    panel.open /\ asking = <<>> /\ ~panel.unasked =>
        /\ (panel.query = Untyped) = (panel.results = NotAsked)
        /\ panel.candidates # NotAsked \/ panel.failed
        /\ \A id \in ToSet(offeredRows) : panel.query # Untyped => panel.query \in rowOf(id).words

RepaymentsKeepTheirWord == OpensOntoItsHint /\ SearchReachesTheWindow /\ PanelAnswersItsBox
=============================================================================
