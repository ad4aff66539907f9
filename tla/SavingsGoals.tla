----------------------------- MODULE SavingsGoals -----------------------------
(***************************************************************************)
(* The savings goals: one Setting that holds them all, rewritten whole by  *)
(* each card's "Saved per month" (SavingsGoalCard, saveSavingsGoalPace,    *)
(* withGoalPace) and by the command that declares and removes them         *)
(* (scripts/set-goals).  Reading and writing it are two statements; a      *)
(* tab's saves are answered one after another, and an answer may be lost.  *)
(*                                                                         *)
(* An entry is [id, name, target, month, cash, accounts, pace, reads];     *)
(* one that does not read is kept as it stands by who keeps raw entries.   *)
(***************************************************************************)
EXTENDS Outlook

CONSTANTS
    FirstPages,     \* <<the figures a page is drawn from, the Setting>>
    CardTabs,
    Typed,          \* what is typed; None: not an amount
    MAX_GOAL_PACE,
    AddAsks,        \* what the command is asked to declare
    RemoveAsks,     \* the names a fragment may match
    BadPace,        \* a pace that does not read
    Gone,           \* no card
    Refused,        \* an edit is
    MaxEdits, MaxAnswersLost

\* What the command is asked is asked.
ASSUME AsksAssumption == None \notin AddAsks

VARIABLES
    situation,      \* [now, period, accounts, extraIds, flows, months]
    setting,        \* the entries, or Absent, or Junk
    cards,          \* [CardTabs -> [id, of, pace, stored, failed], or Gone]
    sending,        \* [CardTabs -> saves not answered: [next, before]]
    holding,        \* [CardTabs -> what a save has read and will write, or None]
    replied,        \* [CardTabs -> the answer on its way, or None]
    command,        \* what the command has read and will write, or None
    owed,           \* the Setting if each accepted edit were made at once
    strayed,        \* an edit was made from what was no longer so
    tries           \* [saves, lost, commands]

sgvars == <<situation, setting, cards, sending, holding, replied, command, owed, strayed, tries>>

-----------------------------------------------------------------------------
(* goals.ts: reading the Setting. *)

entriesIn(s) == IF s = Absent \/ s = Junk THEN <<>> ELSE s
isGoal(e) == e.reads
validPace(p) == p # None /\ p # BadPace /\ abs(p) <= MAX_GOAL_PACE
\* An unreadable pace is ignored, never a reason to drop the goal.
parseGoals(s) ==
    LET goals == SelectSeq(entriesIn(s), isGoal)
    IN [i \in DOMAIN goals |-> IF goals[i].pace = BadPace THEN [goals[i] EXCEPT !.pace = None] ELSE goals[i]]

\* One goal's pace, every other entry as it was read.

withGoalPace_Parsed(s, id, pace) ==
    IF (pace # None /\ ~validPace(pace)) \/ s = Absent \/ s = Junk \/ \A i \in DOMAIN s : s[i].id # id THEN Refused
    ELSE [i \in DOMAIN parseGoals(s) |->
             IF parseGoals(s)[i].id = id THEN [parseGoals(s)[i] EXCEPT !.pace = pace] ELSE parseGoals(s)[i]]
withGoalPace(s, id, pace) ==
    IF pace # None /\ ~validPace(pace) THEN Refused
    ELSE IF s = Absent \/ s = Junk THEN Refused
    ELSE IF \A i \in DOMAIN s : s[i].id # id THEN Refused
    ELSE [i \in DOMAIN s |-> IF s[i].id = id THEN [s[i] EXCEPT !.pace = pace] ELSE s[i]]

-----------------------------------------------------------------------------
(* The page's figures. *)

inputsNow == goalInputs(situation.period, situation.accounts, situation.extraIds, situation.flows, situation.months)
assessedGoals(goal, pace, inputs) ==
    assessGoal(goal, pace, situation.accounts, situation.extraIds, inputs.nets, situation.now)
goalOf(id, s) == LET g == parseGoals(s) IN g[CHOOSE i \in DOMAIN g : g[i].id = id]
idsIn(s) == {parseGoals(s)[i].id : i \in DOMAIN parseGoals(s)}

cardFor(goal) == [id |-> goal.id, of |-> [goal EXCEPT !.pace = None], pace |-> goal.pace, stored |-> goal.pace, failed |-> FALSE]

NoSends == [t \in CardTabs |-> <<>>]
SavingsGoalsInit ==
    /\ \E page \in FirstPages : situation = page[1] /\ setting = page[2]
    /\ LET all == {cardFor(goalOf(id, setting)) : id \in idsIn(setting)}
       IN cards \in [CardTabs -> IF all = {} THEN {Gone} ELSE all]
    /\ sending = NoSends /\ holding = [t \in CardTabs |-> None] /\ replied = [t \in CardTabs |-> None]
    /\ command = None
    /\ owed = setting /\ strayed = FALSE
    /\ tries = [saves |-> 0, lost |-> 0, commands |-> 0]

-----------------------------------------------------------------------------
(* SavingsGoalCard *)

figures(t) == assessedGoals(cards[t].of, cards[t].pace, inputsNow)
canSet(a) == ~a.reached /\ a.refusal # "NO_ACCOUNTS" /\ a.measured # None
\* Within two per cent: the measured pace typed back.
sameAmount(a, b) == 50 * abs(a - b) <= larger(abs(a), abs(b))
committed(a) == IF a.paceSet # None THEN a.paceSet ELSE IF a.measured # None THEN a.measured ELSE 0
suggested(a, shortfall) == DOLLAR * roundOf(committed(a) + shortfall.extra, DOLLAR)

\* What a card draws, at the pace on screen: every refusal says why, and the
\* field sits in the alert that asks for more or in the controls.
cardShows(goal, a, rate, grown) ==
    LET live == IF canSet(a) THEN projectLanding(a.remaining, whole(rate), situation.now) ELSE None
        dated == IF live = None THEN {} ELSE {"when", "path", "working"}
        asks == shortfallOf(a, goal.month, a.paceSet, situation.now) # None
    IN dated \union
       (IF a.reached THEN {"reached"}
        ELSE IF a.refusal \in {"NO_ACCOUNTS", "TOO_FEW_MONTHS"} THEN {a.refusal}
        ELSE (IF live = None THEN {"no date"} ELSE {})
             \union (IF asks THEN {"behind", "field"} ELSE IF canSet(a) THEN {"controls", "field"} ELSE {})
             \union (IF a.paceSet # None THEN {"use usual"} ELSE {})
             \union (IF goal.cash /\ grown # None /\ live # None THEN {"reconciliation"} ELSE {}))

save(t, next) ==
    /\ tries.saves + tries.commands < MaxEdits /\ tries' = [tries EXCEPT !.saves = @ + 1]
    /\ sending' = [sending EXCEPT ![t] = Append(@, [next |-> next, before |-> cards[t].stored])]
storedNow(id) == IF id \in idsIn(setting) THEN goalOf(id, setting).pace ELSE Gone
stale(t) == sending[t] # <<>> \/ (\E u \in CardTabs \ {t} : sending[u] # <<>>) \/ cards[t].stored # storedNow(cards[t].id)
onCard == UNCHANGED <<situation, setting, holding, replied, command, owed>>

CommitPace(t, typed) ==
    /\ cards[t] # Gone
    /\ LET a == figures(t)
           next == IF typed # None /\ sameAmount(typed, a.measured) THEN None ELSE typed
           skips == next = cards[t].stored
       IN /\ canSet(a)
          /\ IF typed = None
             THEN cards' = [cards EXCEPT ![t].failed = TRUE] /\ UNCHANGED <<sending, tries, strayed>>
             ELSE /\ strayed' = (strayed \/ stale(t))
                  /\ IF skips THEN cards' = [cards EXCEPT ![t].failed = FALSE] /\ UNCHANGED <<sending, tries>>
                     ELSE /\ cards' = [cards EXCEPT ![t].failed = FALSE, ![t].pace = next]
                          /\ save(t, next)
    /\ onCard

UseMeasured(t) ==
    /\ cards[t] # Gone
    /\ LET a == figures(t) IN canSet(a) /\ a.paceSet # None
    /\ strayed' = (strayed \/ stale(t))
    /\ IF cards[t].stored = None THEN cards' = [cards EXCEPT ![t].failed = FALSE] /\ UNCHANGED <<sending, tries>>
       ELSE cards' = [cards EXCEPT ![t].failed = FALSE, ![t].pace = None] /\ save(t, None)
    /\ onCard

\* saveSavingsGoalPace.
ReadGoals(t) ==
    /\ sending[t] # <<>> /\ holding[t] = None /\ replied[t] = None
    /\ LET next == withGoalPace(setting, cards[t].id, Head(sending[t]).next)
       IN IF next = Refused THEN replied' = [replied EXCEPT ![t] = Refused] /\ UNCHANGED holding
          ELSE holding' = [holding EXCEPT ![t] = [read |-> setting, next |-> next]] /\ UNCHANGED replied
    /\ UNCHANGED <<situation, setting, cards, sending, command, owed, strayed, tries>>
WriteGoals(t) ==
    /\ holding[t] # None
    /\ setting' = holding[t].next
    /\ strayed' = (strayed \/ setting # holding[t].read)
    /\ owed' = [i \in DOMAIN entriesIn(owed) |->
                   IF owed[i].id = cards[t].id THEN [owed[i] EXCEPT !.pace = Head(sending[t]).next] ELSE owed[i]]
    /\ holding' = [holding EXCEPT ![t] = None] /\ replied' = [replied EXCEPT ![t] = "saved"]
    /\ UNCHANGED <<situation, cards, sending, command, tries>>

\* A save that fails puts back the pace last known stored when it was sent.
putBack(t) == cards' = [cards EXCEPT ![t].failed = TRUE, ![t].pace = Head(sending[t]).before]
ReadReply(t) ==
    /\ replied[t] # None
    /\ IF replied[t] = Refused THEN putBack(t)
       ELSE cards' = [cards EXCEPT ![t].stored = Head(sending[t]).next]
    /\ sending' = [sending EXCEPT ![t] = Tail(@)] /\ replied' = [replied EXCEPT ![t] = None]
    /\ UNCHANGED <<situation, setting, holding, command, owed, strayed, tries>>
\* Before the call reached the server, or after its write.
ReplyLost(t) ==
    /\ sending[t] # <<>> /\ holding[t] = None /\ replied[t] # Refused
    /\ tries.lost < MaxAnswersLost /\ tries' = [tries EXCEPT !.lost = @ + 1]
    /\ putBack(t)
    /\ sending' = [sending EXCEPT ![t] = Tail(@)] /\ replied' = [replied EXCEPT ![t] = None]
    /\ UNCHANGED <<situation, setting, holding, command, owed, strayed>>

\* The page drawn again.
Redraw(t) ==
    /\ sending[t] = <<>> /\ cards[t] # Gone
    /\ cards' = [cards EXCEPT ![t] = IF @.id \in idsIn(setting) THEN cardFor(goalOf(@.id, setting)) ELSE Gone]
    /\ cards' # cards
    /\ UNCHANGED <<situation, setting, sending, holding, replied, command, owed, strayed, tries>>

-----------------------------------------------------------------------------
(* scripts/set-goals *)

\* Entries this checkout cannot parse are not its to rewrite.
unparsed(s) == s = Junk \/ Len(parseGoals(s)) < Len(entriesIn(s))

slugify(name, taken) == CHOOSE id \in {<<name, n>> : n \in 1..Cardinality(taken) + 1} :
                           id \notin taken /\ \A m \in 1..id[2] - 1 : <<name, m>> \in taken

\* The target is the sum of its two parts as they are printed.
targetFor(price, down, closing) == roundOf(price * down, 100) + roundOf(price * closing, 100)
targetOf(ask) == IF ask.price = None THEN ask.target ELSE targetFor(ask.price, ask.down, ask.closing)
refusesAsk(ask) ==
    \/ (ask.price = None) = (ask.target = None)
    \/ ask.price # None /\ (ask.price <= 0 \/ ask.down <= 0 \/ ask.down > 100 \/ ask.closing < 0 \/ ask.closing > 100)
    \/ targetOf(ask) <= 0
    \/ ~ask.cash /\ ask.needles = <<>>
    \/ \E i \in DOMAIN ask.needles : Cardinality(ask.needles[i]) # 1
\* Each needle's one account, as often as needles match it.
matched(needles) == [i \in DOMAIN needles |-> CHOOSE a \in needles[i] : TRUE]
declared(ask, taken) ==
    [id |-> slugify(ask.name, taken), name |-> ask.name, target |-> targetOf(ask), month |-> ask.month,
     cash |-> ask.cash, accounts |-> matched(ask.needles), pace |-> None, reads |-> TRUE]

added(s, ask) == LET goals == parseGoals(s) IN Append(goals, declared(ask, {goals[i].id : i \in DOMAIN goals}))
hitsOf(s, names) == {i \in DOMAIN parseGoals(s) : parseGoals(s)[i].name \in names}
without(goals, id) == SelectSeq(goals, LAMBDA g : g.id # id)
removed(s, names) == without(parseGoals(s), parseGoals(s)[CHOOSE i \in hitsOf(s, names) : TRUE].id)

holdsCommand(edit, next) ==
    /\ command = None /\ tries.saves + tries.commands < MaxEdits /\ ~unparsed(setting)
    /\ command' = [read |-> setting, next |-> next, edit |-> edit]
    /\ tries' = [tries EXCEPT !.commands = @ + 1]
    /\ UNCHANGED <<situation, setting, cards, sending, holding, replied, owed, strayed>>
AddGoal(ask) == ~refusesAsk(ask) /\ holdsCommand([add |-> ask, drop |-> Gone], added(setting, ask))
RemoveGoal(names) ==
    /\ Cardinality(hitsOf(setting, names)) = 1
    /\ holdsCommand([add |-> None, drop |-> parseGoals(setting)[CHOOSE i \in hitsOf(setting, names) : TRUE].id],
                    removed(setting, names))
SaveCommand ==
    /\ command # None
    /\ setting' = command.next
    /\ strayed' = (strayed \/ setting # command.read)
    /\ owed' = IF command.edit.add # None THEN added(owed, command.edit.add)
               ELSE without(parseGoals(owed), command.edit.drop)
    /\ command' = None
    /\ UNCHANGED <<situation, cards, sending, holding, replied, tries>>

\* What the command lists as saved.
listedSaved(goal) ==
    IF goal.cash THEN balances({a \in situation.accounts : countsAsCash(a, situation.extraIds)})
    ELSE balancesOf(SelectSeq(goal.accounts, LAMBDA id : id \in idsOf(situation.accounts)), situation.accounts)

SavingsGoalsNext ==
    \/ \E t \in CardTabs :
          \/ \E p \in Typed : CommitPace(t, p)
          \/ UseMeasured(t) \/ ReadGoals(t) \/ WriteGoals(t) \/ ReadReply(t) \/ ReplyLost(t) \/ Redraw(t)
    \/ \E ask \in AddAsks : AddGoal(ask)
    \/ \E names \in RemoveAsks : RemoveGoal(names)
    \/ SaveCommand

SavingsGoalsSpec == SavingsGoalsInit /\ [][SavingsGoalsNext]_sgvars

-----------------------------------------------------------------------------
\* Every accepted edit of one goal leaves every other entry as it was, an
\* entry no reader of this checkout understands included: whatever saves and
\* commands were made in whatever order, the Setting is what they come to made
\* one at a time, as long as none was written over what it had not read.
EditsKeepTheRest == ~strayed => setting = owed
\* An entry this checkout cannot read is never dropped, overlap or none.
UnreadKept ==
    \A i \in DOMAIN entriesIn(owed) : ~owed[i].reads => \E j \in DOMAIN entriesIn(setting) : setting[j] = owed[i]

\* A card at rest that reports no failure shows the pace its goal has, if no
\* edit was made from a page the Setting had left.
CardTellsTheSetting ==
    ~strayed /\ tries.lost = 0 /\ tries.commands = 0 =>
        \A t \in CardTabs :
           cards[t] # Gone /\ (\A u \in CardTabs : sending[u] = <<>>) =>
              (cards[t].stored = storedNow(cards[t].id) => cards[t].pace = cards[t].stored)

\* What a goal that lands late is asked to save more lands it by the end of
\* its month, and less in the steps it is asked in would not ("the figure
\* printed really does land on time"); nothing is asked of one on time, and a
\* faster pace never lands later.
AskLands(a, goal, paces) ==
    \A p \in paces :
       LET ask == shortfallOf(a, goal.month, p, situation.now)
           landed(r) == projectLanding(a.remaining, whole(r), situation.now).at
           saves(r) == r * (monthStart(goal.month + 1) - situation.now) >= a.remaining * MONTH
           r == IF p = None THEN a.measured ELSE p
       IN /\ ask # None => saves(r + ask.extra) /\ ~saves(r + ask.extra - SHORTFALL_STEP)
          /\ \A q \in paces \ {None} : r # None /\ a.remaining > 0 => (r > 0 /\ q > r => landed(q) <= landed(r))

inAccounts(goal) == balances({x \in situation.accounts : x.id \in ToSet(goal.accounts)})

\* The figures are of one fund: cash after the cards it pays, told once; a
\* goal of named accounts what they hold, where it names none twice; a reached
\* goal is asked nothing, a refused one lands nowhere; and the record its chart
\* draws runs month by month to the balance beside it.
FundTold(goal, a, inputs) ==
    LET ids == IF goal.cash THEN inputs.cashFund ELSE goal.accounts
        sum == summariseBalances(situation.accounts, situation.extraIds)
        record == recordThroughToday(fundHistory(inputs.months, ids, WINDOW_MONTHS + 1), situation.period, a.saved)
        grown == fundGrowthOver(inputs.months, ids, inputs.window.used)
        kept == SelectSeq(fundHistory(inputs.months, ids, Len(inputs.months)),
                          LAMBDA m : inputs.window.used # <<>> /\ m.at >= inputs.window.used[1] - 1)
    IN /\ goal.cash /\ a.refusal # "NO_ACCOUNTS" => a.saved = sum.cash + sum.cards /\ (a.saved < sum.cash => a.cardsOwed > 0)
       /\ ~goal.cash /\ IsInjective(goal.accounts) /\ a.refusal # "NO_ACCOUNTS" => a.saved = inAccounts(goal)
       /\ a.reached \/ a.refusal # None => a.lands = None
       /\ a.reached => shortfallOf(a, goal.month, None, situation.now) = None
       /\ \A i \in 1..Len(record) - 1 : record[i].at < record[i + 1].at
       /\ record[Len(record)] = [at |-> situation.period, value |-> a.saved]
       /\ grown # None => kept # <<>> /\ grown = kept[Len(kept)].value - kept[1].value

\* A goal always says where it stands: a date past its month, with a month or
\* more of it left, comes with what to do about it, a cash fund's with what the
\* cash in fact did, and no date comes with its reason.
CardSays(goal, a, grown) ==
    LET shows == cardShows(goal, a, committed(a), grown)
        landing == projectLanding(a.remaining, whole(committed(a)), situation.now)
        late == monthsAfterTarget(landsMonth(landing), goal.month) > 0 /\ monthStart(goal.month + 1) - situation.now >= MONTH
    IN /\ shows # {} /\ ("field" \in shows) = canSet(a)
       /\ "when" \in shows /\ goal.month # None => (late <=> "behind" \in shows)
       /\ "when" \in shows /\ goal.cash /\ grown # None => "reconciliation" \in shows
       /\ "when" \notin shows => shows \intersect {"reached", "no date", "NO_ACCOUNTS", "TOO_FEW_MONTHS"} # {}

FiguresTold(inputs) ==
    \A i \in DOMAIN parseGoals(setting) :
       LET goal == parseGoals(setting)[i] a == assessedGoals(goal, goal.pace, inputs)
       IN /\ AskLands(a, goal, Typed \union {goal.pace}) /\ FundTold(goal, a, inputs)
          /\ CardSays(goal, a, fundGrowthOver(inputs.months, inputs.cashFund, inputs.window.used))
          /\ ~goal.cash => listedSaved(goal) = a.saved \/ a.refusal = "NO_ACCOUNTS"

SavingsGoalsKeepTheirWord ==
    /\ EditsKeepTheRest /\ UnreadKept /\ CardTellsTheSetting
    /\ sending = NoSends /\ command = None => FiguresTold(inputsNow)

\* Stated, and not so: two words that match one account put it in a goal twice,
\* and its balance counts twice (set-goals.ts:275-286, goals.ts:344-347; an
\* entry's accounts are the ones "whose balances count as this goal's fund").
FundCountsOnce ==
    \A i \in DOMAIN parseGoals(setting) :
       LET goal == parseGoals(setting)[i]
       IN ~goal.cash => assessedGoals(goal, goal.pace, inputsNow).saved \in {0, inAccounts(goal)}

\* The amount a card asks for, typed into the field that shows it, is on time.
AskedIsOnTime ==
    \A t \in CardTabs : cards[t] # Gone /\ sending[t] = <<>> =>
       LET a == figures(t) ask == shortfallOf(a, cards[t].of.month, cards[t].pace, situation.now)
           pace == suggested(a, ask)
           set == IF sameAmount(pace, a.measured) THEN None ELSE pace
       IN canSet(a) /\ ask # None => shortfallOf(a, cards[t].of.month, set, situation.now) = None
=============================================================================
