-------------------------------- MODULE Nudges --------------------------------
(***************************************************************************)
(* Overview's "Do this next" (ui/nextAction.ts, ui/overview.ts): the one   *)
(* thing most urgent among what the app's other pages ask for, hidden once *)
(* Mark done is pressed (app/actions.ts) until newer data is in; and the   *)
(* rest of that page (app/page.tsx, MonthRecap, DoThisNext), which says    *)
(* each finding in one place.                                              *)
(*                                                                         *)
(* An instant is a number, DAY of them to the day.  What is asked is a     *)
(* record: alerts [plan, kind, daysAway, last], a set; savings goals [id,  *)
(* extra, fund], a set, with extra None on time; idle [yearly, from] and   *)
(* keeping [end], or None; rows to review [id, p2p, imported], a set; and  *)
(* accounts, [names -> [date, polls]].                                     *)
(***************************************************************************)
EXTENDS Outlook

CONSTANTS
    DAY, NOON,
    DUE_WITHIN_DAYS, STALE_DISPLAY_DAYS,
    KEPT,               \* entries of the Setting kept
    FirstAsked,
    OverviewTabs,
    LastInstant, MaxNews, MaxMarks   \* bounds

VARIABLES
    instant,
    askedNow,           \* what the other pages would ask for now
    syncedAt,           \* the last sync that ended well
    done,               \* the Setting: [key, at], oldest first, or Absent, or Junk
    drawn,              \* [tabs -> the key of the lead the page was drawn with, or None]
    marking,            \* [tabs -> the write its Mark done has still to make, or None]
    marked,             \* [keys -> when Mark done answered that it was, or None]
    happened            \* [news, marks]

nvars == <<instant, askedNow, syncedAt, done, drawn, marking, marked, happened>>

-----------------------------------------------------------------------------
(* overview.ts, staleAction.ts *)

Nudge(key, kind, order, at) == [key |-> key, kind |-> kind, order |-> order, asOf |-> at]

lagDays(name) ==
    IF askedNow.accounts[name].polls THEN larger(0, (syncedAt - askedNow.accounts[name].date) \div DAY) ELSE 0
behindNow == {name \in DOMAIN askedNow.accounts : lagDays(name) >= STALE_DISPLAY_DAYS}
staleNames == {name \in behindNow : askedNow.accounts[name].polls}
newestEntry(instants) == Max(instants \union {0})
dateOf(names) == newestEntry({askedNow.accounts[n].date : n \in names \intersect DOMAIN askedNow.accounts})
toReview(p2p) == {r \in askedNow.rows : r.p2p = p2p}
importedLast(rows) == newestEntry({r.imported : r \in rows})

\* A rise about to renew, and after every one of them a bill nobody split.
alertNudge(a) ==
    Nudge(<<"recurring", a.plan, a.kind>>, "recurring", IF a.kind = "Not split" THEN DUE_WITHIN_DAYS + 1 ELSE a.daysAway,
          DAY * a.last + NOON)
urgent(a) == a.kind = "Not split" \/ (a.kind = "Price up" /\ a.daysAway # None /\ a.daysAway <= DUE_WITHIN_DAYS)

nudgeCandidates ==
    {alertNudge(a) : a \in {b \in askedNow.alerts : urgent(b)}}
    \union {Nudge(<<"goal", g.id>>, "goal", -g.extra, dateOf(g.fund)) : g \in {h \in askedNow.goals : h.extra # None}}
    \union (IF askedNow.idle = None THEN {}
            ELSE {Nudge(<<"idle-cash">>, "idle", -askedNow.idle.yearly, dateOf(askedNow.idle.from))})
    \union (IF askedNow.keeping = None THEN {} ELSE {Nudge(<<"keep-up">>, "keepUp", 0, askedNow.keeping.end)})
    \union (IF toReview(FALSE) = {} THEN {} ELSE {Nudge(<<"uncategorized">>, "uncategorized", 0, importedLast(toReview(FALSE)))})
    \union (IF toReview(TRUE) = {} THEN {} ELSE {Nudge(<<"p2p">>, "p2p", 0, importedLast(toReview(TRUE)))})
    \union (IF staleNames = {} THEN {} ELSE {Nudge(<<"stale", staleNames>>, "stale", 0, dateOf(staleNames))})

-----------------------------------------------------------------------------
(* nextAction.ts *)

RANK == <<"recurring", "goal", "idle", "keepUp", "uncategorized", "p2p", "stale">>
rankOf(kind) == CHOOSE i \in DOMAIN RANK : RANK[i] = kind
comesFirst(a, b) == rankOf(a.kind) < rankOf(b.kind) \/ (a.kind = b.kind /\ a.order < b.order)
topNudge(nudges) == CHOOSE n \in nudges : \A m \in nudges : ~comesFirst(m, n)

parseDone(s) == IF s = Absent \/ s = Junk THEN <<>> ELSE s

\* Until something newer than the click is in.
isHidden(n, entries) == \E i \in DOMAIN entries : entries[i].key = n.key /\ n.asOf <= entries[i].at

rankNudges(nudges) == [n \in nudges |-> Cardinality({m \in nudges : comesFirst(m, n)})]
nextOf(nudges) == [lead |-> IF nudges = {} THEN None ELSE topNudge(nudges),
                   then |-> {n \in nudges : rankNudges(nudges)[n] \in 1..2}]
nextAction(candidates, entries) == nextOf({n \in candidates : ~isHidden(n, entries)})

\* Refused for what the page would not show now.  An entry that no longer
\* hides anything goes.
stillHides(entry, candidates) == \E n \in candidates : n.key = entry.key /\ isHidden(n, <<entry>>)
markDone_OneEntry(entries, key, at, candidates) ==
    IF \A n \in candidates : n.key = key => isHidden(n, entries) THEN None ELSE <<[key |-> key, at |-> at]>>
markDone(entries, key, at, candidates) ==
    IF \A n \in candidates : n.key = key => isHidden(n, entries) THEN None
    ELSE lastOf(Append(SelectSeq(entries, LAMBDA d : d.key # key /\ stillHides(d, candidates)), [key |-> key, at |-> at]), KEPT)

-----------------------------------------------------------------------------
(* What the page says, once each. *)

\* What the lead says is not said again below it, nor in the stale alert.
pageWith(next) ==
    LET leads(kind) == next.lead # None /\ next.lead.kind = kind
        rowsSaid == {p2p \in BOOLEAN : toReview(p2p) # {} /\ ~leads(IF p2p THEN "p2p" ELSE "uncategorized")}
        behindSaid == {name \in behindNow : ~(leads("stale") /\ askedNow.accounts[name].polls)}
    IN [lead |-> next.lead, then |-> next.then,
        review |-> {<<"rows", p2p>> : p2p \in rowsSaid} \union {<<"behind", name>> : name \in behindSaid},
        staleAlert |-> IF leads("stale") THEN {} ELSE staleNames,
        checked |-> DOMAIN askedNow.accounts # {}]
nextNow == nextAction(nudgeCandidates, parseDone(done))

\* What DoThisNext draws, and MonthRecap of what waits on the reader.
slotSays(page) == IF page.lead # None THEN page.lead.key ELSE <<IF page.checked THEN "nothing" ELSE "no sync yet">>
recapSays(page) == IF page.review = {} THEN "nothing waits" ELSE "items"

-----------------------------------------------------------------------------
(* The tabs, Mark done and the data. *)

NudgesInit ==
    /\ instant = 2 * DAY
    /\ askedNow \in FirstAsked /\ syncedAt = instant
    /\ done \in {Absent, Junk}
    /\ drawn = [t \in OverviewTabs |-> None] /\ marking = [t \in OverviewTabs |-> None]
    /\ marked = <<>> /\ happened = [news |-> 0, marks |-> 0]

\* What an answer said is done is done until newer data, or nothing to do.
stillDone(m, candidates) ==
    Restrict(m, {n.key : n \in {c \in candidates : c.key \in DOMAIN m /\ c.asOf <= m[c.key]}})
Recall(m) == marked' = IF m = <<>> THEN m ELSE stillDone(m, nudgeCandidates')

leadKey(next) == IF next.lead = None THEN None ELSE next.lead.key
Open(t) ==
    /\ marking[t] = None
    /\ \E next \in {nextNow} : drawn[t] # leadKey(next) /\ drawn' = [drawn EXCEPT ![t] = leadKey(next)]
    /\ UNCHANGED <<instant, askedNow, syncedAt, done, marking, marked, happened>>

\* The server reads the page's data anew, and answers or has a write to make.
PressDone(t) ==
    /\ drawn[t] # None /\ marking[t] = None /\ happened.marks < MaxMarks
    /\ \E key \in {drawn[t]}, next \in {markDone(parseDone(done), drawn[t], instant, nudgeCandidates)} :
          marking' = [marking EXCEPT ![t] = IF next = None THEN None ELSE [key |-> key, at |-> instant, value |-> next, knew |-> DOMAIN marked]]
    /\ happened' = [happened EXCEPT !.marks = @ + 1]
    /\ UNCHANGED <<instant, askedNow, syncedAt, done, drawn, marked>>

\* The whole Setting is written from what was read: a mark another tab made
\* meanwhile goes, and is not held against the page below.
WriteDone(t) ==
    /\ marking[t] # None
    /\ done' = marking[t].value
    /\ marking' = [marking EXCEPT ![t] = None]
    /\ UNCHANGED <<instant, askedNow, syncedAt, happened>>
    /\ drawn' = [drawn EXCEPT ![t] = None]
    /\ LET kept == Restrict(marked, DOMAIN marked \intersect marking[t].knew)
       IN Recall([key \in {marking[t].key} \union DOMAIN kept |-> IF key = marking[t].key THEN marking[t].at ELSE kept[key]])
ServerGone(t) ==
    /\ marking[t] # None /\ marking' = [marking EXCEPT ![t] = None]
    /\ UNCHANGED <<instant, askedNow, syncedAt, done, drawn, marked, happened>>

News ==
    /\ happened.news < MaxNews /\ happened' = [happened EXCEPT !.news = @ + 1]
    /\ Recall(marked) /\ UNCHANGED <<instant, done, drawn, marking>>

\* A sync brings some balances, of now or of the day before, and a row.
Sync(brought, lag, p2p) ==
    /\ syncedAt' = instant
    /\ LET date == instant - lag
           moved(n) == IF n \in brought /\ askedNow.accounts[n].polls THEN larger(askedNow.accounts[n].date, date)
                       ELSE askedNow.accounts[n].date
           row == [id |-> instant, p2p |-> p2p, imported |-> instant]
       IN askedNow' = [askedNow EXCEPT !.accounts = [n \in DOMAIN @ |-> [@[n] EXCEPT !.date = moved(n)]],
                                       !.rows = IF p2p = None THEN @ ELSE @ \union {row}]
    /\ News
\* A plan charges, on the day it is; its rise is renewed a month on.
Charge(a) ==
    /\ a.last < instant \div DAY
    /\ askedNow' = [askedNow EXCEPT !.alerts = (@ \ {a}) \union {[a EXCEPT !.last = instant \div DAY, !.daysAway = None]}]
    /\ UNCHANGED syncedAt /\ News
\* The reader acts on it, on the page that asks.
Settle(kind) ==
    /\ CASE kind = "rows" -> askedNow.rows # {} /\ \E r \in askedNow.rows : askedNow' = [askedNow EXCEPT !.rows = @ \ {r}]
         [] kind = "goals" -> \E g \in askedNow.goals : g.extra # None
                                 /\ askedNow' = [askedNow EXCEPT !.goals = (@ \ {g}) \union {[g EXCEPT !.extra = None]}]
         [] OTHER -> askedNow.idle # None /\ askedNow' = [askedNow EXCEPT !.idle = None]
    /\ UNCHANGED syncedAt /\ News
Later ==
    /\ instant < LastInstant /\ instant' = instant + 1
    /\ UNCHANGED <<askedNow, syncedAt, done, drawn, marking, marked, happened>>

NudgesNext ==
    \/ \E t \in OverviewTabs : Open(t) \/ PressDone(t) \/ WriteDone(t) \/ ServerGone(t)
    \/ \E brought \in SUBSET DOMAIN askedNow.accounts, lag \in {0, DAY}, p2p \in {None, FALSE} : Sync(brought, lag, p2p)
    \/ \E a \in askedNow.alerts : Charge(a)
    \/ \E kind \in {"rows", "goals", "idle"} : Settle(kind)
    \/ Later

-----------------------------------------------------------------------------
\* What the server answered was marked done stays hidden while nothing newer
\* is in for it, whatever else was marked since.
MarkedStaysHidden ==
    marked # <<>> => \A n \in nudgeCandidates : n.key \in DOMAIN marked => isHidden(n, parseDone(done))

SaidOnceOn(page) ==
    LET leadSays == IF page.lead = None THEN {}
                    ELSE CASE page.lead.kind = "uncategorized" -> {<<"rows", FALSE>>}
                           [] page.lead.kind = "p2p" -> {<<"rows", TRUE>>}
                           [] page.lead.kind = "stale" -> {<<"behind", name>> : name \in page.lead.key[2]}
                           [] OTHER -> {}
    IN /\ leadSays \intersect page.review = {}
       /\ leadSays \union page.review = {<<"rows", p2p>> : p2p \in {q \in BOOLEAN : toReview(q) # {}}}
                                        \union {<<"behind", name>> : name \in behindNow}
       /\ (page.staleAlert = staleNames) # (page.lead # None /\ page.lead.kind = "stale" /\ staleNames # {})


\* One finding, one place on the screen, and none lost: a queue of rows and an
\* account behind are each said once, by the lead or in the panel below it, and
\* the stale alert speaks exactly when the lead does not (app/page.tsx).
SaidOnce == \A page \in {pageWith(nextNow)} : SaidOnceOn(page)

\* Overview says each finding once, and what was marked done stays so.
NudgesKeepTheirWord == MarkedStaysHidden /\ SaidOnce

\* Stated by the sources, and not so: a press on what stands on data dated after
\* it (a charge of today, dated at noon, pressed in the morning) is answered as
\* done and hides nothing (nextAction.ts, isHidden).
PressedIsHidden ==
    [][\A t \in OverviewTabs : (marking[t] = None /\ marking'[t] # None)
          => \A n \in nudgeCandidates' : n.key = marking'[t].key => isHidden(n, marking'[t].value)]_nvars
\* And so is this not: on days 1 to 7 the recap says nothing waits on the reader
\* while the lead above it asks for something.
RecapKnowsTheLead == \A page \in {pageWith(nextNow)} : recapSays(page) = "nothing waits" => slotSays(page) \in {<<"nothing">>, <<"no sync yet">>}
=============================================================================
