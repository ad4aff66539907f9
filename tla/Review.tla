-------------------------------- MODULE Review --------------------------------
(***************************************************************************)
(* What the bulk review proposes: the backlog grouped by payee             *)
(* (sync/grouping.ts), and for each payee the category its wording or its  *)
(* past says (sync/groupSuggest.ts, p2pSuggest.ts, payeeWords.ts).  Then   *)
(* the review itself (components/GroupedReview.tsx): one decision per      *)
(* payee, staged in the browser, written as a rule and applied to the      *)
(* payee's rows (app/transactions/actions.ts), singly or all at once, with *)
(* an undo of the last.  A tab's actions run one after another on the      *)
(* server; an answer may be lost on its way back, and rows arrive in       *)
(* between.                                                                *)
(*                                                                         *)
(* A description or a merchant is a sequence of words.  A row is [id,      *)
(* amount, day, desc, merchant, says], `says' what its wording is of.      *)
(***************************************************************************)
EXTENDS Stats, FiniteSets, Functions, Sequences, TLC

CONSTANTS
    Rails,          \* P2P_PATTERN: words that name a rail
    RailWords,      \* RAIL_WORDS: its direction words
    Noise,          \* NOISE_MARKERS: reference codes, dates, long numbers
    Ref,            \* the one of them a sender's memo may follow
    Marks,          \* punctuation, which a key leaves out
    Letters,        \* the words of letters, of two and more
    NameWords,      \* those of them of four and more that are no place
    Bookkeeping,    \* BOOKKEEPING: the bank's own words
    MemoWords,      \* GENERIC_WORDS: [word -> the category the pack gives it]
    Unknown,        \* no category
    FirstLedgers,    \* the rows there may be
    Arriving,        \* rows a sync brings in
    FirstDecided,    \* [ids -> [cat, source]] at first
    FirstRulesKept,  \* the user rules there are, oldest first
    Options,         \* the categories of the select
    ShortKeys,       \* payees whose key is too short to make a rule from
    MaxSent, MaxLost, MaxTaps

MIN_FAVOURITE == 2
SHARED_WORD_MAX_PAYEES == 3
TWIN_MAX_SIBLINGS == 2

isPayment(t) == (ToSet(t.merchant) \union ToSet(t.desc)) \intersect Rails # {}

-----------------------------------------------------------------------------
(* grouping.ts *)

\* Truncated at the first noise: cutting it from the middle leaves words that
\* do not stand side by side in the description.
payeeKey(desc) ==
    LET cut == SelectInSeq(desc, LAMBDA w : w \in Noise)
    IN SelectSeq(SubSeq(desc, 1, IF cut = 0 THEN Len(desc) ELSE cut - 1), LAMBDA w : w \notin Marks)

beyondRail(words) == SelectSeq(words, LAMBDA w : w \notin Rails \union RailWords)

keysOnDescription(t) ==
    ToSet(payeeKey(t.desc)) \intersect Rails # {} \/ beyondRail(t.merchant) = <<>>

byPayee(t) == isPayment(t) /\ keysOnDescription(t)
keyOf(t) == IF byPayee(t) \/ t.merchant = <<>> THEN payeeKey(t.desc) ELSE t.merchant

\* The name a row is read under, and its merchant's figures are totalled by.
merchantKey(t) ==
    IF byPayee(t) /\ beyondRail(payeeKey(t.desc)) # <<>> THEN payeeKey(t.desc)
    ELSE IF t.merchant # <<>> THEN t.merchant ELSE t.desc

\* The first row of a key decides how its rule matches.
groupByPayee(rows) ==
    LET keys == {keyOf(t) : t \in rows} \ {<<>>}
        of(key) == {t \in rows : keyOf(t) = key}
        first(key) == CHOOSE t \in of(key) : \A u \in of(key) : t.id <= u.id
    IN {[key |-> k, field |-> IF byPayee(first(k)) THEN "desc" ELSE "merchant",
         p2p |-> isPayment(first(k)), rows |-> of(k)] : k \in keys}

\* rules.ts CONTAINS: whole words side by side.
contains(words, part) ==
    part # <<>> /\ \E i \in 0..(Len(words) - Len(part)) : SubSeq(words, i + 1, i + Len(part)) = part
matches(rule, t) == contains(t[rule.field], rule.key)

-----------------------------------------------------------------------------
(* payeeWords.ts, and the evidence of groupSuggest.ts *)

letterWords(key) == SelectSeq(key, LAMBDA w : w \in Letters)
nameWords(key) ==
    LET named == SelectSeq(letterWords(key), LAMBDA w : w \notin Bookkeeping)
    IN ToSet(SubSeq(named, 1, smaller(2, Len(named)))) \intersect NameWords

\* Two spellings of one store meet here; <<>> is no name.
skeleton(key) ==
    LET words == letterWords(key)
    IN IF words = <<>> \/ words[1] \in Bookkeeping THEN <<>> ELSE SubSeq(words, 1, smaller(2, Len(words)))

\* The one category of most of the rows: none on a tie.
clearMajority(filed) ==
    LET count(c) == Cardinality({h \in filed : h.cat = c})
        winners == {c \in {h.cat : h \in filed} : \A d \in {h.cat : h \in filed} \ {c} : count(c) > count(d)}
    IN IF winners = {} THEN Unknown ELSE CHOOSE c \in winners : TRUE

\* What purchases say, payee by payee; persons are not among them.
payeeCategory(history) ==
    LET bought == {h \in history : ~isPayment(h)}
        all == {[key |-> k, cat |-> clearMajority({h \in bought : keyOf(h) = k})] : k \in {keyOf(h) : h \in bought}}
    IN {p \in all : p.key # <<>> /\ p.cat # Unknown}

memoOf(desc) ==
    LET at == SelectInSeq(desc, LAMBDA w : w = Ref) IN IF at = 0 THEN <<>> ELSE SubSeq(desc, at + 1, Len(desc))

\* Three and more charges of one amount, 25 to 35 days apart.
monthly(rows) ==
    LET days == ascending(SetToSeq({t.day : t \in rows}))
    IN /\ Cardinality(rows) >= 3 /\ Len(days) = Cardinality(rows)
       /\ \A t, u \in rows : t.amount < 0 /\ t.amount = u.amount
       /\ \A i \in 1..(Len(days) - 1) : days[i + 1] - days[i] \in 25..35

-----------------------------------------------------------------------------
(* p2pSuggest.ts: one payment *)

sameWay(a, b) == (a > 0) = (b > 0)
pastOf(t, history) ==
    {h \in history : payeeKey(h.desc) = payeeKey(t.desc) /\ payeeKey(h.desc) # <<>> /\ sameWay(h.amount, t.amount)}
\* Within a twentieth, the newest.
sameAmount(t, past) ==
    LET near == {h \in past : 20 * abs(abs(h.amount) - abs(t.amount)) <= abs(t.amount)}
    IN IF near = {} THEN Unknown ELSE (CHOOSE h \in near : \A g \in near : g.day <= h.day).cat
\* Used at least twice, and more than any other.
favourite(past) ==
    LET most == clearMajority(past)
    IN IF most # Unknown /\ Cardinality({h \in past : h.cat = most}) >= MIN_FAVOURITE THEN most ELSE Unknown

firstOf(found) ==
    LET at == SelectInSeq(found, LAMBDA c : c # Unknown) IN IF at = 0 THEN Unknown ELSE found[at]

\* `rules' is in the order the database keeps them: all of one priority.
userRuleFor(rules, t) ==
    LET at == SelectInSeq(rules, LAMBDA r : r.cat # "Transfer" /\ matches(r, t))
    IN IF at = 0 THEN Unknown ELSE rules[at].cat

suggestP2PCategory(t, history, rules) ==
    LET past == pastOf(t, history)
    IN firstOf(<<sameAmount(t, past), userRuleFor(rules, t), favourite(past)>>)

-----------------------------------------------------------------------------
(* groupSuggest.ts: one payee *)

Strong(cat) == [cat |-> cat, strong |-> TRUE]
Guess(cat) == [cat |-> cat, strong |-> FALSE]
Unsuggested == [cat |-> Unknown, strong |-> FALSE]

memoSays(g) ==
    LET said == UNION {ToSet(memoOf(t.desc)) : t \in g.rows} \intersect DOMAIN MemoWords
    IN IF said = {} THEN Unknown ELSE MemoWords[CHOOSE w \in said : TRUE]

\* Every waiting payment of the person agrees.
eachSays(g, history, rules) ==
    LET each == {suggestP2PCategory(t, history, rules) : t \in g.rows}
    IN IF Cardinality(each) = 1 THEN CHOOSE c \in each : TRUE ELSE Unknown

forPerson(g, history, rules) ==
    IF memoSays(g) # Unknown THEN Strong(memoSays(g))
    ELSE IF eachSays(g, {h \in history : isPayment(h)}, rules) # Unknown
         THEN Guess(eachSays(g, {h \in history : isPayment(h)}, rules))
         ELSE Unsuggested

twinOf(g, payees) ==
    LET like == {p \in payees : p.key # g.key /\ skeleton(p.key) = skeleton(g.key)}
    IN IF skeleton(g.key) = <<>> \/ Cardinality(like) > TWIN_MAX_SIBLINGS THEN Unknown ELSE clearMajority(like)

wordingSays(g) ==
    IF (\A t \in g.rows : t.amount > 0) /\ \E what \in {"interest", "deposit"} : \A t \in g.rows : t.says = what
    THEN "Income" ELSE Unknown

\* The first of the name's words few enough payees share, all of one category.
sharedWord(g, payees) ==
    LET sharing(w) == {p \in payees : p.key # g.key /\ w \in nameWords(p.key)}
        tells == {w \in nameWords(g.key) : /\ Cardinality(sharing(w)) \in 1..SHARED_WORD_MAX_PAYEES
                                           /\ Cardinality({p.cat : p \in sharing(w)}) = 1}
        at == SelectInSeq(g.key, LAMBDA w : w \in tells)
    IN IF at = 0 THEN Unknown ELSE (CHOOSE p \in sharing(g.key[at]) : TRUE).cat

forShop(g, history, payees) ==
    LET before == clearMajority({h \in history : ~isPayment(h) /\ keyOf(h) = g.key})
        sure == firstOf(<<before, twinOf(g, payees), wordingSays(g),
                          IF monthly(g.rows) THEN "Subscriptions" ELSE Unknown>>)
    IN IF sure # Unknown THEN Strong(sure)
       ELSE IF sharedWord(g, payees) # Unknown THEN Guess(sharedWord(g, payees)) ELSE Unsuggested

suggestGroupCategory(g, history, payees, rules) ==
    IF g.p2p THEN forPerson(g, history, rules) ELSE forShop(g, history, payees)

\* What a render of the queue shows: its groups, each with what it proposes.
proposed(waiting, history, payees, rules) ==
    {[g |-> g, s |-> suggestGroupCategory(g, history, payees, rules)] : g \in groupByPayee(waiting)}
renderQueue(waiting, history, rules) == proposed(waiting, history, payeeCategory(history), rules)

-----------------------------------------------------------------------------
\* The rule a payee's decision writes matches every row it is written for,
\* where the row names a merchant and its description holds no punctuation
\* ("so the rule silently matches nothing", grouping.ts), and no waiting row
\* with a name is left out of the queue or in it twice, or read under another
\* ("the row you read and the group you decide on name the same payee").
RulesReachTheirGroup(queue, waiting) ==
    /\ \A x \in queue, t \in waiting :
          t \in x.g.rows /\ t.merchant # <<>> /\ ToSet(t.desc) \intersect Marks = {} => matches(x.g, t)
    /\ \A t \in waiting : keyOf(t) # <<>> => Cardinality({x \in queue : t \in x.g.rows}) = 1
    /\ \A x \in queue : \A t \in x.g.rows :
          t.merchant # <<>> /\ beyondRail(payeeKey(t.desc)) # <<>> => merchantKey(t) = x.g.key

\* "A P2P payee is never matched to another by spelling or by a shared word":
\* what persons were paid for says nothing of a shop's payee, and no shop's
\* past, nor another person's, speaks for a person.
PersonsStayApart(queue, history, rules) ==
    \A x \in queue :
        x.s = suggestGroupCategory(x.g, {h \in history : isPayment(h) = x.g.p2p /\ (x.g.p2p => keyOf(h) = x.g.key)},
                                   payeeCategory({h \in history : ~isPayment(h)}), rules)
-----------------------------------------------------------------------------

VARIABLES
    there,      \* the rows of the ledger
    decided,    \* [row ids -> [cat, source]]
    rules,      \* user rules, a sequence of [key, field, cat]
    queueShown,      \* the queue as last rendered
    picked,     \* [keys -> the choice the person made, Unknown for cleared]
    skipped, showSkipped,
    sent,       \* the tab's requests: the first is on the server
    answers,    \* what came back and is not read
    last,       \* the undo offered: a sequence of at most one
    counts,     \* [sent, lost, taps]
    said        \* what the person last said of a payee, and nobody forgot

rvars == <<there, decided, rules, queueShown, picked, skipped, showSkipped, sent, answers, last, counts, said>>

-----------------------------------------------------------------------------
(* The server. *)

waitingRows(rows, d) == {t \in rows : d[t.id].cat = Unknown}
\* A transfer carries no category.
historyOf(rows, d) == {t @@ [cat |-> d[t.id].cat] : t \in {u \in rows : d[u.id].cat \notin {Unknown, "Transfer"}}}
render(rows, d, rs) == renderQueue(waitingRows(rows, d), historyOf(rows, d), rs)

\* applyRules: the first rule in the order they were made; a payment only by
\* one that marks it a transfer.
ruleFor(t, rs) ==
    LET at == SelectInSeq(rs, LAMBDA r : matches(r, t) /\ (isPayment(t) => r.cat = "Transfer"))
    IN IF at = 0 THEN Unknown ELSE rs[at].cat
reapplyRules(rows, d, rs) ==
    [i \in DOMAIN d |->
        LET mine == {t \in rows : t.id = i}
        IN IF \E t \in mine : d[i].source # "MANUAL" /\ ruleFor(t, rs) # Unknown
           THEN [cat |-> ruleFor(CHOOSE t \in mine : TRUE, rs), source |-> "RULE"]
           ELSE d[i]]

\* A person's waiting payments are confirmed by the decision itself.
confirmP2PMatches(rows, d, batch) ==
    [i \in DOMAIN d |->
        LET mine == {t \in rows : t.id = i /\ d[i].cat = Unknown /\ d[i].source # "MANUAL" /\ isPayment(t)}
            hit == IF mine = {} THEN Unknown ELSE userRuleFor(batch, CHOOSE t \in mine : TRUE)
        IN IF hit = Unknown THEN d[i] ELSE [cat |-> hit, source |-> "MANUAL"]]

sameRule(r, q) == r.key = q.key /\ r.field = q.field
upserted(rs, batch) ==
    LET decision(r) == SelectLastInSeq(batch, LAMBDA q : sameRule(r, q))
        kept == [i \in DOMAIN rs |-> IF decision(rs[i]) = 0 THEN rs[i] ELSE batch[decision(rs[i])]]
    IN kept \o SelectSeq(batch, LAMBDA q : \A i \in DOMAIN rs : ~sameRule(rs[i], q))

\* What the undo of a batch carries: for each rule what it was, and for each
\* row changed what it held.
snapshot(rs, batch, d, after) ==
    [rules |-> [i \in DOMAIN batch |->
                  [key |-> batch[i].key, field |-> batch[i].field,
                   was |-> LET at == SelectInSeq(rs, LAMBDA r : sameRule(r, batch[i]))
                           IN IF at = 0 THEN Unknown ELSE rs[at].cat]],
     restore |-> [i \in {j \in DOMAIN d : d[j] # after[j]} |-> d[i]]]

\* Rules made by the batch go; the ones it changed get back what they set.
undoneRules(rs, undo) ==
    LET entry(r) == SelectInSeq(undo.rules, LAMBDA q : sameRule(r, q))
        stay == SelectSeq(rs, LAMBDA r : entry(r) = 0 \/ undo.rules[entry(r)].was # Unknown)
    IN [i \in DOMAIN stay |-> IF entry(stay[i]) = 0 THEN stay[i] ELSE [stay[i] EXCEPT !.cat = undo.rules[entry(stay[i])].was]]

\* The three fields its rows had, and of no other row.
restored(undo, d) == undo.restore @@ d

-----------------------------------------------------------------------------
(* The page. *)

group(x) == x.g.key
visibleQueue(q) == {x \in q : showSkipped \/ group(x) \notin skipped}

\* The operator's own pick, cleared ones among them, else a strong suggestion.
choiceOf_AnyStrength(x) == IF group(x) \in DOMAIN picked THEN picked[group(x)] ELSE x.s.cat
choiceOf(x) ==
    IF group(x) \in DOMAIN picked THEN picked[group(x)]
    ELSE IF x.s.strong THEN x.s.cat ELSE Unknown

chosen(q) == {x \in visibleQueue(q) : choiceOf(x) # Unknown}
decision(x) == [key |-> x.g.key, field |-> x.g.field, cat |-> choiceOf(x), sure |-> x.s.strong]

request(does, batch, undo) == [do |-> does, batch |-> batch, undo |-> undo]
NoUndo == [rules |-> <<>>, restore |-> <<>>]

\* Held while apply all or the undo runs, and a row while its own does.
inFlight == {sent[i] : i \in DOMAIN sent} \union {answers[i].of : i \in DOMAIN answers}
busy == \E r \in inFlight : r.do # "one"
locked(x) == busy \/ \E r \in inFlight : r.do = "one" /\ r.batch[1].key = group(x)

ReviewInit ==
    /\ there \in FirstLedgers /\ decided = FirstDecided /\ rules = FirstRulesKept
    /\ queueShown = render(there, FirstDecided, FirstRulesKept)
    /\ picked = <<>> /\ skipped = {} /\ showSkipped = FALSE
    /\ sent = <<>> /\ answers = <<>> /\ last = <<>>
    /\ counts = [sent |-> 0, lost |-> 0, taps |-> 0]
    /\ said = <<>>

tap == counts.taps < MaxTaps /\ counts' = [counts EXCEPT !.taps = @ + 1]

\* From the select, which may be cleared, or by tapping a guess.
Choose(x, c) ==
    /\ x \in visibleQueue(queueShown) /\ ~locked(x)
    /\ choiceOf(x) # c
    /\ picked' = (group(x) :> c) @@ picked
    /\ said' = (group(x) :> c) @@ said
    /\ tap
    /\ UNCHANGED <<there, decided, rules, queueShown, skipped, showSkipped, sent, answers, last>>

NotNow(x) ==
    /\ x \in visibleQueue(queueShown) /\ ~locked(x) /\ choiceOf(x) = Unknown /\ group(x) \notin skipped
    /\ skipped' = skipped \union {group(x)}
    /\ tap
    /\ UNCHANGED <<there, decided, rules, queueShown, picked, showSkipped, sent, answers, last, said>>

ShowSkipped ==
    /\ skipped # {}
    /\ showSkipped' = ~showSkipped
    /\ tap
    /\ UNCHANGED <<there, decided, rules, queueShown, picked, skipped, sent, answers, last, said>>

sendNext(r) == /\ counts.sent < MaxSent
            /\ counts' = [counts EXCEPT !.sent = @ + 1]
            /\ sent' = Append(sent, r)

ApplyOne(x) ==
    /\ x \in chosen(queueShown) /\ ~locked(x)
    /\ sendNext(request("one", <<decision(x)>>, NoUndo))
    /\ UNCHANGED <<there, decided, rules, queueShown, picked, skipped, showSkipped, answers, last, said>>

ApplyAll ==
    /\ Cardinality(chosen(queueShown)) > 1 /\ ~busy
    /\ sendNext(request("all", SetToSeq({decision(x) : x \in chosen(queueShown)}), NoUndo))
    /\ UNCHANGED <<there, decided, rules, queueShown, picked, skipped, showSkipped, answers, last, said>>

Undo ==
    /\ last # <<>> /\ ~busy
    /\ sendNext(request("undo", <<>>, last[1].undo))
    /\ UNCHANGED <<there, decided, rules, queueShown, picked, skipped, showSkipped, answers, last, said>>

-----------------------------------------------------------------------------
(* One request on the server, and its answer. *)

tooShort(batch) == \E i \in DOMAIN batch : batch[i].key \in ShortKeys

answer(r, ok, undo, before) == [of |-> r, ok |-> ok, undo |-> undo, before |-> before, queue |-> render(there, decided', rules')]
ruleWrites(d, rs) == decided' = d /\ rules' = rs

\* categorizeGroups: every decision is checked before any is written.
CategorizeGroups ==
    /\ sent # <<>> /\ Head(sent).do # "undo"
    /\ LET r == Head(sent)
           confirmed == confirmP2PMatches(there, decided, r.batch)
           after == reapplyRules(there, confirmed, upserted(rules, r.batch))
       IN IF tooShort(r.batch)
          THEN /\ UNCHANGED <<decided, rules>>
               /\ answers' = Append(answers, answer(r, FALSE, NoUndo, <<>>))
          ELSE /\ ruleWrites(after, upserted(rules, r.batch))
               /\ answers' = Append(answers, answer(r, TRUE, snapshot(rules, r.batch, decided, after),
                                                    <<[decided |-> decided, rules |-> rules, rows |-> there]>>))
    /\ sent' = Tail(sent)
    /\ UNCHANGED <<there, queueShown, picked, skipped, showSkipped, last, counts, said>>

UndoCategorizeGroup ==
    /\ sent # <<>> /\ Head(sent).do = "undo"
    /\ LET r == Head(sent)
       IN /\ ruleWrites(restored(r.undo, decided), undoneRules(rules, r.undo))
          /\ answers' = Append(answers, answer(r, TRUE, NoUndo, <<>>))
    /\ sent' = Tail(sent)
    /\ UNCHANGED <<there, queueShown, picked, skipped, showSkipped, last, counts, said>>

\* The page is drawn again with the answer.
ReadAnswer ==
    /\ answers # <<>>
    /\ LET a == Head(answers)
       IN /\ queueShown' = a.queue
          /\ last' = IF ~a.ok THEN last ELSE IF a.of.do = "undo" THEN <<>> ELSE <<[undo |-> a.undo, before |-> a.before]>>
          /\ picked' = IF a.ok /\ a.of.do = "all" THEN <<>> ELSE picked
          /\ said' = IF a.ok /\ a.of.do = "all" THEN <<>> ELSE said
    /\ answers' = Tail(answers)
    /\ UNCHANGED <<there, decided, rules, skipped, showSkipped, sent, counts>>

\* ACTION_DID_NOT_COMPLETE: what was written is not known.
LoseAnswer ==
    /\ answers # <<>> /\ counts.lost < MaxLost
    /\ counts' = [counts EXCEPT !.lost = @ + 1]
    /\ answers' = Tail(answers)
    /\ UNCHANGED <<there, decided, rules, queueShown, picked, skipped, showSkipped, sent, last, said>>

\* A sync: its new rows go through the rules there are.
RowsArrive(t) ==
    /\ t \notin there
    /\ there' = there \union {t}
    /\ decided' = reapplyRules({t}, decided, rules)
    /\ UNCHANGED <<rules, queueShown, picked, skipped, showSkipped, sent, answers, last, counts, said>>

ReviewNext ==
    \/ \E x \in queueShown : (\E c \in Options \union {Unknown} : Choose(x, c)) \/ NotNow(x) \/ ApplyOne(x)
    \/ ShowSkipped \/ ApplyAll \/ Undo
    \/ CategorizeGroups \/ UndoCategorizeGroup \/ ReadAnswer \/ LoseAnswer
    \/ \E t \in Arriving : RowsArrive(t)

-----------------------------------------------------------------------------
\* Whatever is asked of the server, for one payee or for all of them, is what
\* the person last said of that payee, or a strong suggestion they said nothing
\* about ("so \"apply all\" never applies a guess nobody looked at").
OnlyWhatWasChosen ==
    \A i \in DOMAIN sent : \A d \in ToSet(sent[i].batch) :
        d.cat # Unknown /\ IF d.key \in DOMAIN said THEN d.cat = said[d.key] ELSE d.sure

\* The undo offered puts back what its decision changed: pressed now, with
\* nothing else asked for and no answer lost, every rule is what it was, and
\* every row that was there is as it was before.
UndoPutsBatchBack ==
    last # <<>> /\ sent = <<>> /\ answers = <<>> /\ counts.lost = 0 =>
        LET undo == last[1].undo
            was == last[1].before[1]
        IN /\ undoneRules(rules, undo) = was.rules
           /\ \A t \in was.rows : restored(undo, decided)[t.id] = was.decided[t.id]

\* A refused batch is refused whole: no payee's rule stands for a key too
\* short to make one from, alone or beside others.
NoShortRule == \A i \in DOMAIN rules : rules[i].key \notin ShortKeys

\* Of what a render made now would show.
QueueKeepsItsWord ==
    LET queue == render(there, decided, rules)
    IN /\ RulesReachTheirGroup(queue, waitingRows(there, decided))
       /\ PersonsStayApart(queue, historyOf(there, decided), rules)

ReviewKeepsItsWord == OnlyWhatWasChosen /\ UndoPutsBatchBack /\ NoShortRule /\ QueueKeepsItsWord
=============================================================================
