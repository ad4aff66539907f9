------------------------------- MODULE Pickers -------------------------------
(***************************************************************************)
(* Categories as a person changes them: the one picker every row of the    *)
(* ledger opens, which can make a category of what was typed               *)
(* (components/CategoryPicker.tsx, lib/categories.ts), and the page that   *)
(* renames and deletes them (CategoryManager.tsx, lib/categoryEdits.ts).   *)
(* Each tab draws from the list it last loaded; what two tabs ask for      *)
(* interleaves at every read and write of the database.                    *)
(***************************************************************************)
EXTENDS Integers, FiniteSets, SequencesExt

CONSTANTS
    LedgerRows,
    Boxed,            \* the rows of a closed-box account
    ShortValued,      \* the rows whose value is too short to make a rule from
    Screens,          \* the browser tabs
    Typings,          \* what a person types: names as below, <<>> for nothing
    NewNames,         \* what one is renamed to
    FirstCategories,  \* categories there are at first
    PackCategories,   \* words of the pack's names
    Reserved,         \* words of the names that are not categories
    MaxWords,         \* the longest name
    FirstFiled,       \* how the rows may be filed at first
    FirstRules,       \* rules there may be for the rows' merchant
    MaxAsked,         \* bound on the writes asked for
    MaxIds,
    NoCat, NoRule, NoTarget

\* The first list has one of each id and name, none of them reserved or too
\* long; the rows and the rule point at what is in it, a rule sets something,
\* and no cleared row of a closed box counts.
ASSUME PickersAssumption ==
    /\ MaxIds \in Nat /\ NoCat \notin Nat \ {0}
    /\ \A c \in FirstCategories :
          /\ c = [id |-> c.id, name |-> c.name, isIncome |-> c.isIncome] /\ c.id \in Nat \ {0}
          /\ c.name.words \notin Reserved /\ Len(c.name.words) <= MaxWords
          /\ \A d \in FirstCategories : c.id = d.id \/ c.name.words = d.name.words => c = d
    /\ \A f \in FirstFiled : f = [r \in LedgerRows |-> f[r]] /\ \A r \in LedgerRows :
          /\ f[r] = [cat |-> f[r].cat, source |-> f[r].source, transfer |-> f[r].transfer]
          /\ f[r].cat = NoCat \/ \E c \in FirstCategories : c.id = f[r].cat
          /\ r \in Boxed /\ f[r].cat = NoCat => f[r].transfer
    /\ \A rule \in FirstRules : rule # NoRule =>
          /\ rule = [cat |-> rule.cat, transfer |-> rule.transfer]
          /\ IF rule.cat = NoCat THEN rule.transfer ELSE \E c \in FirstCategories : c.id = rule.cat

VARIABLES
    categories,     \* {[id, name, isIncome]}; a name is its words and its casing
    filed,          \* [LedgerRows -> [cat, source, transfer]]
    theRule,        \* of the rows' merchant: NoRule or [cat, transfer]
    listed,         \* [Screens -> the categories its page was drawn from]
    drawn,          \* [Screens -> [LedgerRows -> the category its page shows]]
    picker,         \* [Screens -> NoTarget or the open picker]
    writes,         \* what was asked for and is not done
    asked,          \* how many
    raced           \* whether two edits of the list itself overlapped

kvars == <<categories, filed, theRule, listed, drawn, picker, writes, asked, raced>>

-----------------------------------------------------------------------------
(* Names. *)

fold(name) == name.words

existingCategoryName(name, among) == {c \in among : fold(c.name) = fold(name)}

\* One word for one problem: too long, reserved, taken.
categoryNameProblem(name, among) ==
    \/ ~(Len(name.words) <= MaxWords)
    \/ name.words \in Reserved
    \/ existingCategoryName(name, among) # {}

isPackCategory(category) == category.name.words \in PackCategories

ids(cs) == {c.id : c \in cs}

-----------------------------------------------------------------------------
(* The picker's list and where its keyboard starts. *)

hits(name, q) ==
    \/ q = <<>>
    \/ \E i \in DOMAIN name.words : IsPrefix(q, SubSeq(name.words, i, Len(name.words)))

Existing(id, words) == [makes |-> FALSE, id |-> id, words |-> words, isIncome |-> FALSE]
Creates(typed, isIncome) == [makes |-> TRUE, id |-> typed, words |-> typed.words, isIncome |-> isIncome]

inOrder(cs) == SetToSortSeq({Existing(c.id, c.name.words) : c \in cs}, LAMBDA a, b : a.id < b.id)

offered(cs, typed, ruleMode) ==
    LET q == typed.words
        spending == {c \in cs : ~c.isIncome /\ hits(c.name, q)}
        income == {c \in cs : c.isIncome /\ hits(c.name, q)}
    IN (IF ~ruleMode /\ q \in {<<>>, <<"none">>} THEN <<Existing(NoCat, <<>>)>> ELSE <<>>)
       \o inOrder(spending) \o inOrder(income)
       \o (IF q # <<>> /\ ~categoryNameProblem(typed, cs)
           THEN <<Creates(typed, FALSE), Creates(typed, TRUE)>> ELSE <<>>)

\* 0: nothing is active.  With nothing typed the row's current category, and
\* the first row where that is not in the list; else the first of the existing
\* whose name starts so, or that merely holds what was typed.
preferredIndex_AnyRow(rows, q, current) ==
    IF q = <<>> THEN SelectInSeq(rows, LAMBDA r : ~r.makes /\ r.id = current)
    ELSE IF rows = <<>> THEN 0 ELSE 1
preferredIndex(rows, q, current) ==
    IF q = <<>>
    THEN LET at == SelectInSeq(rows, LAMBDA r : ~r.makes /\ r.id = current)
         IN IF at = 0 THEN 1 ELSE at
    ELSE LET starts == SelectInSeq(rows, LAMBDA r : ~r.makes /\ IsPrefix(q, r.words))
         IN IF starts = 0 THEN SelectInSeq(rows, LAMBDA r : ~r.makes) ELSE starts

-----------------------------------------------------------------------------
Nothing == [words |-> <<>>, caps |-> FALSE]

PickersInit ==
    /\ categories = FirstCategories
    /\ filed \in FirstFiled
    /\ theRule \in FirstRules
    /\ listed = [t \in Screens |-> FirstCategories]
    /\ drawn = [t \in Screens |-> [r \in LedgerRows |-> filed[r].cat]]
    /\ picker = [t \in Screens |-> NoTarget]
    /\ writes = {} /\ asked = 0 /\ raced = FALSE

\* A page revalidated by what it asked for: an open picker re-aims at the new
\* list, whatever was active in the old one.
Redrawn(t, cs, rows) ==
    /\ listed' = [listed EXCEPT ![t] = cs]
    /\ drawn' = [drawn EXCEPT ![t] = [r \in LedgerRows |-> rows[r].cat]]

\* show: from the trigger, a letter typed on it, or the rule menu.
\* A person has one keyboard: one picker is open at a time.
Open(t, r, ruleMode, seed) ==
    /\ \A u \in Screens : picker[u] = NoTarget
    /\ (\A w \in writes : w.tab # t \/ w.row # r) /\ asked < MaxAsked
    /\ ruleMode => seed = Nothing
    /\ picker' = [picker EXCEPT ![t] =
                    [row |-> r, current |-> drawn[t][r], ruleMode |-> ruleMode, typed |-> seed]]
    /\ UNCHANGED <<categories, filed, theRule, listed, drawn, writes, asked, raced>>

Type(t, name) ==
    /\ picker[t] # NoTarget /\ picker[t].typed # name
    /\ picker' = [picker EXCEPT ![t].typed = name]
    /\ UNCHANGED <<categories, filed, theRule, listed, drawn, writes, asked, raced>>

\* commit, by Enter where the keyboard starts (at = 0), or of the row at it
\* was moved to by the arrows, Home, End or the mouse, or that was clicked.
Pick(t, at) ==
    LET p == picker[t]
        rows == offered(listed[t], p.typed, p.ruleMode)
        i == IF at = 0 THEN preferredIndex(rows, p.typed.words, p.current) ELSE at
    IN
    /\ p # NoTarget /\ i \in DOMAIN rows /\ asked < MaxAsked
    /\ LET choice == rows[i]
           ruled == p.ruleMode /\ (choice.makes \/ choice.id # NoCat)
       IN writes' = writes \union
            {[tab |-> t, row |-> p.row, do |-> IF choice.makes THEN "find" ELSE IF ruled THEN "rule" ELSE "assign",
              choice |-> choice, then |-> IF ruled THEN "rule" ELSE "assign", seen |-> {},
              unasked |-> at = 0, untyped |-> p.typed = Nothing,
              current |-> p.current, ruleMode |-> p.ruleMode,
              listed |-> p.current = NoCat \/ p.current \in ids(listed[t])]}
    /\ asked' = asked + 1
    /\ picker' = [picker EXCEPT ![t] = NoTarget]
    /\ UNCHANGED <<categories, filed, theRule, listed, drawn, raced>>

Dismiss(t) ==
    /\ picker[t] # NoTarget
    /\ picker' = [picker EXCEPT ![t] = NoTarget]
    /\ UNCHANGED <<categories, filed, theRule, listed, drawn, writes, asked, raced>>

-----------------------------------------------------------------------------
(* The actions on the server. *)

advance(w, v) == writes' = (writes \ {w}) \union {v}
done(w) == writes' = writes \ {w}
nextId == 1 + Cardinality({i \in 1..MaxIds : \E j \in i..MaxIds : j \in ids(categories)})

\* createUserCategory: adopts the one of the name, whatever its casing; else
\* makes it.
createUserCategory(name, among) == existingCategoryName(name, among)

FindName(w) ==
    /\ w.do = "find"
    /\ LET name == w.choice.id
           taken == createUserCategory(name, categories)
       IN IF taken # {}
          THEN advance(w, [w EXCEPT !.do = w.then, !.choice = Existing((CHOOSE c \in taken : TRUE).id, <<>>)])
          ELSE IF categoryNameProblem(name, {}) THEN done(w)
          ELSE advance(w, [w EXCEPT !.do = "make", !.seen = categories])
    /\ UNCHANGED <<categories, filed, theRule, listed, drawn, picker, asked, raced>>

MakeCategory(w) ==
    /\ w.do = "make" /\ nextId <= MaxIds
    /\ categories' = categories \union {[id |-> nextId, name |-> w.choice.id, isIncome |-> w.choice.isIncome]}
    /\ raced' = (raced \/ categories # w.seen)
    /\ advance(w, [w EXCEPT !.do = w.then, !.choice = Existing(nextId, <<>>), !.seen = {}])
    /\ Redrawn(w.tab, categories', filed)
    /\ UNCHANGED <<filed, theRule, picker, asked>>

\* Clearing hands a row back to the rules; in a closed box it becomes a
\* transfer at once.
whenCleared(r, row) ==
    IF r \in Boxed THEN [cat |-> NoCat, source |-> "RULE", transfer |-> TRUE]
    ELSE [cat |-> NoCat, source |-> "AGGREGATOR", transfer |-> row.transfer]

exists(id) == id = NoCat \/ id \in ids(categories)

\* setTransactionCategory; a category gone meanwhile is refused by the
\* database, to the error boundary.
AssignRow(w) ==
    /\ w.do = "assign"
    /\ filed' = IF ~exists(w.choice.id) THEN filed
                ELSE [filed EXCEPT ![w.row] =
                        IF w.choice.id = NoCat THEN whenCleared(w.row, @)
                        ELSE [@ EXCEPT !.cat = w.choice.id, !.source = "MANUAL"]]
    /\ done(w)
    /\ Redrawn(w.tab, categories, filed')
    /\ UNCHANGED <<categories, theRule, picker, asked, raced>>

reapplied(rule, rows) ==
    [r \in LedgerRows |->
        IF rows[r].source = "MANUAL" \/ r \in Boxed \/ rule = NoRule THEN rows[r]
        ELSE [cat |-> rule.cat, source |-> "RULE", transfer |-> rule.transfer]]

\* createRuleFromMerchant, whose own reads and writes are Ledger's Decide.
RuleFromRow(w) ==
    /\ w.do = "rule"
    /\ IF w.row \in ShortValued \/ ~exists(w.choice.id)
       THEN UNCHANGED <<theRule, filed>>
       ELSE /\ theRule' = [cat |-> w.choice.id, transfer |-> FALSE]
            /\ filed' = reapplied(theRule', filed)
    /\ done(w)
    /\ Redrawn(w.tab, categories, filed')
    /\ UNCHANGED <<categories, picker, asked, raced>>

-----------------------------------------------------------------------------
(* The categories page. *)

Edit(t, do, id, then) ==
    [tab |-> t, row |-> NoTarget, do |-> do, choice |-> Existing(id, <<>>), then |-> then, seen |-> {},
     unasked |-> FALSE, untyped |-> FALSE, current |-> NoCat, ruleMode |-> FALSE, listed |-> TRUE]

\* Only one's own are listed; saving asks for a name that is not the same.
AskRename(t, c, name) ==
    /\ asked < MaxAsked /\ picker[t] = NoTarget
    /\ c \in listed[t] /\ ~isPackCategory(c) /\ name # c.name
    /\ writes' = writes \union {Edit(t, "rename", c.id, name)}
    /\ asked' = asked + 1
    /\ UNCHANGED <<categories, filed, theRule, listed, drawn, picker, raced>>

ReadRename(w) ==
    /\ w.do = "rename"
    /\ LET target == {c \in categories : c.id = w.choice.id}
           others == categories \ target
       IN IF \/ target = {} \/ \E c \in target : isPackCategory(c) \/ c.name = w.then
             \/ categoryNameProblem(w.then, others)
          THEN done(w)
          ELSE advance(w, [w EXCEPT !.do = "renaming", !.seen = categories])
    /\ UNCHANGED <<categories, filed, theRule, listed, drawn, picker, asked, raced>>

WriteRename(w) ==
    /\ w.do = "renaming"
    /\ categories' = {IF c.id = w.choice.id THEN [c EXCEPT !.name = w.then] ELSE c : c \in categories}
    /\ raced' = (raced \/ categories # w.seen)
    /\ done(w)
    /\ Redrawn(w.tab, categories', filed)
    /\ UNCHANGED <<filed, theRule, picker, asked>>

\* Where anything points at it, where to is chosen, never a default.
AskDelete(t, c, to) ==
    /\ asked < MaxAsked /\ picker[t] = NoTarget
    /\ c \in listed[t] /\ ~isPackCategory(c) /\ to \in {NoCat} \union ids(listed[t] \ {c})
    /\ writes' = writes \union {Edit(t, "delete", c.id, to)}
    /\ asked' = asked + 1
    /\ UNCHANGED <<categories, filed, theRule, listed, drawn, picker, raced>>

ReadDelete(w) ==
    /\ w.do = "delete"
    /\ IF \/ ~exists(w.choice.id) \/ ~exists(w.then)
          \/ \E c \in categories : c.id = w.choice.id /\ isPackCategory(c)
       THEN done(w)
       ELSE advance(w, [w EXCEPT !.do = "deleting"])
    /\ UNCHANGED <<categories, filed, theRule, listed, drawn, picker, asked, raced>>

\* One transaction: rows and rules first, then the category.  Either end gone
\* meanwhile fails the whole of it.
ruleWithout(rule, id) ==
    IF rule = NoRule \/ (rule.cat = id /\ ~rule.transfer) THEN NoRule
    ELSE IF rule.cat = id THEN [rule EXCEPT !.cat = NoCat] ELSE rule

WriteDelete(w) ==
    /\ w.do = "deleting"
    /\ LET id == w.choice.id
           to == w.then
       IN IF ~exists(id) \/ ~exists(to) THEN UNCHANGED <<categories, filed, theRule>>
          ELSE /\ filed' = [r \in LedgerRows |->
                              IF filed[r].cat # id THEN filed[r]
                              ELSE IF to = NoCat THEN whenCleared(r, filed[r])
                              ELSE [filed[r] EXCEPT !.cat = to]]
               /\ theRule' = IF to = NoCat THEN ruleWithout(theRule, id)
                             ELSE IF theRule # NoRule /\ theRule.cat = id THEN [theRule EXCEPT !.cat = to]
                             ELSE theRule
               /\ categories' = {c \in categories : c.id # id}
    /\ done(w)
    /\ Redrawn(w.tab, categories', filed')
    /\ UNCHANGED <<picker, asked, raced>>

PickersNext ==
    \/ \E t \in Screens :
          \/ \E r \in LedgerRows, m \in BOOLEAN, s \in Typings : Open(t, r, m, s)
          \/ \E n \in Typings : Type(t, n)
          \/ picker[t] # NoTarget /\ \E at \in 0..(MaxIds + 3) : Pick(t, at)
          \/ Dismiss(t)
          \/ \E c \in listed[t] :
                \/ \E n \in NewNames : AskRename(t, c, n)
                \/ \E to \in {NoCat} \union ids(listed[t]) : AskDelete(t, c, to)
    \/ \E w \in writes : \/ FindName(w) \/ MakeCategory(w) \/ AssignRow(w) \/ RuleFromRow(w)
                         \/ ReadRename(w) \/ WriteRename(w) \/ ReadDelete(w) \/ WriteDelete(w)

PickersSpec == PickersInit /\ [][PickersNext]_kvars

-----------------------------------------------------------------------------
\* "Opening and pressing Enter changes nothing" of the row's category, where
\* that category is in the list, and "gorceries" and Enter makes none: only
\* an arrow or a click chooses a row that creates (CategoryPicker.tsx).
NothingUnasked ==
    \A w \in writes : w.unasked =>
        /\ ~w.choice.makes /\ w.do # "find"
        /\ w.untyped /\ w.listed /\ ~w.ruleMode => w.choice.id = w.current

\* However stale the lists of two tabs, no two categories differ only in
\* their casing, and none carries a name that is not one, unless two edits of
\* the list itself overlapped on the server (lib/categories.ts,
\* categoryEdits.ts: "a rename never MERGES").
NoTwins ==
    ~raced => /\ \A c, d \in categories : fold(c.name) = fold(d.name) => c = d
              /\ \A c \in categories : c.name.words \notin Reserved /\ Len(c.name.words) <= MaxWords

\* A category deleted under a tab that still lists it leaves no row and no
\* rule pointing at it, no rule that sets nothing and still matches first, and
\* no cleared row of a closed box in the totals (categoryEdits.ts).
NothingPointsAtGone ==
    /\ \A r \in LedgerRows : exists(filed[r].cat) /\ (r \in Boxed /\ filed[r].cat = NoCat => filed[r].transfer)
    /\ theRule # NoRule => exists(theRule.cat) /\ (theRule.cat # NoCat \/ theRule.transfer)

\* What a person asks of the categories is what they get, and no more.
CategoriesKeepTheirWord == NothingUnasked /\ NoTwins /\ NothingPointsAtGone
=============================================================================
