----------------------------- MODULE ScreenProofs -----------------------------
(***************************************************************************)
(* What two tabs may do to each other on the screens that write the        *)
(* ledger, and to the Settings of the goals; and what the pages that tell  *)
(* of fetched rates and of the instance's own health may say, whatever     *)
(* happens in between.  For any number of tabs, rows, categories, drafts,  *)
(* syncs and days.                                                         *)
(***************************************************************************)
EXTENDS Pickers, WorthGoal, Health, SavingsGoals, HouseReadiness, FiniteSetTheorems, SequenceTheorems,
        WellFoundedInduction, TLAPS

-----------------------------------------------------------------------------
(* Categories (Pickers).                                                    *)

\* One of each id, and none that stands for no category.
IdsHold(cs) ==
    /\ \A c \in cs : c = [id |-> c.id, name |-> c.name, isIncome |-> c.isIncome] /\ c.id \in Nat \ {0}
    /\ \A c, d \in cs : c.id = d.id => c = d

ListsHold ==
    /\ IdsHold(categories)
    /\ listed = [t \in Screens |-> listed[t]]
    /\ \A t \in Screens : IdsHold(listed[t])

\* A row as the ledger keeps it.
Row(cat, source, transfer) == [cat |-> cat, source |-> source, transfer |-> transfer]

RowsTyped ==
    /\ filed = [r \in LedgerRows |-> filed[r]]
    /\ \A r \in LedgerRows : filed[r] = Row(filed[r].cat, filed[r].source, filed[r].transfer)
    /\ theRule # NoRule => theRule = [cat |-> theRule.cat, transfer |-> theRule.transfer]

\* A name that a list takes.
Free(name, cs) == existingCategoryName(name, cs) = {} /\ ~categoryNameProblem(name, {})


\* What a request has read of the list allows what it is about to write.
RequestHolds(w) ==
    /\ w = [tab |-> w.tab, row |-> w.row, do |-> w.do, choice |-> w.choice, then |-> w.then,
            seen |-> w.seen, unasked |-> w.unasked, untyped |-> w.untyped, current |-> w.current,
            ruleMode |-> w.ruleMode, listed |-> w.listed]
    /\ w.do \in {"find", "make"} => w.then \in {"rule", "assign"}
    /\ w.do = "make" => Free(w.choice.id, w.seen)
    /\ w.do = "renaming" => Free(w.then, {c \in w.seen : c.id # w.choice.id})
    /\ w.do = "rule" => w.choice.id # NoCat
    /\ w.do \in {"delete", "deleting"} => w.choice.id # NoCat /\ w.then # w.choice.id

PickersInv ==
    /\ ListsHold /\ RowsTyped
    /\ \A w \in writes : RequestHolds(w)
    /\ NoTwins /\ NothingPointsAtGone

\* The next id is no category's.
LEMMA NextIdIsNew ==
  ASSUME nextId <= MaxIds
  PROVE  nextId \in Nat \ {0} /\ nextId \notin ids(categories)
  <1> DEFINE Below == {i \in 1..MaxIds : \E j \in i..MaxIds : j \in ids(categories)}
  <1>1. MaxIds \in Nat
    BY PickersAssumption
  <1>2. IsFiniteSet(1..MaxIds) /\ IsFiniteSet(Below)
    BY <1>1, FS_Interval, FS_Subset
  <1>3. Cardinality(Below) \in Nat /\ nextId = 1 + Cardinality(Below)
    BY <1>2, FS_CardinalityType DEF nextId
  <1>4. ASSUME nextId \in ids(categories) PROVE FALSE
    <2>1. 1..nextId \subseteq Below
      <3> SUFFICES ASSUME NEW i \in 1..nextId PROVE i \in Below
        OBVIOUS
      <3>1. nextId \in i..MaxIds /\ i \in 1..MaxIds
        BY <1>1, <1>3
      <3> QED
        BY <1>4, <3>1
    <2>2. Cardinality(1..nextId) <= Cardinality(Below)
      BY <1>2, <2>1, FS_Subset
    <2>3. Cardinality(1..nextId) = nextId
      BY <1>3, FS_Interval
    <2> QED
      BY <1>3, <2>2, <2>3
  <1> QED
    BY <1>3, <1>4

LEMMA InitPickers == PickersInit => PickersInv
  <1> SUFFICES ASSUME PickersInit PROVE PickersInv
    OBVIOUS
  <1> USE DEF PickersInit
  <1>1. IdsHold(FirstCategories)
    BY PickersAssumption DEF IdsHold
  <1>2. ListsHold
    BY <1>1 DEF ListsHold
  <1>3. RowsTyped
    BY PickersAssumption DEF RowsTyped, Row
  <1>4. NoTwins
    BY PickersAssumption DEF NoTwins, fold
  <1>5. ASSUME NEW r \in LedgerRows
        PROVE  exists(filed[r].cat) /\ (r \in Boxed /\ filed[r].cat = NoCat => filed[r].transfer)
    <2>1. filed \in FirstFiled /\ categories = FirstCategories
      OBVIOUS
    <2>2. /\ filed[r].cat = NoCat \/ \E c \in FirstCategories : c.id = filed[r].cat
          /\ r \in Boxed /\ filed[r].cat = NoCat => filed[r].transfer
      BY ONLY <2>1, <1>5, PickersAssumption
    <2> QED
      BY <2>1, <2>2 DEF exists, ids
  <1>6. theRule # NoRule => exists(theRule.cat) /\ (theRule.cat # NoCat \/ theRule.transfer)
    BY PickersAssumption DEF exists, ids
  <1> QED
    BY <1>2, <1>3, <1>4, <1>5, <1>6 DEF PickersInv, NothingPointsAtGone

\* A request, field by field.
Request(tab, row, do, choice, then, seen, w) ==
    [tab |-> tab, row |-> row, do |-> do, choice |-> choice, then |-> then, seen |-> seen,
     unasked |-> w.unasked, untyped |-> w.untyped, current |-> w.current,
     ruleMode |-> w.ruleMode, listed |-> w.listed]

\* A request moved on is as it was but for what moved.
LEMMA MovedOn ==
  ASSUME NEW w, RequestHolds(w), NEW do, NEW choice, NEW seen
  PROVE  /\ [w EXCEPT !.do = do, !.choice = choice, !.seen = seen]
              = Request(w.tab, w.row, do, choice, w.then, seen, w)
         /\ [w EXCEPT !.do = do, !.choice = choice]
              = Request(w.tab, w.row, do, choice, w.then, w.seen, w)
         /\ [w EXCEPT !.do = do, !.seen = seen]
              = Request(w.tab, w.row, do, w.choice, w.then, seen, w)
         /\ [w EXCEPT !.do = do]
              = Request(w.tab, w.row, do, w.choice, w.then, w.seen, w)
  <1>1. w = Request(w.tab, w.row, w.do, w.choice, w.then, w.seen, w)
    BY DEF RequestHolds, Request
  <1> DEFINE a == w.tab
             b == w.row
             d == w.do
             c == w.choice
             h == w.then
             n == w.seen
  <1> HIDE DEF a, b, d, c, h, n
  <1>2. [w EXCEPT !.do = do] = Request(a, b, do, c, h, n, w)
    <2>1. w = Request(a, b, d, c, h, n, w)
      BY <1>1 DEF a, b, d, c, h, n
    <2>2. [Request(a, b, d, c, h, n, w) EXCEPT !.do = do] = Request(a, b, do, c, h, n, w)
      BY DEF Request
    <2> QED
      BY <2>1, <2>2
  <1>3. [Request(a, b, do, c, h, n, w) EXCEPT !.choice = choice] = Request(a, b, do, choice, h, n, w)
    BY DEF Request
  <1>4. ASSUME NEW x
        PROVE  [Request(a, b, do, x, h, n, w) EXCEPT !.seen = seen] = Request(a, b, do, x, h, seen, w)
    BY DEF Request
  <1> QED
    BY <1>2, <1>3, <1>4 DEF a, b, d, c, h, n

LEMMA FieldsOf ==
  ASSUME NEW w, NEW a, NEW b, NEW do, NEW choice, NEW then, NEW seen
  PROVE  LET v == Request(a, b, do, choice, then, seen, w)
         IN /\ v.do = do /\ v.choice = choice /\ v.then = then /\ v.seen = seen
            /\ v = Request(v.tab, v.row, v.do, v.choice, v.then, v.seen, v)
  BY DEF Request

\* What a request moved on must have for what it does next.
LEMMA RequestMoves ==
  ASSUME NEW w, RequestHolds(w)
  PROVE  /\ w.do = "find" => \A seen : Free(w.choice.id, seen) =>
               RequestHolds([w EXCEPT !.do = "make", !.seen = seen])
         /\ w.do \in {"find", "make"} => \A to, seen : to.id # NoCat =>
               /\ RequestHolds([w EXCEPT !.do = w.then, !.choice = to])
               /\ RequestHolds([w EXCEPT !.do = w.then, !.choice = to, !.seen = seen])
         /\ w.do = "rename" => \A seen : Free(w.then, {c \in seen : c.id # w.choice.id}) =>
               RequestHolds([w EXCEPT !.do = "renaming", !.seen = seen])
         /\ w.do = "delete" => RequestHolds([w EXCEPT !.do = "deleting"])
  <1>1. ASSUME NEW v, v = Request(v.tab, v.row, v.do, v.choice, v.then, v.seen, v),
               v.do \in {"find", "make"} => v.then \in {"rule", "assign"},
               v.do = "make" => Free(v.choice.id, v.seen),
               v.do = "renaming" => Free(v.then, {c \in v.seen : c.id # v.choice.id}),
               v.do = "rule" => v.choice.id # NoCat,
               v.do \in {"delete", "deleting"} => v.choice.id # NoCat /\ v.then # v.choice.id
        PROVE  RequestHolds(v)
    BY <1>1 DEF RequestHolds, Request
  <1>2. ASSUME w.do = "find", NEW seen, Free(w.choice.id, seen)
        PROVE  RequestHolds([w EXCEPT !.do = "make", !.seen = seen])
    <2> DEFINE v == Request(w.tab, w.row, "make", w.choice, w.then, seen, w)
    <2>1. /\ v.do = "make" /\ v.choice = w.choice /\ v.then = w.then /\ v.seen = seen
          /\ v = Request(v.tab, v.row, v.do, v.choice, v.then, v.seen, v)
      BY FieldsOf
    <2>2. w.then \in {"rule", "assign"}
      BY <1>2 DEF RequestHolds
    <2> HIDE DEF v
    <2>3. RequestHolds(v)
      BY <1>1, <1>2, <2>1, <2>2
    <2> QED
      BY <2>3, MovedOn DEF v
  <1>3. ASSUME w.do \in {"find", "make"}, NEW to, to.id # NoCat, NEW seen
        PROVE  RequestHolds(Request(w.tab, w.row, w.then, to, w.then, seen, w))
    <2> DEFINE v == Request(w.tab, w.row, w.then, to, w.then, seen, w)
    <2>1. /\ v.do = w.then /\ v.choice = to /\ v.then = w.then /\ v.seen = seen
          /\ v = Request(v.tab, v.row, v.do, v.choice, v.then, v.seen, v)
      BY FieldsOf
    <2>2. w.then \in {"rule", "assign"}
      BY <1>3 DEF RequestHolds
    <2> HIDE DEF v
    <2>3. RequestHolds(v)
      BY <1>1, <1>3, <2>1, <2>2
    <2> QED
      BY <2>3 DEF v
  <1>4. ASSUME w.do = "rename", NEW seen, Free(w.then, {c \in seen : c.id # w.choice.id})
        PROVE  RequestHolds([w EXCEPT !.do = "renaming", !.seen = seen])
    <2> DEFINE v == Request(w.tab, w.row, "renaming", w.choice, w.then, seen, w)
    <2>1. /\ v.do = "renaming" /\ v.choice = w.choice /\ v.then = w.then /\ v.seen = seen
          /\ v = Request(v.tab, v.row, v.do, v.choice, v.then, v.seen, v)
      BY FieldsOf
    <2> HIDE DEF v
    <2>2. RequestHolds(v)
      BY <1>1, <1>4, <2>1
    <2> QED
      BY <2>2, MovedOn DEF v
  <1>5. ASSUME w.do = "delete" PROVE RequestHolds([w EXCEPT !.do = "deleting"])
    <2> DEFINE v == Request(w.tab, w.row, "deleting", w.choice, w.then, w.seen, w)
    <2>1. /\ v.do = "deleting" /\ v.choice = w.choice /\ v.then = w.then
          /\ v = Request(v.tab, v.row, v.do, v.choice, v.then, v.seen, v)
      BY FieldsOf
    <2>2. w.choice.id # NoCat /\ w.then # w.choice.id
      BY <1>5 DEF RequestHolds
    <2> HIDE DEF v
    <2>3. RequestHolds(v)
      BY <1>1, <2>1, <2>2
    <2> QED
      BY <2>3, MovedOn DEF v
  <1>6. ASSUME w.do \in {"find", "make"}, NEW to, to.id # NoCat, NEW seen
        PROVE  /\ RequestHolds([w EXCEPT !.do = w.then, !.choice = to])
               /\ RequestHolds([w EXCEPT !.do = w.then, !.choice = to, !.seen = seen])
    <2> DEFINE does == w.then
               was == w.seen
    <2>1. [w EXCEPT !.do = does, !.choice = to] = Request(w.tab, w.row, does, to, w.then, was, w)
      <3> HIDE DEF does
      <3> QED
        BY ONLY MovedOn, RequestHolds(w) DEF was
    <2>2. [w EXCEPT !.do = does, !.choice = to, !.seen = seen] = Request(w.tab, w.row, does, to, w.then, seen, w)
      <3> DEFINE a == w.tab
                 b == w.row
      <3> HIDE DEF does, was
      <3>1. [w EXCEPT !.do = does, !.choice = to] = Request(a, b, does, to, does, was, w)
        BY <2>1 DEF does
      <3> HIDE DEF a, b
      <3>2. [Request(a, b, does, to, does, was, w) EXCEPT !.seen = seen] = Request(a, b, does, to, does, seen, w)
        BY DEF Request
      <3>3. [w EXCEPT !.do = does, !.choice = to, !.seen = seen] = Request(a, b, does, to, does, seen, w)
        BY ONLY <3>1, <3>2
      <3> QED
        BY ONLY <3>3 DEF a, b, does
    <2> QED
      BY <1>3, <1>6, <2>1, <2>2
  <1> QED
    BY <1>2, <1>4, <1>5, <1>6

\* An action that leaves the lists, the rows and the rule alone keeps what is
\* said of them.
LEMMA ListsRest ==
  ASSUME PickersInv, UNCHANGED <<categories, filed, theRule, listed>>, raced' = raced,
         \A w \in writes' : RequestHolds(w)
  PROVE  PickersInv'
  <1>1. ListsHold' /\ RowsTyped'
    BY DEF PickersInv, ListsHold, RowsTyped, IdsHold
  <1>2. NoTwins' /\ NothingPointsAtGone'
    BY DEF PickersInv, NoTwins, NothingPointsAtGone, exists, ids, fold
  <1> QED
    BY <1>1, <1>2 DEF PickersInv, RequestHolds, Free, existingCategoryName, categoryNameProblem, fold

\* A page drawn again shows the list there is.
LEMMA RedrawnHolds ==
  ASSUME PickersInv, NEW t, NEW rows, IdsHold(categories'), Redrawn(t, categories', rows)
  PROVE  ListsHold'
  BY DEF PickersInv, ListsHold, Redrawn, IdsHold

LEMMA PickHolds ==
  ASSUME PickersInv, NEW t \in Screens, NEW at, Pick(t, at)
  PROVE  PickersInv'
  <1> DEFINE p == picker[t]
             rows == offered(listed[t], p.typed, p.ruleMode)
             i == IF at = 0 THEN preferredIndex(rows, p.typed.words, p.current) ELSE at
             choice == rows[i]
             ruled == p.ruleMode /\ (choice.makes \/ choice.id # NoCat)
             new == [tab |-> t, row |-> p.row, do |-> IF choice.makes THEN "find" ELSE IF ruled THEN "rule" ELSE "assign",
                     choice |-> choice, then |-> IF ruled THEN "rule" ELSE "assign", seen |-> {},
                     unasked |-> at = 0, untyped |-> p.typed = Nothing,
                     current |-> p.current, ruleMode |-> p.ruleMode,
                     listed |-> p.current = NoCat \/ p.current \in ids(listed[t])]
  <1>1. /\ writes' = writes \union {new}
        /\ UNCHANGED <<categories, filed, theRule, listed, drawn, raced>>
    BY DEF Pick
  <1> HIDE DEF p, rows, i, choice
  <1>2. RequestHolds(new)
    BY DEF RequestHolds
  <1> HIDE DEF new
  <1>3. \A w \in writes' : RequestHolds(w)
    BY <1>1, <1>2 DEF PickersInv
  <1> QED
    BY <1>1, <1>3, ListsRest

LEMMA FindNameHolds ==
  ASSUME PickersInv, NEW w \in writes, FindName(w)
  PROVE  PickersInv'
  <1> DEFINE name == w.choice.id
             taken == createUserCategory(name, categories)
             found == [w EXCEPT !.do = w.then, !.choice = Existing((CHOOSE c \in taken : TRUE).id, <<>>)]
             toMake == [w EXCEPT !.do = "make", !.seen = categories]
  <1>1. RequestHolds(w) /\ w.do = "find"
    BY DEF PickersInv, FindName
  <1>2. ASSUME taken # {} PROVE RequestHolds(found)
    <2> DEFINE id == (CHOOSE c \in taken : TRUE).id
    <2>1. id \in Nat \ {0}
      BY <1>2 DEF PickersInv, ListsHold, IdsHold, createUserCategory, existingCategoryName
    <2>2. id # NoCat
      BY <2>1, PickersAssumption
    <2> DEFINE to == Existing(id, <<>>)
    <2>3. to.id = id
      BY DEF Existing
    <2> HIDE DEF id, to
    <2>4. w.then \in {"rule", "assign"}
      BY <1>1 DEF RequestHolds
    <2>5. RequestHolds([w EXCEPT !.do = w.then, !.choice = to])
      BY <1>1, <2>2, <2>3, <2>4, RequestMoves
    <2> QED
      BY <2>5 DEF id, to
  <1>3. ASSUME taken = {}, ~categoryNameProblem(name, {}) PROVE RequestHolds(toMake)
    <2>1. Free(w.choice.id, categories)
      BY <1>3 DEF Free, createUserCategory
    <2> QED
      BY <1>1, <2>1, RequestMoves
  <1>4. \A v \in writes' : RequestHolds(v)
    <2>1. \/ taken # {} /\ writes' = (writes \ {w}) \union {found}
          \/ taken = {} /\ ~categoryNameProblem(name, {}) /\ writes' = (writes \ {w}) \union {toMake}
          \/ writes' = writes \ {w}
      BY DEF FindName, advance, done
    <2> HIDE DEF found, toMake, taken, name
    <2> QED
      BY <1>2, <1>3, <2>1 DEF PickersInv
  <1> QED
    BY <1>4, ListsRest DEF FindName

LEMMA MakeCategoryHolds ==
  ASSUME PickersInv, NEW w \in writes, MakeCategory(w)
  PROVE  PickersInv'
  <1> DEFINE new == [id |-> nextId, name |-> w.choice.id, isIncome |-> w.choice.isIncome]
             made == [w EXCEPT !.do = w.then, !.choice = Existing(nextId, <<>>), !.seen = {}]
  <1>1. RequestHolds(w) /\ w.do = "make"
    BY DEF PickersInv, MakeCategory
  <1>2. /\ categories' = categories \union {new} /\ raced' = (raced \/ categories # w.seen)
        /\ writes' = (writes \ {w}) \union {made}
        /\ Redrawn(w.tab, categories', filed) /\ UNCHANGED <<filed, theRule>>
    BY DEF MakeCategory, advance
  <1>3. nextId \in Nat \ {0} /\ nextId \notin ids(categories) /\ nextId # NoCat
    BY NextIdIsNew, PickersAssumption DEF MakeCategory
  <1>4. IdsHold(categories')
    BY <1>2, <1>3 DEF IdsHold, PickersInv, ListsHold, ids
  <1>5. ListsHold'
    BY <1>2, <1>4, RedrawnHolds
  <1>6. RequestHolds(made)
    <2> DEFINE to == Existing(nextId, <<>>)
    <2>1. to.id = nextId
      BY DEF Existing
    <2>2. w.then \in {"rule", "assign"} /\ to.id # NoCat
      BY <1>1, <1>3, <2>1 DEF RequestHolds
    <2> HIDE DEF to
    <2>3. RequestHolds([w EXCEPT !.do = w.then, !.choice = to, !.seen = {}])
      BY <1>1, <2>2, RequestMoves
    <2> QED
      BY <2>3 DEF to
  <1>7. NoTwins'
    <2> SUFFICES ASSUME ~raced' PROVE NoTwins'
      BY DEF NoTwins
    <2>1. ~raced /\ Free(w.choice.id, categories)
      BY <1>1, <1>2 DEF RequestHolds
    <2>2. /\ \A c \in categories : c.name.words # w.choice.id.words
          /\ w.choice.id.words \notin Reserved /\ Len(w.choice.id.words) <= MaxWords
      BY <2>1 DEF Free, existingCategoryName, categoryNameProblem, fold
    <2>3. new.name.words = w.choice.id.words
      OBVIOUS
    <2> HIDE DEF new
    <2> QED
      BY <1>2, <2>1, <2>2, <2>3 DEF NoTwins, fold, PickersInv
  <1>8. NothingPointsAtGone' /\ RowsTyped'
    BY <1>2 DEF PickersInv, NothingPointsAtGone, RowsTyped, exists, ids
  <1>9. \A v \in writes' : RequestHolds(v)
    <2> HIDE DEF made
    <2> QED
      BY <1>2, <1>6 DEF PickersInv
  <1> QED
    BY <1>5, <1>7, <1>8, <1>9 DEF PickersInv, RequestHolds, Free, existingCategoryName, categoryNameProblem, fold

\* A row's own fields, one changed at a time.
LEMMA RowsChange ==
  ASSUME NEW row, row = Row(row.cat, row.source, row.transfer), NEW id
  PROVE  /\ \A r \in Boxed : whenCleared(r, row) = Row(NoCat, "RULE", TRUE)
         /\ \A r \in LedgerRows \ Boxed : whenCleared(r, row) = Row(NoCat, "AGGREGATOR", row.transfer)
         /\ [row EXCEPT !.cat = id, !.source = "MANUAL"] = Row(id, "MANUAL", row.transfer)
         /\ [row EXCEPT !.cat = id] = Row(id, row.source, row.transfer)
  <1> DEFINE a == row.cat
             b == row.source
             c == row.transfer
  <1>1. row = Row(a, b, c)
    OBVIOUS
  <1> HIDE DEF a, b, c
  <1>2. ASSUME NEW x PROVE [Row(a, b, c) EXCEPT !.cat = x] = Row(x, b, c)
    BY DEF Row
  <1>3. ASSUME NEW x, NEW y PROVE [Row(x, b, c) EXCEPT !.source = y] = Row(x, y, c)
    BY DEF Row
  <1>4. [row EXCEPT !.cat = id, !.source = "MANUAL"] = Row(id, "MANUAL", c)
    BY ONLY <1>1, <1>2, <1>3
  <1>5. [row EXCEPT !.cat = id] = Row(id, b, c)
    BY ONLY <1>1, <1>2
  <1>6. /\ \A r \in Boxed : whenCleared(r, row) = Row(NoCat, "RULE", TRUE)
        /\ \A r \in LedgerRows \ Boxed : whenCleared(r, row) = Row(NoCat, "AGGREGATOR", row.transfer)
    BY DEF whenCleared, Row
  <1> QED
    BY <1>4, <1>5, <1>6 DEF b, c

LEMMA FieldsOfRow ==
  ASSUME NEW row, NEW cat, NEW source, NEW transfer, row = Row(cat, source, transfer)
  PROVE  /\ row.cat = cat /\ row.source = source /\ row.transfer = transfer
         /\ row = Row(row.cat, row.source, row.transfer)
  BY DEF Row

\* The one obligation of an action on the rows or the rule: what they point at
\* is there.
Pointed(r) == exists(filed[r].cat) /\ (r \in Boxed /\ filed[r].cat = NoCat => filed[r].transfer)

LEMMA AssignRowHolds ==
  ASSUME PickersInv, NEW w \in writes, AssignRow(w)
  PROVE  PickersInv'
  <1> DEFINE id == w.choice.id
             was == filed[w.row]
             now == IF id = NoCat THEN whenCleared(w.row, was) ELSE [was EXCEPT !.cat = id, !.source = "MANUAL"]
  <1>1. /\ UNCHANGED <<categories, theRule, raced>>
        /\ writes' = writes \ {w} /\ Redrawn(w.tab, categories', filed')
        /\ filed' = IF ~exists(id) THEN filed ELSE [filed EXCEPT ![w.row] = now]
    BY DEF AssignRow, done
  <1>2. ListsHold'
    BY <1>1, RedrawnHolds DEF PickersInv, ListsHold
  <1>3. ASSUME exists(id), w.row \in LedgerRows
        PROVE  /\ now = Row(now.cat, now.source, now.transfer)
               /\ exists(now.cat)
               /\ w.row \in Boxed /\ now.cat = NoCat => now.transfer
    <2>1. was = Row(was.cat, was.source, was.transfer)
      BY <1>3 DEF PickersInv, RowsTyped
    <2> HIDE DEF was, id
    <2>2. CASE id = NoCat /\ w.row \in Boxed
      <3>1. now = Row(NoCat, "RULE", TRUE)
        BY <2>1, <2>2, RowsChange
      <3> HIDE DEF now
      <3>2. now.cat = NoCat /\ now.transfer = TRUE /\ now = Row(now.cat, now.source, now.transfer)
        BY ONLY <3>1 DEF Row
      <3> QED
        BY <3>2 DEF exists
    <2>3. CASE id = NoCat /\ w.row \notin Boxed
      <3>1. now = Row(NoCat, "AGGREGATOR", was.transfer)
        BY <1>3, <2>1, <2>3, RowsChange
      <3> HIDE DEF now
      <3>2. now.cat = NoCat /\ now = Row(now.cat, now.source, now.transfer)
        BY ONLY <3>1, FieldsOfRow
      <3> QED
        BY <2>3, <3>2 DEF exists
    <2>4. CASE id # NoCat
      <3>1. now = Row(id, "MANUAL", was.transfer)
        BY <2>1, <2>4, RowsChange
      <3> HIDE DEF now
      <3>2. now.cat = id /\ now = Row(now.cat, now.source, now.transfer)
        BY ONLY <3>1, FieldsOfRow
      <3> QED
        BY <1>3, <2>4, <3>2
    <2> QED
      BY <2>2, <2>3, <2>4
  <1> HIDE DEF now, id
  <1>4. RowsTyped' /\ \A r \in LedgerRows : Pointed(r)'
    <2>1. exists(id)' <=> exists(id)
      BY <1>1 DEF exists, ids, id
    <2>2. filed = [r \in LedgerRows |-> filed[r]] /\ \A r \in LedgerRows : Pointed(r)
      BY DEF PickersInv, RowsTyped, NothingPointsAtGone, Pointed
    <2>3. CASE filed' = filed
      BY <1>1, <2>2, <2>3 DEF PickersInv, RowsTyped, Pointed, exists, ids
    <2>4. CASE exists(id) /\ filed' = [filed EXCEPT ![w.row] = now]
      <3>1. filed' = [r \in LedgerRows |-> IF r = w.row THEN now ELSE filed[r]]
        BY <2>2, <2>4
      <3>2. RowsTyped'
        BY <1>1, <1>3, <2>4, <3>1 DEF PickersInv, RowsTyped
      <3>3. \A r \in LedgerRows : Pointed(r)'
        BY <1>1, <1>3, <2>2, <2>4, <3>1 DEF Pointed, exists, ids
      <3> QED
        BY <3>2, <3>3
    <2> QED
      BY <1>1, <2>3, <2>4
  <1>5. NothingPointsAtGone' /\ NoTwins'
    BY <1>1, <1>4 DEF PickersInv, NothingPointsAtGone, NoTwins, Pointed, exists, ids, fold
  <1>6. \A v \in writes' : RequestHolds(v)
    BY <1>1 DEF PickersInv
  <1> QED
    BY <1>2, <1>4, <1>5, <1>6 DEF PickersInv, RequestHolds, Free, existingCategoryName, categoryNameProblem, fold

LEMMA RuleFromRowHolds ==
  ASSUME PickersInv, NEW w \in writes, RuleFromRow(w)
  PROVE  PickersInv'
  <1> DEFINE id == w.choice.id
             rule == [cat |-> id, transfer |-> FALSE]
             ByRule == Row(id, "RULE", FALSE)
  <1>1. /\ UNCHANGED <<categories, raced>>
        /\ writes' = writes \ {w} /\ Redrawn(w.tab, categories', filed')
        /\ \/ UNCHANGED <<theRule, filed>>
           \/ exists(id) /\ theRule' = rule /\ filed' = reapplied(rule, filed)
    BY DEF RuleFromRow, done
  <1>2. ListsHold'
    BY <1>1, RedrawnHolds DEF PickersInv, ListsHold
  <1>3. id # NoCat /\ rule.cat = id /\ rule.transfer = FALSE
    BY DEF PickersInv, RequestHolds, RuleFromRow
  <1>4. CASE UNCHANGED <<theRule, filed>>
    BY <1>1, <1>2, <1>4 DEF PickersInv, RowsTyped, NothingPointsAtGone, NoTwins, exists, ids, fold,
                            RequestHolds, Free, existingCategoryName, categoryNameProblem
  <1>5. CASE exists(id) /\ theRule' = rule /\ filed' = reapplied(rule, filed)
    <2>1. filed' = [r \in LedgerRows |->
                      IF filed[r].source = "MANUAL" \/ r \in Boxed \/ rule = NoRule THEN filed[r] ELSE ByRule]
      BY <1>5 DEF reapplied, Row
    <2>2. ByRule = Row(ByRule.cat, ByRule.source, ByRule.transfer) /\ ByRule.cat = id
      BY ONLY DEF Row
    <2> HIDE DEF ByRule
    <2>3. ASSUME NEW r \in LedgerRows PROVE filed'[r] = filed[r] \/ (r \notin Boxed /\ filed'[r] = ByRule)
      BY <2>1
    <2>4. filed' = [r \in LedgerRows |-> filed'[r]]
      BY <2>1
    <2>5. rule = [cat |-> rule.cat, transfer |-> rule.transfer] /\ rule.cat = id
      OBVIOUS
    <2> HIDE DEF rule, id
    <2>6. RowsTyped'
      <3>1. \A r \in LedgerRows : filed'[r] = Row(filed'[r].cat, filed'[r].source, filed'[r].transfer)
        BY <2>2, <2>3 DEF PickersInv, RowsTyped
      <3>2. theRule' = [cat |-> theRule'.cat, transfer |-> theRule'.transfer]
        BY <1>5, <2>5
      <3> QED
        BY <2>4, <3>1, <3>2 DEF RowsTyped
    <2>7. NothingPointsAtGone'
      <3>1. \A r \in LedgerRows :
               exists(filed'[r].cat) /\ (r \in Boxed /\ filed'[r].cat = NoCat => filed'[r].transfer)
        BY <1>5, <2>2, <2>3 DEF PickersInv, NothingPointsAtGone
      <3> QED
        BY <1>1, <1>3, <1>5, <2>5, <3>1 DEF NothingPointsAtGone, exists, ids
    <2> QED
      BY <1>1, <1>2, <2>6, <2>7 DEF PickersInv, NoTwins, fold,
                                    RequestHolds, Free, existingCategoryName, categoryNameProblem
  <1> QED
    BY <1>1, <1>4, <1>5

\* What an action must show where it changes the lists, the rows or the rule.
LEMMA InvHolds ==
  ASSUME ListsHold', RowsTyped', NoTwins', NothingPointsAtGone',
         \A v \in writes' : RequestHolds(v)
  PROVE  PickersInv'
  BY DEF PickersInv, RequestHolds, Free, existingCategoryName, categoryNameProblem, fold

LEMMA ReadRenameHolds ==
  ASSUME PickersInv, NEW w \in writes, ReadRename(w)
  PROVE  PickersInv'
  <1> DEFINE others == {c \in categories : c.id # w.choice.id}
             renaming == [w EXCEPT !.do = "renaming", !.seen = categories]
  <1>1. RequestHolds(w) /\ w.do = "rename"
    BY DEF PickersInv, ReadRename
  <1>2. /\ UNCHANGED <<categories, filed, theRule, listed, raced>>
        /\ \/ writes' = writes \ {w}
           \/ /\ ~categoryNameProblem(w.then, categories \ {c \in categories : c.id = w.choice.id})
              /\ writes' = (writes \ {w}) \union {renaming}
    BY DEF ReadRename, done, advance
  <1>3. ASSUME ~categoryNameProblem(w.then, categories \ {c \in categories : c.id = w.choice.id})
        PROVE  RequestHolds(renaming)
    <2>1. categories \ {c \in categories : c.id = w.choice.id} = others
      OBVIOUS
    <2> HIDE DEF others
    <2>2. ~categoryNameProblem(w.then, others)
      BY <1>3, <2>1
    <2>3. Free(w.then, others)
      BY <2>2 DEF Free, categoryNameProblem, existingCategoryName
    <2> QED
      BY <1>1, <2>3, RequestMoves DEF others
  <1> HIDE DEF renaming
  <1>4. \A v \in writes' : RequestHolds(v)
    BY <1>2, <1>3 DEF PickersInv
  <1> QED
    BY <1>2, <1>4, ListsRest

\* The categories renamed, one by one.
Renaming(cs, id, name) == {IF c.id = id THEN [c EXCEPT !.name = name] ELSE c : c \in cs}

LEMMA RenamedHold ==
  ASSUME NEW cs, IdsHold(cs), NEW id, NEW name
  PROVE  LET new == Renaming(cs, id, name)
         IN /\ IdsHold(new) /\ ids(new) = ids(cs)
            /\ \A d \in new : \/ d \in cs /\ d.id # id
                              \/ d.id = id /\ d.name = name /\ \E c \in cs : c.id = id
  <1> DEFINE renamed(c) == IF c.id = id THEN [c EXCEPT !.name = name] ELSE c
             new == {renamed(c) : c \in cs}
  <1>1. ASSUME NEW c \in cs
        PROVE  /\ renamed(c) = [id |-> renamed(c).id, name |-> renamed(c).name, isIncome |-> renamed(c).isIncome]
               /\ renamed(c).id = c.id
               /\ c.id = id => renamed(c).name = name
               /\ c.id # id => renamed(c) = c
    <2>1. c = [id |-> c.id, name |-> c.name, isIncome |-> c.isIncome]
      BY DEF IdsHold
    <2> DEFINE i == c.id
               n == c.name
               k == c.isIncome
    <2>2. c = [id |-> i, name |-> n, isIncome |-> k]
      BY <2>1
    <2> HIDE DEF i, n, k
    <2>3. [c EXCEPT !.name = name] = [id |-> i, name |-> name, isIncome |-> k]
      BY <2>2
    <2> QED
      BY <2>1, <2>3 DEF i
  <1> HIDE DEF renamed
  <1>2. IdsHold(new)
    BY <1>1 DEF IdsHold
  <1>3. ids(new) = ids(cs)
    BY <1>1 DEF ids
  <1>4. ASSUME NEW d \in new
        PROVE  \/ d \in cs /\ d.id # id
               \/ d.id = id /\ d.name = name /\ \E c \in cs : c.id = id
    BY <1>1
  <1>5. Renaming(cs, id, name) = new
    BY DEF Renaming, renamed
  <1> HIDE DEF new
  <1> QED
    BY <1>2, <1>3, <1>4, <1>5

LEMMA WriteRenameHolds ==
  ASSUME PickersInv, NEW w \in writes, WriteRename(w)
  PROVE  PickersInv'
  <1> DEFINE id == w.choice.id
             others == {c \in categories : c.id # id}
  <1>1. /\ UNCHANGED <<filed, theRule>> /\ raced' = (raced \/ categories # w.seen)
        /\ writes' = writes \ {w} /\ Redrawn(w.tab, categories', filed)
        /\ categories' = {IF c.id = id THEN [c EXCEPT !.name = w.then] ELSE c : c \in categories}
    BY DEF WriteRename, done
  <1>2. /\ IdsHold(categories') /\ ids(categories') = ids(categories)
        /\ \A d \in categories' : \/ d \in others
                                  \/ d.id = id /\ d.name = w.then
    <2>1. IdsHold(categories)
      BY DEF PickersInv, ListsHold
    <2> DEFINE name == w.then
               new == Renaming(categories, id, name)
    <2>2. categories' = new
      BY <1>1 DEF Renaming
    <2> HIDE DEF id, name
    <2>3. /\ IdsHold(new) /\ ids(new) = ids(categories)
          /\ \A d \in new : \/ d \in categories /\ d.id # id
                            \/ d.id = id /\ d.name = name /\ \E c \in categories : c.id = id
      BY ONLY <2>1, RenamedHold
    <2> HIDE DEF new
    <2> QED
      BY <2>2, <2>3 DEF name
  <1>3. ListsHold'
    BY <1>1, <1>2, RedrawnHolds
  <1>4. NoTwins'
    <2> SUFFICES ASSUME ~raced' PROVE NoTwins'
      BY DEF NoTwins
    <2>1. ~raced /\ Free(w.then, others)
      BY <1>1 DEF PickersInv, RequestHolds, WriteRename
    <2>2. /\ \A c \in others : c.name.words # w.then.words
          /\ w.then.words \notin Reserved /\ Len(w.then.words) <= MaxWords
      BY <2>1 DEF Free, existingCategoryName, categoryNameProblem, fold
    <2>3. /\ \A c, d \in others : c.name.words = d.name.words => c = d
          /\ \A c \in others : c.name.words \notin Reserved /\ Len(c.name.words) <= MaxWords
      BY <2>1 DEF PickersInv, NoTwins, fold
    <2> HIDE DEF others, id
    <2>4. ASSUME NEW c \in categories', NEW d \in categories', c.name.words = d.name.words PROVE c = d
      BY <1>2, <2>2, <2>3, <2>4 DEF IdsHold
    <2>5. ASSUME NEW c \in categories' PROVE c.name.words \notin Reserved /\ Len(c.name.words) <= MaxWords
      BY <1>2, <2>2, <2>3
    <2> QED
      BY <2>4, <2>5 DEF NoTwins, fold
  <1>5. RowsTyped' /\ NothingPointsAtGone'
    BY <1>1, <1>2 DEF PickersInv, RowsTyped, NothingPointsAtGone, exists
  <1>6. \A v \in writes' : RequestHolds(v)
    BY <1>1 DEF PickersInv
  <1> QED
    BY <1>3, <1>4, <1>5, <1>6, InvHolds

LEMMA ReadDeleteHolds ==
  ASSUME PickersInv, NEW w \in writes, ReadDelete(w)
  PROVE  PickersInv'
  <1> DEFINE deleting == [w EXCEPT !.do = "deleting"]
  <1>1. RequestHolds(w) /\ w.do = "delete"
    BY DEF PickersInv, ReadDelete
  <1>2. RequestHolds(deleting)
    BY <1>1, RequestMoves
  <1>3. /\ UNCHANGED <<categories, filed, theRule, listed, raced>>
        /\ writes' = writes \ {w} \/ writes' = (writes \ {w}) \union {deleting}
    BY DEF ReadDelete, done, advance
  <1> HIDE DEF deleting
  <1>4. \A v \in writes' : RequestHolds(v)
    BY <1>2, <1>3 DEF PickersInv
  <1> QED
    BY <1>3, <1>4, ListsRest

\* A row of a category on its way out, as the one transaction leaves it.
Moved(r, id, to) ==
    IF filed[r].cat # id THEN filed[r]
    ELSE IF to = NoCat THEN whenCleared(r, filed[r])
    ELSE [filed[r] EXCEPT !.cat = to]

LEMMA MovedRow ==
  ASSUME PickersInv, NEW id, exists(id), id # NoCat, NEW to, exists(to), to # id,
         NEW r \in LedgerRows, NEW row, row = Moved(r, id, to)
  PROVE  /\ row = Row(row.cat, row.source, row.transfer)
         /\ exists(row.cat) /\ row.cat # id
         /\ r \in Boxed /\ row.cat = NoCat => row.transfer
  <1> DEFINE was == filed[r]
  <1>1. /\ was = Row(was.cat, was.source, was.transfer) /\ exists(was.cat)
        /\ r \in Boxed /\ was.cat = NoCat => was.transfer
    BY DEF PickersInv, RowsTyped, NothingPointsAtGone
  <1>2. row = IF was.cat # id THEN was ELSE IF to = NoCat THEN whenCleared(r, was) ELSE [was EXCEPT !.cat = to]
    BY DEF Moved
  <1> HIDE DEF was
  <1>3. CASE was.cat # id
    BY <1>1, <1>2, <1>3
  <1>4. CASE was.cat = id /\ to = NoCat /\ r \in Boxed
    <2>1. row = Row(NoCat, "RULE", TRUE)
      BY <1>1, <1>2, <1>4, RowsChange
    <2>2. row.cat = NoCat /\ row.transfer = TRUE /\ row = Row(row.cat, row.source, row.transfer)
      BY ONLY <2>1 DEF Row
    <2> QED
      BY <1>4, <2>2 DEF exists
  <1>5. CASE was.cat = id /\ to = NoCat /\ r \notin Boxed
    <2>1. row = Row(NoCat, "AGGREGATOR", was.transfer)
      BY <1>1, <1>2, <1>5, RowsChange
    <2>2. row.cat = NoCat /\ row = Row(row.cat, row.source, row.transfer)
      BY ONLY <2>1, FieldsOfRow
    <2> QED
      BY <1>5, <2>2 DEF exists
  <1>6. CASE was.cat = id /\ to # NoCat
    <2>1. row = Row(to, was.source, was.transfer)
      BY <1>1, <1>2, <1>6, RowsChange
    <2>2. row.cat = to /\ row = Row(row.cat, row.source, row.transfer)
      BY ONLY <2>1, FieldsOfRow
    <2> QED
      BY <1>6, <2>2
  <1> QED
    BY <1>3, <1>4, <1>5, <1>6

\* What a rule on its way past a deletion sets, still sets something.
Redirected(id, to) ==
    IF to = NoCat THEN ruleWithout(theRule, id)
    ELSE IF theRule # NoRule /\ theRule.cat = id THEN [theRule EXCEPT !.cat = to]
    ELSE theRule

LEMMA RedirectedRule ==
  ASSUME PickersInv, NEW id, id # NoCat, NEW to, exists(to), to # id, Redirected(id, to) # NoRule
  PROVE  LET rule == Redirected(id, to)
         IN /\ rule = [cat |-> rule.cat, transfer |-> rule.transfer]
            /\ exists(rule.cat) /\ rule.cat # id /\ (rule.cat # NoCat \/ rule.transfer)
  <1> DEFINE rule == Redirected(id, to)
             c == theRule.cat
             k == theRule.transfer
  <1>1. \/ /\ rule = theRule /\ theRule # NoRule /\ theRule.cat # id
        \/ /\ rule = [theRule EXCEPT !.cat = to] /\ theRule # NoRule /\ theRule.cat = id
           /\ to = NoCat => theRule.transfer
    BY DEF Redirected, ruleWithout
  <1>2. /\ theRule = [cat |-> c, transfer |-> k] /\ exists(theRule.cat)
        /\ theRule.cat # NoCat \/ theRule.transfer
    BY <1>1 DEF PickersInv, RowsTyped, NothingPointsAtGone
  <1>3. CASE rule = theRule /\ theRule.cat # id
    <2> HIDE DEF rule
    <2> QED
      BY <1>2, <1>3 DEF rule
  <1>4. CASE rule = [theRule EXCEPT !.cat = to] /\ (to = NoCat => theRule.transfer)
    <2>1. (to = NoCat => k)
      BY <1>4
    <2> HIDE DEF rule, c, k
    <2>2. rule = [cat |-> to, transfer |-> k]
      BY <1>2, <1>4
    <2> QED
      BY <2>1, <2>2 DEF rule
  <1> QED
    BY <1>1, <1>3, <1>4

LEMMA WriteDeleteHolds ==
  ASSUME PickersInv, NEW w \in writes, WriteDelete(w)
  PROVE  PickersInv'
  <1> DEFINE id == w.choice.id
             to == w.then
  <1>1. /\ raced' = raced /\ writes' = writes \ {w} /\ Redrawn(w.tab, categories', filed')
        /\ \/ UNCHANGED <<categories, filed, theRule>>
           \/ /\ exists(id) /\ exists(to)
              /\ filed' = [r \in LedgerRows |-> Moved(r, id, to)] /\ theRule' = Redirected(id, to)
              /\ categories' = {c \in categories : c.id # id}
    BY DEF WriteDelete, done, Moved, Redirected
  <1>2. id # NoCat /\ to # id
    BY DEF PickersInv, RequestHolds, WriteDelete
  <1> HIDE DEF id, to
  <1>3. IdsHold(categories')
    BY <1>1 DEF PickersInv, ListsHold, IdsHold
  <1>4. ListsHold'
    BY <1>1, <1>3, RedrawnHolds
  <1>5. NoTwins'
    BY <1>1 DEF PickersInv, NoTwins, fold
  <1>6. RowsTyped' /\ NothingPointsAtGone'
    <2>1. CASE UNCHANGED <<categories, filed, theRule>>
      BY <2>1 DEF PickersInv, RowsTyped, NothingPointsAtGone, exists, ids
    <2>2. CASE /\ exists(id) /\ exists(to)
               /\ filed' = [r \in LedgerRows |-> Moved(r, id, to)] /\ theRule' = Redirected(id, to)
               /\ categories' = {c \in categories : c.id # id}
      <3>1. ASSUME NEW x, exists(x), x # id PROVE x = NoCat \/ x \in ids(categories')
        BY <2>2, <3>1 DEF exists, ids
      <3>2. ASSUME NEW r \in LedgerRows
            PROVE  /\ filed'[r] = Row(filed'[r].cat, filed'[r].source, filed'[r].transfer)
                   /\ exists(filed'[r].cat) /\ filed'[r].cat # id
                   /\ r \in Boxed /\ filed'[r].cat = NoCat => filed'[r].transfer
        <4>1. filed'[r] = Moved(r, id, to)
          BY <2>2
        <4> QED
          BY <1>2, <2>2, <4>1, MovedRow
      <3>3. theRule' # NoRule =>
              /\ theRule' = [cat |-> theRule'.cat, transfer |-> theRule'.transfer]
              /\ exists(theRule'.cat) /\ theRule'.cat # id /\ (theRule'.cat # NoCat \/ theRule'.transfer)
        BY <1>2, <2>2, RedirectedRule
      <3>4. filed' = [r \in LedgerRows |-> filed'[r]]
        BY <2>2
      <3> QED
        BY <3>1, <3>2, <3>3, <3>4 DEF RowsTyped, NothingPointsAtGone, exists
    <2> QED
      BY <1>1, <2>1, <2>2
  <1>7. \A v \in writes' : RequestHolds(v)
    BY <1>1 DEF PickersInv
  <1> QED
    BY <1>4, <1>5, <1>6, <1>7, InvHolds

LEMMA AskHolds ==
  ASSUME PickersInv, NEW t \in Screens, NEW c \in listed[t],
         \/ \E name \in NewNames : AskRename(t, c, name)
         \/ \E to \in {NoCat} \union ids(listed[t]) : AskDelete(t, c, to)
  PROVE  PickersInv'
  <1>1. c.id # NoCat
    BY PickersAssumption DEF PickersInv, ListsHold, IdsHold
  <1>2. PICK do, then : /\ writes' = writes \union {Edit(t, do, c.id, then)}
                        /\ do = "rename" \/ (do = "delete" /\ then # c.id)
                        /\ UNCHANGED <<categories, filed, theRule, listed, raced>>
    <2>1. ASSUME NEW name, AskRename(t, c, name)
          PROVE  /\ writes' = writes \union {Edit(t, "rename", c.id, name)}
                 /\ UNCHANGED <<categories, filed, theRule, listed, raced>>
      BY <2>1 DEF AskRename
    <2>2. ASSUME NEW to, AskDelete(t, c, to)
          PROVE  /\ writes' = writes \union {Edit(t, "delete", c.id, to)}
                 /\ to # c.id
                 /\ UNCHANGED <<categories, filed, theRule, listed, raced>>
      <3>1. to \in {NoCat} \union ids(listed[t] \ {c})
        BY <2>2 DEF AskDelete
      <3>2. to # c.id
        BY <1>1, <3>1 DEF PickersInv, ListsHold, IdsHold, ids
      <3> QED
        BY <2>2, <3>2 DEF AskDelete
    <2> QED
      BY <2>1, <2>2
  <1> DEFINE new == Edit(t, do, c.id, then)
  <1>3. RequestHolds(new)
    BY <1>1, <1>2 DEF RequestHolds, Edit, Existing
  <1> HIDE DEF new
  <1>4. \A w \in writes' : RequestHolds(w)
    BY <1>2, <1>3 DEF PickersInv, new
  <1> QED
    BY <1>2, <1>4, ListsRest

LEMMA PickersStep == PickersInv /\ [PickersNext]_kvars => PickersInv'
  <1> SUFFICES ASSUME PickersInv, [PickersNext]_kvars PROVE PickersInv'
    OBVIOUS
  <1>1. ASSUME UNCHANGED <<categories, filed, theRule, listed, writes, raced>> PROVE PickersInv'
    BY <1>1, ListsRest DEF PickersInv
  <1>2. CASE UNCHANGED kvars
    BY <1>1, <1>2 DEF kvars
  <1>3. ASSUME NEW t \in Screens, NEW r, NEW m, NEW s, Open(t, r, m, s) PROVE PickersInv'
    BY <1>1, <1>3 DEF Open
  <1>4. ASSUME NEW t \in Screens, NEW n, Type(t, n) \/ Dismiss(t) PROVE PickersInv'
    BY <1>1, <1>4 DEF Type, Dismiss
  <1>5. ASSUME NEW w \in writes,
               \/ FindName(w) \/ MakeCategory(w) \/ AssignRow(w) \/ RuleFromRow(w)
               \/ ReadRename(w) \/ WriteRename(w) \/ ReadDelete(w) \/ WriteDelete(w)
        PROVE  PickersInv'
    BY <1>5, FindNameHolds, MakeCategoryHolds, AssignRowHolds, RuleFromRowHolds,
       ReadRenameHolds, WriteRenameHolds, ReadDeleteHolds, WriteDeleteHolds
  <1> QED
    BY <1>2, <1>3, <1>4, <1>5, PickHolds, AskHolds DEF PickersNext

\* For any number of tabs, however stale the list each draws from and however
\* their requests interleave: unless two edits of the list itself overlapped
\* on the server, no two categories have one name and none has a reserved or
\* overlong one (lib/categories.ts, categoryEdits.ts).
THEOREM NamesStayApart == PickersSpec => []NoTwins
  <1>1. PickersInv => NoTwins
    BY DEF PickersInv
  <1> QED
    BY <1>1, InitPickers, PickersStep, PTL DEF PickersSpec

\* For any number of tabs, a category deleted under those that still list it
\* leaves no row and no rule pointing at it, no rule that sets nothing, and no
\* cleared row of a closed box that counts (categoryEdits.ts).
THEOREM DeletedLeavesNothing == PickersSpec => []NothingPointsAtGone
  <1>1. PickersInv => NothingPointsAtGone
    BY DEF PickersInv
  <1> QED
    BY <1>1, InitPickers, PickersStep, PTL DEF PickersSpec
-----------------------------------------------------------------------------
(* Queues of saves, which a tab sends one after another. *)

\* A sequence of whatever is in it.
Queue(s) == s \in Seq(Range(s))

\* A sequence of anything is one of whatever is in it.
LEMMA SelfSeq ==
  ASSUME NEW S, NEW s \in Seq(S)
  PROVE  Queue(s)
  <1>1. s \in [1..Len(s) -> S] /\ Len(s) \in Nat /\ DOMAIN s = 1..Len(s)
    BY LenProperties
  <1>2. s \in [1..Len(s) -> Range(s)]
    BY <1>1 DEF Range
  <1>3. s \in Seq(Range(s))
    BY <1>1, <1>2, SeqDef
  <1> QED
    BY <1>3 DEF Queue

\* What is put behind a queue leaves its head, and is the head of an empty one.
LEMMA QueueGrows ==
  ASSUME NEW s, Queue(s), NEW e
  PROVE  /\ Queue(Append(s, e)) /\ Append(s, e) # <<>>
         /\ s # <<>> => Head(Append(s, e)) = Head(s)
         /\ s = <<>> => Head(Append(s, e)) = e /\ Len(Append(s, e)) = 1
         /\ e \in Range(Append(s, e)) /\ Range(Append(s, e)) \subseteq Range(s) \union {e}
  <1> DEFINE S == Range(s) \union {e}
  <1>1. s \in Seq(S) /\ e \in S
    <2>1. s \in Seq(Range(s)) /\ Range(s) \subseteq S
      BY DEF Queue
    <2>2. s \in [1..Len(s) -> Range(s)] /\ Len(s) \in Nat
      BY <2>1, LenProperties
    <2>3. s \in [1..Len(s) -> S]
      BY <2>1, <2>2
    <2> QED
      BY <2>2, <2>3, SeqDef
  <1> HIDE DEF S
  <1>2. Append(s, e) \in Seq(S) /\ Append(s, e) # <<>> /\ Len(Append(s, e)) = Len(s) + 1 /\ Len(s) \in Nat
    BY <1>1
  <1>3. Queue(Append(s, e))
    BY <1>2, SelfSeq
  <1>4. s # <<>> => Head(Append(s, e)) = Head(s)
    BY <1>1
  <1>5. ASSUME s = <<>> PROVE Head(Append(s, e)) = e /\ Len(Append(s, e)) = 1
    BY <1>1, <1>5
  <1>6. Append(s, e)[Len(s) + 1] = e /\ DOMAIN Append(s, e) = 1..Len(s) + 1
    BY <1>1
  <1>7. e \in Range(Append(s, e))
    <2>1. Len(s) + 1 \in DOMAIN Append(s, e)
      BY <1>2, <1>6
    <2> QED
      BY <1>6, <2>1 DEF Range
  <1>8. Range(Append(s, e)) \subseteq S
    BY <1>2, LenProperties DEF Range
  <1> QED
    BY <1>2, <1>3, <1>4, <1>5, <1>7, <1>8 DEF S

\* What is left of a queue is one, and nothing of one of one.
LEMMA QueueShrinks ==
  ASSUME NEW s, Queue(s), s # <<>>
  PROVE  /\ Queue(Tail(s)) /\ Head(s) \in Range(s) /\ Range(Tail(s)) \subseteq Range(s)
         /\ Len(s) = 1 => Tail(s) = <<>>
  <1> DEFINE S == Range(s)
  <1>1. s \in Seq(S)
    BY DEF Queue
  <1> HIDE DEF S
  <1>2. Tail(s) \in Seq(S) /\ Head(s) \in S /\ Len(Tail(s)) = Len(s) - 1
    BY <1>1
  <1>3. Queue(Tail(s))
    BY <1>2, SelfSeq
  <1>4. Range(Tail(s)) \subseteq S
    BY <1>2, LenProperties DEF Range
  <1>5. ASSUME Len(s) = 1 PROVE Tail(s) = <<>>
    <2>1. Len(Tail(s)) = 0
      BY <1>2, <1>5
    <2>2. \A u \in Seq(S) : u # <<>> => Len(u) \in Nat \ {0}
      BY EmptySeq
    <2> QED
      BY <1>2, <2>1, <2>2
  <1> QED
    BY <1>2, <1>3, <1>4, <1>5 DEF S

-----------------------------------------------------------------------------
(* The savings goals (SavingsGoals).                                        *)

\* A card as it is drawn, which a tab that has sent a save still has.
Stands(c) == c = [id |-> c.id, of |-> c.of, pace |-> c.pace, stored |-> c.stored, failed |-> c.failed]

\* What a save has read, with its own goal's pace set, is what it will write;
\* an answer on its way is the first save's.
SaveHolds(c, q, h, r) ==
    /\ Queue(q)
    /\ c # Gone \/ q # <<>> => Stands(c)
    /\ h # None => /\ q # <<>> /\ r = None
                   /\ h.next # Refused /\ h.next = withGoalPace(h.read, c.id, Head(q).next)
    /\ r # None => q # <<>>

\* A card shows what it stored, or the one save it has sent.
CardSettled(c, q) ==
    /\ q = <<>> /\ c # Gone => c.pace = c.stored
    /\ q # <<>> => Len(q) = 1 /\ c.pace = Head(q).next /\ Head(q).before = c.stored

GoalTabsTyped ==
    /\ cards = [t \in CardTabs |-> cards[t]] /\ sending = [t \in CardTabs |-> sending[t]]
    /\ holding = [t \in CardTabs |-> holding[t]] /\ replied = [t \in CardTabs |-> replied[t]]
    /\ tries = [saves |-> tries.saves, lost |-> tries.lost, commands |-> tries.commands]
    /\ tries.lost \in Nat /\ strayed \in BOOLEAN

CommandHolds ==
    command # None =>
        command.next = (IF command.edit.add # None THEN added(command.read, command.edit.add)
                        ELSE without(parseGoals(command.read), command.edit.drop))

GoalsInv ==
    /\ GoalTabsTyped /\ CommandHolds
    /\ \A t \in CardTabs : SaveHolds(cards[t], sending[t], holding[t], replied[t])
    /\ ~strayed /\ tries.lost = 0 => \A t \in CardTabs : CardSettled(cards[t], sending[t])
    /\ EditsKeepTheRest

LEMMA InitGoals == SavingsGoalsInit => GoalsInv
  <1> SUFFICES ASSUME SavingsGoalsInit PROVE GoalsInv
    OBVIOUS
  <1> USE DEF SavingsGoalsInit
  <1>1. PICK C : cards \in [CardTabs -> C] /\ \A c \in C : c # Gone => Stands(c) /\ c.pace = c.stored
    <2> DEFINE All == {cardFor(goalOf(id, setting)) : id \in idsIn(setting)}
               C == IF All = {} THEN {Gone} ELSE All
    <2>1. ASSUME NEW c \in C, c # Gone PROVE Stands(c) /\ c.pace = c.stored
      <3>1. PICK g : c = cardFor(g)
        BY <2>1
      <3> QED
        BY <3>1 DEF cardFor, Stands
    <2>2. cards \in [CardTabs -> C]
      OBVIOUS
    <2>3. \A c \in C : c # Gone => Stands(c) /\ c.pace = c.stored
      BY <2>1
    <2> HIDE DEF C
    <2> QED
      BY <2>2, <2>3
  <1>2. GoalTabsTyped
    BY <1>1 DEF GoalTabsTyped, NoSends
  <1>3. Queue(<<>>)
    BY EmptySeq DEF Queue
  <1>4. ASSUME NEW t \in CardTabs
        PROVE  SaveHolds(cards[t], sending[t], holding[t], replied[t]) /\ CardSettled(cards[t], sending[t])
    <2>1. cards[t] # Gone => Stands(cards[t]) /\ cards[t].pace = cards[t].stored
      BY <1>1
    <2>2. sending[t] = <<>> /\ holding[t] = None /\ replied[t] = None
      BY DEF NoSends
    <2> QED
      BY <1>3, <2>1, <2>2 DEF SaveHolds, CardSettled
  <1> QED
    BY <1>2, <1>4 DEF GoalsInv, CommandHolds, EditsKeepTheRest

\* What one tab does leaves the others as they were.
LEMMA TabMoves ==
  ASSUME GoalsInv, GoalTabsTyped', NEW t \in CardTabs,
         \A u \in CardTabs \ {t} : /\ cards'[u] = cards[u] /\ sending'[u] = sending[u]
                                   /\ holding'[u] = holding[u] /\ replied'[u] = replied[u],
         SaveHolds(cards'[t], sending'[t], holding'[t], replied'[t]),
         ~strayed' /\ tries'.lost = 0 =>
            ~strayed /\ tries.lost = 0 /\ CardSettled(cards'[t], sending'[t])
  PROVE  /\ \A u \in CardTabs : SaveHolds(cards'[u], sending'[u], holding'[u], replied'[u])
         /\ ~strayed' /\ tries'.lost = 0 => \A u \in CardTabs : CardSettled(cards'[u], sending'[u])
  <1>1. ASSUME NEW u \in CardTabs, u # t
        PROVE  /\ SaveHolds(cards'[u], sending'[u], holding'[u], replied'[u])
               /\ ~strayed' /\ tries'.lost = 0 => CardSettled(cards'[u], sending'[u])
    <2>1. cards'[u] = cards[u] /\ sending'[u] = sending[u] /\ holding'[u] = holding[u] /\ replied'[u] = replied[u]
      BY <1>1
    <2>2. SaveHolds(cards[u], sending[u], holding[u], replied[u])
      BY DEF GoalsInv
    <2>3. ~strayed /\ tries.lost = 0 => CardSettled(cards[u], sending[u])
      BY DEF GoalsInv
    <2> QED
      BY <2>1, <2>2, <2>3
  <1> QED
    BY <1>1

\* A card that is edited shows it, and sends it behind what it has sent.
LEMMA CardEdited ==
  ASSUME GoalsInv, NEW t \in CardTabs, cards[t] # Gone, NEW next,
         \/ /\ cards' = [cards EXCEPT ![t].failed = TRUE]
            /\ UNCHANGED <<sending, tries, strayed>>
         \/ /\ strayed' = (strayed \/ stale(t))
            /\ \/ cards' = [cards EXCEPT ![t].failed = FALSE] /\ UNCHANGED <<sending, tries>>
               \/ cards' = [cards EXCEPT ![t].failed = FALSE, ![t].pace = next] /\ save(t, next),
         onCard
  PROVE  GoalsInv'
  <1> DEFINE c == cards[t]
             q == sending[t]
             sent == Append(q, [next |-> next, before |-> c.stored])
  <1>1. SaveHolds(c, q, holding[t], replied[t]) /\ Stands(c) /\ GoalTabsTyped
    BY DEF GoalsInv, SaveHolds
  <1>2. stale(t) \in BOOLEAN
    BY DEF stale
  <1>3. GoalTabsTyped'
    BY <1>1, <1>2 DEF GoalTabsTyped, save, onCard
  <1>4. \A u \in CardTabs \ {t} : /\ cards'[u] = cards[u] /\ sending'[u] = sending[u]
                                  /\ holding'[u] = holding[u] /\ replied'[u] = replied[u]
    BY <1>1 DEF GoalTabsTyped, save, onCard
  <1>5. ~strayed' => ~strayed
    BY <1>1 DEF GoalTabsTyped
  <1>6. tries'.lost = tries.lost /\ holding'[t] = holding[t] /\ replied'[t] = replied[t]
    BY <1>1 DEF GoalTabsTyped, save, onCard
  <1>7. \/ cards'[t] \in {[c EXCEPT !.failed = TRUE], [c EXCEPT !.failed = FALSE]} /\ sending'[t] = q
        \/ cards'[t] = [c EXCEPT !.failed = FALSE, !.pace = next] /\ sending'[t] = sent
    BY <1>1 DEF GoalTabsTyped, save
  <1>8. Stands(cards'[t]) /\ cards'[t].id = c.id /\ cards'[t].stored = c.stored
    BY <1>1, <1>7 DEF Stands
  <1>9. Queue(sending'[t]) /\ (q # <<>> => sending'[t] # <<>> /\ Head(sending'[t]) = Head(q))
    <2>1. Queue(q)
      BY <1>1 DEF SaveHolds
    <2>2. Queue(sent) /\ sent # <<>> /\ (q # <<>> => Head(sent) = Head(q))
      BY <2>1, QueueGrows
    <2> QED
      BY <1>7, <2>1, <2>2
  <1>10. SaveHolds(cards'[t], sending'[t], holding'[t], replied'[t])
    BY <1>1, <1>6, <1>8, <1>9 DEF SaveHolds
  <1>11. ASSUME ~strayed', tries'.lost = 0 PROVE CardSettled(cards'[t], sending'[t])
    <2>1. CardSettled(c, q)
      BY <1>5, <1>6, <1>11 DEF GoalsInv
    <2>2. CASE cards'[t] \in {[c EXCEPT !.failed = TRUE], [c EXCEPT !.failed = FALSE]} /\ sending'[t] = q
      <3>1. cards'[t].pace = c.pace
        BY <1>1, <2>2 DEF Stands
      <3> QED
        BY <1>8, <2>1, <2>2, <3>1 DEF CardSettled
    <2>3. CASE cards'[t] = [c EXCEPT !.failed = FALSE, !.pace = next] /\ sending'[t] = sent /\ sending'[t] # q
      <3>1. ~stale(t)
        BY <1>2, <1>11, <2>3 DEF GoalTabsTyped
      <3>2. q = <<>>
        BY <3>1 DEF stale
      <3>3. Head(sent) = [next |-> next, before |-> c.stored] /\ Len(sent) = 1 /\ sent # <<>>
        BY <1>1, <3>2, QueueGrows DEF SaveHolds
      <3>4. cards'[t].pace = next
        BY <1>1, <2>3 DEF Stands
      <3> QED
        BY <1>8, <2>3, <3>3, <3>4 DEF CardSettled
    <2>4. sent # q
      <3>1. Len(sent) = Len(q) + 1 /\ Len(q) \in Nat
        BY <1>1 DEF SaveHolds, Queue
      <3> QED
        BY <3>1
    <2> QED
      BY <1>7, <2>2, <2>3, <2>4
  <1>12. CommandHolds' /\ EditsKeepTheRest'
    BY <1>5 DEF GoalsInv, CommandHolds, EditsKeepTheRest, onCard
  <1> HIDE DEF c, q, sent
  <1> QED
    BY <1>3, <1>4, <1>5, <1>6, <1>10, <1>11, <1>12, TabMoves DEF GoalsInv

LEMMA CommitPaceSafe == ASSUME GoalsInv, NEW t \in CardTabs, NEW typed \in Typed, CommitPace(t, typed) PROVE GoalsInv'
  <1>1. PICK next : \/ /\ cards' = [cards EXCEPT ![t].failed = TRUE]
                       /\ UNCHANGED <<sending, tries, strayed>>
                    \/ /\ strayed' = (strayed \/ stale(t))
                       /\ \/ cards' = [cards EXCEPT ![t].failed = FALSE] /\ UNCHANGED <<sending, tries>>
                          \/ cards' = [cards EXCEPT ![t].failed = FALSE, ![t].pace = next] /\ save(t, next)
    BY DEF CommitPace
  <1>2. cards[t] # Gone /\ onCard
    BY DEF CommitPace
  <1> QED
    BY <1>1, <1>2, CardEdited

LEMMA UseMeasuredSafe == ASSUME GoalsInv, NEW t \in CardTabs, UseMeasured(t) PROVE GoalsInv'
  <1>1. /\ strayed' = (strayed \/ stale(t))
        /\ \/ cards' = [cards EXCEPT ![t].failed = FALSE] /\ UNCHANGED <<sending, tries>>
           \/ cards' = [cards EXCEPT ![t].failed = FALSE, ![t].pace = None] /\ save(t, None)
    BY DEF UseMeasured
  <1>2. cards[t] # Gone /\ onCard
    BY DEF UseMeasured
  <1> QED
    BY <1>1, <1>2, CardEdited

LEMMA ReadGoalsSafe == ASSUME GoalsInv, NEW t \in CardTabs, ReadGoals(t) PROVE GoalsInv'
  <1> DEFINE next == withGoalPace(setting, cards[t].id, Head(sending[t]).next)
             kept == [read |-> setting, next |-> next]
  <1>1. SaveHolds(cards[t], sending[t], holding[t], replied[t]) /\ GoalTabsTyped
    BY DEF GoalsInv
  <1>2. /\ sending[t] # <<>> /\ holding[t] = None /\ replied[t] = None
        /\ UNCHANGED <<setting, cards, sending, command, owed, strayed, tries>>
        /\ \/ replied' = [replied EXCEPT ![t] = Refused] /\ holding' = holding
           \/ next # Refused /\ holding' = [holding EXCEPT ![t] = kept] /\ replied' = replied
    BY DEF ReadGoals
  <1>3. kept.read = setting /\ kept.next = next
    OBVIOUS
  <1> HIDE DEF kept
  <1>4. GoalTabsTyped'
    BY <1>1, <1>2 DEF GoalTabsTyped
  <1>5. \A u \in CardTabs \ {t} : /\ cards'[u] = cards[u] /\ sending'[u] = sending[u]
                                  /\ holding'[u] = holding[u] /\ replied'[u] = replied[u]
    BY <1>1, <1>2 DEF GoalTabsTyped
  <1>6. SaveHolds(cards'[t], sending'[t], holding'[t], replied'[t])
    <2>1. cards'[t] = cards[t] /\ sending'[t] = sending[t]
      BY <1>2
    <2>2. \/ replied'[t] = Refused /\ holding'[t] = None
          \/ next # Refused /\ holding'[t] = kept /\ replied'[t] = None
      BY <1>1, <1>2 DEF GoalTabsTyped
    <2> QED
      BY <1>1, <1>2, <1>3, <2>1, <2>2 DEF SaveHolds
  <1>7. ~strayed' /\ tries'.lost = 0 => ~strayed /\ tries.lost = 0 /\ CardSettled(cards'[t], sending'[t])
    BY <1>2 DEF GoalsInv
  <1>8. CommandHolds' /\ EditsKeepTheRest'
    BY <1>2 DEF GoalsInv, CommandHolds, EditsKeepTheRest
  <1> QED
    BY <1>4, <1>5, <1>6, <1>7, <1>8, TabMoves DEF GoalsInv

LEMMA WriteGoalsSafe == ASSUME GoalsInv, NEW t \in CardTabs, WriteGoals(t) PROVE GoalsInv'
  <1> DEFINE next == Head(sending[t]).next
  <1>1. SaveHolds(cards[t], sending[t], holding[t], replied[t]) /\ GoalTabsTyped
    BY DEF GoalsInv
  <1>2. /\ holding[t] # None /\ setting' = holding[t].next
        /\ strayed' = (strayed \/ setting # holding[t].read)
        /\ owed' = [i \in DOMAIN entriesIn(owed) |->
                       IF owed[i].id = cards[t].id THEN [owed[i] EXCEPT !.pace = next] ELSE owed[i]]
        /\ holding' = [holding EXCEPT ![t] = None] /\ replied' = [replied EXCEPT ![t] = "saved"]
        /\ UNCHANGED <<cards, sending, command, tries>>
    BY DEF WriteGoals
  <1>3. GoalTabsTyped'
    BY <1>1, <1>2 DEF GoalTabsTyped
  <1>4. \A u \in CardTabs \ {t} : /\ cards'[u] = cards[u] /\ sending'[u] = sending[u]
                                  /\ holding'[u] = holding[u] /\ replied'[u] = replied[u]
    BY <1>1, <1>2 DEF GoalTabsTyped
  <1>5. SaveHolds(cards'[t], sending'[t], holding'[t], replied'[t])
    <2>1. cards'[t] = cards[t] /\ sending'[t] = sending[t] /\ holding'[t] = None
      BY <1>1, <1>2 DEF GoalTabsTyped
    <2> QED
      BY <1>1, <1>2, <2>1 DEF SaveHolds
  <1>6. ~strayed' => ~strayed /\ setting = holding[t].read
    BY <1>1, <1>2 DEF GoalTabsTyped
  <1>7. ~strayed' /\ tries'.lost = 0 => ~strayed /\ tries.lost = 0 /\ CardSettled(cards'[t], sending'[t])
    BY <1>2, <1>6 DEF GoalsInv
  <1>8. ASSUME ~strayed' PROVE setting' = owed'
    <2>1. setting = owed /\ setting' = withGoalPace(setting, cards[t].id, next) /\ setting' # Refused
      BY <1>1, <1>2, <1>6, <1>8 DEF GoalsInv, EditsKeepTheRest, SaveHolds
    <2>2. /\ setting # Absent /\ setting # Junk
          /\ setting' = [i \in DOMAIN setting |-> IF setting[i].id = cards[t].id
                                                  THEN [setting[i] EXCEPT !.pace = next] ELSE setting[i]]
      BY <2>1 DEF withGoalPace
    <2>3. entriesIn(owed) = setting
      BY <2>1, <2>2 DEF entriesIn
    <2> QED
      BY <1>2, <2>1, <2>2, <2>3
  <1>9. CommandHolds' /\ EditsKeepTheRest'
    BY <1>2, <1>8 DEF GoalsInv, CommandHolds, EditsKeepTheRest
  <1> QED
    BY <1>3, <1>4, <1>5, <1>7, <1>9, TabMoves DEF GoalsInv

\* An answer takes the save it answers off the queue.
LEMMA AnswerSafe ==
  ASSUME GoalsInv, NEW t \in CardTabs, sending[t] # <<>>, holding[t] = None,
         \/ /\ replied[t] # None /\ tries' = tries
            /\ putBack(t) \/ cards' = [cards EXCEPT ![t].stored = Head(sending[t]).next]
         \/ tries' = [tries EXCEPT !.lost = @ + 1] /\ putBack(t),
         sending' = [sending EXCEPT ![t] = Tail(@)], replied' = [replied EXCEPT ![t] = None],
         UNCHANGED <<situation, setting, holding, command, owed, strayed>>
  PROVE  GoalsInv'
  <1> DEFINE c == cards[t]
             q == sending[t]
  <1>1. SaveHolds(c, q, holding[t], replied[t]) /\ GoalTabsTyped /\ Stands(c) /\ Queue(q)
    BY DEF GoalsInv, SaveHolds
  <1>2. GoalTabsTyped'
    <2>1. /\ cards' = [u \in CardTabs |-> cards'[u]] /\ sending' = [u \in CardTabs |-> sending'[u]]
          /\ holding' = [u \in CardTabs |-> holding'[u]] /\ replied' = [u \in CardTabs |-> replied'[u]]
      BY <1>1 DEF GoalTabsTyped, putBack
    <2>2. tries' = [saves |-> tries'.saves, lost |-> tries'.lost, commands |-> tries'.commands] /\ tries'.lost \in Nat
      BY <1>1 DEF GoalTabsTyped
    <2> QED
      BY <1>1, <2>1, <2>2 DEF GoalTabsTyped
  <1>3. \A u \in CardTabs \ {t} : /\ cards'[u] = cards[u] /\ sending'[u] = sending[u]
                                  /\ holding'[u] = holding[u] /\ replied'[u] = replied[u]
    BY <1>1 DEF GoalTabsTyped, putBack
  <1>4. \/ cards'[t] = [c EXCEPT !.failed = TRUE, !.pace = Head(q).before]
        \/ cards'[t] = [c EXCEPT !.stored = Head(q).next]
    BY <1>1 DEF GoalTabsTyped, putBack
  <1>5. sending'[t] = Tail(q) /\ holding'[t] = None /\ replied'[t] = None
    BY <1>1 DEF GoalTabsTyped
  <1>6. Queue(Tail(q)) /\ (Len(q) = 1 => Tail(q) = <<>>)
    BY <1>1, QueueShrinks
  <1>7. Stands(cards'[t])
    BY <1>1, <1>4 DEF Stands
  <1>8. SaveHolds(cards'[t], sending'[t], holding'[t], replied'[t])
    BY <1>5, <1>6, <1>7 DEF SaveHolds
  <1>9. ASSUME ~strayed', tries'.lost = 0
        PROVE  ~strayed /\ tries.lost = 0 /\ CardSettled(cards'[t], sending'[t])
    <2>1. ~strayed /\ tries.lost = 0
      BY <1>1, <1>9 DEF GoalTabsTyped
    <2>2. CardSettled(c, q)
      BY <2>1 DEF GoalsInv
    <2>3. Len(q) = 1 /\ c.pace = Head(q).next /\ Head(q).before = c.stored
      BY <2>2 DEF CardSettled
    <2>4. cards'[t].pace = cards'[t].stored
      BY <1>1, <1>4, <2>3 DEF Stands
    <2> QED
      BY <1>5, <1>6, <2>1, <2>3, <2>4 DEF CardSettled
  <1>10. CommandHolds' /\ EditsKeepTheRest'
    BY DEF GoalsInv, CommandHolds, EditsKeepTheRest
  <1> HIDE DEF c, q
  <1> QED
    BY <1>2, <1>3, <1>8, <1>9, <1>10, TabMoves DEF GoalsInv

LEMMA RedrawSafe == ASSUME GoalsInv, NEW t \in CardTabs, Redraw(t) PROVE GoalsInv'
  <1>1. SaveHolds(cards[t], sending[t], holding[t], replied[t]) /\ GoalTabsTyped
    BY DEF GoalsInv
  <1>2. /\ sending[t] = <<>> /\ UNCHANGED <<setting, sending, holding, replied, command, owed, strayed, tries>>
        /\ cards' = [cards EXCEPT ![t] = IF cards[t].id \in idsIn(setting) THEN cardFor(goalOf(cards[t].id, setting)) ELSE Gone]
    BY DEF Redraw
  <1>3. GoalTabsTyped'
    BY <1>1, <1>2 DEF GoalTabsTyped
  <1>4. \A u \in CardTabs \ {t} : /\ cards'[u] = cards[u] /\ sending'[u] = sending[u]
                                  /\ holding'[u] = holding[u] /\ replied'[u] = replied[u]
    BY <1>1, <1>2 DEF GoalTabsTyped
  <1>5. cards'[t] # Gone => Stands(cards'[t]) /\ cards'[t].pace = cards'[t].stored
    <2>1. cards'[t] = cardFor(goalOf(cards[t].id, setting)) \/ cards'[t] = Gone
      BY <1>1, <1>2 DEF GoalTabsTyped
    <2> QED
      BY <2>1 DEF cardFor, Stands
  <1>6. sending'[t] = <<>> /\ holding'[t] = holding[t] /\ replied'[t] = replied[t]
    BY <1>2
  <1>7. SaveHolds(cards'[t], sending'[t], holding'[t], replied'[t]) /\ CardSettled(cards'[t], sending'[t])
    BY <1>1, <1>2, <1>5, <1>6 DEF SaveHolds, CardSettled
  <1>8. CommandHolds' /\ EditsKeepTheRest'
    BY <1>2 DEF GoalsInv, CommandHolds, EditsKeepTheRest
  <1> QED
    BY <1>2, <1>3, <1>4, <1>7, <1>8, TabMoves DEF GoalsInv

\* What the command does leaves the tabs as they were.
LEMMA CommandSafe ==
  ASSUME GoalsInv,
         \/ \E ask \in AddAsks : AddGoal(ask)
         \/ \E names \in RemoveAsks : RemoveGoal(names)
         \/ SaveCommand
  PROVE  GoalsInv'
  <1>1. CASE \E ask \in AddAsks : AddGoal(ask)
    <2>1. PICK ask \in AddAsks : holdsCommand([add |-> ask, drop |-> Gone], added(setting, ask))
      BY <1>1 DEF AddGoal
    <2> DEFINE edit == [add |-> ask, drop |-> Gone]
    <2>2. /\ command' = [read |-> setting, next |-> added(setting, ask), edit |-> edit]
          /\ tries' = [tries EXCEPT !.commands = @ + 1]
          /\ UNCHANGED <<setting, cards, sending, holding, replied, owed, strayed>>
      BY <2>1 DEF holdsCommand
    <2>3. edit.add = ask /\ ask # None
      BY AsksAssumption
    <2>4. CommandHolds'
      BY <2>2, <2>3 DEF CommandHolds
    <2>5. GoalTabsTyped' /\ tries'.lost = tries.lost
      BY <2>2 DEF GoalsInv, GoalTabsTyped
    <2> QED
      BY <2>2, <2>4, <2>5 DEF GoalsInv, EditsKeepTheRest
  <1>2. CASE \E names \in RemoveAsks : RemoveGoal(names)
    <2>1. PICK names \in RemoveAsks : RemoveGoal(names)
      BY <1>2
    <2> DEFINE id == parseGoals(setting)[CHOOSE i \in hitsOf(setting, names) : TRUE].id
               edit == [add |-> None, drop |-> id]
    <2>2. holdsCommand(edit, removed(setting, names))
      BY <2>1 DEF RemoveGoal
    <2>3. /\ command' = [read |-> setting, next |-> removed(setting, names), edit |-> edit]
          /\ tries' = [tries EXCEPT !.commands = @ + 1]
          /\ UNCHANGED <<setting, cards, sending, holding, replied, owed, strayed>>
      BY <2>2 DEF holdsCommand
    <2>4. edit.add = None /\ edit.drop = id /\ removed(setting, names) = without(parseGoals(setting), id)
      BY DEF removed
    <2> HIDE DEF id, edit
    <2>5. CommandHolds'
      BY <2>3, <2>4 DEF CommandHolds
    <2>6. GoalTabsTyped' /\ tries'.lost = tries.lost
      BY <2>3 DEF GoalsInv, GoalTabsTyped
    <2> QED
      BY <2>3, <2>5, <2>6 DEF GoalsInv, EditsKeepTheRest
  <1>3. CASE SaveCommand
    <2>1. /\ command # None /\ setting' = command.next /\ strayed' = (strayed \/ setting # command.read)
          /\ owed' = (IF command.edit.add # None THEN added(owed, command.edit.add)
                      ELSE without(parseGoals(owed), command.edit.drop))
          /\ command' = None /\ UNCHANGED <<cards, sending, holding, replied, tries>>
      BY <1>3 DEF SaveCommand
    <2>2. GoalTabsTyped' /\ (~strayed' => ~strayed /\ setting = command.read)
      BY <2>1 DEF GoalsInv, GoalTabsTyped
    <2>3. EditsKeepTheRest'
      BY <2>1, <2>2 DEF GoalsInv, EditsKeepTheRest, CommandHolds
    <2>4. CommandHolds'
      BY <2>1 DEF CommandHolds
    <2> QED
      BY <2>1, <2>2, <2>3, <2>4 DEF GoalsInv
  <1> QED
    BY <1>1, <1>2, <1>3

LEMMA GoalsStep == ASSUME GoalsInv, [SavingsGoalsNext]_sgvars PROVE GoalsInv'
  <1>1. CASE UNCHANGED sgvars
    BY <1>1 DEF sgvars, GoalsInv, GoalTabsTyped, CommandHolds, EditsKeepTheRest
  <1>2. ASSUME NEW t \in CardTabs, ReadReply(t) PROVE GoalsInv'
    <2>1. SaveHolds(cards[t], sending[t], holding[t], replied[t])
      BY DEF GoalsInv
    <2> QED
      BY <1>2, <2>1, AnswerSafe DEF ReadReply, SaveHolds
  <1>3. ASSUME NEW t \in CardTabs, ReplyLost(t) PROVE GoalsInv'
    BY <1>3, AnswerSafe DEF ReplyLost
  <1> QED
    BY <1>1, <1>2, <1>3, CommitPaceSafe, UseMeasuredSafe, ReadGoalsSafe, WriteGoalsSafe, RedrawSafe, CommandSafe
       DEF SavingsGoalsNext

\* For any number of cards in tabs, saves and commands interleaved: while no
\* edit was written over what it had not read, the Setting is what the accepted
\* edits come to made one at a time; and while none was made from a page the
\* Setting had left, a card at rest shows the pace it knows stored
\* (SavingsGoalCard, goals.ts, scripts/set-goals).
THEOREM EditsAreKept == SavingsGoalsSpec => [](EditsKeepTheRest /\ CardTellsTheSetting)
  <1>1. ASSUME GoalsInv PROVE CardTellsTheSetting
    <2> SUFFICES ASSUME ~strayed, tries.lost = 0, NEW t \in CardTabs, cards[t] # Gone,
                        \A u \in CardTabs : sending[u] = <<>>
                 PROVE  cards[t].pace = cards[t].stored
      BY DEF CardTellsTheSetting
    <2>1. CardSettled(cards[t], sending[t])
      BY <1>1 DEF GoalsInv
    <2> QED
      BY <2>1 DEF CardSettled
  <1>2. GoalsInv => EditsKeepTheRest
    BY DEF GoalsInv
  <1> QED
    BY <1>1, <1>2, InitGoals, GoalsStep, PTL DEF SavingsGoalsSpec
-----------------------------------------------------------------------------
(* The house's rate (HouseReadiness).                                       *)

\* A set of numbers with a bound has a greatest.
LEMMA MaxBelow ==
  ASSUME NEW S \in SUBSET Int, S # {}, NEW b \in Int, \A x \in S : x <= b
  PROVE  Max(S) \in S /\ \A y \in S : Max(S) >= y
  <1> DEFINE Gaps == {b - x : x \in S}
  <1>1. Gaps \subseteq Nat /\ Gaps # {}
    <2>1. \A x \in S : b - x \in Nat
      OBVIOUS
    <2> QED
      BY <2>1
  <1> HIDE DEF Gaps
  <1>2. PICK g \in Gaps : \A h \in Gaps : <<h, g>> \notin OpToRel(<, Nat)
    BY <1>1, NatLessThanWellFounded, WFMin
  <1>3. \A h \in Gaps : ~(h < g)
    BY <1>1, <1>2 DEF OpToRel
  <1>4. PICK x \in S : g = b - x
    BY <1>2 DEF Gaps
  <1>5. \A y \in S : x >= y
    <2> SUFFICES ASSUME NEW y \in S PROVE x >= y
      OBVIOUS
    <2>1. b - y \in Gaps
      BY DEF Gaps
    <2>2. ~(b - y < b - x)
      BY <1>3, <1>4, <2>1
    <2> QED
      BY <2>2
  <1> QED
    BY <1>4, <1>5 DEF Max

\* An observation some fetch stored: of a day that came, as published.
Observed(o) ==
    /\ o \in Observations /\ o.on \in Int /\ o.on <= dayNow
    /\ Published[o.on] # None /\ isRate(Published[o.on])

\* A fetch under way: what it read was stored once, and while no other has
\* written since it is what is stored, no day of it or before it being later.
FetchSafe(f) ==
    /\ f = [prior |-> f.prior, began |-> f.began, overtaken |-> f.overtaken]
    /\ f.began \in Int /\ f.began <= dayNow
    /\ f.prior # None => f.prior \in shown
    /\ ~f.overtaken => f.prior = observationIn(rates) /\ \A o \in shown : o.on <= f.began

HouseInv ==
    /\ dayNow \in Nat \ {0}
    /\ readiness # Absent /\ readiness # Junk =>
          /\ isStoredReadinessConfig(readiness)
          /\ readiness.asOf # None => readiness.asOf \in TypedDates \/ (readiness.asOf \in Int /\ readiness.asOf <= dayNow)
    /\ \A o \in shown : Observed(o)
    /\ observationIn(rates) # None => observationIn(rates) \in shown
    /\ ~rateRaced => \A o \in shown : observationIn(rates) # None /\ o.on <= observationIn(rates).on
    /\ fetches = [x \in HouseSyncs |-> fetches[x]]
    /\ \A x \in HouseSyncs : fetches[x] # None => FetchSafe(fetches[x])

LEMMA InitHouse == HouseInit => HouseInv
  <1> SUFFICES ASSUME HouseInit PROVE HouseInv
    OBVIOUS
  <1>1. dayNow = 1 /\ shown = {} /\ observationIn(rates) = None /\ fetches = [x \in HouseSyncs |-> None]
    BY DEF HouseInit, observationIn
  <1>2. readiness # Absent /\ readiness # Junk =>
           /\ isStoredReadinessConfig(readiness)
           /\ readiness.asOf # None => readiness.asOf \in TypedDates \/ (readiness.asOf \in Int /\ readiness.asOf <= dayNow)
    BY <1>1, HouseAssumption DEF HouseInit
  <1> QED
    BY <1>1, <1>2 DEF HouseInv

\* The newest release among the days looked back over, and no older than what
\* was stored before those days ended.
LEMMA LatestPicked ==
  ASSUME HouseInv, NEW upTo \in Int, upTo <= dayNow
  PROVE  LET latest == pickLatestObservation(upTo)
         IN latest # None => /\ Observed(latest)
                             /\ \A o \in shown : o.on <= upTo => o.on <= latest.on
  <1> DEFINE usable == {d \in DOMAIN Published :
                            /\ d <= upTo /\ d > upTo - OBSERVATION_LOOKBACK
                            /\ Published[d] # None /\ isRate(Published[d])}
             m == Max(usable)
             o == [rate |-> Published[m], on |-> m]
  <1>1. SUFFICES ASSUME pickLatestObservation(upTo) # None
                 PROVE  /\ Observed(pickLatestObservation(upTo))
                        /\ \A s \in shown : s.on <= upTo => s.on <= pickLatestObservation(upTo).on
    OBVIOUS
  <1>2. usable # {} /\ pickLatestObservation(upTo) = o
    BY <1>1 DEF pickLatestObservation
  <1>3. usable \in SUBSET Int /\ dayNow \in Int /\ OBSERVATION_LOOKBACK \in Int
    BY HouseAssumption DEF HouseInv
  <1>4. m \in usable /\ \A y \in usable : m >= y
    <2>1. \A x \in usable : x <= upTo
      OBVIOUS
    <2> HIDE DEF usable
    <2> QED
      BY <1>2, <1>3, <2>1, MaxBelow
  <1>5. Observed(o)
    <2>1. m \in DOMAIN Published /\ m \in Int /\ m <= dayNow /\ Published[m] # None /\ isRate(Published[m])
      BY <1>3, <1>4
    <2> HIDE DEF m
    <2>2. o \in Observations /\ o.on = m
      BY <2>1 DEF Observations, isRate
    <2> QED
      BY <2>1, <2>2 DEF Observed
  <1>6. ASSUME NEW s \in shown, s.on <= upTo PROVE s.on <= m
    <2>1. Observed(s)
      BY DEF HouseInv
    <2>2. CASE s.on > upTo - OBSERVATION_LOOKBACK
      <3>1. s.on \in usable
        BY <1>6, <2>1, <2>2 DEF Observed, Observations
      <3> QED
        BY <1>3, <1>4, <2>1, <3>1 DEF Observed
    <2>3. CASE ~(s.on > upTo - OBSERVATION_LOOKBACK)
      <3>1. m > upTo - OBSERVATION_LOOKBACK /\ m \in Int
        BY <1>3, <1>4
      <3> QED
        BY <1>3, <2>1, <2>3, <3>1 DEF Observed
    <2> QED
      BY <2>2, <2>3
  <1>7. o.on = m
    OBVIOUS
  <1> QED
    BY <1>2, <1>5, <1>6, <1>7

LEMMA DeclareSafe == ASSUME HouseInv, NEW ask \in ReadinessAsks, Declare(ask) PROVE HouseInv'
  <1> DEFINE stored == parseReadiness(readiness)
             next == merged(stored, ask)
  <1>1. /\ ~refusesReadiness(stored, ask) /\ readiness' = next
        /\ UNCHANGED <<rates, fetches, rateRaced, dayNow, shown>>
    BY DEF Declare
  <1>2. isStoredReadinessConfig(next)
    BY <1>1 DEF refusesReadiness
  <1>3. ask.asOf \in TypedDates /\ dayNow \in Nat \ {0}
    BY DEF ReadinessAsks, HouseInv
  <1>4. stored # None => stored = readiness /\ readiness # Absent /\ readiness # Junk
    BY DEF parseReadiness
  <1>5. next.asOf # None => next.asOf \in TypedDates \/ (next.asOf \in Int /\ next.asOf <= dayNow)
    <2>1. \/ next.asOf = ask.asOf /\ ask.asOf # None
          \/ next.asOf = None
          \/ next.asOf = dayNow
          \/ stored # None /\ next.asOf = stored.asOf
      BY DEF merged
    <2>2. stored # None /\ stored.asOf # None => stored.asOf \in TypedDates \/ (stored.asOf \in Int /\ stored.asOf <= dayNow)
      BY <1>4 DEF HouseInv
    <2> HIDE DEF next, stored
    <2> QED
      BY <1>3, <2>1, <2>2
  <1> HIDE DEF next, stored
  <1> QED
    BY <1>1, <1>2, <1>5 DEF HouseInv, FetchSafe, Observed

LEMMA WriteSafe ==
  ASSUME HouseInv, NEW x \in HouseSyncs, fetches[x] # None,
         NEW latest, latest # None => Observed(latest) /\ \A o \in shown : o.on <= fetches[x].began => o.on <= latest.on,
         written(x, latest), UNCHANGED <<readiness, dayNow>>
  PROVE  HouseInv'
  <1> DEFINE prior == fetches[x].prior
             now == IF latest = None THEN prior ELSE latest
  <1>1. FetchSafe(fetches[x])
    BY DEF HouseInv
  <1>2. prior # None => prior \in shown /\ Observed(prior)
    BY <1>1 DEF FetchSafe, HouseInv
  <1>3. prior \in Observations \union {None} /\ latest \in Observations \union {None}
    BY <1>2 DEF Observed
  <1>4. observationIn(rates') = now
    <2>1. rates' = refreshed(prior, latest)
      BY DEF written
    <2>2. rates' # Absent
      BY <1>3, <2>1, HouseAssumption
    <2> QED
      BY <2>1, <2>2 DEF observationIn, refreshed
  <1>5. now # None => Observed(now)
    BY <1>2
  <1>6. /\ shown' = (IF now = None THEN shown ELSE shown \union {now})
        /\ rateRaced' = (fetches[x].overtaken \/ (rateRaced /\ latest = None))
    BY <1>4 DEF written
  <1>7. \A o : Observed(o) <=> Observed(o)'
    BY DEF Observed
  <1>8. \A o \in shown' : Observed(o)'
    BY <1>5, <1>6, <1>7 DEF HouseInv
  <1>9. now # None => now \in shown'
    BY <1>6
  <1>10. ASSUME ~rateRaced', NEW o \in shown' PROVE now # None /\ o.on <= now.on
    <2>1. ~fetches[x].overtaken
      BY <1>6, <1>10
    <2>2. CASE o \in shown /\ latest = None
      <3>1. ~rateRaced /\ prior = observationIn(rates)
        BY <1>1, <1>6, <1>10, <2>1, <2>2 DEF FetchSafe
      <3> QED
        BY <2>2, <3>1 DEF HouseInv
    <2>3. CASE o \in shown /\ latest # None
      <3>1. o.on <= fetches[x].began
        BY <1>1, <2>1, <2>3 DEF FetchSafe
      <3> QED
        BY <2>3, <3>1
    <2>4. CASE o = now /\ now # None
      BY <1>5, <2>4 DEF Observed
    <2> QED
      BY <1>6, <2>2, <2>3, <2>4
  <1>11. fetches' = [y \in HouseSyncs |-> fetches'[y]]
    BY DEF written
  <1>12. ASSUME NEW y \in HouseSyncs, fetches'[y] # None PROVE FetchSafe(fetches[y])'
    <2>1. fetches[y] # None /\ fetches'[y] = [fetches[y] EXCEPT !.overtaken = TRUE]
      BY <1>12 DEF written
    <2>2. FetchSafe(fetches[y])
      BY <2>1 DEF HouseInv
    <2>3. fetches'[y] = [prior |-> fetches[y].prior, began |-> fetches[y].began, overtaken |-> TRUE]
      BY <2>1, <2>2 DEF FetchSafe
    <2> QED
      BY <1>6, <2>2, <2>3 DEF FetchSafe
  <1> HIDE DEF now
  <1> QED
    BY <1>4, <1>8, <1>9, <1>10, <1>11, <1>12 DEF HouseInv

LEMMA FetchEndsSafe == ASSUME HouseInv, NEW x \in HouseSyncs, NEW answers \in BOOLEAN, FetchEnds(x, answers) PROVE HouseInv'
  <1>1. PICK upTo \in fetches[x].began..dayNow : written(x, IF answers THEN pickLatestObservation(upTo) ELSE None)
    BY DEF FetchEnds
  <1>2. fetches[x] # None /\ UNCHANGED <<readiness, dayNow>>
    BY DEF FetchEnds
  <1>3. fetches[x].began \in Int /\ dayNow \in Int
    BY <1>2 DEF HouseInv, FetchSafe
  <1>4. upTo \in Int /\ fetches[x].began <= upTo /\ upTo <= dayNow
    BY <1>3
  <1> DEFINE latest == IF answers THEN pickLatestObservation(upTo) ELSE None
  <1>5. latest # None => Observed(latest) /\ \A o \in shown : o.on <= upTo => o.on <= latest.on
    BY <1>4, LatestPicked
  <1> HIDE DEF latest
  <1>6. latest # None => Observed(latest) /\ \A o \in shown : o.on <= fetches[x].began => o.on <= latest.on
    <2>1. \A o \in shown : o.on \in Int
      BY DEF HouseInv, Observed
    <2> QED
      BY <1>3, <1>4, <1>5, <2>1
  <1>7. written(x, latest)
    BY <1>1 DEF latest
  <1> QED
    BY <1>2, <1>6, <1>7, WriteSafe

LEMMA HouseStep == ASSUME HouseInv, [HouseNext]_hrvars PROVE HouseInv'
  <1>1. CASE UNCHANGED hrvars
    BY <1>1 DEF hrvars, HouseInv, FetchSafe, Observed
  <1>2. CASE Clear
    BY <1>2 DEF Clear, HouseInv, FetchSafe, Observed
  <1>3. ASSUME NEW x \in HouseSyncs, FetchBegins(x) PROVE HouseInv'
    <2> DEFINE f == [prior |-> observationIn(rates), began |-> dayNow, overtaken |-> FALSE]
    <2>1. fetches' = [fetches EXCEPT ![x] = f] /\ UNCHANGED <<readiness, rates, rateRaced, dayNow, shown>>
      BY <1>3 DEF FetchBegins
    <2>2. \A y \in HouseSyncs : fetches'[y] = IF y = x THEN f ELSE fetches[y]
      BY <2>1 DEF HouseInv
    <2>3. FetchSafe(f)
      BY DEF FetchSafe, HouseInv, Observed
    <2>4. \A y \in HouseSyncs : fetches'[y] # None => FetchSafe(fetches'[y])
      BY <2>2, <2>3 DEF HouseInv
    <2>5. \A g : FetchSafe(g)' <=> FetchSafe(g)
      BY <2>1 DEF FetchSafe
    <2>6. fetches' = [y \in HouseSyncs |-> fetches'[y]]
      BY <2>1 DEF HouseInv
    <2> QED
      BY <2>1, <2>4, <2>5, <2>6 DEF HouseInv, Observed
  <1>4. ASSUME NEW x \in HouseSyncs, FetchKilled(x) PROVE HouseInv'
    <2>1. fetches' = [fetches EXCEPT ![x] = None] /\ UNCHANGED <<readiness, rates, rateRaced, dayNow, shown>>
      BY <1>4 DEF FetchKilled
    <2>2. \A y \in HouseSyncs : fetches'[y] # None => fetches'[y] = fetches[y]
      BY <2>1 DEF HouseInv
    <2>3. \A y \in HouseSyncs : fetches'[y] # None => FetchSafe(fetches[y])'
      BY <2>1, <2>2 DEF HouseInv, FetchSafe
    <2>4. fetches' = [y \in HouseSyncs |-> fetches'[y]]
      BY <2>1 DEF HouseInv
    <2> QED
      BY <2>1, <2>3, <2>4 DEF HouseInv, Observed
  <1>5. CASE NextDay
    <2>1. dayNow' = dayNow + 1 /\ UNCHANGED <<readiness, rates, fetches, rateRaced, shown>>
      BY <1>5 DEF NextDay
    <2>2. dayNow' \in Nat \ {0} /\ \A n \in Int : n <= dayNow => n <= dayNow'
      BY <2>1 DEF HouseInv
    <2>3. \A o \in shown : Observed(o)'
      BY <2>1, <2>2 DEF HouseInv, Observed
    <2>4. \A x \in HouseSyncs : fetches[x] # None => FetchSafe(fetches[x])'
      BY <2>1, <2>2 DEF HouseInv, FetchSafe
    <2> QED
      BY <2>1, <2>2, <2>3, <2>4 DEF HouseInv
  <1> QED
    BY <1>1, <1>2, <1>3, <1>4, <1>5, DeclareSafe, FetchEndsSafe DEF HouseNext

\* Whatever the index publishes, the operator types, days to come included, and
\* the syncs fetch, one or several at once, fail to fetch or are killed
\* fetching: a rate on the panel has its day, the one typed with it or one that
\* has come, and is typed or observed whole; and the newest observation is
\* neither lost nor gone back on but where a fetch that another overtook wrote,
\* and then only until a fetch none overtook answers (readiness.ts,
\* mortgageRate.ts, scripts/set-readiness).
THEOREM RatesAreDated == HouseSpec => []RateIsDated
  <1>1. ASSUME HouseInv PROVE RateIsDated
    <2> DEFINE c == parseReadiness(readiness)
               o == observationIn(rates)
    <2>1. ASSUME panel # None
          PROVE  IF panel.rate.fetched THEN [rate |-> panel.rate.rate, on |-> panel.rate.asOf] \in shown
                 ELSE panel.rate.rate = readiness.rate /\ (panel.rate.asOf \in TypedDates \/ panel.rate.asOf <= dayNow)
      <3>1. c # None /\ c = readiness /\ readiness # Absent /\ readiness # Junk
        BY <2>1 DEF panel, parseReadiness
      <3>2. resolveReadinessRate(c, o) # None /\ panel.rate = resolveReadinessRate(c, o)
        BY <2>1, <3>1 DEF panel
      <3>3. CASE c.rate # None
        <4>1. panel.rate = [rate |-> c.rate, asOf |-> c.asOf, fetched |-> FALSE]
          BY <3>2, <3>3 DEF resolveReadinessRate
        <4>2. c.asOf \in TypedDates \/ c.asOf <= dayNow
          BY <1>1, <3>1, <3>3 DEF HouseInv, isStoredReadinessConfig
        <4> QED
          BY <3>1, <4>1, <4>2
      <3>4. CASE c.rate = None
        <4>1. o # None /\ panel.rate = [rate |-> o.rate, asOf |-> o.on, fetched |-> TRUE]
          BY <3>2, <3>4 DEF resolveReadinessRate
        <4>2. o \in shown /\ o = [rate |-> o.rate, on |-> o.on]
          BY <1>1, <4>1 DEF HouseInv, Observed, Observations
        <4> QED
          BY <4>1, <4>2
      <3> QED
        BY <3>3, <3>4
    <2>2. readiness # Absent /\ readiness # Junk => isStoredReadinessConfig(readiness)
      BY <1>1 DEF HouseInv
    <2>3. ~rateRaced /\ shown # {} => o # None /\ \A s \in shown : s.on <= o.on
      BY <1>1 DEF HouseInv
    <2> QED
      BY <2>1, <2>2, <2>3 DEF RateIsDated
  <1> QED
    BY <1>1, InitHouse, HouseStep, PTL DEF HouseSpec
-----------------------------------------------------------------------------
(* The instance's own health (Health).                                      *)

\* A set of numbers with a bound has a least.
LEMMA MinAbove ==
  ASSUME NEW S \in SUBSET Int, S # {}, NEW b \in Int, \A x \in S : b <= x
  PROVE  Min(S) \in S /\ \A y \in S : Min(S) <= y
  <1> DEFINE Gaps == {x - b : x \in S}
  <1>1. Gaps \subseteq Nat /\ Gaps # {}
    <2>1. \A x \in S : x - b \in Nat
      OBVIOUS
    <2> QED
      BY <2>1
  <1> HIDE DEF Gaps
  <1>2. PICK g \in Gaps : \A h \in Gaps : <<h, g>> \notin OpToRel(<, Nat)
    BY <1>1, NatLessThanWellFounded, WFMin
  <1>3. \A h \in Gaps : ~(h < g)
    BY <1>1, <1>2 DEF OpToRel
  <1>4. PICK x \in S : g = x - b
    BY <1>2 DEF Gaps
  <1>5. \A y \in S : x <= y
    <2> SUFFICES ASSUME NEW y \in S PROVE x <= y
      OBVIOUS
    <2>1. y - b \in Gaps
      BY DEF Gaps
    <2>2. ~(y - b < x - b)
      BY <1>3, <1>4, <2>1
    <2> QED
      BY <2>2
  <1> QED
    BY <1>4, <1>5 DEF Min

\* A larger factor makes no smaller product.
LEMMA ProductsGrow ==
  ASSUME NEW a \in Int, NEW b \in Int, NEW c \in Nat, a <= b
  PROVE  a * c <= b * c
  OBVIOUS

\* The clock is at a half day of today.
LEMMA HalfDays ==
  ASSUME NEW n \in Nat
  PROVE  /\ n \div 2 \in Nat
         /\ n % 2 = 1 => n = 2 * (n \div 2) + 1 /\ (n + 1) \div 2 = n \div 2 + 1 /\ (n + 1) % 2 = 0
         /\ n % 2 = 0 => n = 2 * (n \div 2) /\ (n + 1) \div 2 = n \div 2 /\ (n + 1) % 2 = 1
         /\ n % 2 \in {0, 1}
  OBVIOUS

Parts == {"feed", "sync", "backup", "rates"}

HealthTyped ==
    /\ clock \in Nat /\ today <= Nights
    /\ world = [p \in Parts |-> world[p]] /\ turned = [p \in Parts |-> turned[p]]
    /\ \A p \in Parts : /\ world[p] \in Ways[p] /\ turned[p] \in Int /\ turned[p] <= today
                        /\ world[p] # WellWorld[p] => turned[p] >= 0

\* A feed has a row for each day it was alive, and none from one it was not.
FeedTells ==
    /\ feedRows \subseteq -History..today
    /\ feedDate \in Int /\ feedDate <= today
    /\ world["feed"] = "alive" => \A d \in turned["feed"] + 1..today : d \in feedRows
    /\ world["feed"] = "silent" => \A d \in feedRows : d <= turned["feed"]
    /\ world["feed"] # "frozen" /\ turned["feed"] < today => feedDate = today
    /\ world["feed"] = "frozen" => feedDate <= turned["feed"]

SyncLog == [day : Int, ok : BOOLEAN, notices : SUBSET {"range", "other"}]

\* What the syncs have logged and brought, for as long as they have gone one way.
SyncsTell ==
    /\ rowsHeld \subseteq feedRows
    /\ balanceDate \in Int /\ balanceDate <= feedDate
    /\ syncLogs \in Seq(SyncLog) /\ syncLogs # <<>>
    /\ \A i \in DOMAIN syncLogs : syncLogs[i].day <= today
    /\ world["sync"] = "stopped" => \A i \in DOMAIN syncLogs : syncLogs[i].day <= turned["sync"]
    /\ world["sync"] = "failing" /\ turned["sync"] < today => ~syncLogs[1].ok
    /\ world["sync"] \in {"ok", "noted"} /\ turned["sync"] < today =>
          /\ rowsHeld = feedRows /\ balanceDate = feedDate
          /\ syncLogs[1].ok /\ syncLogs[1].day = today /\ syncLogs[1].notices \subseteq {"range"}

\* The observation stored, for as long as the rates and the syncs have gone one way.
RatesTell ==
    rate # NoRun =>
        /\ rate = [observed |-> rate.observed, failed |-> rate.failed]
        /\ rate.observed \in Int /\ rate.observed <= today
        /\ world["rates"] = "failing" => rate.failed \/ rate.observed <= turned["rates"]
        /\ world["sync"] \in {"failing", "stopped"} => rate.observed <= turned["sync"]
        /\ world["sync"] \notin {"failing", "stopped"} /\ world["rates"] = "fresh" /\ turned["sync"] < today /\ turned["rates"] < today =>
              ~rate.failed /\ rate.observed = today - 1

\* The backup recorded is its night's, on time or half a day late.
BackupsTell ==
    backup # NoRun =>
        /\ slot \in Int /\ slot <= today /\ backup.at \in {2 * slot, 2 * slot + 1} /\ backup.at <= clock
        /\ world["backup"] = "mirrored" /\ turned["backup"] < today => slot = today /\ backup.mirror = "mirrored"
        /\ world["backup"] = "late" /\ clock % 2 = 1 /\ turned["backup"] < today =>
              slot = today /\ backup.at = 2 * slot + 1 /\ backup.mirror = "mirrored"
        /\ world["backup"] = "late" /\ clock % 2 = 0 /\ turned["backup"] + 1 < today =>
              slot = today - 1 /\ backup.at = 2 * slot + 1 /\ backup.mirror = "mirrored"

\* The logs from the i-th on.
From(logs, i) == {logs[j] : j \in {k \in DOMAIN logs : k >= i}}

\* What a reader has still to see is beyond the page shown.
ReaderTells ==
    pager # NoRun =>
        /\ pager = [page |-> pager.page, seen |-> pager.seen, sought |-> pager.sought]
        /\ pager.page \in Nat \ {0}
        /\ pager.sought \subseteq pager.seen \union From(syncLogs, pager.page * LOGS_PAGE_SIZE + 1)

HealthInv == HealthTyped /\ FeedTells /\ SyncsTell /\ RatesTell /\ BackupsTell /\ ReaderTells

LEMMA InitHealth == HealthInit => HealthInv
  <1> SUFFICES ASSUME HealthInit PROVE HealthInv
    OBVIOUS
  <1>1. History \in Nat /\ Nights \in Nat /\ clock = 0 /\ today = 0
    BY HealthAssumption DEF HealthInit, today
  <1>2. /\ world = WellWorld /\ turned = [p \in Parts |-> turned[p]]
        /\ \A p \in Parts : turned[p] = IF p = "feed" THEN 0 ELSE -History
    BY DEF HealthInit, Ways, Parts
  <1>3. HealthTyped
    BY <1>1, <1>2 DEF HealthTyped, WellWorld, Ways, Parts
  <1>4. FeedTells
    <2>1. feedRows \subseteq -History..0 /\ feedDate = 0
      BY HealthAssumption DEF HealthInit
    <2>2. world["feed"] = "alive" /\ turned["feed"] = 0
      BY <1>2 DEF WellWorld, Parts
    <2> QED
      BY <1>1, <2>1, <2>2 DEF FeedTells
  <1>5. SyncsTell
    <2> DEFINE log == [day |-> 0, ok |-> TRUE, notices |-> {}]
    <2>1. log \in SyncLog /\ syncLogs = <<log>>
      BY DEF HealthInit, SyncLog
    <2>2. syncLogs \in Seq(SyncLog) /\ syncLogs # <<>> /\ DOMAIN syncLogs = {1} /\ syncLogs[1] = log
      BY <2>1
    <2>3. rowsHeld = feedRows /\ balanceDate = 0 /\ feedDate = 0
      BY DEF HealthInit
    <2> QED
      BY <1>1, <1>2, <2>2, <2>3 DEF SyncsTell, WellWorld, Parts
  <1>6. RatesTell
    BY <1>1, <1>2 DEF RatesTell, HealthInit, WellWorld, Parts
  <1>7. BackupsTell
    BY <1>1, <1>2 DEF BackupsTell, HealthInit, WellWorld, Parts
  <1>8. ReaderTells
    BY DEF ReaderTells, HealthInit
  <1> QED
    BY <1>3, <1>4, <1>5, <1>6, <1>7, <1>8 DEF HealthInv

\* One part turns, today.
LEMMA TurnIs ==
  ASSUME HealthInv, NEW part \in DOMAIN Ways, NEW way \in Ways[part], Turn(part, way)
  PROVE  /\ clock' = clock /\ today' = today /\ HealthTyped'
         /\ \A p \in Parts : \/ world'[p] = world[p] /\ turned'[p] = turned[p]
                             \/ turned'[p] = today
         /\ UNCHANGED <<feedRows, feedDate, rowsHeld, balanceDate, syncLogs, rate, backup, slot, pager>>
  <1>1. part \in Parts /\ way \in Ways[part]
    BY DEF Ways, Parts
  <1>2. /\ clock' = clock /\ world' = [world EXCEPT ![part] = way] /\ turned' = [turned EXCEPT ![part] = today]
        /\ UNCHANGED <<feedRows, feedDate, rowsHeld, balanceDate, syncLogs, rate, backup, slot, pager>>
    BY DEF Turn
  <1>3. HealthTyped /\ today \in Nat
    BY HalfDays DEF HealthInv, HealthTyped, today
  <1>4. today' = today
    BY <1>2 DEF today
  <1>5. /\ world' = [p \in Parts |-> world'[p]] /\ turned' = [p \in Parts |-> turned'[p]]
        /\ \A p \in Parts : /\ world'[p] = IF p = part THEN way ELSE world[p]
                            /\ turned'[p] = IF p = part THEN today ELSE turned[p]
    BY <1>1, <1>2, <1>3 DEF HealthTyped
  <1>6. HealthTyped'
    <2>1. ASSUME NEW p \in Parts
          PROVE  /\ world'[p] \in Ways[p] /\ turned'[p] \in Int /\ turned'[p] <= today
                 /\ world'[p] # WellWorld[p] => turned'[p] >= 0
      <3>1. world[p] \in Ways[p] /\ turned[p] \in Int /\ turned[p] <= today /\ (world[p] # WellWorld[p] => turned[p] >= 0)
        BY <1>3 DEF HealthTyped
      <3>2. CASE p = part
        BY <1>1, <1>3, <1>5, <3>2
      <3>3. CASE p # part
        BY <1>5, <3>1, <3>3
      <3> QED
        BY <3>2, <3>3
    <2>2. clock' \in Nat /\ today' <= Nights
      BY <1>2, <1>3, <1>4 DEF HealthTyped
    <2> QED
      BY <1>4, <1>5, <2>1, <2>2 DEF HealthTyped
  <1> QED
    BY <1>2, <1>4, <1>5, <1>6

LEMMA TurnSafe ==
  ASSUME HealthInv, NEW part \in DOMAIN Ways, NEW way \in Ways[part], Turn(part, way)
  PROVE  HealthInv'
  <1>1. /\ clock' = clock /\ today' = today /\ HealthTyped'
        /\ UNCHANGED <<feedRows, feedDate, rowsHeld, balanceDate, syncLogs, rate, backup, slot, pager>>
    BY TurnIs
  <1>2. \A p \in Parts : \/ world'[p] = world[p] /\ turned'[p] = turned[p]
                         \/ turned'[p] = today
    BY TurnIs
  <1>3. /\ (world'["feed"] = world["feed"] /\ turned'["feed"] = turned["feed"]) \/ turned'["feed"] = today
        /\ (world'["sync"] = world["sync"] /\ turned'["sync"] = turned["sync"]) \/ turned'["sync"] = today
        /\ (world'["backup"] = world["backup"] /\ turned'["backup"] = turned["backup"]) \/ turned'["backup"] = today
        /\ (world'["rates"] = world["rates"] /\ turned'["rates"] = turned["rates"]) \/ turned'["rates"] = today
    BY <1>2 DEF Parts
  <1>4. today \in Nat /\ History \in Nat
    BY HalfDays, HealthAssumption DEF HealthInv, HealthTyped, today
  <1>5. FeedTells'
    <2>1. \A d \in feedRows : d \in Int /\ d <= today
      BY <1>4 DEF HealthInv, FeedTells
    <2> QED
      BY <1>1, <1>3, <1>4, <2>1 DEF HealthInv, FeedTells
  <1>6. SyncsTell'
    BY <1>1, <1>3, <1>4 DEF HealthInv, SyncsTell
  <1>7. RatesTell'
    BY <1>1, <1>3, <1>4 DEF HealthInv, RatesTell
  <1>8. BackupsTell'
    BY <1>1, <1>3, <1>4 DEF HealthInv, BackupsTell
  <1>9. ReaderTells'
    BY <1>1 DEF HealthInv, ReaderTells
  <1> QED
    BY <1>1, <1>5, <1>6, <1>7, <1>8, <1>9 DEF HealthInv

LEMMA MiddaySafe == ASSUME HealthInv, Midday PROVE HealthInv'
  <1>1. /\ clock % 2 = 0 /\ clock' = clock + 1
        /\ UNCHANGED <<world, turned, feedRows, feedDate, rowsHeld, balanceDate, syncLogs, rate, pager>>
    BY DEF Midday
  <1>2. today' = today /\ today \in Nat /\ clock = 2 * today /\ clock' % 2 = 1 /\ clock \in Nat
    BY <1>1, HalfDays DEF today, HealthInv, HealthTyped
  <1>3. HealthTyped'
    BY <1>1, <1>2 DEF HealthInv, HealthTyped
  <1>4. FeedTells' /\ SyncsTell' /\ RatesTell' /\ ReaderTells'
    <2>1. FeedTells'
      BY <1>1, <1>2 DEF HealthInv, FeedTells
    <2>2. SyncsTell'
      BY <1>1, <1>2 DEF HealthInv, SyncsTell
    <2>3. RatesTell'
      BY <1>1, <1>2 DEF HealthInv, RatesTell
    <2>4. ReaderTells'
      BY <1>1 DEF HealthInv, ReaderTells
    <2> QED
      BY <2>1, <2>2, <2>3, <2>4
  <1>5. BackupsTell'
    <2>1. turned["backup"] \in Int /\ turned["backup"] <= today
      BY DEF HealthInv, HealthTyped, Parts
    <2>2. CASE backup # NoRun /\ world.backup = "late" /\ today > turned.backup
      <3> DEFINE run == [at |-> clock + 1, mirror |-> "mirrored"]
      <3>1. backup' = run /\ slot' = today
        BY <2>2 DEF Midday
      <3>2. run.at = clock + 1 /\ run.mirror = "mirrored"
        OBVIOUS
      <3> HIDE DEF run
      <3> QED
        BY <1>1, <1>2, <3>1, <3>2 DEF BackupsTell
    <2>3. CASE ~(backup # NoRun /\ world.backup = "late" /\ today > turned.backup)
      <3>1. UNCHANGED <<backup, slot>>
        BY <2>3 DEF Midday
      <3> QED
        BY <1>1, <1>2, <2>1, <2>3, <3>1 DEF HealthInv, BackupsTell
    <2> QED
      BY <2>2, <2>3
  <1> QED
    BY <1>3, <1>4, <1>5 DEF HealthInv

\* The night's sync logs itself before the logs there are.
LEMMA NightLogs ==
  ASSUME HealthInv, NEW log \in SyncLog, syncLogs' = <<log>> \o syncLogs
  PROVE  /\ syncLogs' \in Seq(SyncLog) /\ syncLogs' # <<>> /\ syncLogs'[1] = log
         /\ DOMAIN syncLogs' = 1..Len(syncLogs) + 1 /\ Len(syncLogs) \in Nat
         /\ \A i \in DOMAIN syncLogs : i + 1 \in DOMAIN syncLogs' /\ syncLogs'[i + 1] = syncLogs[i]
         /\ \A i \in DOMAIN syncLogs' : i = 1 \/ (i - 1 \in DOMAIN syncLogs /\ syncLogs'[i] = syncLogs[i - 1])
  <1>1. syncLogs \in Seq(SyncLog) /\ <<log>> \in Seq(SyncLog) /\ Len(<<log>>) = 1 /\ <<log>>[1] = log
    BY DEF HealthInv, SyncsTell
  <1>2. syncLogs' \in Seq(SyncLog) /\ Len(syncLogs') = Len(syncLogs) + 1 /\ Len(syncLogs) \in Nat
    BY <1>1, ConcatProperties, LenProperties
  <1>3. DOMAIN syncLogs = 1..Len(syncLogs) /\ DOMAIN syncLogs' = 1..Len(syncLogs) + 1
    BY <1>1, <1>2, LenProperties
  <1>4. \A i \in 1..Len(syncLogs) + 1 : syncLogs'[i] = IF i <= 1 THEN <<log>>[i] ELSE syncLogs[i - 1]
    BY <1>1, <1>2, ConcatProperties
  <1>5. syncLogs'[1] = log
    BY <1>1, <1>2, <1>4
  <1>6. syncLogs' # <<>>
    BY <1>2, EmptySeq
  <1> QED
    BY <1>2, <1>3, <1>4, <1>5, <1>6

LEMMA NightSafe == ASSUME HealthInv, Night PROVE HealthInv'
  <1> DEFINE morrow == today + 1
             ok == world.sync \in {"ok", "noted", "warned"}
             notices == IF world.sync = "noted" THEN {"range"} ELSE IF world.sync = "warned" THEN {"range", "other"} ELSE {}
             log == [day |-> morrow, ok |-> ok, notices |-> notices]
  <1>1. /\ clock % 2 = 1 /\ today < Nights /\ clock' = clock + 1
        /\ UNCHANGED <<world, turned, pager>>
        /\ feedRows' = IF world.feed = "alive" THEN feedRows \union {morrow} ELSE feedRows
        /\ feedDate' = IF world.feed # "frozen" THEN morrow ELSE feedDate
        /\ synced(morrow, feedRows', feedDate') /\ backedUp(morrow)
    BY DEF Night
  <1>2. /\ syncLogs' = IF world.sync = "stopped" THEN syncLogs ELSE <<log>> \o syncLogs
        /\ rowsHeld' = IF ok THEN feedRows' ELSE rowsHeld
        /\ balanceDate' = IF ok THEN feedDate' ELSE balanceDate
        /\ rate' = IF rate = NoRun \/ ~ok THEN rate
                   ELSE IF world.rates = "failing" THEN [rate EXCEPT !.failed = TRUE]
                   ELSE [observed |-> morrow - 1, failed |-> FALSE]
    BY <1>1 DEF synced
  <1>3. /\ clock \in Nat /\ today \in Nat /\ today' = morrow /\ clock' = 2 * morrow /\ clock' % 2 = 0 /\ clock = 2 * today + 1
    BY <1>1, HalfDays DEF today, HealthInv, HealthTyped
  <1>4. HealthTyped' /\ Nights \in Nat /\ History \in Nat
    BY <1>1, <1>3, HealthAssumption DEF HealthInv, HealthTyped
  <1>5. \A p \in Parts : turned[p] \in Int /\ turned[p] <= today /\ turned'[p] = turned[p] /\ world'[p] = world[p]
    BY <1>1 DEF HealthInv, HealthTyped
  <1>6. /\ turned["feed"] \in Int /\ turned["feed"] <= today /\ turned'["feed"] = turned["feed"]
        /\ turned["sync"] \in Int /\ turned["sync"] <= today /\ turned'["sync"] = turned["sync"]
        /\ turned["backup"] \in Int /\ turned["backup"] <= today /\ turned'["backup"] = turned["backup"]
        /\ turned["rates"] \in Int /\ turned["rates"] <= today /\ turned'["rates"] = turned["rates"]
    BY <1>5 DEF Parts
  <1>7. /\ world["feed"] \in {"alive", "silent", "frozen"} /\ world["rates"] \in {"fresh", "failing"}
        /\ world["sync"] \in {"ok", "noted", "warned", "failing", "stopped"}
        /\ world["backup"] \in {"mirrored", "late", "refused", "missed"}
    BY DEF HealthInv, HealthTyped, Parts, Ways
  <1>8. /\ feedRows \subseteq -History..today /\ feedDate \in Int /\ feedDate <= today
        /\ rowsHeld \subseteq feedRows /\ balanceDate \in Int /\ balanceDate <= feedDate
    BY DEF HealthInv, FeedTells, SyncsTell
  <1> HIDE DEF log, notices
  <1>9. FeedTells'
    <2>1. feedRows' \subseteq -History..today'
      BY <1>1, <1>3, <1>4, <1>8
    <2>2. feedDate' \in Int /\ feedDate' <= today'
      BY <1>1, <1>3, <1>8
    <2>3. ASSUME world["feed"] = "alive" PROVE \A d \in turned["feed"] + 1..today' : d \in feedRows'
      <3>1. \A d \in turned["feed"] + 1..today : d \in feedRows
        BY <2>3 DEF HealthInv, FeedTells
      <3> QED
        BY <1>1, <1>3, <1>6, <2>3, <3>1
    <2>4. ASSUME world["feed"] = "silent" PROVE \A d \in feedRows' : d <= turned["feed"]
      BY <1>1, <2>4 DEF HealthInv, FeedTells
    <2>5. world["feed"] # "frozen" => feedDate' = today'
      BY <1>1, <1>3
    <2>6. world["feed"] = "frozen" => feedDate' <= turned["feed"]
      BY <1>1 DEF HealthInv, FeedTells
    <2> QED
      BY <1>1, <1>6, <2>1, <2>2, <2>3, <2>4, <2>5, <2>6 DEF FeedTells
  <1>10. log \in SyncLog /\ log.day = today' /\ log.ok = ok /\ (world.sync \in {"ok", "noted"} => log.notices \subseteq {"range"})
    <2>1. notices \in SUBSET {"range", "other"} /\ (world.sync \in {"ok", "noted"} => notices \subseteq {"range"})
      BY DEF notices
    <2> QED
      BY <1>3, <2>1 DEF log, SyncLog
  <1>11. SyncsTell'
    <2>1. /\ feedRows \subseteq feedRows' /\ feedDate <= feedDate' /\ feedDate' \in Int
      BY <1>1, <1>3, <1>8
    <2>2. rowsHeld' \subseteq feedRows' /\ balanceDate' \in Int /\ balanceDate' <= feedDate'
      BY <1>2, <1>8, <2>1
    <2>3. \A i \in DOMAIN syncLogs : syncLogs[i].day \in Int /\ syncLogs[i].day <= today
      <3>1. \A i \in DOMAIN syncLogs : syncLogs[i] \in SyncLog
        BY LenProperties DEF HealthInv, SyncsTell
      <3> QED
        BY <3>1 DEF HealthInv, SyncsTell, SyncLog
    <2>4. CASE world["sync"] = "stopped"
      <3>1. syncLogs' = syncLogs
        BY <1>2, <2>4
      <3> QED
        BY <1>1, <1>3, <1>6, <2>2, <2>4, <2>3, <3>1 DEF HealthInv, SyncsTell
    <2>5. CASE world["sync"] # "stopped"
      <3>1. syncLogs' = <<log>> \o syncLogs
        BY <1>2, <2>5
      <3>2. /\ syncLogs' \in Seq(SyncLog) /\ syncLogs' # <<>> /\ syncLogs'[1] = log
            /\ \A i \in DOMAIN syncLogs' : i = 1 \/ (i - 1 \in DOMAIN syncLogs /\ syncLogs'[i] = syncLogs[i - 1])
        BY <1>10, <3>1, NightLogs
      <3>4. \A i \in DOMAIN syncLogs' : syncLogs'[i].day <= today'
        BY <1>3, <1>10, <2>3, <3>2
      <3>5. world["sync"] = "failing" => ~syncLogs'[1].ok
        BY <1>10, <3>2
      <3>6. world["sync"] \in {"ok", "noted"} =>
               /\ rowsHeld' = feedRows' /\ balanceDate' = feedDate'
               /\ syncLogs'[1].ok /\ syncLogs'[1].day = today' /\ syncLogs'[1].notices \subseteq {"range"}
        BY <1>2, <1>10, <3>2
      <3> QED
        BY <1>1, <2>2, <2>5, <3>2, <3>4, <3>5, <3>6 DEF SyncsTell
    <2> QED
      BY <2>4, <2>5
  <1>12. RatesTell'
    <2> SUFFICES ASSUME rate' # NoRun PROVE RatesTell'
      BY DEF RatesTell
    <2>1. CASE rate = NoRun \/ ~ok
      <3>1. rate' = rate /\ rate # NoRun /\ world["sync"] \in {"failing", "stopped"}
        BY <1>2, <1>7, <2>1
      <3> QED
        BY <1>1, <1>3, <1>6, <3>1 DEF HealthInv, RatesTell
    <2>2. CASE rate # NoRun /\ ok /\ world.rates = "failing"
      <3>1. rate' = [rate EXCEPT !.failed = TRUE]
        BY <1>2, <2>2
      <3>2. rate = [observed |-> rate.observed, failed |-> rate.failed] /\ rate.observed \in Int /\ rate.observed <= today
        BY <2>2 DEF HealthInv, RatesTell
      <3>3. rate' = [observed |-> rate'.observed, failed |-> rate'.failed] /\ rate'.failed /\ rate'.observed = rate.observed
        BY <3>1, <3>2
      <3> QED
        BY <1>1, <1>3, <2>2, <3>2, <3>3 DEF RatesTell
    <2>3. CASE rate # NoRun /\ ok /\ world.rates # "failing"
      <3> DEFINE new == [observed |-> morrow - 1, failed |-> FALSE]
      <3>1. rate' = new
        BY <1>2, <2>3
      <3>2. new = [observed |-> new.observed, failed |-> new.failed] /\ new.observed = today' - 1 /\ ~new.failed
        BY <1>3
      <3> HIDE DEF new
      <3> QED
        BY <1>1, <1>3, <2>3, <3>1, <3>2 DEF RatesTell
    <2> QED
      BY <2>1, <2>2, <2>3
  <1>13. BackupsTell'
    <2> SUFFICES ASSUME backup' # NoRun PROVE BackupsTell'
      BY DEF BackupsTell
    <2>1. CASE backup = NoRun \/ world.backup \in {"missed", "late"}
      <3>1. backup' = backup /\ slot' = slot /\ backup # NoRun /\ world["backup"] \in {"missed", "late"}
        BY <1>1, <2>1 DEF backedUp
      <3>2. slot \in Int /\ slot <= today /\ backup.at \in {2 * slot, 2 * slot + 1} /\ backup.at <= clock
        BY <3>1 DEF HealthInv, BackupsTell
      <3>3. world["backup"] = "late" /\ turned["backup"] < today => slot = today /\ backup.mirror = "mirrored"
        BY <1>1, <3>1 DEF HealthInv, BackupsTell
      <3>4. world["backup"] = "late" /\ turned["backup"] < today => backup.at = 2 * slot + 1
        <4> SUFFICES ASSUME world["backup"] = "late", turned["backup"] < today PROVE backup.at = 2 * slot + 1
          OBVIOUS
        <4> QED
          BY <1>1, <3>1 DEF HealthInv, BackupsTell
      <3> QED
        BY <1>1, <1>3, <1>6, <3>1, <3>2, <3>3, <3>4 DEF BackupsTell
    <2>2. CASE ~(backup = NoRun \/ world.backup \in {"missed", "late"})
      <3> DEFINE run == [at |-> 2 * morrow, mirror |-> world.backup]
      <3>1. backup' = run /\ slot' = morrow /\ world["backup"] \notin {"missed", "late"}
        BY <1>1, <2>2 DEF backedUp
      <3>2. run.at = 2 * morrow /\ run.mirror = world["backup"]
        OBVIOUS
      <3> HIDE DEF run
      <3> QED
        BY <1>1, <1>3, <3>1, <3>2 DEF BackupsTell
    <2> QED
      BY <2>1, <2>2
  <1>14. ReaderTells'
    <2> SUFFICES ASSUME pager # NoRun PROVE ReaderTells'
      BY <1>1 DEF ReaderTells
    <2> DEFINE n == pager.page * LOGS_PAGE_SIZE + 1
    <2>1. /\ pager = [page |-> pager.page, seen |-> pager.seen, sought |-> pager.sought]
          /\ pager.page \in Nat \ {0} /\ pager.sought \subseteq pager.seen \union From(syncLogs, n)
      BY DEF HealthInv, ReaderTells
    <2>2. n \in Int
      BY <2>1, HealthAssumption
    <2> HIDE DEF n
    <2>3. From(syncLogs, n) \subseteq From(syncLogs', n)
      <3>1. CASE syncLogs' = syncLogs
        BY <3>1 DEF From
      <3>2. CASE syncLogs' = <<log>> \o syncLogs
        <4>1. \A i \in DOMAIN syncLogs : i \in Nat /\ i + 1 \in DOMAIN syncLogs' /\ syncLogs'[i + 1] = syncLogs[i]
          <5>1. \A i \in DOMAIN syncLogs : i \in Nat
            BY LenProperties DEF HealthInv, SyncsTell
          <5> QED
            BY <1>10, <3>2, <5>1, NightLogs
        <4> QED
          BY <2>2, <4>1 DEF From
      <3> QED
        BY <1>2, <3>1, <3>2
    <2> QED
      BY <1>1, <2>1, <2>3 DEF ReaderTells, n
  <1> QED
    BY <1>4, <1>9, <1>11, <1>12, <1>13, <1>14 DEF HealthInv

\* A page of the history shows the logs up to the next page's.
LEMMA PageShows ==
  ASSUME HealthInv, NEW p \in Nat \ {0}, p <= lastPage
  PROVE  From(syncLogs, (p - 1) * LOGS_PAGE_SIZE + 1) \subseteq logsOn(p) \union From(syncLogs, p * LOGS_PAGE_SIZE + 1)
  <1> DEFINE m == (p - 1) * LOGS_PAGE_SIZE + 1
             len == Len(syncLogs)
             n == IF p * LOGS_PAGE_SIZE > len THEN len ELSE p * LOGS_PAGE_SIZE
             part == SubSeq(syncLogs, m, n)
  <1>1. syncLogs \in Seq(SyncLog) /\ len \in Nat /\ DOMAIN syncLogs = 1..len /\ LOGS_PAGE_SIZE \in Nat \ {0}
    BY LenProperties, HealthAssumption DEF HealthInv, SyncsTell
  <1>2. p * LOGS_PAGE_SIZE \in Nat /\ m \in Nat \ {0} /\ p * LOGS_PAGE_SIZE = m - 1 + LOGS_PAGE_SIZE
    <2>1. p - 1 \in Nat
      OBVIOUS
    <2>2. (p - 1) * LOGS_PAGE_SIZE \in Nat
      BY <1>1, <2>1
    <2>3. p * LOGS_PAGE_SIZE = (p - 1) * LOGS_PAGE_SIZE + LOGS_PAGE_SIZE
      BY <1>1
    <2> QED
      BY <1>1, <2>2, <2>3
  <1> HIDE DEF m, len
  <1>3. n \in Nat
    BY <1>1, <1>2
  <1>4. logsOn(p) = Range(part)
    BY DEF logsOn, ToSet, Range, m, len
  <1>5. SUFFICES ASSUME NEW x \in From(syncLogs, m), x \notin From(syncLogs, p * LOGS_PAGE_SIZE + 1) PROVE x \in Range(part)
    BY <1>4 DEF m
  <1>6. PICK i \in DOMAIN syncLogs : i >= m /\ x = syncLogs[i]
    BY <1>5 DEF From
  <1>7. i <= n /\ i \in Nat
    <2>1. ~(i >= p * LOGS_PAGE_SIZE + 1)
      BY <1>5, <1>6 DEF From
    <2> QED
      BY <1>1, <1>2, <1>6, <2>1
  <1>8. m \in 1..len + 1 /\ n \in m - 1..len
    BY <1>1, <1>2, <1>3, <1>6, <1>7
  <1> HIDE DEF n
  <1>9. part \in Seq(SyncLog) /\ Len(part) = n - m + 1 /\ \A k \in 1..(n - m + 1) : part[k] = syncLogs[m + k - 1]
    BY <1>1, <1>8, SubSeqProperties DEF len
  <1>10. i - m + 1 \in 1..(n - m + 1) /\ m + (i - m + 1) - 1 = i
    BY <1>1, <1>2, <1>3, <1>6, <1>7
  <1> HIDE DEF part
  <1>11. DOMAIN part = 1..(n - m + 1) /\ part[i - m + 1] = x
    BY <1>6, <1>9, <1>10, LenProperties
  <1> QED
    BY <1>10, <1>11 DEF Range

LEMMA ReaderSafe == ASSUME HealthInv, OpenHistory \/ Older PROVE HealthInv'
  <1>1. UNCHANGED <<clock, world, turned, feedRows, feedDate, rowsHeld, balanceDate, syncLogs, rate, backup, slot>>
    BY DEF OpenHistory, Older
  <1>2. HealthTyped' /\ FeedTells' /\ SyncsTell' /\ RatesTell' /\ BackupsTell'
    <2>1. HealthTyped' /\ FeedTells'
      BY <1>1 DEF HealthInv, HealthTyped, FeedTells, today
    <2>2. SyncsTell'
      BY <1>1 DEF HealthInv, SyncsTell, today
    <2>3. RatesTell' /\ BackupsTell'
      BY <1>1 DEF HealthInv, RatesTell, BackupsTell, today
    <2> QED
      BY <2>1, <2>2, <2>3
  <1>3. LOGS_PAGE_SIZE \in Nat \ {0} /\ syncLogs \in Seq(SyncLog) /\ lastPage \in Int /\ lastPage >= 1
    <2>1. LOGS_PAGE_SIZE \in Nat \ {0} /\ syncLogs \in Seq(SyncLog) /\ Len(syncLogs) \in Nat
      BY LenProperties, HealthAssumption DEF HealthInv, SyncsTell
    <2>2. (-Len(syncLogs)) \div LOGS_PAGE_SIZE \in Int
      BY <2>1
    <2> QED
      BY <2>1, <2>2 DEF lastPage
  <1>4. CASE OpenHistory
    <2> DEFINE reader == [page |-> 1, seen |-> logsOn(1), sought |-> ToSet(syncLogs)]
    <2>1. pager' = reader
      BY <1>4 DEF OpenHistory
    <2>2. ToSet(syncLogs) \subseteq From(syncLogs, 1)
      BY <1>3, LenProperties DEF ToSet, From
    <2>3. ToSet(syncLogs) \subseteq logsOn(1) \union From(syncLogs, 1 * LOGS_PAGE_SIZE + 1)
      <3>1. (1 - 1) * LOGS_PAGE_SIZE + 1 = 1
        BY <1>3
      <3>2. From(syncLogs, (1 - 1) * LOGS_PAGE_SIZE + 1) \subseteq logsOn(1) \union From(syncLogs, 1 * LOGS_PAGE_SIZE + 1)
        BY <1>3, PageShows
      <3> QED
        BY <2>2, <3>1, <3>2
    <2>4. /\ reader = [page |-> reader.page, seen |-> reader.seen, sought |-> reader.sought]
          /\ reader.page = 1 /\ reader.seen = logsOn(1) /\ reader.sought = ToSet(syncLogs)
      OBVIOUS
    <2> HIDE DEF reader
    <2> QED
      BY <1>1, <1>2, <2>1, <2>3, <2>4 DEF HealthInv, ReaderTells
  <1>5. CASE Older
    <2> DEFINE p == pager.page + 1
    <2>1. /\ pager = [page |-> pager.page, seen |-> pager.seen, sought |-> pager.sought] /\ pager.page \in Nat \ {0}
          /\ pager.sought \subseteq pager.seen \union From(syncLogs, pager.page * LOGS_PAGE_SIZE + 1)
      BY <1>5 DEF Older, HealthInv, ReaderTells
    <2>2. pager.page < lastPage /\ pager' = [pager EXCEPT !.page = pageShown(p), !.seen = @ \union logsOn(pageShown(p))]
      BY <1>5 DEF Older
    <2>3. pageShown(p) = p /\ p \in Nat \ {0} /\ p <= lastPage /\ p - 1 = pager.page
      BY <1>3, <2>1, <2>2 DEF pageShown
    <2>4. From(syncLogs, pager.page * LOGS_PAGE_SIZE + 1) \subseteq logsOn(p) \union From(syncLogs, p * LOGS_PAGE_SIZE + 1)
      <3> HIDE DEF p
      <3>1. From(syncLogs, (p - 1) * LOGS_PAGE_SIZE + 1) \subseteq logsOn(p) \union From(syncLogs, p * LOGS_PAGE_SIZE + 1)
        BY <2>3, PageShows
      <3> QED
        BY <2>3, <3>1
    <2> HIDE DEF p
    <2>5. pager' = [pager EXCEPT !.page = p, !.seen = @ \union logsOn(p)]
      BY <2>2, <2>3
    <2>6. /\ pager' = [page |-> pager'.page, seen |-> pager'.seen, sought |-> pager'.sought]
          /\ pager'.page = p /\ pager'.seen = pager.seen \union logsOn(p) /\ pager'.sought = pager.sought
      BY <2>1, <2>5
    <2> QED
      BY <1>1, <1>2, <2>1, <2>3, <2>4, <2>6 DEF HealthInv, ReaderTells
  <1> QED
    BY <1>4, <1>5

LEMMA HealthStep == ASSUME HealthInv, [HealthNext]_hvars PROVE HealthInv'
  <1>1. CASE UNCHANGED hvars
    <2>1. UNCHANGED <<clock, world, turned, feedRows, feedDate, rowsHeld, balanceDate, syncLogs, rate, backup, slot, pager>>
      BY <1>1 DEF hvars
    <2>2. HealthTyped' /\ FeedTells' /\ BackupsTell'
      BY <2>1 DEF HealthInv, HealthTyped, FeedTells, BackupsTell, today
    <2>3. SyncsTell' /\ RatesTell' /\ ReaderTells'
      BY <2>1 DEF HealthInv, SyncsTell, RatesTell, ReaderTells, today
    <2> QED
      BY <2>2, <2>3 DEF HealthInv
  <1> QED
    BY <1>1, TurnSafe, NightSafe, MiddaySafe, ReaderSafe DEF HealthNext

\* A reader that is on the last page has seen all it began with.
LEMMA LastPageIsLast == HealthInv => HistoryIsReachable
  <1> SUFFICES ASSUME HealthInv, pager # NoRun, pager.page = lastPage PROVE pager.sought \subseteq pager.seen
    BY DEF HistoryIsReachable
  <1> DEFINE len == Len(syncLogs)
             q == (-len) \div LOGS_PAGE_SIZE
  <1>1. /\ pager.page \in Nat \ {0}
        /\ pager.sought \subseteq pager.seen \union From(syncLogs, pager.page * LOGS_PAGE_SIZE + 1)
    BY DEF HealthInv, ReaderTells
  <1>2. LOGS_PAGE_SIZE \in Nat \ {0} /\ len \in Nat /\ DOMAIN syncLogs = 1..len
    BY LenProperties, HealthAssumption DEF HealthInv, SyncsTell
  <1> HIDE DEF len
  <1>3. q \in Int /\ LOGS_PAGE_SIZE * q <= -len
    BY <1>2
  <1>4. lastPage = IF -q < 1 THEN 1 ELSE -q
    BY DEF lastPage, len
  <1> HIDE DEF q
  <1>5. (-q) * LOGS_PAGE_SIZE >= len
    BY <1>2, <1>3
  <1>6. pager.page >= -q
    BY <1>3, <1>4
  <1>7. pager.page * LOGS_PAGE_SIZE >= len
    <2>1. (-q) * LOGS_PAGE_SIZE <= pager.page * LOGS_PAGE_SIZE
      BY <1>1, <1>2, <1>3, <1>6, ProductsGrow
    <2> QED
      BY <1>1, <1>2, <1>3, <1>5, <2>1
  <1>8. From(syncLogs, pager.page * LOGS_PAGE_SIZE + 1) = {}
    <2> DEFINE n == pager.page * LOGS_PAGE_SIZE
    <2>1. n \in Int /\ n >= len
      BY <1>1, <1>2, <1>7
    <2> HIDE DEF n
    <2>2. From(syncLogs, n + 1) = {}
      BY <1>2, <2>1 DEF From
    <2> QED
      BY <2>2 DEF n
  <1> QED
    BY <1>1, <1>8

\* The last sync that worked is the newest log's when that one did, and no
\* later than any bound on the logs.
LEMMA LastOkIs ==
  ASSUME HealthInv
  PROVE  /\ syncLogs[1].ok => lastOkDay = syncLogs[1].day
         /\ lastOkDay = NoRun \/ \E i \in DOMAIN syncLogs : lastOkDay = syncLogs[i].day
         /\ 1 \in DOMAIN syncLogs /\ Head(syncLogs) = syncLogs[1]
         /\ \A i \in DOMAIN syncLogs : syncLogs[i] \in SyncLog
  <1> DEFINE okAt == {i \in DOMAIN syncLogs : syncLogs[i].ok}
  <1>1. /\ syncLogs \in Seq(SyncLog) /\ syncLogs # <<>> /\ DOMAIN syncLogs = 1..Len(syncLogs) /\ Len(syncLogs) \in Nat \ {0}
        /\ \A i \in DOMAIN syncLogs : syncLogs[i] \in SyncLog
    BY LenProperties, EmptySeq DEF HealthInv, SyncsTell
  <1>2. 1 \in DOMAIN syncLogs /\ Head(syncLogs) = syncLogs[1]
    BY <1>1
  <1>3. lastOkDay = IF okAt = {} THEN NoRun ELSE syncLogs[Min(okAt)].day
    BY DEF lastOkDay
  <1>4. okAt # {} => Min(okAt) \in okAt /\ \A y \in okAt : Min(okAt) <= y
    <2>1. okAt \in SUBSET Int /\ \A y \in okAt : 1 <= y
      BY <1>1
    <2> HIDE DEF okAt
    <2> QED
      BY <2>1, MinAbove
  <1>5. syncLogs[1].ok => 1 \in okAt
    BY <1>2
  <1>6. syncLogs[1].ok => Min(okAt) = 1
    <2>1. ASSUME syncLogs[1].ok PROVE Min(okAt) \in 1..Len(syncLogs) /\ Min(okAt) <= 1
      BY <1>1, <1>4, <1>5, <2>1
    <2> HIDE DEF okAt
    <2> QED
      BY <1>1, <2>1
  <1>7. okAt # {} => \E i \in DOMAIN syncLogs : lastOkDay = syncLogs[i].day
    BY <1>3, <1>4
  <1>8. syncLogs[1].ok => lastOkDay = syncLogs[1].day
    <2>1. ASSUME syncLogs[1].ok PROVE okAt # {}
      BY <1>5, <2>1
    <2> HIDE DEF okAt
    <2> QED
      BY <1>3, <1>6, <2>1
  <1> HIDE DEF okAt
  <1> QED
    BY <1>1, <1>2, <1>3, <1>7, <1>8

\* The rows before the window, the account's own record.
LEMMA RecordIs ==
  ASSUME HealthInv
  PROVE  /\ IsFiniteSet(rowsHeld) /\ rowsHeld \subseteq -History..today /\ today \in Nat /\ today <= Nights
         /\ historical \in SUBSET Int /\ recent \in SUBSET Int
         /\ IsFiniteSet(historical) /\ Cardinality(historical) \in Nat /\ IsFiniteSet(recent) /\ Cardinality(recent) \in Nat
         /\ historical # {} => Min(historical) \in historical /\ \A d \in historical : Min(historical) <= d
         /\ GAP_WINDOW \in Nat \ {0} /\ History \in Nat
  <1>1. today \in Nat /\ today <= Nights /\ History \in Nat /\ GAP_WINDOW \in Nat \ {0}
    BY HalfDays, HealthAssumption DEF HealthInv, HealthTyped, today
  <1>2. rowsHeld \subseteq -History..today
    BY DEF HealthInv, FeedTells, SyncsTell
  <1>3. IsFiniteSet(rowsHeld)
    <2>1. IsFiniteSet(-History..today)
      BY <1>1, FS_Interval
    <2> QED
      BY <1>2, <2>1, FS_Subset
  <1>4. historical \subseteq rowsHeld /\ recent \subseteq rowsHeld
    BY DEF historical, recent
  <1>5. IsFiniteSet(historical) /\ Cardinality(historical) \in Nat /\ IsFiniteSet(recent) /\ Cardinality(recent) \in Nat
    BY <1>3, <1>4, FS_Subset, FS_CardinalityType
  <1>6. historical \in SUBSET Int /\ recent \in SUBSET Int /\ \A d \in historical : -History <= d
    <2>1. \A d \in -History..today : d \in Int /\ -History <= d
      BY <1>1
    <2> QED
      BY <1>2, <1>4, <2>1
  <1>7. historical # {} => Min(historical) \in historical /\ \A d \in historical : Min(historical) <= d
    <2>1. -History \in Int
      BY <1>1
    <2> QED
      BY <1>6, <2>1, MinAbove
  <1> QED
    BY <1>1, <1>2, <1>3, <1>5, <1>6, <1>7

\* Accounts whose feed has been silent for longer than the window are gapped,
\* while their record is typical.
LEMMA SilenceIsAGap ==
  ASSUME HealthInv, world["feed"] = "silent", today - turned["feed"] > GAP_WINDOW, stillTypical
  PROVE  findGappedAccounts # {}
  <1> DEFINE first == Min(historical)
             span == today - GAP_WINDOW - first
             H == Cardinality(historical)
  <1>1. /\ historical \in SUBSET Int /\ H \in Nat /\ IsFiniteSet(historical) /\ today \in Nat
        /\ rowsHeld \subseteq -History..today /\ GAP_WINDOW \in Nat \ {0} /\ History \in Nat
    BY RecordIs
  <1>2. historical # {} => first \in historical
    BY RecordIs
  <1>3. turned["feed"] \in Int
    BY DEF HealthInv, HealthTyped, Parts
  <1>4. \A d \in rowsHeld : d < today - GAP_WINDOW
    <2>1. \A d \in rowsHeld : d <= turned["feed"]
      BY DEF HealthInv, FeedTells, SyncsTell
    <2>2. \A d \in rowsHeld : d \in Int
      BY <1>1
    <2> QED
      BY <1>1, <1>3, <2>1, <2>2
  <1>5. recent = {} /\ historical = rowsHeld
    <2>1. \A d \in rowsHeld : ~(d >= today - GAP_WINDOW)
      <3>1. \A d \in rowsHeld : d \in Int
        BY <1>1
      <3> QED
        BY <1>1, <1>4, <3>1
    <2> QED
      BY <1>4, <2>1, Zenon DEF recent, historical
  <1>6. historical # {} => first \in Int
    BY <1>1, <1>2
  <1> HIDE DEF first, H
  <1>7. /\ historical # {} /\ span \in Int /\ ~(span < GAP_MONTH) /\ ~(H * GAP_MONTH < GAP_MIN_TYPICAL * span)
    <2>1. /\ rowsHeld # {} /\ span >= GAP_MONTH /\ H * GAP_MONTH >= GAP_MIN_TYPICAL * span
      <3>1. /\ rowsHeld # {} /\ today - GAP_WINDOW - Min(rowsHeld) >= GAP_MONTH
            /\ Cardinality(rowsHeld) * GAP_MONTH >= GAP_MIN_TYPICAL * (today - GAP_WINDOW - Min(rowsHeld))
        BY Zenon DEF stillTypical
      <3> QED
        BY <1>5, <3>1, Zenon DEF first, H
    <2>2. /\ span \in Int /\ GAP_MONTH \in Nat /\ GAP_MIN_TYPICAL \in Nat
      BY <1>1, <1>5, <1>6, <2>1, HealthAssumption
    <2> DEFINE a == H * GAP_MONTH
               b == GAP_MIN_TYPICAL * span
    <2>3. a \in Int /\ b \in Int /\ a >= b
      BY <1>1, <2>1, <2>2
    <2> HIDE DEF a, b, span
    <2>4. ~(a < b) /\ ~(span < GAP_MONTH)
      BY <2>1, <2>2, <2>3, HealthAssumption
    <2> QED
      BY <1>5, <2>1, <2>2, <2>4 DEF a, b
  <1>8. 4 * Cardinality(recent) * span < H * GAP_WINDOW
    <2>1. Cardinality(recent) = 0
      BY <1>5, FS_EmptySet
    <2> HIDE DEF span
    <2>2. 4 * Cardinality(recent) * span = 0
      BY <1>7, <2>1
    <2>3. H # 0
      BY <1>1, <1>7, FS_EmptySet DEF H
    <2>4. H * GAP_WINDOW > 0
      BY <1>1, <2>3
    <2> QED
      BY <2>2, <2>4
  <1>9. findGappedAccounts = Checked
    BY <1>7, <1>8, Zenon DEF findGappedAccounts, first, H
  <1> QED
    BY <1>9, HealthAssumption

\* A part that has stopped working shows before its allowance is over.
LEMMA DeadShows == HealthInv => NothingDiesQuietly
  <1> SUFFICES ASSUME HealthInv PROVE NothingDiesQuietly
    OBVIOUS
  <1>1. /\ today \in Nat /\ OVERDUE \in Nat /\ STALE \in Nat /\ RATE_STALE_DAYS \in Nat \ {0} /\ GAP_WINDOW \in Nat
        /\ Checked # {}
    BY HalfDays, HealthAssumption DEF HealthInv, HealthTyped, today
  <1>2. /\ turned["feed"] \in Int /\ turned["sync"] \in Int /\ turned["rates"] \in Int
        /\ forDays("feed") = today - turned["feed"] /\ forDays("sync") = today - turned["sync"]
        /\ forDays("rates") = today - turned["rates"]
    BY DEF HealthInv, HealthTyped, Parts, forDays
  <1>3. /\ Head(syncLogs) = syncLogs[1] /\ 1 \in DOMAIN syncLogs /\ \A i \in DOMAIN syncLogs : syncLogs[i].day \in Int
    BY LastOkIs DEF SyncLog
  <1>4. syncOverdue \/ findStaleAccounts # {} \/ findGappedAccounts # {} => providerStatus # "OK"
    BY DEF providerStatus, deriveStatus
  <1>5. ~syncLogs[1].ok => providerStatus = "ERROR"
    BY <1>3 DEF providerStatus, deriveStatus
  <1>6. world["sync"] = "stopped" /\ forDays("sync") > OVERDUE + 1 => providerStatus # "OK"
    <2> SUFFICES ASSUME world["sync"] = "stopped", forDays("sync") > OVERDUE + 1 PROVE syncOverdue
      BY <1>4
    <2>1. lastOkDay = NoRun \/ (lastOkDay \in Int /\ lastOkDay <= turned["sync"])
      BY <1>3, LastOkIs DEF HealthInv, SyncsTell
    <2> QED
      BY <1>1, <1>2, <2>1 DEF syncOverdue
  <1>7. world["sync"] = "failing" /\ forDays("sync") >= 1 => providerStatus = "ERROR"
    <2> SUFFICES ASSUME world["sync"] = "failing", forDays("sync") >= 1 PROVE ~syncLogs[1].ok
      BY <1>5
    <2>1. turned["sync"] < today
      BY <1>1, <1>2
    <2> QED
      BY <2>1 DEF HealthInv, SyncsTell
  <1>8. world["feed"] = "frozen" /\ forDays("feed") > STALE => providerStatus # "OK"
    <2> SUFFICES ASSUME world["feed"] = "frozen", forDays("feed") > STALE PROVE findStaleAccounts # {}
      BY <1>4
    <2>1. feedDate <= turned["feed"] /\ balanceDate <= feedDate /\ feedDate \in Int /\ balanceDate \in Int
      BY DEF HealthInv, FeedTells, SyncsTell
    <2> QED
      BY <1>1, <1>2, <2>1 DEF findStaleAccounts
  <1>9. silentPast(GAP_WINDOW) /\ stillTypical => providerStatus # "OK"
    BY <1>2, <1>4, SilenceIsAGap DEF silentPast
  <1>10. rate # NoRun /\ world["rates"] = "failing" /\ forDays("rates") > RATE_STALE_DAYS => deriveFredRateStatus = "WARN"
    BY <1>1, <1>2 DEF HealthInv, RatesTell, deriveFredRateStatus
  <1>11. rate # NoRun /\ world["sync"] \in {"failing", "stopped"} /\ forDays("sync") > RATE_STALE_DAYS => deriveFredRateStatus = "WARN"
    BY <1>1, <1>2 DEF HealthInv, RatesTell, deriveFredRateStatus
  <1> QED
    BY <1>6, <1>7, <1>8, <1>9, <1>10, <1>11 DEF NothingDiesQuietly

\* The backup's age is the nights missed, or one less at midday's side of them.
LEMMA NightsAreCounted == HealthInv => BackupCountsNights
  <1> SUFFICES ASSUME HealthInv, backup # NoRun PROVE BackupCountsNights
    BY DEF BackupCountsNights
  <1> DEFINE missed == today - slot
  <1>1. /\ slot \in Int /\ slot <= today /\ backup.at \in {2 * slot, 2 * slot + 1} /\ backup.at <= clock
        /\ clock \in Nat /\ today \in Nat /\ clock \in {2 * today, 2 * today + 1}
    BY HalfDays DEF HealthInv, HealthTyped, BackupsTell, today
  <1>2. ageDays \in {missed, missed - 1}
    <2>1. clock - backup.at \in {2 * missed - 1, 2 * missed, 2 * missed + 1}
      BY <1>1
    <2>2. missed \in Int
      BY <1>1
    <2> HIDE DEF missed
    <2>3. (2 * missed - 1) \div 2 = missed - 1 /\ (2 * missed) \div 2 = missed /\ (2 * missed + 1) \div 2 = missed
      BY <2>2
    <2> QED
      BY <2>1, <2>3 DEF ageDays
  <1>3. /\ BACKUP_WARN_AFTER_NIGHTS \in Nat /\ BACKUP_ERROR_AFTER_NIGHTS \in Nat
        /\ BACKUP_WARN_AFTER_NIGHTS <= BACKUP_ERROR_AFTER_NIGHTS
    BY HealthAssumption
  <1>4. missed \in Int
    BY <1>1
  <1> HIDE DEF missed
  <1>5. backup.mirror = "refused" => providersVerdict.level # "OK"
    <2> SUFFICES ASSUME backup.mirror = "refused" PROVE providersVerdict.level # "OK"
      OBVIOUS
    <2>1. deriveBackupStatus \in {"ERROR", "WARN"}
      BY DEF deriveBackupStatus
    <2> QED
      BY <2>1 DEF providersVerdict
  <1>6. /\ missed <= BACKUP_WARN_AFTER_NIGHTS /\ backup.mirror = "mirrored" => deriveBackupStatus = "OK"
        /\ missed > BACKUP_WARN_AFTER_NIGHTS + 1 => deriveBackupStatus # "OK"
        /\ missed > BACKUP_ERROR_AFTER_NIGHTS + 1 => deriveBackupStatus = "ERROR"
    BY <1>2, <1>3, <1>4 DEF deriveBackupStatus
  <1> QED
    BY <1>5, <1>6 DEF BackupCountsNights, missed

\* Accounts that had a row every day of the window are not gapped.
LEMMA DailyRowsAreNoGap ==
  ASSUME HealthInv, today - GAP_WINDOW..today \subseteq rowsHeld
  PROVE  findGappedAccounts = {}
  <1> DEFINE first == Min(historical)
             span == today - GAP_WINDOW - first
             H == Cardinality(historical)
             R == Cardinality(recent)
  <1> SUFFICES ASSUME historical # {} PROVE ~(4 * R * span < H * GAP_WINDOW)
    BY DEF findGappedAccounts
  <1>1. /\ historical \in SUBSET Int /\ H \in Nat /\ R \in Nat /\ IsFiniteSet(recent)
        /\ today \in Nat /\ GAP_WINDOW \in Nat \ {0} /\ History \in Nat
        /\ first \in historical /\ \A d \in historical : first <= d
    BY RecordIs
  <1>2. first \in Int /\ first < today - GAP_WINDOW
    BY <1>1 DEF historical
  <1> HIDE DEF first
  <1>3. H <= span
    <2> DEFINE days == first..today - GAP_WINDOW - 1
    <2>1. historical \subseteq days
      BY <1>1, <1>2 DEF historical
    <2>2. IsFiniteSet(days) /\ Cardinality(days) = (today - GAP_WINDOW - 1) - first + 1
      <3>1. today - GAP_WINDOW - 1 \in Int /\ first \in Int /\ first <= today - GAP_WINDOW - 1
        BY <1>1, <1>2
      <3> QED
        BY <3>1, FS_Interval
    <2>3. H <= Cardinality(days)
      BY <2>1, <2>2, FS_Subset
    <2> QED
      BY <1>1, <1>2, <2>2, <2>3
  <1>4. R >= GAP_WINDOW + 1
    <2> DEFINE days == today - GAP_WINDOW..today
    <2>1. days \subseteq recent
      BY <1>1 DEF recent
    <2>2. Cardinality(days) = today - (today - GAP_WINDOW) + 1
      <3>1. today - GAP_WINDOW \in Int /\ today \in Int /\ today - GAP_WINDOW <= today
        BY <1>1
      <3> QED
        BY <3>1, FS_Interval
    <2>3. Cardinality(days) <= R
      BY <1>1, <2>1, FS_Subset
    <2> QED
      BY <1>1, <2>2, <2>3
  <1>5. span \in Nat
    BY <1>1, <1>2
  <1> HIDE DEF span, H, R
  <1>6. H * GAP_WINDOW <= span * GAP_WINDOW
    BY <1>1, <1>3, <1>5, ProductsGrow
  <1>7. GAP_WINDOW * span <= (4 * R) * span
    <2>1. GAP_WINDOW <= 4 * R /\ 4 * R \in Int
      BY <1>1, <1>4
    <2> DEFINE r == 4 * R
    <2> HIDE DEF r
    <2>2. GAP_WINDOW * span <= r * span
      BY <1>1, <1>5, <2>1, ProductsGrow DEF r
    <2> QED
      BY <2>2 DEF r
  <1>8. span * GAP_WINDOW = GAP_WINDOW * span
    BY <1>1, <1>5
  <1> DEFINE a == H * GAP_WINDOW
             b == GAP_WINDOW * span
             c == 4 * R * span
  <1>9. a \in Int /\ b \in Int /\ c \in Int
    BY <1>1, <1>5
  <1>10. a <= b /\ b <= c
    BY <1>6, <1>7, <1>8
  <1> HIDE DEF a, b, c
  <1>11. ~(c < a)
    BY <1>9, <1>10
  <1> QED
    BY <1>11 DEF a, c

\* Where everything has worked for a window's time nothing warns.
LEMMA GreenIsBack == HealthInv => GreenComesBack
  <1> SUFFICES ASSUME HealthInv, \A part \in DOMAIN Ways : well(part) /\ forDays(part) > GAP_WINDOW
               PROVE  providersVerdict.level = "OK" /\ providersVerdict.feeds = "All feeds OK"
    BY DEF GreenComesBack
  <1>1. /\ today \in Nat /\ GAP_WINDOW \in Nat \ {0} /\ OVERDUE \in Nat /\ STALE \in Nat /\ RATE_STALE_DAYS \in Nat \ {0}
        /\ BACKUP_WARN_AFTER_NIGHTS \in Nat /\ BACKUP_ERROR_AFTER_NIGHTS \in Nat /\ NoRun \notin Int
    BY HalfDays, HealthAssumption DEF HealthInv, HealthTyped, today
  <1>2. \A p \in Parts : /\ world[p] \in {WellWorld[p], "noted", "late"} /\ world[p] \in Ways[p]
                         /\ turned[p] \in Int /\ today - turned[p] > GAP_WINDOW
    BY DEF HealthInv, HealthTyped, Parts, Ways, well, forDays
  <1>3. /\ world["feed"] = "alive" /\ world["sync"] \in {"ok", "noted"} /\ world["rates"] = "fresh"
        /\ world["backup"] \in {"mirrored", "late"}
    BY <1>2 DEF Parts, Ways, WellWorld
  <1>4. /\ turned["feed"] \in Int /\ turned["feed"] + 1 <= today - GAP_WINDOW /\ turned["feed"] < today
        /\ turned["sync"] < today /\ turned["rates"] < today
        /\ turned["backup"] \in Int /\ turned["backup"] + 1 < today
    BY <1>1, <1>2 DEF Parts
  <1>5. /\ rowsHeld = feedRows /\ balanceDate = feedDate /\ syncLogs[1].ok /\ syncLogs[1].day = today
        /\ syncLogs[1].notices \subseteq {"range"}
    BY <1>3, <1>4 DEF HealthInv, SyncsTell
  <1>6. findGappedAccounts = {}
    <2>1. today - GAP_WINDOW..today \subseteq rowsHeld
      BY <1>1, <1>3, <1>4, <1>5 DEF HealthInv, FeedTells
    <2> QED
      BY <2>1, DailyRowsAreNoGap
  <1>7. findStaleAccounts = {}
    <2>1. balanceDate = today
      BY <1>3, <1>4, <1>5 DEF HealthInv, FeedTells
    <2> QED
      BY <1>1, <2>1 DEF findStaleAccounts
  <1>8. ~syncOverdue
    <2>1. lastOkDay = today
      BY <1>5, LastOkIs
    <2> QED
      BY <1>1, <2>1 DEF syncOverdue
  <1>9. providerStatus = "OK"
    <2>1. Head(syncLogs) = syncLogs[1] /\ \A n \in syncLogs[1].notices : isExpectedFeedNotice(n)
      BY <1>5, LastOkIs DEF isExpectedFeedNotice
    <2> QED
      BY <1>5, <1>6, <1>7, <1>8, <2>1 DEF providerStatus, deriveStatus
  <1>10. rate # NoRun => deriveFredRateStatus = "OK"
    BY <1>1, <1>3, <1>4 DEF HealthInv, RatesTell, deriveFredRateStatus
  <1>11. backup # NoRun => deriveBackupStatus = "OK"
    <2> SUFFICES ASSUME backup # NoRun PROVE deriveBackupStatus = "OK"
      OBVIOUS
    <2>1. clock \in Nat /\ (clock % 2 = 1 => clock = 2 * today + 1) /\ (clock % 2 = 0 => clock = 2 * today)
          /\ clock % 2 \in {0, 1}
      BY HalfDays DEF HealthInv, HealthTyped, today
    <2>2. slot \in Int /\ backup.at \in {2 * slot, 2 * slot + 1} /\ backup.at <= clock
      BY DEF HealthInv, BackupsTell
    <2>3. BackupsTell
      BY DEF HealthInv
    <2>4. CASE world["backup"] = "mirrored"
      <3>1. slot = today /\ backup.mirror = "mirrored"
        BY <1>1, <1>4, <2>3, <2>4 DEF BackupsTell
      <3>2. clock - backup.at \in {0, 1}
        BY <1>1, <2>1, <2>2, <3>1
      <3> QED
        BY <1>1, <3>1, <3>2 DEF deriveBackupStatus, ageDays
    <2>5. CASE world["backup"] = "late" /\ clock % 2 = 1
      <3>1. slot = today /\ backup.mirror = "mirrored"
        BY <1>1, <1>4, <2>3, <2>5 DEF BackupsTell
      <3>2. clock - backup.at \in {0, 1}
        BY <1>1, <2>1, <2>2, <3>1
      <3> QED
        BY <1>1, <3>1, <3>2 DEF deriveBackupStatus, ageDays
    <2>6. CASE world["backup"] = "late" /\ clock % 2 = 0
      <3>1. slot = today - 1 /\ backup.at = 2 * slot + 1 /\ backup.mirror = "mirrored"
        BY <1>4, <2>3, <2>6 DEF BackupsTell
      <3>2. clock - backup.at = 1
        BY <1>1, <2>1, <2>2, <2>6, <3>1
      <3> QED
        BY <1>1, <3>1, <3>2 DEF deriveBackupStatus, ageDays
    <2> QED
      BY <1>3, <2>1, <2>4, <2>5, <2>6
  <1>12. feedLevels = {"OK"}
    BY <1>9, <1>10 DEF feedLevels
  <1> QED
    BY <1>11, <1>12 DEF providersVerdict

\* The driver's failures are told apart.
LEMMA OutagesAreNamed == OutageIsNamed
  <1>1. ASSUME NEW raw \in BOOLEAN, NEW what \in {"outage", "no host", "bad port"}
        PROVE  databaseFailure(thrown(what, raw)) = "unreachable"
    BY DEF databaseFailure, thrown, TransportCodes
  <1>2. ASSUME NEW raw \in BOOLEAN
        PROVE  /\ databaseFailure(thrown("quota", raw)) = "usage-blocked"
               /\ databaseFailure(thrown("no folder", raw)) = "unopenable"
    BY DEF databaseFailure, thrown, TransportCodes
  <1>3. ASSUME NEW raw \in BOOLEAN
        PROVE  /\ databaseFailure(thrown("not a database", raw)) = "not-a-database"
               /\ databaseFailure(thrown("no table", raw)) = "no-tables"
    BY DEF databaseFailure, thrown, TransportCodes
  <1>4. ASSUME NEW raw \in BOOLEAN, NEW what \in {"rates down", "bad query", "bug"}
        PROVE  databaseFailure(thrown(what, raw)) = NoRun
    BY DEF databaseFailure, thrown, TransportCodes
  <1> QED
    BY <1>1, <1>2, <1>3, <1>4 DEF OutageIsNamed

\* For any allowances, any rows the feed brought before and any number of turns
\* of the feed, the sync, the rate and the backup: what has stopped working
\* shows in time, a silent feed while its record with the silent days in it is
\* still typical, green means well and comes back, a backup warns by the nights
\* it missed, a reader of the history misses no sync while more are logged, and
\* an outage is named (health/health.ts, health/backup.ts, ui/providers.ts, ui/dbHealth.ts).
THEOREM HealthIsTold == HealthSpec => []HealthTellsTheTruth
  <1>1. HealthInv => HealthTellsTheTruth
    BY DeadShows, NightsAreCounted, GreenIsBack, LastPageIsLast, OutagesAreNamed DEF HealthTellsTheTruth
  <1> QED
    BY <1>1, InitHealth, HealthStep, PTL DEF HealthSpec
-----------------------------------------------------------------------------
(* The net worth goal (WorthGoal).                                          *)

IsDraft(d) == d = [target |-> d.target, pct |-> d.pct, invest |-> d.invest, pace |-> d.pace]

\* A return is dated, and no return is not.
Dated(g) == (g.pct = 0) = (g.setOn = NoDate)

\* A save under way, or answered, is the first there is.
SaveUnderWay(q, r, b) ==
    /\ Queue(q) /\ \A i \in DOMAIN q : IsDraft(q[i])
    /\ r # Unmeasured => q # <<>> /\ b = Unmeasured /\ accepts(Head(q)) /\ Dated(r)
    /\ b # Unmeasured => q # <<>> /\ (b.ok => draftOf(b.goal) = Head(q))

Panel(p) ==
    /\ p = [draft |-> p.draft, setOn |-> p.setOn, saved |-> p.saved, failed |-> p.failed, seen |-> p.seen]
    /\ IsDraft(p.draft) /\ p.failed \in BOOLEAN

\* A panel shows the last draft it sent, or what it knows saved.
PanelSettled(p, q) ==
    /\ q # <<>> => p.draft = q[Len(q)]
    /\ q = <<>> /\ ~p.failed => p.draft = p.saved

\* A draft sent keeps the return of the one before it, or has one set today.
ReturnsTyped(q, pct, now, typed) ==
    \A i \in DOMAIN q : <<q[i].pct, now>> \in typed \/ q[i].pct = (IF i = 1 THEN pct ELSE q[i - 1].pct)

WorthTyped ==
    /\ shows = [t \in GoalTabs |-> shows[t]] /\ saving = [t \in GoalTabs |-> saving[t]]
    /\ read = [t \in GoalTabs |-> read[t]] /\ back = [t \in GoalTabs |-> back[t]]
    /\ crossed \in BOOLEAN /\ day \in Int

\* One tab's part, and the Setting's, while no draft was sent from a page it had left.
TabSettled(p, q, r) ==
    /\ PanelSettled(p, q) /\ ReturnsTyped(q, goal.pct, day, typedOn)
    /\ r # Unmeasured => r = goal
Alone == \A t, u \in GoalTabs : saving[t] # <<>> /\ saving[u] # <<>> => t = u

WorthInv ==
    /\ WorthTyped
    /\ \A t \in GoalTabs : SaveUnderWay(saving[t], read[t], back[t]) /\ Panel(shows[t])
    /\ accepts(draftOf(goal)) /\ Dated(goal)
    /\ ~crossed => /\ Alone /\ \A t \in GoalTabs : TabSettled(shows[t], saving[t], read[t])
                   /\ goal.pct > 0 => <<goal.pct, goal.setOn>> \in typedOn

LEMMA InitWorth == WorthGoalInit => WorthInv
  <1> SUFFICES ASSUME WorthGoalInit PROVE WorthInv
    OBVIOUS
  <1> USE DEF WorthGoalInit
  <1> DEFINE first == [draft |-> draftOf(FirstGoal), setOn |-> FirstGoal.setOn,
                       saved |-> draftOf(FirstGoal), failed |-> FALSE, seen |-> FirstMonths]
  <1>1. WorthTyped
    BY WorthGoalAssumption DEF WorthTyped
  <1>2. accepts(draftOf(goal)) /\ Dated(goal) /\ <<goal.pct, goal.setOn>> \in typedOn
    BY WorthGoalAssumption DEF Dated
  <1>3. Panel(first) /\ first.draft = first.saved
    BY DEF Panel, IsDraft, draftOf
  <1>4. Queue(<<>>) /\ DOMAIN <<>> = {}
    BY EmptySeq DEF Queue
  <1>5. ASSUME NEW t \in GoalTabs
        PROVE  /\ SaveUnderWay(saving[t], read[t], back[t]) /\ Panel(shows[t])
               /\ TabSettled(shows[t], saving[t], read[t]) /\ saving[t] = <<>>
    <2>1. shows[t] = first /\ saving[t] = <<>> /\ read[t] = Unmeasured /\ back[t] = Unmeasured
      OBVIOUS
    <2> HIDE DEF first
    <2> QED
      BY <1>3, <1>4, <2>1 DEF SaveUnderWay, TabSettled, PanelSettled, ReturnsTyped
  <1>6. Alone
    BY <1>5 DEF Alone
  <1> QED
    BY <1>1, <1>2, <1>5, <1>6 DEF WorthInv

\* What is behind a queue, and what is left of it, in its order.
LEMMA QueueOrder ==
  ASSUME NEW s, Queue(s), NEW e
  PROVE  /\ Len(s) \in Nat /\ DOMAIN s = 1..Len(s) /\ (s # <<>> => Len(s) > 0 /\ Head(s) = s[1])
         /\ Len(Append(s, e)) = Len(s) + 1 /\ DOMAIN Append(s, e) = 1..Len(s) + 1
         /\ \A i \in 1..Len(s) : Append(s, e)[i] = s[i]
         /\ Append(s, e)[Len(s) + 1] = e
         /\ s # <<>> => /\ Len(Tail(s)) = Len(s) - 1 /\ DOMAIN Tail(s) = 1..Len(s) - 1
                        /\ \A i \in 1..Len(s) - 1 : Tail(s)[i] = s[i + 1]
  <1> DEFINE S == Range(s) \union {e}
  <1>1. s \in Seq(S) /\ e \in S
    <2>1. s \in Seq(Range(s)) /\ Range(s) \subseteq S
      BY DEF Queue
    <2>2. s \in [1..Len(s) -> Range(s)] /\ Len(s) \in Nat
      BY <2>1, LenProperties
    <2>3. s \in [1..Len(s) -> S]
      BY <2>1, <2>2
    <2> QED
      BY <2>2, <2>3, SeqDef
  <1> HIDE DEF S
  <1>2. Len(s) \in Nat /\ DOMAIN s = 1..Len(s) /\ (s # <<>> => Len(s) > 0 /\ Head(s) = s[1])
    BY <1>1
  <1>3. /\ Len(Append(s, e)) = Len(s) + 1 /\ DOMAIN Append(s, e) = 1..Len(s) + 1
        /\ \A i \in 1..Len(s) : Append(s, e)[i] = s[i]
        /\ Append(s, e)[Len(s) + 1] = e
    BY <1>1
  <1>4. ASSUME s # <<>>
        PROVE  /\ Len(Tail(s)) = Len(s) - 1 /\ DOMAIN Tail(s) = 1..Len(s) - 1
               /\ \A i \in 1..Len(s) - 1 : Tail(s)[i] = s[i + 1]
    BY <1>1, <1>4
  <1> QED
    BY <1>2, <1>3, <1>4

\* What one tab does leaves the others' parts as they were.
LEMMA PanelMoves ==
  ASSUME WorthInv, WorthTyped', NEW t \in GoalTabs,
         \A u \in GoalTabs \ {t} : /\ shows'[u] = shows[u] /\ saving'[u] = saving[u]
                                   /\ read'[u] = read[u] /\ back'[u] = back[u],
         UNCHANGED <<goal, day>>, typedOn \subseteq typedOn',
         SaveUnderWay(saving'[t], read'[t], back'[t]), Panel(shows'[t]),
         ~crossed' => /\ ~crossed /\ TabSettled(shows[t], saving[t], read[t])'
                      /\ saving'[t] = <<>> \/ saving[t] # <<>> \/ \A u \in GoalTabs \ {t} : saving[u] = <<>>
  PROVE  WorthInv'
  <1>1. ASSUME NEW u \in GoalTabs, u # t
        PROVE  /\ SaveUnderWay(saving'[u], read'[u], back'[u]) /\ Panel(shows'[u])
               /\ ~crossed' => TabSettled(shows[u], saving[u], read[u])'
    <2>1. shows'[u] = shows[u] /\ saving'[u] = saving[u] /\ read'[u] = read[u] /\ back'[u] = back[u]
      BY <1>1
    <2>2. SaveUnderWay(saving[u], read[u], back[u]) /\ Panel(shows[u]) /\ (~crossed => TabSettled(shows[u], saving[u], read[u]))
      BY DEF WorthInv
    <2>3. ~crossed' => TabSettled(shows[u], saving[u], read[u])'
      BY <2>1, <2>2 DEF TabSettled, ReturnsTyped
    <2> QED
      BY <2>1, <2>2, <2>3
  <1>2. ASSUME ~crossed' PROVE Alone'
    <2>1. \A u \in GoalTabs \ {t} : saving'[u] = saving[u]
      OBVIOUS
    <2>2. Alone
      BY <1>2 DEF WorthInv
    <2> QED
      BY <1>2, <2>1, <2>2 DEF Alone
  <1>3. ASSUME ~crossed' PROVE goal'.pct > 0 => <<goal'.pct, goal'.setOn>> \in typedOn'
    BY <1>3 DEF WorthInv
  <1>4. accepts(draftOf(goal')) /\ Dated(goal')
    BY DEF WorthInv
  <1>5. \A u \in GoalTabs : SaveUnderWay(saving'[u], read'[u], back'[u]) /\ Panel(shows'[u])
    BY <1>1
  <1>6. ASSUME ~crossed' PROVE \A u \in GoalTabs : TabSettled(shows[u], saving[u], read[u])'
    BY <1>1, <1>6
  <1> QED
    BY <1>2, <1>3, <1>4, <1>5, <1>6 DEF WorthInv

\* A control that settles shows what it sends, or what is known saved.
LEMMA DraftSent ==
  ASSUME WorthInv, NEW t \in GoalTabs, NEW draft, IsDraft(draft), saveGoal(t, draft), settles,
         typedOn \subseteq typedOn', draft.pct = shows[t].draft.pct \/ <<draft.pct, day>> \in typedOn'
  PROVE  WorthInv'
  <1> DEFINE p == shows[t]
             q == saving[t]
             behind == p.saved # draftOf(goal) \/ p.draft # draftOf(goal)
             others == \E u \in GoalTabs \ {t} : saving[u] # <<>>
             skips == draft = p.saved
  <1>1. /\ shows' = [shows EXCEPT ![t].draft = draft, ![t].failed = IF skips THEN @ ELSE FALSE]
        /\ saving' = [saving EXCEPT ![t] = IF skips THEN @ ELSE Append(@, draft)]
        /\ crossed' = (crossed \/ others \/ (skips /\ q # <<>>) \/ (behind /\ q = <<>>))
    BY DEF saveGoal
  <1>2. UNCHANGED <<goal, day, read, back>>
    BY DEF settles
  <1>3. WorthTyped /\ Panel(p) /\ SaveUnderWay(q, read[t], back[t]) /\ Queue(q)
    BY DEF WorthInv, SaveUnderWay
  <1> HIDE DEF behind, others, skips
  <1>4. others \in BOOLEAN /\ skips \in BOOLEAN /\ behind \in BOOLEAN
    BY DEF others, skips, behind
  <1>5. WorthTyped'
    BY <1>1, <1>2, <1>3, <1>4 DEF WorthTyped
  <1>6. \A u \in GoalTabs \ {t} : /\ shows'[u] = shows[u] /\ saving'[u] = saving[u]
                                  /\ read'[u] = read[u] /\ back'[u] = back[u]
    BY <1>1, <1>2, <1>3 DEF WorthTyped
  <1>7. shows'[t] = [p EXCEPT !.draft = draft, !.failed = IF skips THEN @ ELSE FALSE]
    BY <1>1, <1>3 DEF WorthTyped
  <1>8. /\ Panel(shows'[t]) /\ shows'[t].draft = draft /\ shows'[t].saved = p.saved
        /\ shows'[t].failed = IF skips THEN p.failed ELSE FALSE
    BY <1>3, <1>4, <1>7 DEF Panel
  <1>9. saving'[t] = IF skips THEN q ELSE Append(q, draft)
    BY <1>1, <1>3 DEF WorthTyped
  <1>10. /\ Queue(Append(q, draft)) /\ Append(q, draft) # <<>> /\ (q # <<>> => Head(Append(q, draft)) = Head(q))
         /\ Len(q) \in Nat /\ DOMAIN q = 1..Len(q) /\ (q # <<>> => Len(q) > 0)
         /\ Len(Append(q, draft)) = Len(q) + 1 /\ DOMAIN Append(q, draft) = 1..Len(q) + 1
         /\ \A i \in 1..Len(q) : Append(q, draft)[i] = q[i]
         /\ Append(q, draft)[Len(q) + 1] = draft
    BY <1>3, QueueGrows, QueueOrder
  <1>11. SaveUnderWay(saving'[t], read'[t], back'[t])
    <2>1. \A i \in DOMAIN Append(q, draft) : IsDraft(Append(q, draft)[i])
      <3> SUFFICES ASSUME NEW i \in DOMAIN Append(q, draft) PROVE IsDraft(Append(q, draft)[i])
        OBVIOUS
      <3>1. i \in 1..Len(q) \/ i = Len(q) + 1
        BY <1>10
      <3>2. \A k \in 1..Len(q) : IsDraft(q[k])
        BY <1>3, <1>10 DEF SaveUnderWay
      <3> QED
        BY <1>10, <3>1, <3>2
    <2>2. SaveUnderWay(Append(q, draft), read[t], back[t])
      BY <1>3, <1>10, <2>1 DEF SaveUnderWay
    <2>3. read'[t] = read[t] /\ back'[t] = back[t]
      BY <1>2
    <2> QED
      BY <1>3, <1>9, <2>2, <2>3
  <1>12. ASSUME ~crossed'
         PROVE  ~crossed /\ (\A u \in GoalTabs \ {t} : saving[u] = <<>>) /\ TabSettled(shows[t], saving[t], read[t])'
    <2>1. ~crossed /\ ~others /\ ~(skips /\ q # <<>>) /\ ~(behind /\ q = <<>>)
      BY <1>1, <1>3, <1>4, <1>12 DEF WorthTyped
    <2>2. TabSettled(p, q, read[t])
      BY <2>1 DEF WorthInv
    <2>3. PanelSettled(shows'[t], saving'[t])
      <3>1. CASE skips
        <4>1. q = <<>> /\ draft = p.saved
          BY <2>1, <3>1 DEF skips
        <4> QED
          BY <1>8, <1>9, <3>1, <4>1 DEF PanelSettled
      <3>2. CASE ~skips
        BY <1>8, <1>9, <1>10, <3>2 DEF PanelSettled
      <3> QED
        BY <3>1, <3>2
    <2>4. ReturnsTyped(q, goal.pct, day, typedOn')
      BY <2>2 DEF TabSettled, ReturnsTyped
    <2>5. ReturnsTyped(Append(q, draft), goal.pct, day, typedOn')
      <3> SUFFICES ASSUME NEW i \in 1..Len(q) + 1
                   PROVE  \/ <<Append(q, draft)[i].pct, day>> \in typedOn'
                          \/ Append(q, draft)[i].pct = (IF i = 1 THEN goal.pct ELSE Append(q, draft)[i - 1].pct)
        BY <1>10 DEF ReturnsTyped
      <3>1. CASE i \in 1..Len(q)
        <4>1. Append(q, draft)[i] = q[i] /\ (i # 1 => i - 1 \in 1..Len(q) /\ Append(q, draft)[i - 1] = q[i - 1])
          BY <1>10, <3>1
        <4> QED
          BY <1>10, <2>4, <3>1, <4>1 DEF ReturnsTyped
      <3>2. CASE i = Len(q) + 1
        <4>1. Append(q, draft)[i] = draft
          BY <1>10, <3>2
        <4>2. SUFFICES ASSUME draft.pct = p.draft.pct
                       PROVE  draft.pct = (IF i = 1 THEN goal.pct ELSE Append(q, draft)[i - 1].pct)
          BY <4>1
        <4>3. CASE q = <<>>
          <5>1. Len(q) = 0
            BY <4>3
          <5>2. p.draft = draftOf(goal)
            BY <2>1, <4>3 DEF behind
          <5> QED
            BY <3>2, <4>2, <5>1, <5>2 DEF draftOf
        <4>4. CASE q # <<>>
          <5>1. p.draft = q[Len(q)] /\ i - 1 = Len(q) /\ i # 1 /\ Len(q) \in 1..Len(q)
            BY <1>10, <2>2, <3>2, <4>4 DEF TabSettled, PanelSettled
          <5>2. Append(q, draft)[i - 1] = p.draft
            BY <1>10, <5>1
          <5> QED
            BY <4>2, <5>1, <5>2
        <4> QED
          BY <4>3, <4>4
      <3> QED
        BY <1>10, <3>1, <3>2
    <2>6. TabSettled(shows[t], saving[t], read[t])'
      <3>1. ReturnsTyped(saving'[t], goal.pct, day, typedOn')
        BY <1>9, <2>4, <2>5
      <3> QED
        BY <1>2, <2>2, <2>3, <3>1 DEF TabSettled
    <2> QED
      BY <2>1, <2>6 DEF others
  <1> QED
    BY <1>2, <1>5, <1>6, <1>8, <1>11, <1>12, PanelMoves

LEMMA FieldRefused ==
  ASSUME WorthInv, NEW t \in GoalTabs, refuseField(t), settles, UNCHANGED typedOn
  PROVE  WorthInv'
  <1>1. /\ shows' = [shows EXCEPT ![t].failed = TRUE]
        /\ UNCHANGED <<saving, crossed, goal, day, read, back, typedOn>>
    BY DEF refuseField, settles
  <1>2. WorthTyped /\ Panel(shows[t]) /\ SaveUnderWay(saving[t], read[t], back[t])
    BY DEF WorthInv
  <1>3. WorthTyped' /\ shows'[t] = [shows[t] EXCEPT !.failed = TRUE] /\ \A u \in GoalTabs \ {t} : shows'[u] = shows[u]
    BY <1>1, <1>2 DEF WorthTyped
  <1>4. Panel(shows'[t]) /\ shows'[t].failed /\ shows'[t].draft = shows[t].draft
    BY <1>2, <1>3 DEF Panel
  <1>5. ASSUME ~crossed' PROVE ~crossed /\ TabSettled(shows[t], saving[t], read[t])'
    <2>1. ~crossed /\ TabSettled(shows[t], saving[t], read[t])
      BY <1>1, <1>5 DEF WorthInv
    <2>2. PanelSettled(shows'[t], saving'[t])
      BY <1>1, <1>4, <2>1 DEF TabSettled, PanelSettled
    <2> QED
      BY <1>1, <2>1, <2>2 DEF TabSettled, ReturnsTyped
  <1> QED
    BY <1>1, <1>2, <1>3, <1>4, <1>5, PanelMoves

LEMMA CommitsSafe ==
  ASSUME WorthInv, NEW t \in GoalTabs,
         \/ \E v \in Targets : CommitTarget(t, v)
         \/ \E v \in Returns : CommitReturn(t, v)
         \/ \E v \in Monthly : CommitInvest(t, v) \/ CommitGoalPace(t, v)
         \/ UseMeasuredDeposit(t) \/ UseMeasuredPace(t)
  PROVE  WorthInv'
  <1> DEFINE d == shows[t].draft
  <1>1. IsDraft(d) /\ settles
    BY DEF WorthInv, Panel, CommitTarget, CommitReturn, CommitInvest, CommitGoalPace, UseMeasuredDeposit, UseMeasuredPace
  <1>2. \/ refuseField(t) /\ typedOn' = typedOn
        \/ \E x : saveGoal(t, [d EXCEPT !.target = x]) /\ typedOn' = typedOn
        \/ \E x : saveGoal(t, [d EXCEPT !.pct = x]) /\ typedOn' = typedOn \union {<<x, day>>}
        \/ \E x : saveGoal(t, [d EXCEPT !.pace = x]) /\ typedOn' = typedOn
        \/ \E x, y : saveGoal(t, [d EXCEPT !.invest = x, !.pace = y]) /\ typedOn' = typedOn
        \/ \E x : saveGoal(t, [d EXCEPT !.invest = x]) /\ typedOn' = typedOn
    <2>1. CASE \E v \in Targets : CommitTarget(t, v)
      BY <2>1 DEF CommitTarget
    <2>2. CASE \E v \in Returns : CommitReturn(t, v)
      BY <2>2 DEF CommitReturn
    <2>3. CASE \E v \in Monthly : CommitInvest(t, v)
      <3>1. PICK v \in Monthly : CommitInvest(t, v)
        BY <2>3
      <3>2. typedOn' = typedOn /\ (refuseField(t) \/ \E x, y : saveGoal(t, [d EXCEPT !.invest = x, !.pace = y]))
        <4> DEFINE next == IF measuredDeposit(t) = Unmeasured THEN v
                           ELSE IF sameFigure(v, measuredDeposit(t)) THEN Unmeasured ELSE v
                   raised == IF sameFigure(v, measuredPace(t)) THEN Unmeasured ELSE v
                   pace == IF v > shownPace(t) THEN raised ELSE d.pace
        <4>1. refuseField(t) \/ saveGoal(t, [d EXCEPT !.invest = next, !.pace = IF v > shownPace(t) THEN raised ELSE @])
          BY <3>1 DEF CommitInvest
        <4>2. [d EXCEPT !.invest = next, !.pace = IF v > shownPace(t) THEN raised ELSE @] = [d EXCEPT !.invest = next, !.pace = pace]
          OBVIOUS
        <4>3. refuseField(t) \/ saveGoal(t, [d EXCEPT !.invest = next, !.pace = pace])
          BY <4>1, <4>2
        <4>4. typedOn' = typedOn
          BY <3>1 DEF CommitInvest
        <4> HIDE DEF next, pace
        <4> QED
          BY <4>3, <4>4
      <3> QED
        BY <3>2
    <2>4. CASE \E v \in Monthly : CommitGoalPace(t, v)
      BY <2>4 DEF CommitGoalPace
    <2>5. CASE UseMeasuredDeposit(t)
      BY <2>5 DEF UseMeasuredDeposit
    <2>6. CASE UseMeasuredPace(t)
      BY <2>6 DEF UseMeasuredPace
    <2> QED
      BY <2>1, <2>2, <2>3, <2>4, <2>5, <2>6
  <1>3. ASSUME NEW x, NEW y
        PROVE  /\ IsDraft([d EXCEPT !.target = x]) /\ [d EXCEPT !.target = x].pct = d.pct
               /\ IsDraft([d EXCEPT !.pct = x]) /\ [d EXCEPT !.pct = x].pct = x
               /\ IsDraft([d EXCEPT !.pace = x]) /\ [d EXCEPT !.pace = x].pct = d.pct
               /\ IsDraft([d EXCEPT !.invest = x]) /\ [d EXCEPT !.invest = x].pct = d.pct
               /\ IsDraft([d EXCEPT !.invest = x, !.pace = y]) /\ [d EXCEPT !.invest = x, !.pace = y].pct = d.pct
    <2>1. IsDraft([d EXCEPT !.target = x]) /\ [d EXCEPT !.target = x].pct = d.pct
      BY <1>1 DEF IsDraft
    <2>2. IsDraft([d EXCEPT !.pct = x]) /\ [d EXCEPT !.pct = x].pct = x
      BY <1>1 DEF IsDraft
    <2>3. IsDraft([d EXCEPT !.pace = x]) /\ [d EXCEPT !.pace = x].pct = d.pct
      BY <1>1 DEF IsDraft
    <2>4. IsDraft([d EXCEPT !.invest = x]) /\ [d EXCEPT !.invest = x].pct = d.pct
      BY <1>1 DEF IsDraft
    <2>5. IsDraft([d EXCEPT !.invest = x, !.pace = y]) /\ [d EXCEPT !.invest = x, !.pace = y].pct = d.pct
      <3>1. d = [target |-> d.target, pct |-> d.pct, invest |-> d.invest, pace |-> d.pace]
        BY <1>1 DEF IsDraft
      <3> HIDE DEF d
      <3>2. PICK e : e = [d EXCEPT !.invest = x, !.pace = y]
        OBVIOUS
      <3>3. e = [target |-> d.target, pct |-> d.pct, invest |-> x, pace |-> y]
        BY <3>1, <3>2
      <3>4. IsDraft(e) /\ e.pct = d.pct
        BY <3>3 DEF IsDraft
      <3> QED
        BY <3>2, <3>4, Zenon
    <2> QED
      BY <2>1, <2>2, <2>3, <2>4, <2>5
  <1>4. ASSUME NEW draft, IsDraft(draft), saveGoal(t, draft), typedOn \subseteq typedOn',
               draft.pct = d.pct \/ <<draft.pct, day>> \in typedOn'
        PROVE  WorthInv'
    BY <1>1, <1>4, DraftSent
  <1> HIDE DEF d
  <1> QED
    BY <1>1, <1>2, <1>3, <1>4, FieldRefused

LEMMA ReadGoalSafe == ASSUME WorthInv, NEW t \in GoalTabs, ReadGoal(t) PROVE WorthInv'
  <1> DEFINE no == [ok |-> FALSE]
  <1>1. /\ saving[t] # <<>> /\ read[t] = Unmeasured /\ back[t] = Unmeasured
        /\ UNCHANGED <<goal, day, shows, saving, typedOn, crossed>>
        /\ \/ accepts(Head(saving[t])) /\ read' = [read EXCEPT ![t] = goal] /\ back' = back
           \/ back' = [back EXCEPT ![t] = no] /\ read' = read
    BY DEF ReadGoal
  <1>2. WorthTyped /\ Panel(shows[t]) /\ SaveUnderWay(saving[t], read[t], back[t]) /\ Dated(goal)
    BY DEF WorthInv
  <1>3. ~no.ok
    OBVIOUS
  <1> HIDE DEF no
  <1>4. /\ WorthTyped' /\ \A u \in GoalTabs \ {t} : read'[u] = read[u] /\ back'[u] = back[u]
        /\ \/ accepts(Head(saving[t])) /\ read'[t] = goal /\ back'[t] = Unmeasured
           \/ back'[t] = no /\ read'[t] = Unmeasured
    BY <1>1, <1>2 DEF WorthTyped
  <1>5. SaveUnderWay(saving'[t], read'[t], back'[t])
    BY <1>1, <1>2, <1>3, <1>4 DEF SaveUnderWay
  <1>6. ASSUME ~crossed' PROVE ~crossed /\ TabSettled(shows[t], saving[t], read[t])'
    <2>1. ~crossed /\ TabSettled(shows[t], saving[t], read[t])
      BY <1>1, <1>6 DEF WorthInv
    <2> QED
      BY <1>1, <1>4, <2>1 DEF TabSettled, ReturnsTyped
  <1> QED
    BY <1>1, <1>2, <1>4, <1>5, <1>6, PanelMoves

LEMMA AnswerTaken ==
  ASSUME WorthInv, NEW t \in GoalTabs, ReadAnswer(t) \/ CallFails(t)
  PROVE  WorthInv'
  <1> DEFINE p == shows[t]
             q == saving[t]
  <1>1. WorthTyped /\ Panel(p) /\ SaveUnderWay(q, read[t], back[t]) /\ Queue(q)
    BY DEF WorthInv, SaveUnderWay
  <1>2. /\ q # <<>> /\ read[t] = Unmeasured
        /\ saving' = [saving EXCEPT ![t] = Tail(@)] /\ back' = [back EXCEPT ![t] = Unmeasured]
        /\ UNCHANGED <<goal, day, read, typedOn, crossed>>
    BY <1>1 DEF ReadAnswer, CallFails, SaveUnderWay
  <1>3. \/ shows' = [shows EXCEPT ![t].failed = TRUE]
        \/ /\ back[t].ok /\ back[t] # Unmeasured
           /\ shows' = [shows EXCEPT ![t] = [@ EXCEPT !.saved = draftOf(back[t].goal), !.setOn = back[t].goal.setOn,
                                                      !.seen = back[t].seen]]
    BY DEF ReadAnswer, CallFails
  <1>4. /\ saving'[t] = Tail(q) /\ back'[t] = Unmeasured /\ read'[t] = Unmeasured
        /\ \A u \in GoalTabs \ {t} : /\ shows'[u] = shows[u] /\ saving'[u] = saving[u]
                                     /\ read'[u] = read[u] /\ back'[u] = back[u]
        /\ WorthTyped'
    <2>1. saving'[t] = Tail(q) /\ back'[t] = Unmeasured /\ read'[t] = Unmeasured
      BY <1>1, <1>2 DEF WorthTyped
    <2>2. \A u \in GoalTabs \ {t} : /\ shows'[u] = shows[u] /\ saving'[u] = saving[u]
                                    /\ read'[u] = read[u] /\ back'[u] = back[u]
      BY <1>1, <1>2, <1>3 DEF WorthTyped
    <2>3. shows' = [u \in GoalTabs |-> shows'[u]]
      BY <1>1, <1>3 DEF WorthTyped
    <2>4. WorthTyped'
      BY <1>1, <1>2, <2>3 DEF WorthTyped
    <2> QED
      BY <2>1, <2>2, <2>4
  <1>5. \/ shows'[t] = [p EXCEPT !.failed = TRUE]
        \/ /\ back[t].ok /\ back[t] # Unmeasured
           /\ shows'[t] = [p EXCEPT !.saved = draftOf(back[t].goal), !.setOn = back[t].goal.setOn, !.seen = back[t].seen]
    BY <1>1, <1>3 DEF WorthTyped
  <1>6. /\ Panel(shows'[t]) /\ shows'[t].draft = p.draft
        /\ shows'[t].failed \/ shows'[t].saved = Head(q)
    BY <1>1, <1>5 DEF Panel, SaveUnderWay
  <1>7. /\ Queue(Tail(q)) /\ (Len(q) = 1 => Tail(q) = <<>>) /\ Len(q) \in Nat /\ Len(q) > 0 /\ Head(q) = q[1]
        /\ DOMAIN q = 1..Len(q) /\ Len(Tail(q)) = Len(q) - 1 /\ DOMAIN Tail(q) = 1..Len(q) - 1
        /\ \A i \in 1..Len(q) - 1 : Tail(q)[i] = q[i + 1]
    BY <1>1, <1>2, QueueShrinks, QueueOrder
  <1>8. SaveUnderWay(saving'[t], read'[t], back'[t])
    <2>1. \A i \in DOMAIN Tail(q) : IsDraft(Tail(q)[i])
      <3> SUFFICES ASSUME NEW i \in 1..Len(q) - 1 PROVE IsDraft(Tail(q)[i])
        BY <1>7
      <3>1. i + 1 \in DOMAIN q /\ Tail(q)[i] = q[i + 1]
        BY <1>7
      <3> QED
        BY <1>1, <3>1 DEF SaveUnderWay
    <2> QED
      BY <1>4, <1>7, <2>1 DEF SaveUnderWay
  <1>9. ASSUME ~crossed' PROVE ~crossed /\ TabSettled(shows[t], saving[t], read[t])'
    <2>1. ~crossed /\ TabSettled(p, q, read[t])
      BY <1>2, <1>9 DEF WorthInv
    <2>2. p.draft = q[Len(q)]
      BY <1>2, <2>1 DEF TabSettled, PanelSettled
    <2>3. PanelSettled(shows'[t], Tail(q))
      <3>1. CASE Len(q) = 1
        BY <1>6, <1>7, <2>2, <3>1 DEF PanelSettled
      <3>2. CASE Len(q) # 1
        <4>1. Tail(q)[Len(q) - 1] = q[Len(q)]
          <5>1. Len(q) \in Nat /\ Len(q) > 0
            BY <1>7
          <5>2. Len(q) - 1 \in 1..Len(q) - 1 /\ (Len(q) - 1) + 1 = Len(q)
            <6>1. \A n \in Nat : n > 0 /\ n # 1 => n - 1 \in 1..n - 1 /\ (n - 1) + 1 = n
              OBVIOUS
            <6> QED
              BY <3>2, <5>1, <6>1, Zenon
          <5>3. Tail(q)[Len(q) - 1] = q[(Len(q) - 1) + 1]
            BY <1>7, <5>2
          <5> QED
            BY <5>2, <5>3, Zenon
        <4>2. Tail(q) # <<>>
          <5>1. SUFFICES ASSUME Tail(q) = <<>> PROVE FALSE
            OBVIOUS
          <5>2. Len(<<>>) = 0
            OBVIOUS
          <5>3. Len(Tail(q)) = Len(<<>>)
            BY <5>1, Zenon
          <5>4. Len(Tail(q)) = Len(q) - 1
            BY <1>7
          <5>5. Len(q) - 1 = 0
            BY <5>2, <5>3, <5>4, Zenon
          <5>6. Len(q) \in Nat
            BY <1>7
          <5> HIDE DEF q
          <5> QED
            BY <3>2, <5>5, <5>6
        <4> QED
          BY <1>6, <1>7, <2>2, <4>1, <4>2 DEF PanelSettled
      <3> QED
        BY <3>1, <3>2
    <2>4. ReturnsTyped(Tail(q), goal.pct, day, typedOn)
      <3> SUFFICES ASSUME NEW i \in 1..Len(q) - 1
                   PROVE  \/ <<Tail(q)[i].pct, day>> \in typedOn
                          \/ Tail(q)[i].pct = (IF i = 1 THEN goal.pct ELSE Tail(q)[i - 1].pct)
        BY <1>7 DEF ReturnsTyped
      <3>1. /\ Tail(q)[i] = q[i + 1] /\ i + 1 \in 1..Len(q) /\ i + 1 # 1 /\ (i + 1) - 1 = i /\ i \in 1..Len(q)
            /\ i # 1 => Tail(q)[i - 1] = q[i]
        BY <1>7
      <3>2. <<q[i + 1].pct, day>> \in typedOn \/ q[i + 1].pct = q[i].pct
        BY <1>7, <2>1, <3>1 DEF TabSettled, ReturnsTyped
      <3>3. i = 1 => <<q[i].pct, day>> \in typedOn \/ q[i].pct = goal.pct
        BY <1>7, <2>1, <3>1 DEF TabSettled, ReturnsTyped
      <3> QED
        BY <3>1, <3>2, <3>3
    <2> QED
      BY <1>2, <1>4, <2>1, <2>3, <2>4 DEF TabSettled
  <1> QED
    BY <1>2, <1>4, <1>6, <1>8, <1>9, PanelMoves

LEMMA WriteGoalSafe == ASSUME WorthInv, NEW t \in GoalTabs, WriteGoal(t) PROVE WorthInv'
  <1> DEFINE q == saving[t]
             d == Head(q)
             next == nextNetWorthGoal(read[t], d, day)
             yes == [ok |-> TRUE, goal |-> next, seen |-> complete]
  <1>1. /\ read[t] # Unmeasured /\ goal' = next
        /\ back' = [back EXCEPT ![t] = yes] /\ read' = [read EXCEPT ![t] = Unmeasured]
        /\ UNCHANGED <<day, shows, saving, typedOn, crossed>>
    BY DEF WriteGoal
  <1>2. WorthTyped /\ Panel(shows[t]) /\ SaveUnderWay(q, read[t], back[t])
    BY DEF WorthInv
  <1>3. q # <<>> /\ Queue(q) /\ accepts(d) /\ Dated(read[t]) /\ IsDraft(d) /\ d = q[1] /\ 1 \in DOMAIN q
    <2>1. q # <<>> /\ Queue(q) /\ accepts(d) /\ Dated(read[t]) /\ \A i \in DOMAIN q : IsDraft(q[i])
      BY <1>1, <1>2 DEF SaveUnderWay
    <2>2. Len(q) \in Nat /\ DOMAIN q = 1..Len(q) /\ Len(q) > 0 /\ d = q[1]
      BY <2>1, QueueOrder
    <2> QED
      BY <2>1, <2>2
  <1> HIDE DEF d
  <1>4. /\ draftOf(next) = d /\ next.pct = d.pct
        /\ next.setOn = IF d.pct = 0 THEN NoDate ELSE IF d.pct = read[t].pct THEN read[t].setOn ELSE day
    BY <1>3 DEF nextNetWorthGoal, draftOf, IsDraft
  <1>5. yes.ok /\ yes.goal = next
    OBVIOUS
  <1> HIDE DEF next, yes
  <1>6. Dated(next)
    BY <1>2, <1>3, <1>4, WorthGoalAssumption DEF Dated, WorthTyped
  <1>7. WorthTyped' /\ \A u \in GoalTabs : /\ read'[u] = IF u = t THEN Unmeasured ELSE read[u]
                                           /\ back'[u] = IF u = t THEN yes ELSE back[u]
    BY <1>1, <1>2 DEF WorthTyped
  <1>8. \A u \in GoalTabs : SaveUnderWay(saving'[u], read'[u], back'[u]) /\ Panel(shows'[u])
    <2>1. SaveUnderWay(q, Unmeasured, yes)
      BY <1>2, <1>3, <1>4, <1>5 DEF SaveUnderWay, d
    <2> QED
      BY <1>1, <1>7, <2>1 DEF WorthInv
  <1>9. accepts(draftOf(goal')) /\ Dated(goal')
    BY <1>1, <1>3, <1>4, <1>6
  <1>10. ASSUME ~crossed'
         PROVE  /\ Alone' /\ \A u \in GoalTabs : TabSettled(shows[u], saving[u], read[u])'
                /\ goal'.pct > 0 => <<goal'.pct, goal'.setOn>> \in typedOn'
    <2>1. ~crossed /\ Alone
      BY <1>1, <1>10 DEF WorthInv
    <2>2. TabSettled(shows[t], q, read[t]) /\ read[t] = goal /\ (goal.pct > 0 => <<goal.pct, goal.setOn>> \in typedOn)
      BY <1>1, <2>1 DEF WorthInv, TabSettled
    <2>3. <<d.pct, day>> \in typedOn \/ d.pct = goal.pct
      BY <1>3, <2>2 DEF TabSettled, ReturnsTyped
    <2>4. goal'.pct > 0 => <<goal'.pct, goal'.setOn>> \in typedOn'
      BY <1>1, <1>4, <2>2, <2>3
    <2>5. ASSUME NEW u \in GoalTabs PROVE TabSettled(shows[u], saving[u], read[u])'
      <3>1. TabSettled(shows[u], saving[u], read[u]) /\ shows'[u] = shows[u] /\ saving'[u] = saving[u]
        BY <1>1, <2>1 DEF WorthInv
      <3>2. CASE u = t
        <4>1. ReturnsTyped(q, goal'.pct, day, typedOn)
          BY <1>1, <1>3, <1>4, <2>2 DEF TabSettled, ReturnsTyped
        <4> QED
          BY <1>1, <1>7, <3>1, <3>2, <4>1 DEF TabSettled
      <3>3. CASE u # t
        <4>1. saving[u] = <<>>
          BY <1>3, <2>1, <3>3 DEF Alone
        <4>2. read[u] = Unmeasured
          BY <4>1 DEF WorthInv, SaveUnderWay
        <4>3. DOMAIN saving[u] = {}
          BY <4>1
        <4> QED
          BY <1>1, <1>7, <3>1, <3>3, <4>2, <4>3 DEF TabSettled, ReturnsTyped
      <3> QED
        BY <3>2, <3>3
    <2>6. Alone'
      BY <1>1, <2>1 DEF Alone
    <2> QED
      BY <2>4, <2>5, <2>6
  <1> QED
    BY <1>7, <1>8, <1>9, <1>10 DEF WorthInv

LEMMA DayPassesSafe == ASSUME WorthInv, DayPasses PROVE WorthInv'
  <1> DEFINE sent == UNION {ToSet(saving[t]) : t \in GoalTabs}
  <1>1. /\ day' = day + 1 /\ UNCHANGED <<goal, shows, saving, read, back, crossed>>
        /\ typedOn' = typedOn \union {<<e.pct, day + 1>> : e \in {f \in sent : <<f.pct, day>> \in typedOn}}
    BY DEF DayPasses
  <1>2. WorthTyped'
    BY <1>1 DEF WorthInv, WorthTyped
  <1>3. ASSUME NEW t \in GoalTabs, TabSettled(shows[t], saving[t], read[t])
        PROVE  TabSettled(shows[t], saving[t], read[t])'
    <2>1. \A i \in DOMAIN saving[t] : saving[t][i] \in sent
      BY DEF ToSet
    <2> HIDE DEF sent
    <2>2. ReturnsTyped(saving[t], goal.pct, day', typedOn')
      <3> SUFFICES ASSUME NEW i \in DOMAIN saving[t]
                   PROVE  \/ <<saving[t][i].pct, day'>> \in typedOn'
                          \/ saving[t][i].pct = (IF i = 1 THEN goal.pct ELSE saving[t][i - 1].pct)
        BY DEF ReturnsTyped
      <3>1. <<saving[t][i].pct, day>> \in typedOn => <<saving[t][i].pct, day'>> \in typedOn'
        BY <1>1, <2>1
      <3> QED
        BY <1>3, <3>1 DEF TabSettled, ReturnsTyped
    <2> QED
      BY <1>1, <1>3, <2>2 DEF TabSettled
  <1>4. typedOn \subseteq typedOn'
    BY <1>1
  <1> HIDE DEF sent
  <1> QED
    BY <1>1, <1>2, <1>3, <1>4 DEF WorthInv, Alone

LEMMA WorthStep == ASSUME WorthInv, [WorthGoalNext]_gvars PROVE WorthInv'
  <1>1. CASE UNCHANGED gvars \/ MonthCloses
    <2>1. UNCHANGED <<goal, day, shows, saving, read, back, typedOn, crossed>>
      BY <1>1 DEF gvars, MonthCloses
    <2> QED
      BY <2>1 DEF WorthInv, WorthTyped, Alone, TabSettled
  <1> QED
    BY <1>1, CommitsSafe, ReadGoalSafe, WriteGoalSafe, AnswerTaken, DayPassesSafe DEF WorthGoalNext

\* For any number of tabs and any drafts, saves, refusals and lost answers,
\* interleaved: the goal stored is one that was accepted, with a day exactly
\* when it has a return; and while no draft was sent from a page the Setting
\* had left, a panel at rest shows what is stored, and the return's day is one
\* it was set on (NetWorthGoalPanel, saveNetWorthGoal, nextNetWorthGoal).
THEOREM GoalIsAsSet == WorthGoalSpec => [](SettledIsStored /\ GoalReadsBack)
  <1>1. ASSUME WorthInv PROVE SettledIsStored /\ GoalReadsBack
    <2>1. GoalReadsBack
      BY <1>1 DEF WorthInv, GoalReadsBack, Dated
    <2>2. ASSUME ~crossed, NEW t \in GoalTabs, saving[t] = <<>>, ~shows[t].failed, shows[t].saved = draftOf(goal)
          PROVE  shows[t].draft = draftOf(goal)
      BY <1>1, <2>2 DEF WorthInv, TabSettled, PanelSettled
    <2>3. ASSUME ~crossed, goal.pct > 0 PROVE <<goal.pct, goal.setOn>> \in typedOn
      BY <1>1, <2>3 DEF WorthInv
    <2>4. SettledIsStored
      BY <2>2, <2>3 DEF SettledIsStored
    <2> QED
      BY <2>1, <2>4
  <1> QED
    BY <1>1, InitWorth, WorthStep, PTL DEF WorthGoalSpec
=============================================================================
