------------------------------- MODULE Schema -------------------------------
(***************************************************************************)
(* How a database that already holds rows gets the schema of a newer       *)
(* checkout (scripts/push-schema.ts, schema-delta.ts) and how an empty one *)
(* gets its first (turso-push.ts).  The text of the DDL is its items: a    *)
(* table is what SQLite keeps of it, the items of its body in order; a     *)
(* column's item is its type as written, its constraint words and its      *)
(* default.  Two people may run the commands while the app writes rows,    *)
(* and a command may be stopped between any two calls it makes.            *)
(***************************************************************************)
EXTENDS Integers, FiniteSets, SequencesExt

CONSTANTS
    TableNames,
    Shipments,      \* what may ship: sequences of schemas as Prisma prints them
    FirstStored,    \* what sqlite_master may hold at first
    People,
    MaxRows,        \* [TableNames -> Nat]: rows of each table, counted up to here
    MaxByHand,      \* bound on rebuilds by hand
    MaxStopped,     \* bound on stopped commands
    Internal        \* bookkeeping tables of a tool

VARIABLES
    inDatabase,         \* sqlite_master: [tables, indexes]
    began,          \* what it held at first
    held,           \* [TableNames -> Nat]: rows
    doubles,        \* tables two of whose rows agree on every column
    shipped,        \* the schemas of the versions, in order
    checkout,       \* the version checked out
    push,           \* [People -> the command at work]
    lastSaid,           \* [People -> what the last command lastSaid]
    byHand, stopped

scvars == <<inDatabase, began, held, doubles, shipped, checkout, push, lastSaid, byHand, stopped>>

-----------------------------------------------------------------------------
(* Reading DDL. *)

\* An item that starts with a table constraint's word is no column.
isColumn(item) == "clauses" \in DOMAIN item

upper == [t \in {"TEXT", "text"} |-> "TEXT"]

parseColumn(item) ==
    [name |-> item.name, type |-> upper[item.type],
     notNull |-> "NOT NULL" \in item.clauses, primaryKey |-> "PRIMARY KEY" \in item.clauses,
     unique |-> "UNIQUE" \in item.clauses, references |-> "REFERENCES" \in item.clauses,
     defaultExpr |-> item.default]

parseCreateTable(t) ==
    [name |-> t.name, tail |-> t.tail,
     columns |-> {parseColumn(i) : i \in {j \in Range(t.items) : isColumn(j)}},
     constraints |-> {i \in Range(t.items) : ~isColumn(i)}]

parseSchemaSql(sql) ==
    [tables |-> {parseCreateTable(t) : t \in sql.tables}, indexes |-> sql.indexes]

isInternalTable(name) == name \in Internal

sameName(things, n) == {x \in things : x.name = n}
names(things) == {x.name : x \in things}

\* What there may be at first and what ships is DDL as SQLite keeps it: finitely
\* many tables and indexes, a table of each name, in it a column of each name,
\* and a column's item whole.  What ships has no tool's table, and an index of
\* each name, on columns of its table.
Clauses == {"NOT NULL", "PRIMARY KEY", "UNIQUE", "REFERENCES"}
ASSUME SchemaAssumption ==
    /\ \A s \in Shipments : s \in Seq(Range(s)) /\ s # <<>>
    /\ \A sql \in FirstStored \union (UNION {Range(s) : s \in Shipments}) :
          /\ sql = [tables |-> sql.tables, indexes |-> sql.indexes]
          /\ IsFiniteSet(sql.tables) /\ IsFiniteSet(sql.indexes)
          /\ \A t, u \in sql.tables : t.name = u.name => t = u
          /\ \A t \in sql.tables :
                /\ t = [name |-> t.name, items |-> t.items, tail |-> t.tail] /\ t.items \in Seq(Range(t.items))
                /\ \A i \in Range(t.items) : isColumn(i) =>
                      /\ i = [name |-> i.name, type |-> i.type, clauses |-> i.clauses, default |-> i.default]
                      /\ i.type \in DOMAIN upper /\ i.clauses \subseteq Clauses
                      /\ \A j \in Range(t.items) : isColumn(j) /\ i.name = j.name => i = j
    /\ \A sql \in UNION {Range(s) : s \in Shipments} :
          /\ \A t \in sql.tables : t.name \in TableNames /\ ~isInternalTable(t.name)
          /\ \A i, j \in sql.indexes : i.name = j.name => i = j
          /\ \A i \in sql.indexes : \E t \in sql.tables :
                t.name = i.table /\ i.columns \subseteq {c.name : c \in {k \in Range(t.items) : isColumn(k)}}

-----------------------------------------------------------------------------
(* The delta. *)

isConstantDefault(expr) == expr # "now"

\* whyCannotAdd: SQLite's own limits, as measured.
whyCannotAdd_RowBlind(column, count) == column.primaryKey \/ column.unique
whyCannotAdd(column, count) ==
    \/ column.primaryKey
    \/ column.unique
    \/ /\ count # 0
       /\ \/ column.notNull /\ column.defaultExpr = "none"
          \/ column.defaultExpr # "none" /\ ~isConstantDefault(column.defaultExpr)
          \/ column.references /\ column.defaultExpr \notin {"none", "NULL"}

columnDifference(want, have) ==
    \/ want.type # have.type
    \/ want.notNull # have.notNull
    \/ want.defaultExpr # have.defaultExpr
    \/ want.primaryKey # have.primaryKey
    \/ want.unique # have.unique

\* A column missing beside one unaccounted for may be a rename: not added.
columnChanges(want, have, count) ==
    LET missing == {c \in want.columns : c.name \notin names(have.columns)}
        extra == {c \in have.columns : c.name \notin names(want.columns)}
        addable == {c \in missing : extra = {} /\ ~whyCannotAdd(c, count)}
        differing == {c \in want.columns :
                        \E d \in sameName(have.columns, c.name) : columnDifference(c, d)}
    IN [changes |-> {[do |-> "add column", table |-> want.name, column |-> c] : c \in addable},
        refusals |-> {<<want.name, c.name>> : c \in (missing \ addable) \union extra \union differing}]

constraintRefusals(want, have) ==
    {<<want.name, c.constraint>> : c \in (want.constraints \ have.constraints)
                                        \union (have.constraints \ want.constraints)}
    \union (IF want.tail = have.tail THEN {} ELSE {<<want.name>>})

indexChanges(desired, actual) ==
    {[do |-> "create index", table |-> i.table, index |-> i]
       : i \in {j \in desired.indexes : j.name \notin names(actual.indexes)}}
    \union {[do |-> "replace index", table |-> i.table, index |-> i]
       : i \in {j \in desired.indexes : \E k \in sameName(actual.indexes, j.name) : j # k}}

diffSchema(desired, actual, counts) ==
    LET present == {t \in actual.tables : ~isInternalTable(t.name)}
        missing == {t \in desired.tables : t.name \notin names(present)}
        extra == {t \in present : t.name \notin names(desired.tables)}
        pairs == {p \in desired.tables \X present : p[1].name = p[2].name}
        columns == {columnChanges(p[1], p[2], counts[p[1].name]) : p \in pairs}
    IN [changes |-> {[do |-> "create table", table |-> t.name] : t \in missing}
                    \union (UNION {c.changes : c \in columns}) \union indexChanges(desired, actual),
        refusals |-> {<<t.name>> : t \in extra} \union (UNION {c.refusals : c \in columns})
                     \union UNION {constraintRefusals(p[1], p[2]) : p \in pairs}]

upToDate(delta) == delta.changes = {} /\ delta.refusals = {}

\* Tables, then columns, then indexes: a new index can land on a new column.
statementsOf(delta) ==
    LET ofKind(do) == SetToSeq({c \in delta.changes : c.do = do})
    IN ofKind("create table") \o ofKind("add column") \o ofKind("replace index") \o ofKind("create index")

-----------------------------------------------------------------------------
(* SQLite, and the statements of a plan made for a checkout's schema. *)

itemOf(sql, s) ==
    CHOOSE i \in Range((CHOOSE t \in sameName(sql.tables, s.table) : TRUE).items) :
        isColumn(i) /\ i.name = s.column.name

refusesColumn(db, s, item) ==
    \/ \A t \in sameName(db.tables, s.table) : \E i \in Range(t.items) : isColumn(i) /\ i.name = item.name
    \/ item.clauses \intersect {"PRIMARY KEY", "UNIQUE"} # {}
    \/ /\ held[s.table] > 0
       /\ \/ "NOT NULL" \in item.clauses /\ item.default = "none"
          \/ item.default = "now"
          \/ "REFERENCES" \in item.clauses /\ item.default = "const"

refusesIndex(db, index) ==
    \/ ~\E t \in sameName(db.tables, index.table) :
          index.columns \subseteq {i.name : i \in {j \in Range(t.items) : isColumn(j)}}
    \/ index.unique /\ index.table \in doubles

Failed == [tables |-> {}, indexes |-> {}, failed |-> TRUE]
isFailed(db) == "failed" \in DOMAIN db

execute(db, sql, s) ==
    CASE s.do = "create table" ->
            IF s.table \in names(db.tables) THEN db
            ELSE [db EXCEPT !.tables = @ \union sameName(sql.tables, s.table)]
      [] s.do = "add column" ->
            LET item == itemOf(sql, s) IN
            IF refusesColumn(db, s, item) THEN Failed
            ELSE [db EXCEPT !.tables = {IF t.name = s.table THEN [t EXCEPT !.items = Append(@, item)]
                                        ELSE t : t \in @}]
      [] s.do \in {"create index", "replace index"} ->
            LET kept == IF s.do = "replace index" THEN db.indexes \ sameName(db.indexes, s.index.name)
                        ELSE db.indexes
            IN IF s.index.name \in names(kept) THEN db
               ELSE IF refusesIndex(db, s.index) THEN Failed
               ELSE [db EXCEPT !.indexes = kept \union {s.index}]

\* client.batch: one transaction.
batch(db, sql, statements) ==
    FoldLeft(LAMBDA d, s : IF isFailed(d) THEN d ELSE execute(d, sql, s), db, statements)

-----------------------------------------------------------------------------
\* The schema a checkout asks for is the one a database has: every table with
\* its columns as declared, none more, its constraints, and the indexes.
ofColumn(item) == [item EXCEPT !.type = upper[@], !.clauses = @ \ {"REFERENCES"}]
shapeOfTable(t) ==
    <<t.name, t.tail, {ofColumn(i) : i \in {j \in Range(t.items) : isColumn(j)}},
      {i \in Range(t.items) : ~isColumn(i)}>>
Matches(sql, db) ==
    /\ {shapeOfTable(t) : t \in sql.tables}
         = {shapeOfTable(t) : t \in {u \in db.tables : u.name \notin Internal}}
    /\ sql.indexes \subseteq db.indexes

-----------------------------------------------------------------------------
NoSchema == [tables |-> {}, indexes |-> {}]
NoCommand == [at |-> "idle", want |-> 0, seen |-> NoSchema, counts |-> <<>>, plan |-> <<>>, alone |-> TRUE]
Silent == [says |-> "nothing", so |-> TRUE, alone |-> TRUE, unique |-> FALSE]

SchemaInit ==
    /\ inDatabase \in FirstStored /\ began = inDatabase
    /\ held = [t \in TableNames |-> 0] /\ doubles = {}
    /\ shipped \in Shipments /\ checkout = 1
    /\ push = [p \in People |-> NoCommand]
    /\ lastSaid = [p \in People |-> Silent]
    /\ byHand = 0 /\ stopped = 0

\* Whatever changes the database makes the plans at work no longer alone.
disturbed(but) == [q \in People |-> IF q \in but THEN push[q] ELSE [push[q] EXCEPT !.alone = FALSE]]

\* A unique index over rows there are is cautioned, not refused.
cautioned(s) == "index" \in DOMAIN s /\ s.index.unique /\ held[s.table] > 0

Says(p, what, seen) ==
    lastSaid' = [lastSaid EXCEPT ![p] =
        [says |-> what, alone |-> push[p].alone,
         so |-> what \in {"up to date", "verified"} => Matches(shipped[push[p].want], seen),
         unique |-> \E s \in Range(push[p].plan) : cautioned(s) /\ s.table \in doubles]]

GitPull ==
    /\ checkout < Len(shipped)
    /\ checkout' = checkout + 1
    /\ UNCHANGED <<inDatabase, began, held, doubles, push, lastSaid, byHand, stopped, shipped>>

\* The app inserts a row, perhaps one that agrees with another on the
\* columns a unique index would cover.
AppWrites(t, again) ==
    /\ t \in names(inDatabase.tables) /\ held[t] < MaxRows[t]
    /\ held' = [held EXCEPT ![t] = @ + 1]
    /\ again => held[t] > 0 /\ ~\E i \in inDatabase.indexes : i.table = t /\ i.unique
    /\ doubles' = IF again THEN doubles \union {t} ELSE doubles
    /\ push' = disturbed({})
    /\ UNCHANGED <<inDatabase, began, checkout, lastSaid, byHand, stopped, shipped>>

\* Somebody rebuilds a table by hand as the checkout has it.
RebuildByHand(t) ==
    /\ byHand < MaxByHand /\ byHand' = byHand + 1
    /\ t \in names(inDatabase.tables)
    /\ inDatabase' = [inDatabase EXCEPT !.tables =
                    (@ \ sameName(@, t)) \union sameName(shipped[checkout].tables, t)]
    /\ inDatabase' # inDatabase
    /\ push' = disturbed({})
    /\ UNCHANGED <<began, held, doubles, checkout, lastSaid, stopped, shipped>>

PushReads(p) ==
    /\ push[p].at = "idle"
    /\ IF inDatabase.tables = {}
       THEN /\ Says(p, "empty", inDatabase)
            /\ UNCHANGED push
       ELSE /\ push' = [push EXCEPT ![p] = [NoCommand EXCEPT !.at = "counting", !.want = checkout, !.seen = inDatabase]]
            /\ lastSaid' = [lastSaid EXCEPT ![p] = Silent]
    /\ UNCHANGED <<inDatabase, began, held, doubles, checkout, byHand, stopped, shipped>>

\* Rows counted, the delta taken and told; a dry run stops there.
PushPlans(p) ==
    /\ push[p].at = "counting"
    /\ LET want == shipped[push[p].want]
           delta == diffSchema(parseSchemaSql(want), parseSchemaSql(push[p].seen), held)
       IN CASE upToDate(delta) -> Says(p, "up to date", push[p].seen) /\ push' = [push EXCEPT ![p] = NoCommand]
            [] delta.refusals # {} -> Says(p, "refused", push[p].seen) /\ push' = [push EXCEPT ![p] = NoCommand]
            [] OTHER -> /\ push' = [push EXCEPT ![p].at = "applying", ![p].counts = held,
                                                ![p].plan = statementsOf(delta)]
                        /\ UNCHANGED lastSaid
    /\ UNCHANGED <<inDatabase, began, held, doubles, checkout, byHand, stopped, shipped>>

PushApplies(p) ==
    /\ push[p].at = "applying"
    /\ LET after == batch(inDatabase, shipped[push[p].want], push[p].plan)
       IN IF isFailed(after)
          THEN /\ Says(p, "failed", inDatabase)
               /\ push' = [push EXCEPT ![p] = NoCommand]
               /\ UNCHANGED inDatabase
          ELSE /\ inDatabase' = after
               /\ push' = [disturbed({p}) EXCEPT ![p].at = "verifying"]
               /\ UNCHANGED lastSaid
    /\ UNCHANGED <<began, held, doubles, checkout, byHand, stopped, shipped>>

\* Read again, with the counts of before.
PushVerifies(p) ==
    /\ push[p].at = "verifying"
    /\ LET after == diffSchema(parseSchemaSql(shipped[push[p].want]), parseSchemaSql(inDatabase), push[p].counts)
       IN Says(p, IF upToDate(after) THEN "verified" ELSE "survives", inDatabase)
    /\ push' = [push EXCEPT ![p] = NoCommand]
    /\ UNCHANGED <<inDatabase, began, held, doubles, checkout, byHand, stopped, shipped>>

\* turso:push: the whole baseline over an empty database, statement by
\* statement, outside a transaction.
baseline(sql) ==
    SetToSeq({[do |-> "create table", table |-> t.name] : t \in sql.tables})
    \o SetToSeq({[do |-> "create index", table |-> i.table, index |-> i] : i \in sql.indexes})

BaselineStarts(p) ==
    /\ push[p].at = "idle" /\ inDatabase.tables = {}
    /\ push' = [push EXCEPT ![p] = [NoCommand EXCEPT !.at = "baseline", !.want = checkout,
                                                     !.plan = baseline(shipped[checkout])]]
    /\ lastSaid' = [lastSaid EXCEPT ![p] = Silent]
    /\ UNCHANGED <<inDatabase, began, held, doubles, checkout, byHand, stopped, shipped>>

\* What is created is there already only if somebody else's run made it.
BaselineStep(p) ==
    /\ push[p].at = "baseline" /\ push[p].plan # <<>>
    /\ LET s == Head(push[p].plan)
           exists == IF s.do = "create table" THEN s.table \in names(inDatabase.tables)
                     ELSE s.index.name \in names(inDatabase.indexes)
           after == IF exists THEN Failed ELSE execute(inDatabase, shipped[push[p].want], s)
       IN IF isFailed(after)
          THEN push' = [push EXCEPT ![p] = NoCommand] /\ UNCHANGED inDatabase
          ELSE /\ inDatabase' = after
               /\ push' = [disturbed({p}) EXCEPT ![p].plan = Tail(@)]
    /\ UNCHANGED <<began, held, doubles, checkout, lastSaid, byHand, stopped, shipped>>

BaselineDone(p) ==
    /\ push[p].at = "baseline" /\ push[p].plan = <<>>
    /\ push' = [push EXCEPT ![p] = NoCommand]
    /\ UNCHANGED <<inDatabase, began, held, doubles, checkout, lastSaid, byHand, stopped, shipped>>

CommandStopped(p) ==
    /\ push[p].at # "idle" /\ stopped < MaxStopped
    /\ stopped' = stopped + 1
    /\ push' = [push EXCEPT ![p] = NoCommand]
    /\ UNCHANGED <<inDatabase, began, held, doubles, checkout, lastSaid, byHand, shipped>>

SchemaNext ==
    \/ GitPull
    \/ \E t \in TableNames : RebuildByHand(t) \/ \E again \in BOOLEAN : AppWrites(t, again)
    \/ \E p \in People : \/ PushReads(p) \/ PushPlans(p) \/ PushApplies(p) \/ PushVerifies(p)
                         \/ BaselineStarts(p) \/ BaselineStep(p) \/ BaselineDone(p)
                         \/ CommandStopped(p)

SchemaSpec == SchemaInit /\ [][SchemaNext]_scvars

-----------------------------------------------------------------------------
\* "Up to date" and "Verified" are said of a database that has the schema,
\* whatever its tables went through before ("only the database can say so").
UpToDateIsTrue ==
    \A p \in People : lastSaid[p].so

\* A plan shown without a refusal is one SQLite carries out, if nobody writes
\* in between, except for rows that break a new unique index, as cautioned;
\* and what it leaves is what was asked for.
PlanIsKept ==
    \A p \in People :
        /\ lastSaid[p].says = "failed" /\ lastSaid[p].alone => lastSaid[p].unique
        /\ lastSaid[p].says = "survives" => ~lastSaid[p].alone

\* A column renamed between two checkouts is never added beside the old one,
\* where its values would be stranded.
NothingStranded ==
    \A t \in inDatabase.tables : \A u \in began.tables : t.name = u.name /\ t # u =>
        LET columnsOf(x) == {i.name : i \in {j \in Range(x.items) : isColumn(j)}} IN
        \A c \in DOMAIN shipped : \A v \in sameName(shipped[c].tables, t.name) :
            columnsOf(u) \ columnsOf(v) # {} /\ columnsOf(v) \ columnsOf(u) # {} =>
                ~(columnsOf(u) \subseteq columnsOf(t) /\ columnsOf(v) \subseteq columnsOf(t))

\* A first push stopped halfway, which turso:push will not take up again, is
\* one schema:push completes.
HalfBaselineCompletes ==
    began.tables = {} /\ checkout = 1 /\ byHand = 0 =>
        diffSchema(parseSchemaSql(shipped[1]), parseSchemaSql(inDatabase), held).refusals = {}

\* What an operator is told of a schema is so (scripts/push-schema.ts).
PushesAreTrue == UpToDateIsTrue /\ PlanIsKept /\ NothingStranded /\ HalfBaselineCompletes
=============================================================================
