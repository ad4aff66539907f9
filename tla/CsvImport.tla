------------------------------ MODULE CsvImport ------------------------------
(***************************************************************************)
(* Bank files brought in by hand: the CSV connector (connectors/csv.ts and *)
(* its mappings), the account a label names (matchAccount.ts), the dry run *)
(* (sync/previewImport.ts, scripts/import-csv.ts) and the month-end        *)
(* balances of an investment account (scripts/import-balances.ts).         *)
(*                                                                         *)
(* A bank posts over time; an export is what it had posted in a window,    *)
(* read through its mapping.  A day is an integer, an amount whole         *)
(* dollars, a text a model value.  runSync is one step here: its own steps *)
(* are SyncPipeline's.                                                     *)
(***************************************************************************)
EXTENDS Integers, SequencesExt

CONSTANTS
    Banks,          \* what a bank goes on to post, oldest first: sequences of
                    \* [acct, day, amt, hold, text, after], hold the amount while pending
    ExportedBy,     \* [accounts -> the mapping of their bank's export]
    Investments,    \* the accounts of type INVESTMENT, in the order the database gives them
    FED, FED_FROM,  \* the account a live feed covers, and its first day
    EXACT, TAILS, WITHIN,   \* [labels -> accounts]: the same name, a shared digit tail, one name inside the other
    LabelOf,        \* [accounts -> the label a combined export prints]
    Ruled, Hints, TransferTexts,    \* texts a rule, the bank's category, a transfer pattern speaks for
    MONTH_DAYS,     \* days in a month
    MaxRuns         \* imports and feed syncs in a behaviour

VARIABLES bank, posted, accounts, keptRows, snapshots, toldOf, runs, careless

cvars == <<bank, posted, accounts, keptRows, snapshots, toldOf, runs, careless>>

None == "none"      \* no account, no category
Absent == -1        \* no cap, no balance
Skipped == <<>>     \* a line that sets no balance

-----------------------------------------------------------------------------
(* connectors/csvMappings.ts *)

Mapping(account, balance, pending, transfers, categories, footer) ==
    [account |-> account, balance |-> balance, pending |-> pending, transfers |-> transfers,
     categories |-> categories, skipUnparseable |-> footer]

CSV_MAPPINGS == [
    chase_checking |-> Mapping(FALSE, TRUE, FALSE, FALSE, FALSE, FALSE),
    chase_credit |-> Mapping(FALSE, FALSE, FALSE, TRUE, TRUE, FALSE),
    wells_fargo |-> Mapping(FALSE, FALSE, TRUE, FALSE, FALSE, FALSE),
    fidelity |-> Mapping(TRUE, FALSE, FALSE, TRUE, FALSE, TRUE)]

mappingOf(e) == CSV_MAPPINGS[ExportedBy[CHOOSE a \in e.accts : TRUE]]

-----------------------------------------------------------------------------
(* connectors/matchAccount.ts *)

known == DOMAIN accounts

unique(matches) == IF Cardinality(matches) = 1 THEN CHOOSE a \in matches : TRUE ELSE None

matchAccount(label, candidates) ==
    LET exact == EXACT[label] \intersect candidates
        byDigits == TAILS[label] \intersect candidates
    IN IF exact # {} THEN CHOOSE a \in exact : TRUE
       ELSE unique(IF byDigits # {} THEN byDigits ELSE WITHIN[label] \intersect candidates)

-----------------------------------------------------------------------------
(* connectors/csv.ts: a file's lines, by the place of their posting; the    *)
(* next posting may still be pending, and 0 is a line with no date          *)

linesOf(e) ==
    LET m == mappingOf(e)
        pending == m.pending /\ posted < Len(bank) /\ bank[posted + 1].acct \in e.accts
        there == SelectSeq([i \in 1..(posted + IF pending THEN 1 ELSE 0) |-> i],
                           LAMBDA n : bank[n].acct \in e.accts /\ bank[n].day >= e.from)
    IN (IF e.newestFirst THEN Reverse(there) ELSE there) \o (IF m.skipUnparseable THEN <<0>> ELSE <<>>)

resolve(e, n) ==
    IF e.explicit THEN bank[n].acct ELSE matchAccount(LabelOf[bank[n].acct], known)

\* The line as a row of the account it belongs to; the id is its date, amount
\* and text, and how many of those the account had already.
counted_AcrossAccounts(soFar, target, print) == Cardinality({i \in DOMAIN soFar : soFar[i].id[1] = print})
counted(soFar, target, print) ==
    Cardinality({i \in DOMAIN soFar : soFar[i].acct = target /\ soFar[i].id[1] = print})

flowOf(m, p) == IF m.transfers /\ p.text \in TransferTexts THEN "TRANSFER" ELSE IF p.amt >= 0 THEN "INFLOW" ELSE "OUTFLOW"

lineRow(m, p, n, target, soFar) ==
    LET print == <<p.day, p.amt, p.text>>
    IN [acct |-> target, id |-> <<print, counted(soFar, target, print) + 1>>, n |-> n, day |-> p.day, text |-> p.text,
        flow |-> flowOf(m, p), balance |-> IF m.balance THEN p.after ELSE Absent,
        hint |-> m.categories /\ p.text \in Hints]

skipRowWhen(m, n) == m.pending /\ n > posted

parsedFile(e) ==
    LET m == mappingOf(e)
        row(soFar, n) ==
            IF n = 0 \/ skipRowWhen(m, n) THEN soFar
            ELSE IF resolve(e, n) = None THEN [soFar EXCEPT !.unresolved = @ + 1]
            ELSE [soFar EXCEPT !.rows = Append(@, lineRow(m, [bank[n] EXCEPT !.amt = IF n > posted THEN bank[n].hold ELSE @],
                                                       n, resolve(e, n), soFar.rows))]
    IN FoldLeft(row, [rows |-> <<>>, unresolved |-> 0], linesOf(e))

accountsIn(all) == {all[i].acct : i \in DOMAIN all}
beforeUntil(e, all) == SelectSeq(all, LAMBDA r : e.until = Absent \/ r.day < e.until)

\* The newest posting's running balance: among its day's lines the first or
\* the last, as the file is ordered.
newestOf(all) ==
    LET newestFirst == all[1].day > Last(all).day
        days == {all[i].day : i \in DOMAIN all}
        at == {i \in DOMAIN all : \A d \in days : d <= all[i].day}
        i == CHOOSE k \in at : \A j \in at : IF newestFirst THEN k <= j ELSE j <= k
    IN all[i]

listedAs(e, all, a) ==
    LET mine == SelectSeq(all, LAMBDA r : r.acct = a)
        kept == beforeUntil(e, mine)
        latest == IF e.until = Absent THEN SelectSeq(kept, LAMBDA r : r.balance # Absent) ELSE <<>>
    IN [balance |-> IF latest = <<>> THEN 0 ELSE newestOf(latest).balance,
        date |-> FoldLeft(LAMBDA d, r : IF r.day > d THEN r.day ELSE d, 0, kept),
        isStale |-> latest = <<>>]

-----------------------------------------------------------------------------
(* sync/previewImport.ts: what the import would do, from the same lookups *)

isStored(r) == \E s \in keptRows : s.acct = r.acct /\ s.id = r.id
freshOf(e, all) == SelectSeq(beforeUntil(e, all), LAMBDA r : ~isStored(r))

closedBox(r) == r.acct \in ToSet(Investments)
applied(r) == closedBox(r) \/ r.text \in Ruled
takesHint(r) == r.hint /\ ~applied(r) /\ r.flow # "TRANSFER"
forReview(r) == ~applied(r) /\ r.flow # "TRANSFER" /\ ~takesHint(r)
backlog == {r \in keptRows : r.cat = None /\ r.flow # "TRANSFER"}

balancePlan(a, plan) ==
    [writes |-> ~plan.isStale, value |-> plan.balance, date |-> plan.date,
     current |-> IF a \in known THEN accounts[a].balance ELSE Absent,
     movesBackward |-> ~plan.isStale /\ a \in known /\ plan.date < accounts[a].date]

accountPlan(e, all, fresh, a) ==
    [disposition |-> IF a \notin known THEN "CREATE" ELSE IF accounts[a].owner = "CSV" THEN "UPDATE" ELSE "ADOPT",
     rows |-> Len(SelectSeq(beforeUntil(e, all), LAMBDA r : r.acct = a)),
     newRows |-> Len(SelectSeq(fresh, LAMBDA r : r.acct = a)),
     balance |-> balancePlan(a, listedAs(e, all, a))]

merchantPlan(fresh) ==
    LET unseen == {fresh[i].text : i \in DOMAIN fresh} \ {s.text : s \in keptRows}
    IN [distinct |-> Cardinality({fresh[i].text : i \in DOMAIN fresh}), unseen |-> Cardinality(unseen),
        unseenSingletons |-> Cardinality({t \in unseen : Len(SelectSeq(fresh, LAMBDA r : r.text = t)) = 1})]

planOf(e, all, fresh) ==
    LET decisions == {r.text : r \in ToSet(SelectSeq(fresh, forReview))}
    IN [newRows |-> Len(fresh), duplicateRows |-> Len(beforeUntil(e, all)) - Len(fresh),
        accounts |-> [a \in accountsIn(all) |-> accountPlan(e, all, fresh, a)],
        rulesApplied |-> Len(SelectSeq(fresh, applied)), sourceCategorized |-> Len(SelectSeq(fresh, takesHint)),
        decisions |-> decisions, joining |-> decisions \intersect {r.text : r \in backlog},
        merchants |-> merchantPlan(fresh)]
previewImport(e, p) == planOf(e, p.rows, freshOf(e, p.rows))

\* What the dry run prints of a balance.
printed(b) ==
    IF ~b.writes THEN "not written" ELSE IF b.current = Absent THEN "written"
    ELSE IF b.current = b.value THEN "unchanged" ELSE "replaces"

-----------------------------------------------------------------------------
(* scripts/import-csv.ts *)

NothingTold == [stage |-> "none"]

\* The file is one account's, or names an account on every line and there are
\* accounts to name.
accepted(e) == IF e.explicit THEN Cardinality(e.accts) = 1 ELSE mappingOf(e).account /\ known # {}

isExport(e) ==
    /\ \E m \in {ExportedBy[a] : a \in e.accts} : \A a \in e.accts : ExportedBy[a] = m
    /\ \A a \in e.accts : \E n \in DOMAIN bank : bank[n].acct = a
    /\ accepted(e)

DryRun(e) ==
    /\ toldOf.stage = "none" /\ isExport(e)
    /\ toldOf' = [stage |-> "previewed", file |-> e, plan |-> previewImport(e, parsedFile(e)), before |-> accounts,
                waiting |-> backlog]
    /\ UNCHANGED <<bank, posted, accounts, keptRows, snapshots, runs, careless>>

withSnapshot(s, a, day, balance) ==
    {x \in s : x.acct # a \/ x.day # day} \union {[acct |-> a, day |-> day, balance |-> balance]}

accountAfter(e, all, a) ==
    LET plan == listedAs(e, all, a)
    IN IF a \notin accountsIn(all) THEN accounts[a]
       ELSE IF a \notin known THEN [owner |-> "CSV", balance |-> plan.balance, date |-> plan.date]
       ELSE IF plan.isStale THEN accounts[a] ELSE [accounts[a] EXCEPT !.balance = plan.balance, !.date = plan.date]

\* The rule pass is over every row still waiting, not the fresh ones alone;
\* a hint goes with the line of this file.
storedRow(r) ==
    [acct |-> r.acct, id |-> r.id, n |-> r.n, text |-> r.text, cat |-> None,
     flow |-> IF closedBox(r) THEN "TRANSFER" ELSE r.flow]
categoryNow(r, hinted) ==
    IF r.cat # None \/ closedBox(r) THEN r.cat ELSE IF r.text \in Ruled THEN "rule"
    ELSE IF <<r.acct, r.id>> \in hinted /\ r.flow # "TRANSFER" THEN "bank" ELSE None
passOver(all, hinted) == {[r EXCEPT !.cat = categoryNow(r, hinted)] : r \in all}
hintsOf(all) == {<<r.acct, r.id>> : r \in {x \in ToSet(all) : x.hint}}

importOf(e, all, fresh) ==
    /\ accounts' = [a \in known \union accountsIn(all) |-> accountAfter(e, all, a)]
    /\ snapshots' = FoldSet(LAMBDA a, s : withSnapshot(s, a, accounts'[a].date, accounts'[a].balance),
                            snapshots, {a \in accountsIn(all) : ~listedAs(e, all, a).isStale})
    /\ keptRows' = passOver(keptRows \union {storedRow(r) : r \in ToSet(fresh)}, hintsOf(beforeUntil(e, all)))
    /\ toldOf' = IF toldOf.stage # "previewed" \/ toldOf.file # e THEN NothingTold
               ELSE [toldOf EXCEPT !.stage = "done"] @@
                    [newRows |-> Len(fresh),
                     rulesApplied |->
                         Len(SelectSeq(fresh, applied)) + Cardinality({r \in keptRows : r.cat = None /\ r.text \in Ruled})]

Import(e) ==
    /\ runs < MaxRuns /\ runs' = runs + 1
    /\ isExport(e) /\ (toldOf.stage = "previewed" => toldOf.file = e)
    /\ \E p \in {parsedFile(e)} : importOf(e, p.rows, freshOf(e, p.rows))
    /\ careless' = (careless \/ (e.until = Absent /\ FED \in e.accts))
    /\ UNCHANGED <<bank, posted>>

-----------------------------------------------------------------------------
(* scripts/import-balances.ts *)

today == bank[posted].day
monthOf(day) == (day - 1) \div MONTH_DAYS
monthEnd(month) == (month + 1) * MONTH_DAYS
covered(a, month) == \E s \in snapshots : s.acct = a /\ monthOf(s.day) = month

template(months) ==
    {[label |-> x[1], day |-> monthEnd(x[2]), of |-> x[1]] :
        x \in {y \in (ToSet(Investments) \intersect known) \X (monthOf(today) - months + 1..monthOf(today)) : ~covered(y[1], y[2])}}

\* What becomes of a line.  An amount with separators is whole in the last
\* column, quoted or "split" into fields; in another a quoted one is skipped,
\* and a split one moves its date into the wrong field, if that comes after,
\* or is read up to its first separator.
statementOf(row) == <<row.of, row.day>>
cutShort(statement) == Append(statement, "cut")
outcome(row, filled, place) ==
    IF \/ filled = "blank" \/ matchAccount(row.label, known) = None
       \/ filled = "quoted" /\ place # "last"
       \/ filled = "split" /\ place = "before its date" THEN Skipped
    ELSE IF filled = "split" /\ place = "before a note" THEN cutShort(statementOf(row)) ELSE statementOf(row)

ImportBalances(months, filled, place) ==
    /\ runs < MaxRuns /\ runs' = runs + 1
    /\ \E lines \in {{one, other} : one, other \in template(months)} :
        snapshots' =
            FoldSet(LAMBDA row, s :
                        IF outcome(row, filled, place) = Skipped THEN s
                        ELSE withSnapshot(s, matchAccount(row.label, known), row.day, outcome(row, filled, place)),
                    snapshots, lines)
    /\ toldOf' = NothingTold
    /\ UNCHANGED <<bank, posted, accounts, keptRows, careless>>

-----------------------------------------------------------------------------
(* The bank and the live feed *)

Post ==
    /\ posted < Len(bank) /\ posted' = posted + 1
    /\ toldOf' = NothingTold
    /\ UNCHANGED <<bank, accounts, keptRows, snapshots, runs, careless>>

feedRow(n) ==
    [acct |-> FED, id |-> <<<<0, n, bank[n].text>>, 0>>, n |-> n, text |-> bank[n].text, cat |-> None,
     flow |-> IF bank[n].amt >= 0 THEN "INFLOW" ELSE "OUTFLOW"]
fedRows == {feedRow(n) : n \in {m \in 1..posted : bank[m].acct = FED /\ bank[m].day >= FED_FROM}}

FeedSync(killed) ==
    /\ runs < MaxRuns /\ runs' = runs + 1
    /\ fedRows # {}
    /\ LET all == keptRows \union {r \in fedRows : ~isStored(r)}
       IN keptRows' = IF killed THEN all ELSE passOver(all, {})
    /\ accounts' = (FED :> [owner |-> IF FED \in known THEN accounts[FED].owner ELSE "feed", date |-> today,
                            balance |-> bank[CHOOSE n \in 1..posted :
                                                bank[n].acct = FED /\ \A m \in n + 1..posted : bank[m].acct # FED].after]) @@ accounts
    /\ toldOf' = NothingTold
    /\ UNCHANGED <<bank, posted, snapshots, careless>>

-----------------------------------------------------------------------------

CsvInit ==
    /\ bank \in Banks /\ posted = 1
    /\ accounts = [a \in ToSet(Investments) \intersect {bank[n].acct : n \in DOMAIN bank} |-> [owner |-> "feed", balance |-> 0, date |-> 0]]
    /\ keptRows = {} /\ snapshots = {} /\ toldOf = NothingTold /\ runs = 0 /\ careless = FALSE

Files == [accts : SUBSET DOMAIN ExportedBy \ {{}}, from : {1, 2}, newestFirst : BOOLEAN, explicit : BOOLEAN,
          until : {Absent, FED_FROM}]

CsvNext ==
    \/ Post
    \/ \E killed \in BOOLEAN : FeedSync(killed)
    \/ \E e \in Files : DryRun(e) \/ Import(e)
    \/ \E months \in 1..2, filled \in {"amount", "quoted", "split", "blank"}, place \in {"last", "before its date", "before a note"} :
          ImportBalances(months, filled, place)

-----------------------------------------------------------------------------

printOf(n) == <<bank[n].day, bank[n].amt, bank[n].text>>
sameAs(n) == {m \in 1..posted : bank[m].acct = bank[n].acct /\ printOf(m) = printOf(n)}
storedAs(n) == {r \in keptRows : r.acct = bank[n].acct /\ printOf(r.n) = printOf(n)}
imported == toldOf.stage = "done"

\* Unless a file reaches into what the live feed covers, no posting is in the
\* ledger twice, two alike stay two, none is filed under another account and
\* none that is still pending is filed at all, whatever windows, orders and
\* combinations of accounts the files had (csv.ts:26-35, 150-153, 195-202).
StoredOnce ==
    ~careless => \A r \in keptRows : /\ r.n <= posted /\ r.acct = bank[r.n].acct
                                 /\ Cardinality(storedAs(r.n)) <= Cardinality(sameAs(r.n))

inFile(e) ==
    {n \in 1..posted : bank[n].acct \in e.accts /\ bank[n].day >= e.from /\ (e.until = Absent \/ bank[n].day < e.until)}

\* After an import everything its file says and names an account for is in the
\* ledger.
ImportFilesAll ==
    imported => \A n \in inFile(toldOf.file) :
                resolve(toldOf.file, n) # None => Cardinality(storedAs(n)) >= Cardinality(sameAs(n))

\* What the dry run said of a file is what importing it did: the rows, the
\* review it adds to, each balance, and a balance dated earlier never unsaid.
DryRunWasRight ==
    imported =>
        /\ toldOf.newRows = toldOf.plan.newRows
        /\ (\A r \in toldOf.waiting : r.text \notin Ruled) => toldOf.rulesApplied = toldOf.plan.rulesApplied
        /\ {r.text : r \in backlog} \subseteq {r.text : r \in toldOf.waiting} \union toldOf.plan.decisions
        /\ toldOf.plan.decisions \subseteq {r.text : r \in backlog}
        /\ \A a \in DOMAIN toldOf.plan.accounts :
              \A b \in {toldOf.plan.accounts[a].balance} :
                 /\ b.writes => accounts[a].balance = b.value
                 /\ printed(b) \in {"not written", "unchanged"} /\ b.current # Absent
                       => accounts[a].balance = toldOf.before[a].balance
                 /\ a \in DOMAIN toldOf.before /\ accounts[a].date < toldOf.before[a].date => b.movesBackward

lastIn(e, a) == CHOOSE n \in inFile(e) : bank[n].acct = a /\ \A m \in inFile(e) : bank[m].acct = a => m <= n
spansDays(e) == \E m, n \in inFile(e) : bank[m].day # bank[n].day

\* A file that carries a running balance leaves the account at the balance of
\* its newest posting, whichever way the file is ordered (csv.ts:222-227);
\* a file of one day excepted, which OneDayBalance is about.
balanceAsLastPosted(e) ==
    imported /\ toldOf.file = e /\ e.until = Absent /\ mappingOf(e).balance =>
        \A a \in e.accts : (\E n \in inFile(e) : bank[n].acct = a) => accounts[a].balance = bank[lastIn(e, a)].after
BalanceIsTheBanks == imported => (spansDays(toldOf.file) \/ ~toldOf.file.newestFirst => balanceAsLastPosted(toldOf.file))

\* An investment account's month-end is the one its own statement gave,
\* whatever was left blank or quoted, or that one up to its first separator
\* (import-balances.ts:170-198).
monthEnds == {s \in snapshots : s.acct \in ToSet(Investments)}
asStated(s) == s.balance = <<s.acct, s.day>>
StatementsLand == \A s \in monthEnds : asStated(s) \/ s.balance = cutShort(<<s.acct, s.day>>)

CsvKeepsItsWord == StoredOnce /\ ImportFilesAll /\ DryRunWasRight /\ BalanceIsTheBanks /\ StatementsLand

\* Stated, and not so: a newest-first file of one day is read as oldest first,
\* and the day's oldest balance is stored.
OneDayBalance == imported => balanceAsLastPosted(toldOf.file)

\* Stated, and not so: an amount split by its separators before another column
\* is stored up to its first separator, which import-balances.ts:170-173 means
\* to prevent.
SplitNeverStored == \A s \in monthEnds : asStated(s)

\* Stated, and not so: the dry run counts rules over the fresh rows alone, and
\* the import runs them over every row still waiting.
DryRunCountsRules == imported => toldOf.rulesApplied = toldOf.plan.rulesApplied
=============================================================================
