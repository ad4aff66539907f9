---------------------------- MODULE SyncPipeline ----------------------------
(***************************************************************************)
(* The ledger and the sync pipeline that fills it (runPipeline in          *)
(* src/lib/sync/sync.ts): import what the feed has, apply the rules to     *)
(* every waiting row, give the source's category to the rest, pair         *)
(* transfers.  One action per database call that matters to another        *)
(* process; what a step has read stays in the pipeline's variables until   *)
(* a later step uses it.  One pipeline at a time is SyncLock's result.     *)
(* The host may kill the pipeline between any two steps.                   *)
(***************************************************************************)
EXTENDS Classification

CONSTANTS
    FirstTypes,     \* the sets of accounts typed INVESTMENT when first seen
    MaxKills        \* bound on the times the host kills a function

ASSUME BoundAssumption == MaxKills \in Nat /\ FirstTypes \subseteq SUBSET Accounts

VARIABLES
    stored,       \* the transactions in the database
    txn,          \* their decided fields
    investment,   \* the accounts typed INVESTMENT
    userRules,    \* the operator's own rule for each payee
    syncAt,       \* where the pipeline stands
    fetched,      \* rows the feed answered with
    fresh,        \* those of them not stored when the pipeline looked
    seenRules,    \* the rules as the pipeline read them
    batches,      \* rule writes still to be made
    hints,        \* source-category writes still to be made
    pairs,        \* transfer pairs still to be written
    half,         \* the pair whose out side is written and whose in side is not
    kills

ledger == <<stored, txn, investment, userRules>>
syncVars == <<syncAt, fetched, fresh, seenRules, batches, hints, pairs, half, kills>>

NoPair == [out |-> NoRow, in |-> NoRow]
NoRules == [p \in Payees |-> NoRule]

LedgerInit ==
    /\ stored = {}
    /\ txn = [r \in Rows |-> Imported(r)]
    /\ investment \in FirstTypes
    /\ userRules = NoRules

SyncInit ==
    /\ syncAt = "idle"
    /\ fetched = {} /\ fresh = {} /\ seenRules = NoRules
    /\ batches = {} /\ hints = {} /\ pairs = {} /\ half = NoPair
    /\ kills = 0

\* Stored by a feed and untouched: no category, no pair, and not a person's.
Waiting(t) == t.src = "AGGREGATOR" /\ t.cat = NoCat /\ t.pair = NoRow

\* The rows of an answer that are not stored yet.
freshOf_NoDedupe(answer) == answer
freshOf(answer) == answer \ stored

\* The rows the rules pass reads.
waitingRows_FreshOnly == {r \in fresh : Waiting(txn[r])}
waitingRows == {r \in stored : Waiting(txn[r])}

\* The rows a write of the pass reaches: its where repeats the MANUAL guard.
reached_Unguarded(ids) == ids
reached(ids) == {r \in ids : txn[r].src # "MANUAL"}

\* fetchTransactions, then the read of the keys already stored.
Fetch ==
    /\ syncAt = "idle"
    /\ \E answer \in SUBSET Rows :
          /\ fetched' = answer
          /\ fresh' = freshOf(answer)
    /\ syncAt' = "inserting"
    /\ UNCHANGED <<ledger, seenRules, batches, hints, pairs, half, kills>>

\* createMany of the fresh rows.
Insert ==
    /\ syncAt = "inserting"
    /\ stored' = stored \union fresh
    /\ txn' = [r \in Rows |-> IF r \in fresh THEN Imported(r) ELSE txn[r]]
    /\ syncAt' = "readingRules"
    /\ UNCHANGED <<investment, userRules, fetched, fresh, seenRules, batches,
                   hints, pairs, half, kills>>

ReadRules ==
    /\ syncAt = "readingRules"
    /\ seenRules' = userRules
    /\ syncAt' = "readingWaiting"
    /\ UNCHANGED <<ledger, fetched, fresh, batches, hints, pairs, half, kills>>

\* The rows still waiting: this run's, and any a killed run left behind.
\* An old row the closed box would leave as it is is not written again.
ReadWaiting ==
    /\ syncAt = "readingWaiting"
    /\ LET waiting == waitingRows
           matched == Ruled(seenRules, investment, txn, waiting)
           applied == {r \in matched : \/ ~isClosedBox(investment, r)
                                       \/ txn[r].flow # "TRANSFER"
                                       \/ r \in fresh}
           hinted == {r \in (waiting \cap fetched) \ applied :
                         HintApplies(investment, txn, r)}
       IN /\ batches' = Batches(seenRules, investment, applied)
          /\ hints' = {[cat |-> hint[r], ids |-> {q \in hinted : hint[q] = hint[r]}]
                         : r \in hinted}
    /\ syncAt' = "writing"
    /\ fetched' = {} /\ fresh' = {} /\ seenRules' = NoRules
    /\ UNCHANGED <<ledger, pairs, half, kills>>

\* One updateMany per outcome, which repeats the MANUAL guard.
WriteBatch ==
    /\ syncAt = "writing"
    /\ \E b \in batches :
          /\ txn' = [r \in Rows |-> IF r \in reached(b.ids)
                                    THEN ByRule(txn[r], b) ELSE txn[r]]
          /\ batches' = batches \ {b}
    /\ UNCHANGED <<stored, investment, userRules, syncAt, fetched, fresh,
                   seenRules, hints, pairs, half, kills>>

\* One updateMany per source category; the row's source stays as it is.
WriteHint ==
    /\ syncAt = "writing" /\ batches = {}
    /\ \E h \in hints :
          /\ txn' = [r \in Rows |-> IF r \in reached(h.ids)
                                    THEN [txn[r] EXCEPT !.cat = h.cat] ELSE txn[r]]
          /\ hints' = hints \ {h}
    /\ UNCHANGED <<stored, investment, userRules, syncAt, fetched, fresh,
                   seenRules, batches, pairs, half, kills>>

\* Rows pairing may take: unpaired, not a person's, and not yet a transfer,
\* or inside an investment account and able to cross its boundary.
Candidate(r) ==
    /\ r \in stored
    /\ txn[r].pair = NoRow
    /\ txn[r].src # "MANUAL"
    /\ \/ txn[r].flow # "TRANSFER"
       \/ isClosedBox(investment, r) /\ r \notin Internal

ReadCandidates ==
    /\ syncAt = "writing" /\ batches = {} /\ hints = {}
    /\ pairs' \in detectTransferPairs({r \in Rows : Candidate(r)})
    /\ syncAt' = "pairing"
    /\ UNCHANGED <<ledger, fetched, fresh, seenRules, batches, hints, half, kills>>

\* The side of a transfer, with a link to the other.
Paired_FlowKept(t, other) == [t EXCEPT !.pair = other, !.cat = NoCat]
Paired(t, other) ==
    [t EXCEPT !.flow = "TRANSFER", !.pair = other, !.cat = NoCat]

\* Pairs are written in the order of their out side, each in two updates by
\* id that repeat no guard.
PairOut ==
    /\ syncAt = "pairing" /\ half = NoPair
    /\ \E p \in pairs :
          /\ \A q \in pairs \ {p} : Before(p.out, q.out)
          /\ txn' = [txn EXCEPT ![p.out] = Paired(@, p.in)]
          /\ half' = p
          /\ pairs' = pairs \ {p}
    /\ UNCHANGED <<stored, investment, userRules, syncAt, fetched, fresh,
                   seenRules, batches, hints, kills>>

PairIn ==
    /\ half # NoPair
    /\ txn' = [txn EXCEPT ![half.in] = Paired(@, half.out)]
    /\ half' = NoPair
    /\ UNCHANGED <<stored, investment, userRules, syncAt, fetched, fresh,
                   seenRules, batches, hints, pairs, kills>>

\* The pipeline returns, and releases its lock.
SyncFinish ==
    /\ syncAt = "pairing" /\ pairs = {} /\ half = NoPair
    /\ syncAt' = "idle"
    /\ UNCHANGED <<ledger, fetched, fresh, seenRules, batches, hints, pairs, half, kills>>

\* The host kills the pipeline, or one of its calls fails: what it had read
\* is gone, what it had written stays.
SyncKilled ==
    /\ syncAt # "idle"
    /\ kills < MaxKills
    /\ kills' = kills + 1
    /\ syncAt' = "idle"
    /\ fetched' = {} /\ fresh' = {} /\ seenRules' = NoRules
    /\ batches' = {} /\ hints' = {} /\ pairs' = {} /\ half' = NoPair
    /\ UNCHANGED ledger

RulePass == WriteBatch \/ WriteHint

SyncStep ==
    \/ Insert \/ ReadRules \/ ReadWaiting \/ RulePass
    \/ ReadCandidates \/ PairOut \/ PairIn \/ SyncFinish

SyncTypeOK ==
    /\ stored \subseteq Rows
    /\ txn \in [Rows -> Txn]
    /\ investment \subseteq Accounts
    /\ userRules \in [Payees -> Rule \union {NoRule}]
    /\ syncAt \in {"idle", "inserting", "readingRules", "readingWaiting",
                   "writing", "pairing"}
    /\ fetched \subseteq Rows /\ fresh \subseteq Rows
    /\ seenRules \in [Payees -> Rule \union {NoRule}]
    /\ batches \subseteq [cat : Categories \union {NoCat}, flow : {"TRANSFER", Keep},
                          ids : SUBSET Rows]
    /\ hints \subseteq [cat : Categories, ids : SUBSET Rows]
    /\ pairs \subseteq [out : Rows, in : Rows]
    /\ half \in [out : Rows, in : Rows] \union {NoPair}
    /\ kills \in 0..MaxKills
=============================================================================
