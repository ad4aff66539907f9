------------------------------- MODULE Ledger -------------------------------
(***************************************************************************)
(* The operator's server actions beside the sync pipeline, over the one    *)
(* ledger (src/app/transactions/actions.ts, src/app/accounts/actions.ts,   *)
(* src/lib/sync/rulePack.ts).  A session is a browser tab or a script that *)
(* runs one action at a time; each database call of the action is a step,  *)
(* and what it read is kept in the session until the write that uses it.   *)
(***************************************************************************)
EXTENDS SyncPipeline

CONSTANTS
    Sessions,
    Operations,     \* the operations this instance exercises
    Overlap,        \* FALSE: one operation or sync at a time
    MaxOps          \* bound on the operations started

ASSUME SessionAssumption == MaxOps \in Nat /\ Overlap \in BOOLEAN

VARIABLES
    op,             \* what each session is doing
    undoable,       \* the decision each session's page can take back
    ops             \* operations started

sessionVars == <<op, undoable, ops>>
vars == <<ledger, syncVars, sessionVars>>

NoUndo == [payee |-> NoRow, previous |-> NoRule, restore |-> {}]

\* `at` is where the action stands; the other fields hold what it has read.
Idle == [at |-> "idle", row |-> NoRow, other |-> NoRow, box |-> FALSE,
         todo |-> {}, rules |-> NoRules, undo |-> NoUndo]

Init ==
    /\ LedgerInit /\ SyncInit
    /\ op = [s \in Sessions |-> Idle]
    /\ undoable = [s \in Sessions |-> NoUndo]
    /\ ops = 0

OpNames == {"categorize", "clear", "release", "link", "unlink", "decide", "undo", "retype"}

Starts(s, name) ==
    /\ name \in Operations
    /\ op[s].at = "idle"
    /\ Overlap \/ (syncAt = "idle" /\ \A z \in Sessions : op[z].at = "idle")
    /\ ops < MaxOps
    /\ ops' = ops + 1

Goes(s, next) == op' = [op EXCEPT ![s] = next]

\* A write to one row by id.
Writes(r, t) == txn' = [txn EXCEPT ![r] = t]

-----------------------------------------------------------------------------
(* A category set or cleared by hand.  The page that offers the control was *)
(* rendered earlier and showed it on a row that was no transfer then, and no *)
(* linked repayment.                                                        *)

ShowRow(s, r, name) ==
    /\ Starts(s, name)
    /\ r \in stored /\ txn[r].flow # "TRANSFER"
    /\ ~(txn[r].flow = "INFLOW" /\ txn[r].reimb # NoRow)
    /\ Goes(s, [Idle EXCEPT !.at = name, !.row = r])
    /\ UNCHANGED <<ledger, syncVars, undoable>>

\* setTransactionCategory with a category: one update by id.
Categorize(s) ==
    /\ op[s].at = "categorize"
    /\ \E c \in Categories :
          Writes(op[s].row, [txn[op[s].row] EXCEPT !.cat = c, !.src = "MANUAL"])
    /\ Goes(s, Idle)
    /\ UNCHANGED <<stored, investment, userRules, syncVars, undoable, ops>>

\* setTransactionCategory without one: the account's type is read first.
ClearRead(s) ==
    /\ op[s].at = "clear"
    /\ Goes(s, [op[s] EXCEPT !.at = "clearing",
                             !.box = isClosedBox(investment, op[s].row)])
    /\ UNCHANGED <<ledger, syncVars, undoable, ops>>

ClearWrite(s) ==
    /\ op[s].at = "clearing"
    /\ Writes(op[s].row, whenCleared(txn[op[s].row], op[s].box))
    /\ Goes(s, Idle)
    /\ UNCHANGED <<stored, investment, userRules, syncVars, undoable, ops>>

-----------------------------------------------------------------------------
(* markNotTransfer, linkReimbursement: the rows are read again by the       *)
(* server, the decision is made on what was read, the write names ids only. *)

ReleaseRead(s, r) ==
    /\ Starts(s, "release")
    /\ r \in stored /\ Releasable(txn[r], isClosedBox(investment, r))
    /\ Goes(s, [Idle EXCEPT !.at = "releasing", !.row = r])
    /\ UNCHANGED <<ledger, syncVars, undoable>>

ReleaseWrite(s) ==
    /\ op[s].at = "releasing"
    /\ Writes(op[s].row, Released(txn[op[s].row], op[s].row))
    /\ Goes(s, Idle)
    /\ UNCHANGED <<stored, investment, userRules, syncVars, undoable, ops>>

LinkRead(s, i, o) ==
    /\ Starts(s, "link")
    /\ i \in stored /\ o \in stored
    /\ txn[i].flow = "INFLOW" /\ txn[o].flow = "OUTFLOW"
    /\ Goes(s, [Idle EXCEPT !.at = "linking", !.row = i, !.other = o])
    /\ UNCHANGED <<ledger, syncVars, undoable>>

LinkWrite(s) ==
    /\ op[s].at = "linking"
    /\ Writes(op[s].row, [txn[op[s].row] EXCEPT !.reimb = op[s].other])
    /\ Goes(s, Idle)
    /\ UNCHANGED <<stored, investment, userRules, syncVars, undoable, ops>>

Unlink(s, i) ==
    /\ Starts(s, "unlink")
    /\ i \in stored /\ txn[i].reimb # NoRow
    /\ Writes(i, [txn[i] EXCEPT !.reimb = NoRow])
    /\ UNCHANGED <<stored, investment, userRules, syncVars, op, undoable>>

-----------------------------------------------------------------------------
(* upsertRules: a review decision about a payee writes its rule, confirms   *)
(* the payee's waiting P2P rows, then reapplies every rule.                 *)

Snapshot(r) == [id |-> r, cat |-> txn[r].cat, src |-> txn[r].src, flow |-> txn[r].flow]

\* A category, or TRANSFER_TARGET.
Targets == [cat : Categories, flow : {Keep}] \union {Enclosed}

\* Existing rules are read and the decision's rule is created or updated.
Decide(s, p, target) ==
    /\ Starts(s, "decide")
    /\ userRules' = [userRules EXCEPT ![p] = target]
    /\ Goes(s, [Idle EXCEPT
                  !.at = IF target.flow = Keep THEN "confirm" ELSE "reapply",
                  !.undo = [payee |-> p, previous |-> userRules[p], restore |-> {}],
                  !.todo = {target}])
    /\ UNCHANGED <<stored, txn, investment, syncVars, undoable>>

\* confirmP2PMatches: the payee's unreviewed P2P rows are read ...
ConfirmRead(s) ==
    /\ op[s].at = "confirm"
    /\ LET rows == {r \in stored : /\ isUnreviewedP2P(txn[r], r)
                                   /\ txn[r].src # "MANUAL"
                                   /\ payee[r] = op[s].undo.payee}
       IN Goes(s, [op[s] EXCEPT !.at = "confirming",
                                !.undo.restore = {Snapshot(r) : r \in rows}])
    /\ UNCHANGED <<ledger, syncVars, undoable, ops>>

\* ... and written MANUAL, by id.
ConfirmWrite(s) ==
    /\ op[s].at = "confirming"
    /\ \E target \in op[s].todo :
          txn' = [r \in Rows |->
                    IF r \in {t.id : t \in op[s].undo.restore}
                    THEN [txn[r] EXCEPT !.cat = target.cat, !.src = "MANUAL"]
                    ELSE txn[r]]
    /\ Goes(s, [op[s] EXCEPT !.at = "reapply", !.todo = {}])
    /\ UNCHANGED <<stored, investment, userRules, syncVars, undoable, ops>>

\* reapplyRules: the enabled rules are read ...
ReapplyReadRules(s) ==
    /\ op[s].at = "reapply"
    /\ Goes(s, [op[s] EXCEPT !.at = "reapplyRows", !.rules = userRules, !.todo = {}])
    /\ UNCHANGED <<ledger, syncVars, undoable, ops>>

\* What the reapply would change: every row a rule or the box speaks for,
\* pairs included, that is not already as it says.
Changes(rules, r) ==
    LET o == Outcome(rules, investment, r)
        t == txn[r]
    IN IF isClosedBox(investment, r)
       THEN ~(t.flow = "TRANSFER" /\ t.cat = NoCat)
       ELSE ~(t.cat = o.cat /\ t.src = "RULE" /\ (o.flow = Keep \/ o.flow = t.flow))

\* ... then every row, and the writes and the undo snapshot are decided.
\* The snapshot holds the rules' own rows, not the box's.
ReapplyReadRows(s) ==
    /\ op[s].at = "reapplyRows"
    /\ LET rules == op[s].rules
           changed == {r \in Ruled(rules, investment, txn, stored) : Changes(rules, r)}
           byRule == {r \in changed : ~isClosedBox(investment, r)}
       IN Goes(s, [op[s] EXCEPT
                     !.at = "reapplying",
                     !.rules = NoRules,
                     !.todo = Batches(rules, investment, changed),
                     !.undo.restore = @ \union {Snapshot(r) : r \in byRule}])
    /\ UNCHANGED <<ledger, syncVars, undoable, ops>>

\* One updateMany per outcome, by id alone.
ReapplyWrite(s) ==
    /\ op[s].at = "reapplying"
    /\ \E b \in op[s].todo :
          /\ txn' = [r \in Rows |-> IF r \in b.ids THEN ByRule(txn[r], b) ELSE txn[r]]
          /\ Goes(s, [op[s] EXCEPT !.todo = @ \ {b}])
    /\ UNCHANGED <<stored, investment, userRules, syncVars, undoable, ops>>

\* A decision's answer reaches the page with its undo; a retype has none.
ReapplyDone(s) ==
    /\ op[s].at = "reapplying" /\ op[s].todo = {}
    /\ undoable' = IF op[s].undo.payee = NoRow THEN undoable
                   ELSE [undoable EXCEPT ![s] = op[s].undo]
    /\ Goes(s, Idle)
    /\ UNCHANGED <<ledger, syncVars, ops>>

-----------------------------------------------------------------------------
(* Writes of a category, source and flow to batches of rows by id.  *)

\* Rows going to the same three values are written together.
RestoreBatches(snapshots) ==
    { [cat |-> v.cat, src |-> v.src, flow |-> v.flow,
       ids |-> {t.id : t \in {u \in snapshots :
                   u.cat = v.cat /\ u.src = v.src /\ u.flow = v.flow}}]
        : v \in snapshots }

RestoreWrite(s) ==
    /\ op[s].at \in {"restoring", "unboxing"}
    /\ \E b \in op[s].todo :
          /\ txn' = [r \in Rows |->
                       IF r \in b.ids
                       THEN [txn[r] EXCEPT !.cat = b.cat, !.src = b.src, !.flow = b.flow]
                       ELSE txn[r]]
          /\ Goes(s, [op[s] EXCEPT !.todo = @ \ {b}])
    /\ UNCHANGED <<stored, investment, userRules, syncVars, undoable, ops>>

\* undoCategorizeGroup: the decision's rule is deleted or put back as it was,
\* then restoreTransactions writes the snapshot.
ruleBefore_KeptIfNew(s) ==
    LET now == userRules[undoable[s].payee]
    IN IF undoable[s].previous = NoRule THEN now ELSE undoable[s].previous
ruleBefore(s) ==
    IF userRules[undoable[s].payee] = NoRule THEN NoRule ELSE undoable[s].previous

UndoRule(s) ==
    /\ undoable[s] # NoUndo
    /\ Starts(s, "undo")
    /\ userRules' = [userRules EXCEPT ![undoable[s].payee] = ruleBefore(s)]
    /\ Goes(s, [Idle EXCEPT !.at = "restoring",
                            !.todo = RestoreBatches(undoable[s].restore)])
    /\ UNCHANGED <<stored, txn, investment, syncVars, undoable>>

UndoDone(s) ==
    /\ op[s].at = "restoring" /\ op[s].todo = {}
    /\ undoable' = [undoable EXCEPT ![s] = NoUndo]
    /\ Goes(s, Idle)
    /\ UNCHANGED <<ledger, syncVars, ops>>

-----------------------------------------------------------------------------
(* setAccountType across the edge of the closed box.  *)

RetypeRead(s, a) ==
    /\ Starts(s, "retype")
    /\ Goes(s, [Idle EXCEPT !.at = "retyping", !.other = a, !.box = a \in investment])
    /\ UNCHANGED <<ledger, syncVars, undoable>>

\* Leaving the box puts its rows back first; entering it reapplies the rules.
afterRetype_NoReapply(s) == IF op[s].box THEN "unbox" ELSE "idle"
afterRetype_NoRelease(s) == "reapply"
afterRetype(s) == IF op[s].box THEN "unbox" ELSE "reapply"

RetypeWrite(s) ==
    /\ op[s].at = "retyping"
    /\ investment' = IF op[s].box THEN investment \ {op[s].other}
                                  ELSE investment \union {op[s].other}
    /\ Goes(s, [op[s] EXCEPT !.at = afterRetype(s)])
    /\ UNCHANGED <<stored, txn, userRules, syncVars, undoable, ops>>

\* releaseClosedBox: the account's unpaired transfers, a person's aside, are
\* read, to be given the flow of their amount.
UnboxRead(s) ==
    /\ op[s].at = "unbox"
    /\ LET rows == {r \in stored : /\ account[r] = op[s].other
                                   /\ txn[r].flow = "TRANSFER"
                                   /\ txn[r].pair = NoRow
                                   /\ txn[r].src # "MANUAL"}
       IN Goes(s, [op[s] EXCEPT
                     !.at = "unboxing",
                     !.todo = RestoreBatches({ [id |-> r, cat |-> NoCat,
                                 src |-> "AGGREGATOR", flow |-> flowByAmount(r)]
                                 : r \in rows })])
    /\ UNCHANGED <<ledger, syncVars, undoable, ops>>

UnboxDone(s) ==
    /\ op[s].at = "unboxing" /\ op[s].todo = {}
    /\ Goes(s, [op[s] EXCEPT !.at = "reapply"])
    /\ UNCHANGED <<ledger, syncVars, undoable, ops>>

\* The host kills the action's function: later writes are not made, and no
\* undo reaches the page.
SessionKilled(s) ==
    /\ op[s].at # "idle"
    /\ kills < MaxKills
    /\ kills' = kills + 1
    /\ Goes(s, Idle)
    /\ UNCHANGED <<ledger, syncAt, fetched, fresh, seenRules, batches, hints,
                   pairs, half, undoable, ops>>

-----------------------------------------------------------------------------
Start(s) ==
    \/ \E r \in Rows : \/ ShowRow(s, r, "categorize") \/ ShowRow(s, r, "clear")
                       \/ ReleaseRead(s, r) \/ Unlink(s, r)
    \/ \E i, o \in Rows : LinkRead(s, i, o)
    \/ \E p \in Payees, target \in Targets : Decide(s, p, target)
    \/ UndoRule(s)
    \/ \E a \in Accounts : RetypeRead(s, a)

Continue(s) ==
    \/ Categorize(s) \/ ClearRead(s) \/ ClearWrite(s)
    \/ ReleaseWrite(s) \/ LinkWrite(s)
    \/ ConfirmRead(s) \/ ConfirmWrite(s)
    \/ ReapplyReadRules(s) \/ ReapplyReadRows(s) \/ ReapplyWrite(s) \/ ReapplyDone(s)
    \/ RestoreWrite(s) \/ UndoDone(s)
    \/ RetypeWrite(s) \/ UnboxRead(s) \/ UnboxDone(s)

\* The pipeline's steps leave the sessions alone.
SyncStart ==
    /\ Overlap \/ \A s \in Sessions : op[s].at = "idle"
    /\ Fetch

SyncNext == (SyncStart \/ SyncStep \/ SyncKilled) /\ UNCHANGED sessionVars

Next == SyncNext \/ \E s \in Sessions : Start(s) \/ Continue(s) \/ SessionKilled(s)

Spec == Init /\ [][Next]_vars

\* A sync that has started goes on, and syncs keep being started (the cron
\* runs every night).
FairSpec == Spec /\ WF_vars(SyncStep /\ UNCHANGED sessionVars)
                 /\ WF_vars(SyncStart /\ UNCHANGED sessionVars)
                 /\ \A s \in Sessions : WF_vars(Continue(s))

-----------------------------------------------------------------------------
Category == Categories \union {NoCat}

\* What an action holds between its read and its write: rule writes, rows to
\* put back, and what an undo needs.
RuleWrites == [cat : Category, flow : {"TRANSFER", Keep}, ids : SUBSET Rows]
RowWrites == [cat : Category, src : Sources, flow : Flows, ids : SUBSET Rows]
Snapshots == [id : Rows, cat : Category, src : Sources, flow : Flows]
Undos == [payee : Payees \union {NoRow}, previous : Rule \union {NoRule},
          restore : SUBSET Snapshots]

OnRow == {"categorize", "clear", "clearing", "releasing", "linking"}
Reapplying == {"confirm", "confirming", "reapply", "reapplyRows", "reapplying"}
Retyping == {"restoring", "retyping", "unbox", "unboxing"}

Op == [at : {"idle"} \union OnRow \union Reapplying \union Retyping,
       row : Rows \union {NoRow}, other : Rows \union Accounts \union {NoRow},
       box : BOOLEAN, todo : SUBSET (Rule \union RuleWrites \union RowWrites),
       rules : [Payees -> Rule \union {NoRule}], undo : Undos]

OpOK(o) ==
    /\ o \in Op
    /\ o.at \in OnRow => o.row \in Rows
    /\ o.at = "linking" => o.other \in Rows
    /\ o.at \in {"retyping", "unbox"} => o.other \in Accounts
    /\ o.at \in {"confirm", "confirming"} => o.todo \subseteq Rule
    /\ o.at = "reapplying" => o.todo \subseteq RuleWrites
    /\ o.at \in {"restoring", "unboxing"} => o.todo \subseteq RowWrites

TypeOK ==
    /\ SyncTypeOK
    /\ op \in [Sessions -> Op] /\ \A s \in Sessions : OpOK(op[s])
    /\ undoable \in [Sessions -> Undos]
    /\ ops \in 0..MaxOps

\* A row inside an investment account worded as activity inside it (a sale, a
\* dividend) never pairs with a bill of the same amount: the rules pass has
\* enclosed it before pairing looks, also when an earlier run was killed.
InsideNeverPairs ==
    \A r \in Internal : isClosedBox(investment, r) => txn[r].pair = NoRow

\* A P2P payment has a category only if a person gave it one: no rule, bank
\* hint, reapply or undo categorizes it unseen (merchants-and-rules.md).
P2PNeverCategorizedUnseen ==
    \A r \in P2P : txn[r].cat # NoCat => txn[r].src = "MANUAL"

\* Two rows linked as a transfer are opposite amounts in two accounts, at
\* most four days apart, whatever ran in between or was killed
\* (detectTransferPairs and the two updates in runPipeline).
PairsMatch ==
    \A r \in Rows :
        LET p == txn[r].pair IN
        p # NoRow => {r, p} \subseteq stored /\ (Opposite(r, p) \/ Opposite(p, r))

\* A link is returned, but for the pair being written: no row is left
\* pointing at one that is free, or is another's partner.
PairsReciprocal ==
    \A r \in Rows :
        LET p == txn[r].pair IN
        p # NoRow => txn[p].pair = r \/ half = [out |-> r, in |-> p]

\* Both sides of a linked transfer are out of every total once no pipeline
\* is between its two writes ("paired and left out of spending and income").
PairedIsTransfer ==
    \A r \in Rows :
        LET p == txn[r].pair IN
        p # NoRow /\ half = NoPair => txn[r].flow = "TRANSFER" /\ txn[p].flow = "TRANSFER"

\* What a person decides about a row, and what the row is decided to be.
Decided(t) == <<t.cat, t.src, t.flow>>

Spared(r) == txn[r].src = "MANUAL" => Decided(txn'[r]) = Decided(txn[r])

\* Only a person's own action on a row changes what a person decided about
\* it: no sync, reapply, retype or other row's decision does.
ManualIsSacred ==
    [][ \A r \in Rows :
          \/ Spared(r)
          \/ \E s \in Sessions :
                op[s].row = r /\ op[s].at \in {"categorize", "clearing", "releasing"} ]_vars

\* A row categorized by hand while the rules pass runs keeps its category:
\* the pass writes after its read, and repeats the guard in the write.
RulePassSparesManual == [][ RulePass => \A r \in Rows : Spared(r) ]_vars

\* Pairing never takes a row a person decided ("would silently delete a
\* human's decision", sync.ts).
PairingSparesManual == [][ PairOut \/ PairIn => \A r \in Rows : Spared(r) ]_vars

\* Undoing a payee's decision changes no row decided by hand since; the P2P
\* rows it confirmed are its own to take back.
UndoSparesManual ==
    [][ (\E s \in Sessions : op[s].at = "restoring" /\ RestoreWrite(s))
          => \A r \in Rows \ P2P : Spared(r) ]_vars

\* "Reapplying rules never touches a transfer pair" (money-and-analytics.md).
ReapplyLeavesPairs ==
    [][ (\E s \in Sessions : ReapplyWrite(s))
          => \A r \in Rows : txn[r].pair # NoRow => txn'[r] = txn[r] ]_vars

\* Importing again changes nothing stored: the feed may repeat any row in any
\* sync, and the decisions made about it stay.
ReimportChangesNothing ==
    [][ stored \subseteq stored' /\ (Insert => \A r \in stored : txn'[r] = txn[r]) ]_vars

\* A stored row a rule would categorize does not wait for good: a later sync
\* reaches the rows a killed one left between its insert and its rules.
StrandedRowsReached ==
    \A r \in Rows :
        (r \in stored /\ Waiting(txn[r]) /\ r \notin P2P /\ ruleFor(userRules, r) # NoRule)
            ~> (~Waiting(txn[r]) \/ ruleFor(userRules, r) = NoRule)

\* A row in an investment account, a person's decision aside, leaves income
\* and spending ("Becoming an investment account takes its rows out",
\* accounts/actions.ts).
BoxEncloses ==
    \A r \in Rows :
        (r \in stored /\ isClosedBox(investment, r))
            ~> (txn[r].flow = "TRANSFER" \/ txn[r].src = "MANUAL"
                   \/ ~isClosedBox(investment, r))

\* An uncategorized transfer in no closed box, of which neither a pair, a
\* transfer rule nor a person speaks.
Loose(r) ==
    /\ r \in stored /\ ~isClosedBox(investment, r)
    /\ txn[r].flow = "TRANSFER" /\ txn[r].cat = NoCat
    /\ txn[r].pair = NoRow /\ txn[r].src # "MANUAL"
    /\ ruleFor(userRules, r) # Enclosed

\* No row that was ever in the box stays a transfer out of it: what left it is
\* put back ("ceasing to be one has to put them back", accounts/actions.ts),
\* a row its import flagged by its wording with the rest.  Such a row that was
\* never inside stays flagged, for nothing unflags it; any other is let go.
LeavingBoxReleases ==
    \A r \in Rows :
        /\ [](r \in stored /\ isClosedBox(investment, r) => [](Loose(r) => <>~Loose(r)))
        /\ feedFlow[r] # "TRANSFER" => (Loose(r) ~> ~Loose(r))

\* A row linked to the other side of a transfer ends with both sides out of
\* every total.
PairedLeavesTotals ==
    \A r \in Rows :
        (txn[r].pair # NoRow)
            ~> (txn[r].pair # NoRow => txn[r].flow = "TRANSFER"
                                         /\ txn[txn[r].pair].flow = "TRANSFER")
=============================================================================
