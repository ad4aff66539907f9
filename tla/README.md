# ducat in TLA+

ducat is a personal-finance application: one operator, one ledger, a bank feed,
statement files, and figures computed from what is stored. It runs as hosted
functions (Next.js server actions and a nightly cron) and as local scripts, all
against one SQLite/libSQL database through Prisma. There is no process that
owns the data: every function and script is a client of the database, each call
is a round trip, and the host may stop a function at its limit (60 s) between
any two calls. Almost nothing runs inside a transaction. Much of what can go
wrong therefore lives between calls: what was read before another client's
write, and what was written before a kill. The rest lives in the arithmetic of
the figures, which several screens compute each in its own way from one ledger.

The modules here describe both. Each database call of a modelled operation is a
step; what the code keeps in a local variable between two calls is kept in a
variable of the model. A pure function is an operator, checked against what it
promises over small inputs that include its boundaries.

## 1. Inventory

Paths are relative to the repository. "Part" in the status column means that
some operation of the component is left out; `PROJECT.json` says which.

| Component | State it keeps | Operations | What makes it correct | Status |
|---|---|---|---|---|
| Sync lock, `src/lib/sync/lock.ts` | the Setting row `sync.running` | claim, release | one sync at a time; a killed run never blocks for good; nobody deletes another's claim | whole |
| Sync pipeline, `src/lib/sync/sync.ts` | accounts, snapshots, rows, `lastSync:<type>`, SyncLog | fetch, dedupe, insert, rules, hints, pairing, cursor | re-import changes nothing; no row stranded by a kill; a person's decision is not overwritten | part |
| Fetch window and cursor, `sync.ts`, `connectors/simplefin.ts` | `lastSync` | window, warning, cursor | what the feed showed is stored or its day is named | whole |
| Rules and classification, `rules.ts`, `closedBox.ts`, `sourceCategory.ts`, `p2p.ts`, `releaseTransfer.ts` | none | which rule applies; enclose, clear, release | P2P never categorized unseen; the closed box before any rule; MANUAL never ruled | part |
| Transfer detection, `transfers.ts` | none | greedy pairing | exact opposites, two accounts, four days, one partner each | whole |
| Operator's ledger actions, `app/transactions/actions.ts` | rows, rules, a page's undo | categorize, clear, release, link, unlink, decide, undo | a decision changes its own rows; an undo restores them | part |
| Rule reapply, P2P confirmation and restore, `rulePack.ts` | rules, rows | reapply, confirm, restore, release the box | MANUAL and pairs spared; the snapshot is what was changed | part |
| Account retyping, `app/accounts/actions.ts` | account type, rows | retype | every row on the right side of the closed box | whole |
| Connectors, `src/lib/connectors` | none | parse, fetch | rows with stable ids | part |
| PDF statement readers, `connectors/pdf` | none | lines to rows, reconcile | an accepted statement is what the bank printed | part |
| Statement import and overlap, `statementImport.ts`, `overlap.ts`, `previewImport.ts` | rows, batches, snapshots | plan, write, dry run | a purchase in two sources counts once; a batch owes nothing | part |
| Insights engine, `src/lib/insights` | Insight rows | regenerate, dismiss, analyze | what is stored is what a full run would write; a dismissal survives | part |
| Usage meter and limits, `src/lib/usage` | UsageCount, counts in memory | count, flush, cap | counts neither lost nor doubled | part |
| Backup, retention and local mirror, `scripts/` | files, `backup.lastRun`, the local database | copy, verify, prune, mirror, record | only proven copies bear the name; local work is never replaced unseen | part |
| Authentication, `app/login`, `src/lib/auth`, `middleware.ts` | TOTP floor, cookies | log in, remember, sign out | a code opens one session; every session earned | whole |
| Category edits, `categoryEdits.ts`, `CategoryPicker` | categories, rules, rows | create, rename, delete into | nothing points at what is gone | part |
| Groups and review suggestions, `groups.ts`, `grouping.ts`, `groupSuggest.ts` | trip labels, staged decisions | tag, rename, group, suggest, apply | only what was chosen is written, to the rows it was shown for | part |
| Health and provider status, `src/lib/health` | SyncLog, volumes, subscriptions | derive, register | nothing dies quietly; renewals fall on the biller's day | part |
| Goals and mortgage rate, `ui/netWorthGoal.ts`, `insights/goals.ts`, `readiness.ts` | Settings | declare, project, save | the figures are the record's; a saved answer is the one stored | part |
| Demo instance, `src/lib/demo` | `demo.lastReset` | decide, wipe, seed, record | half a reset is due again | part |
| Recurring plans and commitments, `insights/recurring.ts`, `recurringAlerts.ts` | decisions | detect, fold, ask, answer | an answered question stays answered | part |
| Report and figures, `ui/report.ts`, `cashFlow.ts` | none | sum, net, link | every view sums the same rows | part |
| Schema upgrades, `scripts/push-schema.ts` | the schema | compare, push | a push ends at the declared schema or says why not | part |
| Pages, components and view derivations | addresses, drafts | filter, page, edit, show | a page tells what is stored | part |
| Maintenance scripts | — | reset, repair, install | run by hand on a quiet database | not modelled |

How they interact: the cron (`app/api/cron/sync/route.ts`), "Sync now"
(`app/actions.ts`) and the import scripts call `runSync`, which claims the lock,
runs the pipeline and releases the lock in `finally`. Server actions take no
lock and run beside the pipeline over the same rows. The pipeline and the
actions share the rule engine and, at their end, regenerate insights. Pages
read; they offer a control on what they read earlier. Backups and the schema
scripts read and write the same database from outside. Settings are whole JSON
values, read and written back by several tabs and scripts.

The hazards of each, at the line where they bite, are in `PROJECT.json`.

## 2. Modules

    SerialSyncs        one sync at a time (abstract)
    SyncLock           the lock; INSTANCE SerialSyncs WITH inside <- ...
      MCSyncLock         instances for TLC          SyncLockProofs    theorems
    Classification     pure decisions about a row
    SyncPipeline       one sync over the ledger, call by call
    Ledger             the operator's actions beside the pipeline
      MCLedger           instances for TLC          LedgerProofs      types, pairs, re-import
      MCLedgerUndo       a history for undo         DecisionProofs    manual rows, totals,
                                                                      the box, P2P payments
    Intake             the feed's window and the imports beside it (on Overlap)
    Usage              the meter                  }
    InsightStore       regenerated insights       } ServiceProofs     theorems about these seven
    Access             login and sessions         }
    Demo               the demo's reset           }
    Plans              recurring plans (on Stats) }
    Schema             schema upgrades            }
    Backups            copies, mirror, record       CopyProofs        theorems
    Overlap, Statements, Figures    pure: the row match, the PDF layouts, the figures
    Sheets             the pure three, each beside its reference definition
      MCParts            composes Intake .. Sheets for TLC
    Pickers Trips LedgerPage Review Repay CsvImport Budget
      MCScreens          composes the screens     ScreenProofs      theorems
                         that write the ledger
    WorthGoal Health Renewals SavingsGoals HouseReadiness Nudges Signals Pace
      (on Outlook and Stats)
      MCPages            composes the pages     ScreenProofs proves of the first,
                         that tell what is      second, fourth and fifth too
                         stored

`SyncLock` justifies the single pipeline of `SyncPipeline` and the single run of
`Intake`; `Ledger` composes the pipeline with the operator's sessions over one
set of rows. The parts of `MCParts`, the screens of `MCScreens` and the pages of
`MCPages` share no state, so their product would only multiply: in those three
modules one part is chosen at the start and moves, and the others rest in one of
their own initial states. A property about a screen or a page reads `screen = s
=> ...`: at rest it is checked in the run's own initial states of that
screen. Nothing about interaction between two parts is claimed by those runs.

Two kinds of definition are not the code's. Variables named in a module's
comment as history (what was really asked, what was shown, what is owed) are
written by the actions and read only by properties. And `X_Fault` is the form a
plausible bug would give `X`; no specification uses it. `PROJECT.json` names,
for every property of a passing run, the fault that breaks it. In its map, a helper whose
lines lie within those of the operator it serves is not listed by itself.

## 3. The lock

`SyncLock` has one *run* per invocation of `runSync`. `Read`, `Create` and
`Swap` are the three database calls of `claimSyncLock`, `Release` that of
`releaseSyncLock`; `Finish` is the pipeline returning or throwing. `clock[r]`
is the caller's `now`, read once before the first await; it may be ahead of the
real time by at most `Skew`. `Tick` is guarded by the host's limit: a *hosted*
run cannot be alive past `MaxDuration`; a local one can. `Kill` may come between
any two calls, which also stands for a call that fails. `CreateError` is a
create that fails, having written or not, which the code's `catch` treats as a
lost race. The row may initially hold a claim left by an earlier killed run, or
a value that cannot be parsed (expiry 0). The claim's uuid is the run's
identity: two runs never write the same value.

## 4. The ledger

A *row* is a transaction. What the feed says of it (account, amount, day, the
payee its rules match, whether it is P2P, whether it is worded as activity
inside an investment account) never changes and is given by constants. What the
app decides is the record `Txn`: category, source, flow, partner, and the
expense a repayment is for.

`Classification` holds the pure decisions as operators: `Ruled` and `Outcome`
are `applyRules`; `ByRule` is the write; `Batches` groups rows going to
the same category and flow, which are written by one `updateMany`.
`detectTransferPairs` is stated as the function it computes: every out, in
the order of the sort, takes the nearest in no earlier out has taken.

`SyncPipeline` is one pipeline (the lock makes it one, §3):

| Step | Call in `runPipeline` |
|---|---|
| `Fetch` | the feed's answer and the read of the keys already stored |
| `Insert` | `createMany` of the fresh rows |
| `ReadRules`, `ReadWaiting` | the reads of the rules and of rows still waiting |
| `WriteBatch`, `WriteHint` | one `updateMany` per outcome, guard repeated |
| `ReadCandidates` | the candidates for pairing and the pairs found |
| `PairOut`, `PairIn` | the two updates of a pair, by id, no guard |
| `SyncFinish`, `SyncKilled` | the return; a kill or a failed call anywhere |

`Ledger` adds sessions: tabs (or scripts) that run one server action at a
time, each call a step. `op[s]` keeps what the action has read. `ShowRow` is
the page: it offers the category cell on a row that was not a transfer, and not
a linked repayment, when rendered; the write names the id alone. `Decide` is
`upsertRules`, then `confirmP2PMatches` and `reapplyRules`; the undo it hands
the page is in `undoable`. `Retype…` is `setAccountType` with
`releaseClosedBox` and the reapply. With `Overlap = FALSE` one operation or
sync runs at a time.

## 5. How rows arrive

`Intake` dates everything in days. A *purchase* is one movement of money: the
feed dates it when it posts (`post`) and shows it later (`seen`); a statement
prints it under a day of its own. `FeedStarts` works out the window from the
cursor, `ListAccounts` and `FetchTransactions` are the two requests and the
cached answer between them, `InsertFeed`, `FinishFeed` (the cursor), `LogFeed`
(the warning) the writes in their order. `Plan` is `planStatementImport`, all
reads, before the lock is asked; `CreateAccount`, `WriteSnapshots`,
`ClaimForImport`, `InsertRows`, `RecordBatches` the writes. The feed and the
import are killed, and the feed fails, anywhere. `IntakeIsWhole` has three
parts: what the feed showed is stored or its day is named, a recorded statement
owes nothing, and every stored row can stand for a purchase of its own.
`Overlap` is the row match the plan uses.

`Usage` is the meter: instances count in memory (`pending`), send what they
have (`flight`) and put it back when the statement fails, or when it landed and
its answer was lost.

## 6. Services beside the ledger

* `InsightStore`: runs of the engine, one per edit over the months it can have
  changed and a full one each night, read, compute and then replace their scope
  in one transaction. What an analyzer says of a month is kept as the months it
  was computed from, so that "as a full run would write" is equality. Pay is
  judged over all the records, so an edit may change what a month before its
  scope should say of it (`unreached`); a run that dies, or that another overtakes
  between its read and its write, may leave the months of its scope wrong
  (`behind`) until a clean run covers them. `ScopedRunsAgree` claims all other
  months; `PayAgrees` and the hazards say what these are worth.
* `Access`: the login's steps over the one-use claim of a code's step, cookies
  with the fingerprint of the credentials they were made under, a deployment
  that changes its credentials meanwhile.
* `Demo`: the reset statement by statement, visitors writing throughout, the
  host stopping it between any two.
* `Backups`: the nightly backup and the one by hand, copied table by table while
  the cloud is written to; checked, renamed, pruned; the mirror with its two
  fingerprints; the record in the cloud and in local. A digest is the content it
  was computed from. The backup by hand compares counts alone: its file holds
  settings and rows the cloud had, perhaps of two moments (`ProvenWasRead`).
* `Plans`: charges arrive, a price rises, a descriptor changes, a charge goes
  missing; the questions they raise and the operator's answers to them. An answer
  reads the Setting and the page's insights and later writes the whole map, so
  two calls may overlap; the one that wrote first is then lost.
* `Schema`: a checkout's declared schema against the database's, item by item;
  two people push beside an app that writes, and are stopped between calls.

## 7. Algorithms

`Sheets` runs each pure algorithm once on a small input, beside a definition of
what it should give that is not written like it: the overlap match against
maximum matchings (`OnlySurplusAdded`), a layout against the rows the bank knew
before one or two mishaps of paper, scan or text (`AcceptedIsTrue`), and the
figures of seven views against each other (`FiguresTellTheLedger`). Inputs are
enumerated as initial states. A card's row has a transaction and a post date, and
is dated by the first where the second cannot be read, so a mishap may move a row to the
day of its purchase (`DatesArePrinted` is refuted). A refund of a
whole purchase may cancel its group over the span; the chart then leaves out the
group but not its months (`ChartAddsUp` is refuted).

## 8. Screens and pages

The seven modules of `MCScreens` are screens that write the ledger, each with
the server actions its tabs ask for. A tab's requests are answered one after
another, an answer may be lost, and rows arrive between any two. The eight of
`MCPages` are pages and the settings, scripts and derivations behind them. Each
module states one invariant, `…KeepsItsWord`, a conjunction of named parts with
a comment each: for instance that a review's *Apply all* writes exactly what
was chosen (`OnlyWhatWasChosen`), that the pages of the ledger are a partition
of the list (`PagesShareTheList`), that a feed that dies turns the providers page
(`NothingDiesQuietly`), or that growth's parts add up (`GrowthAddsUp`).

## 9. Runs

| Run | Instance | Shows |
|---|---|---|
| `lock` | three hosted runs, lease 2, limit 1, four ticks | mutual exclusion, implementation of `SerialSyncs`, no claim that blocks for good, only its owner or a lapse ends a claim |
| `lock_local` | two hosted, one local, clocks one apart, lease 3, five ticks, failing creates | the row stays a run's own inside its lease; an overlap needs a run past its lease |
| `ledger_overlap` | category edits, clears, decisions and repayment links overlapping syncs; two operations | types; links returned; paired rows are transfers |
| `ledger_killed` | one operation overlapping syncs, one kill anywhere, activity inside a box | linked rows match; inside activity never pairs; the rules pass spares a concurrent manual choice; re-import changes nothing; stranded rows are reached |
| `ledger_serial` | all operations but undo, one at a time, two of them; a row the feed flags TRANSFER by its wording | manual decisions survive everything else; both directions of a retype; pairs end out of the totals |
| `ledger_undo` | decisions and undos between syncs, two P2P rows, one kill, three operations | an undo taken before anything else happens restores every rule and row |
| `ledger_p2p` | decisions, undos and category edits overlapping syncs; P2P rows that a shipped rule and the source's category speak for | P2P never categorized unseen |
| `pairing_race` | one category edit beside a sync | *violated*: pairing takes a row categorized after its read |
| `services` | intake, the meter, insights, the demo and plans | `IntakeIsWhole`, `MeterCountsOnce`, `ScopedRunsAgree`, `DismissalsSurvive`, `NotDueIsWhole`, `AnswersKept` |
| `readers` | copies, logins, schema pushes and the sheets | `CopiesAreTrue`, `PruneKeeps`, `SessionsAreEarned`, `PushesAreTrue` and the three of §7 |
| `screens` | the seven screens | `LedgerDecisions`, `MoneyPages`, `StatementFiles` |
| `pages` | the eight pages | `GoalPages`, `HealthPages`, `InsightPages` |

### Bounds, and why they are enough

*Lock.* The lease must exceed limit plus skew, as 300 s exceed 60 s, and the
clock must run long enough for a run to be killed, its lease to lapse, a second
to take over and a third to find the second's claim. Three runs are needed for
two to contend for what a third one left.

*Ledger.* Three rows of one amount, two payments out of the bank and one arrival
at the broker: the smallest in which an arrival is contended, a pair can be
one-sided and its free side taken by another, and a payee has two rows.
One payee has a pack rule; one row has a category of its source. The broker
starts as either type. In `ledger_killed` the second payment is five days
from the arrival, one past the window. In `ledger_serial` it is a trade at the
broker that the source flags TRANSFER by its wording: retyping the broker
brings it into the box and lets it go, while one never inside stays flagged, as
the code leaves it. Syncs are unbounded: the
feed may answer with any set of rows any number of times. `MaxOps` bounds the
operations started, `MaxKills` the kills.

*Services.* Intake has six days, a reach of three and a lookback of one, one
mishap, four purchases (one late in the feed, two that swap days between
sources, one of a closed account) and three statements that overlap. The
meter has two instances, two days and two upsets; insights three months with a
lookback of one, so that pay is judged beyond an edit's reach, two tabs and two
edits; the demo two tables, two months, two
releases and one stop. Plans live 90 days with two descriptors, two answers,
and two calls that may overlap. Each is the smallest in which two actors meet twice or
a killed step is followed by a whole one.

*Readers.* Four dates over two months with one kept daily, so that pruning
removes a file and must keep a month's newest; one kill. Logins have two
browsers, four deployments and codes over four periods. Two people push any of
eight releases onto any of four databases, with two rows of the table that is
there (a value can repeat), one of the table a release adds, and one hand edit.

*Screens.* Two tabs (symmetric), at most one picker open, since there is one
keyboard; two requests, hops, sends, saves or failures each. A ledger page's
periods are single months and spans. The budget has two tabs only in a month
that does not close (the state constraint); a category is spent in once a month
there. A purchase may be a refund, which alone leaves its category negative; a
refunded budget sees one tab and one save. A month-end's amount is quoted, split
by its own separators or left blank, in three places of its row; one stored
short sees no dry run. `runSync` is one step of `CsvImport`: its own steps are
`SyncPipeline`'s.

*Pages.* Calendars are scaled down by constants: a year of four months, months
of three to five days, a horizon of 16 months, a landing whose arithmetic is
skewed by fractions of a month. The thresholds (stale, overdue, nights before a
warning) keep their order. The feed has brought rows every day, most days or on
two, so that a long silence brings its typical month below the minimum in some.
Two syncs may fetch the house's rate at once; a third fetch comes only with one
fund and at most one declaration (the state constraint). The typed days include
one to come. A goal may be given one account by two words.

Symmetry is used only over runs, tabs or people that are alike and where no
liveness is checked: `lock_local`, `services` (the calls), `screens`, `pages`.
The lock's runs, `services`, `readers`, `screens` and `pages` say CHECK_DEADLOCK
FALSE, because their instances end: time, days, operations or edits run out. The
ledger's runs check deadlock, for a sync can always be started.

### Fairness

`lock` (`SyncLock!FairSpec`): `WF(Step(r))` for every run, because a live
function is resumed after each reply. A killed run takes no step, so
`NoStuckLock` assumes nothing of it; nor is time assumed to pass: the property
speaks of a call made once the claim has lapsed. `ledger_killed` and
`ledger_serial` (`Ledger!FairSpec`): a sync started goes on, syncs keep being
started (the nightly cron), and a session's function continues. Sessions are
never assumed to *start* anything. The other runs check safety and assume no
fairness.

## 10. Proved

TLC checks the instances above. What follows is proved by TLAPS for all values
of the constants: any number of runs, rows, accounts, payees, tabs, days,
tables or dates, and any bound on operations and kills unless one is named as an
assumption. Every listed theorem is of the form: an invariant holds initially, each
action keeps it, and it implies the property.

### The lock: `SyncLockProofs`

* `TypeCorrectness`, `LeaseSafety`, `OverlapSafety`, `ClaimsLeaveProperly`.
  The inductive invariant `IInv` is the types, `LeaseHeld`, and two facts that
  make it inductive: a run about to swap has read a claim already lapsed on its
  own clock (`SwapFromLapsed`), and a called run's clock was read at its call,
  at most `Skew` ahead (`ClocksInStep`). Without them a swap could start from
  a working run's live claim.
* `Exclusion` and `Refinement`, under `LeaseOutlastsRuns`: every run is hosted
  and `MaxDuration + Skew < TTL`. A hosted run is never alive past its limit
  (`HostLimit`), so it never outlives its lease. The refinement maps `inside` to
  the run that works; entering is `Create` or `Swap`, leaving is `Release` or
  `Kill`, all else stutters.

### The ledger: `LedgerProofs`, `DecisionProofs`

* `LinkedRowsMatch`: linked rows are stored, of opposite amounts, in two
  accounts, within the window, with all operations overlapping and any kills.
  `LinkInv` adds the shape of the variables and `PipelineOK`: what the pipeline
  holds between calls (`pairs`, `half`) are opposites that are stored. A link is
  only written from those; every other write keeps the field.
  `DetectionMatches` and `DetectionDisjoint` are the lemmas about
  `detectTransferPairs`: its pairs are opposites, and share no row.
* `LinksReturned` (assumption `MaxKills = 0`): a link is returned, but for the
  pair between its two writes. `ReciprocalInv` adds `PairingOK`: the rows of the
  pairs still to be written are unlinked and disjoint. A sync killed between
  the two updates of a pair does leave one side, hence the assumption.
* `ReimportIsSafe` and `RulePassGuarded`: action properties, from `LinkInv` and
  from the guard repeated in the write.
* `LedgerTypes`: `TypeOK` is inductive because it types by its kind each write
  an action holds between its read and its write.
* `P2PSeenFirst`: a P2P payment has a category only if a person gave it one. What
  the rows hold is not inductive, because the writes in flight could break it at
  any later time. `P2PInv` therefore also says that no rule write or hint already
  read for, and no snapshot already taken, would give a P2P row a category unseen
  (`SafeBatches`, `SafeSnapshots`, `SyncSafe`), in the pipeline, in every
  session and in every undo; and that the operator's transfer rules set no
  category (`SafeRule`), the one kind of rule a P2P row takes.
* `PairsLeaveTotals` (`MaxKills = 0` and `FlowsKept`: no undo, and neither a
  release nor a retype beside a sync): once no pair is half written, both rows of
  a pair are TRANSFERs. `FlowInv` adds `PairedFlow` (true also of the half written pair) and
  `FreeWhenWritten`: the two actions that take a flow away hold rows without a
  partner until they write. `SessionsOK` (one at a time where that is asked, only
  operations of the instance, no pair in flight while a session works alone) is
  what lets `FlowsKept` be used. An undo writes back the flow it read before a
  pairing, and a release read before a pairing takes the flow from a
  row that has since been paired; TLC shows both, so the assumption drops neither.
* `ManualDecisionsStay` (`Alone`: one operation or sync at a time, no undo): the
  action property `ManualIsSacred`. `SacredInv` says of everything read and not
  yet written (the pairs, the batches of a reapply or of the box, the payments
  to confirm) that no person has decided it, and that only stored rows are
  decided. Overlap is what `pairing_race` is about; an undo over a later decision
  is a finding.
* `InsideStaysUnpaired` (`BoxKept`: no account is retyped, and where undo is an
  operation no P2P row is activity inside a box): `InsideInv` says that a row
  inside the box is unpaired and is a person's, a TRANSFER or still waiting in a
  batch; that every batch in flight writes such a row to TRANSFER (`Encloses`);
  and that no snapshot would put it back (`NoneInside`).

### Services: `ServiceProofs`

* `ScopedRunsMatchFull`, `DismissalsCarried`: of regenerated insights, with
  any number of tabs at once and any lookback. `InsightInv`: each month but those
  of `behind` is right (`Right`), but for what it says of pay when `unreached`, or a
  run that will write it is under way (`Awaited`); and what a clean run read is
  the ledger. A clean run takes the months it covers out of `behind`.
* `SessionsEarned`: every session that opens a page was earned by the password
  and, where there is one, a code never used before. `AccessInv` relates the
  login's step to what it has shown (`LoginOK`), each cookie to the proofs of
  its own credentials (`SessionEarned`, `DeviceEarned`), and the used codes to
  the floor.
* `HalfResetIsDue`: a reset stopped anywhere is due again. `DemoInv` carries
  through the wipe that every place is either seeded by this plan or still in
  what is left (`Planned`).
* `MeterExact`: what is stored, in memory and under way is what was asked, plus
  what was counted twice and less what was lost. `MeterInv` is that balance for
  each day. Its sums over the instances are recursive functions: that they exist
  and do not depend on the order taken is proved from the well-founded order
  on finite sets (`FoldsAgree`, `FoldExists`), not assumed; so is what one
  instance's change does to them (`OneChanges`).
* `FeedLosesNothing` (the first part of `IntakeIsWhole`): what the feed showed
  of a day up to the newest finished run is stored, or that day is named to the
  operator. `FeedInv` adds that the cursor is at most a day past that run, that a
  window reaches back from the cursor or names what it leaves out
  (`WindowHolds`), and that the answer holds all that was due (`Answered`),
  whatever an import, a kill or a failure does between.
* `RecordedIsWhole` (the second part): a statement recorded as imported owes
  nothing. `BatchInv` adds `PlanHolds`: what a plan's statements owe is among
  the rows it will add, and what the steps behind it had to write is written.
* `AnswersStay`, `CancelledStaysSilent` (two parts of `AnswersKept`): of the
  operator's answers about recurring plans, with any number of calls between
  their read and their write. `FactsRecorded`: every answer still standing has its
  record, with the same names, date and price, and each call under way will write
  its own answer beside those that stood when it read (`AsksHold`), so a
  write ends only answers made since it read or that it replaces. As a plan has at
  least one member, a record reaches every plan whose names it covers. That an
  overlapping call ends other answers is a finding (`OtherAnswersStay`).
* `PushSaysTrue` (a part of `PushesAreTrue`): a person is told "up to date" or
  "verified" only of a database that has the checkout's schema. It rests on
  `DeltaMissesNothing`: where the delta finds no statement to run, tables, columns,
  constraints and indexes are the same. `SchemaInv` keeps that lemma's
  hypotheses: the database, what a command has read of it and the statements it
  has left are made of what shipped, whatever batch landed whole, landed up to
  a failure or was stopped (`BatchesKeepStores`).
* `HalfPushCompletes` (another part): what a stopped first push leaves is some
  of the version's tables and no other, so that the delta refuses nothing
  (`HalfIsCompleted`). `HalfInv` says so of the database, of what every command has
  read, and that no plan then made adds a column.
* `PushKeepsItsPlan` (a third part, `PlanIsKept`): a plan shown without a refusal, if
  nobody wrote since it was read, fails only on a unique index it cautioned
  of, and what it leaves has nothing left to change. `PlanInv` says of a command
  that is alone with the database that its plan is the delta of what is stored
  now. `PlansAreKept` is the argument about a whole plan: after each statement
  the database is read as before but for the changes made so far (`Reached`,
  `ViewOf`), each done once (`CreatesReach`, `AddsReach`, `IndexesReach`) and an index
  only after the tables it is on (`TablesFirst`); no statement can fail but one
  that makes a unique index over rows that repeat (`BreaksIndex`); and with all the
  changes made the delta has nothing left.

### Copies: `CopyProofs`

* `CopiesStayTrue`, `CopiesTyped`, `PruningKeeps`. `CopyInv` is the shape of the
  two runs and their files (`CopyShape`); a copy whose digests agreed is of one
  moment (`OneMoment`); what the mirror is about to replace is what it compared
  (`WorkKept`); a record names a file that was whole when written (`RunRows`);
  and the dates about to be removed are ones retention does not keep
  (`Retained`), for which it is shown that a finite set of dates has a newest.
  `ReadInv` says of every proven file, one made by hand included, that its
  settings and its rows were each the cloud's, and the same of what a backup has
  read by each of its steps. Only a nightly file is claimed to be of one
  moment, and local rows added between a mirror's check and its record
  (`exposed`) may be lost: both are findings.

### Screens: `ScreenProofs`

* `NamesStayApart`, `DeletedLeavesNothing`: of the categories, for any tabs.
  `PickersInv` adds to them what a request has read and not yet used
  (`RequestHolds`): a name it is about to give is free in the list it saw, a
  rule it is about to make sets a category, and a category it is about to
  delete is not where its rows go. An edit that finds the list as it saw it
  therefore leaves names apart, and one that does not sets `raced`; a deletion
  reads both ends again in its transaction, and so needs no such condition.
  `NextIdIsNew` shows that an id is never given twice. `NothingUnasked`, the
  third part, speaks of a sorted list (`SortSeq`), of which the prover knows
  nothing.
* `EditsAreKept`: of the savings goals. `GoalsInv` says of each card what its
  saves under way will write (`SaveHolds`): the goal as it was read with this
  one pace changed; and of a command of the script that it holds what its edit
  makes of what it read (`CommandHolds`). A write that finds the Setting as it
  was read is therefore the edit, made then. A card at rest is as its last
  answer left it (`CardSettled`), unless a save was sent from a page the Setting
  had left, or an answer was lost.
* `RatesAreDated`: of the house's rate, for any syncs that fetch it at once and
  any typed days, ones to come included. `HouseInv` adds that every observation there
  ever was is one the index published, whole and on a day that had come, and,
  unless an overtaken fetch has written (`rateRaced`), none newer than the
  stored one; `FetchSafe` says that a fetch nothing overtook read what is still stored.
  `LatestPicked` shows what looking back over the days finds.
* `HealthIsTold`: the health page's invariant whole. `HealthInv` has a part for
  each thing that may stop: since when it has, and what the stored rows, logs
  and runs then are (`FeedTells`, `SyncsTell`, `RatesTell`, `BackupsTell`). That
  a bounded set of days has a first and a last is by well-founded induction. A
  silent feed is claimed to show while its record, the silent days in it, is
  still typical: the silence itself dilutes the rate, after which the page is
  green again, a finding (`SilenceKeepsShowing`). `ReaderTells` is about a
  person paging through the history: all that is sought was seen or is still on
  a later page, because logging a sync only moves rows to later pages.
* `GoalIsAsSet`: of the net worth goal. In `WorthInv` a tab's drafts under way
  are in the order they were made, each with the return of the one before it or
  one set that day (`ReturnsTyped`), and the panel shows the last of them
  (`PanelSettled`); a save that is under way is the first of them, and was accepted.
  While `crossed` is false at most one tab has any (`Alone`), so what a save read
  is what is stored.

### What the proofs assume

Only what is named in the modules. Of the constants: `RunsAssumption`,
`TimeAssumption`, `NoRowAssumption` (the lock), `FeedAssumption` (the feed's
data has its types, amounts are not 0, the database's order is total),
`AbsentAssumption` (the values for "none" are none of the others),
`SessionAssumption`, `InsightAssumption`, `AccessAssumption`, `DemoAssumption`,
`UsageAssumption` (the instances are finitely many), `IntakeAssumption`,
`BackupsAssumption` and `PickersAssumption` (what the database holds at first is
consistent), `SchemaAssumption` (a schema that ships, or that the database has
at first, is finite and names each table, and in it each column, once; what
ships has no internal table, and its indexes differ by name and are on columns
of its tables), `AsksAssumption`, `WorthGoalAssumption` (the goal stored at
first was accepted), `HouseAssumption` (days are numbers, an answer stored at
first was stored by the script, and an observation is a record) and
`HealthAssumption` (the allowances are numbers, a warning comes no later than an
error, and what the feed brought before the first night lies in the days before
it). TLC evaluates each on every run. Beyond them only the conditions stated
with a theorem above. The instances of `lock`, `ledger_overlap`, `ledger_serial`
and `ledger_killed` satisfy them where they check the same property, and without
them TLC finds it violated.

## 11. What the checks found

`pairing_race` is expected to be violated: it states a comment of the pipeline
that its pairing does not keep when a person categorizes a row meanwhile.

`PROJECT.json` "findings" quotes, for each of the others, the comment or document
and the line that does otherwise. Many were met as a property that TLC
refuted; where it is stated in its module, it can be checked again by putting it in a cfg:
`KeepsLockWhileWorking` (`SyncLock`); `UndoSparesManual`, `ReapplyLeavesPairs`
(`Ledger`); `ScheduledMirrorSparesWork`, `ProvenIsDigestEqual` (`Backups`);
`VisitorsUndone` (`Demo`); `PayAgrees` (`InsightStore`); `OtherAnswersStay`
(`Plans`); `DatesArePrinted`, `ChartAddsUp`, and
`OnlySurplusAdded` with `Parts = {"late sheets"}` (`Sheets`); `OneDayBalance`,
`DryRunCountsRules`, `SplitNeverStored` (`CsvImport`); `TypedUnitHolds`,
`EditTouchesOne`, `NewIsNeverOver`, `RingIsTheLimits`, `HeadlineIsTheMonth` (`Budget`);
`TripIncludesWhatItSays` (`LedgerPage`); `SilenceKeepsShowing` (`Health`);
`FailureKeepsTheRate` (`HouseReadiness`); `PressedIsHidden`, `RecapKnowsTheLead` (`Nudges`);
`DismissedStayListed`, `ExplainedIsNoDrift` (`Signals`); `PagesSayOnePace`,
`ChargeWasCounted` (`Pace`); `BillingDayHolds` (`Renewals`); `AskedIsOnTime`,
`FundCountsOnce` (`SavingsGoals`). The rest are of details the modules describe but no property
needs.

Other behaviour, of which no document promises otherwise, is noted with the hazards:
a reapply racing a manual choice; an undo after a sync has paired the row, which
leaves a linked row with its old flow; a retype killed half-way or racing a
sync, which leaves rows on the wrong side of the box; a link made from flows read
before a pairing. An undo restores the rows the decision changed; a row a sync
brought in between keeps what the rule made of it. A decision that turns a
transfer rule into a category leaves the flow TRANSFER on the rows it had
reached, because a category rule writes no flow.

## 12. Only model-checked

* Liveness (`NoStuckLock`, `StrandedRowsReached`, `BoxEncloses`,
  `LeavingBoxReleases`, `PairedLeavesTotals`): it needs fairness, which the
  prover does not reason about.
* `NothingTwice`, the third part of `IntakeIsWhole`: that every stored row can
  stand for a purchase of its own is the existence of a matching, and its step
  is an alternating path, an induction over data.
* What an algorithm computes for every input (`OnlySurplusAdded`,
  `AcceptedIsTrue`, `FiguresTellTheLedger`): induction over data again.
* `UndoPutsBack`, over a history of what each decision found.
* `TwinNotDue`, the third part of `AnswersKept`. Which names fold into the plan is
  decided by a fold over all the charges, so that the declared twin stays
  with its plan is a property of the names at hand: a further name of the
  same brand, not in the declared pattern, could take the plan's place.
* Of `PushesAreTrue`: `NothingStranded`, which is about the versions at hand (one that
  drops the column its predecessor added another beside would break it).
* Of the screens and pages (`MCScreens`, `MCPages`), what is not named above.
  Where a part is about one state's figures (`GrowthAddsUp`, `FiguresTold`,
  `CeilingsHold`, `RenewalIsForetold`, `DriftIsThePrice`, the signals, the pace,
  the budget's lines, the pages of the ledger), it is what an algorithm
  computes. Where it is about several steps (`MarkedStaysHidden`, `SaidOnce`,
  `UnreadKept`, the trips, the repayments, the reviews, the statement files),
  the state is kept in sequences that are filtered and sorted (`SelectSeq`,
  `SortSeq`), of which the prover knows nothing.

## 13. Not modelled

* A rule is keyed by its payee in `Ledger`: which text matches is data. Hence two
  rules for one payee, rules of differing specificity, and a decision whose
  identity is a shipped rule's own row are not represented there. `Decide` reads
  and writes its rule in one step.
* In the ledger all rows lie inside the fetch window and the candidates' scan;
  the window itself is `Intake`'s. Account upserts and daily snapshots of a
  sync are left out. Amounts of zero, which never pair, are excluded.
* `SyncPipeline` has one pipeline at a time, as `SyncLock` establishes for hosted
  runs; a local import past its lease would overlap.
* Text: what a descriptor is tokenized into, the geometry of a PDF page, dates in
  words, a file's split into cells, wording, formatting and layout.
* Libraries and services: hashing and signing, HTTP, SQL beyond the calls made,
  the host's scheduler. They are modelled from how the code uses them.
* Of the pages: trends, accounts, charts, tables. Of the analyzers: net worth's
  reconstruction of past balances, the coverage of accounts. Shared plans, a
  parent category, the demo's invented figures, two backups within one minute.
* Maintenance scripts: run by hand on a quiet database, each one write over every
  row.

`PROJECT.json` says of each component what is left out.

## 14. Plan

Next to be proved: the parts of the screens and the pages that are invariants of
several steps and whose state could be kept in sets rather than sorted sequences:
the trips and the reviews first;
`NothingTwice` for imports whose
statements do not overlap, where the matching is the identity.

## 15. Running

    tlc -workers 2 -config MCServices.cfg MCParts.tla
    tlapm ServiceProofs.tla

Each run's module and cfg are listed in `PROJECT.json`. The six modules of theorems
are checked one by one.
