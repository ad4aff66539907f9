--------------------------- MODULE DecisionProofs ---------------------------
(***************************************************************************)
(* What the operator decided and what pairing did survive each other: the  *)
(* proofs, each under the weakest limit on the operations it holds for.    *)
(* The arguments are about what is on its way to a row.  A session that    *)
(* runs alone (~Overlap) finds every row as it read it; with overlap, only *)
(* the writes that no interleaving makes wrong are left.                   *)
(***************************************************************************)
EXTENDS LedgerProofs

\* With ~Overlap, a session that is doing something is the only one, and no
\* sync runs beside it.
OneAtATime ==
    ~Overlap =>
        \A s \in Sessions : op[s].at # "idle" =>
            /\ syncAt = "idle"
            /\ \A z \in Sessions : op[z].at # "idle" => z = s

\* A session is only where its operations take it.
OpsExercised ==
    \A s \in Sessions :
        /\ op[s].at = "releasing" => "release" \in Operations
        /\ op[s].at \in {"retyping", "unbox", "unboxing"} => "retype" \in Operations
        /\ op[s].at = "restoring" => "undo" \in Operations

\* Pairs are written by a sync that is pairing.
PairsPending == pairs # {} \/ half # NoPair => syncAt = "pairing"

SessionsOK == OneAtATime /\ OpsExercised /\ PairsPending

\* Operations that give a row a flow of its amount, from what they read of it
\* earlier, leave no time for the row to be paired.
FlowsKept ==
    /\ "undo" \notin Operations
    /\ Overlap => "release" \notin Operations /\ "retype" \notin Operations

PairedFlow == \A r \in Rows : txn[r].pair # NoRow => txn[r].flow = "TRANSFER"

FreeWhenWritten(o) ==
    /\ o.at = "releasing" => txn[o.row].pair = NoRow
    /\ o.at = "unboxing" => \A b \in o.todo : \A r \in b.ids : txn[r].pair = NoRow

FlowInv ==
    /\ TypeOK /\ LinkInv /\ SessionsOK
    /\ PairedFlow /\ \A s \in Sessions : FreeWhenWritten(op[s])

\* What is read of a row no person decided is written before one can.
Undecided(r) == txn[r].src # "MANUAL"

UndecidedWhenWritten(o) ==
    /\ o.at = "confirming" => \A t \in o.undo.restore : t.id \in stored /\ Undecided(t.id)
    /\ o.at = "reapplying" => \A b \in o.todo : \A r \in b.ids : Undecided(r)
    /\ o.at = "unboxing" =>
          \A b \in o.todo : b.src # "MANUAL" /\ \A r \in b.ids : Undecided(r)
    /\ o.at \in OnRow => o.row \in stored

SacredInv ==
    /\ TypeOK /\ LinkInv /\ SessionsOK
    /\ \A r \in Rows \ stored : Undecided(r)
    /\ \A p \in pairs : Undecided(p.out) /\ Undecided(p.in)
    /\ half # NoPair => Undecided(half.in)
    /\ \A s \in Sessions : UndecidedWhenWritten(op[s])

\* Rows that are activity inside an investment account.
Inside(r) == r \in Internal /\ isClosedBox(investment, r)

\* Every rule write on its way to one encloses it; every write back is to
\* another row.
Encloses(todo) == \A b \in todo : \A r \in b.ids : Inside(r) => b.flow = "TRANSFER"
NoneInside(restore) == \A t \in restore : ~Inside(t.id)

InsideOp(o) ==
    /\ o.at = "clearing" => o.box = isClosedBox(investment, o.row)
    /\ o.at = "reapplying" => Encloses(o.todo)
    /\ o.at = "restoring" => \A b \in o.todo : \A r \in b.ids : ~Inside(r)
    /\ "undo" \in Operations => NoneInside(o.undo.restore)

\* A row inside is a person's, enclosed, or waits for the rules pass, which
\* has it in a batch once it has read.
InsideRow(r) ==
    /\ txn[r].pair = NoRow
    /\ r \in stored =>
        /\ txn[r].src = "MANUAL" \/ txn[r].flow = "TRANSFER" \/ Waiting(txn[r])
        /\ syncAt = "writing" =>
              \/ txn[r].src = "MANUAL" \/ txn[r].flow = "TRANSFER"
              \/ \E b \in batches : r \in b.ids

InsideInv ==
    /\ TypeOK /\ LinkInv /\ SessionsOK
    /\ \A r \in Rows : Inside(r) => InsideRow(r)
    /\ Encloses(batches)
    /\ \A p \in pairs : ~Inside(p.out) /\ ~Inside(p.in)
    /\ half # NoPair => ~Inside(half.out) /\ ~Inside(half.in)
    /\ \A s \in Sessions : InsideOp(op[s])
    /\ "undo" \in Operations => \A s \in Sessions : NoneInside(undoable[s].restore)

\* The box stays as it is, and an undo puts back no row inside it.
BoxKept ==
    /\ "retype" \notin Operations
    /\ "undo" \in Operations => P2P \cap Internal = {}

-----------------------------------------------------------------------------
(* Which session is at work, and on what. *)

\* A session's step moves that session alone.
LEMMA OneSessionMoves ==
  ASSUME OpsTyped, NEW s \in Sessions, Start(s) \/ Continue(s) \/ SessionKilled(s)
  PROVE  /\ \A z \in Sessions : z # s => op'[z] = op[z]
         /\ UNCHANGED syncAt
  <1> USE DEF OpsTyped, Goes, syncVars
  <1>1. CASE Start(s)
    BY <1>1 DEF Start, ShowRow, ReleaseRead, Unlink, LinkRead, Decide, UndoRule, RetypeRead
  <1>2. CASE Continue(s)
    BY <1>2 DEF Continue, Categorize, ClearRead, ClearWrite, ReleaseWrite, LinkWrite,
                ConfirmRead, ConfirmWrite, ReapplyReadRules, ReapplyReadRows, ReapplyWrite,
                ReapplyDone, RestoreWrite, UndoDone, RetypeWrite, UnboxRead, UnboxDone
  <1>3. CASE SessionKilled(s)
    BY <1>3 DEF SessionKilled
  <1> QED
    BY <1>1, <1>2, <1>3

\* An action starts on an idle session, alone unless they may overlap, and is
\* one of those exercised.
LEMMA StartsAlone ==
  ASSUME OpsTyped, NEW s \in Sessions, Start(s)
  PROVE  /\ op[s].at = "idle"
         /\ ~Overlap => syncAt = "idle" /\ \A z \in Sessions : op[z].at = "idle"
         /\ op'[s].at = "releasing" => "release" \in Operations
         /\ op'[s].at = "retyping" => "retype" \in Operations
         /\ op'[s].at = "restoring" => "undo" \in Operations
         /\ op'[s].at \notin {"unbox", "unboxing", "clearing", "confirming", "reapplying"}
  <1> USE DEF OpsTyped, Goes, Starts, Idle
  <1>1. CASE \E r \in Rows : ShowRow(s, r, "categorize") \/ ShowRow(s, r, "clear")
    <2>1. PICK r \in Rows, name \in {"categorize", "clear"} : ShowRow(s, r, name)
      BY <1>1
    <2>2. op'[s].at = name
      BY <2>1 DEF ShowRow
    <2> QED
      BY <2>1, <2>2 DEF ShowRow
  <1>2. CASE \E r \in Rows : ReleaseRead(s, r)
    BY <1>2 DEF ReleaseRead
  <1>3. CASE \E r \in Rows : Unlink(s, r)
    BY <1>3 DEF Unlink
  <1>4. CASE \E i, o \in Rows : LinkRead(s, i, o)
    BY <1>4 DEF LinkRead
  <1>5. CASE \E p \in Payees, target \in Targets : Decide(s, p, target)
    BY <1>5 DEF Decide
  <1>6. CASE UndoRule(s)
    BY <1>6 DEF UndoRule
  <1>7. CASE \E a \in Accounts : RetypeRead(s, a)
    BY <1>7 DEF RetypeRead
  <1> QED
    BY <1>1, <1>2, <1>3, <1>4, <1>5, <1>6, <1>7 DEF Start

\* Only marking a row no transfer leads to the write that releases it.
LEMMA OnlyReleases ==
  ASSUME OpsTyped, NEW s \in Sessions, Start(s), ~\E r \in Rows : ReleaseRead(s, r)
  PROVE  op'[s].at # "releasing"
  <1> USE DEF OpsTyped, Goes, Starts, Idle
  <1>1. CASE \E r \in Rows : ShowRow(s, r, "categorize") \/ ShowRow(s, r, "clear")
    <2>1. PICK r \in Rows, name \in {"categorize", "clear"} : ShowRow(s, r, name)
      BY <1>1
    <2> QED
      BY <2>1 DEF ShowRow
  <1>2. CASE \E r \in Rows : Unlink(s, r)
    BY <1>2 DEF Unlink
  <1>3. CASE \E i, o \in Rows : LinkRead(s, i, o)
    BY <1>3 DEF LinkRead
  <1>4. CASE \E p \in Payees, target \in Targets : Decide(s, p, target)
    BY <1>4 DEF Decide
  <1>5. CASE UndoRule(s)
    BY <1>5 DEF UndoRule
  <1>6. CASE \E a \in Accounts : RetypeRead(s, a)
    BY <1>6 DEF RetypeRead
  <1> QED
    BY <1>1, <1>2, <1>3, <1>4, <1>5, <1>6 DEF Start

\* An action goes on from where it stood.
LEMMA GoesOn ==
  ASSUME OpsTyped, NEW s \in Sessions, Continue(s)
  PROVE  /\ op[s].at # "idle"
         /\ op'[s].at \notin {"releasing", "retyping"}
         /\ op'[s].at = "restoring" => op[s].at = "restoring"
         /\ op'[s].at = "unbox" => op[s].at = "retyping"
         /\ op'[s].at = "unboxing" => op[s].at \in {"unbox", "unboxing"}
  <1>1. {"at", "todo", "rules", "undo", "box"} \subseteq DOMAIN op[s]
    BY DEF OpsTyped, Op
  <1>6. ASSUME NEW next, Goes(s, next) PROVE op'[s] = next
    BY <1>6 DEF OpsTyped, Goes
  <1>7. Idle.at = "idle"
    BY DEF Idle
  <1>2. CASE \/ Categorize(s) \/ ClearRead(s) \/ ClearWrite(s) \/ ReleaseWrite(s)
             \/ LinkWrite(s) \/ ReapplyDone(s) \/ UndoDone(s)
    BY <1>1, <1>6, <1>7, <1>2 DEF Categorize, ClearRead, ClearWrite, ReleaseWrite, LinkWrite,
                      ReapplyDone, UndoDone
  <1>3. CASE ConfirmRead(s) \/ ConfirmWrite(s) \/ ReapplyReadRules(s) \/ ReapplyReadRows(s)
    BY <1>1, <1>6, <1>7, <1>3 DEF ConfirmRead, ConfirmWrite, ReapplyReadRules, ReapplyReadRows
  <1>4. CASE ReapplyWrite(s) \/ RestoreWrite(s)
    BY <1>1, <1>6, <1>7, <1>4 DEF ReapplyWrite, RestoreWrite
  <1>5. CASE RetypeWrite(s) \/ UnboxRead(s) \/ UnboxDone(s)
    BY <1>1, <1>6, <1>7, <1>5 DEF RetypeWrite, UnboxRead, UnboxDone, afterRetype
  <1> QED
    BY <1>2, <1>3, <1>4, <1>5 DEF Continue

\* Every step keeps the sessions well formed.
LEMMA SessionsStep ==
  ASSUME OpsTyped, SessionsOK, [Next]_vars
  PROVE  SessionsOK'
  <1> USE DEF SessionsOK, OneAtATime, OpsExercised, PairsPending
  <1>1. CASE UNCHANGED vars
    <2>1. UNCHANGED <<op, syncAt, pairs, half>>
      BY <1>1 DEF vars, syncVars, sessionVars
    <2> QED
      BY <2>1
  <1>2. CASE SyncNext
    <2>1. UNCHANGED op
      BY <1>2 DEF SyncNext, sessionVars
    <2>2. CASE SyncStart
      BY <2>1, <2>2 DEF SyncStart, Fetch
    <2>3. CASE SyncStep \/ SyncKilled
      <3>1. syncAt # "idle" /\ PairsPending'
        BY <2>3 DEF SyncStep, SyncKilled, Insert, ReadRules, ReadWaiting, RulePass,
                    WriteBatch, WriteHint, ReadCandidates, PairOut, PairIn, SyncFinish
      <3> QED
        BY <2>1, <3>1
    <2> QED
      BY <1>2, <2>2, <2>3 DEF SyncNext
  <1>3. ASSUME NEW s \in Sessions, Start(s) \/ Continue(s) \/ SessionKilled(s)
        PROVE  PairsPending'
    BY <1>3 DEF syncVars, Start, ShowRow, ReleaseRead, Unlink, LinkRead, Decide, UndoRule,
                RetypeRead, Continue, Categorize, ClearRead, ClearWrite, ReleaseWrite,
                LinkWrite, ConfirmRead, ConfirmWrite, ReapplyReadRules, ReapplyReadRows,
                ReapplyWrite, ReapplyDone, RestoreWrite, UndoDone, RetypeWrite, UnboxRead,
                UnboxDone, SessionKilled
  <1>4. ASSUME NEW s \in Sessions, Start(s) PROVE SessionsOK'
    <2>1. /\ \A z \in Sessions : z # s => op'[z] = op[z]
          /\ UNCHANGED syncAt /\ PairsPending'
      BY <1>3, <1>4, OneSessionMoves
    <2>2. OneAtATime'
      BY <1>4, <2>1, StartsAlone
    <2>3. OpsExercised'
      BY <1>4, <2>1, StartsAlone
    <2> QED
      BY <2>1, <2>2, <2>3
  <1>5. ASSUME NEW s \in Sessions, Continue(s) PROVE SessionsOK'
    <2>1. /\ \A z \in Sessions : z # s => op'[z] = op[z]
          /\ UNCHANGED syncAt /\ PairsPending'
      BY <1>3, <1>5, OneSessionMoves
    <2>2. OneAtATime'
      BY <1>5, <2>1, GoesOn
    <2>3. OpsExercised'
      BY <1>5, <2>1, GoesOn
    <2> QED
      BY <2>1, <2>2, <2>3
  <1>6. ASSUME NEW s \in Sessions, SessionKilled(s) PROVE SessionsOK'
    <2>1. op'[s].at = "idle"
      BY <1>6 DEF SessionKilled, Goes, OpsTyped, Idle
    <2>2. /\ \A z \in Sessions : z # s => op'[z] = op[z]
          /\ UNCHANGED syncAt /\ PairsPending'
      BY <1>3, <1>6, OneSessionMoves
    <2>3. OneAtATime'
      BY <2>1, <2>2
    <2>4. OpsExercised'
      BY <2>1, <2>2
    <2> QED
      BY <2>2, <2>3, <2>4
  <1> QED
    BY <1>1, <1>2, <1>4, <1>5, <1>6 DEF Next

\* No session is open at first.
LEMMA InitSessions == Init => SessionsOK
  BY DEF Init, SyncInit, SessionsOK, OneAtATime, OpsExercised, PairsPending, Idle

\* A sync that overlaps nothing runs beside idle sessions.
LEMMA SyncAlone ==
  ASSUME SessionsOK, SyncNext
  PROVE  /\ UNCHANGED op
         /\ ~Overlap => \A s \in Sessions : op[s].at = "idle"
  <1>1. UNCHANGED op
    BY DEF SyncNext, sessionVars
  <1>2. CASE SyncStart
    BY <1>1, <1>2 DEF SyncStart
  <1>3. CASE SyncStep \/ SyncKilled
    <2>1. syncAt # "idle"
      BY <1>3 DEF SyncStep, SyncKilled, Insert, ReadRules, ReadWaiting, RulePass, WriteBatch,
                  WriteHint, ReadCandidates, PairOut, PairIn, SyncFinish, SessionsOK,
                  PairsPending
    <2> QED
      BY <1>1, <2>1 DEF SessionsOK, OneAtATime
  <1> QED
    BY <1>2, <1>3 DEF SyncNext

\* The rows of the batches that put snapshots back are those of the snapshots.
LEMMA RestoresTheirRows ==
  ASSUME NEW snapshots, NEW b \in RestoreBatches(snapshots), NEW r \in b.ids
  PROVE  \E t \in snapshots : t.id = r /\ t.cat = b.cat /\ t.src = b.src /\ t.flow = b.flow
  BY DEF RestoreBatches

\* The rows of rule batches are those they were made from.
LEMMA BatchesTheirRows ==
  ASSUME NEW rules, NEW inv, NEW X, NEW b \in Batches(rules, inv, X), NEW r \in b.ids
  PROVE  /\ r \in X
         /\ b.cat = Outcome(rules, inv, r).cat /\ b.flow = Outcome(rules, inv, r).flow
  BY DEF Batches

\* And each of those rows is in one.
LEMMA RowsTheirBatch ==
  ASSUME NEW rules, NEW inv, NEW X, NEW r \in X
  PROVE  \E b \in Batches(rules, inv, X) : r \in b.ids
  <1> DEFINE o == Outcome(rules, inv, r)
             b == [cat |-> o.cat, flow |-> o.flow,
                   ids |-> {x \in X : Outcome(rules, inv, x) = o}]
  <1>1. b \in Batches(rules, inv, X)
    BY DEF Batches
  <1> QED
    BY <1>1

\* Clearing a row's category by hand.
LEMMA WhenClearedIs ==
  ASSUME NEW t \in Txn, NEW box \in BOOLEAN
  PROVE  /\ whenCleared(t, box).pair = t.pair /\ whenCleared(t, box).src # "MANUAL"
         /\ box => whenCleared(t, box).flow = "TRANSFER"
         /\ ~box => whenCleared(t, box).flow = t.flow
  <1>1. CASE box
    BY <1>1 DEF whenCleared, Txn
  <1>2. CASE ~box
    BY <1>2 DEF whenCleared, Txn
  <1> QED
    BY <1>1, <1>2

-----------------------------------------------------------------------------
(* Paired rows stay out of every total. *)

\* No session gives a paired row another flow.
LEMMA SessionsKeepFlow ==
  ASSUME FlowInv, FlowsKept, NEW s \in Sessions, Start(s) \/ Continue(s) \/ SessionKilled(s),
         NEW r \in Rows, txn[r].pair # NoRow
  PROVE  txn'[r].flow = "TRANSFER"
  <1> USE DEF FlowInv
  <1>1. txn \in [Rows -> Txn] /\ OpOK(op[s]) /\ txn[r].flow = "TRANSFER"
    BY DEF TypeOK, SyncTypeOK, PairedFlow
  <1>2. {"cat", "src", "flow", "pair", "reimb"} \subseteq DOMAIN txn[r]
    BY <1>1 DEF Txn
  <1>3. CASE UNCHANGED txn
    BY <1>1, <1>3
  <1>4. CASE Categorize(s) \/ ClearWrite(s) \/ LinkWrite(s) \/ \E i \in Rows : Unlink(s, i)
    <2>1. ASSUME NEW q, NEW t, Writes(q, t), q = r => t.flow = "TRANSFER"
          PROVE  txn'[r].flow = "TRANSFER"
      BY <1>1, <2>1 DEF Writes
    <2> DEFINE q == op[s].row
    <2>2. CASE Categorize(s)
      <3>1. PICK c : Writes(q, [txn[q] EXCEPT !.cat = c, !.src = "MANUAL"])
        BY <2>2 DEF Categorize
      <3> DEFINE t == [txn[q] EXCEPT !.cat = c, !.src = "MANUAL"]
      <3>2. q = r => t.flow = "TRANSFER"
        BY <1>1, <1>2
      <3> HIDE DEF t
      <3> QED
        BY <2>1, <3>1, <3>2 DEF t
    <2>3. CASE ClearWrite(s)
      <3>1. whenCleared(txn[r], op[s].box).flow = "TRANSFER"
        <4>1. op[s].box \in BOOLEAN
          BY <1>1 DEF OpOK, Op
        <4>2. whenCleared(txn[r], op[s].box).flow \in {txn[r].flow, "TRANSFER"}
          BY <1>1, <4>1, WhenClearedIs
        <4> QED
          BY <1>1, <4>2
      <3> QED
        BY <2>1, <2>3, <3>1 DEF ClearWrite
    <2>4. CASE LinkWrite(s)
      BY <1>1, <1>2, <2>1, <2>4 DEF LinkWrite
    <2>5. CASE \E i \in Rows : Unlink(s, i)
      BY <1>1, <1>2, <2>1, <2>5 DEF Unlink
    <2> QED
      BY <1>4, <2>2, <2>3, <2>4, <2>5
  <1>5. CASE ReleaseWrite(s)
    <2>1. txn[op[s].row].pair = NoRow
      BY <1>5 DEF ReleaseWrite, FreeWhenWritten
    <2> QED
      BY <1>1, <1>5, <2>1 DEF ReleaseWrite, Writes
  <1>6. CASE ConfirmWrite(s)
    <2> DEFINE ids == {t.id : t \in op[s].undo.restore}
    <2>1. PICK target \in op[s].todo :
             txn' = [q \in Rows |->
                       IF q \in ids THEN [txn[q] EXCEPT !.cat = target.cat, !.src = "MANUAL"]
                       ELSE txn[q]]
      BY <1>6 DEF ConfirmWrite
    <2> HIDE DEF ids
    <2> QED
      BY <1>1, <1>2, <2>1
  <1>7. CASE ReapplyWrite(s)
    <2>1. PICK b \in op[s].todo :
             txn' = [q \in Rows |-> IF q \in b.ids THEN ByRule(txn[q], b) ELSE txn[q]]
      BY <1>7 DEF ReapplyWrite
    <2>2. b.flow \in {"TRANSFER", Keep}
      BY <1>1, <1>7 DEF ReapplyWrite, OpOK, RuleWrites
    <2> QED
      BY <1>1, <1>2, <2>1, <2>2 DEF ByRule
  <1>8. CASE RestoreWrite(s)
    <2>1. op[s].at = "unboxing"
      BY <1>8 DEF RestoreWrite, SessionsOK, OpsExercised, FlowsKept
    <2>2. PICK b \in op[s].todo :
             txn' = [q \in Rows |->
                       IF q \in b.ids
                       THEN [txn[q] EXCEPT !.cat = b.cat, !.src = b.src, !.flow = b.flow]
                       ELSE txn[q]]
      BY <1>8 DEF RestoreWrite
    <2>3. r \notin b.ids
      BY <2>1 DEF FreeWhenWritten
    <2> QED
      BY <1>1, <2>2, <2>3
  <1>9. CASE \/ Start(s) /\ ~\E i \in Rows : Unlink(s, i)
             \/ ClearRead(s) \/ ConfirmRead(s) \/ ReapplyReadRules(s) \/ ReapplyReadRows(s)
             \/ ReapplyDone(s) \/ UndoDone(s) \/ RetypeWrite(s) \/ UnboxRead(s)
             \/ UnboxDone(s) \/ SessionKilled(s)
    <2>1. UNCHANGED txn
      BY <1>9 DEF Start, ShowRow, ReleaseRead, LinkRead, Decide, UndoRule, RetypeRead,
                  ClearRead, ConfirmRead, ReapplyReadRules, ReapplyReadRows, ReapplyDone,
                  UndoDone, RetypeWrite, UnboxRead, UnboxDone, SessionKilled, ledger
    <2> QED
      BY <2>1, <1>3
  <1> QED
    BY <1>4, <1>5, <1>6, <1>7, <1>8, <1>9 DEF Continue

\* What a session is about to give a flow stays unpaired.
LEMMA SessionsStayFree ==
  ASSUME FlowInv, FlowsKept, NEW s \in Sessions, Start(s) \/ Continue(s) \/ SessionKilled(s),
         NEW z \in Sessions
  PROVE  FreeWhenWritten(op[z])'
  <1> USE DEF FlowInv
  <1>1. OpsTyped /\ OpOK(op[z]) /\ stored \subseteq Rows
    BY DEF OpsTyped, TypeOK, SyncTypeOK
  <1>2. OpsTyped' /\ OpOK(op[z])'
    BY TypeStep DEF OpsTyped, TypeOK, Next
  <1>3. PairsKept
    BY SessionsLeavePairs DEF LinkInv
  <1>4. CASE z # s
    <2>1. op'[z] = op[z]
      BY <1>1, <1>4, OneSessionMoves
    <2>2. op[z].at \notin {"releasing", "unboxing"}
      <3>1. CASE Overlap
        BY <3>1 DEF SessionsOK, OpsExercised, FlowsKept
      <3>2. CASE ~Overlap /\ Start(s)
        BY <1>1, <3>2, StartsAlone
      <3>3. CASE ~Overlap /\ Continue(s)
        BY <1>1, <1>4, <3>3, GoesOn DEF SessionsOK, OneAtATime
      <3>4. CASE ~Overlap /\ SessionKilled(s)
        BY <1>4, <3>4 DEF SessionsOK, OneAtATime, SessionKilled
      <3> QED
        BY <3>1, <3>2, <3>3, <3>4
    <2> QED
      BY <2>1, <2>2 DEF FreeWhenWritten
  <1>5. CASE z = s /\ Start(s)
    <2>1. CASE \E r \in Rows : ReleaseRead(s, r)
      <3>1. PICK r \in Rows : ReleaseRead(s, r)
        BY <2>1
      <3>2. op'[s].row = r /\ op'[s].at = "releasing" /\ txn'[r].pair = NoRow
        BY <1>1, <3>1 DEF ReleaseRead, Releasable, Goes, Idle, ledger, OpsTyped
      <3> QED
        BY <1>5, <3>2 DEF FreeWhenWritten
    <2>2. CASE ~\E r \in Rows : ReleaseRead(s, r)
      <3>1. op'[s].at # "releasing"
        BY <1>1, <1>5, <2>2, OnlyReleases
      <3> QED
        BY <1>1, <1>5, <3>1, StartsAlone DEF FreeWhenWritten
    <2> QED
      BY <2>1, <2>2
  <1>6. CASE z = s /\ Continue(s)
    <2>1. CASE UnboxRead(s)
      <3> DEFINE rows == {r \in stored : /\ account[r] = op[s].other
                                         /\ txn[r].flow = "TRANSFER"
                                         /\ txn[r].pair = NoRow
                                         /\ txn[r].src # "MANUAL"}
                 snaps == { [id |-> r, cat |-> NoCat, src |-> "AGGREGATOR",
                             flow |-> flowByAmount(r)] : r \in rows }
      <3>1. /\ op'[s] = [op[s] EXCEPT !.at = "unboxing", !.todo = RestoreBatches(snaps)]
            /\ UNCHANGED txn
        BY <1>1, <2>1 DEF UnboxRead, Goes, ledger, OpsTyped
      <3>2. op'[s].at = "unboxing" /\ op'[s].todo = RestoreBatches(snaps)
        BY <1>1, <1>6, <3>1 DEF OpOK, Op
      <3>3. \A t \in snaps : txn[t.id].pair = NoRow
        OBVIOUS
      <3>4. \A b \in op'[s].todo : \A r \in b.ids : txn'[r].pair = NoRow
        BY <3>1, <3>2, <3>3, RestoresTheirRows
      <3> QED
        BY <1>6, <3>2, <3>4 DEF FreeWhenWritten
    <2>2. CASE RestoreWrite(s)
      <3>1. PICK b : op'[s] = [op[s] EXCEPT !.todo = @ \ {b}]
        BY <1>1, <2>2 DEF RestoreWrite, Goes, OpsTyped
      <3>2. op'[s].at = op[s].at /\ op'[s].todo = op[s].todo \ {b}
        BY <1>1, <1>6, <3>1 DEF OpOK, Op
      <3>3. op[s].at = "unboxing" => op[s].todo \subseteq RowWrites
        BY <1>1, <1>6 DEF OpOK
      <3>4. op'[s].at # "releasing"
        BY <3>2, <2>2 DEF RestoreWrite
      <3> QED
        BY <1>3, <1>6, <3>2, <3>3, <3>4 DEF FreeWhenWritten, PairsKept, RowWrites
    <2>3. CASE ~UnboxRead(s) /\ ~RestoreWrite(s)
      <3>1. op'[s].at \notin {"releasing", "unboxing"}
        <4>1. {"at", "todo", "rules", "undo", "box"} \subseteq DOMAIN op[s]
          BY <1>1, <1>6 DEF OpOK, Op
        <4>2. ASSUME NEW next, Goes(s, next) PROVE op'[s] = next
          BY <1>1, <4>2 DEF OpsTyped, Goes
        <4>3. Idle.at = "idle"
          BY DEF Idle
        <4>4. CASE \/ Categorize(s) \/ ClearRead(s) \/ ClearWrite(s) \/ ReleaseWrite(s)
                   \/ LinkWrite(s) \/ ReapplyDone(s) \/ UndoDone(s)
          BY <4>1, <4>2, <4>3, <4>4 DEF Categorize, ClearRead, ClearWrite, ReleaseWrite,
                                        LinkWrite, ReapplyDone, UndoDone
        <4>5. CASE \/ ConfirmRead(s) \/ ConfirmWrite(s) \/ ReapplyReadRules(s)
                   \/ ReapplyReadRows(s) \/ ReapplyWrite(s)
          BY <4>1, <4>2, <4>5 DEF ConfirmRead, ConfirmWrite, ReapplyReadRules,
                                  ReapplyReadRows, ReapplyWrite
        <4>6. CASE RetypeWrite(s) \/ UnboxDone(s)
          BY <4>1, <4>2, <4>6 DEF RetypeWrite, UnboxDone, afterRetype
        <4> QED
          BY <1>6, <2>3, <4>4, <4>5, <4>6 DEF Continue
      <3> QED
        BY <1>6, <3>1 DEF FreeWhenWritten
    <2> QED
      BY <2>1, <2>2, <2>3
  <1>7. CASE z = s /\ SessionKilled(s)
    BY <1>1, <1>7 DEF SessionKilled, Goes, Idle, OpsTyped, FreeWhenWritten
  <1> QED
    BY <1>4, <1>5, <1>6, <1>7

\* Nor does a sync: what it pairs it marks a transfer.
LEMMA SyncKeepsFlow ==
  ASSUME FlowInv, SyncNext
  PROVE  PairedFlow'
  <1> SUFFICES ASSUME NEW r \in Rows, txn'[r].pair # NoRow
               PROVE  txn'[r].flow = "TRANSFER"
    BY DEF PairedFlow
  <1>1. txn \in [Rows -> Txn] /\ PairedFlow
    BY DEF FlowInv, TypeOK, SyncTypeOK
  <1>2. {"cat", "src", "flow", "pair", "reimb"} \subseteq DOMAIN txn[r]
    BY <1>1 DEF Txn
  <1>3. CASE UNCHANGED txn
    BY <1>1, <1>3 DEF PairedFlow
  <1>4. CASE Insert
    BY <1>1, <1>4 DEF Insert, Imported, PairedFlow
  <1>5. CASE WriteBatch
    <2>1. PICK b \in batches :
             txn' = [q \in Rows |-> IF q \in reached(b.ids) THEN ByRule(txn[q], b) ELSE txn[q]]
      BY <1>5 DEF WriteBatch
    <2>2. b.flow \in {"TRANSFER", Keep}
      BY DEF FlowInv, TypeOK, SyncTypeOK
    <2>3. ByRule(txn[r], b).pair = txn[r].pair
      BY <1>2, ByRuleKeepsPair
    <2>4. ByRule(txn[r], b).flow \in {"TRANSFER", txn[r].flow}
      BY <1>2, <2>2 DEF ByRule
    <2> QED
      BY <1>1, <2>1, <2>3, <2>4 DEF PairedFlow
  <1>6. CASE WriteHint
    <2>1. PICK h \in hints :
             txn' = [q \in Rows |-> IF q \in reached(h.ids)
                                    THEN [txn[q] EXCEPT !.cat = h.cat] ELSE txn[q]]
      BY <1>6 DEF WriteHint
    <2> QED
      BY <1>1, <1>2, <2>1 DEF PairedFlow
  <1>7. CASE PairOut \/ PairIn
    <2>1. ASSUME NEW q, NEW x, txn' = [txn EXCEPT ![q] = Paired(@, x)]
          PROVE  txn'[r].flow = "TRANSFER"
      <3>1. CASE q = r
        BY <1>1, <1>2, <2>1, <3>1 DEF Paired
      <3>2. CASE q # r
        BY <1>1, <2>1, <3>2 DEF PairedFlow
      <3> QED
        BY <3>1, <3>2
    <2> QED
      BY <1>7, <2>1 DEF PairOut, PairIn
  <1>8. CASE \/ SyncStart \/ ReadRules \/ ReadWaiting \/ ReadCandidates \/ SyncFinish
             \/ SyncKilled
    BY <1>3, <1>8 DEF SyncStart, Fetch, ReadRules, ReadWaiting, ReadCandidates, SyncFinish,
                      SyncKilled, ledger
  <1> QED
    BY <1>4, <1>5, <1>6, <1>7, <1>8 DEF SyncNext, SyncStep, RulePass

\* Every step keeps the flow of a pair.
LEMMA FlowStep ==
  ASSUME FlowInv, FlowsKept, [Next]_vars
  PROVE  FlowInv'
  <1>1. TypeOK' /\ LinkInv' /\ SessionsOK'
    BY TypeStep, LinkStep, SessionsStep DEF FlowInv, OpsTyped, TypeOK
  <1>2. CASE UNCHANGED vars
    <2>1. UNCHANGED <<txn, op>>
      BY <1>2 DEF vars, ledger, sessionVars
    <2> QED
      BY <1>1, <2>1 DEF FlowInv, PairedFlow, FreeWhenWritten
  <1>3. CASE SyncNext
    <2>1. PairedFlow'
      BY <1>3, SyncKeepsFlow
    <2>2. UNCHANGED op /\ \A s \in Sessions : op[s].at \notin {"releasing", "unboxing"}
      BY <1>3, SyncAlone DEF FlowInv, SessionsOK, OpsExercised, FlowsKept
    <2> QED
      BY <1>1, <2>1, <2>2 DEF FlowInv, FreeWhenWritten
  <1>4. ASSUME NEW s \in Sessions, Start(s) \/ Continue(s) \/ SessionKilled(s)
        PROVE  FlowInv'
    <2>1. \A z \in Sessions : FreeWhenWritten(op[z])'
      BY <1>4, SessionsStayFree
    <2>2. PairsKept
      BY <1>4, SessionsLeavePairs DEF FlowInv, LinkInv
    <2>3. PairedFlow'
      BY <1>4, <2>2, SessionsKeepFlow DEF PairedFlow, PairsKept
    <2> QED
      BY <1>1, <2>1, <2>3 DEF FlowInv
  <1> QED
    BY <1>2, <1>3, <1>4 DEF Next

\* No row is paired at first.
LEMMA InitFlow == Init => FlowInv
  <1> SUFFICES ASSUME Init PROVE FlowInv
    OBVIOUS
  <1>1. \A r \in Rows : txn[r].pair = NoRow
    BY DEF Init, LedgerInit, Imported
  <1>2. \A s \in Sessions : op[s].at = "idle"
    BY DEF Init, Idle
  <1> QED
    BY <1>1, <1>2, InitTyped, InitLinkInv, InitSessions DEF FlowInv, PairedFlow, FreeWhenWritten

\* With no function killed and no undo, and releases and retypes that overlap
\* nothing, both sides of a linked transfer are out of every total: whatever
\* else the operator does while pairs are detected and written (runPipeline,
\* transactions/actions.ts, accounts/actions.ts).
THEOREM PairsLeaveTotals ==
  ASSUME MaxKills = 0, FlowsKept
  PROVE  Spec => []PairedIsTransfer
  <1>1. FlowInv /\ [Next]_vars => FlowInv'
    BY FlowStep
  <1>2. FlowInv /\ PairsReciprocal => PairedIsTransfer
    <2> SUFFICES ASSUME FlowInv, PairsReciprocal, NEW r \in Rows, txn[r].pair # NoRow,
                        half = NoPair
                 PROVE  txn[r].flow = "TRANSFER" /\ txn[txn[r].pair].flow = "TRANSFER"
      BY DEF PairedIsTransfer
    <2>1. txn[r].pair \in Rows
      BY DEF FlowInv, LinkInv, PairsMatch, PipelineOK
    <2>2. txn[txn[r].pair].pair = r
      BY AbsentAssumption DEF PairsReciprocal, NoPair
    <2> QED
      BY <2>1, <2>2, AbsentAssumption DEF FlowInv, PairedFlow
  <1> QED
    BY <1>1, <1>2, InitFlow, LinksReturned, PTL DEF Spec

-----------------------------------------------------------------------------
(* A person's decisions are the person's to change. *)

Alone == ~Overlap /\ "undo" \notin Operations

\* What one session's step does to a row: it leaves a decided row as it is,
\* unless the step is the person's own on that row, and decides only stored
\* rows.
DecidesOnly(s, r) ==
    /\ \/ Spared(r)
       \/ op[s].row = r /\ op[s].at \in {"categorize", "clearing", "releasing"}
    /\ Undecided(r) => txn'[r].src # "MANUAL" \/ r \in stored
    /\ Undecided(r) /\ op[s].at \in {"reapplying", "unboxing"} => txn'[r].src # "MANUAL"

\* What one session may still write.
LEMMA SessionDecides ==
  ASSUME SacredInv, Alone, NEW s \in Sessions,
         Start(s) \/ Continue(s) \/ SessionKilled(s), NEW r \in Rows
  PROVE  DecidesOnly(s, r)
  <1>1. txn \in [Rows -> Txn] /\ OpOK(op[s]) /\ UndecidedWhenWritten(op[s])
    BY DEF SacredInv, TypeOK, SyncTypeOK
  <1>2. {"cat", "src", "flow", "pair", "reimb"} \subseteq DOMAIN txn[r]
    BY <1>1 DEF Txn
  <1>3. CASE txn'[r] = txn[r]
    BY <1>3 DEF DecidesOnly, Spared, Undecided
  <1>4. CASE Categorize(s) \/ ReleaseWrite(s)
    <2> DEFINE q == op[s].row
    <2>1. q \in stored /\ op[s].at \in {"categorize", "releasing"}
      BY <1>1, <1>4 DEF Categorize, ReleaseWrite, UndecidedWhenWritten, OnRow
    <2>2. r # q => txn'[r] = txn[r]
      BY <1>1, <1>4 DEF Categorize, ReleaseWrite, Writes
    <2> QED
      BY <1>3, <2>1, <2>2 DEF DecidesOnly
  <1>5. CASE ClearWrite(s)
    <2> DEFINE q == op[s].row
    <2>1. r # q => txn'[r] = txn[r]
      BY <1>1, <1>5 DEF ClearWrite, Writes
    <2>2. op[s].box \in BOOLEAN /\ op[s].at = "clearing"
      BY <1>1, <1>5 DEF OpOK, Op, ClearWrite
    <2>3. r = q => txn'[r] = whenCleared(txn[r], op[s].box)
      BY <1>1, <1>5 DEF ClearWrite, Writes
    <2>4. r = q => txn'[r].src # "MANUAL"
      BY <1>1, <2>2, <2>3, WhenClearedIs
    <2> QED
      BY <1>3, <2>1, <2>2, <2>4 DEF DecidesOnly
  <1>6. CASE LinkWrite(s) \/ \E i \in Rows : Unlink(s, i)
    <2>1. ASSUME NEW q, NEW x, Writes(q, [txn[q] EXCEPT !.reimb = x])
          PROVE  Decided(txn'[r]) = Decided(txn[r]) /\ txn'[r].src = txn[r].src
      <3>1. CASE q = r
        BY <1>1, <1>2, <2>1, <3>1 DEF Writes, Decided
      <3>2. CASE q # r
        BY <1>1, <2>1, <3>2 DEF Writes
      <3> QED
        BY <3>1, <3>2
    <2> QED
      BY <1>6, <2>1 DEF LinkWrite, Unlink, DecidesOnly, Spared, Undecided
  <1>7. CASE ConfirmWrite(s)
    <2> DEFINE ids == {t.id : t \in op[s].undo.restore}
    <2>1. PICK target \in op[s].todo :
             txn' = [q \in Rows |->
                       IF q \in ids THEN [txn[q] EXCEPT !.cat = target.cat, !.src = "MANUAL"]
                       ELSE txn[q]]
      BY <1>7 DEF ConfirmWrite
    <2>2. \A t \in op[s].undo.restore : t.id \in stored /\ Undecided(t.id)
      BY <1>1, <1>7 DEF ConfirmWrite, UndecidedWhenWritten
    <2>3. \A q \in ids : q \in stored /\ Undecided(q)
      BY <2>2
    <2> HIDE DEF ids
    <2>4. r \notin ids => txn'[r] = txn[r]
      BY <2>1
    <2>5. op[s].at = "confirming"
      BY <1>7 DEF ConfirmWrite
    <2> QED
      BY <1>3, <2>3, <2>4, <2>5 DEF DecidesOnly, Spared, Undecided
  <1>8. CASE ReapplyWrite(s)
    <2>1. PICK b \in op[s].todo :
             txn' = [q \in Rows |-> IF q \in b.ids THEN ByRule(txn[q], b) ELSE txn[q]]
      BY <1>8 DEF ReapplyWrite
    <2>2. r \in b.ids => Undecided(r)
      BY <1>1, <1>8 DEF ReapplyWrite, UndecidedWhenWritten
    <2>3. ByRule(txn[r], b).src = "RULE"
      BY <1>2 DEF ByRule
    <2>4. r \notin b.ids => txn'[r] = txn[r]
      BY <2>1
    <2>5. r \in b.ids => txn'[r].src = "RULE"
      BY <2>1, <2>3
    <2> QED
      BY <1>3, <2>2, <2>4, <2>5 DEF DecidesOnly, Spared, Undecided
  <1>9. CASE RestoreWrite(s)
    <2>1. op[s].at = "unboxing"
      BY <1>9 DEF RestoreWrite, SacredInv, SessionsOK, OpsExercised, Alone
    <2>2. PICK b \in op[s].todo :
             txn' = [q \in Rows |->
                       IF q \in b.ids
                       THEN [txn[q] EXCEPT !.cat = b.cat, !.src = b.src, !.flow = b.flow]
                       ELSE txn[q]]
      BY <1>9 DEF RestoreWrite
    <2>3. b.src # "MANUAL" /\ (r \in b.ids => Undecided(r))
      BY <1>1, <2>1 DEF UndecidedWhenWritten
    <2>4. r \notin b.ids => txn'[r] = txn[r]
      BY <2>2
    <2>5. r \in b.ids => txn'[r].src = b.src
      BY <1>2, <2>2
    <2> QED
      BY <1>3, <2>3, <2>4, <2>5 DEF DecidesOnly, Spared, Undecided
  <1>10. CASE \/ Start(s) /\ ~\E i \in Rows : Unlink(s, i)
              \/ ClearRead(s) \/ ConfirmRead(s) \/ ReapplyReadRules(s) \/ ReapplyReadRows(s)
              \/ ReapplyDone(s) \/ UndoDone(s) \/ RetypeWrite(s) \/ UnboxRead(s)
              \/ UnboxDone(s) \/ SessionKilled(s)
    <2>1. UNCHANGED txn
      BY <1>10 DEF Start, ShowRow, ReleaseRead, LinkRead, Decide, UndoRule, RetypeRead,
                   ClearRead, ConfirmRead, ReapplyReadRules, ReapplyReadRows, ReapplyDone,
                   UndoDone, RetypeWrite, UnboxRead, UnboxDone, SessionKilled, ledger
    <2> QED
      BY <2>1, <1>3
  <1> QED
    BY <1>4, <1>5, <1>6, <1>7, <1>8, <1>9, <1>10 DEF Continue

\* A sync leaves every decided row as it is, and decides none.
LEMMA SyncDecidesNothing ==
  ASSUME SacredInv, SyncNext, NEW r \in Rows
  PROVE  /\ Spared(r)
         /\ Undecided(r) => txn'[r].src # "MANUAL"
  <1>1. txn \in [Rows -> Txn]
    BY DEF SacredInv, TypeOK, SyncTypeOK
  <1>2. {"cat", "src", "flow", "pair", "reimb"} \subseteq DOMAIN txn[r]
    BY <1>1 DEF Txn
  <1>3. CASE txn'[r] = txn[r]
    BY <1>3 DEF Spared, Undecided
  <1>4. CASE Insert
    <2>1. r \in fresh => Undecided(r)
      BY <1>4 DEF Insert, SacredInv, LinkInv, PipelineOK
    <2>2. r \in fresh => txn'[r].src = "AGGREGATOR"
      BY <1>4 DEF Insert, Imported
    <2>3. r \notin fresh => txn'[r] = txn[r]
      BY <1>4 DEF Insert
    <2> QED
      BY <1>3, <2>1, <2>2, <2>3 DEF Spared, Undecided
  <1>5. CASE WriteBatch
    <2>1. PICK b \in batches :
             txn' = [q \in Rows |-> IF q \in reached(b.ids) THEN ByRule(txn[q], b) ELSE txn[q]]
      BY <1>5 DEF WriteBatch
    <2>2. ByRule(txn[r], b).src = "RULE"
      BY <1>2 DEF ByRule
    <2>3. r \in reached(b.ids) => Undecided(r) /\ txn'[r].src = "RULE"
      BY <2>1, <2>2 DEF reached, Undecided
    <2>4. r \notin reached(b.ids) => txn'[r] = txn[r]
      BY <2>1
    <2> QED
      BY <1>3, <2>3, <2>4 DEF Spared, Undecided
  <1>6. CASE WriteHint
    <2>1. PICK h \in hints :
             txn' = [q \in Rows |-> IF q \in reached(h.ids)
                                    THEN [txn[q] EXCEPT !.cat = h.cat] ELSE txn[q]]
      BY <1>6 DEF WriteHint
    <2>2. r \in reached(h.ids) => Undecided(r) /\ txn'[r].src = txn[r].src
      BY <1>2, <2>1 DEF reached, Undecided
    <2>3. r \notin reached(h.ids) => txn'[r] = txn[r]
      BY <2>1
    <2> QED
      BY <1>3, <2>2, <2>3 DEF Spared, Undecided
  <1>7. CASE PairOut \/ PairIn
    <2>1. ASSUME NEW q, NEW x, Undecided(q), txn' = [txn EXCEPT ![q] = Paired(@, x)]
          PROVE  Spared(r) /\ (Undecided(r) => txn'[r].src # "MANUAL")
      <3>1. CASE q = r
        BY <1>1, <1>2, <2>1, <3>1 DEF Paired, Spared, Undecided
      <3>2. CASE q # r
        BY <1>1, <1>3, <2>1, <3>2
      <3> QED
        BY <3>1, <3>2
    <2> QED
      BY <1>7, <2>1 DEF PairOut, PairIn, SacredInv
  <1>8. CASE \/ SyncStart \/ ReadRules \/ ReadWaiting \/ ReadCandidates \/ SyncFinish
             \/ SyncKilled
    BY <1>3, <1>8 DEF SyncStart, Fetch, ReadRules, ReadWaiting, ReadCandidates, SyncFinish,
                      SyncKilled, ledger
  <1> QED
    BY <1>4, <1>5, <1>6, <1>7, <1>8 DEF SyncNext, SyncStep, RulePass

\* What a session holds to write stays undecided until it writes it.
LEMMA SessionsStayUndecided ==
  ASSUME SacredInv, Alone, NEW s \in Sessions,
         Start(s) \/ Continue(s) \/ SessionKilled(s), NEW z \in Sessions
  PROVE  UndecidedWhenWritten(op[z])'
  <1>1. OpsTyped /\ OpOK(op[s]) /\ stored \subseteq Rows /\ SessionsOK
    BY DEF SacredInv, OpsTyped, TypeOK, SyncTypeOK
  <1>2. UndecidedWhenWritten(op[s])
    BY DEF SacredInv
  <1>3. UNCHANGED stored
    BY SessionsLeavePairs DEF SacredInv, LinkInv
  <1>4. {"at", "row", "todo", "rules", "undo", "box"} \subseteq DOMAIN op[s]
    BY <1>1 DEF OpOK, Op
  <1>5. ASSUME NEW next, Goes(s, next) PROVE op'[s] = next
    BY <1>1, <1>5 DEF OpsTyped, Goes
  <1>6. ASSUME op'[z].at \in {"idle", "confirm", "reapply", "reapplyRows", "retyping", "unbox"}
        PROVE  UndecidedWhenWritten(op[z])'
    BY <1>6 DEF UndecidedWhenWritten, OnRow
  <1>7. ASSUME op'[z].at \in OnRow, op'[z].row \in stored
        PROVE  UndecidedWhenWritten(op[z])'
    BY <1>3, <1>7 DEF UndecidedWhenWritten, OnRow
  <1>8. CASE z # s
    <2>1. op'[z] = op[z]
      BY <1>1, <1>8, OneSessionMoves
    <2>2. op[z].at = "idle"
      <3>1. CASE Start(s)
        BY <1>1, <3>1, StartsAlone DEF Alone
      <3>2. CASE Continue(s)
        BY <1>1, <1>8, <3>2, GoesOn DEF SessionsOK, OneAtATime, Alone
      <3>3. CASE SessionKilled(s)
        BY <1>1, <1>8, <3>3 DEF SessionsOK, OneAtATime, SessionKilled, Alone
      <3> QED
        BY <3>1, <3>2, <3>3
    <2> QED
      BY <1>6, <2>1, <2>2
  <1>9. CASE z = s /\ Start(s)
    <2>1. CASE \E r \in Rows : ShowRow(s, r, "categorize") \/ ShowRow(s, r, "clear")
      <3>1. PICK r \in Rows, name \in {"categorize", "clear"} : ShowRow(s, r, name)
        BY <2>1
      <3>2. op'[s].at = name /\ op'[s].row = r /\ r \in stored
        BY <1>5, <3>1 DEF ShowRow, Idle
      <3> QED
        BY <1>7, <1>9, <3>2 DEF OnRow
    <2>2. CASE \E r \in Rows : ReleaseRead(s, r)
      <3>1. PICK r \in Rows : ReleaseRead(s, r)
        BY <2>2
      <3>2. op'[s].at = "releasing" /\ op'[s].row = r /\ r \in stored
        BY <1>5, <3>1 DEF ReleaseRead, Idle
      <3> QED
        BY <1>7, <1>9, <3>2 DEF OnRow
    <2>3. CASE \E i, o \in Rows : LinkRead(s, i, o)
      <3>1. PICK i \in Rows, o \in Rows : LinkRead(s, i, o)
        BY <2>3
      <3>2. op'[s].at = "linking" /\ op'[s].row = i /\ i \in stored
        BY <1>5, <3>1 DEF LinkRead, Idle
      <3> QED
        BY <1>7, <1>9, <3>2 DEF OnRow
    <2>4. CASE \E r \in Rows : Unlink(s, r)
      <3>1. op' = op /\ op[s].at = "idle"
        BY <2>4 DEF Unlink, Starts
      <3> QED
        BY <1>6, <1>9, <3>1
    <2>5. CASE \E p \in Payees, target \in Targets : Decide(s, p, target)
      <3>1. PICK p \in Payees, target \in Targets : Decide(s, p, target)
        BY <2>5
      <3>2. op'[s].at \in {"confirm", "reapply"}
        BY <1>5, <3>1 DEF Decide, Idle
      <3> QED
        BY <1>6, <1>9, <3>2
    <2>6. CASE UndoRule(s)
      BY <2>6 DEF UndoRule, Starts, Alone
    <2>7. CASE \E a \in Accounts : RetypeRead(s, a)
      <3>1. op'[s].at = "retyping"
        BY <1>5, <2>7 DEF RetypeRead, Idle
      <3> QED
        BY <1>6, <1>9, <3>1
    <2> QED
      BY <1>9, <2>1, <2>2, <2>3, <2>4, <2>5, <2>6, <2>7 DEF Start
  <1>10. CASE z = s /\ (Continue(s) \/ SessionKilled(s))
    <2>1. CASE \/ Categorize(s) \/ ClearWrite(s) \/ ReleaseWrite(s) \/ LinkWrite(s)
               \/ ConfirmWrite(s) \/ ReapplyReadRules(s) \/ ReapplyDone(s) \/ UndoDone(s)
               \/ RetypeWrite(s) \/ UnboxDone(s) \/ SessionKilled(s)
      <3>1. op'[s].at \in {"idle", "reapply", "reapplyRows", "unbox"}
        <4>1. CASE \/ Categorize(s) \/ ClearWrite(s) \/ ReleaseWrite(s) \/ LinkWrite(s)
                   \/ ReapplyDone(s) \/ UndoDone(s) \/ SessionKilled(s)
          <5>1. Goes(s, Idle)
            BY <4>1 DEF Categorize, ClearWrite, ReleaseWrite, LinkWrite, ReapplyDone, UndoDone,
                        SessionKilled
          <5> QED
            BY <1>5, <5>1 DEF Idle
        <4>2. CASE ConfirmWrite(s) \/ ReapplyReadRules(s)
          BY <1>4, <1>5, <4>2 DEF ConfirmWrite, ReapplyReadRules
        <4>3. CASE RetypeWrite(s) \/ UnboxDone(s)
          BY <1>4, <1>5, <4>3 DEF RetypeWrite, UnboxDone, afterRetype
        <4> QED
          BY <2>1, <4>1, <4>2, <4>3
      <3> QED
        BY <1>6, <1>10, <3>1
    <2>2. CASE ClearRead(s)
      <3>1. op[s].at = "clear" /\ op'[s].at = "clearing" /\ op'[s].row = op[s].row
        BY <1>4, <1>5, <2>2 DEF ClearRead
      <3> QED
        BY <1>2, <1>7, <1>10, <3>1 DEF UndecidedWhenWritten, OnRow
    <2>3. CASE ConfirmRead(s)
      <3> DEFINE rows == {r \in stored : /\ isUnreviewedP2P(txn[r], r)
                                         /\ txn[r].src # "MANUAL"
                                         /\ payee[r] = op[s].undo.payee}
                 snaps == {Snapshot(r) : r \in rows}
      <3>1. /\ op'[s] = [op[s] EXCEPT !.at = "confirming", !.undo.restore = snaps]
            /\ UNCHANGED txn
        BY <1>5, <2>3 DEF ConfirmRead, ledger
      <3>2. \A t \in snaps : t.id \in stored /\ txn[t.id].src # "MANUAL"
        BY DEF Snapshot
      <3> HIDE DEF snaps
      <3>3. op[s].undo \in Undos
        BY <1>1 DEF OpOK, Op
      <3>4. op'[s].at = "confirming" /\ op'[s].undo.restore = snaps
        BY <1>4, <3>1, <3>3 DEF Undos
      <3> QED
        BY <1>3, <1>10, <3>1, <3>2, <3>4 DEF UndecidedWhenWritten, Undecided, OnRow
    <2>4. CASE ReapplyReadRows(s)
      <3> DEFINE rules == op[s].rules
                 changed == {r \in Ruled(rules, investment, txn, stored) : Changes(rules, r)}
                 todo == Batches(rules, investment, changed)
                 byRule == {r \in changed : ~isClosedBox(investment, r)}
                 restore == op[s].undo.restore \union {Snapshot(r) : r \in byRule}
      <3>0. /\ op'[s] = [op[s] EXCEPT !.at = "reapplying", !.rules = NoRules,
                                      !.todo = todo, !.undo.restore = restore]
            /\ UNCHANGED txn
        BY <1>5, <2>4 DEF ReapplyReadRows, ledger
      <3> HIDE DEF todo, restore
      <3>1. op'[s].at = "reapplying" /\ op'[s].todo = todo
        BY <1>4, <3>0
      <3> USE DEF todo
      <3>2. \A b \in todo : \A r \in b.ids : txn[r].src # "MANUAL"
        BY BatchesTheirRows DEF Ruled, Sacred
      <3> HIDE DEF todo
      <3> QED
        BY <1>10, <3>0, <3>1, <3>2 DEF UndecidedWhenWritten, Undecided, OnRow
    <2>5. CASE ReapplyWrite(s) \/ RestoreWrite(s)
      <3>1. PICK b : op'[s] = [op[s] EXCEPT !.todo = @ \ {b}]
        BY <1>5, <2>5 DEF ReapplyWrite, RestoreWrite
      <3>2. op'[s].at = op[s].at /\ op'[s].todo = op[s].todo \ {b}
        BY <1>4, <3>1
      <3>3. op[s].at \in {"reapplying", "unboxing"}
        BY <1>1, <2>5 DEF ReapplyWrite, RestoreWrite, SessionsOK, OpsExercised, Alone
      <3>4. op[s].todo \subseteq RuleWrites \/ op[s].todo \subseteq RowWrites
        BY <1>1, <3>3 DEF OpOK
      <3>5. \A c \in op[s].todo : \A r \in c.ids : r \in Rows
        BY <3>4 DEF RuleWrites, RowWrites
      <3>6. \A r \in Rows : Undecided(r) => txn'[r].src # "MANUAL"
        BY <3>3, SessionDecides DEF DecidesOnly
      <3> QED
        BY <1>2, <1>10, <3>2, <3>3, <3>5, <3>6 DEF UndecidedWhenWritten, Undecided, OnRow
    <2>6. CASE UnboxRead(s)
      <3> DEFINE rows == {r \in stored : /\ account[r] = op[s].other
                                         /\ txn[r].flow = "TRANSFER"
                                         /\ txn[r].pair = NoRow
                                         /\ txn[r].src # "MANUAL"}
                 snaps == { [id |-> r, cat |-> NoCat, src |-> "AGGREGATOR",
                             flow |-> flowByAmount(r)] : r \in rows }
                 todo == RestoreBatches(snaps)
      <3>1. /\ op'[s].at = "unboxing" /\ op'[s].todo = todo
            /\ UNCHANGED txn
        BY <1>4, <1>5, <2>6 DEF UnboxRead, ledger
      <3>2. \A t \in snaps : t.src = "AGGREGATOR" /\ txn[t.id].src # "MANUAL"
        OBVIOUS
      <3> HIDE DEF snaps
      <3>3. \A b \in todo : \A r \in b.ids : txn[r].src # "MANUAL"
        BY <3>2, RestoresTheirRows
      <3>4. \A b \in todo : b.src = "AGGREGATOR"
        BY <3>2 DEF RestoreBatches
      <3> QED
        BY <1>10, <3>1, <3>3, <3>4 DEF UndecidedWhenWritten, Undecided, OnRow
    <2> QED
      BY <1>10, <2>1, <2>2, <2>3, <2>4, <2>5, <2>6 DEF Continue
  <1> QED
    BY <1>8, <1>9, <1>10

\* Every step keeps what a person decided.
LEMMA SacredStep ==
  ASSUME SacredInv, Alone, [Next]_vars
  PROVE  SacredInv'
  <1>1. TypeOK' /\ LinkInv' /\ SessionsOK'
    BY TypeStep, LinkStep, SessionsStep DEF SacredInv, OpsTyped, TypeOK
  <1>2. stored \subseteq stored' /\ stored' \subseteq Rows /\ pairs \subseteq [out : Rows, in : Rows]
    BY <1>1, ImportStep DEF SacredInv, LinkInv, PipelineOK, Linkable
  <1>3. CASE UNCHANGED vars
    <2>1. UNCHANGED <<stored, txn, op, pairs, half>>
      BY <1>3 DEF vars, ledger, syncVars, sessionVars
    <2> QED
      BY <1>1, <2>1 DEF SacredInv, Undecided, UndecidedWhenWritten
  <1>4. CASE SyncNext
    <2>1. \A r \in Rows : Undecided(r) => txn'[r].src # "MANUAL"
      BY <1>4, SyncDecidesNothing
    <2>2. \A s \in Sessions : UndecidedWhenWritten(op[s])'
      BY <1>4, SyncAlone DEF SacredInv, Alone, UndecidedWhenWritten, OnRow
    <2>3. \A r \in Rows \ stored' : txn'[r].src # "MANUAL"
      BY <1>2, <2>1 DEF SacredInv
    <2>4. /\ \A p \in pairs' : txn'[p.out].src # "MANUAL" /\ txn'[p.in].src # "MANUAL"
          /\ half' # NoPair => txn'[half'.in].src # "MANUAL"
      <3>1. CASE ReadCandidates
        <4> DEFINE C == {r \in Rows : Candidate(r)}
        <4>1. pairs' \in detectTransferPairs(C) /\ UNCHANGED <<txn, half>>
          BY <3>1 DEF ReadCandidates, ledger
        <4>2. \A p \in pairs' : p.out \in C /\ p.in \in C
          BY <4>1, DetectionMatches
        <4>3. half' = NoPair
          BY <3>1, <4>1 DEF ReadCandidates, SacredInv, SessionsOK, PairsPending
        <4> QED
          BY <4>1, <4>2, <4>3 DEF Candidate
      <3>2. CASE PairOut
        BY <1>2, <2>1, <3>2 DEF PairOut, SacredInv
      <3>3. CASE ~ReadCandidates /\ ~PairOut
        <4>1. pairs' \subseteq pairs /\ half' \in {half, NoPair}
          BY <1>4, <3>3 DEF SyncNext, SyncStart, SyncStep, SyncKilled, Fetch, Insert, ReadRules,
                      ReadWaiting, RulePass, WriteBatch, WriteHint, PairIn, SyncFinish
        <4>2. half # NoPair => half.in \in Rows
          BY DEF SacredInv, LinkInv, PipelineOK, Linkable
        <4> QED
          BY <1>2, <2>1, <4>1, <4>2 DEF SacredInv
      <3> QED
        BY <3>1, <3>2, <3>3
    <2> QED
      BY <1>1, <2>2, <2>3, <2>4 DEF SacredInv, Undecided
  <1>5. ASSUME NEW s \in Sessions, Start(s) \/ Continue(s) \/ SessionKilled(s)
        PROVE  SacredInv'
    <2>1. \A z \in Sessions : UndecidedWhenWritten(op[z])'
      BY <1>5, SessionsStayUndecided
    <2>2. UNCHANGED <<stored, pairs, half>>
      BY <1>5, SessionsLeavePairs DEF SacredInv, LinkInv
    <2>3. pairs = {} /\ half = NoPair
      <3>1. syncAt = "idle"
        <4>1. CASE Start(s)
          BY <4>1, StartsAlone DEF Alone, SacredInv, TypeOK, OpsTyped
        <4>2. CASE Continue(s)
          BY <4>2, GoesOn DEF Alone, SacredInv, TypeOK, OpsTyped, SessionsOK, OneAtATime
        <4>3. CASE SessionKilled(s)
          BY <4>3 DEF Alone, SacredInv, SessionsOK, OneAtATime, SessionKilled
        <4> QED
          BY <1>5, <4>1, <4>2, <4>3
      <3> QED
        BY <3>1 DEF SacredInv, SessionsOK, PairsPending
    <2>4. \A r \in Rows \ stored : txn'[r].src # "MANUAL"
      BY <1>5, SessionDecides DEF DecidesOnly, SacredInv
    <2> QED
      BY <1>1, <2>1, <2>2, <2>3, <2>4 DEF SacredInv, Undecided
  <1> QED
    BY <1>3, <1>4, <1>5 DEF Next

\* Nobody has decided anything at first.
LEMMA InitSacred == Init => SacredInv
  <1> SUFFICES ASSUME Init PROVE SacredInv
    OBVIOUS
  <1>1. \A r \in Rows : Undecided(r)
    BY DEF Init, LedgerInit, Imported, Undecided
  <1>2. \A s \in Sessions : op[s].at = "idle"
    BY DEF Init, Idle
  <1>3. pairs = {} /\ half = NoPair
    BY DEF Init, SyncInit
  <1> QED
    BY <1>1, <1>2, <1>3, InitTyped, InitLinkInv, InitSessions
    DEF SacredInv, UndecidedWhenWritten, OnRow

\* One action or sync at a time, and no undo: what a person decided about a
\* row is changed only by a person's own action on that row, also when a sync
\* or an action was killed half way (sync.ts, transactions/actions.ts,
\* accounts/actions.ts, rulePack.ts).
THEOREM ManualDecisionsStay == ASSUME Alone PROVE Spec => ManualIsSacred
  <1> DEFINE Kept == \A r \in Rows :
                \/ Spared(r)
                \/ \E s \in Sessions :
                      op[s].row = r /\ op[s].at \in {"categorize", "clearing", "releasing"}
  <1>1. SacredInv /\ [Next]_vars => SacredInv'
    BY SacredStep
  <1>2. SacredInv /\ [Next]_vars => [Kept]_vars
    <2> SUFFICES ASSUME SacredInv, Next PROVE Kept
      OBVIOUS
    <2>1. CASE SyncNext
      BY <2>1, SyncDecidesNothing
    <2>2. ASSUME NEW s \in Sessions, Start(s) \/ Continue(s) \/ SessionKilled(s) PROVE Kept
      BY <2>2, SessionDecides DEF DecidesOnly
    <2> QED
      BY <2>1, <2>2 DEF Next
  <1> QED
    BY <1>1, <1>2, InitSacred, PTL DEF Spec, ManualIsSacred

-----------------------------------------------------------------------------
(* Rows inside an investment account never pair. *)

\* Without retypes, an account is in the box or not for good.
LEMMA BoxStays ==
  ASSUME InsideInv, BoxKept, [Next]_vars
  PROVE  UNCHANGED investment
  <1>1. CASE UNCHANGED vars
    BY <1>1 DEF vars, ledger
  <1>2. CASE SyncNext
    BY <1>2 DEF SyncNext, SyncStart, SyncStep, SyncKilled, Fetch, Insert, ReadRules, ReadWaiting,
                RulePass, WriteBatch, WriteHint, ReadCandidates, PairOut, PairIn, SyncFinish,
                ledger
  <1>3. ASSUME NEW s \in Sessions, Start(s) \/ Continue(s) \/ SessionKilled(s)
        PROVE  UNCHANGED investment
    <2>1. ~RetypeWrite(s)
      BY DEF RetypeWrite, InsideInv, SessionsOK, OpsExercised, BoxKept
    <2> QED
      BY <1>3, <2>1 DEF Start, ShowRow, ReleaseRead, Unlink, LinkRead, Decide, UndoRule,
         RetypeRead, Continue, Categorize, ClearRead, ClearWrite, ReleaseWrite, LinkWrite,
         ConfirmRead, ConfirmWrite, ReapplyReadRules, ReapplyReadRows, ReapplyWrite,
         ReapplyDone, RestoreWrite, UndoDone, UnboxRead, UnboxDone, SessionKilled, ledger
  <1> QED
    BY <1>1, <1>2, <1>3 DEF Next

\* The rule batches of any rows enclose those inside.
LEMMA BatchesEnclose ==
  ASSUME NEW rules, NEW X
  PROVE  Encloses(Batches(rules, investment, X))
  BY BatchesTheirRows DEF Encloses, Inside, Outcome, Enclosed

\* A session makes a row inside a person's, encloses it, or leaves what was
\* decided about it as it was.
LEMMA SessionsEnclose ==
  ASSUME InsideInv, BoxKept, NEW s \in Sessions,
         Start(s) \/ Continue(s) \/ SessionKilled(s), NEW r \in Rows, Inside(r)
  PROVE  \/ txn'[r].src = "MANUAL" \/ txn'[r].flow = "TRANSFER"
         \/ Decided(txn'[r]) = Decided(txn[r])
  <1>1. txn \in [Rows -> Txn] /\ OpOK(op[s]) /\ InsideOp(op[s])
    BY DEF InsideInv, TypeOK, SyncTypeOK
  <1>2. {"cat", "src", "flow", "pair", "reimb"} \subseteq DOMAIN txn[r]
    BY <1>1 DEF Txn
  <1>3. CASE txn'[r] = txn[r]
    BY <1>3
  <1>4. CASE Categorize(s) \/ ReleaseWrite(s)
    <2>1. op[s].row # r => txn'[r] = txn[r]
      BY <1>1, <1>4 DEF Categorize, ReleaseWrite, Writes
    <2>2. ASSUME op[s].row = r PROVE txn'[r].src = "MANUAL"
      <3>1. CASE Categorize(s)
        <4>1. PICK c : txn'[r] = [txn[r] EXCEPT !.cat = c, !.src = "MANUAL"]
          BY <1>1, <2>2, <3>1 DEF Categorize, Writes
        <4> QED
          BY <1>2, <4>1
      <3>2. CASE ReleaseWrite(s)
        <4>1. txn'[r] = Released(txn[r], r)
          BY <1>1, <2>2, <3>2 DEF ReleaseWrite, Writes
        <4> QED
          BY <1>2, <4>1 DEF Released
      <3> QED
        BY <1>4, <3>1, <3>2
    <2> QED
      BY <1>3, <2>1, <2>2
  <1>5. CASE ClearWrite(s)
    <2>1. op[s].row # r => txn'[r] = txn[r]
      BY <1>1, <1>5 DEF ClearWrite, Writes
    <2>2. op[s].row = r => txn'[r] = whenCleared(txn[r], op[s].box)
      BY <1>1, <1>5 DEF ClearWrite, Writes
    <2>3. op[s].row = r => op[s].box = TRUE
      BY <1>1, <1>5 DEF ClearWrite, InsideOp, Inside, isClosedBox
    <2>4. whenCleared(txn[r], TRUE).flow = "TRANSFER"
      BY <1>1, WhenClearedIs
    <2> QED
      BY <1>3, <2>1, <2>2, <2>3, <2>4
  <1>6. CASE LinkWrite(s) \/ \E i \in Rows : Unlink(s, i)
    <2>1. ASSUME NEW q, NEW x, Writes(q, [txn[q] EXCEPT !.reimb = x])
          PROVE  Decided(txn'[r]) = Decided(txn[r])
      <3>1. CASE q = r
        BY <1>1, <1>2, <2>1, <3>1 DEF Writes, Decided
      <3>2. CASE q # r
        BY <1>1, <2>1, <3>2 DEF Writes
      <3> QED
        BY <3>1, <3>2
    <2> QED
      BY <1>6, <2>1 DEF LinkWrite, Unlink
  <1>7. CASE ConfirmWrite(s)
    <2> DEFINE ids == {t.id : t \in op[s].undo.restore}
    <2>1. PICK target \in op[s].todo :
             txn' = [q \in Rows |->
                       IF q \in ids THEN [txn[q] EXCEPT !.cat = target.cat, !.src = "MANUAL"]
                       ELSE txn[q]]
      BY <1>7 DEF ConfirmWrite
    <2> HIDE DEF ids
    <2>2. r \notin ids => txn'[r] = txn[r]
      BY <2>1
    <2>3. r \in ids => txn'[r].src = "MANUAL"
      BY <1>2, <2>1
    <2> QED
      BY <1>3, <2>2, <2>3
  <1>8. CASE ReapplyWrite(s)
    <2>1. PICK b \in op[s].todo :
             txn' = [q \in Rows |-> IF q \in b.ids THEN ByRule(txn[q], b) ELSE txn[q]]
      BY <1>8 DEF ReapplyWrite
    <2>2. r \in b.ids => b.flow = "TRANSFER"
      BY <1>1, <1>8 DEF ReapplyWrite, InsideOp, Encloses
    <2>3. b.flow = "TRANSFER" => ByRule(txn[r], b).flow = "TRANSFER"
      BY <1>2, AbsentAssumption DEF ByRule, Flows
    <2>4. r \notin b.ids => txn'[r] = txn[r]
      BY <2>1
    <2>5. r \in b.ids => txn'[r] = ByRule(txn[r], b)
      BY <2>1
    <2> QED
      BY <1>3, <2>2, <2>3, <2>4, <2>5
  <1>9. CASE RestoreWrite(s)
    <2>1. op[s].at = "restoring"
      BY <1>9 DEF RestoreWrite, InsideInv, SessionsOK, OpsExercised, BoxKept
    <2>2. PICK b \in op[s].todo :
             txn' = [q \in Rows |->
                       IF q \in b.ids
                       THEN [txn[q] EXCEPT !.cat = b.cat, !.src = b.src, !.flow = b.flow]
                       ELSE txn[q]]
      BY <1>9 DEF RestoreWrite
    <2>3. r \notin b.ids
      BY <1>1, <2>1 DEF InsideOp
    <2> QED
      BY <1>3, <2>2, <2>3
  <1>10. CASE \/ Start(s) /\ ~\E i \in Rows : Unlink(s, i)
              \/ ClearRead(s) \/ ConfirmRead(s) \/ ReapplyReadRules(s) \/ ReapplyReadRows(s)
              \/ ReapplyDone(s) \/ UndoDone(s) \/ RetypeWrite(s) \/ UnboxRead(s)
              \/ UnboxDone(s) \/ SessionKilled(s)
    <2>1. UNCHANGED txn
      BY <1>10 DEF Start, ShowRow, ReleaseRead, LinkRead, Decide, UndoRule, RetypeRead,
                   ClearRead, ConfirmRead, ReapplyReadRules, ReapplyReadRows, ReapplyDone,
                   UndoDone, RetypeWrite, UnboxRead, UnboxDone, SessionKilled, ledger
    <2> QED
      BY <2>1, <1>3
  <1> QED
    BY <1>4, <1>5, <1>6, <1>7, <1>8, <1>9, <1>10 DEF Continue

\* Hence a row inside stays one a sync cannot pair.
LEMMA SessionsInsideRow ==
  ASSUME InsideInv, BoxKept, NEW s \in Sessions,
         Start(s) \/ Continue(s) \/ SessionKilled(s), NEW r \in Rows, Inside(r)
  PROVE  InsideRow(r)'
  <1>1. PairsKept /\ UNCHANGED <<stored, syncAt, pairs, half>>
    BY SessionsLeavePairs DEF InsideInv, LinkInv
  <1>2. UNCHANGED batches
    BY DEF syncVars, Start, ShowRow, ReleaseRead, Unlink, LinkRead, Decide, UndoRule,
           RetypeRead, Continue, Categorize, ClearRead, ClearWrite, ReleaseWrite, LinkWrite,
           ConfirmRead, ConfirmWrite, ReapplyReadRules, ReapplyReadRows, ReapplyWrite,
           ReapplyDone, RestoreWrite, UndoDone, RetypeWrite, UnboxRead, UnboxDone, SessionKilled
  <1>3. InsideRow(r)
    BY DEF InsideInv
  <1>4. \/ txn'[r].src = "MANUAL" \/ txn'[r].flow = "TRANSFER"
        \/ /\ txn'[r].src = txn[r].src /\ txn'[r].cat = txn[r].cat
           /\ txn'[r].flow = txn[r].flow
    BY SessionsEnclose DEF Decided
  <1> QED
    BY <1>1, <1>2, <1>3, <1>4 DEF InsideRow, Waiting, PairsKept

\* What the sessions hold encloses the rows inside, or is not for them.
LEMMA SessionsHold ==
  ASSUME InsideInv, BoxKept, NEW s \in Sessions,
         Start(s) \/ Continue(s) \/ SessionKilled(s), NEW z \in Sessions
  PROVE  /\ InsideOp(op[z])'
         /\ "undo" \in Operations => NoneInside(undoable[z].restore)'
  <1>1. OpsTyped /\ OpOK(op[s]) /\ stored \subseteq Rows /\ undoable \in [Sessions -> Undos]
    BY DEF InsideInv, OpsTyped, TypeOK, SyncTypeOK
  <1>2. InsideOp(op[s]) /\ ("undo" \in Operations => NoneInside(undoable[s].restore))
    BY DEF InsideInv
  <1>3. \A r : Inside(r)' = Inside(r)
    BY BoxStays DEF Next, Inside, isClosedBox
  <1>4. {"at", "row", "todo", "rules", "undo", "box"} \subseteq DOMAIN op[s]
    BY <1>1 DEF OpOK, Op
  <1>5. ASSUME NEW next, Goes(s, next) PROVE op'[s] = next
    BY <1>1, <1>5 DEF OpsTyped, Goes
  <1>6. UNCHANGED investment
    BY BoxStays DEF Next
  <1>7. ASSUME NEW o, InsideOp(o), op'[z] = o PROVE InsideOp(op[z])'
    BY <1>3, <1>6, <1>7 DEF InsideOp, Encloses, NoneInside
  <1>8. ASSUME NEW o, o.at \notin {"clearing", "reapplying", "restoring"},
               "undo" \in Operations => NoneInside(o.undo.restore)
        PROVE  InsideOp(o)
    BY <1>8 DEF InsideOp
  <1>9. NoneInside({}) /\ InsideOp(Idle)
    BY DEF NoneInside, InsideOp, Idle, NoUndo
  <1>10. InsideOp(op[z])'
    <2>1. CASE z # s
      <3>1. op'[z] = op[z]
        BY <1>1, <2>1, OneSessionMoves
      <3> QED
        BY <1>7, <3>1 DEF InsideInv
    <2>2. CASE z = s /\ Start(s)
      <3>1. CASE UndoRule(s)
        <4> DEFINE todo == RestoreBatches(undoable[s].restore)
        <4>1. "undo" \in Operations /\ op'[s] = [Idle EXCEPT !.at = "restoring", !.todo = todo]
          BY <1>5, <3>1 DEF UndoRule, Starts
        <4>2. \A b \in todo : \A r \in b.ids : ~Inside(r)
          BY <1>2, <4>1, RestoresTheirRows DEF NoneInside
        <4> HIDE DEF todo
        <4>3. InsideOp([Idle EXCEPT !.at = "restoring", !.todo = todo])
          BY <1>9, <4>2 DEF InsideOp, Idle, NoUndo, NoneInside
        <4> QED
          BY <1>7, <2>2, <4>1, <4>3
      <3>2. CASE \E p \in Payees, target \in Targets : Decide(s, p, target)
        <4>1. PICK p \in Payees, target \in Targets : Decide(s, p, target)
          BY <3>2
        <4> DEFINE at == IF target.flow = Keep THEN "confirm" ELSE "reapply"
                   undo == [payee |-> p, previous |-> userRules[p], restore |-> {}]
        <4>2. op'[s] = [Idle EXCEPT !.at = at, !.undo = undo, !.todo = {target}]
          BY <1>5, <4>1 DEF Decide
        <4>3. at \in {"confirm", "reapply"} /\ undo.restore = {}
          OBVIOUS
        <4> HIDE DEF at, undo
        <4>4. op'[s].at = at /\ op'[s].undo = undo
          BY <4>2 DEF Idle
        <4>5. InsideOp(op'[s])
          BY <1>8, <1>9, <4>3, <4>4
        <4> QED
          BY <1>7, <2>2, <4>5
      <3>3. CASE \E r \in Rows : Unlink(s, r)
        <4>1. op' = op
          BY <3>3 DEF Unlink
        <4> QED
          BY <1>2, <1>7, <2>2, <4>1
      <3>4. CASE \/ \E r \in Rows : \/ ShowRow(s, r, "categorize") \/ ShowRow(s, r, "clear")
                                    \/ ReleaseRead(s, r)
                 \/ \E i, o \in Rows : LinkRead(s, i, o)
                 \/ \E a \in Accounts : RetypeRead(s, a)
        <4> DEFINE names == {"categorize", "clear", "releasing", "linking", "retyping"}
        <4>1. op'[s].at \in names /\ op'[s].undo.restore = {}
          <5>1. ASSUME NEW r \in Rows, NEW name \in {"categorize", "clear"}, ShowRow(s, r, name)
                PROVE  op'[s].at \in names /\ op'[s].undo.restore = {}
            <6>1. op'[s] = [Idle EXCEPT !.at = name, !.row = r]
              BY <1>5, <5>1 DEF ShowRow
            <6> QED
              BY <6>1 DEF Idle, NoUndo
          <5>2. ASSUME NEW r \in Rows, ReleaseRead(s, r)
                PROVE  op'[s].at \in names /\ op'[s].undo.restore = {}
            <6>1. op'[s] = [Idle EXCEPT !.at = "releasing", !.row = r]
              BY <1>5, <5>2 DEF ReleaseRead
            <6> QED
              BY <6>1 DEF Idle, NoUndo
          <5>3. ASSUME NEW i \in Rows, NEW o \in Rows, LinkRead(s, i, o)
                PROVE  op'[s].at \in names /\ op'[s].undo.restore = {}
            <6>1. op'[s] = [Idle EXCEPT !.at = "linking", !.row = i, !.other = o]
              BY <1>5, <5>3 DEF LinkRead
            <6> QED
              BY <6>1 DEF Idle, NoUndo
          <5>4. ASSUME NEW a \in Accounts, RetypeRead(s, a)
                PROVE  op'[s].at \in names /\ op'[s].undo.restore = {}
            <6>1. op'[s] = [Idle EXCEPT !.at = "retyping", !.other = a, !.box = a \in investment]
              BY <1>5, <5>4 DEF RetypeRead
            <6> QED
              BY <6>1 DEF Idle, NoUndo
          <5> QED
            BY <3>4, <5>1, <5>2, <5>3, <5>4
        <4>2. InsideOp(op'[s])
          BY <1>8, <1>9, <4>1
        <4> QED
          BY <1>7, <2>2, <4>2
      <3> QED
        BY <2>2, <3>1, <3>2, <3>3, <3>4 DEF Start
    <2>3. CASE z = s /\ (Continue(s) \/ SessionKilled(s))
      <3>1. CASE \/ Categorize(s) \/ ClearWrite(s) \/ ReleaseWrite(s) \/ LinkWrite(s)
                 \/ ReapplyDone(s) \/ UndoDone(s) \/ SessionKilled(s)
        <4>1. Goes(s, Idle)
          BY <3>1 DEF Categorize, ClearWrite, ReleaseWrite, LinkWrite, ReapplyDone, UndoDone,
                      SessionKilled
        <4> QED
          BY <1>5, <1>7, <1>9, <2>3, <4>1
      <3>2. CASE ClearRead(s)
        <4>1. /\ op'[s].at = "clearing" /\ op'[s].undo = op[s].undo
              /\ op'[s].box = isClosedBox(investment, op'[s].row)
          BY <1>4, <1>5, <3>2 DEF ClearRead
        <4>2. InsideOp(op'[s])
          BY <1>2, <4>1 DEF InsideOp
        <4> QED
          BY <1>7, <2>3, <4>2
      <3>3. CASE ConfirmRead(s)
        <4> DEFINE rows == {r \in stored : /\ isUnreviewedP2P(txn[r], r)
                                           /\ txn[r].src # "MANUAL"
                                           /\ payee[r] = op[s].undo.payee}
                   snaps == {Snapshot(r) : r \in rows}
        <4>1. op'[s] = [op[s] EXCEPT !.at = "confirming", !.undo.restore = snaps]
          BY <1>5, <3>3 DEF ConfirmRead
        <4>2. "undo" \in Operations => NoneInside(snaps)
          BY DEF BoxKept, NoneInside, Snapshot, isUnreviewedP2P, Inside
        <4> HIDE DEF snaps
        <4>3. op[s].undo \in Undos
          BY <1>1 DEF OpOK, Op
        <4>4. op'[s].at = "confirming" /\ op'[s].undo.restore = snaps
          BY <1>4, <4>1, <4>3 DEF Undos
        <4>5. InsideOp(op'[s])
          BY <1>8, <4>2, <4>4
        <4> QED
          BY <1>7, <2>3, <4>5
      <3>4. CASE ConfirmWrite(s) \/ ReapplyReadRules(s)
        <4>1. op'[s].at \in {"reapply", "reapplyRows"} /\ op'[s].undo = op[s].undo
          BY <1>4, <1>5, <3>4 DEF ConfirmWrite, ReapplyReadRules
        <4>2. InsideOp(op'[s])
          BY <1>2, <1>8, <4>1 DEF InsideOp
        <4> QED
          BY <1>7, <2>3, <4>2
      <3>5. CASE ReapplyReadRows(s)
        <4> DEFINE rules == op[s].rules
                   changed == {r \in Ruled(rules, investment, txn, stored) : Changes(rules, r)}
                   byRule == {r \in changed : ~isClosedBox(investment, r)}
                   todo == Batches(rules, investment, changed)
                   snaps == {Snapshot(r) : r \in byRule}
                   restore == op[s].undo.restore \union snaps
        <4>1. op'[s] = [op[s] EXCEPT !.at = "reapplying", !.rules = NoRules,
                                     !.todo = todo, !.undo.restore = restore]
          BY <1>5, <3>5 DEF ReapplyReadRows
        <4>2. Encloses(todo)
          BY BatchesEnclose
        <4>3. NoneInside(snaps)
          BY DEF NoneInside, Snapshot, Inside
        <4>4. "undo" \in Operations => NoneInside(restore)
          BY <1>2, <4>3 DEF InsideOp, NoneInside
        <4> HIDE DEF todo, restore
        <4>5. op[s].undo \in Undos
          BY <1>1 DEF OpOK, Op
        <4>6. op'[s].at = "reapplying" /\ op'[s].todo = todo /\ op'[s].undo.restore = restore
          BY <1>4, <4>1, <4>5 DEF Undos
        <4>7. InsideOp(op'[s])
          BY <4>2, <4>4, <4>6 DEF InsideOp
        <4> QED
          BY <1>7, <2>3, <4>7
      <3>6. CASE ReapplyWrite(s) \/ RestoreWrite(s)
        <4>1. PICK b : op'[s] = [op[s] EXCEPT !.todo = @ \ {b}]
          BY <1>5, <3>6 DEF ReapplyWrite, RestoreWrite
        <4>2. /\ op'[s].at = op[s].at /\ op'[s].todo = op[s].todo \ {b}
              /\ op'[s].undo = op[s].undo
          BY <1>4, <4>1
        <4>3. op[s].at # "clearing"
          BY <3>6 DEF ReapplyWrite, RestoreWrite
        <4>4. InsideOp(op'[s])
          BY <1>2, <4>2, <4>3 DEF InsideOp, Encloses
        <4> QED
          BY <1>7, <2>3, <4>4
      <3>7. CASE RetypeWrite(s) \/ UnboxRead(s) \/ UnboxDone(s)
        BY <3>7 DEF RetypeWrite, UnboxRead, UnboxDone, InsideInv, SessionsOK, OpsExercised,
                    BoxKept
      <3> QED
        BY <2>3, <3>1, <3>2, <3>3, <3>4, <3>5, <3>6, <3>7 DEF Continue
    <2> QED
      BY <2>1, <2>2, <2>3
  <1>11. "undo" \in Operations => NoneInside(undoable[z].restore)'
    <2>1. undoable'[z].restore \in {undoable[z].restore, op[s].undo.restore, {}}
      <3>1. CASE ReapplyDone(s)
        BY <1>1, <3>1 DEF ReapplyDone
      <3>2. CASE UndoDone(s)
        BY <1>1, <3>2 DEF UndoDone, NoUndo
      <3>3. CASE ~ReapplyDone(s) /\ ~UndoDone(s)
        BY <3>3 DEF Start, ShowRow, ReleaseRead, Unlink, LinkRead, Decide, UndoRule,
           RetypeRead, Continue, Categorize, ClearRead, ClearWrite, ReleaseWrite, LinkWrite,
           ConfirmRead, ConfirmWrite, ReapplyReadRules, ReapplyReadRows, ReapplyWrite,
           RestoreWrite, RetypeWrite, UnboxRead, UnboxDone, SessionKilled
      <3> QED
        BY <3>1, <3>2, <3>3
    <2>2. ASSUME "undo" \in Operations
          PROVE  /\ NoneInside(undoable[z].restore) /\ NoneInside(op[s].undo.restore)
                 /\ NoneInside({})
      BY <1>2, <1>9, <2>2 DEF InsideInv, InsideOp
    <2> QED
      BY <1>3, <2>1, <2>2 DEF NoneInside
  <1> QED
    BY <1>10, <1>11

\* A sync keeps a row inside unpaired, and the rules pass has a batch for the
\* one that waits.
LEMMA SyncInsideRow ==
  ASSUME InsideInv, SyncNext, NEW r \in Rows, Inside(r)
  PROVE  InsideRow(r)'
  <1>1. /\ txn \in [Rows -> Txn] /\ stored \subseteq Rows /\ InsideRow(r)
        /\ {"cat", "src", "flow", "pair", "reimb"} \subseteq DOMAIN txn[r]
        /\ r \in Internal /\ isClosedBox(investment, r)
    BY DEF InsideInv, TypeOK, SyncTypeOK, Txn, Inside
  <1>2. CASE Insert
    <2>1. /\ stored' = stored \union fresh /\ syncAt' = "readingRules"
          /\ txn'[r] = IF r \in fresh THEN Imported(r) ELSE txn[r]
      BY <1>2 DEF Insert
    <2>2. Imported(r).pair = NoRow /\ Waiting(Imported(r))
      BY DEF Imported, Waiting
    <2>3. CASE r \in fresh
      BY <2>1, <2>2, <2>3 DEF InsideRow
    <2>4. CASE r \notin fresh
      BY <1>1, <2>1, <2>4 DEF InsideRow, Waiting
    <2> QED
      BY <2>3, <2>4
  <1>3. CASE ReadWaiting
    <2> DEFINE matched == Ruled(seenRules, investment, txn, waitingRows)
               applied == {q \in matched : \/ ~isClosedBox(investment, q)
                                           \/ txn[q].flow # "TRANSFER"
                                           \/ q \in fresh}
    <2>1. UNCHANGED <<stored, txn>> /\ batches' = Batches(seenRules, investment, applied)
      BY <1>3 DEF ReadWaiting, ledger
    <2>2. ASSUME r \in stored, txn[r].src # "MANUAL", txn[r].flow # "TRANSFER"
          PROVE  r \in applied
      <3>1. Waiting(txn[r])
        BY <1>1, <2>2 DEF InsideRow
      <3> QED
        BY <1>1, <2>2, <3>1 DEF waitingRows, Ruled, Sacred, Waiting
    <2> HIDE DEF applied
    <2>3. r \in applied => \E b \in batches' : r \in b.ids
      BY <2>1, RowsTheirBatch
    <2> QED
      BY <1>1, <2>1, <2>2, <2>3 DEF InsideRow, Waiting
  <1>4. CASE WriteBatch
    <2>1. PICK b \in batches :
             /\ txn' = [q \in Rows |-> IF q \in reached(b.ids) THEN ByRule(txn[q], b)
                                       ELSE txn[q]]
             /\ batches' = batches \ {b}
      BY <1>4 DEF WriteBatch
    <2>2. UNCHANGED <<stored, syncAt>>
      BY <1>4 DEF WriteBatch
    <2>3. CASE r \in b.ids /\ txn[r].src # "MANUAL"
      <3>1. txn'[r] = ByRule(txn[r], b)
        BY <2>1, <2>3 DEF reached
      <3>2. b.flow = "TRANSFER"
        BY <2>3 DEF InsideInv, Encloses
      <3>3. ByRule(txn[r], b).flow = "TRANSFER" /\ ByRule(txn[r], b).pair = txn[r].pair
        BY <1>1, <3>2, ByRuleKeepsPair, AbsentAssumption DEF ByRule, Flows
      <3> QED
        BY <1>1, <2>2, <3>1, <3>3 DEF InsideRow
    <2>4. CASE ~(r \in b.ids /\ txn[r].src # "MANUAL")
      <3>1. txn'[r] = txn[r]
        BY <2>1, <2>4 DEF reached
      <3> QED
        BY <1>1, <2>1, <2>2, <2>4, <3>1 DEF InsideRow, Waiting
    <2> QED
      BY <2>3, <2>4
  <1>5. CASE WriteHint
    <2>1. PICK h \in hints : txn' = [q \in Rows |-> IF q \in reached(h.ids)
                                                    THEN [txn[q] EXCEPT !.cat = h.cat]
                                                    ELSE txn[q]]
      BY <1>5 DEF WriteHint
    <2>2. UNCHANGED <<stored, syncAt, batches>> /\ batches = {} /\ syncAt = "writing"
      BY <1>5 DEF WriteHint
    <2>3. txn'[r].src = txn[r].src /\ txn'[r].flow = txn[r].flow /\ txn'[r].pair = txn[r].pair
      BY <1>1, <2>1
    <2> QED
      BY <1>1, <2>2, <2>3 DEF InsideRow
  <1>6. CASE PairOut \/ PairIn
    <2>1. /\ UNCHANGED <<stored, syncAt, batches>>
          /\ \E q, o : q # r /\ txn' = [txn EXCEPT ![q] = Paired(@, o)]
      <3>1. CASE PairOut
        BY <3>1 DEF PairOut, InsideInv
      <3>2. CASE PairIn
        BY <3>2 DEF PairIn, InsideInv
      <3> QED
        BY <1>6, <3>1, <3>2
    <2>2. txn'[r] = txn[r]
      BY <1>1, <2>1
    <2> QED
      BY <1>1, <2>1, <2>2 DEF InsideRow, Waiting
  <1>7. CASE SyncStart \/ ReadRules \/ ReadCandidates \/ SyncFinish \/ SyncKilled
    <2>1. UNCHANGED <<stored, txn>> /\ syncAt' # "writing"
      BY <1>7 DEF SyncStart, Fetch, ReadRules, ReadCandidates, SyncFinish, SyncKilled, ledger
    <2> QED
      BY <1>1, <2>1 DEF InsideRow, Waiting
  <1> QED
    BY <1>2, <1>3, <1>4, <1>5, <1>6, <1>7 DEF SyncNext, SyncStep, RulePass

\* Every step keeps the rows of the box unpaired.
LEMMA InsideStep ==
  ASSUME InsideInv, BoxKept, [Next]_vars
  PROVE  InsideInv'
  <1>1. TypeOK' /\ LinkInv' /\ SessionsOK'
    BY TypeStep, LinkStep, SessionsStep DEF InsideInv, OpsTyped, TypeOK
  <1>2. \A r : Inside(r)' = Inside(r)
    BY BoxStays DEF Inside, isClosedBox
  <1>3. CASE UNCHANGED vars
    <2>1. UNCHANGED <<stored, txn, investment, syncAt, batches, pairs, half, op, undoable>>
      BY <1>3 DEF vars, ledger, syncVars, sessionVars
    <2> QED
      BY <1>1, <2>1 DEF InsideInv, Inside, InsideRow, InsideOp, Encloses, NoneInside
  <1>4. CASE SyncNext
    <2>1. \A r \in Rows : Inside(r)' => InsideRow(r)'
      BY <1>2, <1>4, SyncInsideRow
    <2>2. Encloses(batches)'
      <3>1. CASE ReadWaiting
        <4>1. PICK X : batches' = Batches(seenRules, investment, X)
          BY <3>1 DEF ReadWaiting
        <4> QED
          BY <1>2, <4>1, BatchesEnclose DEF Encloses
      <3>2. CASE ~ReadWaiting
        <4>1. batches' \subseteq batches
          BY <1>4, <3>2 DEF SyncNext, SyncStart, SyncStep, SyncKilled, Fetch, Insert, ReadRules,
                      RulePass, WriteBatch, WriteHint, ReadCandidates, PairOut, PairIn, SyncFinish
        <4> QED
          BY <1>2, <4>1 DEF InsideInv, Encloses
      <3> QED
        BY <3>1, <3>2
    <2>3. /\ \A p \in pairs' : ~Inside(p.out) /\ ~Inside(p.in)
          /\ half' # NoPair => ~Inside(half'.out) /\ ~Inside(half'.in)
      <3>1. CASE ReadCandidates
        <4> DEFINE C == {r \in Rows : Candidate(r)}
        <4>1. /\ pairs' \in detectTransferPairs(C) /\ half' = half
              /\ syncAt = "writing" /\ batches = {}
          BY <3>1 DEF ReadCandidates
        <4>2. \A p \in pairs' : p.out \in C /\ p.in \in C
          BY <4>1, DetectionMatches
        <4>3. \A r \in C : ~Inside(r)
          BY <4>1 DEF Candidate, InsideInv, InsideRow, Inside
        <4> QED
          BY <4>1, <4>2, <4>3 DEF InsideInv
      <3>2. CASE PairOut
        <4>1. pairs' \subseteq pairs /\ half' \in pairs
          BY <3>2 DEF PairOut
        <4> QED
          BY <4>1 DEF InsideInv
      <3>3. CASE ~ReadCandidates /\ ~PairOut
        <4>1. pairs' \subseteq pairs /\ half' \in {half, NoPair}
          BY <1>4, <3>3 DEF SyncNext, SyncStart, SyncStep, SyncKilled, Fetch, Insert, ReadRules,
                      ReadWaiting, RulePass, WriteBatch, WriteHint, PairIn, SyncFinish
        <4> QED
          BY <4>1 DEF InsideInv
      <3> QED
        BY <3>1, <3>2, <3>3
    <2>4. UNCHANGED <<op, undoable>>
      BY <1>4 DEF SyncNext, sessionVars
    <2>5. UNCHANGED investment
      BY BoxStays
    <2>6. \A s \in Sessions : InsideOp(op[s])'
      BY <1>2, <2>4, <2>5 DEF InsideInv, InsideOp, Encloses, NoneInside
    <2>7. "undo" \in Operations => \A s \in Sessions : NoneInside(undoable[s].restore)'
      BY <1>2, <2>4 DEF InsideInv, NoneInside
    <2> QED
      BY <1>1, <1>2, <2>1, <2>2, <2>3, <2>6, <2>7 DEF InsideInv
  <1>5. ASSUME NEW s \in Sessions, Start(s) \/ Continue(s) \/ SessionKilled(s)
        PROVE  InsideInv'
    <2>1. \A r \in Rows : Inside(r)' => InsideRow(r)'
      BY <1>2, <1>5, SessionsInsideRow
    <2>2. UNCHANGED <<batches, pairs, half>>
      BY <1>5 DEF syncVars, Start, ShowRow, ReleaseRead, Unlink, LinkRead, Decide, UndoRule,
           RetypeRead, Continue, Categorize, ClearRead, ClearWrite, ReleaseWrite, LinkWrite,
           ConfirmRead, ConfirmWrite, ReapplyReadRules, ReapplyReadRows, ReapplyWrite,
           ReapplyDone, RestoreWrite, UndoDone, RetypeWrite, UnboxRead, UnboxDone, SessionKilled
    <2>3. \A z \in Sessions : /\ InsideOp(op[z])'
                              /\ "undo" \in Operations => NoneInside(undoable[z].restore)'
      BY <1>5, SessionsHold
    <2>4. Encloses(batches)'
      BY <1>2, <2>2 DEF InsideInv, Encloses
    <2> QED
      BY <1>1, <1>2, <2>1, <2>2, <2>3, <2>4 DEF InsideInv
  <1> QED
    BY <1>3, <1>4, <1>5 DEF Next

\* The box is empty at first.
LEMMA InitInside == Init => InsideInv
  <1> SUFFICES ASSUME Init PROVE InsideInv
    OBVIOUS
  <1>1. \A r \in Rows : txn[r].pair = NoRow
    BY DEF Init, LedgerInit, Imported
  <1>2. /\ stored = {} /\ syncAt = "idle" /\ batches = {} /\ pairs = {} /\ half = NoPair
        /\ \A s \in Sessions : op[s] = Idle /\ undoable[s] = NoUndo
    BY DEF Init, LedgerInit, SyncInit
  <1>3. NoneInside({}) /\ InsideOp(Idle) /\ NoUndo.restore = {}
    BY DEF NoneInside, InsideOp, Idle, NoUndo
  <1> QED
    BY <1>1, <1>2, <1>3, InitTyped, InitLinkInv, InitSessions
    DEF InsideInv, InsideRow, Encloses

\* While no account is retyped and no undo puts back activity inside one, a
\* row that is activity inside an investment account is never one side of a
\* transfer: with any overlap of syncs and operations and any number of
\* killed runs, the rules pass has enclosed it, or a person has decided it,
\* before the pairing of any run reads (transfers.ts, sync.ts, rulePack.ts).
THEOREM InsideStaysUnpaired == ASSUME BoxKept PROVE Spec => []InsideNeverPairs
  <1>1. InsideInv => InsideNeverPairs
    BY FeedAssumption DEF InsideInv, InsideRow, InsideNeverPairs, Inside
  <1>2. InsideInv /\ [Next]_vars => InsideInv'
    BY InsideStep
  <1> QED
    BY <1>1, <1>2, InitInside, PTL DEF Spec

-----------------------------------------------------------------------------
(* A P2P payment is never categorized unseen: for every ledger, rule set,   *)
(* overlap and kill.  What the rows hold is only half of the argument; the  *)
(* rest is what is on its way to them.  Every write an action or a sync has *)
(* read itself into (a batch, a hint, a snapshot to restore) must already   *)
(* carry no category for a P2P row, or carry a person's; and for that the   *)
(* operator's transfer rules must set none.                                 *)

\* A rule that marks transfers sets no category.
SafeRule(x) == x = NoRule \/ x.flow # "TRANSFER" \/ x.cat = NoCat
SafeRules(rules) == \A p \in Payees : SafeRule(rules[p])

\* Rule writes that give no P2P row a category.
SafeBatches(todo) == \A b \in todo : \A r \in b.ids : r \in P2P => b.cat = NoCat

\* Writes back that give a P2P row a category only as a person's.
SafeRestores(todo) ==
    \A b \in todo : \A r \in b.ids : r \in P2P => b.cat = NoCat \/ b.src = "MANUAL"

SafeSnapshots(restore) ==
    \A t \in restore : t.id \in P2P => t.cat = NoCat \/ t.src = "MANUAL"

SafeUndo(u) ==
    /\ {"payee", "previous", "restore"} \subseteq DOMAIN u
    /\ SafeRule(u.previous) /\ SafeSnapshots(u.restore)

SafeOp(o) ==
    /\ {"at", "row", "other", "box", "todo", "rules", "undo"} \subseteq DOMAIN o
    /\ SafeRules(o.rules) /\ SafeUndo(o.undo)
    /\ o.at = "reapplying" => SafeBatches(o.todo)
    /\ o.at \in {"restoring", "unboxing"} => SafeRestores(o.todo)

\* The rows, as functions and records, and what they hold.
RowsSafe ==
    /\ txn = [r \in Rows |-> txn[r]]
    /\ \A r \in Rows : {"cat", "src"} \subseteq DOMAIN txn[r]
    /\ P2PNeverCategorizedUnseen

RulesSafe == userRules = [p \in Payees |-> userRules[p]] /\ SafeRules(userRules)

SyncSafe ==
    /\ SafeRules(seenRules) /\ SafeBatches(batches)
    /\ \A h \in hints : h.ids \cap P2P = {}

SessionsSafe ==
    /\ op = [s \in Sessions |-> op[s]] /\ \A s \in Sessions : SafeOp(op[s])
    /\ undoable = [s \in Sessions |-> undoable[s]]
    /\ \A s \in Sessions : SafeUndo(undoable[s])

P2PInv == RowsSafe /\ RulesSafe /\ SyncSafe /\ SessionsSafe

-----------------------------------------------------------------------------
(* The operators. *)

LEMMA NoneSafe == SafeRules(NoRules) /\ SafeUndo(NoUndo) /\ SafeOp(Idle)
  BY DEF SafeRules, SafeRule, NoRules, SafeUndo, NoUndo, SafeSnapshots, SafeOp, Idle

\* Under safe rules, a P2P row's outcome has no category.
LEMMA OutcomeSafe ==
  ASSUME NEW rules, SafeRules(rules), NEW inv, NEW t, NEW ids \in SUBSET Rows,
         NEW r \in Ruled(rules, inv, t, ids), r \in P2P
  PROVE  Outcome(rules, inv, r).cat = NoCat
  <1>1. r \in Rows /\ (isClosedBox(inv, r) \/ ruleFor(rules, r) # NoRule)
    BY DEF Ruled
  <1>2. payee[r] \in Payees
    BY <1>1, FeedAssumption
  <1>3. CASE isClosedBox(inv, r)
    BY <1>3 DEF Outcome, Enclosed
  <1>4. CASE ~isClosedBox(inv, r)
    <2>1. Outcome(rules, inv, r) = ruleFor(rules, r) /\ ruleFor(rules, r) # NoRule
      BY <1>1, <1>4 DEF Outcome
    <2>2. ruleFor(rules, r) = rules[payee[r]] /\ rules[payee[r]].flow = "TRANSFER"
      BY <2>1 DEF ruleFor
    <2> QED
      BY <1>2, <2>1, <2>2 DEF SafeRules, SafeRule
  <1> QED
    BY <1>3, <1>4

\* Hence the batches of any of those rows are safe.
LEMMA BatchesSafe ==
  ASSUME NEW rules, SafeRules(rules), NEW inv, NEW t, NEW ids \in SUBSET Rows,
         NEW X \in SUBSET Ruled(rules, inv, t, ids)
  PROVE  SafeBatches(Batches(rules, inv, X))
  <1> SUFFICES ASSUME NEW b \in Batches(rules, inv, X), NEW r \in b.ids, r \in P2P
               PROVE  b.cat = NoCat
    BY DEF SafeBatches
  <1>1. PICK o : b = [cat |-> o.cat, flow |-> o.flow,
                      ids |-> {x \in X : Outcome(rules, inv, x) = o}]
    BY DEF Batches
  <1>2. r \in X /\ Outcome(rules, inv, r) = o
    BY <1>1
  <1> QED
    BY <1>1, <1>2, OutcomeSafe

\* Batches of safe snapshots are safe.
LEMMA RestoresSafe ==
  ASSUME NEW snapshots, SafeSnapshots(snapshots)
  PROVE  SafeRestores(RestoreBatches(snapshots))
  <1> SUFFICES ASSUME NEW b \in RestoreBatches(snapshots), NEW r \in b.ids, r \in P2P
               PROVE  b.cat = NoCat \/ b.src = "MANUAL"
    BY DEF SafeRestores
  <1>1. PICK v \in snapshots :
           b = [cat |-> v.cat, src |-> v.src, flow |-> v.flow,
                ids |-> {t.id : t \in {u \in snapshots :
                            u.cat = v.cat /\ u.src = v.src /\ u.flow = v.flow}}]
    BY DEF RestoreBatches
  <1>2. PICK t \in snapshots : t.id = r /\ t.cat = v.cat /\ t.src = v.src
    BY <1>1
  <1> QED
    BY <1>1, <1>2 DEF SafeSnapshots

\* Snapshots of the rows as they are are safe.
LEMMA SnapshotSafe ==
  ASSUME RowsSafe, NEW X \in SUBSET Rows
  PROVE  SafeSnapshots({Snapshot(r) : r \in X})
  BY DEF SafeSnapshots, Snapshot, RowsSafe, P2PNeverCategorizedUnseen

\* A rule write keeps a row's shape and takes the write's category.
LEMMA ByRuleSafe ==
  ASSUME NEW t, NEW b, {"cat", "src"} \subseteq DOMAIN t
  PROVE  {"cat", "src"} \subseteq DOMAIN ByRule(t, b) /\ ByRule(t, b).cat = b.cat
  BY DEF ByRule

-----------------------------------------------------------------------------
(* The rows.  A step that writes one row, or rows of a safe batch.  *)

LEMMA OneRow ==
  ASSUME RowsSafe, NEW r, NEW t, txn' = [txn EXCEPT ![r] = t],
         r \in Rows => {"cat", "src"} \subseteq DOMAIN t,
         r \in P2P => t.cat = NoCat \/ t.src = "MANUAL"
  PROVE  RowsSafe'
  BY DEF RowsSafe, P2PNeverCategorizedUnseen

LEMMA BatchWritten ==
  ASSUME RowsSafe, NEW b, NEW X, X \subseteq b.ids,
         \A r \in b.ids : r \in P2P => b.cat = NoCat,
         txn' = [r \in Rows |-> IF r \in X THEN ByRule(txn[r], b) ELSE txn[r]]
  PROVE  RowsSafe'
  <1>1. P2P \subseteq Rows
    BY FeedAssumption
  <1>2. \A r \in Rows : {"cat", "src"} \subseteq DOMAIN txn'[r]
    BY ByRuleSafe DEF RowsSafe
  <1>3. \A r \in P2P : r \in X => txn'[r].cat = NoCat
    BY <1>1, ByRuleSafe DEF RowsSafe
  <1> QED
    BY <1>1, <1>2, <1>3 DEF RowsSafe, P2PNeverCategorizedUnseen

-----------------------------------------------------------------------------
(* Sessions.  *)

\* A session's next record is safe, and the rest stays.
LEMMA GoesSafe ==
  ASSUME SessionsSafe, NEW s \in Sessions, NEW next, Goes(s, next), SafeOp(next),
         UNCHANGED undoable
  PROVE  SessionsSafe'
  BY DEF SessionsSafe, Goes

\* A session that starts an action has read nothing yet.
LEMMA StartsSafe ==
  ASSUME NEW at, NEW row, NEW other, NEW box,
         at \notin {"reapplying", "restoring", "unboxing"}
  PROVE  /\ SafeOp([Idle EXCEPT !.at = at, !.row = row])
         /\ SafeOp([Idle EXCEPT !.at = at, !.row = row, !.other = other])
         /\ SafeOp([Idle EXCEPT !.at = at, !.other = other, !.box = box])
  BY NoneSafe DEF SafeOp, Idle

LEMMA StartStep ==
  ASSUME P2PInv, NEW s \in Sessions, Start(s)
  PROVE  P2PInv'
  <1> USE DEF P2PInv
  <1>1. ASSUME NEW r \in Rows, NEW name \in {"categorize", "clear"}, ShowRow(s, r, name)
        PROVE  P2PInv'
    <2>1. SessionsSafe'
      BY <1>1, GoesSafe, StartsSafe DEF ShowRow
    <2> QED
      BY <1>1, <2>1 DEF ShowRow, ledger, syncVars, RowsSafe, P2PNeverCategorizedUnseen,
                        RulesSafe, SyncSafe
  <1>2. ASSUME NEW r \in Rows, ReleaseRead(s, r) PROVE P2PInv'
    <2>1. SessionsSafe'
      BY <1>2, GoesSafe, StartsSafe DEF ReleaseRead
    <2> QED
      BY <1>2, <2>1 DEF ReleaseRead, ledger, syncVars, RowsSafe, P2PNeverCategorizedUnseen,
                        RulesSafe, SyncSafe
  <1>3. ASSUME NEW r \in Rows, Unlink(s, r) PROVE P2PInv'
    <2>1. RowsSafe'
      <3> DEFINE t == [txn[r] EXCEPT !.reimb = NoRow]
      <3>1. txn' = [txn EXCEPT ![r] = t]
        BY <1>3 DEF Unlink, Writes
      <3>2. {"cat", "src"} \subseteq DOMAIN t /\ t.cat = txn[r].cat /\ t.src = txn[r].src
        BY DEF RowsSafe
      <3> QED
        BY <3>1, <3>2, OneRow DEF RowsSafe, P2PNeverCategorizedUnseen
    <2> QED
      BY <1>3, <2>1 DEF Unlink, syncVars, RulesSafe, SyncSafe, SessionsSafe
  <1>4. ASSUME NEW i \in Rows, NEW o \in Rows, LinkRead(s, i, o) PROVE P2PInv'
    <2>1. SessionsSafe'
      BY <1>4, GoesSafe, StartsSafe DEF LinkRead
    <2> QED
      BY <1>4, <2>1 DEF LinkRead, ledger, syncVars, RowsSafe, P2PNeverCategorizedUnseen,
                        RulesSafe, SyncSafe
  <1>5. ASSUME NEW p \in Payees, NEW target \in Targets, Decide(s, p, target) PROVE P2PInv'
    <2>1. SafeRule(target)
      BY AbsentAssumption DEF Targets, Enclosed, SafeRule, Flows
    <2>2. RulesSafe'
      BY <1>5, <2>1 DEF Decide, RulesSafe, SafeRules
    <2>3. SafeUndo([payee |-> p, previous |-> userRules[p], restore |-> {}])
      BY DEF RulesSafe, SafeRules, SafeUndo, SafeSnapshots
    <2>4. PICK at \in {"confirm", "reapply"} :
             Goes(s, [Idle EXCEPT !.at = at,
                        !.undo = [payee |-> p, previous |-> userRules[p], restore |-> {}],
                        !.todo = {target}])
      BY <1>5 DEF Decide
    <2>5. SafeOp([Idle EXCEPT !.at = at,
                    !.undo = [payee |-> p, previous |-> userRules[p], restore |-> {}],
                    !.todo = {target}])
      BY <2>3, NoneSafe DEF SafeOp, Idle
    <2>6. SessionsSafe'
      BY <1>5, <2>4, <2>5, GoesSafe DEF Decide
    <2> QED
      BY <1>5, <2>2, <2>6 DEF Decide, syncVars, RowsSafe, P2PNeverCategorizedUnseen, SyncSafe
  <1>6. CASE UndoRule(s)
    <2>1. SafeUndo(undoable[s])
      BY DEF SessionsSafe
    <2>2. SafeRule(ruleBefore(s))
      BY <2>1 DEF ruleBefore, SafeRule, SafeUndo
    <2>3. RulesSafe'
      BY <1>6, <2>2 DEF UndoRule, RulesSafe, SafeRules
    <2>4. SafeRestores(RestoreBatches(undoable[s].restore))
      BY <2>1, RestoresSafe DEF SafeUndo
    <2>5. SafeOp([Idle EXCEPT !.at = "restoring",
                              !.todo = RestoreBatches(undoable[s].restore)])
      BY <2>4, NoneSafe DEF SafeOp, Idle
    <2>6. SessionsSafe'
      BY <1>6, <2>5, GoesSafe DEF UndoRule
    <2> QED
      BY <1>6, <2>3, <2>6 DEF UndoRule, syncVars, RowsSafe, P2PNeverCategorizedUnseen, SyncSafe
  <1>7. ASSUME NEW a \in Accounts, RetypeRead(s, a) PROVE P2PInv'
    <2>1. SessionsSafe'
      BY <1>7, GoesSafe, StartsSafe DEF RetypeRead
    <2> QED
      BY <1>7, <2>1 DEF RetypeRead, ledger, syncVars, RowsSafe, P2PNeverCategorizedUnseen,
                        RulesSafe, SyncSafe
  <1> QED
    BY <1>1, <1>2, <1>3, <1>4, <1>5, <1>6, <1>7 DEF Start

\* Ending an action: the session is idle again.
LEMMA IdleSafe ==
  ASSUME SessionsSafe, NEW s \in Sessions, Goes(s, Idle), UNCHANGED undoable
  PROVE  SessionsSafe'
  BY NoneSafe, GoesSafe

\* The actions that write rows leave them safe.
LEMMA SessionRows ==
  ASSUME P2PInv, NEW s \in Sessions, Continue(s) \/ SessionKilled(s)
  PROVE  RowsSafe'
  <1> USE DEF P2PInv
  <1>1. \A r \in Rows : {"cat", "src"} \subseteq DOMAIN txn[r]
    BY DEF RowsSafe
  <1>2. P2P \subseteq Rows
    BY FeedAssumption
  <1>3. SafeOp(op[s])
    BY DEF SessionsSafe
  <1>4. CASE Categorize(s)
    <2>1. PICK c : txn' = [txn EXCEPT ![op[s].row] =
                              [txn[op[s].row] EXCEPT !.cat = c, !.src = "MANUAL"]]
      BY <1>4 DEF Categorize, Writes
    <2> QED
      BY <2>1, <1>1, <1>2, OneRow
  <1>5. CASE ClearWrite(s)
    <2>1. txn' = [txn EXCEPT ![op[s].row] = whenCleared(txn[op[s].row], op[s].box)]
      BY <1>5 DEF ClearWrite, Writes
    <2>2. ASSUME op[s].row \in Rows
          PROVE  LET t == whenCleared(txn[op[s].row], op[s].box)
                 IN {"cat", "src"} \subseteq DOMAIN t /\ t.cat = NoCat
      BY <2>2, <1>1 DEF whenCleared
    <2> QED
      BY <2>1, <2>2, <1>2, OneRow
  <1>6. CASE ReleaseWrite(s)
    <2>1. txn' = [txn EXCEPT ![op[s].row] = Released(txn[op[s].row], op[s].row)]
      BY <1>6 DEF ReleaseWrite, Writes
    <2> QED
      BY <2>1, <1>1, <1>2, OneRow DEF Released
  <1>7. CASE LinkWrite(s)
    <2>1. txn' = [txn EXCEPT ![op[s].row] = [txn[op[s].row] EXCEPT !.reimb = op[s].other]]
      BY <1>7 DEF LinkWrite, Writes
    <2> QED
      BY <2>1, <1>1, <1>2, OneRow DEF RowsSafe, P2PNeverCategorizedUnseen
  <1>8. CASE ConfirmWrite(s)
    <2> DEFINE ids == {t.id : t \in op[s].undo.restore}
    <2>1. PICK target : txn' = [r \in Rows |->
                          IF r \in ids THEN [txn[r] EXCEPT !.cat = target.cat, !.src = "MANUAL"]
                          ELSE txn[r]]
      BY <1>8 DEF ConfirmWrite
    <2> HIDE DEF ids
    <2> QED
      BY <2>1, <1>1, <1>2 DEF RowsSafe, P2PNeverCategorizedUnseen
  <1>9. CASE ReapplyWrite(s)
    <2>1. PICK b \in op[s].todo :
             txn' = [r \in Rows |-> IF r \in b.ids THEN ByRule(txn[r], b) ELSE txn[r]]
      BY <1>9 DEF ReapplyWrite
    <2>2. \A r \in b.ids : r \in P2P => b.cat = NoCat
      BY <1>3, <1>9 DEF ReapplyWrite, SafeOp, SafeBatches
    <2> QED
      BY <2>1, <2>2, BatchWritten
  <1>10. CASE RestoreWrite(s)
    <2>1. PICK b \in op[s].todo :
             txn' = [r \in Rows |->
                       IF r \in b.ids
                       THEN [txn[r] EXCEPT !.cat = b.cat, !.src = b.src, !.flow = b.flow]
                       ELSE txn[r]]
      BY <1>10 DEF RestoreWrite
    <2>2. \A r \in b.ids : r \in P2P => b.cat = NoCat \/ b.src = "MANUAL"
      BY <1>3, <1>10 DEF RestoreWrite, SafeOp, SafeRestores
    <2> QED
      BY <2>1, <2>2, <1>1, <1>2 DEF RowsSafe, P2PNeverCategorizedUnseen
  <1>11. CASE ClearRead(s) \/ ConfirmRead(s) \/ ReapplyReadRules(s) \/ ReapplyReadRows(s)
              \/ ReapplyDone(s) \/ UndoDone(s) \/ RetypeWrite(s) \/ UnboxRead(s)
              \/ UnboxDone(s) \/ SessionKilled(s)
    <2>1. UNCHANGED txn
      BY <1>11 DEF ClearRead, ConfirmRead, ReapplyReadRules, ReapplyReadRows, ReapplyDone,
                   UndoDone, RetypeWrite, UnboxRead, UnboxDone, SessionKilled, ledger
    <2> QED
      BY <2>1 DEF RowsSafe, P2PNeverCategorizedUnseen
  <1> QED
    BY <1>4, <1>5, <1>6, <1>7, <1>8, <1>9, <1>10, <1>11 DEF Continue

\* What the sessions hold stays safe.
LEMMA SessionHolds ==
  ASSUME P2PInv, stored \subseteq Rows, NEW s \in Sessions, Continue(s) \/ SessionKilled(s)
  PROVE  SessionsSafe'
  <1> USE DEF P2PInv
  <1>1. SafeOp(op[s]) /\ SafeUndo(op[s].undo) /\ SafeUndo(undoable[s])
    BY DEF SessionsSafe, SafeOp
  <1>2. CASE Categorize(s) \/ ClearWrite(s) \/ ReleaseWrite(s) \/ LinkWrite(s) \/ SessionKilled(s)
    BY <1>2, IdleSafe DEF Categorize, ClearWrite, ReleaseWrite, LinkWrite, SessionKilled
  <1>3. CASE ClearRead(s)
    <2>1. SafeOp([op[s] EXCEPT !.at = "clearing", !.box = isClosedBox(investment, op[s].row)])
      BY <1>1 DEF SafeOp
    <2> QED
      BY <1>3, <2>1, GoesSafe DEF ClearRead
  <1>4. CASE ConfirmRead(s)
    <2> DEFINE rows == {r \in stored : /\ isUnreviewedP2P(txn[r], r)
                                       /\ txn[r].src # "MANUAL"
                                       /\ payee[r] = op[s].undo.payee}
               snaps == {Snapshot(r) : r \in rows}
    <2>1. SafeSnapshots(snaps)
      BY SnapshotSafe
    <2>2. Goes(s, [op[s] EXCEPT !.at = "confirming", !.undo.restore = snaps])
      BY <1>4 DEF ConfirmRead
    <2> HIDE DEF snaps
    <2>3. SafeOp([op[s] EXCEPT !.at = "confirming", !.undo.restore = snaps])
      BY <1>1, <2>1 DEF SafeOp, SafeUndo
    <2> QED
      BY <1>4, <2>2, <2>3, GoesSafe DEF ConfirmRead
  <1>5. CASE ConfirmWrite(s)
    <2>1. SafeOp([op[s] EXCEPT !.at = "reapply", !.todo = {}])
      BY <1>1 DEF SafeOp
    <2> QED
      BY <1>5, <2>1, GoesSafe DEF ConfirmWrite
  <1>6. CASE ReapplyReadRules(s)
    <2>1. SafeOp([op[s] EXCEPT !.at = "reapplyRows", !.rules = userRules, !.todo = {}])
      BY <1>1 DEF SafeOp, RulesSafe
    <2> QED
      BY <1>6, <2>1, GoesSafe DEF ReapplyReadRules
  <1>7. CASE ReapplyReadRows(s)
    <2> DEFINE rules == op[s].rules
               changed == {r \in Ruled(rules, investment, txn, stored) : Changes(rules, r)}
               byRule == {r \in changed : ~isClosedBox(investment, r)}
               todo == Batches(rules, investment, changed)
               restore == op[s].undo.restore \union {Snapshot(r) : r \in byRule}
               next == [op[s] EXCEPT !.at = "reapplying", !.rules = NoRules,
                                     !.todo = todo, !.undo.restore = restore]
    <2>1. SafeBatches(todo)
      BY <1>1, BatchesSafe DEF SafeOp
    <2>2. SafeSnapshots({Snapshot(r) : r \in byRule})
      BY SnapshotSafe DEF Ruled
    <2>3. SafeSnapshots(restore)
      BY <1>1, <2>2 DEF SafeUndo, SafeSnapshots
    <2>4. Goes(s, next)
      BY <1>7 DEF ReapplyReadRows
    <2> HIDE DEF todo, restore
    <2>5. SafeOp(next)
      BY <1>1, <2>1, <2>3, NoneSafe DEF SafeOp, SafeUndo
    <2> QED
      BY <1>7, <2>4, <2>5, GoesSafe DEF ReapplyReadRows
  <1>8. CASE ReapplyWrite(s) \/ RestoreWrite(s)
    <2>1. PICK b : Goes(s, [op[s] EXCEPT !.todo = @ \ {b}])
      BY <1>8 DEF ReapplyWrite, RestoreWrite
    <2>2. SafeOp([op[s] EXCEPT !.todo = @ \ {b}])
      BY <1>1 DEF SafeOp, SafeBatches, SafeRestores
    <2> QED
      BY <1>8, <2>1, <2>2, GoesSafe DEF ReapplyWrite, RestoreWrite
  <1>9. CASE ReapplyDone(s) \/ UndoDone(s)
    <2>1. /\ op' = [op EXCEPT ![s] = Idle]
          /\ \/ UNCHANGED undoable
             \/ undoable' = [undoable EXCEPT ![s] = op[s].undo]
             \/ undoable' = [undoable EXCEPT ![s] = NoUndo]
      BY <1>9 DEF ReapplyDone, UndoDone, Goes
    <2> QED
      BY <1>1, <2>1, NoneSafe DEF SessionsSafe
  <1>10. CASE RetypeWrite(s)
    <2>1. SafeOp([op[s] EXCEPT !.at = afterRetype(s)])
      BY <1>1 DEF SafeOp, afterRetype
    <2> QED
      BY <1>10, <2>1, GoesSafe DEF RetypeWrite
  <1>11. CASE UnboxRead(s)
    <2> DEFINE rows == {r \in stored : /\ account[r] = op[s].other
                                       /\ txn[r].flow = "TRANSFER"
                                       /\ txn[r].pair = NoRow
                                       /\ txn[r].src # "MANUAL"}
               todo == RestoreBatches({ [id |-> r, cat |-> NoCat, src |-> "AGGREGATOR",
                                         flow |-> flowByAmount(r)] : r \in rows })
    <2>1. SafeRestores(todo)
      BY RestoresSafe DEF SafeSnapshots
    <2>2. Goes(s, [op[s] EXCEPT !.at = "unboxing", !.todo = todo])
      BY <1>11 DEF UnboxRead
    <2> HIDE DEF todo
    <2>3. SafeOp([op[s] EXCEPT !.at = "unboxing", !.todo = todo])
      BY <1>1, <2>1 DEF SafeOp
    <2> QED
      BY <1>11, <2>2, <2>3, GoesSafe DEF UnboxRead
  <1>12. CASE UnboxDone(s)
    <2>1. SafeOp([op[s] EXCEPT !.at = "reapply"])
      BY <1>1 DEF SafeOp
    <2> QED
      BY <1>12, <2>1, GoesSafe DEF UnboxDone
  <1> QED
    BY <1>2, <1>3, <1>4, <1>5, <1>6, <1>7, <1>8, <1>9, <1>10, <1>11, <1>12 DEF Continue

-----------------------------------------------------------------------------
(* The pipeline.  *)

LEMMA SyncRows ==
  ASSUME P2PInv, Fetch \/ SyncStep \/ SyncKilled
  PROVE  RowsSafe'
  <1> USE DEF P2PInv
  <1>1. \A r \in Rows : {"cat", "src"} \subseteq DOMAIN txn[r]
    BY DEF RowsSafe
  <1>2. P2P \subseteq Rows
    BY FeedAssumption
  <1>3. CASE Insert
    BY <1>3, <1>1, <1>2 DEF Insert, Imported, RowsSafe, P2PNeverCategorizedUnseen
  <1>4. CASE WriteBatch
    <2>1. PICK b \in batches :
             txn' = [r \in Rows |-> IF r \in reached(b.ids) THEN ByRule(txn[r], b) ELSE txn[r]]
      BY <1>4 DEF WriteBatch
    <2>2. reached(b.ids) \subseteq b.ids /\ \A r \in b.ids : r \in P2P => b.cat = NoCat
      BY DEF reached, SyncSafe, SafeBatches
    <2> QED
      BY <2>1, <2>2, BatchWritten
  <1>5. CASE WriteHint
    <2>1. PICK h \in hints :
             txn' = [r \in Rows |-> IF r \in reached(h.ids)
                                    THEN [txn[r] EXCEPT !.cat = h.cat] ELSE txn[r]]
      BY <1>5 DEF WriteHint
    <2>2. reached(h.ids) \cap P2P = {}
      BY DEF reached, SyncSafe
    <2> QED
      BY <2>1, <2>2, <1>1, <1>2 DEF RowsSafe, P2PNeverCategorizedUnseen
  <1>6. CASE PairOut
    <2>1. PICK p : txn' = [txn EXCEPT ![p.out] = Paired(txn[p.out], p.in)]
      BY <1>6 DEF PairOut
    <2> QED
      BY <2>1, <1>1, <1>2, OneRow DEF Paired
  <1>7. CASE PairIn
    <2>1. txn' = [txn EXCEPT ![half.in] = Paired(txn[half.in], half.out)]
      BY <1>7 DEF PairIn
    <2> QED
      BY <2>1, <1>1, <1>2, OneRow DEF Paired
  <1>8. CASE Fetch \/ ReadRules \/ ReadWaiting \/ ReadCandidates \/ SyncFinish \/ SyncKilled
    <2>1. UNCHANGED txn
      BY <1>8 DEF Fetch, ReadRules, ReadWaiting, ReadCandidates, SyncFinish, SyncKilled, ledger
    <2> QED
      BY <2>1 DEF RowsSafe, P2PNeverCategorizedUnseen
  <1> QED
    BY <1>3, <1>4, <1>5, <1>6, <1>7, <1>8 DEF SyncStep, RulePass

\* What the pipeline has read itself into stays safe.
LEMMA SyncHolds ==
  ASSUME P2PInv, stored \subseteq Rows, Fetch \/ SyncStep \/ SyncKilled
  PROVE  SyncSafe' /\ RulesSafe'
  <1> USE DEF P2PInv
  <1>1. RulesSafe'
    <2>1. UNCHANGED userRules
      BY DEF Fetch, Insert, ReadRules, ReadWaiting, WriteBatch, WriteHint, RulePass,
             ReadCandidates, PairOut, PairIn, SyncFinish, SyncStep, SyncKilled, ledger
    <2> QED
      BY <2>1 DEF RulesSafe, SafeRules
  <1>2. CASE ReadRules
    <2>1. seenRules' = userRules /\ UNCHANGED <<batches, hints>>
      BY <1>2 DEF ReadRules
    <2> QED
      BY <1>1, <2>1 DEF SyncSafe, RulesSafe, SafeRules, SafeBatches
  <1>3. CASE ReadWaiting
    <2> DEFINE matched == Ruled(seenRules, investment, txn, waitingRows)
               applied == {r \in matched : \/ ~isClosedBox(investment, r)
                                           \/ txn[r].flow # "TRANSFER"
                                           \/ r \in fresh}
               hinted == {r \in (waitingRows \cap fetched) \ applied :
                             HintApplies(investment, txn, r)}
    <2>1. /\ batches' = Batches(seenRules, investment, applied)
          /\ hints' = {[cat |-> hint[r], ids |-> {q \in hinted : hint[q] = hint[r]}]
                         : r \in hinted}
          /\ seenRules' = NoRules
      BY <1>3 DEF ReadWaiting
    <2>2. waitingRows \in SUBSET Rows /\ applied \in SUBSET matched
      BY DEF waitingRows
    <2>3. SafeBatches(batches')
      BY <2>1, <2>2, BatchesSafe DEF SyncSafe
    <2>4. hinted \cap P2P = {}
      BY DEF HintApplies
    <2> HIDE DEF hinted
    <2>5. \A h \in hints' : h.ids \cap P2P = {}
      BY <2>1, <2>4
    <2> QED
      BY <1>1, <2>1, <2>3, <2>5, NoneSafe DEF SyncSafe
  <1>4. CASE WriteBatch \/ WriteHint
    <2>1. UNCHANGED seenRules /\ batches' \subseteq batches /\ hints' \subseteq hints
      BY <1>4 DEF WriteBatch, WriteHint
    <2> QED
      BY <1>1, <2>1 DEF SyncSafe, SafeBatches, SafeRules
  <1>5. CASE SyncKilled
    BY <1>1, <1>5, NoneSafe DEF SyncKilled, SyncSafe, SafeBatches
  <1>6. CASE Fetch \/ Insert \/ ReadCandidates \/ PairOut \/ PairIn \/ SyncFinish
    <2>1. UNCHANGED <<seenRules, batches, hints>>
      BY <1>6 DEF Fetch, Insert, ReadCandidates, PairOut, PairIn, SyncFinish
    <2> QED
      BY <1>1, <2>1 DEF SyncSafe, SafeBatches, SafeRules
  <1> QED
    BY <1>1, <1>2, <1>3, <1>4, <1>5, <1>6 DEF SyncStep, RulePass

-----------------------------------------------------------------------------
(* The theorem.  *)

\* What is stored, or about to be, is rows.
StoredRows == stored \subseteq Rows /\ fetched \subseteq Rows /\ fresh \subseteq Rows

LEMMA StoredStep == StoredRows /\ [Next]_vars => StoredRows'
  <1> SUFFICES ASSUME StoredRows, [Next]_vars PROVE StoredRows'
    OBVIOUS
  <1> USE DEF StoredRows
  <1>1. CASE UNCHANGED vars
    BY <1>1 DEF vars, ledger, syncVars
  <1>2. ASSUME NEW s \in Sessions, Start(s) PROVE StoredRows'
    BY <1>2 DEF Start, ShowRow, ReleaseRead, Unlink, LinkRead, Decide, UndoRule, RetypeRead,
                ledger, syncVars
  <1>3. ASSUME NEW s \in Sessions, Continue(s) \/ SessionKilled(s) PROVE StoredRows'
    <2>1. UNCHANGED <<stored, fetched, fresh>>
      BY <1>3 DEF Continue, Categorize, ClearRead, ClearWrite, ReleaseWrite, LinkWrite,
                  ConfirmRead, ConfirmWrite, ReapplyReadRules, ReapplyReadRows, ReapplyWrite,
                  ReapplyDone, RestoreWrite, UndoDone, RetypeWrite, UnboxRead, UnboxDone,
                  SessionKilled, ledger, syncVars
    <2> QED
      BY <2>1
  <1>4. CASE Fetch \/ SyncStep \/ SyncKilled
    BY <1>4 DEF Fetch, freshOf, Insert, ReadRules, ReadWaiting, RulePass, WriteBatch,
                WriteHint, ReadCandidates, PairOut, PairIn, SyncFinish, SyncStep, SyncKilled,
                ledger
  <1> QED
    BY <1>1, <1>2, <1>3, <1>4 DEF Next, SyncNext, SyncStart

LEMMA InitP2P == Init => P2PInv /\ StoredRows
  <1> SUFFICES ASSUME Init PROVE P2PInv /\ StoredRows
    OBVIOUS
  <1>1. RowsSafe
    BY FeedAssumption DEF Init, LedgerInit, Imported, RowsSafe, P2PNeverCategorizedUnseen
  <1>2. RulesSafe
    BY NoneSafe DEF Init, LedgerInit, RulesSafe, NoRules
  <1>3. SyncSafe
    BY NoneSafe DEF Init, SyncInit, SyncSafe, SafeBatches
  <1>4. SessionsSafe
    BY NoneSafe DEF Init, SessionsSafe
  <1> QED
    BY <1>1, <1>2, <1>3, <1>4 DEF P2PInv, StoredRows, Init, LedgerInit, SyncInit

LEMMA P2PStep == P2PInv /\ StoredRows /\ [Next]_vars => P2PInv'
  <1> SUFFICES ASSUME P2PInv, StoredRows, [Next]_vars PROVE P2PInv'
    OBVIOUS
  <1>1. CASE UNCHANGED vars
    BY <1>1 DEF vars, ledger, syncVars, sessionVars, P2PInv, RowsSafe,
                P2PNeverCategorizedUnseen, RulesSafe, SyncSafe, SessionsSafe
  <1>2. ASSUME NEW s \in Sessions, Start(s) PROVE P2PInv'
    BY <1>2, StartStep
  <1>3. ASSUME NEW s \in Sessions, Continue(s) \/ SessionKilled(s) PROVE P2PInv'
    <2>1. RowsSafe' /\ SessionsSafe'
      BY <1>3, SessionRows, SessionHolds DEF StoredRows
    <2>2. UNCHANGED <<userRules, seenRules, batches, hints>>
      BY <1>3 DEF Continue, Categorize, ClearRead, ClearWrite, ReleaseWrite, LinkWrite,
                  ConfirmRead, ConfirmWrite, ReapplyReadRules, ReapplyReadRows, ReapplyWrite,
                  ReapplyDone, RestoreWrite, UndoDone, RetypeWrite, UnboxRead, UnboxDone,
                  SessionKilled, ledger, syncVars
    <2> QED
      BY <2>1, <2>2 DEF P2PInv, RulesSafe, SyncSafe, SafeBatches, SafeRules
  <1>4. CASE (Fetch \/ SyncStep \/ SyncKilled) /\ UNCHANGED sessionVars
    <2>1. RowsSafe' /\ SyncSafe' /\ RulesSafe'
      BY <1>4, SyncRows, SyncHolds DEF StoredRows
    <2>2. SessionsSafe'
      BY <1>4 DEF sessionVars, P2PInv, SessionsSafe
    <2> QED
      BY <2>1, <2>2 DEF P2PInv
  <1> QED
    BY <1>1, <1>2, <1>3, <1>4 DEF Next, SyncNext, SyncStart

\* No rule, source category, reapply or undo categorizes a P2P payment that
\* nobody has looked at, however they overlap and wherever they are killed
\* (applyRules, sourceCategoryToApply, confirmP2PMatches, restoreTransactions).
THEOREM P2PSeenFirst == Spec => []P2PNeverCategorizedUnseen
  <1>1. P2PInv => P2PNeverCategorizedUnseen
    BY DEF P2PInv, RowsSafe
  <1> QED
    BY <1>1, InitP2P, P2PStep, StoredStep, PTL DEF Spec
=============================================================================
