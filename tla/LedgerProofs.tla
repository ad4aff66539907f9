---------------------------- MODULE LedgerProofs ----------------------------
(***************************************************************************)
(* Proofs about Ledger for every set of rows, accounts, sessions and rules, *)
(* with any overlap of syncs and operations.  The argument about pairs: no *)
(* operation but the pipeline's two updates writes a row's pair, those two *)
(* write what detectTransferPairs returned, and what it returned is static *)
(* feed data, so no interleaving can invalidate it.                        *)
(***************************************************************************)
EXTENDS Ledger, TLAPS

\* The ledger is a function whose rows have a pair field.
Shape ==
    /\ txn = [r \in Rows |-> txn[r]]
    /\ \A r \in Rows : "pair" \in DOMAIN txn[r]

\* A pair waiting to be written joins two stored, opposite rows.
Linkable(p) ==
    /\ p \in [out : Rows, in : Rows]
    /\ p.out \in stored /\ p.in \in stored
    /\ Opposite(p.out, p.in)

PipelineOK ==
    /\ stored \subseteq Rows
    /\ fetched \subseteq Rows /\ fresh \subseteq Rows
    /\ syncAt = "inserting" => fresh \cap stored = {}
    /\ \A p \in pairs : Linkable(p)
    /\ half # NoPair => Linkable(half)

LinkInv == Shape /\ PipelineOK /\ PairsMatch

\* Two pairs share no row.
Apart(p, q) ==
    p.out # q.out /\ p.in # q.in /\ p.out # q.in /\ p.in # q.out

\* The pairs still to be written are free rows, each row in one pair, and the
\* pair being written has its out side linked and its in side free.
PairingOK ==
    /\ pairs # {} \/ half # NoPair => syncAt = "pairing"
    /\ \A p \in pairs : txn[p.out].pair = NoRow /\ txn[p.in].pair = NoRow
    /\ \A p, q \in pairs : p # q => Apart(p, q)
    /\ half # NoPair =>
          /\ txn[half.out].pair = half.in /\ txn[half.in].pair = NoRow
          /\ \A p \in pairs : Apart(p, half) /\ Apart(half, p)

ReciprocalInv == LinkInv /\ PairingOK /\ PairsReciprocal /\ kills = 0

PairsKept == \A r \in Rows : txn'[r].pair = txn[r].pair

-----------------------------------------------------------------------------
(* What detectTransferPairs returns. *)

\* Every pair joins two candidates that match.
LEMMA DetectionMatches ==
  ASSUME NEW C \in SUBSET Rows, NEW P \in detectTransferPairs(C), NEW p \in P
  PROVE  /\ p \in [out : C, in : C] /\ Opposite(p.out, p.in)
         /\ p.out # p.in
  <1> DEFINE outs == {r \in C : amount[r] < 0}
             ins == {r \in C : amount[r] > 0}
  <1>1. PICK m \in [outs -> ins \union {NoRow}] :
           /\ Greedy(m, outs, ins)
           /\ P = {[out |-> o, in |-> m[o]] : o \in {x \in outs : m[x] # NoRow}}
    BY DEF detectTransferPairs
  <1>2. PICK o \in outs : m[o] # NoRow /\ p = [out |-> o, in |-> m[o]]
    BY <1>1
  <1>3. m[o] \in ins /\ Matches(o, m[o])
    BY <1>1, <1>2 DEF Greedy
  <1> QED
    BY <1>2, <1>3 DEF Matches, Opposite

\* No two pairs share a row.
LEMMA DetectionDisjoint ==
  ASSUME NEW C \in SUBSET Rows, NEW P \in detectTransferPairs(C),
         NEW p \in P, NEW q \in P, p # q
  PROVE  Apart(p, q)
  <1> DEFINE outs == {r \in C : amount[r] < 0}
             ins == {r \in C : amount[r] > 0}
  <1>1. PICK m \in [outs -> ins \union {NoRow}] :
           /\ Greedy(m, outs, ins)
           /\ P = {[out |-> o, in |-> m[o]] : o \in {x \in outs : m[x] # NoRow}}
    BY DEF detectTransferPairs
  <1>2. PICK o \in outs : m[o] # NoRow /\ p = [out |-> o, in |-> m[o]]
    BY <1>1
  <1>3. PICK x \in outs : m[x] # NoRow /\ q = [out |-> x, in |-> m[x]]
    BY <1>1
  <1>4. o # x
    BY <1>2, <1>3
  <1>5. m[o] \in ins /\ m[x] \in ins
    BY <1>2, <1>3
  <1>6. \A i \in Rows : amount[i] \in Int /\ day[i] \in Nat /\ rank[i] \in Nat
    BY FeedAssumption
  <1>7. o # m[x] /\ x # m[o]
    BY <1>5, <1>6
  <1>8. Before(o, x) \/ Before(x, o)
    BY <1>4, <1>6, FeedAssumption DEF Before
  <1>9. ~Taken(m, o, m[o], outs) /\ ~Taken(m, x, m[x], outs)
    BY <1>1, <1>2, <1>3 DEF Greedy
  <1>10. m[o] # m[x]
    BY <1>8, <1>9 DEF Taken
  <1> QED
    BY <1>2, <1>3, <1>4, <1>7, <1>10 DEF Apart

-----------------------------------------------------------------------------
(* Steps that write no pair. *)

\* What a rule makes of a row has the row's pair.
LEMMA ByRuleKeepsPair ==
  ASSUME NEW t, NEW b, "pair" \in DOMAIN t
  PROVE  "pair" \in DOMAIN ByRule(t, b) /\ ByRule(t, b).pair = t.pair
  BY DEF ByRule

\* No session writes a pair, stores a row or moves the pipeline.
LEMMA SessionsLeavePairs ==
  ASSUME Shape, NEW s \in Sessions, Start(s) \/ Continue(s) \/ SessionKilled(s)
  PROVE  /\ Shape' /\ PairsKept
         /\ UNCHANGED <<stored, syncAt, fetched, fresh, pairs, half>>
  <1> USE DEF Shape, PairsKept, ledger, syncVars
  <1>1. CASE UNCHANGED txn /\ UNCHANGED <<stored, syncAt, fetched, fresh, pairs, half>>
    BY <1>1
  <1>2. CASE Categorize(s)
    <2>1. PICK c \in Categories :
            Writes(op[s].row, [txn[op[s].row] EXCEPT !.cat = c, !.src = "MANUAL"])
      BY <1>2 DEF Categorize
    <2> QED
      BY <1>2, <2>1 DEF Categorize, Writes
  <1>3. CASE ClearWrite(s)
    BY <1>3 DEF ClearWrite, Writes, whenCleared
  <1>4. CASE ReleaseWrite(s)
    BY <1>4 DEF ReleaseWrite, Writes, Released
  <1>5. CASE LinkWrite(s)
    BY <1>5 DEF LinkWrite, Writes
  <1>6. CASE \E i \in Rows : Unlink(s, i)
    BY <1>6 DEF Unlink, Writes
  <1>7. CASE ConfirmWrite(s)
    <2> DEFINE ids == {t.id : t \in op[s].undo.restore}
    <2>1. PICK target : txn' = [r \in Rows |->
                          IF r \in ids THEN [txn[r] EXCEPT !.cat = target.cat, !.src = "MANUAL"]
                          ELSE txn[r]]
      BY <1>7 DEF ConfirmWrite
    <2> HIDE DEF ids
    <2>2. UNCHANGED <<stored, syncAt, fetched, fresh, pairs, half>>
      BY <1>7 DEF ConfirmWrite
    <2> QED
      BY <2>1, <2>2
  <1>8. CASE ReapplyWrite(s)
    <2>1. PICK b : txn' = [r \in Rows |-> IF r \in b.ids THEN ByRule(txn[r], b) ELSE txn[r]]
      BY <1>8 DEF ReapplyWrite
    <2>2. UNCHANGED <<stored, syncAt, fetched, fresh, pairs, half>>
      BY <1>8 DEF ReapplyWrite
    <2> QED
      BY <2>1, <2>2, ByRuleKeepsPair
  <1>9. CASE RestoreWrite(s)
    BY <1>9 DEF RestoreWrite
  <1>10. CASE Start(s) /\ ~\E i \in Rows : Unlink(s, i)
    <2>1. UNCHANGED txn /\ UNCHANGED <<stored, syncAt, fetched, fresh, pairs, half>>
      BY <1>10 DEF Start, ShowRow, ReleaseRead, LinkRead, Decide, UndoRule, RetypeRead
    <2> QED
      BY <2>1, <1>1
  <1>11. CASE ClearRead(s) \/ ConfirmRead(s) \/ ReapplyReadRules(s) \/ ReapplyReadRows(s)
              \/ ReapplyDone(s) \/ UndoDone(s) \/ RetypeWrite(s) \/ UnboxRead(s)
              \/ UnboxDone(s) \/ SessionKilled(s)
    <2>1. UNCHANGED txn /\ UNCHANGED <<stored, syncAt, fetched, fresh, pairs, half>>
      BY <1>11 DEF ClearRead, ConfirmRead, ReapplyReadRules, ReapplyReadRows, ReapplyDone,
                   UndoDone, RetypeWrite, UnboxRead, UnboxDone, SessionKilled
    <2> QED
      BY <2>1, <1>1
  <1> QED
    BY <1>2, <1>3, <1>4, <1>5, <1>6, <1>7, <1>8, <1>9, <1>10, <1>11 DEF Continue

\* The rules pass writes no pair.
LEMMA RulePassLeavesPairs ==
  ASSUME Shape, RulePass
  PROVE  /\ Shape' /\ PairsKept
         /\ UNCHANGED <<stored, syncAt, fetched, fresh, pairs, half>>
  <1> USE DEF Shape, PairsKept
  <1>1. CASE WriteBatch
    <2>1. PICK b : txn' = [r \in Rows |->
                      IF r \in reached(b.ids) THEN ByRule(txn[r], b) ELSE txn[r]]
      BY <1>1 DEF WriteBatch
    <2>2. UNCHANGED <<stored, syncAt, fetched, fresh, pairs, half>>
      BY <1>1 DEF WriteBatch
    <2> QED
      BY <2>1, <2>2, ByRuleKeepsPair
  <1>2. CASE WriteHint
    BY <1>2 DEF WriteHint
  <1> QED
    BY <1>1, <1>2 DEF RulePass

\* A step that keeps the pairs and the pipeline's place keeps the invariant.
LEMMA Carried ==
  ASSUME LinkInv, Shape', PairsKept,
         UNCHANGED <<stored, syncAt, fetched, fresh, pairs, half>>
  PROVE  LinkInv'
  BY DEF LinkInv, PipelineOK, PairsMatch, Linkable, PairsKept

-----------------------------------------------------------------------------
(* Linked rows match. *)

LEMMA InitLinkInv == Init => LinkInv
  <1> SUFFICES ASSUME Init PROVE LinkInv
    OBVIOUS
  <1>1. Shape /\ \A r \in Rows : txn[r].pair = NoRow
    BY DEF Init, LedgerInit, Shape, Imported
  <1> QED
    BY <1>1 DEF Init, LedgerInit, SyncInit, LinkInv, PipelineOK, PairsMatch

LEMMA LinkStep == LinkInv /\ [Next]_vars => LinkInv'
  <1> SUFFICES ASSUME LinkInv, [Next]_vars PROVE LinkInv'
    OBVIOUS
  <1> USE DEF LinkInv
  <1>1. CASE UNCHANGED vars
    <2>1. UNCHANGED <<stored, syncAt, fetched, fresh, pairs, half>> /\ UNCHANGED txn
      BY <1>1 DEF vars, ledger, syncVars
    <2> QED
      BY <2>1, Carried DEF Shape, PairsKept
  <1>2. ASSUME NEW s \in Sessions, Start(s) \/ Continue(s) \/ SessionKilled(s)
        PROVE  LinkInv'
    BY <1>2, SessionsLeavePairs, Carried
  <1>3. CASE RulePass
    BY <1>3, RulePassLeavesPairs, Carried
  <1>4. CASE Fetch
    BY <1>4 DEF Fetch, freshOf, ledger, Shape, PipelineOK, PairsMatch, Linkable
  <1>5. CASE Insert
    <2>1. Shape' /\ \A r \in Rows : txn'[r].pair \in {NoRow, txn[r].pair}
      BY <1>5 DEF Insert, Imported, Shape
    <2>2. PipelineOK'
      BY <1>5 DEF Insert, PipelineOK, Linkable
    <2>3. PairsMatch'
      BY <1>5, <2>1 DEF Insert, PairsMatch
    <2> QED
      BY <2>1, <2>2, <2>3
  <1>6. CASE ReadRules \/ ReadWaiting \/ SyncFinish \/ SyncKilled
    BY <1>6 DEF ReadRules, ReadWaiting, SyncFinish, SyncKilled, ledger, Shape, PipelineOK,
                PairsMatch, Linkable
  <1>7. CASE ReadCandidates
    <2>1. \A p \in pairs' : Linkable(p)
      BY <1>7, DetectionMatches DEF ReadCandidates, Candidate, Linkable
    <2> QED
      BY <1>7, <2>1 DEF ReadCandidates, ledger, Shape, PipelineOK, PairsMatch, Linkable
  <1>8. CASE PairOut
    <2>1. PICK p \in pairs : /\ txn' = [txn EXCEPT ![p.out] = Paired(@, p.in)]
                             /\ half' = p /\ pairs' = pairs \ {p}
      BY <1>8 DEF PairOut
    <2>2. Linkable(p) /\ UNCHANGED <<stored, syncAt, fetched, fresh>>
      BY <1>8 DEF PairOut, PipelineOK
    <2>3. Shape' /\ \A r \in Rows : txn'[r].pair = IF r = p.out THEN p.in ELSE txn[r].pair
      BY <2>1, <2>2 DEF Shape, Paired, Linkable
    <2>4. PipelineOK'
      BY <2>1, <2>2 DEF PipelineOK, Linkable
    <2>5. PairsMatch'
      BY <2>2, <2>3 DEF PairsMatch, Linkable
    <2> QED
      BY <2>3, <2>4, <2>5
  <1>9. CASE PairIn
    <2>1. Linkable(half) /\ UNCHANGED <<stored, syncAt, fetched, fresh, pairs>> /\ half' = NoPair
      BY <1>9 DEF PairIn, PipelineOK
    <2>2. Shape' /\ \A r \in Rows : txn'[r].pair = IF r = half.in THEN half.out ELSE txn[r].pair
      BY <1>9, <2>1 DEF PairIn, Shape, Paired, Linkable
    <2>3. PipelineOK'
      BY <2>1 DEF PipelineOK, Linkable
    <2>4. PairsMatch'
      BY <2>1, <2>2 DEF PairsMatch, Linkable
    <2> QED
      BY <2>2, <2>3, <2>4
  <1> QED
    BY <1>1, <1>2, <1>3, <1>4, <1>5, <1>6, <1>7, <1>8, <1>9
    DEF Next, SyncNext, SyncStart, SyncStep

\* Whatever runs beside the pipeline and wherever it is killed, rows linked
\* as a transfer are stored, opposite, in two accounts and within the window.
THEOREM LinkedRowsMatch == Spec => []PairsMatch
  <1>1. LinkInv => PairsMatch
    BY DEF LinkInv
  <1> QED
    BY <1>1, InitLinkInv, LinkStep, PTL DEF Spec

-----------------------------------------------------------------------------
(* Links are returned, while no pipeline is killed between its two writes. *)

LEMMA InitReciprocalInv == Init => ReciprocalInv
  <1> SUFFICES ASSUME Init PROVE ReciprocalInv
    OBVIOUS
  <1>1. \A r \in Rows : txn[r].pair = NoRow
    BY DEF Init, LedgerInit, Imported
  <1> QED
    BY <1>1, InitLinkInv DEF Init, SyncInit, ReciprocalInv, PairingOK, PairsReciprocal

\* A step that keeps the pairs and the pipeline's place keeps the links.
LEMMA ReciprocalCarried ==
  ASSUME ReciprocalInv, PairsKept, UNCHANGED <<syncAt, pairs, half>>
  PROVE  PairingOK' /\ PairsReciprocal'
  BY DEF ReciprocalInv, LinkInv, PipelineOK, Linkable, PairingOK, Apart, PairsReciprocal,
         PairsMatch, PairsKept

LEMMA ReciprocalStep ==
  ASSUME MaxKills = 0, ReciprocalInv, [Next]_vars
  PROVE  ReciprocalInv'
  <1>1. LinkInv'
    BY LinkStep DEF ReciprocalInv
  <1>2. ~SyncKilled /\ \A s \in Sessions : ~SessionKilled(s)
    BY DEF ReciprocalInv, SyncKilled, SessionKilled
  <1>3. kills' = 0
    <2>1. CASE UNCHANGED vars
      BY <2>1 DEF ReciprocalInv, vars, syncVars
    <2>2. CASE Fetch \/ SyncStep
      BY <2>2 DEF ReciprocalInv, SyncStep, RulePass, Fetch, Insert, ReadRules, ReadWaiting,
                  WriteBatch, WriteHint, ReadCandidates, PairOut, PairIn, SyncFinish
    <2>3. ASSUME NEW s \in Sessions, Start(s) PROVE kills' = 0
      BY <2>3 DEF ReciprocalInv, syncVars, Start, ShowRow, ReleaseRead, Unlink, LinkRead,
                  Decide, UndoRule, RetypeRead
    <2>4. ASSUME NEW s \in Sessions, Continue(s) PROVE kills' = 0
      BY <2>4 DEF ReciprocalInv, syncVars, Continue, Categorize, ClearRead, ClearWrite,
                  ReleaseWrite, LinkWrite, ConfirmRead, ConfirmWrite, ReapplyReadRules,
                  ReapplyReadRows, ReapplyWrite, ReapplyDone, RestoreWrite, UndoDone,
                  RetypeWrite, UnboxRead, UnboxDone
    <2> QED
      BY <1>2, <2>1, <2>2, <2>3, <2>4 DEF Next, SyncNext, SyncStart
  <1> USE DEF ReciprocalInv, LinkInv
  <1>4. CASE UNCHANGED vars
    <2>1. PairsKept /\ UNCHANGED <<syncAt, pairs, half>>
      BY <1>4 DEF vars, ledger, syncVars, PairsKept
    <2> QED
      BY <2>1, <1>1, <1>3, ReciprocalCarried
  <1>5. ASSUME NEW s \in Sessions, Start(s) \/ Continue(s) PROVE ReciprocalInv'
    BY <1>5, <1>1, <1>3, SessionsLeavePairs, ReciprocalCarried
  <1>6. CASE RulePass
    BY <1>6, <1>1, <1>3, RulePassLeavesPairs, ReciprocalCarried
  <1>7. CASE Fetch \/ ReadRules \/ ReadWaiting \/ SyncFinish
    <2>1. /\ PairsKept /\ UNCHANGED <<pairs, half>>
          /\ pairs = {} /\ half = NoPair
      BY <1>7 DEF Fetch, ReadRules, ReadWaiting, SyncFinish, ledger, PairsKept, PairingOK
    <2> QED
      BY <2>1, <1>1, <1>3 DEF PairsKept, PairingOK, PairsReciprocal, PairsMatch, PipelineOK
  <1>8. CASE Insert
    <2>1. pairs = {} /\ half = NoPair /\ UNCHANGED <<pairs, half>> /\ fresh \cap stored = {}
      BY <1>8 DEF Insert, PairingOK, PipelineOK
    <2>2. \A r \in Rows : txn'[r].pair = txn[r].pair
      BY <1>8, <2>1 DEF Insert, Imported, PairsMatch
    <2> QED
      BY <2>1, <2>2, <1>1, <1>3 DEF PairingOK, PairsReciprocal, PairsMatch, PipelineOK
  <1>9. CASE ReadCandidates
    <2> DEFINE C == {r \in Rows : Candidate(r)}
    <2>1. /\ PairsKept /\ UNCHANGED half /\ half = NoPair /\ syncAt' = "pairing"
          /\ pairs' \in detectTransferPairs(C)
      BY <1>9 DEF ReadCandidates, ledger, PairsKept, PairingOK
    <2>2. \A r \in C : txn[r].pair = NoRow
      BY DEF Candidate
    <2>3. \A p \in pairs' : p.out \in C /\ p.in \in C
      BY <2>1, DetectionMatches
    <2>4. \A p, q \in pairs' : p # q => Apart(p, q)
      BY <2>1, DetectionDisjoint
    <2>5. PairingOK'
      BY <2>1, <2>2, <2>3, <2>4 DEF PairingOK, PairsKept, Apart
    <2>6. PairsReciprocal'
      BY <2>1 DEF PairsReciprocal, PairsMatch, PairsKept, PipelineOK
    <2> QED
      BY <1>1, <1>3, <2>5, <2>6
  <1>10. CASE PairOut
    <2>1. PICK p \in pairs : /\ txn' = [txn EXCEPT ![p.out] = Paired(@, p.in)]
                             /\ half' = p /\ pairs' = pairs \ {p}
      BY <1>10 DEF PairOut
    <2>2. /\ Linkable(p) /\ p.out # p.in /\ half = NoPair
          /\ syncAt = "pairing" /\ syncAt' = "pairing"
          /\ txn[p.out].pair = NoRow /\ txn[p.in].pair = NoRow
      BY <1>10, <2>1 DEF PairOut, PipelineOK, PairingOK, Linkable, Opposite
    <2>3. \A r \in Rows : txn'[r].pair = IF r = p.out THEN p.in ELSE txn[r].pair
      BY <2>1, <2>2 DEF Shape, Paired, Linkable
    <2>4. \A q \in pairs \ {p} : Linkable(q) /\ Apart(q, p) /\ Apart(p, q)
      BY <2>1 DEF PairingOK, PipelineOK
    <2>5. PairingOK'
      BY <2>1, <2>2, <2>3, <2>4 DEF PairingOK, Apart, Linkable
    <2>6. PairsReciprocal'
      <3> SUFFICES ASSUME NEW r \in Rows, txn'[r].pair # NoRow
                   PROVE  \/ txn'[txn'[r].pair].pair = r
                          \/ half' = [out |-> r, in |-> txn'[r].pair]
        BY DEF PairsReciprocal
      <3>1. CASE r = p.out
        BY <3>1, <2>1, <2>2, <2>3 DEF Linkable
      <3>2. CASE r # p.out
        <4>1. txn[txn[r].pair].pair = r /\ txn[r].pair \in Rows
          BY <3>2, <2>2, <2>3, AbsentAssumption DEF PairsReciprocal, PairsMatch, NoPair, PipelineOK
        <4>2. txn[r].pair # p.out
          BY <4>1, <2>2, AbsentAssumption
        <4> QED
          BY <3>2, <4>1, <4>2, <2>3
      <3> QED
        BY <3>1, <3>2
    <2> QED
      BY <1>1, <1>3, <2>5, <2>6
  <1>11. CASE PairIn
    <2>1. /\ Linkable(half) /\ half.out # half.in /\ half # NoPair /\ half' = NoPair
          /\ UNCHANGED <<pairs, syncAt>>
          /\ txn[half.out].pair = half.in /\ txn[half.in].pair = NoRow
      BY <1>11 DEF PairIn, PipelineOK, PairingOK, Linkable, Opposite
    <2>2. \A r \in Rows : txn'[r].pair = IF r = half.in THEN half.out ELSE txn[r].pair
      BY <1>11, <2>1 DEF PairIn, Shape, Paired, Linkable
    <2>3. PairingOK'
      BY <2>1, <2>2 DEF PairingOK, PipelineOK, Apart, Linkable
    <2>4. PairsReciprocal'
      <3> SUFFICES ASSUME NEW r \in Rows, txn'[r].pair # NoRow
                   PROVE  txn'[txn'[r].pair].pair = r
        BY DEF PairsReciprocal
      <3>1. CASE r = half.in
        BY <3>1, <2>1, <2>2 DEF Linkable
      <3>2. CASE r = half.out
        BY <3>2, <2>1, <2>2 DEF Linkable
      <3>3. CASE r # half.in /\ r # half.out
        <4>1. txn[txn[r].pair].pair = r /\ txn[r].pair \in Rows
          BY <3>3, <2>1, <2>2 DEF PairsReciprocal, PairsMatch, PipelineOK
        <4>2. txn[r].pair # half.in
          BY <4>1, <2>1, AbsentAssumption
        <4> QED
          BY <3>3, <4>1, <4>2, <2>2
      <3> QED
        BY <3>1, <3>2, <3>3
    <2> QED
      BY <1>1, <1>3, <2>3, <2>4
  <1> QED
    BY <1>2, <1>4, <1>5, <1>6, <1>7, <1>8, <1>9, <1>10, <1>11
    DEF Next, SyncNext, SyncStart, SyncStep

\* When no function is killed, no row is left pointing at one that is free
\* or is another's partner, whatever the operator does while pairs are
\* detected and written.
THEOREM LinksReturned == ASSUME MaxKills = 0 PROVE Spec => []PairsReciprocal
  <1>1. ReciprocalInv => PairsReciprocal
    BY DEF ReciprocalInv
  <1>2. ReciprocalInv /\ [Next]_vars => ReciprocalInv'
    BY ReciprocalStep
  <1> QED
    BY <1>1, <1>2, InitReciprocalInv, PTL DEF Spec

-----------------------------------------------------------------------------
(* What a step may never do. *)

\* Stored rows are never removed, and an import changes none of them.
LEMMA ImportStep ==
  ASSUME LinkInv, [Next]_vars
  PROVE  stored \subseteq stored' /\ (Insert => \A r \in stored : txn'[r] = txn[r])
  <1> USE DEF LinkInv
  <1>1. stored \subseteq stored'
    <2>1. CASE UNCHANGED vars
      BY <2>1 DEF vars, ledger
    <2>2. ASSUME NEW s \in Sessions, Start(s) \/ Continue(s) \/ SessionKilled(s)
          PROVE  stored \subseteq stored'
      BY <2>2, SessionsLeavePairs
    <2>3. CASE RulePass
      BY <2>3, RulePassLeavesPairs
    <2>4. CASE \/ Fetch \/ Insert \/ ReadRules \/ ReadWaiting \/ ReadCandidates
               \/ PairOut \/ PairIn \/ SyncFinish \/ SyncKilled
      BY <2>4 DEF Fetch, Insert, ReadRules, ReadWaiting, ReadCandidates, PairOut, PairIn,
                  SyncFinish, SyncKilled, ledger
    <2> QED
      BY <2>1, <2>2, <2>3, <2>4 DEF Next, SyncNext, SyncStart, SyncStep
  <1>2. ASSUME Insert PROVE \A r \in stored : txn'[r] = txn[r]
    BY <1>2 DEF Insert, PipelineOK
  <1> QED
    BY <1>1, <1>2

\* The feed may repeat any row in any sync: what is stored stays, with every
\* decision made about it.
THEOREM ReimportIsSafe == Spec => ReimportChangesNothing
  <1>1. LinkInv /\ [Next]_vars =>
          [stored \subseteq stored' /\ (Insert => \A r \in stored : txn'[r] = txn[r])]_vars
    BY ImportStep
  <1> QED
    BY <1>1, InitLinkInv, LinkStep, PTL DEF Spec, ReimportChangesNothing

\* The rules pass repeats its guard in each write: a row categorized by hand
\* after the pass read it is left alone.
THEOREM RulePassGuarded == Spec => RulePassSparesManual
  <1>1. ASSUME RulePass PROVE \A r \in Rows : Spared(r)
    <2>1. CASE WriteBatch
      BY <2>1 DEF WriteBatch, reached, Spared
    <2>2. CASE WriteHint
      BY <2>2 DEF WriteHint, reached, Spared
    <2> QED
      BY <1>1, <2>1, <2>2 DEF RulePass
  <1>2. [Next]_vars => [RulePass => \A r \in Rows : Spared(r)]_vars
    BY <1>1
  <1> QED
    BY <1>2, PTL DEF Spec, RulePassSparesManual

-----------------------------------------------------------------------------
(***************************************************************************)
(* The types of the ledger, of the pipeline and of the sessions hold in    *)
(* every reachable state.  TypeOK is inductive by itself because it says   *)
(* what each held write is: a batch read long before its write still names *)
(* rows, a category and a flow when it is made.                            *)
(***************************************************************************)

-----------------------------------------------------------------------------
(* The operators. *)

LEMMA ImportedTyped == ASSUME NEW r \in Rows PROVE Imported(r) \in Txn
  BY FeedAssumption DEF Imported, Txn, Sources

LEMMA ByRuleTyped ==
  ASSUME NEW t \in Txn, NEW b \in RuleWrites
  PROVE  ByRule(t, b) \in Txn
  <1>1. CASE b.flow = Keep
    BY <1>1 DEF ByRule, RuleWrites, Category, Txn, Sources
  <1>2. CASE b.flow # Keep
    BY <1>2 DEF ByRule, RuleWrites, Category, Txn, Sources, Flows
  <1> QED
    BY <1>1, <1>2

\* A row that is ruled has an outcome, and it is a rule.
LEMMA OutcomeTyped ==
  ASSUME NEW rules \in [Payees -> Rule \union {NoRule}], NEW inv, NEW t,
         NEW ids \in SUBSET Rows, NEW r \in Ruled(rules, inv, t, ids)
  PROVE  Outcome(rules, inv, r) \in Rule
  <1>1. r \in Rows /\ (isClosedBox(inv, r) \/ ruleFor(rules, r) # NoRule)
    BY DEF Ruled
  <1>2. ruleFor(rules, r) \in Rule \union {NoRule}
    BY <1>1, FeedAssumption DEF ruleFor
  <1>3. Enclosed \in Rule
    BY DEF Enclosed, Rule
  <1> QED
    BY <1>1, <1>2, <1>3 DEF Outcome

LEMMA BatchesTyped ==
  ASSUME NEW rules \in [Payees -> Rule \union {NoRule}], NEW inv, NEW t,
         NEW ids \in SUBSET Rows, NEW X \in SUBSET Ruled(rules, inv, t, ids)
  PROVE  Batches(rules, inv, X) \subseteq RuleWrites
  <1> SUFFICES ASSUME NEW b \in Batches(rules, inv, X) PROVE b \in RuleWrites
    OBVIOUS
  <1>1. PICK o : /\ o \in {Outcome(rules, inv, x) : x \in X}
                 /\ b = [cat |-> o.cat, flow |-> o.flow,
                         ids |-> {x \in X : Outcome(rules, inv, x) = o}]
    BY DEF Batches
  <1>2. o \in Rule
    BY <1>1, OutcomeTyped
  <1>3. X \subseteq Rows
    BY DEF Ruled
  <1> QED
    BY <1>1, <1>2, <1>3 DEF Rule, RuleWrites, Category

LEMMA RestoresTyped ==
  ASSUME NEW snapshots \in SUBSET Snapshots
  PROVE  RestoreBatches(snapshots) \subseteq RowWrites
  <1> SUFFICES ASSUME NEW b \in RestoreBatches(snapshots) PROVE b \in RowWrites
    OBVIOUS
  <1>1. PICK v \in snapshots :
           b = [cat |-> v.cat, src |-> v.src, flow |-> v.flow,
                ids |-> {t.id : t \in {u \in snapshots :
                            u.cat = v.cat /\ u.src = v.src /\ u.flow = v.flow}}]
    BY DEF RestoreBatches
  <1> QED
    BY <1>1 DEF Snapshots, RowWrites

LEMMA SnapshotTyped ==
  ASSUME SyncTypeOK, NEW r \in Rows
  PROVE  Snapshot(r) \in Snapshots
  BY DEF SyncTypeOK, Snapshot, Snapshots, Txn, Category

LEMMA NoneTyped == NoRules \in [Payees -> Rule \union {NoRule}] /\ NoUndo \in Undos
  BY DEF NoRules, NoUndo, Undos

LEMMA IdleTyped == OpOK(Idle)
  BY NoneTyped DEF OpOK, Idle, Op, OnRow, Reapplying, Retyping

\* A reapply that has read the rules.
LEMMA RulesReadTyped ==
  ASSUME NEW o, OpOK(o), NEW rules \in [Payees -> Rule \union {NoRule}]
  PROVE  OpOK([o EXCEPT !.at = "reapplyRows", !.rules = rules, !.todo = {}])
  BY DEF OpOK, Op, OnRow, Reapplying, Retyping

-----------------------------------------------------------------------------
(* The sessions. *)

\* What a session does next has its type; so have all of them.
LEMMA GoesTyped ==
  ASSUME op \in [Sessions -> Op], \A z \in Sessions : OpOK(op[z]),
         NEW s \in Sessions, NEW next, OpOK(next), Goes(s, next)
  PROVE  op' \in [Sessions -> Op] /\ \A z \in Sessions : OpOK(op'[z])
  BY DEF Goes, OpOK

\* One row written with a typed value.
LEMMA WritesTyped ==
  ASSUME txn \in [Rows -> Txn], NEW r \in Rows, NEW t \in Txn, Writes(r, t)
  PROVE  txn' \in [Rows -> Txn]
  BY DEF Writes

\* The ledger and the pipeline keep their types when an action writes rows
\* and rules only.
LEMMA LedgerTyped ==
  ASSUME SyncTypeOK, txn' \in [Rows -> Txn],
         userRules' \in [Payees -> Rule \union {NoRule}], investment' \subseteq Accounts,
         UNCHANGED <<stored, syncVars>>
  PROVE  SyncTypeOK'
  BY DEF SyncTypeOK, syncVars

LEMMA StartTyped ==
  ASSUME TypeOK, NEW s \in Sessions, Start(s)
  PROVE  TypeOK'
  <1> USE DEF TypeOK
  <1>0. ops \in Nat /\ MaxOps \in Nat
    BY SessionAssumption
  <1>1. ASSUME NEW name, Starts(s, name) PROVE ops' \in 0..MaxOps
    BY <1>0, <1>1 DEF Starts
  <1>2. SyncTypeOK /\ UNCHANGED <<ledger, syncVars>> => SyncTypeOK'
    BY LedgerTyped DEF SyncTypeOK, ledger
  <1>3. ASSUME NEW r \in Rows, NEW name \in {"categorize", "clear"}, ShowRow(s, r, name)
        PROVE  TypeOK'
    <2>1. OpOK([Idle EXCEPT !.at = name, !.row = r])
      BY <1>3, IdleTyped DEF OpOK, Op, Idle, OnRow, Reapplying, Retyping
    <2> QED
      BY <1>1, <1>2, <1>3, <2>1, GoesTyped DEF ShowRow
  <1>4. ASSUME NEW r \in Rows, ReleaseRead(s, r) PROVE TypeOK'
    <2>1. OpOK([Idle EXCEPT !.at = "releasing", !.row = r])
      BY IdleTyped DEF OpOK, Op, Idle, OnRow, Reapplying, Retyping
    <2> QED
      BY <1>1, <1>2, <1>4, <2>1, GoesTyped DEF ReleaseRead
  <1>5. ASSUME NEW i \in Rows, NEW o \in Rows, LinkRead(s, i, o) PROVE TypeOK'
    <2>1. OpOK([Idle EXCEPT !.at = "linking", !.row = i, !.other = o])
      BY IdleTyped DEF OpOK, Op, Idle, OnRow, Reapplying, Retyping
    <2> QED
      BY <1>1, <1>2, <1>5, <2>1, GoesTyped DEF LinkRead
  <1>6. ASSUME NEW i \in Rows, Unlink(s, i) PROVE TypeOK'
    <2>1. [txn[i] EXCEPT !.reimb = NoRow] \in Txn
      BY DEF SyncTypeOK, Txn
    <2>2. txn' \in [Rows -> Txn]
      BY <1>6, <2>1, WritesTyped DEF Unlink, SyncTypeOK
    <2>3. SyncTypeOK'
      BY <1>6, <2>2, LedgerTyped DEF Unlink, SyncTypeOK
    <2> QED
      BY <1>1, <1>6, <2>3 DEF Unlink
  <1>7. ASSUME NEW p \in Payees, NEW target \in Targets, Decide(s, p, target) PROVE TypeOK'
    <2>1. target \in Rule /\ target.flow \in {"TRANSFER", Keep}
      BY DEF Targets, Enclosed, Rule
    <2>2. userRules' \in [Payees -> Rule \union {NoRule}]
      BY <1>7, <2>1 DEF Decide, SyncTypeOK
    <2>3. SyncTypeOK'
      BY <1>7, <2>2, LedgerTyped DEF Decide, SyncTypeOK
    <2> DEFINE undo == [payee |-> p, previous |-> userRules[p], restore |-> {}]
               at == IF target.flow = Keep THEN "confirm" ELSE "reapply"
               next == [Idle EXCEPT !.at = at, !.undo = undo, !.todo = {target}]
    <2>4. undo \in Undos /\ at \in {"confirm", "reapply"}
      BY DEF Undos, SyncTypeOK
    <2>5. Goes(s, next)
      BY <1>7 DEF Decide
    <2> HIDE DEF undo, at
    <2>6. OpOK(next)
      BY <2>1, <2>4, IdleTyped DEF OpOK, Op, Idle, OnRow, Reapplying, Retyping
    <2> QED
      BY <1>1, <1>7, <2>3, <2>5, <2>6, GoesTyped DEF Decide
  <1>8. CASE UndoRule(s)
    <2>1. /\ undoable[s] \in Undos /\ undoable[s].payee \in Payees \union {NoRow}
          /\ undoable[s].previous \in Rule \union {NoRule}
          /\ undoable[s].restore \in SUBSET Snapshots
      BY DEF Undos
    <2>2. userRules' \in [Payees -> Rule \union {NoRule}]
      BY <1>8, <2>1 DEF UndoRule, ruleBefore, SyncTypeOK
    <2>3. SyncTypeOK'
      BY <1>8, <2>2, LedgerTyped DEF UndoRule, SyncTypeOK
    <2> DEFINE todo == RestoreBatches(undoable[s].restore)
    <2>4. todo \subseteq RowWrites
      BY <2>1, RestoresTyped
    <2>5. Goes(s, [Idle EXCEPT !.at = "restoring", !.todo = todo])
      BY <1>8 DEF UndoRule
    <2> HIDE DEF todo
    <2>6. OpOK([Idle EXCEPT !.at = "restoring", !.todo = todo])
      BY <2>4, IdleTyped DEF OpOK, Op, Idle, OnRow, Reapplying, Retyping
    <2> QED
      BY <1>1, <1>8, <2>3, <2>5, <2>6, GoesTyped DEF UndoRule
  <1>9. ASSUME NEW a \in Accounts, RetypeRead(s, a) PROVE TypeOK'
    <2> DEFINE box == a \in investment
    <2>0. box \in BOOLEAN
      OBVIOUS
    <2> HIDE DEF box
    <2>1. OpOK([Idle EXCEPT !.at = "retyping", !.other = a, !.box = box])
      BY <2>0, IdleTyped DEF OpOK, Op, Idle, OnRow, Reapplying, Retyping
    <2> USE DEF box
    <2> QED
      BY <1>1, <1>2, <1>9, <2>1, GoesTyped DEF RetypeRead
  <1> QED
    BY <1>3, <1>4, <1>5, <1>6, <1>7, <1>8, <1>9 DEF Start

\* What a person's own write makes of a row.
LEMMA PersonsTyped ==
  ASSUME NEW t \in Txn
  PROVE  /\ \A c \in Categories : [t EXCEPT !.cat = c, !.src = "MANUAL"] \in Txn
         /\ \A box : whenCleared(t, box) \in Txn
         /\ \A r : Released(t, r) \in Txn
  <1> USE DEF Txn, Sources, Flows
  <1>1. \A c \in Categories : [t EXCEPT !.cat = c, !.src = "MANUAL"] \in Txn
    OBVIOUS
  <1>2. \A box : whenCleared(t, box) \in Txn
    BY DEF whenCleared
  <1>3. \A r : Released(t, r) \in Txn
    BY DEF Released, flowByAmount
  <1> QED
    BY <1>1, <1>2, <1>3

\* The rows as a session's next step leaves them.
LEMMA SessionRowsTyped ==
  ASSUME TypeOK, NEW s \in Sessions, Continue(s) \/ SessionKilled(s)
  PROVE  txn' \in [Rows -> Txn]
  <1> USE DEF TypeOK
  <1>1. txn \in [Rows -> Txn]
    BY DEF SyncTypeOK
  <1>2. OpOK(op[s]) /\ (op[s].at \in OnRow => op[s].row \in Rows)
    BY DEF OpOK
  <1>3. CASE Categorize(s)
    <2>1. op[s].row \in Rows
      BY <1>2, <1>3 DEF Categorize, OnRow
    <2>2. PICK c \in Categories :
            Writes(op[s].row, [txn[op[s].row] EXCEPT !.cat = c, !.src = "MANUAL"])
      BY <1>3 DEF Categorize
    <2>3. [txn[op[s].row] EXCEPT !.cat = c, !.src = "MANUAL"] \in Txn
      BY <1>1, <2>1, PersonsTyped
    <2> QED
      BY <1>1, <2>1, <2>2, <2>3, WritesTyped
  <1>4. CASE ClearWrite(s)
    <2>1. op[s].row \in Rows
      BY <1>2, <1>4 DEF ClearWrite, OnRow
    <2>2. whenCleared(txn[op[s].row], op[s].box) \in Txn
      BY <1>1, <2>1, PersonsTyped
    <2> QED
      BY <1>1, <1>4, <2>1, <2>2, WritesTyped DEF ClearWrite
  <1>5. CASE ReleaseWrite(s)
    <2>1. op[s].row \in Rows
      BY <1>2, <1>5 DEF ReleaseWrite, OnRow
    <2>2. Released(txn[op[s].row], op[s].row) \in Txn
      BY <1>1, <2>1, PersonsTyped
    <2> QED
      BY <1>1, <1>5, <2>1, <2>2, WritesTyped DEF ReleaseWrite
  <1>6. CASE LinkWrite(s)
    <2>1. op[s].row \in Rows /\ op[s].other \in Rows
      BY <1>2, <1>6 DEF LinkWrite, OnRow, OpOK
    <2>2. [txn[op[s].row] EXCEPT !.reimb = op[s].other] \in Txn
      BY <1>1, <2>1 DEF Txn
    <2> QED
      BY <1>1, <1>6, <2>1, <2>2, WritesTyped DEF LinkWrite
  <1>7. CASE ConfirmWrite(s)
    <2> DEFINE ids == {t.id : t \in op[s].undo.restore}
    <2>1. PICK target \in op[s].todo :
             txn' = [r \in Rows |->
                       IF r \in ids THEN [txn[r] EXCEPT !.cat = target.cat, !.src = "MANUAL"]
                       ELSE txn[r]]
      BY <1>7 DEF ConfirmWrite
    <2>2. target \in Rule
      BY <1>2, <1>7 DEF ConfirmWrite, OpOK
    <2>3. target.cat \in Categories \union {NoCat}
      BY <2>2 DEF Rule
    <2> HIDE DEF ids
    <2>4. ASSUME NEW r \in Rows
          PROVE  [txn[r] EXCEPT !.cat = target.cat, !.src = "MANUAL"] \in Txn
      BY <1>1, <2>3 DEF Txn, Sources
    <2> QED
      BY <1>1, <2>1, <2>4
  <1>8. CASE ReapplyWrite(s)
    <2>1. PICK b \in op[s].todo :
             txn' = [r \in Rows |-> IF r \in b.ids THEN ByRule(txn[r], b) ELSE txn[r]]
      BY <1>8 DEF ReapplyWrite
    <2>2. b \in RuleWrites
      BY <1>2, <1>8 DEF ReapplyWrite, OpOK
    <2> QED
      BY <1>1, <2>1, <2>2, ByRuleTyped
  <1>9. CASE RestoreWrite(s)
    <2>1. PICK b \in op[s].todo :
             txn' = [r \in Rows |->
                       IF r \in b.ids
                       THEN [txn[r] EXCEPT !.cat = b.cat, !.src = b.src, !.flow = b.flow]
                       ELSE txn[r]]
      BY <1>9 DEF RestoreWrite
    <2>2. b \in RowWrites
      BY <1>2, <1>9 DEF RestoreWrite, OpOK
    <2>3. ASSUME NEW r \in Rows
          PROVE  [txn[r] EXCEPT !.cat = b.cat, !.src = b.src, !.flow = b.flow] \in Txn
      BY <1>1, <2>2 DEF Txn, RowWrites, Category
    <2> QED
      BY <1>1, <2>1, <2>3
  <1>10. CASE ClearRead(s) \/ ConfirmRead(s) \/ ReapplyReadRules(s) \/ ReapplyReadRows(s)
              \/ ReapplyDone(s) \/ UndoDone(s) \/ RetypeWrite(s) \/ UnboxRead(s)
              \/ UnboxDone(s) \/ SessionKilled(s)
    BY <1>1, <1>10 DEF ClearRead, ConfirmRead, ReapplyReadRules, ReapplyReadRows,
                       ReapplyDone, UndoDone, RetypeWrite, UnboxRead, UnboxDone,
                       SessionKilled, ledger
  <1> QED
    BY <1>3, <1>4, <1>5, <1>6, <1>7, <1>8, <1>9, <1>10 DEF Continue

OpsTyped == op \in [Sessions -> Op] /\ \A z \in Sessions : OpOK(op[z])

\* What a session holds after its next step.
LEMMA SessionOpsTyped ==
  ASSUME TypeOK, NEW s \in Sessions, Continue(s) \/ SessionKilled(s)
  PROVE  OpsTyped'
  <1> USE DEF TypeOK, OpsTyped
  <1>1. OpOK(op[s]) /\ op[s] \in Op
    BY DEF OpOK
  <1>2. ASSUME NEW next, OpOK(next), Goes(s, next) PROVE OpsTyped'
    BY <1>2, GoesTyped
  <1>3. CASE Categorize(s) \/ ClearWrite(s) \/ ReleaseWrite(s) \/ LinkWrite(s)
             \/ ReapplyDone(s) \/ UndoDone(s) \/ SessionKilled(s)
    BY <1>2, <1>3, IdleTyped DEF Categorize, ClearWrite, ReleaseWrite, LinkWrite,
                                 ReapplyDone, UndoDone, SessionKilled
  <1>4. CASE ClearRead(s)
    <2> DEFINE box == isClosedBox(investment, op[s].row)
    <2>1. box \in BOOLEAN
      BY DEF isClosedBox
    <2>2. Goes(s, [op[s] EXCEPT !.at = "clearing", !.box = box]) /\ op[s].at = "clear"
      BY <1>4 DEF ClearRead
    <2> HIDE DEF box
    <2>3. OpOK([op[s] EXCEPT !.at = "clearing", !.box = box])
      BY <1>1, <2>1, <2>2 DEF OpOK, Op, OnRow, Reapplying, Retyping
    <2> QED
      BY <1>2, <2>2, <2>3
  <1>5. CASE ConfirmRead(s)
    <2> DEFINE rows == {r \in stored : /\ isUnreviewedP2P(txn[r], r)
                                       /\ txn[r].src # "MANUAL"
                                       /\ payee[r] = op[s].undo.payee}
               snaps == {Snapshot(r) : r \in rows}
    <2>1. snaps \subseteq Snapshots
      BY SnapshotTyped DEF SyncTypeOK
    <2>2. /\ Goes(s, [op[s] EXCEPT !.at = "confirming", !.undo.restore = snaps])
          /\ op[s].at = "confirm"
      BY <1>5 DEF ConfirmRead
    <2> HIDE DEF snaps
    <2>3. [op[s].undo EXCEPT !.restore = snaps] \in Undos
      BY <1>1, <2>1 DEF Op, Undos
    <2>4. OpOK([op[s] EXCEPT !.at = "confirming", !.undo = [@ EXCEPT !.restore = snaps]])
      BY <1>1, <2>2, <2>3 DEF OpOK, Op, OnRow, Reapplying, Retyping
    <2> QED
      BY <1>2, <2>2, <2>4
  <1>6. CASE ConfirmWrite(s)
    <2>1. OpOK([op[s] EXCEPT !.at = "reapply", !.todo = {}])
      BY <1>1 DEF OpOK, Op, OnRow, Reapplying, Retyping
    <2> QED
      BY <1>2, <1>6, <2>1 DEF ConfirmWrite
  <1>7. CASE ReapplyReadRules(s)
    <2>1. OpOK(op[s]) /\ userRules \in [Payees -> Rule \union {NoRule}]
      BY <1>1 DEF OpOK, SyncTypeOK
    <2>2. OpOK([op[s] EXCEPT !.at = "reapplyRows", !.rules = userRules, !.todo = {}])
      BY <2>1, RulesReadTyped
    <2> QED
      BY <1>2, <1>7, <2>2 DEF ReapplyReadRules
  <1>8. CASE ReapplyReadRows(s)
    <2> DEFINE rules == op[s].rules
               changed == {r \in Ruled(rules, investment, txn, stored) : Changes(rules, r)}
               byRule == {r \in changed : ~isClosedBox(investment, r)}
               todo == Batches(rules, investment, changed)
               restore == op[s].undo.restore \union {Snapshot(r) : r \in byRule}
    <2>1. rules \in [Payees -> Rule \union {NoRule}] /\ stored \in SUBSET Rows
      BY <1>1 DEF Op, SyncTypeOK
    <2>2. todo \subseteq RuleWrites
      BY <2>1, BatchesTyped
    <2>3. byRule \subseteq Rows
      BY <2>1 DEF Ruled
    <2>4. restore \subseteq Snapshots
      BY <1>1, <2>3, SnapshotTyped DEF Op, Undos
    <2>5. Goes(s, [op[s] EXCEPT !.at = "reapplying", !.rules = NoRules,
                                !.todo = todo, !.undo.restore = restore])
      BY <1>8 DEF ReapplyReadRows
    <2> HIDE DEF todo, restore
    <2>6. [op[s].undo EXCEPT !.restore = restore] \in Undos
      BY <1>1, <2>4 DEF Op, Undos
    <2>7. OpOK([op[s] EXCEPT !.at = "reapplying", !.rules = NoRules,
                             !.todo = todo, !.undo = [@ EXCEPT !.restore = restore]])
      BY <1>1, <2>2, <2>6, NoneTyped DEF OpOK, Op, OnRow, Reapplying, Retyping
    <2> QED
      BY <1>2, <2>5, <2>7
  <1>9. CASE ReapplyWrite(s) \/ RestoreWrite(s)
    <2>1. PICK b : Goes(s, [op[s] EXCEPT !.todo = @ \ {b}])
      BY <1>9 DEF ReapplyWrite, RestoreWrite
    <2>2. OpOK([op[s] EXCEPT !.todo = @ \ {b}])
      BY <1>1 DEF OpOK, Op
    <2> QED
      BY <1>2, <2>1, <2>2
  <1>10. CASE RetypeWrite(s)
    <2>1. op[s].at = "retyping" /\ Goes(s, [op[s] EXCEPT !.at = afterRetype(s)])
      BY <1>10 DEF RetypeWrite
    <2>2. afterRetype(s) \in {"unbox", "reapply"}
      BY DEF afterRetype
    <2>3. OpOK([op[s] EXCEPT !.at = afterRetype(s)])
      BY <1>1, <2>1, <2>2 DEF OpOK, Op, OnRow, Reapplying, Retyping
    <2> QED
      BY <1>2, <2>1, <2>3
  <1>11. CASE UnboxRead(s)
    <2> DEFINE rows == {r \in stored : /\ account[r] = op[s].other
                                       /\ txn[r].flow = "TRANSFER"
                                       /\ txn[r].pair = NoRow
                                       /\ txn[r].src # "MANUAL"}
               snaps == { [id |-> r, cat |-> NoCat, src |-> "AGGREGATOR",
                           flow |-> flowByAmount(r)] : r \in rows }
               todo == RestoreBatches(snaps)
    <2>1. snaps \in SUBSET Snapshots
      BY DEF SyncTypeOK, Snapshots, Category, Sources, Flows, flowByAmount
    <2>2. Goes(s, [op[s] EXCEPT !.at = "unboxing", !.todo = todo])
      BY <1>11 DEF UnboxRead
    <2> HIDE DEF snaps
    <2>3. todo \subseteq RowWrites
      BY <2>1, RestoresTyped
    <2> HIDE DEF todo
    <2>4. OpOK([op[s] EXCEPT !.at = "unboxing", !.todo = todo])
      BY <1>1, <2>3 DEF OpOK, Op, OnRow, Reapplying, Retyping
    <2> QED
      BY <1>2, <2>2, <2>4
  <1>12. CASE UnboxDone(s)
    <2>1. OpOK([op[s] EXCEPT !.at = "reapply"])
      BY <1>1 DEF OpOK, Op, OnRow, Reapplying, Retyping
    <2> QED
      BY <1>2, <1>12, <2>1 DEF UnboxDone
  <1> QED
    BY <1>3, <1>4, <1>5, <1>6, <1>7, <1>8, <1>9, <1>10, <1>11, <1>12 DEF Continue

LEMMA SessionTyped ==
  ASSUME TypeOK, NEW s \in Sessions, Continue(s) \/ SessionKilled(s)
  PROVE  TypeOK'
  <1> USE DEF TypeOK
  <1>1. txn' \in [Rows -> Txn] /\ OpsTyped'
    BY SessionRowsTyped, SessionOpsTyped
  <1>2. undoable' \in [Sessions -> Undos] /\ ops' \in 0..MaxOps
    <2>1. op[s].undo \in Undos
      BY DEF Op
    <2> QED
      BY <2>1, NoneTyped DEF Continue, Categorize, ClearRead, ClearWrite, ReleaseWrite,
                  LinkWrite, ConfirmRead, ConfirmWrite, ReapplyReadRules, ReapplyReadRows,
                  ReapplyWrite, ReapplyDone, RestoreWrite, UndoDone, RetypeWrite, UnboxRead,
                  UnboxDone, SessionKilled
  <1>3. CASE Continue(s)
    <2>1. /\ UNCHANGED <<stored, userRules, syncVars>>
          /\ UNCHANGED investment \/ RetypeWrite(s)
      BY <1>3 DEF Continue, Categorize, ClearRead, ClearWrite, ReleaseWrite,
                  LinkWrite, ConfirmRead, ConfirmWrite, ReapplyReadRules, ReapplyReadRows,
                  ReapplyWrite, ReapplyDone, RestoreWrite, UndoDone, RetypeWrite, UnboxRead,
                  UnboxDone, ledger
    <2>2. investment' \subseteq Accounts
      <3>1. CASE RetypeWrite(s)
        BY <3>1 DEF RetypeWrite, OpOK, SyncTypeOK
      <3> QED
        BY <2>1, <3>1 DEF SyncTypeOK
    <2>3. SyncTypeOK'
      BY <1>1, <2>1, <2>2, LedgerTyped DEF SyncTypeOK
    <2> QED
      BY <1>1, <1>2, <2>3 DEF OpsTyped
  <1>4. CASE SessionKilled(s)
    <2>1. SyncTypeOK'
      BY <1>4, BoundAssumption DEF SessionKilled, SyncTypeOK, ledger
    <2> QED
      BY <1>1, <1>2, <2>1 DEF OpsTyped
  <1> QED
    BY <1>3, <1>4

-----------------------------------------------------------------------------
(* The pipeline. *)

\* The rows as the pipeline's next step leaves them.
LEMMA SyncRowsTyped ==
  ASSUME SyncTypeOK, Fetch \/ SyncStep \/ SyncKilled
  PROVE  txn' \in [Rows -> Txn]
  <1>1. txn \in [Rows -> Txn]
    BY DEF SyncTypeOK
  <1>2. CASE Insert
    BY <1>1, <1>2, ImportedTyped DEF Insert
  <1>3. CASE WriteBatch
    <2>1. PICK b \in batches :
             txn' = [r \in Rows |-> IF r \in reached(b.ids) THEN ByRule(txn[r], b) ELSE txn[r]]
      BY <1>3 DEF WriteBatch
    <2>2. b \in RuleWrites
      BY DEF SyncTypeOK, RuleWrites, Category
    <2> QED
      BY <1>1, <2>1, <2>2, ByRuleTyped
  <1>4. CASE WriteHint
    <2>1. PICK h \in hints :
             txn' = [r \in Rows |-> IF r \in reached(h.ids)
                                    THEN [txn[r] EXCEPT !.cat = h.cat] ELSE txn[r]]
      BY <1>4 DEF WriteHint
    <2>2. h.cat \in Categories
      BY DEF SyncTypeOK
    <2>3. ASSUME NEW r \in Rows PROVE [txn[r] EXCEPT !.cat = h.cat] \in Txn
      BY <1>1, <2>2 DEF Txn
    <2> QED
      BY <1>1, <2>1, <2>3
  <1>5. ASSUME NEW t \in Txn, NEW r \in Rows PROVE Paired(t, r) \in Txn
    BY DEF Paired, Txn, Flows
  <1>6. CASE PairOut
    BY <1>1, <1>5, <1>6 DEF PairOut, SyncTypeOK
  <1>7. CASE PairIn
    <2>1. half \in [out : Rows, in : Rows]
      BY <1>7 DEF PairIn, SyncTypeOK
    <2> QED
      BY <1>1, <1>5, <1>7, <2>1 DEF PairIn
  <1>8. CASE Fetch \/ ReadRules \/ ReadWaiting \/ ReadCandidates \/ SyncFinish \/ SyncKilled
    BY <1>1, <1>8 DEF Fetch, ReadRules, ReadWaiting, ReadCandidates, SyncFinish,
                      SyncKilled, ledger
  <1> QED
    BY <1>2, <1>3, <1>4, <1>6, <1>7, <1>8 DEF SyncStep, RulePass

LEMMA SyncTyped ==
  ASSUME SyncTypeOK, Fetch \/ SyncStep \/ SyncKilled
  PROVE  SyncTypeOK'
  <1>1. txn' \in [Rows -> Txn]
    BY SyncRowsTyped
  <1>2. CASE Fetch
    BY <1>1, <1>2 DEF Fetch, freshOf, ledger, SyncTypeOK
  <1>3. CASE Insert \/ ReadRules \/ SyncFinish
    BY <1>1, <1>3, NoneTyped DEF Insert, ReadRules, SyncFinish, ledger, SyncTypeOK
  <1>4. CASE ReadWaiting
    <2> DEFINE matched == Ruled(seenRules, investment, txn, waitingRows)
               applied == {r \in matched : \/ ~isClosedBox(investment, r)
                                           \/ txn[r].flow # "TRANSFER"
                                           \/ r \in fresh}
               hinted == {r \in (waitingRows \cap fetched) \ applied :
                             HintApplies(investment, txn, r)}
    <2>1. /\ batches' = Batches(seenRules, investment, applied)
          /\ hints' = {[cat |-> hint[r], ids |-> {q \in hinted : hint[q] = hint[r]}]
                         : r \in hinted}
          /\ fetched' = {} /\ fresh' = {} /\ seenRules' = NoRules /\ syncAt' = "writing"
          /\ UNCHANGED <<ledger, pairs, half, kills>>
      BY <1>4 DEF ReadWaiting
    <2>2. /\ waitingRows \in SUBSET Rows /\ applied \in SUBSET matched
          /\ seenRules \in [Payees -> Rule \union {NoRule}]
      BY DEF waitingRows, SyncTypeOK
    <2>3. batches' \subseteq RuleWrites
      BY <2>1, <2>2, BatchesTyped
    <2>4. hinted \subseteq Rows /\ \A r \in hinted : hint[r] \in Categories
      BY <2>2, FeedAssumption DEF HintApplies
    <2> HIDE DEF hinted
    <2>5. hints' \subseteq [cat : Categories, ids : SUBSET Rows]
      BY <2>1, <2>4
    <2> HIDE DEF applied
    <2> QED
      BY <1>1, <2>1, <2>3, <2>5, NoneTyped DEF SyncTypeOK, ledger, RuleWrites, Category
  <1>5. CASE WriteBatch \/ WriteHint
    BY <1>1, <1>5 DEF WriteBatch, WriteHint, SyncTypeOK
  <1>6. CASE ReadCandidates
    <2> DEFINE C == {r \in Rows : Candidate(r)}
    <2>1. pairs' \in detectTransferPairs(C)
      BY <1>6 DEF ReadCandidates
    <2>2. \A p \in pairs' : p \in [out : C, in : C]
      BY <2>1, DetectionMatches
    <2>3. pairs' \subseteq [out : Rows, in : Rows]
      BY <2>2
    <2> QED
      BY <1>1, <1>6, <2>3 DEF ReadCandidates, ledger, SyncTypeOK
  <1>7. CASE PairOut \/ PairIn
    BY <1>1, <1>7 DEF PairOut, PairIn, SyncTypeOK
  <1>8. CASE SyncKilled
    BY <1>1, <1>8, NoneTyped, BoundAssumption DEF SyncKilled, ledger, SyncTypeOK
  <1> QED
    BY <1>2, <1>3, <1>4, <1>5, <1>6, <1>7, <1>8 DEF SyncStep, RulePass

-----------------------------------------------------------------------------
(* The theorem. *)

LEMMA InitTyped == Init => TypeOK
  <1> SUFFICES ASSUME Init PROVE TypeOK
    OBVIOUS
  <1>1. SyncTypeOK
    BY NoneTyped, ImportedTyped, BoundAssumption
       DEF Init, LedgerInit, SyncInit, SyncTypeOK
  <1>2. Idle \in Op
    BY IdleTyped DEF OpOK
  <1> QED
    BY <1>1, <1>2, IdleTyped, NoneTyped, SessionAssumption DEF Init, TypeOK

LEMMA TypeStep == TypeOK /\ [Next]_vars => TypeOK'
  <1> SUFFICES ASSUME TypeOK, [Next]_vars PROVE TypeOK'
    OBVIOUS
  <1>1. CASE UNCHANGED vars
    BY <1>1 DEF vars, ledger, syncVars, sessionVars, TypeOK, SyncTypeOK, OpOK
  <1>2. ASSUME NEW s \in Sessions, Start(s) PROVE TypeOK'
    BY <1>2, StartTyped
  <1>3. ASSUME NEW s \in Sessions, Continue(s) \/ SessionKilled(s) PROVE TypeOK'
    BY <1>3, SessionTyped
  <1>4. CASE (Fetch \/ SyncStep \/ SyncKilled) /\ UNCHANGED sessionVars
    BY <1>4, SyncTyped DEF sessionVars, TypeOK, OpOK
  <1> QED
    BY <1>1, <1>2, <1>3, <1>4 DEF Next, SyncNext, SyncStart

\* Every row has a category of the set, a source and a flow; and every write
\* on its way to one, a sync's or an action's, will leave it so, however late
\* it comes (runPipeline, transactions/actions.ts, accounts/actions.ts).
THEOREM LedgerTypes == Spec => []TypeOK
  BY InitTyped, TypeStep, PTL DEF Spec
=============================================================================
