---------------------------- MODULE InsightStore ----------------------------
(***************************************************************************)
(* The stored insights (insights/engine.ts, insights/scope.ts,             *)
(* app/insights/actions.ts): every edit of the ledger regenerates the      *)
(* months it is taken to have changed, the nightly sync all of them.  A    *)
(* run reads the ledger, computes, and replaces the rows of its scope in   *)
(* one transaction that carries dismissals over by identity.               *)
(*                                                                         *)
(* A month's ledger is a purchase and a deposit that stand out or do not.  *)
(* What most analyzers say of a month is a function of it and the months   *)
(* before it, and is kept here as those months; whether its deposit is pay *)
(* (insights/oneOffPay.ts) is judged over the whole history.  X_Fault is   *)
(* the form a plausible bug would give X.                                  *)
(***************************************************************************)
EXTENDS Integers, FiniteSets

CONSTANTS
    Months,            \* 1 .. a bound
    Neighbours,        \* paydays either side of one that it is judged by (NEIGHBOURS)
    Needed,            \* of them, those that must match (NEEDED)
    Mostly,            \* a payer's share that must be regular, as a pair (MOSTLY)
    ScopeLookback,     \* SCOPE_LOOKBACK_MONTHS
    Tabs,              \* sessions that edit and regenerate
    MaxEdits,          \* bound on edits
    NoInsight

\* An anomaly's row: the months it was computed from, and the reader's flag.
Insights == [of : UNION {[S -> BOOLEAN] : S \in SUBSET Months}, dismissed : BOOLEAN]

ASSUME InsightAssumption ==
    /\ Months \subseteq Nat /\ NoInsight \notin Insights
    /\ ScopeLookback \in Nat
    /\ "sync" \notin Tabs

VARIABLES
    ledger,    \* [Months -> BOOLEAN]: the month's rows stand out
    insight,   \* [Months -> [of, dismissed] or NoInsight]: the anomaly's row
    aggregates, \* [Months -> what the month's aggregate insights were made of]
    payRow,    \* [Months -> what its cash flow row says of the month's deposit]
    regen,     \* [Tabs and the sync -> a run of generateInsights]
    rowEdits,
    behind,    \* months a killed or an overtaken run may have left behind
    unreached  \* months before the reach of an edit, judged without it

nvars == <<ledger, insight, aggregates, payRow, regen, rowEdits, behind, unreached>>

Regens == Tabs \union {"sync"}
NoRun == [at |-> "idle", since |-> 0, seen |-> <<>>, clean |-> TRUE]

\* What the analyzers read for a month: deltas, baselines, one-off purchases.
seenBy(book, m) == [k \in {x \in Months : x <= m} |-> book[k]]

\* judgePay: a deposit is regular if enough of the paydays around it match it;
\* a payer's deposits are pay if most of them, over the whole history, are.
regular(book, m) ==
    /\ ~book[m]
    /\ Cardinality({k \in Months \ {m} :
            m - Neighbours <= k /\ k <= m + Neighbours /\ ~book[k]}) >= Needed
salaried(book) ==
    LET regulars == Cardinality({m \in Months : regular(book, m)})
    IN regulars >= Needed /\ Mostly[2] * regulars >= Mostly[1] * Cardinality(Months)
judged(book, m) ==
    IF ~salaried(book) THEN "not pay" ELSE IF regular(book, m) THEN "paycheck" ELSE "odd pay"

InsightInit ==
    /\ ledger \in [Months -> BOOLEAN]
    /\ insight = [m \in Months |->
            IF ledger[m] THEN [of |-> seenBy(ledger, m), dismissed |-> FALSE] ELSE NoInsight]
    /\ aggregates = [m \in Months |-> seenBy(ledger, m)]
    /\ payRow = [m \in Months |-> judged(ledger, m)]
    /\ regen = [r \in Regens |-> NoRun]
    /\ rowEdits = 0
    /\ behind = {} /\ unreached = {}

\* The months an edit is taken to have changed (engine.ts, `since').
ReachOf(since) == {m \in Months : m >= since - ScopeLookback}

\* A row is edited, and the regeneration asked for from its date on.  Regens
\* that read before it are overtaken.
EditRow(t, m) ==
    /\ rowEdits < MaxEdits /\ regen[t].at = "idle"
    /\ ledger' = [ledger EXCEPT ![m] = ~@]
    /\ regen' = [r \in Regens |->
            IF r = t THEN [NoRun EXCEPT !.at = "asked", !.since = m]
            ELSE [regen[r] EXCEPT !.clean = @ /\ regen[r].at # "read"]]
    /\ rowEdits' = rowEdits + 1
    /\ unreached' = unreached \union (Months \ ReachOf(m))
    /\ UNCHANGED <<insight, aggregates, payRow, behind>>

\* The sync regenerates everything, whatever it stored.
SyncAsks ==
    /\ regen["sync"].at = "idle"
    /\ regen' = [regen EXCEPT !["sync"] = [NoRun EXCEPT !.at = "asked"]]
    /\ UNCHANGED <<ledger, insight, aggregates, payRow, rowEdits, behind, unreached>>

\* Every read of a run is made before its transaction begins.
ReadLedger(r) ==
    /\ regen[r].at = "asked"
    /\ regen' = [regen EXCEPT ![r].at = "read", ![r].seen = ledger, ![r].clean = TRUE]
    /\ UNCHANGED <<ledger, insight, aggregates, payRow, rowEdits, behind, unreached>>

scopeOf_FromEdit(since) == {m \in Months : m >= since}
scopeOf(since) == {m \in Months : m >= since - ScopeLookback}

\* The flag of the row replaced, by (type, period, identity).
carried_Never(m) == FALSE
carried(m) == insight[m] # NoInsight /\ insight[m].dismissed

ReplaceScope(r) ==
    /\ regen[r].at = "read"
    /\ LET book == regen[r].seen
           scope == scopeOf(regen[r].since)
           reach == ReachOf(regen[r].since)
       IN /\ insight' = [m \in Months |->
                IF m \notin scope THEN insight[m]
                ELSE IF book[m] THEN [of |-> seenBy(book, m), dismissed |-> carried(m)]
                ELSE NoInsight]
          /\ aggregates' = [m \in Months |->
                IF m \in scope THEN seenBy(book, m) ELSE aggregates[m]]
          /\ payRow' = [m \in Months |-> IF m \in scope THEN judged(book, m) ELSE payRow[m]]
          /\ IF regen[r].clean
               THEN behind' = behind \ reach /\ unreached' = unreached \ reach
               ELSE behind' = behind \union reach /\ UNCHANGED unreached
    /\ regen' = [regen EXCEPT ![r] = NoRun]
    /\ UNCHANGED <<ledger, rowEdits>>

\* A run killed before its transaction writes nothing: its edit waits for the
\* next run that covers it.
RunDies(r) ==
    /\ regen[r].at # "idle"
    /\ regen' = [regen EXCEPT ![r] = NoRun]
    /\ behind' = IF r = "sync" THEN behind ELSE behind \union ReachOf(regen[r].since)
    /\ UNCHANGED <<ledger, insight, aggregates, payRow, rowEdits, unreached>>

setInsightDismissed(m) ==
    /\ insight[m] # NoInsight
    /\ \E d \in BOOLEAN : insight' = [insight EXCEPT ![m].dismissed = d]
    /\ UNCHANGED <<ledger, aggregates, payRow, regen, rowEdits, behind, unreached>>

InsightNext ==
    \/ \E t \in Tabs, m \in Months : EditRow(t, m)
    \/ SyncAsks
    \/ \E r \in Regens : ReadLedger(r) \/ ReplaceScope(r) \/ RunDies(r)
    \/ \E m \in Months : setInsightDismissed(m)

InsightSpec == InsightInit /\ [][InsightNext]_nvars

\* "A scoped row is the row a full run would write" (engine.ts): with every
\* run finished, a month's rows are what the whole ledger says, whichever
\* months the edits had touched and however their runs crossed, but for a
\* month that a killed or an overtaken run covered and none has since, and
\* but for what its cash flow row says of pay in a month more than the
\* lookback before an edit.
ScopedRunsAgree ==
    (\A r \in Regens : regen[r].at = "idle") =>
        \A m \in Months \ behind :
            /\ aggregates[m] = seenBy(ledger, m)
            /\ (insight[m] # NoInsight) = ledger[m]
            /\ ledger[m] => insight[m].of = seenBy(ledger, m)
            /\ m \notin unreached => payRow[m] = judged(ledger, m)

\* A scoped run writes "only the periods the edit can have changed"
\* (insights/scope.ts): with every run finished, none killed or overtaken,
\* what the rows say of pay is what the whole ledger says.
PayAgrees ==
    (\A r \in Regens : regen[r].at = "idle") /\ behind = {} =>
        \A m \in Months : payRow[m] = judged(ledger, m)

\* "Dismissals survive regeneration" (app/insights/actions.ts): no run
\* un-dismisses an insight that it writes again.
DismissalsSurvive ==
    [][ (\E r \in Regens : ReplaceScope(r)) =>
          \A m \in Months :
            insight[m] # NoInsight /\ insight'[m] # NoInsight
                => (insight[m].dismissed => insight'[m].dismissed) ]_nvars
=============================================================================
