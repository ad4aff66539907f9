---------------------------- MODULE ServiceProofs ----------------------------
(***************************************************************************)
(* Proofs about the services beside the ledger: the insight store, the     *)
(* login, the demo's nightly reset, the usage meter, the intake of rows,   *)
(* the recurring plans and the schema upgrades, each for every value of    *)
(* its constants and every interleaving of its tabs, browsers, visitors,   *)
(* server instances, people and killed processes.                          *)
(***************************************************************************)
EXTENDS InsightStore, Access, Demo, Usage, Intake, Plans, Schema, SequenceTheorems, FiniteSetTheorems,
        WellFoundedInduction, TLAPS

-----------------------------------------------------------------------------
(* The insight store.  A month is right, or the run that an edit asked for *)
(* is still to come and will cover it; what breaks that is a run that dies *)
(* or was overtaken, and `behind' remembers its months.                    *)

\* The month's rows are what the whole ledger says.
Right(m) ==
    /\ aggregates[m] = seenBy(ledger, m)
    /\ (insight[m] # NoInsight) = ledger[m]
    /\ ledger[m] => insight[m].of = seenBy(ledger, m)
    /\ m \notin unreached => payRow[m] = judged(ledger, m)

\* An edit's run has the month in its scope.
Awaited(m) == \E t \in Tabs : regen[t].at # "idle" /\ m \in scopeOf(regen[t].since)

InsightShape ==
    /\ ledger \in [Months -> BOOLEAN]
    /\ insight \in [Months -> Insights \union {NoInsight}]
    /\ aggregates = [m \in Months |-> aggregates[m]]
    /\ payRow = [m \in Months |-> payRow[m]]
    /\ regen \in [Regens -> [at : {"idle", "asked", "read"}, since : Nat,
                             seen : [Months -> BOOLEAN] \union {<<>>}, clean : BOOLEAN]]

InsightInv ==
    /\ InsightShape
    /\ regen["sync"].since = 0
    /\ \A r \in Regens : regen[r].at = "read" =>
          regen[r].seen \in [Months -> BOOLEAN] /\ (regen[r].clean => regen[r].seen = ledger)
    /\ \A m \in Months \ behind : Right(m) \/ Awaited(m)

\* An insight just computed is an insight.
LEMMA SeenTyped ==
  ASSUME NEW book \in [Months -> BOOLEAN], NEW m \in Months, NEW d \in BOOLEAN
  PROVE  /\ [of |-> seenBy(book, m), dismissed |-> d] \in Insights
         /\ [of |-> seenBy(book, m), dismissed |-> d] # NoInsight
  <1> DEFINE S == {x \in Months : x <= m}
  <1>1. S \in SUBSET Months /\ seenBy(book, m) \in [S -> BOOLEAN]
    BY DEF seenBy
  <1> QED
    BY <1>1, InsightAssumption DEF Insights

\* A month's analyzers read no edit of a later one, the judge of pay apart.
LEMMA SeenUnread ==
  ASSUME NEW book, NEW edited, NEW m \in Months, \A k \in Months \ {m} : edited[k] = book[k],
         NEW x \in Months, x \notin scopeOf(m)
  PROVE  seenBy(edited, x) = seenBy(book, x) /\ x < m
  <1>1. x < m
    BY InsightAssumption DEF scopeOf
  <1>2. \A k \in {y \in Months : y <= x} : edited[k] = book[k]
    BY <1>1, InsightAssumption
  <1> QED
    BY <1>1, <1>2 DEF seenBy

\* At first every month is right.
LEMMA InitInsight == InsightInit => InsightInv
  <1> SUFFICES ASSUME InsightInit PROVE InsightInv
    OBVIOUS
  <1>1. \A m \in Months : Right(m)
    <2> TAKE m \in Months
    <2>1. ledger[m] => insight[m] = [of |-> seenBy(ledger, m), dismissed |-> FALSE]
      BY DEF InsightInit
    <2>2. ~ledger[m] => insight[m] = NoInsight
      BY DEF InsightInit
    <2>3. /\ ledger[m] \in BOOLEAN /\ aggregates[m] = seenBy(ledger, m)
          /\ payRow[m] = judged(ledger, m)
      BY DEF InsightInit
    <2> QED
      BY <2>1, <2>2, <2>3, SeenTyped DEF Right, InsightInit
  <1>2. InsightShape
    <2>1. insight \in [Months -> Insights \union {NoInsight}]
      BY SeenTyped DEF InsightInit
    <2> QED
      BY <2>1 DEF InsightInit, InsightShape, NoRun
  <1> QED
    BY <1>1, <1>2 DEF InsightInv, InsightInit, NoRun, Regens

\* Edits, runs and dismissals keep the invariant.
LEMMA InsightStep == InsightInv /\ [InsightNext]_nvars => InsightInv'
  <1> SUFFICES ASSUME InsightInv, [InsightNext]_nvars PROVE InsightInv'
    OBVIOUS
  <1>1. CASE UNCHANGED nvars
    BY <1>1 DEF nvars, InsightInv, InsightShape, Right, Awaited
  <1>2. ASSUME NEW t \in Tabs, NEW m \in Months, EditRow(t, m) PROVE InsightInv'
    <2> DEFINE asked == [NoRun EXCEPT !.at = "asked", !.since = m]
    <2>1. /\ ledger' = [ledger EXCEPT ![m] = ~ledger[m]]
          /\ regen[t].at = "idle"
          /\ UNCHANGED <<insight, aggregates, payRow, behind>>
          /\ unreached' = unreached \union (Months \ scopeOf(m))
      BY <1>2 DEF EditRow, ReachOf, scopeOf
    <2>2. t # "sync" /\ "sync" \in Regens /\ t \in Regens /\ m \in Nat
      BY InsightAssumption DEF Regens
    <2>3. /\ regen' \in [Regens -> [at : {"idle", "asked", "read"}, since : Nat,
                                    seen : [Months -> BOOLEAN] \union {<<>>}, clean : BOOLEAN]]
          /\ regen'[t].at = "asked" /\ regen'[t].since = m
          /\ \A r \in Regens \ {t} : /\ regen'[r].at = regen[r].at
                                     /\ regen'[r].since = regen[r].since
                                     /\ regen'[r].seen = regen[r].seen
                                     /\ regen[r].at = "read" => ~regen'[r].clean
      <3>1. asked \in [at : {"idle", "asked", "read"}, since : Nat,
                       seen : [Months -> BOOLEAN] \union {<<>>}, clean : BOOLEAN]
            /\ asked.at = "asked" /\ asked.since = m
        BY <2>2 DEF NoRun
      <3>2. regen' = [r \in Regens |->
               IF r = t THEN asked
               ELSE [regen[r] EXCEPT !.clean = regen[r].clean /\ regen[r].at # "read"]]
        BY <1>2 DEF EditRow
      <3> HIDE DEF asked
      <3> QED
        BY <2>2, <3>1, <3>2 DEF InsightInv, InsightShape
    <2>4. InsightShape'
      BY <2>1, <2>3 DEF InsightInv, InsightShape
    <2>5. ASSUME NEW x \in Months \ behind PROVE Right(x)' \/ Awaited(x)'
      <3>1. CASE x \in scopeOf(m)
        BY <2>3, <3>1 DEF Awaited
      <3>2. CASE x \notin scopeOf(m) /\ Right(x)
        <4>1. seenBy(ledger', x) = seenBy(ledger, x) /\ x < m
          <5>1. ledger \in [Months -> BOOLEAN]
            BY DEF InsightInv, InsightShape
          <5>2. \A k \in Months \ {m} : ledger'[k] = ledger[k]
            BY <2>1, <5>1
          <5>3. x \notin scopeOf(m)
            BY <3>2
          <5> QED
            BY <5>2, <5>3, SeenUnread
        <4>2. ledger'[x] = ledger[x] /\ x \in unreached'
          BY <2>1, <3>2, <4>1, InsightAssumption DEF InsightInv, InsightShape
        <4> QED
          BY <2>1, <3>2, <4>1, <4>2 DEF Right
      <3>3. CASE Awaited(x)
        BY <2>1, <2>2, <2>3, <3>3 DEF Awaited, Regens
      <3> QED
        BY <2>1, <2>5, <3>1, <3>2, <3>3 DEF InsightInv
    <2> QED
      BY <2>1, <2>2, <2>3, <2>4, <2>5 DEF InsightInv
  <1>3. ASSUME NEW r \in Regens, ReadLedger(r) \/ ReplaceScope(r) \/ RunDies(r)
        PROVE  InsightInv'
    <2>1. UNCHANGED ledger
      BY <1>3 DEF ReadLedger, ReplaceScope, RunDies
    <2>2. NoRun \in [at : {"idle", "asked", "read"}, since : Nat,
                     seen : [Months -> BOOLEAN] \union {<<>>}, clean : BOOLEAN]
          /\ NoRun.at = "idle" /\ NoRun.since = 0
      BY DEF NoRun
    <2>3. CASE ReadLedger(r)
      <3>1. /\ regen[r].at = "asked"
            /\ UNCHANGED <<insight, aggregates, payRow, behind, unreached>>
            /\ regen' = [regen EXCEPT ![r] = [regen[r] EXCEPT !.at = "read", !.seen = ledger,
                                                              !.clean = TRUE]]
        BY <2>3 DEF ReadLedger, InsightInv, InsightShape
      <3>2. /\ regen' \in [Regens -> [at : {"idle", "asked", "read"}, since : Nat,
                                      seen : [Months -> BOOLEAN] \union {<<>>},
                                      clean : BOOLEAN]]
            /\ regen'[r].seen = ledger
            /\ \A z \in Regens : regen'[z].since = regen[z].since
                                 /\ (regen'[z].at # "idle" <=> regen[z].at # "idle")
            /\ \A z \in Regens \ {r} : regen'[z] = regen[z]
        BY <3>1 DEF InsightInv, InsightShape
      <3>3. \A m \in Months : Right(m) => Right(m)'
        BY <2>1, <3>1 DEF Right
      <3>4. \A m : Awaited(m) => Awaited(m)'
        BY <3>2 DEF Awaited, Regens
      <3> QED
        BY <2>1, <3>1, <3>2, <3>3, <3>4 DEF InsightInv, InsightShape, Regens
    <2>4. CASE ReplaceScope(r)
      <3> DEFINE book == regen[r].seen
                 scope == scopeOf(regen[r].since)
                 row(m) == [of |-> seenBy(book, m), dismissed |-> carried(m)]
      <3>1. /\ regen[r].at = "read" /\ regen' = [regen EXCEPT ![r] = NoRun]
            /\ insight' = [m \in Months |-> IF m \notin scope THEN insight[m]
                                            ELSE IF book[m] THEN row(m) ELSE NoInsight]
            /\ aggregates' = [m \in Months |-> IF m \in scope THEN seenBy(book, m)
                                               ELSE aggregates[m]]
            /\ payRow' = [m \in Months |-> IF m \in scope THEN judged(book, m) ELSE payRow[m]]
            /\ IF regen[r].clean
                 THEN behind' = behind \ scope /\ unreached' = unreached \ scope
                 ELSE behind' = behind \union scope /\ UNCHANGED unreached
        BY <2>4 DEF ReplaceScope, ReachOf, scopeOf
      <3>2. /\ regen' \in [Regens -> [at : {"idle", "asked", "read"}, since : Nat,
                                      seen : [Months -> BOOLEAN] \union {<<>>},
                                      clean : BOOLEAN]]
            /\ regen'[r] = NoRun /\ \A z \in Regens \ {r} : regen'[z] = regen[z]
        BY <2>2, <3>1 DEF InsightInv, InsightShape
      <3>3. book \in [Months -> BOOLEAN] /\ (regen[r].clean => book = ledger)
        BY <3>1 DEF InsightInv
      <3>4. \A m \in Months : carried(m) \in BOOLEAN
        BY DEF carried, InsightInv, InsightShape, Insights
      <3>5. \A m \in Months : row(m) \in Insights /\ row(m) # NoInsight
        BY <3>3, <3>4, SeenTyped
      <3>6. \A m \in Months : row(m).of = seenBy(book, m)
        OBVIOUS
      <3>7. ASSUME NEW m \in Months, m \in scope, regen[r].clean PROVE Right(m)'
        <4>1. /\ aggregates'[m] = seenBy(ledger, m)
              /\ insight'[m] = IF ledger[m] THEN row(m) ELSE NoInsight
              /\ payRow'[m] = judged(ledger, m)
          BY <3>1, <3>3, <3>7
        <4>2. ledger[m] \in BOOLEAN
          BY DEF InsightInv, InsightShape
        <4> HIDE DEF row
        <4> QED
          BY <2>1, <3>3, <3>5, <3>6, <3>7, <4>1, <4>2 DEF Right
      <3>8. ASSUME NEW m \in Months, m \notin scope PROVE Right(m) => Right(m)'
        <4>1. /\ aggregates'[m] = aggregates[m] /\ insight'[m] = insight[m]
              /\ payRow'[m] = payRow[m] /\ (m \in unreached' <=> m \in unreached)
          BY <3>1, <3>8
        <4> QED
          BY <2>1, <4>1 DEF Right
      <3>9. \A m : m \notin scope /\ Awaited(m) => Awaited(m)'
        BY <3>2 DEF Awaited, Regens
      <3>10. insight' \in [Months -> Insights \union {NoInsight}]
        <4> HIDE DEF row, scope, book
        <4> QED
          BY <3>1, <3>5 DEF InsightInv, InsightShape
      <3>11. /\ aggregates' = [m \in Months |-> aggregates'[m]]
             /\ payRow' = [m \in Months |-> payRow'[m]]
        BY <3>1
      <3>12. \A m \in Months \ behind' : (m \in scope => regen[r].clean)
                                         /\ (m \notin scope => m \notin behind)
        BY <3>1
      <3>13. \A m \in Months \ behind' : Right(m)' \/ Awaited(m)'
        <4> HIDE DEF scope
        <4> QED
          BY <3>7, <3>8, <3>9, <3>12 DEF InsightInv
      <3>14. InsightShape'
        BY <2>1, <3>2, <3>10, <3>11 DEF InsightInv, InsightShape
      <3> QED
        BY <2>1, <2>2, <3>2, <3>13, <3>14 DEF InsightInv, Regens
    <2>5. CASE RunDies(r)
      <3>1. /\ regen' = [regen EXCEPT ![r] = NoRun]
            /\ UNCHANGED <<insight, aggregates, payRow, unreached>>
            /\ behind' = IF r = "sync" THEN behind ELSE behind \union scopeOf(regen[r].since)
        BY <2>5 DEF RunDies, ReachOf, scopeOf
      <3>2. /\ regen' \in [Regens -> [at : {"idle", "asked", "read"}, since : Nat,
                                      seen : [Months -> BOOLEAN] \union {<<>>},
                                      clean : BOOLEAN]]
            /\ regen'[r] = NoRun /\ \A z \in Regens \ {r} : regen'[z] = regen[z]
        BY <2>2, <3>1 DEF InsightInv, InsightShape
      <3>3. \A m \in Months : Right(m) => Right(m)'
        BY <2>1, <3>1 DEF Right
      <3>4. \A m \in Months \ behind' : m \notin behind /\ (Awaited(m) => Awaited(m)')
        BY <3>1, <3>2, InsightAssumption DEF Awaited, Regens
      <3> QED
        BY <2>1, <2>2, <3>1, <3>2, <3>3, <3>4 DEF InsightInv, InsightShape, Regens
    <2> QED
      BY <1>3, <2>3, <2>4, <2>5
  <1>4. CASE SyncAsks
    <2>1. /\ regen["sync"].at = "idle"
          /\ UNCHANGED <<ledger, insight, aggregates, payRow, behind, unreached>>
          /\ regen' = [regen EXCEPT !["sync"] = [NoRun EXCEPT !.at = "asked"]]
      BY <1>4 DEF SyncAsks
    <2>2. /\ regen' \in [Regens -> [at : {"idle", "asked", "read"}, since : Nat,
                                    seen : [Months -> BOOLEAN] \union {<<>>}, clean : BOOLEAN]]
          /\ regen'["sync"].since = 0 /\ regen'["sync"].at = "asked"
          /\ \A z \in Regens \ {"sync"} : regen'[z] = regen[z]
      BY <2>1 DEF InsightInv, InsightShape, NoRun, Regens
    <2>3. \A m : Right(m) => Right(m)'
      BY <2>1 DEF Right
    <2>4. \A m : Awaited(m) => Awaited(m)'
      BY <2>2, InsightAssumption DEF Awaited, Regens
    <2> QED
      BY <2>1, <2>2, <2>3, <2>4 DEF InsightInv, InsightShape
  <1>5. ASSUME NEW m \in Months, setInsightDismissed(m) PROVE InsightInv'
    <2>1. PICK d \in BOOLEAN : insight' = [insight EXCEPT ![m] = [insight[m] EXCEPT !.dismissed = d]]
      BY <1>5 DEF setInsightDismissed, InsightInv, InsightShape
    <2>2. /\ insight[m] # NoInsight
          /\ UNCHANGED <<ledger, aggregates, payRow, regen, behind, unreached>>
          /\ insight[m] \in Insights
      BY <1>5 DEF setInsightDismissed, InsightInv, InsightShape
    <2>3. /\ insight'[m] \in Insights /\ insight'[m].of = insight[m].of
          /\ \A x \in Months \ {m} : insight'[x] = insight[x]
          /\ insight' \in [Months -> Insights \union {NoInsight}]
      BY <2>1, <2>2 DEF InsightInv, InsightShape, Insights
    <2>4. insight'[m] # NoInsight
      BY <2>3, InsightAssumption
    <2>5. \A x \in Months : Right(x) => Right(x)'
      BY <2>2, <2>3, <2>4 DEF Right
    <2>6. \A x : Awaited(x) => Awaited(x)'
      BY <2>2 DEF Awaited
    <2> QED
      BY <2>2, <2>3, <2>5, <2>6 DEF InsightInv, InsightShape
  <1> QED
    BY <1>1, <1>2, <1>3, <1>4, <1>5 DEF InsightNext

\* With every run finished, a month's insights are what a full run over the
\* whole ledger would write, whichever months the edits touched and however
\* their scoped runs and the nightly one crossed, unless a run that covered
\* the month was killed or overtaken and none has since; what is said of pay,
\* which is judged over the whole history, unless an edit lay further ahead
\* than the lookback as well (insights/engine.ts, insights/scope.ts).
THEOREM ScopedRunsMatchFull == InsightSpec => []ScopedRunsAgree
  <1>1. InsightInv => ScopedRunsAgree
    BY DEF InsightInv, ScopedRunsAgree, Right, Awaited, Regens
  <1> QED
    BY <1>1, InitInsight, InsightStep, PTL DEF InsightSpec

\* A run that writes an insight again never un-dismisses it, also when it read
\* the ledger before the dismissal: the flag is carried in the transaction that
\* replaces the rows (insights/engine.ts).
THEOREM DismissalsCarried == InsightSpec => DismissalsSurvive
  <1>1. ASSUME NEW r \in Regens, ReplaceScope(r), NEW m \in Months,
               insight[m] # NoInsight, insight'[m] # NoInsight, insight[m].dismissed
        PROVE  insight'[m].dismissed
    <2> DEFINE book == regen[r].seen
               row == [of |-> seenBy(book, m), dismissed |-> carried(m)]
    <2>1. insight'[m] \in {insight[m], row, NoInsight}
      BY <1>1 DEF ReplaceScope
    <2>2. row.dismissed = carried(m)
      OBVIOUS
    <2>3. carried(m)
      BY <1>1 DEF carried
    <2> HIDE DEF row
    <2> QED
      BY <1>1, <2>1, <2>2, <2>3
  <1> DEFINE Carried ==
                (\E r \in Regens : ReplaceScope(r)) =>
                    \A m \in Months :
                        insight[m] # NoInsight /\ insight'[m] # NoInsight
                            => (insight[m].dismissed => insight'[m].dismissed)
  <1>2. [InsightNext]_nvars => [Carried]_nvars
    BY <1>1
  <1> QED
    BY <1>2, PTL DEF InsightSpec, DismissalsSurvive

-----------------------------------------------------------------------------
(* Logging in.  Every counter a session was opened with is at or below the *)
(* floor, and a login still to claim its code holds one above the floor it *)
(* read; every cookie dates from a code this browser proved.               *)

AccessTokens == [creds : AllCreds, until : Nat, asked : Nat]

AccessShape ==
    /\ env \in Deployments /\ time \in Nat \ {0}
    /\ floorRow \in Nat \union {NoRow}
    /\ jar \in [Browsers -> [session : AccessTokens \union {NoCookie},
                             device : AccessTokens \union {NoCookie}]]
    /\ login = [b \in Browsers |-> login[b]]
    /\ proved \in [Browsers -> [AllCreds -> Nat]]
    /\ \A b \in Browsers : \A c \in AllCreds : proved[b][c] <= time

\* What a login still to be claimed has read.
LoginOK(l) ==
    /\ l.of \in Deployments /\ l.asked \in Nat /\ l.asked <= time
    /\ l.accepted \in Nat /\ l.accepted > floorOf(l.row)

\* A session was earned by its code, or by a device that was remembered then;
\* a device is remembered by its code alone.
SessionEarned(b) ==
    LET s == jar[b].session IN
    s # NoCookie /\ s.creds[2] # 0 =>
        /\ proved[b][s.creds] # 0
        /\ s.asked - proved[b][s.creds] < DeviceAge

DeviceEarned(b) ==
    LET d == jar[b].device IN
    d # NoCookie =>
        /\ proved[b][d.creds] # 0
        /\ d.until <= proved[b][d.creds] + DeviceAge

AccessInv ==
    /\ AccessShape
    /\ \A b \in Browsers : login[b] # NoLogin => LoginOK(login[b])
    /\ \A b \in Browsers : SessionEarned(b) /\ DeviceEarned(b)
    /\ \A code \in usedCodes : code[2] \in Nat /\ code[2] <= floorOf(floorRow)
    /\ reused = {}

\* A fingerprint's second part is the deployment's second factor.
LEMMA CredsAre ==
  ASSUME NEW e \in Deployments
  PROVE  credsOf(e) \in AllCreds /\ credsOf(e)[2] = e.totp
  BY DEF credsOf, AllCreds

\* A cookie made now for a browser, and every other one left.
LEMMA CookiesSet ==
  ASSUME AccessShape, NEW b \in Browsers, NEW e \in Deployments, NEW asked \in Nat,
         NEW passed, NEW kept,
         jar' = withCookies(b, e, asked, passed, kept)
  PROVE  /\ jar' \in [Browsers -> [session : AccessTokens \union {NoCookie},
                                   device : AccessTokens \union {NoCookie}]]
         /\ jar'[b].session = token(e, SessionAge, asked)
         /\ jar'[b].device \in {token(e, DeviceAge, asked), jar[b].device}
         /\ ~enrols(passed, kept) => jar'[b].device = jar[b].device
         /\ \A z \in Browsers \ {b} : jar'[z] = jar[z]
  <1> DEFINE S == token(e, SessionAge, asked)
             D == IF enrols(passed, kept) THEN token(e, DeviceAge, asked) ELSE jar[b].device
  <1>1. S \in AccessTokens /\ token(e, DeviceAge, asked) \in AccessTokens
    BY CredsAre, AccessAssumption DEF token, AccessTokens, AccessShape
  <1>2. D \in AccessTokens \union {NoCookie}
    BY <1>1 DEF AccessShape
  <1>3. jar' = [jar EXCEPT ![b] = [session |-> S, device |-> D]]
    BY DEF withCookies
  <1> HIDE DEF S, D
  <1>4. jar'[b] = [session |-> S, device |-> D]
    BY <1>3 DEF AccessShape
  <1> QED
    BY <1>1, <1>2, <1>3, <1>4 DEF AccessShape, S, D

\* At first nobody is in.
LEMMA InitAccess == AccessInit => AccessInv
  <1> SUFFICES ASSUME AccessInit PROVE AccessInv
    OBVIOUS
  <1>1. AccessShape
    BY AccessAssumption DEF AccessInit, AccessShape
  <1> QED
    BY <1>1 DEF AccessInit, AccessInv, SessionEarned, DeviceEarned

\* Requests, responses, logins and the clock keep the invariant.
LEMMA AccessStep == AccessInv /\ [AccessNext]_avars => AccessInv'
  <1> SUFFICES ASSUME AccessInv, [AccessNext]_avars PROVE AccessInv'
    OBVIOUS
  <1>0. /\ env \in Deployments /\ time \in Nat \ {0} /\ AccessShape
        /\ jar \in [Browsers -> [session : AccessTokens \union {NoCookie},
                                 device : AccessTokens \union {NoCookie}]]
        /\ proved \in [Browsers -> [AllCreds -> Nat]]
    BY DEF AccessInv, AccessShape
  <1>1. CASE UNCHANGED avars
    BY <1>1 DEF avars, AccessInv, AccessShape, LoginOK, SessionEarned, DeviceEarned
  <1>2. ASSUME NEW b \in Browsers, NEW kept \in BOOLEAN, LoginByPassword(b, kept)
        PROVE  AccessInv'
    <2>1. /\ UNCHANGED <<env, time, floorRow, login, proved, usedCodes, reused>>
          /\ jar' = withCookies(b, env, time, FALSE, kept)
          /\ ~isTotpConfigured(env) \/ verified(jar[b].device)
      BY <1>2 DEF LoginByPassword
    <2>2. /\ jar' \in [Browsers -> [session : AccessTokens \union {NoCookie},
                                    device : AccessTokens \union {NoCookie}]]
          /\ jar'[b].session = token(env, SessionAge, time)
          /\ jar'[b].device = jar[b].device
          /\ \A z \in Browsers \ {b} : jar'[z] = jar[z]
      BY <1>0, <2>1, CookiesSet DEF enrols
    <2>3. jar'[b].session.creds = credsOf(env) /\ jar'[b].session.asked = time
      BY <2>2 DEF token
    <2>4. SessionEarned(b)'
      <3>1. CASE ~isTotpConfigured(env)
        BY <1>0, <2>3, <3>1, CredsAre DEF isTotpConfigured, SessionEarned
      <3>2. CASE verified(jar[b].device)
        <4>1. /\ jar[b].device # NoCookie /\ time < jar[b].device.until
              /\ jar[b].device.creds = credsOf(env)
          BY <3>2 DEF verified
        <4>2. /\ proved[b][credsOf(env)] # 0
              /\ jar[b].device.until <= proved[b][credsOf(env)] + DeviceAge
          BY <4>1 DEF AccessInv, DeviceEarned
        <4>3. jar[b].device.until \in Nat /\ proved[b][credsOf(env)] \in Nat
          BY <1>0, <4>1, CredsAre DEF AccessTokens
        <4>4. time - proved[b][credsOf(env)] < DeviceAge
          BY <1>0, <4>1, <4>2, <4>3, AccessAssumption
        <4> QED
          BY <2>1, <2>3, <4>2, <4>4 DEF SessionEarned
      <3> QED
        BY <2>1, <3>1, <3>2
    <2>5. ASSUME NEW z \in Browsers PROVE SessionEarned(z)' /\ DeviceEarned(z)'
      <3>1. SessionEarned(z) /\ DeviceEarned(z)
        BY DEF AccessInv
      <3>2. jar'[z].device = jar[z].device /\ proved' = proved
        BY <2>1, <2>2
      <3>3. DeviceEarned(z)'
        BY <3>1, <3>2 DEF DeviceEarned
      <3>4. CASE z = b
        BY <2>4, <3>3, <3>4
      <3>5. CASE z # b
        <4>1. jar'[z] = jar[z]
          BY <2>2, <3>5
        <4>2. SessionEarned(z)'
          BY <3>1, <3>2, <4>1 DEF SessionEarned
        <4> QED
          BY <3>3, <4>2
      <3> QED
        BY <3>4, <3>5
    <2>6. AccessShape'
      BY <2>1, <2>2 DEF AccessInv, AccessShape
    <2> QED
      BY <2>1, <2>5, <2>6 DEF AccessInv, LoginOK
  <1>3. ASSUME NEW b \in Browsers, NEW kept \in BOOLEAN, NEW counter \in 1 .. MaxTime,
               PresentCode(b, counter, kept)
        PROVE  AccessInv'
    <2> DEFINE l == [asked |-> time, row |-> floorRow, accepted |-> counter,
                     of |-> env, remember |-> kept]
    <2>1. /\ UNCHANGED <<env, time, floorRow, jar, proved, usedCodes, reused>>
          /\ login' = [login EXCEPT ![b] = l]
          /\ counter > floorOf(floorRow)
      BY <1>3 DEF PresentCode, verifyTotp
    <2>2. LoginOK(l)
      BY <1>0, <2>1, AccessAssumption DEF LoginOK
    <2> HIDE DEF l
    <2>3. login' = [z \in Browsers |-> login'[z]]
      BY <2>1 DEF AccessInv, AccessShape
    <2>4. \A z \in Browsers : login'[z] = IF z = b THEN l ELSE login[z]
      BY <2>1 DEF AccessInv, AccessShape
    <2>5. ASSUME NEW z \in Browsers, login'[z] # NoLogin PROVE LoginOK(login[z])'
      <3>1. CASE z = b
        BY <2>1, <2>2, <2>4, <3>1 DEF LoginOK
      <3>2. CASE z # b
        <4>1. login'[z] = login[z] /\ LoginOK(login[z])
          BY <2>4, <2>5, <3>2 DEF AccessInv
        <4> QED
          BY <2>1, <4>1 DEF LoginOK
      <3> QED
        BY <3>1, <3>2
    <2>6. AccessShape'
      BY <2>1, <2>3 DEF AccessInv, AccessShape
    <2> QED
      BY <2>1, <2>5, <2>6 DEF AccessInv, SessionEarned, DeviceEarned
  <1>4. ASSUME NEW b \in Browsers, Claim(b) PROVE AccessInv'
    <2> DEFINE l == login[b]
               code == <<l.of.totp, l.accepted>>
    <2>1. /\ l # NoLogin /\ UNCHANGED <<env, time>>
          /\ login' = [login EXCEPT ![b] = NoLogin]
      BY <1>4 DEF Claim
    <2>2. LoginOK(l)
      BY <2>1 DEF AccessInv
    <2>3. /\ login' = [z \in Browsers |-> login'[z]]
          /\ \A z \in Browsers : login'[z] \in {login[z], NoLogin}
      BY <2>1 DEF AccessInv, AccessShape
    <2>4. \A z \in Browsers : login'[z] # NoLogin => LoginOK(login[z])'
      BY <2>1, <2>3 DEF AccessInv, LoginOK
    <2>5. CASE ~claimed(l.row)
      <3>1. UNCHANGED <<floorRow, jar, proved, usedCodes, reused>>
        BY <1>4, <2>5 DEF Claim
      <3>2. AccessShape'
        BY <2>1, <2>3, <3>1 DEF AccessInv, AccessShape
      <3> QED
        BY <2>4, <3>1, <3>2 DEF AccessInv, SessionEarned, DeviceEarned
    <2>6. CASE claimed(l.row)
      <3>1. /\ floorRow' = l.accepted /\ floorRow = l.row
            /\ jar' = withCookies(b, l.of, l.asked, TRUE, l.remember)
            /\ proved' = [proved EXCEPT ![b] = [proved[b] EXCEPT ![credsOf(l.of)] = time]]
            /\ usedCodes' = usedCodes \union {code}
            /\ reused' = reused \union (usedCodes \cap {code})
        BY <1>4, <2>6 DEF Claim, claimed
      <3> DEFINE c == credsOf(l.of)
      <3>2. c \in AllCreds /\ l.asked \in Nat /\ l.accepted \in Nat
        BY <2>2, CredsAre DEF LoginOK
      <3>3. /\ jar' \in [Browsers -> [session : AccessTokens \union {NoCookie},
                                      device : AccessTokens \union {NoCookie}]]
            /\ jar'[b].session = token(l.of, SessionAge, l.asked)
            /\ jar'[b].device \in {token(l.of, DeviceAge, l.asked), jar[b].device}
            /\ \A z \in Browsers \ {b} : jar'[z] = jar[z]
        <4>1. l.of \in Deployments
          BY <2>2 DEF LoginOK
        <4>2. jar' = withCookies(b, l.of, l.asked, TRUE, l.remember)
          BY <3>1
        <4> HIDE DEF l
        <4>3. /\ jar' \in [Browsers -> [session : AccessTokens \union {NoCookie},
                                        device : AccessTokens \union {NoCookie}]]
              /\ jar'[b].session = token(l.of, SessionAge, l.asked)
              /\ jar'[b].device \in {token(l.of, DeviceAge, l.asked), jar[b].device}
              /\ \A z \in Browsers \ {b} : jar'[z] = jar[z]
          BY <1>0, <3>2, <4>1, <4>2, CookiesSet
        <4> QED
          BY <4>3
      <3>4. /\ proved' \in [Browsers -> [AllCreds -> Nat]]
            /\ proved'[b][c] = time
            /\ \A d \in AllCreds \ {c} : proved'[b][d] = proved[b][d]
            /\ \A z \in Browsers \ {b} : proved'[z] = proved[z]
        BY <1>0, <3>1, <3>2
      <3>5. \A z \in Browsers : \A d \in AllCreds :
               /\ proved'[z][d] <= time /\ proved[z][d] <= proved'[z][d]
               /\ proved[z][d] \in Nat /\ proved'[z][d] \in Nat
        <4> SUFFICES ASSUME NEW z \in Browsers, NEW d \in AllCreds
                     PROVE  /\ proved'[z][d] <= time /\ proved[z][d] <= proved'[z][d]
                            /\ proved[z][d] \in Nat /\ proved'[z][d] \in Nat
          OBVIOUS
        <4>1. proved[z][d] \in Nat /\ proved'[z][d] \in Nat /\ time \in Nat
          BY <1>0, <3>4
        <4>2. proved[z][d] <= time
          BY <1>0 DEF AccessShape
        <4>3. proved'[z][d] \in {time, proved[z][d]}
          BY <3>4
        <4> QED
          BY <4>1, <4>2, <4>3
      <3>6. AccessShape'
        <4>1. /\ env' \in Deployments /\ time' \in Nat \ {0} /\ time' = time
              /\ floorRow' \in Nat \union {NoRow}
          BY <1>0, <2>1, <3>1, <3>2
        <4> HIDE DEF l, c
        <4> QED
          BY <2>3, <3>3, <3>4, <3>5, <4>1 DEF AccessShape
      <3>7. SessionEarned(b)'
        <4>1. jar'[b].session.creds = c /\ jar'[b].session.asked = l.asked
          BY <3>3 DEF token
        <4>2. QED
          <5>1. l.asked - time < DeviceAge /\ time # 0
            BY <1>0, <2>2, <3>2, AccessAssumption DEF LoginOK
          <5> HIDE DEF l, c
          <5>2. proved'[b][jar'[b].session.creds] = time
            BY <3>4, <4>1
          <5> QED
            BY <4>1, <5>1, <5>2 DEF SessionEarned
      <3>8. DeviceEarned(b)'
        <4>1. CASE jar'[b].device = token(l.of, DeviceAge, l.asked)
          <5>1. jar'[b].device.creds = c /\ jar'[b].device.until = time + DeviceAge
            BY <4>1 DEF token
          <5> QED
            BY <1>0, <3>4, <5>1, AccessAssumption DEF DeviceEarned
        <4>2. CASE jar'[b].device = jar[b].device /\ jar[b].device # NoCookie
          <5>1. jar[b].device.creds \in AllCreds /\ jar[b].device.until \in Nat
            BY <1>0, <4>2 DEF AccessTokens
          <5>2. /\ proved[b][jar[b].device.creds] # 0
                /\ jar[b].device.until <= proved[b][jar[b].device.creds] + DeviceAge
            BY <4>2 DEF AccessInv, DeviceEarned
          <5> QED
            BY <3>5, <4>2, <5>1, <5>2, AccessAssumption DEF DeviceEarned
        <4> QED
          BY <3>3, <4>1, <4>2 DEF DeviceEarned
      <3>9. \A z \in Browsers \ {b} : SessionEarned(z)' /\ DeviceEarned(z)'
        BY <3>3, <3>4 DEF AccessInv, SessionEarned, DeviceEarned
      <3>10. l.accepted > floorOf(floorRow) /\ floorOf(floorRow') = l.accepted
        BY <2>2, <3>1, <3>2, AccessAssumption DEF LoginOK, floorOf
      <3>11. floorOf(floorRow) \in Nat
        BY AccessAssumption DEF AccessInv, AccessShape, floorOf
      <3>12. \A used \in usedCodes : used[2] \in Nat /\ used[2] < l.accepted
        BY <3>2, <3>10, <3>11 DEF AccessInv
      <3>13. code[2] = l.accepted
        OBVIOUS
      <3>14. code \notin usedCodes
        BY <3>2, <3>12, <3>13
      <3> HIDE DEF code
      <3>15. \A used \in usedCodes' : used[2] \in Nat /\ used[2] <= floorOf(floorRow')
        BY <3>1, <3>2, <3>10, <3>12, <3>13
      <3>16. reused' = {}
        BY <3>1, <3>14 DEF AccessInv
      <3> QED
        BY <2>4, <3>6, <3>7, <3>8, <3>9, <3>15, <3>16 DEF AccessInv
    <2> QED
      BY <2>5, <2>6
  <1>5. ASSUME NEW b \in Browsers, logout(b) PROVE AccessInv'
    <2>1. /\ UNCHANGED <<env, time, floorRow, login, proved, usedCodes, reused>>
          /\ jar' = [jar EXCEPT ![b] = [jar[b] EXCEPT !.session = NoCookie]]
      BY <1>5 DEF logout
    <2>2. /\ jar' \in [Browsers -> [session : AccessTokens \union {NoCookie},
                                    device : AccessTokens \union {NoCookie}]]
          /\ jar'[b].session = NoCookie /\ jar'[b].device = jar[b].device
          /\ \A z \in Browsers \ {b} : jar'[z] = jar[z]
      BY <1>0, <2>1
    <2>3. \A z \in Browsers : SessionEarned(z)' /\ DeviceEarned(z)'
      BY <2>1, <2>2 DEF AccessInv, SessionEarned, DeviceEarned
    <2>4. AccessShape'
      BY <2>1, <2>2 DEF AccessInv, AccessShape
    <2> QED
      BY <2>1, <2>3, <2>4 DEF AccessInv, LoginOK
  <1>6. CASE (\E e \in Deployments : Redeploy(e)) \/ TimePasses
    <2>1. /\ UNCHANGED <<floorRow, jar, login, proved, usedCodes, reused>>
          /\ env' \in Deployments /\ time' \in Nat \ {0} /\ time <= time'
      BY <1>0, <1>6 DEF Redeploy, TimePasses
    <2>2. AccessShape'
      BY <1>0, <2>1 DEF AccessInv, AccessShape
    <2>3. \A l : LoginOK(l) => LoginOK(l)'
      BY <1>0, <2>1 DEF LoginOK
    <2> QED
      BY <2>1, <2>2, <2>3 DEF AccessInv, SessionEarned, DeviceEarned
  <1> QED
    BY <1>1, <1>2, <1>3, <1>4, <1>5, <1>6 DEF AccessNext

\* No code opens two sessions, however many logins present it at once and
\* however the credentials are rotated meanwhile; and no page is served but to
\* a session of the credentials in force, whose second factor this browser
\* proved within the time a device is remembered, so that a remembered login
\* never renews what it was remembered by (login/actions.ts, lib/auth/*,
\* middleware.ts).
THEOREM SessionsEarned == AccessSpec => []SessionsAreEarned
  <1>1. AccessInv => SessionsAreEarned
    <2> SUFFICES ASSUME AccessInv PROVE SessionsAreEarned
      OBVIOUS
    <2>1. ASSUME NEW b \in Browsers, gate(b, TRUE, FALSE, TRUE) = "served", isAuthEnabled(env)
          PROVE  LET s == jar[b].session
                     when == proved[b][credsOf(env)]
                 IN /\ s # NoCookie /\ s.creds = credsOf(env)
                    /\ env.totp # 0 => when # 0 /\ s.asked - when < DeviceAge
      <3>1. verified(jar[b].session)
        BY <2>1 DEF gate
      <3>2. env.totp = credsOf(env)[2]
        BY DEF credsOf
      <3> QED
        BY <3>1, <3>2 DEF verified, AccessInv, SessionEarned
    <2>2. OneUseCodes
      BY DEF AccessInv, OneUseCodes
    <2> QED
      BY <2>1, <2>2 DEF SessionsAreEarned, SecondFactorRecent, isAuthEnabled, isTotpConfigured
  <1> QED
    BY <1>1, InitAccess, AccessStep, PTL DEF AccessSpec

-----------------------------------------------------------------------------
(* The demo's reset.  What is recorded as the reset's work names, table by  *)
(* table, the data that was found there after the writing.                 *)

\* Every wiped place has the data of the run's plan, or is still to be written.
Planned ==
    \A p \in wiped :
        \/ demo[p].seed = reset.plan
        \/ \E i \in 1 .. Len(reset.left) : p \in placesOf(reset.left[i])

DemoShape ==
    /\ demo = [p \in Places |-> [seed |-> demo[p].seed, by |-> demo[p].by]]
    /\ reset = [at |-> reset.at, left |-> reset.left, plan |-> reset.plan,
                digest |-> reset.digest]
    /\ reset.at # "idle" => reset.plan = <<reset.plan[1], reset.plan[2]>>
    /\ reset.at \in {"wiping", "writing"} =>
          reset.left \in Seq(Range(Tables) \union {"Setting"}) /\ reset.left # <<>>

DemoInv ==
    /\ DemoShape
    /\ reset.at = "writing" => Planned
    /\ reset.at = "reading" => \A p \in wiped : demo[p].seed = reset.plan
    /\ reset.at = "recording" => \A p \in wiped : reset.digest[p][1] = reset.plan
    /\ record # NoRecord =>
          \A p \in wiped : record.digest[p][1] = <<record.month, record.release>>

\* A table is cleared or filled, and nothing else is.
LEMMA StepsAre ==
  /\ steps \in Seq(Range(Tables) \union {"Setting"}) /\ steps # <<>>
  /\ Len(steps) = Len(Tables) + 1 /\ steps[Len(Tables) + 1] = "Setting"
  /\ \A i \in 1 .. Len(Tables) : steps[i] = Tables[i]
  BY DemoAssumption DEF steps

\* Every wiped place is in one of the statements.
LEMMA StepsCover ==
  ASSUME NEW p \in wiped
  PROVE  \E i \in 1 .. Len(steps) : p \in placesOf(steps[i])
  <1>1. Len(steps) = Len(Tables) + 1 /\ steps[Len(Tables) + 1] = "Setting"
    BY StepsAre
  <1>2. CASE p \in Range(Tables)
    <2>1. PICK i \in 1 .. Len(Tables) : p = Tables[i]
      BY <1>2, DemoAssumption DEF Range
    <2>2. steps[i] = p /\ p # "Setting" /\ i \in 1 .. Len(steps)
      BY <1>1, <1>2, <2>1, StepsAre, DemoAssumption
    <2>3. p \in placesOf(steps[i])
      BY <2>2 DEF placesOf
    <2> QED
      BY <2>2, <2>3
  <1>3. CASE p \in VisitorKeys \intersect wipedKeys
    BY <1>1, <1>3, DemoAssumption DEF placesOf
  <1> QED
    BY <1>1, <1>2, <1>3 DEF wiped

\* A statement done leaves the ones after it.
LEMMA Advanced ==
  ASSUME DemoShape, reset.at \in {"wiping", "writing"},
         NEW next, NEW todo, advance(next, todo)
  PROVE  /\ reset' = [at |-> reset'.at, left |-> reset'.left, plan |-> reset'.plan,
                      digest |-> reset'.digest]
         /\ reset'.plan = reset.plan
         /\ Len(reset.left) = 1 => reset'.at = next /\ reset'.left = todo
         /\ Len(reset.left) # 1 =>
              /\ reset'.at = reset.at /\ reset'.left = Tail(reset.left)
              /\ Tail(reset.left) \in Seq(Range(Tables) \union {"Setting"})
              /\ Tail(reset.left) # <<>>
  <1>1. {"at", "left", "plan", "digest"} = DOMAIN reset
    BY DEF DemoShape
  <1>2. reset.left \in Seq(Range(Tables) \union {"Setting"}) /\ reset.left # <<>>
    BY DEF DemoShape
  <1>3. CASE Len(reset.left) = 1
    <2>1. reset' = [reset EXCEPT !.at = next, !.left = todo]
      BY <1>3 DEF advance
    <2> QED
      BY <1>1, <1>3, <2>1
  <1>4. CASE Len(reset.left) # 1
    <2>1. reset' = [reset EXCEPT !.left = Tail(reset.left)]
      BY <1>4 DEF advance
    <2>2. /\ Tail(reset.left) \in Seq(Range(Tables) \union {"Setting"})
          /\ Tail(reset.left) # <<>>
      <3> DEFINE S == Range(Tables) \union {"Setting"}
                 left == reset.left
      <3>1. left \in Seq(S) /\ left # <<>> /\ Len(left) # 1
        BY <1>2, <1>4
      <3> HIDE DEF S, left
      <3>2. Tail(left) \in Seq(S) /\ Len(Tail(left)) = Len(left) - 1
        BY <3>1, HeadTailProperties
      <3>3. Len(left) \in Nat \ {0} /\ Len(<<>>) = 0
        BY <3>1, EmptySeq
      <3>4. Tail(left) # <<>>
        <4> SUFFICES ASSUME Tail(left) = <<>> PROVE FALSE
          OBVIOUS
        <4>1. Len(Tail(left)) = 0
          BY <3>3
        <4>2. Len(left) - 1 = 0
          BY <3>2, <4>1
        <4>3. \A n \in Nat : n - 1 = 0 => n = 1
          OBVIOUS
        <4>4. Len(left) = 1
          BY <3>3, <4>2, <4>3
        <4> QED
          BY <3>1, <4>4
      <3> QED
        BY <3>2, <3>4 DEF S, left
    <2> QED
      BY <1>1, <1>4, <2>1, <2>2
  <1> QED
    BY <1>3, <1>4

\* The demo starts reset.
LEMMA InitDemo == DemoInit => DemoInv
  BY DEF DemoInit, DemoInv, DemoShape, AtRest, Empty

\* Visitors, the nightly run and its stops keep the invariant.
LEMMA DemoStep == DemoInv /\ [DemoNext]_dvars => DemoInv'
  <1> SUFFICES ASSUME DemoInv, [DemoNext]_dvars PROVE DemoInv'
    OBVIOUS
  <1>1. /\ DemoShape /\ wiped \subseteq Places
        /\ demo = [p \in Places |-> [seed |-> demo[p].seed, by |-> demo[p].by]]
    BY DEF DemoInv, DemoShape, wiped, Places
  <1>2. CASE UNCHANGED dvars
    BY <1>2 DEF dvars, DemoInv, DemoShape, Planned
  <1>3. CASE NewMonth \/ NewRelease
    BY <1>3 DEF NewMonth, NewRelease, DemoInv, DemoShape, Planned
  <1>4. ASSUME NEW q \in Places, VisitorChanges(q) PROVE DemoInv'
    <2>1. demo' = [demo EXCEPT ![q] = [demo[q] EXCEPT !.by = "new"]]
      BY <1>4 DEF VisitorChanges
    <2>2. UNCHANGED <<record, reset>>
      BY <1>4 DEF VisitorChanges
    <2>3. demo[q] = [seed |-> demo[q].seed, by |-> demo[q].by]
      BY <1>1
    <2>4. demo'[q] = [seed |-> demo[q].seed, by |-> "new"]
      BY <1>1, <2>1, <2>3
    <2>5. /\ demo' = [p \in Places |-> [seed |-> demo'[p].seed, by |-> demo'[p].by]]
          /\ \A p \in Places : demo'[p].seed = demo[p].seed
      BY <1>1, <2>1, <2>4
    <2> QED
      BY <1>1, <2>2, <2>5 DEF DemoInv, DemoShape, Planned
  <1>5. CASE CronDecides
    <2>1. /\ reset' = [AtRest EXCEPT !.at = "wiping", !.left = Reverse(steps), !.plan = plan]
          /\ UNCHANGED record
      BY <1>5 DEF CronDecides
    <2>2. demo' = [p \in Places |-> [demo[p] EXCEPT !.by = IF @ = "new" THEN "old" ELSE @]]
      BY <1>5 DEF CronDecides
    <2>3. \A p \in Places : demo'[p] = [seed |-> demo'[p].seed, by |-> demo'[p].by]
      BY <1>1, <2>2
    <2>4. demo' = [p \in Places |-> [seed |-> demo'[p].seed, by |-> demo'[p].by]]
      BY <2>2, <2>3
    <2>5. Reverse(steps) \in Seq(Range(Tables) \union {"Setting"}) /\ Reverse(steps) # <<>>
      <3>1. \A s \in Seq(Range(Tables) \union {"Setting"}) :
               s # <<>> => /\ Reverse(s) \in Seq(Range(Tables) \union {"Setting"})
                           /\ Reverse(s) # <<>>
        BY DEF Reverse
      <3> QED
        BY <3>1, StepsAre
    <2>6. /\ reset'.at = "wiping" /\ reset'.left = Reverse(steps) /\ reset'.plan = plan
          /\ reset' = [at |-> reset'.at, left |-> reset'.left, plan |-> reset'.plan,
                       digest |-> reset'.digest]
      BY <2>1 DEF AtRest
    <2>7. plan = <<plan[1], plan[2]>>
      BY DEF plan
    <2> QED
      BY <2>1, <2>4, <2>5, <2>6, <2>7 DEF DemoInv, DemoShape
  <1>6. CASE Wipe
    <2> DEFINE head == placesOf(Head(reset.left))
    <2>1. /\ reset.at = "wiping" /\ advance("writing", steps) /\ UNCHANGED record
          /\ demo' = [p \in Places |-> IF p \in head THEN Empty ELSE demo[p]]
      BY <1>6 DEF Wipe
    <2>2. demo' = [p \in Places |-> [seed |-> demo'[p].seed, by |-> demo'[p].by]]
      <3> HIDE DEF head
      <3> QED
        BY <1>1, <2>1 DEF Empty
    <2>3. DemoShape' /\ reset'.at \in {"wiping", "writing"}
      <3>1. /\ reset' = [at |-> reset'.at, left |-> reset'.left, plan |-> reset'.plan,
                         digest |-> reset'.digest]
            /\ reset'.plan = reset.plan
            /\ Len(reset.left) = 1 => reset'.at = "writing" /\ reset'.left = steps
            /\ Len(reset.left) # 1 =>
                  /\ reset'.at = "wiping" /\ reset'.left = Tail(reset.left)
                  /\ Tail(reset.left) \in Seq(Range(Tables) \union {"Setting"})
                  /\ Tail(reset.left) # <<>>
        BY <1>1, <2>1, Advanced
      <3>2. reset.plan = <<reset.plan[1], reset.plan[2]>>
        BY <1>1, <2>1 DEF DemoShape
      <3>3. steps \in Seq(Range(Tables) \union {"Setting"}) /\ steps # <<>>
        BY StepsAre
      <3> QED
        BY <2>2, <3>1, <3>2, <3>3 DEF DemoShape
    <2>4. reset'.at = "writing" => reset'.left = steps
      BY <1>1, <2>1, Advanced
    <2>5. reset'.at = "writing" => Planned'
      BY <2>4, StepsCover DEF Planned, wiped, placesOf
    <2> QED
      BY <2>1, <2>3, <2>5 DEF DemoInv
  <1>7. CASE WriteDemoData
    <2> DEFINE head == placesOf(Head(reset.left))
    <2>1. /\ reset.at = "writing" /\ advance("reading", <<>>) /\ UNCHANGED record
          /\ demo' = [p \in Places |->
                IF p \in head THEN [demo[p] EXCEPT !.seed = reset.plan] ELSE demo[p]]
      BY <1>7 DEF WriteDemoData
    <2>2. /\ demo' = [p \in Places |-> [seed |-> demo'[p].seed, by |-> demo'[p].by]]
          /\ \A p \in Places : demo'[p].seed = IF p \in head THEN reset.plan ELSE demo[p].seed
      <3> HIDE DEF head
      <3> QED
        BY <1>1, <2>1
    <2>3. DemoShape' /\ reset'.at \in {"writing", "reading"} /\ reset'.plan = reset.plan
      <3>1. /\ reset' = [at |-> reset'.at, left |-> reset'.left, plan |-> reset'.plan,
                         digest |-> reset'.digest]
            /\ reset'.plan = reset.plan
            /\ Len(reset.left) = 1 => reset'.at = "reading"
            /\ Len(reset.left) # 1 =>
                  /\ reset'.at = "writing" /\ reset'.left = Tail(reset.left)
                  /\ Tail(reset.left) \in Seq(Range(Tables) \union {"Setting"})
                  /\ Tail(reset.left) # <<>>
        BY <1>1, <2>1, Advanced
      <3>2. reset.plan = <<reset.plan[1], reset.plan[2]>>
        BY <1>1, <2>1 DEF DemoShape
      <3> QED
        BY <2>2, <3>1, <3>2 DEF DemoShape
    <2>4. reset.left \in Seq(Range(Tables) \union {"Setting"}) /\ reset.left # <<>> /\ Planned
      BY <2>1 DEF DemoInv, DemoShape
    <2>5. ASSUME NEW p \in wiped
          PROVE  \/ demo'[p].seed = reset.plan
                 \/ \E i \in 2 .. Len(reset.left) : p \in placesOf(reset.left[i])
      <3>1. \/ demo[p].seed = reset.plan
            \/ \E i \in 1 .. Len(reset.left) : p \in placesOf(reset.left[i])
        BY <2>4 DEF Planned
      <3>2. Head(reset.left) = reset.left[1]
        BY <2>4
      <3> QED
        BY <1>1, <2>2, <2>4, <3>1, <3>2
    <2>6. CASE Len(reset.left) = 1
      <3>1. reset'.at = "reading"
        BY <1>1, <2>1, <2>6, Advanced
      <3>2. \A p \in wiped : demo'[p].seed = reset.plan
        BY <2>5, <2>6
      <3> QED
        BY <2>1, <2>3, <3>1, <3>2 DEF DemoInv, wiped
    <2>7. CASE Len(reset.left) # 1
      <3>1. reset'.at = "writing" /\ reset'.left = Tail(reset.left)
        BY <1>1, <2>1, <2>7, Advanced
      <3>2. ASSUME NEW i \in 2 .. Len(reset.left)
            PROVE  i - 1 \in 1 .. Len(Tail(reset.left)) /\ Tail(reset.left)[i - 1] = reset.left[i]
        BY <2>4, HeadTailProperties
      <3>3. Planned'
        <4> SUFFICES ASSUME NEW p \in wiped, demo'[p].seed # reset.plan
                     PROVE  \E i \in 1 .. Len(reset'.left) : p \in placesOf(reset'.left[i])
          BY <2>3 DEF Planned, wiped, placesOf
        <4>1. PICK i \in 2 .. Len(reset.left) : p \in placesOf(reset.left[i])
          BY <2>5
        <4> QED
          BY <3>1, <3>2, <4>1
      <3> QED
        BY <2>1, <2>3, <3>1, <3>3 DEF DemoInv
    <2> QED
      BY <2>6, <2>7
  <1>8. CASE ReadDigest
    <2>1. /\ reset.at = "reading" /\ UNCHANGED <<demo, record>>
          /\ reset' = [reset EXCEPT !.at = "recording", !.digest = digestOf(demo)]
      BY <1>8 DEF ReadDigest
    <2>2. /\ reset'.at = "recording" /\ reset'.digest = digestOf(demo)
          /\ reset'.plan = reset.plan
          /\ reset' = [at |-> reset'.at, left |-> reset'.left, plan |-> reset'.plan,
                       digest |-> reset'.digest]
      BY <1>1, <2>1 DEF DemoShape
    <2>3. \A p \in wiped : digestOf(demo)[p][1] = reset.plan
      BY <1>1, <2>1 DEF DemoInv, digestOf
    <2> QED
      BY <2>1, <2>2, <2>3 DEF DemoInv, DemoShape, wiped
  <1>9. CASE RecordDemoReset
    <2>1. reset.at = "recording" /\ record' = recordOf(reset) /\ reset' = AtRest /\ UNCHANGED demo
      BY <1>9 DEF RecordDemoReset
    <2>2. \A p \in wiped : record'.digest[p][1] = <<record'.month, record'.release>>
      BY <2>1 DEF recordOf, DemoInv, DemoShape
    <2> QED
      BY <2>1, <2>2 DEF DemoInv, DemoShape, AtRest, wiped
  <1>10. CASE ResetStops
    <2>1. reset' = AtRest /\ UNCHANGED <<demo, record>>
      BY <1>10 DEF ResetStops
    <2> QED
      BY <2>1 DEF DemoInv, DemoShape, AtRest, wiped
  <1> QED
    BY <1>2, <1>3, <1>4, <1>5, <1>6, <1>7, <1>8, <1>9, <1>10 DEF DemoNext

\* A demo that a stopped reset left with tables missing, or with the data of
\* an earlier month or release, is never taken for an unchanged one, whatever
\* visitors change while the reset runs and wherever it is stopped, so the
\* next cron that is not held resets it (demo/reseed.ts, demo/resetDue.ts).
THEOREM HalfResetIsDue == DemoSpec => []NotDueIsWhole
  <1>1. DemoInv => NotDueIsWhole
    <2> SUFFICES ASSUME DemoInv, ~demoResetDue, NEW p \in wiped PROVE demo[p].seed = plan
      BY DEF NotDueIsWhole
    <2>1. /\ record # NoRecord /\ record.release = release /\ record.month = month
          /\ digestOf(demo) = record.digest
      BY DEF demoResetDue, resetDueUnseen
    <2>2. digestOf(demo)[p][1] = demo[p].seed
      BY DEF digestOf, wiped, Places
    <2> QED
      BY <2>1, <2>2 DEF DemoInv, plan
  <1> QED
    BY <1>1, InitDemo, DemoStep, PTL DEF DemoSpec

-----------------------------------------------------------------------------
(* Folds over a finite set.  A fold of the library is a recursive function  *)
(* on the subsets; that there is one is shown on the well-founded order of   *)
(* finite sets.                                                              *)

\* A set of finite sets has one that has no smaller in it.
LEMMA SmallestOf ==
  ASSUME NEW S, IsFiniteSet(S), NEW Bad \in SUBSET (SUBSET S), Bad # {}
  PROVE  \E T \in Bad : \A U \in SUBSET T : U # T => U \notin Bad
  <1>1. Bad \subseteq FiniteSubsetsOf(S)
    BY FS_Subset DEF FiniteSubsetsOf
  <1>2. PICK T \in Bad : \A V \in Bad : <<V, T>> \notin StrictSubsetOrdering(S)
    BY <1>1, FS_StrictSubsetOrderingWellFounded, WFMin
  <1>3. ASSUME NEW U \in SUBSET T, U # T, U \in Bad PROVE FALSE
    BY <1>2, <1>3 DEF StrictSubsetOrdering
  <1> QED
    BY <1>2, <1>3

\* Folded of f: f folds step from base over the subsets of S, in pick's order.
Folded(f, S, pick, step, base) ==
    f = [s \in SUBSET S |-> IF s = {} THEN base ELSE step[<<pick[s], f[s \ {pick[s]}]>>]]

Picks(pick, S) == \A s \in SUBSET S : s # {} => pick[s] \in s

\* Folds of one step agree wherever both are defined.
LEMMA FoldsAgree ==
  ASSUME NEW S, IsFiniteSet(S), NEW A \in SUBSET S, NEW B \in SUBSET S,
         NEW pick, Picks(pick, S), NEW step, NEW base,
         NEW f, NEW h, Folded(f, A, pick, step, base), Folded(h, B, pick, step, base),
         NEW s \in SUBSET A, s \in SUBSET B
  PROVE  f[s] = h[s]
  <1> DEFINE Bad == {T \in SUBSET S : T \subseteq A /\ T \subseteq B /\ f[T] # h[T]}
  <1> SUFFICES ASSUME Bad # {} PROVE FALSE
    BY DEF Bad
  <1>1. PICK T \in Bad : \A U \in SUBSET T : U # T => U \notin Bad
    <2> HIDE DEF Bad
    <2>1. Bad \in SUBSET (SUBSET S)
      BY DEF Bad
    <2> QED
      BY <2>1, SmallestOf
  <1>2. T # {}
    BY <1>1 DEF Folded
  <1> DEFINE U == T \ {pick[T]}
  <1>3. f[U] = h[U]
    BY <1>1, <1>2 DEF Picks
  <1>4. f[T] = step[<<pick[T], f[U]>>] /\ h[T] = step[<<pick[T], h[U]>>]
    BY <1>1, <1>2 DEF Folded
  <1> QED
    BY <1>1, <1>3, <1>4

\* A step that stays in R folds over any finite set.
LEMMA FoldExists ==
  ASSUME NEW S, IsFiniteSet(S), NEW R, NEW base \in R, NEW step \in [S \X R -> R],
         NEW pick, Picks(pick, S)
  PROVE  \E f \in [SUBSET S -> R] : Folded(f, S, pick, step, base)
  <1> DEFINE Bad == {T \in SUBSET S : ~ \E f \in [SUBSET T -> R] : Folded(f, T, pick, step, base)}
  <1> SUFFICES ASSUME Bad # {} PROVE FALSE
    BY DEF Bad
  <1>1. PICK T \in Bad : \A U \in SUBSET T : U # T => U \notin Bad
    <2> HIDE DEF Bad
    <2>1. Bad \in SUBSET (SUBSET S)
      BY DEF Bad
    <2> QED
      BY <2>1, SmallestOf
  <1> DEFINE of(s) == CHOOSE f : f \in [SUBSET s -> R] /\ Folded(f, s, pick, step, base)
             less(s) == s \ {pick[s]}
             all == [s \in SUBSET T |-> IF s = {} THEN base ELSE step[<<pick[s], of(less(s))[less(s)]>>]]
  <1>2. ASSUME NEW s \in SUBSET T, s # T
        PROVE  of(s) \in [SUBSET s -> R] /\ Folded(of(s), s, pick, step, base)
    <2>1. \E f : f \in [SUBSET s -> R] /\ Folded(f, s, pick, step, base)
      BY <1>1, <1>2
    <2> QED
      BY <2>1
  <1>3. ASSUME NEW s \in SUBSET T, s # {}
        PROVE  /\ pick[s] \in S /\ less(s) \in SUBSET T /\ less(s) # T
               /\ less(s) \in SUBSET less(s)
    BY <1>1, <1>3 DEF Picks
  <1>7. T \in SUBSET S
    BY <1>1
  <1> HIDE DEF of, Bad
  <1>4. all \in [SUBSET T -> R]
    <2> SUFFICES ASSUME NEW s \in SUBSET T, s # {}
                 PROVE  step[<<pick[s], of(less(s))[less(s)]>>] \in R
      OBVIOUS
    <2>1. of(less(s)) \in [SUBSET less(s) -> R] /\ less(s) \in SUBSET less(s) /\ pick[s] \in S
      BY <1>2, <1>3
    <2> HIDE DEF less
    <2> QED
      BY <2>1
  <1>5. ASSUME NEW r \in SUBSET T, r # T PROVE all[r] = of(r)[r]
    <2>1. of(r) \in [SUBSET r -> R] /\ Folded(of(r), r, pick, step, base)
      BY <1>2, <1>5
    <2>2. CASE r = {}
      BY <2>1, <2>2 DEF Folded
    <2>3. CASE r # {}
      <3>1. of(r)[r] = step[<<pick[r], of(r)[less(r)]>>]
        BY <2>1, <2>3 DEF Folded
      <3>2. Folded(of(less(r)), less(r), pick, step, base)
        BY <1>2, <1>3, <2>3
      <3>3. of(r)[less(r)] = of(less(r))[less(r)]
        <4>1. less(r) \in SUBSET r /\ r \in SUBSET S /\ less(r) \in SUBSET S /\ less(r) \in SUBSET less(r)
          BY <1>7
        <4> HIDE DEF less
        <4> QED
          BY <2>1, <3>2, <4>1, FoldsAgree
      <3> QED
        BY <2>3, <3>1, <3>3
    <2> QED
      BY <2>2, <2>3
  <1>6. Folded(all, T, pick, step, base)
    <2>1. ASSUME NEW s \in SUBSET T, s # {} PROVE of(less(s))[less(s)] = all[less(s)]
      BY <1>3, <1>5, <2>1
    <2> QED
      BY <2>1 DEF Folded
  <1> HIDE DEF all
  <1> QED
    BY <1>1, <1>4, <1>6 DEF Bad

\* A finite set of numbers has a greatest.
LEMMA MaxIsIn ==
  ASSUME NEW S \in SUBSET Int, IsFiniteSet(S), S # {}
  PROVE  Max(S) \in S /\ \A y \in S : Max(S) >= y
  <1> DEFINE Bad == {T \in SUBSET S : T # {} /\ ~ \E x \in T : \A y \in T : x >= y}
  <1>1. ASSUME Bad # {} PROVE FALSE
    <2>1. PICK T \in Bad : \A U \in SUBSET T : U # T => U \notin Bad
      <3> HIDE DEF Bad
      <3>1. Bad \in SUBSET (SUBSET S)
        BY DEF Bad
      <3> QED
        BY <1>1, <3>1, SmallestOf
    <2>2. PICK x \in T : TRUE
      BY <2>1
    <2> DEFINE U == T \ {x}
    <2>3. U \in SUBSET T /\ U # T /\ U \in SUBSET S /\ T \in SUBSET Int
      BY <2>1, <2>2
    <2>4. U # {}
      <3>1. CASE U = {}
        <4>1. \A y \in T : x >= y
          BY <2>2, <2>3, <3>1
        <4> QED
          BY <2>1, <2>2, <4>1
      <3> QED
        BY <3>1
    <2>5. PICK y \in U : \A z \in U : y >= z
      BY <2>1, <2>3, <2>4
    <2>6. CASE x >= y
      <3>1. \A z \in T : x >= z
        BY <2>2, <2>3, <2>5, <2>6
      <3> QED
        BY <2>1, <2>2, <3>1
    <2>7. CASE ~(x >= y)
      <3>1. \A z \in T : y >= z
        BY <2>2, <2>3, <2>5, <2>7
      <3> QED
        BY <2>1, <2>5, <3>1
    <2> QED
      BY <2>6, <2>7
  <1>2. \E x \in S : \A y \in S : x >= y
    BY <1>1
  <1> QED
    BY <1>2 DEF Max

-----------------------------------------------------------------------------
(* Sums over a finite set, as MapThenSumSet computes them.                   *)

picked(s) == CHOOSE x \in s : TRUE

\* sums is the recursive function that MapThenSumSet computes of g over S.
Sums(g, S, sums) ==
    sums = [s \in SUBSET S |-> IF s = {} THEN 0 ELSE g[picked(s)] + sums[s \ {picked(s)}]]

Total(g, S) == (CHOOSE sums : Sums(g, S, sums))[S]

\* What one step of a sum leaves to sum is less.
LEMMA OneLess ==
  ASSUME NEW T, T # {}
  PROVE  /\ picked(T) \in T
         /\ T \ {picked(T)} \in SUBSET T
         /\ T \ {picked(T)} # T
  BY DEF picked

\* Sums of the same numbers agree wherever both are defined.
LEMMA SumsAgree ==
  ASSUME NEW S, IsFiniteSet(S), NEW A \in SUBSET S, NEW B \in SUBSET S,
         NEW g, NEW f, NEW h, Sums(g, A, f), Sums(g, B, h),
         NEW s \in SUBSET A, s \in SUBSET B
  PROVE  f[s] = h[s]
  <1> DEFINE Bad == {T \in SUBSET S : T \subseteq A /\ T \subseteq B /\ f[T] # h[T]}
  <1> SUFFICES ASSUME Bad # {} PROVE FALSE
    BY DEF Bad
  <1>1. PICK T \in Bad : \A U \in SUBSET T : U # T => U \notin Bad
    <2> HIDE DEF Bad
    <2>1. Bad \in SUBSET (SUBSET S)
      BY DEF Bad
    <2> QED
      BY <2>1, SmallestOf
  <1>2. T # {}
    BY <1>1 DEF Sums
  <1> DEFINE U == T \ {picked(T)}
  <1>3. f[U] = h[U]
    BY <1>1, <1>2, OneLess
  <1>4. f[T] = g[picked(T)] + f[U] /\ h[T] = g[picked(T)] + h[U]
    BY <1>1, <1>2 DEF Sums
  <1> QED
    BY <1>1, <1>3, <1>4

\* There is a sum of any numbers over any finite set.
LEMMA SumsExist ==
  ASSUME NEW S, IsFiniteSet(S), NEW g \in [S -> Int]
  PROVE  \E sums \in [SUBSET S -> Int] : Sums(g, S, sums)
  <1> DEFINE pick == [s \in SUBSET S |-> picked(s)]
             step == [x \in S \X Int |-> g[x[1]] + x[2]]
  <1>1. Picks(pick, S) /\ step \in [S \X Int -> Int] /\ 0 \in Int
    BY OneLess DEF Picks
  <1>2. PICK f \in [SUBSET S -> Int] : Folded(f, S, pick, step, 0)
    <2> HIDE DEF pick, step
    <2> QED
      BY <1>1, FoldExists
  <1>3. ASSUME NEW s \in SUBSET S, s # {}
        PROVE  step[<<pick[s], f[s \ {pick[s]}]>>] = g[picked(s)] + f[s \ {picked(s)}]
    <2>1. pick[s] = picked(s) /\ picked(s) \in S /\ f[s \ {picked(s)}] \in Int
      BY <1>3, OneLess
    <2> QED
      BY <2>1
  <1>4. Sums(g, S, f)
    <2> HIDE DEF pick, step
    <2> QED
      BY <1>2, <1>3 DEF Folded, Sums
  <1> QED
    BY <1>4

\* A total is the sum over the whole set, whatever function computes it.
LEMMA TotalIs ==
  ASSUME NEW S, IsFiniteSet(S), NEW g \in [S -> Int], NEW sums, Sums(g, S, sums)
  PROVE  Total(g, S) = sums[S] /\ Total(g, S) \in Int
  <1>1. PICK f \in [SUBSET S -> Int] : Sums(g, S, f)
    BY SumsExist
  <1>2. Sums(g, S, CHOOSE h : Sums(g, S, h))
    BY <1>1
  <1>3. Total(g, S) = sums[S] /\ Total(g, S) = f[S]
    BY <1>1, <1>2, SumsAgree DEF Total
  <1> QED
    BY <1>1, <1>3

\* Nothing sums to nothing.
LEMMA NothingSums ==
  ASSUME NEW S, IsFiniteSet(S), NEW g \in [S -> Int], \A i \in S : g[i] = 0
  PROVE  Total(g, S) = 0
  <1>1. PICK a \in [SUBSET S -> Int] : Sums(g, S, a)
    BY SumsExist
  <1> DEFINE Bad == {T \in SUBSET S : a[T] # 0}
  <1>2. ASSUME Bad # {} PROVE FALSE
    <2>1. PICK T \in Bad : \A U \in SUBSET T : U # T => U \notin Bad
      <3> HIDE DEF Bad
      <3>1. Bad \in SUBSET (SUBSET S)
        BY DEF Bad
      <3> QED
        BY <1>2, <3>1, SmallestOf
    <2>2. T # {}
      BY <1>1, <2>1 DEF Sums
    <2> DEFINE U == T \ {picked(T)}
    <2>3. picked(T) \in S /\ U \in SUBSET T /\ U # T /\ U \in SUBSET S
      BY <2>1, <2>2, OneLess
    <2>4. a[T] = g[picked(T)] + a[U]
      BY <1>1, <2>1, <2>2 DEF Sums
    <2>5. a[U] = 0 /\ g[picked(T)] = 0
      BY <2>1, <2>3
    <2> QED
      BY <2>1, <2>4, <2>5
  <1>3. a[S] = 0
    BY <1>2
  <1> QED
    BY <1>1, <1>3, TotalIs

\* When one number changes, the total changes by as much.
LEMMA OneChanges ==
  ASSUME NEW S, IsFiniteSet(S), NEW g \in [S -> Int], NEW h \in [S -> Int], NEW i \in S,
         \A j \in S \ {i} : h[j] = g[j]
  PROVE  Total(h, S) = Total(g, S) - g[i] + h[i]
  <1>1. PICK a \in [SUBSET S -> Int] : Sums(g, S, a)
    BY SumsExist
  <1>2. PICK b \in [SUBSET S -> Int] : Sums(h, S, b)
    BY SumsExist
  <1> DEFINE Moved(T) == b[T] = IF i \in T THEN a[T] - g[i] + h[i] ELSE a[T]
             Bad == {T \in SUBSET S : ~Moved(T)}
  <1>3. ASSUME Bad # {} PROVE FALSE
    <2>1. PICK T \in Bad : \A U \in SUBSET T : U # T => U \notin Bad
      <3> HIDE DEF Bad
      <3>1. Bad \in SUBSET (SUBSET S)
        BY DEF Bad
      <3> QED
        BY <1>3, <3>1, SmallestOf
    <2>2. T # {}
      BY <1>1, <1>2, <2>1 DEF Sums
    <2> DEFINE x == picked(T)
               U == T \ {x}
    <2>3. x \in T /\ U \in SUBSET T /\ U # T /\ U \in SUBSET S /\ T \in SUBSET S
      BY <2>1, <2>2, OneLess
    <2>4. a[T] = g[x] + a[U] /\ b[T] = h[x] + b[U]
      BY <1>1, <1>2, <2>1, <2>2 DEF Sums
    <2>5. Moved(U) /\ ~Moved(T)
      BY <2>1, <2>3
    <2>6. a[U] \in Int /\ b[U] \in Int /\ a[T] \in Int /\ b[T] \in Int /\ g[x] \in Int /\ h[x] \in Int
      BY <2>3
    <2>7. CASE x = i
      <3>1. i \in T /\ i \notin U
        BY <2>3, <2>7
      <3>2. b[U] = a[U]
        BY <2>5, <3>1
      <3>3. b[T] = a[T] - g[i] + h[i]
        BY <2>4, <2>6, <2>7, <3>2
      <3> QED
        BY <2>5, <3>1, <3>3
    <2>8. CASE x # i
      <3>1. h[x] = g[x] /\ (i \in T <=> i \in U)
        BY <2>3, <2>8
      <3>2. CASE i \in U
        <4>1. b[U] = a[U] - g[i] + h[i]
          BY <2>5, <3>2
        <4>2. b[T] = a[T] - g[i] + h[i]
          BY <2>4, <2>6, <3>1, <4>1
        <4> QED
          BY <2>5, <3>1, <3>2, <4>2
      <3>3. CASE i \notin U
        <4>1. b[T] = a[T]
          BY <2>4, <2>5, <3>1, <3>3
        <4> QED
          BY <2>5, <3>1, <3>3, <4>1
      <3> QED
        BY <3>2, <3>3
    <2> QED
      BY <2>7, <2>8
  <1>4. b[S] = a[S] - g[i] + h[i]
    BY <1>3
  <1> QED
    BY <1>1, <1>2, <1>4, TotalIs

-----------------------------------------------------------------------------
(* The usage meter. *)

\* What the instances hold of a day, waiting and in a statement not landed.
waitingOn(f, d) == [i \in Instances |-> f[i][d]]
sentOn(state, f, d) == [i \in Instances |-> IF state[i] = "sent" THEN f[i][d] ELSE 0]

Counts == [Days -> Nat]
FlushStates == {"no", "sent", "landed"}

MeterShape ==
    /\ onDay \in Days
    /\ counted \in Counts /\ requests \in Counts /\ uncounted \in Counts /\ doubled \in Counts
    /\ pending \in [Instances -> Counts] /\ flight \in [Instances -> Counts]
    /\ flushing \in [Instances -> FlushStates]

\* What is counted, waiting or sent is what was asked.
Balanced(d) ==
    counted[d] + Total(waitingOn(pending, d), Instances)
        + Total(sentOn(flushing, flight, d), Instances)
      = requests[d] - uncounted[d] + doubled[d]

MeterInv == MeterShape /\ \A d \in Days : Balanced(d)

\* The meter's two sums are totals.
LEMMA MeterSums ==
  ASSUME NEW f \in [Instances -> Counts], flight \in [Instances -> Counts], NEW d \in Days
  PROVE  /\ sumOver(f)[d] = Total(waitingOn(f, d), Instances)
         /\ underWay[d] = Total(sentOn(flushing, flight, d), Instances)
  <1>1. IsFiniteSet(Instances)
    BY UsageAssumption
  <1>2. waitingOn(f, d) \in [Instances -> Int] /\ sentOn(flushing, flight, d) \in [Instances -> Int]
    BY DEF waitingOn, sentOn, Counts
  <1>3. sumOver(f)[d] = Total(waitingOn(f, d), Instances)
    <2> DEFINE ByStep(sums) ==
            sums = [s \in SUBSET Instances |->
                      IF s = {} THEN 0
                      ELSE f[CHOOSE x \in s : TRUE][d] + sums[s \ {CHOOSE x \in s : TRUE}]]
    <2>1. sumOver(f)[d] = (CHOOSE sums : ByStep(sums))[Instances]
      BY DEF sumOver, MapThenSumSet, MapThenFoldSet
    <2>2. ASSUME NEW sums PROVE ByStep(sums) <=> Sums(waitingOn(f, d), Instances, sums)
      <3>1. \A s \in SUBSET Instances : s # {} => waitingOn(f, d)[picked(s)] = f[picked(s)][d]
        BY OneLess DEF waitingOn
      <3> QED
        BY <3>1 DEF Sums, picked
    <2>3. PICK some : Sums(waitingOn(f, d), Instances, some)
      BY <1>1, <1>2, SumsExist
    <2>4. ByStep(CHOOSE s : ByStep(s))
      <3>1. ByStep(some)
        BY <2>2, <2>3
      <3> HIDE DEF ByStep
      <3> QED
        BY <3>1
    <2> DEFINE it == CHOOSE sums : ByStep(sums)
    <2>5. Sums(waitingOn(f, d), Instances, it)
      <3> HIDE DEF ByStep
      <3> QED
        BY <2>2, <2>4
    <2>6. sumOver(f)[d] = it[Instances]
      BY <2>1
    <2>7. Total(waitingOn(f, d), Instances) = it[Instances]
      <3> HIDE DEF it
      <3> QED
        BY <1>1, <1>2, <2>5, TotalIs
    <2> QED
      BY <2>6, <2>7
  <1>4. underWay[d] = Total(sentOn(flushing, flight, d), Instances)
    <2> DEFINE ByStep(sums) ==
            sums = [s \in SUBSET Instances |->
                      IF s = {} THEN 0
                      ELSE (IF flushing[CHOOSE x \in s : TRUE] = "sent" THEN flight[CHOOSE x \in s : TRUE][d] ELSE 0)
                             + sums[s \ {CHOOSE x \in s : TRUE}]]
    <2>1. underWay[d] = (CHOOSE sums : ByStep(sums))[Instances]
      BY DEF underWay, MapThenSumSet, MapThenFoldSet
    <2>2. ASSUME NEW sums PROVE ByStep(sums) <=> Sums(sentOn(flushing, flight, d), Instances, sums)
      <3> DEFINE sent == sentOn(flushing, flight, d)
      <3>1. \A s \in SUBSET Instances : s # {} =>
                sent[picked(s)] = IF flushing[picked(s)] = "sent" THEN flight[picked(s)][d] ELSE 0
        BY OneLess DEF sentOn
      <3> HIDE DEF sent
      <3>2. \A s \in SUBSET Instances :
               (IF s = {} THEN 0
                ELSE (IF flushing[CHOOSE x \in s : TRUE] = "sent" THEN flight[CHOOSE x \in s : TRUE][d] ELSE 0)
                       + sums[s \ {CHOOSE x \in s : TRUE}])
                 = (IF s = {} THEN 0 ELSE sent[picked(s)] + sums[s \ {picked(s)}])
        BY <3>1 DEF picked
      <3>3. ByStep(sums) <=> Sums(sent, Instances, sums)
        BY <3>2 DEF Sums
      <3> QED
        BY <3>3 DEF sent
    <2>3. PICK some : Sums(sentOn(flushing, flight, d), Instances, some)
      BY <1>1, <1>2, SumsExist
    <2>4. ByStep(CHOOSE s : ByStep(s))
      <3>1. ByStep(some)
        BY <2>2, <2>3
      <3> HIDE DEF ByStep
      <3> QED
        BY <3>1
    <2> DEFINE it == CHOOSE sums : ByStep(sums)
    <2>5. Sums(sentOn(flushing, flight, d), Instances, it)
      <3> HIDE DEF ByStep
      <3> QED
        BY <2>2, <2>4
    <2>6. underWay[d] = it[Instances]
      BY <2>1
    <2>7. Total(sentOn(flushing, flight, d), Instances) = it[Instances]
      <3> HIDE DEF it
      <3> QED
        BY <1>1, <1>2, <2>5, TotalIs
    <2> QED
      BY <2>6, <2>7
  <1> QED
    BY <1>3, <1>4

\* What one instance does to the totals.
LEMMA WaitingMoves ==
  ASSUME NEW f \in [Instances -> Counts], NEW h \in [Instances -> Counts],
         NEW i \in Instances, NEW d \in Days,
         \A j \in Instances \ {i} : h[j] = f[j]
  PROVE  /\ Total(waitingOn(f, d), Instances) \in Int
         /\ Total(waitingOn(h, d), Instances) = Total(waitingOn(f, d), Instances) - f[i][d] + h[i][d]
  <1>1. IsFiniteSet(Instances)
    BY UsageAssumption
  <1>2. waitingOn(f, d) \in [Instances -> Int] /\ waitingOn(h, d) \in [Instances -> Int]
    BY DEF waitingOn, Counts
  <1>3. /\ \A j \in Instances \ {i} : waitingOn(h, d)[j] = waitingOn(f, d)[j]
        /\ waitingOn(f, d)[i] = f[i][d] /\ waitingOn(h, d)[i] = h[i][d]
    BY DEF waitingOn
  <1>4. PICK sums : Sums(waitingOn(f, d), Instances, sums)
    BY <1>1, <1>2, SumsExist
  <1>5. Total(waitingOn(f, d), Instances) \in Int
    BY <1>1, <1>2, <1>4, TotalIs
  <1> QED
    BY <1>1, <1>2, <1>3, <1>5, OneChanges

sentBy(state, f, i, d) == IF state[i] = "sent" THEN f[i][d] ELSE 0

\* What one instance does to what is sent.
LEMMA SentMoves ==
  ASSUME NEW w \in [Instances -> Counts], NEW v \in [Instances -> Counts],
         NEW was \in [Instances -> FlushStates], NEW is \in [Instances -> FlushStates],
         NEW i \in Instances, NEW d \in Days,
         \A j \in Instances \ {i} : v[j] = w[j] /\ is[j] = was[j]
  PROVE  /\ Total(sentOn(was, w, d), Instances) \in Int
         /\ Total(sentOn(is, v, d), Instances)
              = Total(sentOn(was, w, d), Instances) - sentBy(was, w, i, d) + sentBy(is, v, i, d)
  <1>1. IsFiniteSet(Instances)
    BY UsageAssumption
  <1>2. sentOn(was, w, d) \in [Instances -> Int] /\ sentOn(is, v, d) \in [Instances -> Int]
    BY DEF sentOn, Counts
  <1>3. /\ \A j \in Instances \ {i} : sentOn(is, v, d)[j] = sentOn(was, w, d)[j]
        /\ sentOn(was, w, d)[i] = sentBy(was, w, i, d)
        /\ sentOn(is, v, d)[i] = sentBy(is, v, i, d)
    BY DEF sentOn, sentBy
  <1>4. PICK sums : Sums(sentOn(was, w, d), Instances, sums)
    BY <1>1, <1>2, SumsExist
  <1>5. Total(sentOn(was, w, d), Instances) \in Int
    BY <1>1, <1>2, <1>4, TotalIs
  <1> QED
    BY <1>1, <1>2, <1>3, <1>5, OneChanges

\* What leaves one side of a balance and joins the other keeps it.
LEMMA Evenly ==
  ASSUME NEW c \in Int, NEW c1 \in Int, NEW p \in Int, NEW p1 \in Int, NEW x \in Int, NEW y \in Int,
         NEW P \in Int, NEW F \in Int, NEW r \in Int, NEW r1 \in Int,
         NEW u \in Int, NEW u1 \in Int, NEW e \in Int, NEW e1 \in Int,
         (c1 - c) + (p1 - p) + (y - x) = (r1 - r) - (u1 - u) + (e1 - e),
         c + P + F = r - u + e
  PROVE  c1 + (P - p + p1) + (F - x + y) = r1 - u1 + e1
  OBVIOUS

\* A step of one instance keeps the balance if what it takes from one place it
\* adds to another.
LEMMA BalanceKept ==
  ASSUME MeterInv, MeterShape', NEW i \in Instances,
         \A j \in Instances \ {i} :
            pending'[j] = pending[j] /\ flight'[j] = flight[j] /\ flushing'[j] = flushing[j],
         \A d \in Days :
            (counted'[d] - counted[d]) + (pending'[i][d] - pending[i][d])
              + (sentBy(flushing', flight', i, d) - sentBy(flushing, flight, i, d))
            = (requests'[d] - requests[d]) - (uncounted'[d] - uncounted[d]) + (doubled'[d] - doubled[d])
  PROVE  MeterInv'
  <1> SUFFICES ASSUME NEW d \in Days PROVE Balanced(d)'
    BY DEF MeterInv
  <1> DEFINE P == Total(waitingOn(pending, d), Instances)
             Q == Total(waitingOn(pending', d), Instances)
             F == Total(sentOn(flushing, flight, d), Instances)
             G == Total(sentOn(flushing', flight', d), Instances)
             x == sentBy(flushing, flight, i, d)
             y == sentBy(flushing', flight', i, d)
  <1>1. /\ pending \in [Instances -> Counts] /\ pending' \in [Instances -> Counts]
        /\ flight \in [Instances -> Counts] /\ flight' \in [Instances -> Counts]
        /\ flushing \in [Instances -> FlushStates] /\ flushing' \in [Instances -> FlushStates]
    BY DEF MeterInv, MeterShape
  <1>2. P \in Int /\ Q = P - pending[i][d] + pending'[i][d]
    BY <1>1, WaitingMoves
  <1>3. F \in Int /\ G = F - x + y
    <2>1. \A j \in Instances \ {i} : flight'[j] = flight[j] /\ flushing'[j] = flushing[j]
      OBVIOUS
    <2>2. F \in Int
      BY <1>1, <2>1, SentMoves
    <2>3. G = F - x + y
      BY ONLY <1>1, <2>1, SentMoves, i \in Instances, d \in Days
    <2> QED
      BY <2>2, <2>3
  <1>4. /\ counted[d] \in Int /\ counted'[d] \in Int /\ requests[d] \in Int /\ requests'[d] \in Int
        /\ uncounted[d] \in Int /\ uncounted'[d] \in Int /\ doubled[d] \in Int /\ doubled'[d] \in Int
        /\ pending[i][d] \in Int /\ pending'[i][d] \in Int
    BY DEF MeterInv, MeterShape, Counts
  <1>5. x \in Int /\ y \in Int
    BY <1>1 DEF sentBy, Counts
  <1>6. counted[d] + P + F = requests[d] - uncounted[d] + doubled[d]
    BY DEF MeterInv, Balanced
  <1>7. (counted'[d] - counted[d]) + (pending'[i][d] - pending[i][d]) + (y - x)
            = (requests'[d] - requests[d]) - (uncounted'[d] - uncounted[d]) + (doubled'[d] - doubled[d])
    OBVIOUS
  <1>8. counted'[d] + (P - pending[i][d] + pending'[i][d]) + (F - x + y)
            = requests'[d] - uncounted'[d] + doubled'[d]
    <2> HIDE DEF P, Q, F, G, x, y
    <2> QED
      BY <1>2, <1>3, <1>4, <1>5, <1>6, <1>7, Evenly
  <1> QED
    BY <1>2, <1>3, <1>8 DEF Balanced

\* Nothing is asked, counted or waiting at the start.
LEMMA InitMeter == UsageInit => MeterInv
  <1> SUFFICES ASSUME UsageInit PROVE MeterInv
    OBVIOUS
  <1>1. MeterShape
    BY UsageAssumption DEF UsageInit, MeterShape, Counts, FlushStates, Zero
  <1>2. ASSUME NEW d \in Days PROVE Balanced(d)
    <2>1. IsFiniteSet(Instances)
      BY UsageAssumption
    <2>2. /\ waitingOn(pending, d) \in [Instances -> Int]
          /\ \A i \in Instances : waitingOn(pending, d)[i] = 0
      BY DEF UsageInit, waitingOn, Zero
    <2>3. /\ sentOn(flushing, flight, d) \in [Instances -> Int]
          /\ \A i \in Instances : sentOn(flushing, flight, d)[i] = 0
      BY DEF UsageInit, sentOn, Zero
    <2>4. Total(waitingOn(pending, d), Instances) = 0
      BY <2>1, <2>2, NothingSums
    <2>5. Total(sentOn(flushing, flight, d), Instances) = 0
      BY <2>1, <2>3, NothingSums
    <2> QED
      BY <2>4, <2>5 DEF UsageInit, Balanced, Zero
  <1> QED
    BY <1>1, <1>2 DEF MeterInv

\* A step that leaves the counts alone keeps them balanced.
LEMMA CountsRest ==
  ASSUME MeterInv, onDay' \in Days,
         UNCHANGED <<counted, pending, flight, flushing, requests, uncounted, doubled>>
  PROVE  MeterInv'
  <1>1. MeterShape'
    BY DEF MeterInv, MeterShape
  <1>2. ASSUME NEW d \in Days PROVE Balanced(d)'
    BY DEF MeterInv, Balanced
  <1> QED
    BY <1>1, <1>2 DEF MeterInv

\* Sums of counts are counts.
LEMMA PlusCounts ==
  ASSUME NEW a \in Counts, NEW b \in Counts
  PROVE  plus(a, b) \in Counts /\ \A d \in Days : plus(a, b)[d] = a[d] + b[d]
  BY DEF Counts, plus

\* Every step of the meter keeps every request counted once.
LEMMA MeterStep == MeterInv /\ [UsageNext]_uvars => MeterInv'
  <1> SUFFICES ASSUME MeterInv, [UsageNext]_uvars PROVE MeterInv'
    OBVIOUS
  <1>s. /\ onDay \in Days
        /\ counted \in Counts /\ requests \in Counts /\ uncounted \in Counts /\ doubled \in Counts
        /\ pending \in [Instances -> Counts] /\ flight \in [Instances -> Counts]
        /\ flushing \in [Instances -> FlushStates]
    BY DEF MeterInv, MeterShape
  <1>z. Zero \in Counts /\ \A d \in Days : Zero[d] = 0
    BY DEF Counts, Zero
  <1>1. CASE UNCHANGED uvars
    BY <1>1, <1>s, CountsRest DEF uvars
  <1>2. CASE NextDay
    BY <1>2, CountsRest DEF NextDay
  <1>3. ASSUME NEW i \in Instances, SyncNow(i) \/ ClaimAndSync(i) \/ CronSyncs(i) PROVE MeterInv'
    BY <1>3, <1>s, CountsRest DEF SyncNow, ClaimAndSync, CronSyncs, meterVars
  <1>4. ASSUME NEW i \in Instances, Requests(i) PROVE MeterInv'
    <2>1. PICK n \in PerRun : /\ requests' = [requests EXCEPT ![onDay] = @ + n]
                              /\ pending' = [pending EXCEPT ![i][onDay] = @ + n]
      BY <1>4 DEF Requests
    <2>2. n \in Nat
      BY UsageAssumption
    <2>3. UNCHANGED <<onDay, counted, flight, flushing, uncounted, doubled>>
      BY <1>4 DEF Requests, meterVars
    <2>4. requests' \in Counts /\ \A d \in Days :
              requests'[d] = requests[d] + (IF d = onDay THEN n ELSE 0)
      BY <1>s, <2>1, <2>2 DEF Counts
    <2>5. /\ pending' \in [Instances -> Counts]
          /\ \A d \in Days : pending'[i][d] = pending[i][d] + (IF d = onDay THEN n ELSE 0)
          /\ \A j \in Instances \ {i} : pending'[j] = pending[j]
      <3> DEFINE mine == [pending[i] EXCEPT ![onDay] = @ + n]
      <3>1. pending' = [pending EXCEPT ![i] = mine]
        BY <2>1
      <3>2. mine \in Counts /\ \A d \in Days : mine[d] = pending[i][d] + (IF d = onDay THEN n ELSE 0)
        BY <1>s, <2>2 DEF Counts
      <3> HIDE DEF mine
      <3> QED
        BY <1>s, <3>1, <3>2
    <2>6. MeterShape'
      BY <1>s, <2>3, <2>4, <2>5 DEF MeterShape
    <2>7. ASSUME NEW d \in Days
          PROVE  (counted'[d] - counted[d]) + (pending'[i][d] - pending[i][d])
                   + (sentBy(flushing', flight', i, d) - sentBy(flushing, flight, i, d))
                 = (requests'[d] - requests[d]) - (uncounted'[d] - uncounted[d]) + (doubled'[d] - doubled[d])
      <3>1. sentBy(flushing', flight', i, d) = sentBy(flushing, flight, i, d)
        BY <2>3
      <3>2. /\ sentBy(flushing, flight, i, d) \in Int /\ counted[d] \in Int /\ uncounted[d] \in Int
            /\ doubled[d] \in Int /\ pending[i][d] \in Int /\ requests[d] \in Int
        BY <1>s DEF sentBy, Counts
      <3> QED
        BY <2>2, <2>3, <2>4, <2>5, <3>1, <3>2
    <2> QED
      BY <2>3, <2>5, <2>6, <2>7, BalanceKept
  <1>5. ASSUME NEW i \in Instances, FlushUsage(i) PROVE MeterInv'
    <2>1. /\ flight' = [flight EXCEPT ![i] = pending[i]] /\ pending' = [pending EXCEPT ![i] = Zero]
          /\ flushing' = [flushing EXCEPT ![i] = "sent"] /\ flushing[i] = "no"
          /\ UNCHANGED <<onDay, counted, requests, uncounted, doubled>>
      BY <1>5 DEF FlushUsage
    <2>2. /\ flight' \in [Instances -> Counts] /\ flight'[i] = pending[i]
          /\ pending' \in [Instances -> Counts] /\ pending'[i] = Zero
          /\ flushing' \in [Instances -> FlushStates] /\ flushing'[i] = "sent"
      BY <1>s, <1>z, <2>1 DEF FlushStates
    <2>3. \A j \in Instances \ {i} :
            pending'[j] = pending[j] /\ flight'[j] = flight[j] /\ flushing'[j] = flushing[j]
      BY <1>s, <2>1
    <2>4. MeterShape'
      BY <1>s, <2>1, <2>2 DEF MeterShape
    <2>5. ASSUME NEW d \in Days
          PROVE  (counted'[d] - counted[d]) + (pending'[i][d] - pending[i][d])
                   + (sentBy(flushing', flight', i, d) - sentBy(flushing, flight, i, d))
                 = (requests'[d] - requests[d]) - (uncounted'[d] - uncounted[d]) + (doubled'[d] - doubled[d])
      <3>1. sentBy(flushing', flight', i, d) = pending[i][d] /\ sentBy(flushing, flight, i, d) = 0
        BY <2>1, <2>2 DEF sentBy
      <3>2. /\ counted[d] \in Int /\ uncounted[d] \in Int
            /\ doubled[d] \in Int /\ pending[i][d] \in Int /\ requests[d] \in Int
        BY <1>s DEF Counts
      <3>3. pending'[i][d] = 0
        BY <1>z, <2>2
      <3>4. UNCHANGED <<counted, requests, uncounted, doubled>>
        BY <2>1
      <3> QED
        BY <3>1, <3>2, <3>3, <3>4
    <2> QED
      BY <2>3, <2>4, <2>5, BalanceKept
  <1>6. ASSUME NEW i \in Instances, Lands(i) PROVE MeterInv'
    <2>1. /\ counted' = plus(counted, flight[i]) /\ flushing[i] = "sent"
          /\ flushing' = [flushing EXCEPT ![i] = "landed"]
          /\ UNCHANGED <<onDay, pending, flight, requests, uncounted, doubled>>
      BY <1>6 DEF Lands
    <2>2. /\ counted' \in Counts /\ \A d \in Days : counted'[d] = counted[d] + flight[i][d]
          /\ flushing' \in [Instances -> FlushStates] /\ flushing'[i] = "landed"
      BY <1>s, <2>1, PlusCounts DEF FlushStates
    <2>3. \A j \in Instances \ {i} :
            pending'[j] = pending[j] /\ flight'[j] = flight[j] /\ flushing'[j] = flushing[j]
      BY <1>s, <2>1
    <2>4. MeterShape'
      BY <1>s, <2>1, <2>2 DEF MeterShape
    <2>5. ASSUME NEW d \in Days
          PROVE  (counted'[d] - counted[d]) + (pending'[i][d] - pending[i][d])
                   + (sentBy(flushing', flight', i, d) - sentBy(flushing, flight, i, d))
                 = (requests'[d] - requests[d]) - (uncounted'[d] - uncounted[d]) + (doubled'[d] - doubled[d])
      <3>1. sentBy(flushing', flight', i, d) = 0 /\ sentBy(flushing, flight, i, d) = flight[i][d]
        BY <2>1, <2>2 DEF sentBy
      <3>2. /\ counted[d] \in Int /\ uncounted[d] \in Int /\ flight[i][d] \in Int
            /\ doubled[d] \in Int /\ pending[i][d] \in Int /\ requests[d] \in Int
        BY <1>s DEF Counts
      <3> QED
        BY <2>1, <2>2, <3>1, <3>2
    <2> QED
      BY <2>3, <2>4, <2>5, BalanceKept
  <1>7. ASSUME NEW i \in Instances, Flushed(i) PROVE MeterInv'
    <2>1. /\ flight' = [flight EXCEPT ![i] = Zero] /\ flushing[i] = "landed"
          /\ flushing' = [flushing EXCEPT ![i] = "no"]
          /\ UNCHANGED <<onDay, counted, pending, requests, uncounted, doubled>>
      BY <1>7 DEF Flushed
    <2>2. /\ flight' \in [Instances -> Counts]
          /\ flushing' \in [Instances -> FlushStates] /\ flushing'[i] = "no"
      BY <1>s, <1>z, <2>1 DEF FlushStates
    <2>3. \A j \in Instances \ {i} :
            pending'[j] = pending[j] /\ flight'[j] = flight[j] /\ flushing'[j] = flushing[j]
      BY <1>s, <2>1
    <2>4. MeterShape'
      BY <1>s, <2>1, <2>2 DEF MeterShape
    <2>5. ASSUME NEW d \in Days
          PROVE  (counted'[d] - counted[d]) + (pending'[i][d] - pending[i][d])
                   + (sentBy(flushing', flight', i, d) - sentBy(flushing, flight, i, d))
                 = (requests'[d] - requests[d]) - (uncounted'[d] - uncounted[d]) + (doubled'[d] - doubled[d])
      <3>1. sentBy(flushing', flight', i, d) = 0 /\ sentBy(flushing, flight, i, d) = 0
        BY <2>1, <2>2 DEF sentBy
      <3>2. /\ counted[d] \in Int /\ uncounted[d] \in Int
            /\ doubled[d] \in Int /\ pending[i][d] \in Int /\ requests[d] \in Int
        BY <1>s DEF Counts
      <3> QED
        BY <2>1, <3>1, <3>2
    <2> QED
      BY <2>3, <2>4, <2>5, BalanceKept
  <1>8. ASSUME NEW i \in Instances, FlushFails(i) PROVE MeterInv'
    <2>1. /\ pending' = [pending EXCEPT ![i] = plus(pending[i], flight[i])]
          /\ doubled' = IF flushing[i] = "landed" THEN plus(doubled, flight[i]) ELSE doubled
          /\ flight' = [flight EXCEPT ![i] = Zero] /\ flushing[i] # "no"
          /\ flushing' = [flushing EXCEPT ![i] = "no"]
          /\ UNCHANGED <<onDay, counted, requests, uncounted>>
      BY <1>8 DEF FlushFails, putBack
    <2>2. /\ flight' \in [Instances -> Counts]
          /\ flushing' \in [Instances -> FlushStates] /\ flushing'[i] = "no"
      BY <1>s, <1>z, <2>1 DEF FlushStates
    <2>3. /\ plus(pending[i], flight[i]) \in Counts
          /\ \A d \in Days : plus(pending[i], flight[i])[d] = pending[i][d] + flight[i][d]
      BY <1>s, PlusCounts
    <2>4. pending' \in [Instances -> Counts] /\ pending'[i] = plus(pending[i], flight[i])
      BY <1>s, <2>1, <2>3
    <2>5. \A j \in Instances \ {i} :
            pending'[j] = pending[j] /\ flight'[j] = flight[j] /\ flushing'[j] = flushing[j]
      BY <1>s, <2>1
    <2>6. doubled' \in Counts /\ \A d \in Days :
            doubled'[d] = doubled[d] + (IF flushing[i] = "landed" THEN flight[i][d] ELSE 0)
      <3>1. flight[i] \in Counts
        BY <1>s
      <3>2. CASE flushing[i] = "landed"
        BY <1>s, <2>1, <3>1, <3>2, PlusCounts
      <3>3. CASE flushing[i] # "landed"
        BY <1>s, <2>1, <3>3 DEF Counts
      <3> QED
        BY <3>2, <3>3
    <2>7. MeterShape'
      BY <1>s, <2>1, <2>2, <2>4, <2>6 DEF MeterShape
    <2>8. ASSUME NEW d \in Days
          PROVE  (counted'[d] - counted[d]) + (pending'[i][d] - pending[i][d])
                   + (sentBy(flushing', flight', i, d) - sentBy(flushing, flight, i, d))
                 = (requests'[d] - requests[d]) - (uncounted'[d] - uncounted[d]) + (doubled'[d] - doubled[d])
      <3>1. /\ sentBy(flushing', flight', i, d) = 0
            /\ sentBy(flushing, flight, i, d) = IF flushing[i] = "landed" THEN 0 ELSE flight[i][d]
        BY <1>s, <2>1, <2>2 DEF sentBy, FlushStates
      <3>2. /\ counted[d] \in Int /\ uncounted[d] \in Int /\ flight[i][d] \in Int
            /\ doubled[d] \in Int /\ pending[i][d] \in Int /\ requests[d] \in Int
        BY <1>s DEF Counts
      <3>3. pending'[i][d] = pending[i][d] + flight[i][d]
        BY <2>3, <2>4
      <3> QED
        BY <2>1, <2>6, <3>1, <3>2, <3>3
    <2> QED
      BY <2>5, <2>7, <2>8, BalanceKept
  <1>9. ASSUME NEW i \in Instances, InstanceEnds(i) PROVE MeterInv'
    <2> DEFINE sent == IF flushing[i] = "sent" THEN flight[i] ELSE Zero
    <2>1. /\ uncounted' = plus(uncounted, plus(pending[i], sent))
          /\ pending' = [pending EXCEPT ![i] = Zero] /\ flight' = [flight EXCEPT ![i] = Zero]
          /\ flushing' = [flushing EXCEPT ![i] = "no"]
          /\ UNCHANGED <<onDay, counted, requests, doubled>>
      BY <1>9 DEF InstanceEnds
    <2>2. sent \in Counts /\ \A d \in Days : sent[d] = sentBy(flushing, flight, i, d)
      BY <1>s, <1>z DEF sentBy
    <2> HIDE DEF sent
    <2>3. /\ plus(pending[i], sent) \in Counts
          /\ \A d \in Days : plus(pending[i], sent)[d] = pending[i][d] + sent[d]
      BY <1>s, <2>2, PlusCounts
    <2>4. /\ uncounted' \in Counts
          /\ \A d \in Days : uncounted'[d] = uncounted[d] + plus(pending[i], sent)[d]
      BY <1>s, <2>1, <2>3, PlusCounts
    <2>5. /\ pending' \in [Instances -> Counts] /\ pending'[i] = Zero
          /\ flight' \in [Instances -> Counts]
          /\ flushing' \in [Instances -> FlushStates] /\ flushing'[i] = "no"
      BY <1>s, <1>z, <2>1 DEF FlushStates
    <2>6. \A j \in Instances \ {i} :
            pending'[j] = pending[j] /\ flight'[j] = flight[j] /\ flushing'[j] = flushing[j]
      BY <1>s, <2>1
    <2>7. MeterShape'
      BY <1>s, <2>1, <2>4, <2>5 DEF MeterShape
    <2>8. ASSUME NEW d \in Days
          PROVE  (counted'[d] - counted[d]) + (pending'[i][d] - pending[i][d])
                   + (sentBy(flushing', flight', i, d) - sentBy(flushing, flight, i, d))
                 = (requests'[d] - requests[d]) - (uncounted'[d] - uncounted[d]) + (doubled'[d] - doubled[d])
      <3>1. sentBy(flushing', flight', i, d) = 0
        BY <2>5 DEF sentBy
      <3>2. /\ counted[d] \in Int /\ uncounted[d] \in Int /\ sentBy(flushing, flight, i, d) \in Int
            /\ doubled[d] \in Int /\ pending[i][d] \in Int /\ requests[d] \in Int
        BY <1>s DEF Counts, sentBy
      <3>3. pending'[i][d] = 0
        BY <1>z, <2>5
      <3>4. uncounted'[d] = uncounted[d] + (pending[i][d] + sentBy(flushing, flight, i, d))
        BY <2>2, <2>3, <2>4
      <3>5. UNCHANGED <<counted, requests, doubled>>
        BY <2>1
      <3> QED
        BY <3>1, <3>2, <3>3, <3>4, <3>5
    <2> QED
      BY <2>6, <2>7, <2>8, BalanceKept
  <1> QED
    BY <1>1, <1>2, <1>3, <1>4, <1>5, <1>6, <1>7, <1>8, <1>9 DEF UsageNext

\* The meter counts every request once, under its day, whatever fails, lands
\* late or ends, with any number of instances and days: what is stored,
\* waiting and sent is what was asked, less what ended instances had not
\* written, plus what landed with its answer lost.
THEOREM MeterExact == UsageSpec => []MeterCountsOnce
  <1>1. MeterInv => MeterCountsOnce
    <2> SUFFICES ASSUME MeterInv, NEW d \in Days
                 PROVE  counted[d] + sumOver(pending)[d] + underWay[d]
                        = requests[d] - uncounted[d] + doubled[d]
      BY DEF MeterCountsOnce
    <2>1. pending \in [Instances -> Counts] /\ flight \in [Instances -> Counts]
      BY DEF MeterInv, MeterShape
    <2>2. /\ sumOver(pending)[d] = Total(waitingOn(pending, d), Instances)
          /\ underWay[d] = Total(sentOn(flushing, flight, d), Instances)
      BY <2>1, MeterSums
    <2>3. Balanced(d)
      BY DEF MeterInv
    <2> QED
      BY <2>2, <2>3 DEF Balanced
  <1> QED
    BY <1>1, InitMeter, MeterStep, PTL DEF UsageSpec

-----------------------------------------------------------------------------
(* The intake. *)

\* A run's accepted files are files of the run, none of them recorded already.
LEMMA AcceptedAreNew ==
  ASSUME NEW files \in Seq(Statements), NEW creates \in BOOLEAN
  PROVE  acceptedFiles(files, creates) \in SUBSET (Statements \ batches)
  <1> DEFINE D == DOMAIN files
             New == SUBSET (Statements \ batches)
             last == [s \in SUBSET D |-> Max(s)]
             ok(s, taken) ==
                /\ s \notin batches
                /\ AccountOf(s) \in accounts \/ (creates /\ AccountOf(s) = "old")
                /\ ~\E t \in batches \union taken : overlaps(s, t)
             take(taken, s) == IF ok(s, taken) THEN taken \union {s} ELSE taken
             step == [x \in D \X New |-> take(x[2], files[x[1]])]
             ByStep(f) == f = [s \in SUBSET D |->
                                 IF s = {} THEN {} ELSE take(f[s \ {Max(s)}], files[Max(s)])]
  <1>1. acceptedFiles(files, creates) = (CHOOSE f : ByStep(f))[D]
    BY DEF acceptedFiles, FoldLeft, MapThenFoldSet
  <1>2. IsFiniteSet(D) /\ D \subseteq Nat /\ \A i \in D : files[i] \in Statements
    BY FS_Interval
  <1>3. Picks(last, D)
    <2> SUFFICES ASSUME NEW s \in SUBSET D, s # {} PROVE Max(s) \in s
      BY DEF Picks
    <2>1. IsFiniteSet(s) /\ s \in SUBSET Int
      BY <1>2, FS_Subset
    <2> QED
      BY <2>1, MaxIsIn
  <1>t. ASSUME NEW taken \in New, NEW x \in Statements PROVE take(taken, x) \in New
    OBVIOUS
  <1>4. step \in [D \X New -> New]
    <2> HIDE DEF take, New, D
    <2> QED
      BY <1>2, <1>t
  <1>5. PICK f \in [SUBSET D -> New] : Folded(f, D, last, step, {})
    <2>1. {} \in New
      OBVIOUS
    <2> HIDE DEF D, New, last, step
    <2> QED
      BY <1>2, <1>3, <1>4, <2>1, FoldExists
  <1>6. ByStep(f)
    <2>1. ASSUME NEW s \in SUBSET D, s # {}
          PROVE  /\ last[s] = Max(s)
                 /\ step[<<last[s], f[s \ {last[s]}]>>] = take(f[s \ {Max(s)}], files[Max(s)])
      <3>1. Max(s) \in D /\ last[s] = Max(s) /\ f[s \ {Max(s)}] \in New
        BY <1>3, <1>5, <2>1 DEF Picks
      <3> HIDE DEF take, D, New, last
      <3> QED
        BY <3>1
    <2> HIDE DEF step, last, take, D, New
    <2> QED
      BY <1>5, <2>1 DEF Folded
  <1> DEFINE it == CHOOSE h : ByStep(h)
  <1>7. ByStep(it)
    <2> HIDE DEF ByStep
    <2> QED
      BY <1>6
  <1>8. it[{}] \in New
    BY <1>7
  <1>9. ASSUME NEW s \in SUBSET D, s # {}, it[s \ {Max(s)}] \in New
        PROVE  it[s] \in New /\ Max(s) \in s
    <2>1. Max(s) \in s /\ Max(s) \in D
      BY <1>3, <1>9 DEF Picks
    <2>2. it[s] = take(it[s \ {Max(s)}], files[Max(s)])
      <3> HIDE DEF it, take
      <3> QED
        BY <1>7, <1>9
    <2> HIDE DEF it, D, take, New
    <2> QED
      BY <1>2, <1>9, <1>t, <2>1, <2>2
  <1> HIDE DEF it
  <1> DEFINE Bad == {T \in SUBSET D : it[T] \notin New}
  <1>10. ASSUME Bad # {} PROVE FALSE
    <2> HIDE DEF New, D
    <2>1. PICK T \in Bad : \A U \in SUBSET T : U # T => U \notin Bad
      <3> HIDE DEF Bad
      <3>1. Bad \in SUBSET (SUBSET D)
        BY DEF Bad
      <3> QED
        BY <1>2, <1>10, <3>1, SmallestOf
    <2>2. T # {} /\ T \in SUBSET D
      BY <1>8, <2>1
    <2>3. Max(T) \in T
      BY <1>3, <2>2 DEF Picks
    <2>4. it[T \ {Max(T)}] \in New
      BY <2>1, <2>2, <2>3
    <2> QED
      BY <1>9, <2>1, <2>2, <2>4
  <1>11. it[D] \in New
    BY <1>10
  <1> QED
    BY <1>1, <1>11 DEF it

FeedSteps == {"idle", "list", "fetch", "insert", "finish", "log"}
Answers == [at : FeedSteps, day : Int, since : Int, gap : SUBSET Int,
            answer : SUBSET Purchases, from : Int]

FeedShape ==
    /\ today \in Int /\ upTo \in Int
    /\ cursor \in Int \union {None} /\ since0 \in Int \union {None}
    /\ feed \in Answers

\* The cursor is the day of the newest finished run, or the day after it.
CursorAfter ==
    /\ cursor = None <=> since0 = None
    /\ cursor # None => cursor <= upTo + 1

\* A run sees one midnight at most, and asks from its own cursor's week back.
WindowHolds ==
    /\ feed.at # "idle" => feed.day <= today /\ today <= feed.day + 1
    /\ feed.at \in {"list", "fetch", "insert", "finish"} /\ cursor # None =>
         \A d \in Int : d >= cursor - Lookback => d >= feed.since \/ d \in feed.gap

\* Purchases the feed showed on the run's day, of a day since some day.
Due(since) == {p \in Purchases \ closed : seen[p] <= feed.day /\ post[p] >= since}

Answered ==
    /\ feed.at = "fetch" => Due(feed.from) \subseteq feed.answer
    /\ feed.at = "insert" => Due(feed.since) \subseteq feed.answer
    /\ feed.at = "finish" => \A p \in Due(feed.since) : <<"feed", p>> \in stored

FeedInv == FeedShape /\ CursorAfter /\ WindowHolds /\ Answered /\ FeedComplete

\* Rows that others store, and warnings that are written, take nothing away.
LEMMA FeedRests ==
  ASSUME FeedInv, stored \subseteq stored',
         UNCHANGED <<today, cursor, feed, told, since0, upTo, untold>>
  PROVE  FeedInv'
  <1>1. (FeedShape /\ CursorAfter /\ WindowHolds)'
    BY DEF FeedInv, FeedShape, CursorAfter, WindowHolds
  <1>2. Answered'
    BY DEF FeedInv, Answered, Due
  <1>3. FeedComplete'
    BY DEF FeedInv, FeedComplete
  <1> QED
    BY <1>1, <1>2, <1>3 DEF FeedInv

\* A run that ends before its cursor moves leaves what was complete.
LEMMA FeedEnds ==
  ASSUME FeedInv, feed' = Resting, UNCHANGED <<today, stored, cursor, since0, upTo>>,
         told \union untold \subseteq told' \union untold'
  PROVE  FeedInv'
  <1>1. FeedShape'
    BY DEF FeedInv, FeedShape, Resting, Answers, FeedSteps
  <1>2. (CursorAfter /\ WindowHolds /\ Answered)'
    BY DEF FeedInv, CursorAfter, WindowHolds, Answered, Resting
  <1>3. FeedComplete'
    BY DEF FeedInv, FeedComplete
  <1> QED
    BY <1>1, <1>2, <1>3 DEF FeedInv

\* Nothing has run at the start.
LEMMA InitFeed == IntakeInit => FeedInv
  <1> SUFFICES ASSUME IntakeInit PROVE FeedInv
    OBVIOUS
  <1>1. FeedShape
    BY DEF IntakeInit, FeedShape, Resting, Answers, FeedSteps
  <1>2. CursorAfter /\ WindowHolds /\ Answered /\ FeedComplete
    BY DEF IntakeInit, CursorAfter, WindowHolds, Answered, FeedComplete, Resting
  <1> QED
    BY <1>1, <1>2 DEF FeedInv

\* The greater of two days.
LEMMA MaxOfTwo ==
  ASSUME NEW a \in Int, NEW b \in Int
  PROVE  Max({a, b}) = IF a >= b THEN a ELSE b
  <1>1. \E x \in {a, b} : \A y \in {a, b} : x >= y
    OBVIOUS
  <1>2. Max({a, b}) \in {a, b} /\ \A y \in {a, b} : Max({a, b}) >= y
    BY <1>1 DEF Max
  <1> QED
    BY <1>2

\* Every step keeps what the feed owes the ledger.
LEMMA FeedStep == FeedInv /\ [IntakeNext]_ivars => FeedInv'
  <1> SUFFICES ASSUME FeedInv, [IntakeNext]_ivars PROVE FeedInv'
    OBVIOUS
  <1>s. FeedShape /\ CursorAfter /\ WindowHolds /\ Answered /\ FeedComplete
    BY DEF FeedInv
  <1>0. CASE UNCHANGED ivars
    BY <1>0, FeedRests DEF ivars
  <1>1. CASE Tomorrow
    <2>1. /\ today' = today + 1 /\ (feed.at # "idle" => feed.day = today)
          /\ UNCHANGED <<stored, cursor, feed, told, since0, upTo, untold>>
      BY <1>1 DEF Tomorrow
    <2>2. (FeedShape /\ CursorAfter)'
      BY <1>s, <2>1 DEF FeedShape, CursorAfter
    <2>3. WindowHolds'
      BY <1>s, <2>1 DEF WindowHolds, FeedShape, Answers
    <2>4. (Answered /\ FeedComplete)'
      BY <1>s, <2>1 DEF Answered, Due, FeedComplete
    <2> QED
      BY <2>2, <2>3, <2>4 DEF FeedInv
  <1>2. CASE FeedStarts
    <2> DEFINE since == Max({windowFrom, reach})
    <2>1. /\ feed' = [Resting EXCEPT !.at = "list", !.day = today, !.since = since, !.gap = gapOf(windowFrom)]
          /\ UNCHANGED <<today, stored, cursor, told, since0, upTo, untold>>
      BY <1>2 DEF FeedStarts, ghosts
    <2>2. windowFrom \in Int /\ reach \in Int /\ (cursor # None => windowFrom = cursor - Lookback)
      BY <1>s, IntakeAssumption DEF windowFrom, reach, FeedShape
    <2>3. since \in Int /\ since = IF windowFrom >= reach THEN windowFrom ELSE reach
      BY <2>2, MaxOfTwo
    <2>4. gapOf(windowFrom) \in SUBSET Int /\ \A d \in Int :
              d >= windowFrom => d >= since \/ d \in gapOf(windowFrom)
      BY <2>2, <2>3 DEF gapOf
    <2> HIDE DEF since
    <2>5. /\ feed' \in Answers /\ feed'.at = "list" /\ feed'.day = today
          /\ feed'.since = since /\ feed'.gap = gapOf(windowFrom)
      <3>1. today \in Int /\ {} \in SUBSET Purchases
        BY <1>s DEF FeedShape
      <3>2. feed' = [at |-> "list", day |-> today, since |-> since, gap |-> gapOf(windowFrom),
                     answer |-> {}, from |-> 0]
        BY <2>1 DEF Resting
      <3> QED
        BY <2>3, <2>4, <3>1, <3>2 DEF Answers, FeedSteps
    <2>6. (FeedShape /\ CursorAfter)'
      BY <1>s, <2>1, <2>5 DEF FeedShape, CursorAfter
    <2>7. WindowHolds'
      BY <1>s, <2>1, <2>2, <2>4, <2>5 DEF WindowHolds, FeedShape
    <2>8. (Answered /\ FeedComplete)'
      BY <1>s, <2>1, <2>5 DEF Answered, FeedComplete
    <2> QED
      BY <2>6, <2>7, <2>8 DEF FeedInv
  <1>3. CASE ListAccounts
    <2>1. /\ feed.at = "list"
          /\ feed' = [feed EXCEPT !.at = "fetch", !.from = today - ListReach, !.answer = shown(today - ListReach)]
          /\ UNCHANGED <<today, stored, cursor, told, since0, upTo, untold>>
      BY <1>3 DEF ListAccounts, ghosts
    <2>2. /\ feed' \in Answers /\ feed'.at = "fetch" /\ feed'.day = feed.day /\ feed'.since = feed.since
          /\ feed'.gap = feed.gap /\ feed'.from = today - ListReach
          /\ feed'.answer = shown(today - ListReach)
      <3> DEFINE back == today - ListReach
                 all == shown(back)
      <3>1. back \in Int /\ all \in SUBSET Purchases
        BY <1>s, IntakeAssumption DEF FeedShape, shown
      <3>2. feed' = [feed EXCEPT !.at = "fetch", !.from = back, !.answer = all]
        BY <2>1
      <3>3. feed \in Answers
        BY <1>s DEF FeedShape
      <3>4. feed'.from = back /\ feed'.answer = all /\ feed' \in Answers
        <4> HIDE DEF back, all
        <4> QED
          BY <3>1, <3>2, <3>3 DEF Answers, FeedSteps
      <3>5. feed'.at = "fetch" /\ feed'.day = feed.day /\ feed'.since = feed.since /\ feed'.gap = feed.gap
        BY <2>1, <3>3 DEF Answers
      <3> QED
        BY <3>4, <3>5
    <2>3. (FeedShape /\ CursorAfter)'
      BY <1>s, <2>1, <2>2 DEF FeedShape, CursorAfter
    <2>4. WindowHolds'
      BY <1>s, <2>1, <2>2 DEF WindowHolds
    <2>5. feed.day <= today /\ feed.day \in Int /\ today \in Int
      BY <1>s, <2>1 DEF WindowHolds, FeedShape, Answers
    <2>6. Answered'
      BY <2>1, <2>2, <2>5, IntakeAssumption DEF Answered, Due, shown
    <2>7. FeedComplete'
      BY <1>s, <2>1 DEF FeedComplete
    <2> QED
      BY <2>3, <2>4, <2>6, <2>7 DEF FeedInv
  <1>4. CASE FetchTransactions
    <2> DEFINE answer == IF cacheServes THEN {p \in feed.answer : post[p] >= feed.since} ELSE shown(feed.since)
    <2>1. /\ feed.at = "fetch" /\ feed' = [feed EXCEPT !.at = "insert", !.answer = answer]
          /\ UNCHANGED <<today, stored, cursor, told, since0, upTo, untold>>
      BY <1>4 DEF FetchTransactions, ghosts
    <2>2. feed.day <= today /\ feed.day \in Int /\ today \in Int /\ feed.from \in Int /\ feed.since \in Int
      BY <1>s, <2>1 DEF WindowHolds, FeedShape, Answers
    <2>3. answer \in SUBSET Purchases
      BY <1>s DEF FeedShape, Answers, shown
    <2>4. Due(feed.since) \subseteq answer
      <3>1. CASE cacheServes
        <4>1. Due(feed.since) \subseteq Due(feed.from)
          BY <2>2, <3>1, IntakeAssumption DEF Due, cacheServes
        <4> QED
          BY <1>s, <2>1, <3>1, <4>1 DEF Answered, Due
      <3>2. CASE ~cacheServes
        BY <2>2, <3>2, IntakeAssumption DEF Due, shown
      <3> QED
        BY <3>1, <3>2
    <2> HIDE DEF answer
    <2>5. /\ feed' \in Answers /\ feed'.at = "insert" /\ feed'.day = feed.day /\ feed'.since = feed.since
          /\ feed'.gap = feed.gap /\ feed'.answer = answer
      BY <1>s, <2>1, <2>3 DEF Answers, FeedSteps, FeedShape
    <2>6. (FeedShape /\ CursorAfter)'
      BY <1>s, <2>1, <2>5 DEF FeedShape, CursorAfter
    <2>7. WindowHolds'
      BY <1>s, <2>1, <2>5 DEF WindowHolds
    <2>8. Answered'
      BY <2>4, <2>5 DEF Answered, Due
    <2>9. FeedComplete'
      BY <1>s, <2>1 DEF FeedComplete
    <2> QED
      BY <2>6, <2>7, <2>8, <2>9 DEF FeedInv
  <1>5. CASE InsertFeed
    <2>1. /\ feed.at = "insert" /\ feed' = [feed EXCEPT !.at = "finish"]
          /\ stored' = stored \union {<<"feed", p>> : p \in feed.answer}
          /\ UNCHANGED <<today, cursor, told, since0, upTo, untold>>
      BY <1>5 DEF InsertFeed
    <2>2. /\ feed' \in Answers /\ feed'.at = "finish" /\ feed'.day = feed.day /\ feed'.since = feed.since
          /\ feed'.gap = feed.gap
      BY <1>s, <2>1 DEF Answers, FeedSteps, FeedShape
    <2>3. (FeedShape /\ CursorAfter)'
      BY <1>s, <2>1, <2>2 DEF FeedShape, CursorAfter
    <2>4. WindowHolds'
      BY <1>s, <2>1, <2>2 DEF WindowHolds
    <2>5. Answered'
      BY <1>s, <2>1, <2>2 DEF Answered, Due
    <2>6. FeedComplete'
      BY <1>s, <2>1 DEF FeedComplete
    <2> QED
      BY <2>3, <2>4, <2>5, <2>6 DEF FeedInv
  <1>6. CASE FinishFeed
    <2>1. /\ feed.at = "finish" /\ cursor' = today
          /\ since0' = (IF since0 = None THEN feed.since ELSE since0)
          /\ upTo' = feed.day /\ untold' = untold \union feed.gap
          /\ feed' = [feed EXCEPT !.at = "log"]
          /\ UNCHANGED <<today, stored, told>>
      BY <1>6 DEF FinishFeed, cursorAt
    <2>2. /\ feed.day \in Int /\ feed.since \in Int /\ today \in Int /\ today <= feed.day + 1
          /\ feed.day <= today
      BY <1>s, <2>1 DEF WindowHolds, FeedShape, Answers
    <2>3. feed' \in Answers /\ feed'.at = "log" /\ feed'.day = feed.day
      BY <1>s, <2>1 DEF Answers, FeedSteps, FeedShape
    <2>4. FeedShape'
      BY <1>s, <2>1, <2>2, <2>3 DEF FeedShape
    <2>5. CursorAfter'
      BY <1>s, <2>1, <2>2, IntakeAssumption DEF CursorAfter, FeedShape
    <2>6. (WindowHolds /\ Answered)'
      BY <2>1, <2>2, <2>3 DEF WindowHolds, Answered
    <2>7. FeedComplete'
      <3> SUFFICES ASSUME NEW p \in Purchases \ closed, seen[p] <= feed.day, post[p] >= since0'
                   PROVE  <<"feed", p>> \in stored \/ post[p] \in told \union untold \union feed.gap
        BY <2>1 DEF FeedComplete
      <3>1. post[p] \in Int /\ seen[p] \in Int /\ seen[p] - post[p] <= Lookback /\ Lookback \in Int
        BY IntakeAssumption
      <3>2. post[p] >= feed.since => <<"feed", p>> \in stored
        BY <1>s, <2>1 DEF Answered, Due
      <3>3. CASE since0 = None
        BY <2>1, <3>2, <3>3
      <3>4. CASE since0 # None
        <4>1. since0' = since0 /\ cursor \in Int /\ upTo \in Int /\ cursor <= upTo + 1
          BY <1>s, <2>1, <3>4 DEF CursorAfter, FeedShape
        <4>2. CASE seen[p] <= upTo
          BY <1>s, <3>4, <4>1, <4>2 DEF FeedComplete
        <4>3. CASE ~(seen[p] <= upTo)
          <5>1. post[p] >= cursor - Lookback
            BY <3>1, <4>1, <4>3
          <5>2. post[p] >= feed.since \/ post[p] \in feed.gap
            BY <1>s, <2>1, <3>1, <3>4, <5>1 DEF WindowHolds, CursorAfter
          <5> QED
            BY <3>2, <5>2
        <4> QED
          BY <4>2, <4>3
      <3> QED
        BY <3>3, <3>4
    <2> QED
      BY <2>4, <2>5, <2>6, <2>7 DEF FeedInv
  <1>7. CASE LogFeed
    BY <1>7, FeedEnds DEF LogFeed
  <1>8. CASE FeedFails \/ DieFeed
    BY <1>8, FeedEnds DEF FeedFails, DieFeed, ghosts
  <1>9. ASSUME NEW files \in Imports, NEW creates \in BOOLEAN, Plan(files, creates) PROVE FeedInv'
    BY <1>9, FeedRests DEF Plan, feedVars
  <1>10. CASE CreateAccount \/ WriteSnapshots \/ ClaimForImport \/ RecordBatches \/ DieImport
    BY <1>10, FeedRests DEF CreateAccount, WriteSnapshots, ClaimForImport, RecordBatches, DieImport, feedVars
  <1>11. CASE InsertRows
    BY <1>11, FeedRests DEF InsertRows, feedVars
  <1> QED
    BY <1>0, <1>1, <1>2, <1>3, <1>4, <1>5, <1>6, <1>7, <1>8, <1>9, <1>10, <1>11 DEF IntakeNext

\* Whatever runs fail, are killed or are skipped for longer than the feed
\* remembers, nothing the feed showed by the last finished run is missing
\* without a day named.
THEOREM FeedLosesNothing == IntakeSpec => []FeedComplete
  <1>1. FeedInv => FeedComplete
    BY DEF FeedInv
  <1> QED
    BY <1>1, InitFeed, FeedStep, PTL DEF IntakeSpec

ImportSteps == {"idle", "account", "snapshots", "claim", "rows", "record"}

ImportRecord == \* the import's fields
    import = [at |-> import.at, day |-> import.day, take |-> import.take, add |-> import.add,
              new |-> import.new, snaps |-> import.snaps]

closing(s) == <<AccountOf(s), period[s].to>>

ImportShape ==
    /\ ImportRecord /\ import.at \in ImportSteps
    /\ import.at # "idle" => import.take \subseteq Statements
    /\ batches \subseteq Statements
    /\ owed = [s \in Statements |-> owed[s]]

\* Until its statements are recorded, a plan holds all that they owe; and what
\* it has gone past has landed.
PlanHolds ==
    /\ import.at # "idle" => \A s \in import.take :
         /\ owed[s] \subseteq import.add
         /\ closing(s) \in snapshots \union import.snaps
    /\ import.at \in {"claim", "rows", "record"} => import.snaps \subseteq snapshots
    /\ import.at = "record" => import.add \subseteq stored

BatchInv == ImportShape /\ PlanHolds /\ BatchOwesNothing

\* The closing balance of every statement taken is held, or to be written.
LEMMA ClosingsHeld ==
  ASSUME NEW ss, NEW s \in ss
  PROVE  closing(s) \in snapshots \union snapshotsOf(ss)
  BY DEF snapshotsOf, closing

\* Rows and snapshots that others add disturb no plan and no batch.
LEMMA BatchRests ==
  ASSUME BatchInv, stored \subseteq stored', snapshots \subseteq snapshots',
         UNCHANGED <<import, batches, owed>>
  PROVE  BatchInv'
  <1>1. ImportShape'
    BY DEF BatchInv, ImportShape, ImportRecord
  <1>2. PlanHolds'
    BY DEF BatchInv, PlanHolds, closing, AccountOf
  <1>3. BatchOwesNothing'
    BY DEF BatchInv, BatchOwesNothing, AccountOf
  <1> QED
    BY <1>1, <1>2, <1>3 DEF BatchInv

\* An import that ends early records nothing.
LEMMA BatchEnds ==
  ASSUME BatchInv, import' = NoPlan, UNCHANGED <<stored, snapshots, batches, owed>>
  PROVE  BatchInv'
  <1>1. ImportShape'
    BY DEF BatchInv, ImportShape, ImportRecord, NoPlan, ImportSteps
  <1>2. PlanHolds'
    BY DEF PlanHolds, NoPlan
  <1>3. BatchOwesNothing'
    BY DEF BatchInv, BatchOwesNothing, AccountOf
  <1> QED
    BY <1>1, <1>2, <1>3 DEF BatchInv

\* One step on of the import, what it has gone past having landed.
LEMMA BatchMoves ==
  ASSUME BatchInv, NEW at \in ImportSteps \ {"idle"}, import.at # "idle",
         import' = [import EXCEPT !.at = at],
         stored \subseteq stored', snapshots \subseteq snapshots', UNCHANGED <<batches, owed>>,
         at \in {"claim", "rows", "record"} => import.snaps \subseteq snapshots',
         at = "record" => import.add \subseteq stored'
  PROVE  BatchInv'
  <1>1. /\ ImportRecord' /\ import'.at = at /\ import'.take = import.take /\ import'.add = import.add
        /\ import'.snaps = import.snaps
    <2>1. import = [at |-> import.at, day |-> import.day, take |-> import.take, add |-> import.add,
                    new |-> import.new, snaps |-> import.snaps]
      BY DEF BatchInv, ImportShape, ImportRecord
    <2>2. import' = [at |-> at, day |-> import.day, take |-> import.take, add |-> import.add,
                     new |-> import.new, snaps |-> import.snaps]
      BY <2>1
    <2> QED
      BY <2>2 DEF ImportRecord
  <1>2. ImportShape'
    BY <1>1 DEF BatchInv, ImportShape
  <1>3. PlanHolds'
    BY <1>1 DEF BatchInv, PlanHolds, closing, AccountOf
  <1>4. BatchOwesNothing'
    BY DEF BatchInv, BatchOwesNothing, AccountOf
  <1> QED
    BY <1>2, <1>3, <1>4 DEF BatchInv

\* No statement is recorded at the start.
LEMMA InitBatch == IntakeInit => BatchInv
  BY DEF IntakeInit, BatchInv, ImportShape, ImportRecord, PlanHolds, BatchOwesNothing, NoPlan, ImportSteps

\* Every step leaves a recorded statement whole.
LEMMA BatchStep == BatchInv /\ [IntakeNext]_ivars => BatchInv'
  <1> SUFFICES ASSUME BatchInv, [IntakeNext]_ivars PROVE BatchInv'
    OBVIOUS
  <1>s. ImportShape /\ PlanHolds /\ BatchOwesNothing
    BY DEF BatchInv
  <1>0. CASE UNCHANGED ivars
    BY <1>0, BatchRests DEF ivars
  <1>1. CASE Tomorrow \/ FeedStarts \/ FetchTransactions \/ FinishFeed \/ LogFeed \/ FeedFails \/ DieFeed
    BY <1>1, BatchRests DEF Tomorrow, FeedStarts, FetchTransactions, FinishFeed, LogFeed, FeedFails,
        DieFeed, importVars
  <1>2. CASE ListAccounts
    BY <1>2, BatchRests DEF ListAccounts
  <1>3. CASE InsertFeed
    BY <1>3, BatchRests DEF InsertFeed, importVars
  <1>4. ASSUME NEW files \in Imports, NEW creates \in BOOLEAN, Plan(files, creates) PROVE BatchInv'
    <2> DEFINE ss == acceptedFiles(files, creates)
               add == rowsToAdd(ss)
               snaps == snapshotsOf(ss)
               new == {AccountOf(s) : s \in ss} \ accounts # {}
    <2>1. ss \in SUBSET (Statements \ batches)
      BY <1>4, AcceptedAreNew, IntakeAssumption
    <2>2. /\ import' = [at |-> "account", day |-> today, take |-> ss, add |-> add, new |-> new, snaps |-> snaps]
          /\ owed' = [s \in Statements |-> IF s \in ss THEN {r \in add : r[2] \in rowsOn(s)} ELSE owed[s]]
          /\ UNCHANGED <<stored, snapshots, batches>>
      BY <1>4 DEF Plan
    <2>3. \A s \in ss : closing(s) \in snapshots \union snaps
      BY ClosingsHeld
    <2> HIDE DEF ss, add, snaps, new
    <2>4. ImportShape'
      BY <1>s, <2>1, <2>2 DEF ImportShape, ImportRecord, ImportSteps
    <2>5. PlanHolds'
      <3>1. \A s \in ss : owed'[s] \subseteq add
        BY <2>1, <2>2
      <3> QED
        BY <2>2, <2>3, <3>1 DEF PlanHolds, closing, AccountOf
    <2>6. BatchOwesNothing'
      <3>1. \A s \in batches : owed'[s] = owed[s]
        BY <1>s, <2>1, <2>2 DEF ImportShape
      <3> QED
        BY <1>s, <2>2, <3>1 DEF BatchOwesNothing, AccountOf
    <2> QED
      BY <2>4, <2>5, <2>6 DEF BatchInv
  <1>5. CASE CreateAccount
    BY <1>5, BatchMoves DEF CreateAccount, ImportSteps
  <1>6. CASE WriteSnapshots
    BY <1>6, BatchMoves DEF WriteSnapshots, ImportSteps
  <1>7. CASE ClaimForImport
    <2>1. CASE lockOf = None
      BY <1>7, <1>s, <2>1, BatchMoves DEF ClaimForImport, ImportSteps, PlanHolds
    <2>2. CASE lockOf # None
      BY <1>7, <2>2, BatchEnds DEF ClaimForImport
    <2> QED
      BY <2>1, <2>2
  <1>8. CASE InsertRows
    BY <1>8, <1>s, BatchMoves DEF InsertRows, ImportSteps, PlanHolds
  <1>9. CASE RecordBatches
    <2>1. /\ import.at = "record" /\ batches' = batches \union import.take /\ import' = NoPlan
          /\ UNCHANGED <<stored, snapshots, owed>>
      BY <1>9 DEF RecordBatches, recordsAt
    <2>2. ImportShape'
      BY <1>s, <2>1 DEF ImportShape, ImportRecord, NoPlan, ImportSteps
    <2>3. PlanHolds'
      BY <2>1 DEF PlanHolds, NoPlan
    <2>4. \A s \in import.take : owed[s] \subseteq stored /\ closing(s) \in snapshots
      BY <1>s, <2>1 DEF PlanHolds
    <2>5. BatchOwesNothing'
      BY <1>s, <2>1, <2>4 DEF BatchOwesNothing, closing, AccountOf
    <2> QED
      BY <2>2, <2>3, <2>5 DEF BatchInv
  <1>10. CASE DieImport
    BY <1>10, BatchEnds DEF DieImport
  <1> QED
    BY <1>0, <1>1, <1>2, <1>3, <1>4, <1>5, <1>6, <1>7, <1>8, <1>9, <1>10 DEF IntakeNext

\* A statement is recorded as imported only when all its plan was to add, and
\* its closing balance, have landed, wherever an import is killed or refused.
THEOREM RecordedIsWhole == IntakeSpec => []BatchOwesNothing
  <1>1. BatchInv => BatchOwesNothing
    BY DEF BatchInv
  <1> QED
    BY <1>1, InitBatch, BatchStep, PTL DEF IntakeSpec

-----------------------------------------------------------------------------
(* Recurring plans. *)

\* The record of a fact that the pages read, in a value of the Setting.
RecordedIn(lists, a) ==
    /\ a.choice \in AnswerKinds
    /\ \E d \in lists[a.choice] : d.names = a.names /\ d.lastDate = a.lastDate /\ d.price = a.price

\* A value of the Setting: of each kind a finite list, in the order answered.
ListsIn(lists) ==
    /\ lists = [k \in AnswerKinds |-> lists[k]]
    /\ \A k \in AnswerKinds : IsFiniteSet(lists[k]) /\ \A d \in lists[k] : d.nth \in Nat

\* What a call is to write holds its own answer, and each it read that it
\* neither replaces nor cuts off.
EndedBy(ask, a) ==
    /\ a.choice = ask.choice
    /\ \/ a.names \intersect ask.fact.names # {}
       \/ \E x \in ask.gone : x.names = a.names
AsksHold ==
    \A c \in Underway :
        /\ ListsIn(asks[c].next)
        /\ RecordedIn(asks[c].next, asks[c].fact)
        /\ \A a \in asks[c].knew : ~EndedBy(asks[c], a) => RecordedIn(asks[c].next, a)

\* Every answer that stands is in the Setting.
FactsRecorded ==
    /\ asks = [c \in Calls |-> asks[c]]
    /\ ListsIn(decisions)
    /\ \A a \in answered : RecordedIn(decisions, a)
    /\ AsksHold

\* A plan has at least the name it was found under.
LEMMA PlansAreNamed == \A p \in plansNow : p.members # {}
  <1> SUFFICES ASSUME NEW p \in plansNow PROVE p.members # {}
    OBVIOUS
  <1> DEFINE charges == detectRecurringCharges
  <1>1. PICK key \in {dedupeKey(c) : c \in charges} :
          p.members = {c.merchant : c \in {c \in charges : dedupeKey(c) = key}}
    <2> HIDE DEF charges
    <2> QED
      BY DEF plansNow, mergeDetectedSubscriptions, charges
  <1> HIDE DEF charges
  <1>2. PICK c \in charges : dedupeKey(c) = key
    BY <1>1
  <1> QED
    BY <1>1, <1>2

\* So a record of an answer about all its names reaches it.
LEMMA RecordsReach ==
  ASSUME NEW p \in plansNow, NEW a, NEW d, d.names = a.names, p.members \subseteq a.names
  PROVE  reaches(d, p)
  BY PlansAreNamed DEF reaches

\* A new record comes after those it leaves in its list.
LEMMA AtEndIsLast ==
  ASSUME NEW list, IsFiniteSet(list), \A x \in list : x.nth \in Nat, NEW d
  PROVE  /\ IsFiniteSet(besides(list, d)) /\ atEnd(list, d).nth \in Nat
         /\ \A x \in besides(list, d) : x.nth < atEnd(list, d).nth
  <1> DEFINE some == besides(list, d)
             places == {0} \union {x.nth : x \in some}
  <1>1. some \subseteq list
    BY DEF besides
  <1>2. IsFiniteSet(some) /\ \A x \in some : x.nth \in Nat
    BY <1>1, FS_Subset
  <1> HIDE DEF some
  <1>3. IsFiniteSet(places) /\ places \subseteq Nat /\ 0 \in places
    <2> DEFINE nths == {x.nth : x \in some}
               f == [x \in some |-> x.nth]
    <2>1. f \in Surjection(some, nths)
      BY DEF Surjection
    <2>2. IsFiniteSet(nths)
      <3> HIDE DEF nths, f
      <3> QED
        BY <1>2, <2>1, FS_Surjection
    <2>3. IsFiniteSet(nths \union {0})
      <3> HIDE DEF nths
      <3> QED
        BY <2>2, FS_AddElement
    <2>4. places = nths \union {0}
      OBVIOUS
    <2>5. places \subseteq Nat
      BY <1>2
    <2> QED
      BY <2>3, <2>4, <2>5
  <1>4. Max(places) \in places /\ \A n \in places : Max(places) >= n
    <2> HIDE DEF places
    <2> QED
      BY <1>3, MaxIsIn
  <1>5. atEnd(list, d).nth = 1 + Max(places)
    BY DEF atEnd, some
  <1>6. \A x \in some : x.nth \in places
    OBVIOUS
  <1>7. Max(places) \in Nat
    BY <1>3, <1>4
  <1> HIDE DEF places
  <1>8. \A x \in some : x.nth < atEnd(list, d).nth
    BY <1>2, <1>4, <1>5, <1>6, <1>7
  <1> QED
    BY <1>2, <1>5, <1>7, <1>8 DEF some

\* So it is never what falls off the list; what it lies apart from and does not
\* fall off stays.
LEMMA RememberKeeps ==
  ASSUME NEW list, IsFiniteSet(list), \A x \in list : x.nth \in Nat, NEW d
  PROVE  /\ atEnd(list, d) \in remember(list, d)
         /\ \A x \in list : x.names \intersect d.names = {} =>
                x \in remember(list, d) \/ x \in fallenAway(list, d)
         /\ IsFiniteSet(remember(list, d)) /\ \A x \in remember(list, d) : x.nth \in Nat
  <1> DEFINE new == atEnd(list, d)
             long == lengthened(list, d)
  <1>1. /\ IsFiniteSet(besides(list, d)) /\ new.nth \in Nat
        /\ \A x \in besides(list, d) : x.nth < new.nth
    BY AtEndIsLast
  <1>2. long = besides(list, d) \union {new}
    BY DEF lengthened
  <1>3. besides(list, d) \subseteq list
    BY DEF besides
  <1>4. remember(list, d) = {x \in long : Cardinality({y \in long : y.nth > x.nth}) < Kept}
    BY DEF remember
  <1>5. fallenAway(list, d) = long \ remember(list, d)
    BY DEF fallenAway
  <1> HIDE DEF new, long
  <1>6. IsFiniteSet(long) /\ \A x \in long : x.nth \in Nat
    BY <1>1, <1>2, <1>3, FS_AddElement
  <1>7. {y \in long : y.nth > new.nth} = {}
    BY <1>1, <1>2, <1>3
  <1>8. new \in remember(list, d)
    BY <1>2, <1>4, <1>7, FS_EmptySet, KeptAssumption
  <1>9. \A x \in list : x.names \intersect d.names = {} => x \in long
    BY <1>2 DEF besides
  <1>10. IsFiniteSet(remember(list, d))
    BY <1>4, <1>6, FS_Subset
  <1> QED
    BY <1>4, <1>5, <1>6, <1>8, <1>9, <1>10 DEF new

\* Nothing is answered at first.
LEMMA InitPlans == PlansInit => FactsRecorded
  <1> SUFFICES ASSUME PlansInit PROVE FactsRecorded
    OBVIOUS
  <1>1. Underway = {}
    <2>1. NotMade.choice \notin AnswerKinds
      BY DEF NotMade, AnswerKinds
    <2>2. \A c \in Calls : asks[c] = NotMade
      BY DEF PlansInit
    <2> QED
      BY <2>1, <2>2 DEF Underway
  <1>2. ListsIn(decisions)
    BY FS_EmptySet DEF PlansInit, ListsIn
  <1> QED
    BY <1>1, <1>2 DEF PlansInit, FactsRecorded, AsksHold

\* What a call reads is what it is to write of.
LEMMA AskHolds ==
  ASSUME FactsRecorded, NEW c \in Calls, NEW choice \in AnswerKinds, NEW p,
         decideRecurring(c, choice, p)
  PROVE  FactsRecorded'
  <1> DEFINE d == [names |-> namesOf(p), lastDate |-> p.lastDate, price |-> p.price]
             fact == [choice |-> choice, names |-> p.members, lastDate |-> p.lastDate, price |-> p.price]
             list == decisions[choice]
             next == [decisions EXCEPT ![choice] = remember(list, d)]
             ask == [choice |-> choice, fact |-> fact, knew |-> answered, next |-> next,
                     gone |-> fallenAway(list, d)]
  <1>1. /\ asks[c] = NotMade /\ UNCHANGED <<decisions, answered>>
        /\ asks' = [asks EXCEPT ![c] = ask]
    <2> HIDE DEF remember, fallenAway
    <2> QED
      BY DEF decideRecurring
  <1>2. /\ d.names = fact.names /\ d.lastDate = fact.lastDate /\ d.price = fact.price
        /\ fact.choice = choice
    BY DEF namesOf
  <1>3. /\ ask.choice = choice /\ ask.fact = fact /\ ask.knew = answered /\ ask.next = next
        /\ ask.gone = fallenAway(list, d)
    OBVIOUS
  <1>4. /\ IsFiniteSet(list) /\ \A x \in list : x.nth \in Nat
        /\ decisions = [k \in AnswerKinds |-> decisions[k]]
    BY DEF FactsRecorded, ListsIn
  <1>5. /\ next = [k \in AnswerKinds |-> next[k]]
        /\ next[choice] = remember(list, d)
        /\ \A k \in AnswerKinds \ {choice} : next[k] = decisions[k]
    <2> DEFINE rem == remember(list, d)
    <2> HIDE DEF rem
    <2>1. LET nx == [decisions EXCEPT ![choice] = rem]
          IN /\ nx = [k \in AnswerKinds |-> nx[k]] /\ nx[choice] = rem
             /\ \A k \in AnswerKinds \ {choice} : nx[k] = decisions[k]
      BY <1>4
    <2> QED
      BY <2>1 DEF rem
  <1>6. /\ atEnd(list, d).names = d.names /\ atEnd(list, d).lastDate = d.lastDate
        /\ atEnd(list, d).price = d.price
    BY DEF atEnd
  <1> HIDE DEF d, fact, list, next, ask
  <1>7. /\ atEnd(list, d) \in remember(list, d)
        /\ \A x \in list : x.names \intersect d.names = {} =>
               x \in remember(list, d) \/ x \in fallenAway(list, d)
        /\ IsFiniteSet(remember(list, d)) /\ \A x \in remember(list, d) : x.nth \in Nat
    BY <1>4, RememberKeeps
  <1>8. ListsIn(next)
    BY <1>5, <1>7 DEF ListsIn, FactsRecorded
  <1>9. RecordedIn(next, fact)
    BY <1>2, <1>5, <1>6, <1>7 DEF RecordedIn
  <1>10. ASSUME NEW a \in answered, ~EndedBy(ask, a) PROVE RecordedIn(next, a)
    <2>1. PICK e \in decisions[a.choice] :
             e.names = a.names /\ e.lastDate = a.lastDate /\ e.price = a.price
      BY DEF FactsRecorded, RecordedIn
    <2>2. a.choice \in AnswerKinds
      BY DEF FactsRecorded, RecordedIn
    <2>3. CASE a.choice # choice
      BY <1>5, <2>1, <2>2, <2>3 DEF RecordedIn
    <2>4. CASE a.choice = choice
      <3>1. a.names \intersect fact.names = {} /\ ~\E x \in ask.gone : x.names = a.names
        BY <1>3, <1>10, <2>4 DEF EndedBy
      <3>2. e \in list /\ e.names \intersect d.names = {}
        BY <1>2, <2>1, <2>4, <3>1 DEF list
      <3>3. e \in next[choice]
        BY <1>3, <1>5, <1>7, <2>1, <3>1, <3>2
      <3> QED
        BY <2>1, <2>2, <2>4, <3>3 DEF RecordedIn
    <2> QED
      BY <2>3, <2>4
  <1>11. asks' = [x \in Calls |-> asks'[x]] /\ asks'[c] = ask
         /\ \A x \in Calls \ {c} : asks'[x] = asks[x]
    BY <1>1 DEF FactsRecorded
  <1>12. AsksHold'
    <2> SUFFICES ASSUME NEW x \in Calls, asks'[x].choice \in AnswerKinds
                 PROVE  /\ ListsIn(asks'[x].next)
                        /\ RecordedIn(asks'[x].next, asks'[x].fact)
                        /\ \A a \in asks'[x].knew : ~EndedBy(asks'[x], a) => RecordedIn(asks'[x].next, a)
      BY DEF AsksHold, Underway
    <2>1. CASE x = c
      BY <1>3, <1>8, <1>9, <1>10, <1>11, <2>1
    <2>2. CASE x # c
      BY <1>11, <2>2 DEF FactsRecorded, AsksHold, Underway
    <2> QED
      BY <2>1, <2>2
  <1> QED
    BY <1>1, <1>11, <1>12 DEF FactsRecorded

\* An answer that is saved replaces those about its names, in the facts and in
\* the record, and nothing else it had read.
LEMMA PlansStep == FactsRecorded /\ [PlansNext]_pvars => FactsRecorded'
  <1> SUFFICES ASSUME FactsRecorded, [PlansNext]_pvars PROVE FactsRecorded'
    OBVIOUS
  <1>1. CASE UNCHANGED <<decisions, answered, asks>>
    BY <1>1 DEF FactsRecorded, AsksHold, Underway
  <1>2. ASSUME NEW c \in Calls, NEW p, NEW choice \in AnswerKinds, decideRecurring(c, choice, p)
        PROVE  FactsRecorded'
    BY <1>2, AskHolds
  <1>3. ASSUME NEW c \in Calls, DecisionsSaved(c) \/ DecisionLost(c) PROVE FactsRecorded'
    <2>1. c \in Underway /\ asks' = [asks EXCEPT ![c] = Ended]
      BY <1>3 DEF DecisionsSaved, DecisionLost
    <2>2. /\ asks' = [x \in Calls |-> asks'[x]] /\ asks'[c] = Ended
          /\ \A x \in Calls \ {c} : asks'[x] = asks[x]
      BY <2>1 DEF FactsRecorded
    <2>3. Ended.choice \notin AnswerKinds
      BY DEF Ended, AnswerKinds
    <2>4. AsksHold'
      <3> SUFFICES ASSUME NEW x \in Calls, asks'[x].choice \in AnswerKinds
                   PROVE  /\ ListsIn(asks'[x].next)
                          /\ RecordedIn(asks'[x].next, asks'[x].fact)
                          /\ \A a \in asks'[x].knew : ~EndedBy(asks'[x], a) => RecordedIn(asks'[x].next, a)
        BY DEF AsksHold, Underway
      <3>1. x # c
        BY <2>2, <2>3
      <3> QED
        BY <2>2, <3>1 DEF FactsRecorded, AsksHold, Underway
    <2>5. CASE DecisionLost(c)
      BY <2>2, <2>4, <2>5 DEF DecisionLost, FactsRecorded
    <2>6. CASE DecisionsSaved(c)
      <3>1. /\ decisions' = asks[c].next
            /\ \A a \in answered' : a = asks[c].fact \/ (a \in asks[c].knew /\ ~EndedBy(asks[c], a))
        BY <2>6 DEF DecisionsSaved, EndedBy
      <3>2. /\ ListsIn(asks[c].next) /\ RecordedIn(asks[c].next, asks[c].fact)
            /\ \A a \in asks[c].knew : ~EndedBy(asks[c], a) => RecordedIn(asks[c].next, a)
        BY <2>1 DEF FactsRecorded, AsksHold
      <3>3. \A a \in answered' : RecordedIn(decisions', a)
        BY <3>1, <3>2
      <3> QED
        BY <2>2, <2>4, <3>1, <3>2, <3>3 DEF FactsRecorded
    <2> QED
      BY <1>3, <2>5, <2>6
  <1>4. CASE \/ DaysPass \/ OtherRow \/ (\E n \in NameSet, price \in Prices : Charged(n, price))
             \/ UNCHANGED pvars
    <2>1. UNCHANGED <<decisions, answered, asks>>
      BY <1>4, Zenon DEF pvars, DaysPass, Charged, OtherRow
    <2> QED
      BY <1>1, <2>1
  <1> QED
    BY <1>2, <1>3, <1>4 DEF PlansNext

\* An answer holds on the page until a newer charge or a newer answer about
\* one of its names, however charges are detected, folded and parted
\* meanwhile: what was cancelled does not come back, a kept price is not
\* news, and a plan said to be still active is not asked about again.  Only a
\* call that read the Setting before the answer was saved, and saves after it,
\* or Kept later ones of its kind, take it away (ui/recurringDecisions.ts,
\* app/insights/actions.ts).
THEOREM AnswersStay == PlansSpec => []AnswersHold
  <1>1. FactsRecorded => AnswersHold
    <2> SUFFICES ASSUME FactsRecorded, NEW a \in answered, NEW p \in livePlans, p.members \subseteq a.names
                 PROVE  /\ a.choice = "cancel" => ~(p.lastDate <= a.lastDate)
                        /\ a.choice = "keep" /\ p.price = a.price => "Price up" \notin alertsOf(p)
                        /\ a.choice = "still" /\ p.lastDate = a.lastDate => "Not charging" \notin alertsOf(p)
      BY DEF AnswersHold
    <2>1. p \in plansNow /\ ~isCancelled(p)
      BY DEF livePlans
    <2>2. PICK d \in decisions[a.choice] :
             d.names = a.names /\ d.lastDate = a.lastDate /\ d.price = a.price
      BY DEF FactsRecorded, RecordedIn
    <2>3. reaches(d, p)
      BY <2>1, <2>2, RecordsReach
    <2>4. a.choice = "cancel" => ~(p.lastDate <= a.lastDate)
      BY <2>1, <2>2, <2>3 DEF isCancelled
    <2>5. a.choice = "keep" /\ p.price = a.price => "Price up" \notin alertsOf(p)
      BY <2>2, <2>3 DEF riseKept, alertsOf
    <2>6. a.choice = "still" /\ p.lastDate = a.lastDate => "Not charging" \notin alertsOf(p)
      BY <2>2, <2>3 DEF missedNews, alertsOf
    <2> QED
      BY <2>4, <2>5, <2>6
  <1> QED
    BY <1>1, InitPlans, PlansStep, PTL DEF PlansSpec

\* A plan the operator cancelled is not money spoken for until something newer
\* is charged (health/commitments.ts).
THEOREM CancelledStaysSilent == PlansSpec => []CancelledNotDue
  <1>1. FactsRecorded => CancelledNotDue
    <2> SUFFICES ASSUME FactsRecorded, NEW a \in answered, a.choice = "cancel",
                        NEW p \in detectedCommitments, p.members \subseteq a.names
                 PROVE  ~(p.lastDate <= a.lastDate)
      BY DEF CancelledNotDue
    <2>1. p \in plansNow /\ ~isCancelled(p)
      BY DEF detectedCommitments, silenced
    <2>2. PICK d \in decisions.cancel : d.names = a.names /\ d.lastDate = a.lastDate
      BY DEF FactsRecorded, RecordedIn
    <2> QED
      BY <2>1, <2>2, RecordsReach DEF isCancelled
  <1> QED
    BY <1>1, InitPlans, PlansStep, PTL DEF PlansSpec

-----------------------------------------------------------------------------
(* Schema upgrades. *)

\* Every schema that ships or was there, and what can come of them.
Schemas == FirstStored \union (UNION {Range(s) : s \in Shipments})
Shipping == UNION {sql.tables : sql \in Schemas}
Items == UNION {Range(t.items) : t \in Shipping}
StoredTables == [name : names(Shipping), items : Seq(Items), tail : {t.tail : t \in Shipping}]
Indexes == UNION {sql.indexes : sql \in Schemas}
Stores == [tables : SUBSET StoredTables, indexes : SUBSET Indexes]

\* What a plan for a schema may hold.
columnsIn(t) == {i \in Range(t.items) : isColumn(i)}
AddedTo(t) == {[do |-> "add column", table |-> t.name, column |-> parseColumn(i)] : i \in columnsIn(t)}
Steps(sql) ==
    {[do |-> "create table", table |-> t.name] : t \in sql.tables}
    \union (UNION {AddedTo(t) : t \in sql.tables})
    \union {[do |-> "create index", table |-> i.table, index |-> i] : i \in sql.indexes}
    \union {[do |-> "replace index", table |-> i.table, index |-> i] : i \in sql.indexes}

\* A schema as it ships is one a database can hold.
LEMMA SchemasAreStores ==
  ASSUME NEW sql \in Schemas
  PROVE  sql \in Stores
  <1>1. /\ sql = [tables |-> sql.tables, indexes |-> sql.indexes]
        /\ \A t \in sql.tables :
              t = [name |-> t.name, items |-> t.items, tail |-> t.tail] /\ t.items \in Seq(Range(t.items))
    BY SchemaAssumption DEF Schemas
  <1>2. sql.indexes \subseteq Indexes
    BY DEF Indexes
  <1>3. ASSUME NEW t \in sql.tables PROVE t \in StoredTables
    <2>1. t \in Shipping
      BY DEF Shipping
    <2>2. Range(t.items) \subseteq Items
      BY <2>1 DEF Items
    <2>3. t.items \in Seq(Items)
      <3>1. t.items \in Seq(Range(t.items))
        BY <1>1
      <3> QED
        BY <2>2, <3>1, SeqMonotonic
    <2> QED
      BY <1>1, <2>1, <2>3 DEF StoredTables, names
  <1> QED
    BY <1>1, <1>2, <1>3 DEF Stores

\* A column's item is whole wherever it is kept.
LEMMA ColumnsAreWhole ==
  ASSUME NEW i \in Items, isColumn(i)
  PROVE  /\ i = [name |-> i.name, type |-> i.type, clauses |-> i.clauses, default |-> i.default]
         /\ i.type \in DOMAIN upper /\ i.clauses \subseteq Clauses
  BY SchemaAssumption DEF Items, Shipping, Schemas

\* Two columns of one name that the delta calls the same are the same.
LEMMA SameColumn ==
  ASSUME NEW i \in Items, NEW j \in Items, isColumn(i), isColumn(j), i.name = j.name,
         ~columnDifference(parseColumn(i), parseColumn(j))
  PROVE  ofColumn(i) = ofColumn(j)
  <1>1. /\ i = [name |-> i.name, type |-> i.type, clauses |-> i.clauses, default |-> i.default]
        /\ i.clauses \subseteq Clauses
        /\ j = [name |-> j.name, type |-> j.type, clauses |-> j.clauses, default |-> j.default]
        /\ j.clauses \subseteq Clauses
    BY ColumnsAreWhole
  <1>2. /\ upper[i.type] = upper[j.type] /\ i.default = j.default
        /\ "NOT NULL" \in i.clauses <=> "NOT NULL" \in j.clauses
        /\ "PRIMARY KEY" \in i.clauses <=> "PRIMARY KEY" \in j.clauses
        /\ "UNIQUE" \in i.clauses <=> "UNIQUE" \in j.clauses
    BY DEF columnDifference, parseColumn
  <1>3. i.clauses \ {"REFERENCES"} = j.clauses \ {"REFERENCES"}
    BY <1>1, <1>2 DEF Clauses
  <1>4. ASSUME NEW k, k = [name |-> k.name, type |-> k.type, clauses |-> k.clauses, default |-> k.default]
        PROVE  ofColumn(k) = [name |-> k.name, type |-> upper[k.type],
                              clauses |-> k.clauses \ {"REFERENCES"}, default |-> k.default]
    <2> DEFINE n == k.name
               y == k.type
               c == k.clauses
               d == k.default
               u == upper[y]
               r == c \ {"REFERENCES"}
    <2>1. k = [name |-> n, type |-> y, clauses |-> c, default |-> d]
      BY <1>4
    <2>2. ofColumn(k) = [[k EXCEPT !.type = u] EXCEPT !.clauses = r]
      <3>1. [k EXCEPT !.type = u].clauses = c
        <4> HIDE DEF n, y, c, d, u, r
        <4> QED
          BY <2>1
      <3>2. ofColumn(k) = [k EXCEPT !.type = upper[k.type], !.clauses = k.clauses \ {"REFERENCES"}]
        BY DEF ofColumn
      <3> QED
        BY <3>2
    <2> HIDE DEF n, y, c, d, u, r
    <2>3. [k EXCEPT !.type = u] = [name |-> n, type |-> u, clauses |-> c, default |-> d]
      BY <2>1
    <2>4. [[name |-> n, type |-> u, clauses |-> c, default |-> d] EXCEPT !.clauses = r]
             = [name |-> n, type |-> u, clauses |-> r, default |-> d]
      OBVIOUS
    <2> QED
      BY ONLY <2>2, <2>3, <2>4 DEF n, y, c, d, u, r
  <1> QED
    BY <1>1, <1>2, <1>3, <1>4

\* Two tables of one name between which the delta finds nothing are the same.
LEMMA SameTable ==
  ASSUME NEW t \in StoredTables, NEW u \in StoredTables, t.name = u.name, NEW count,
         columnChanges(parseCreateTable(t), parseCreateTable(u), count).changes = {},
         columnChanges(parseCreateTable(t), parseCreateTable(u), count).refusals = {},
         constraintRefusals(parseCreateTable(t), parseCreateTable(u)) = {}
  PROVE  shapeOfTable(t) = shapeOfTable(u)
  <1> DEFINE want == parseCreateTable(t)
             have == parseCreateTable(u)
             missing == {c \in want.columns : c.name \notin names(have.columns)}
             extra == {c \in have.columns : c.name \notin names(want.columns)}
             addable == {c \in missing : extra = {} /\ ~whyCannotAdd(c, count)}
             differing == {c \in want.columns :
                             \E d \in sameName(have.columns, c.name) : columnDifference(c, d)}
  <1>1. columnsIn(t) \subseteq Items /\ columnsIn(u) \subseteq Items
    BY RangeOfSeq DEF StoredTables, columnsIn
  <1>2. /\ want.columns = {parseColumn(i) : i \in columnsIn(t)} /\ have.columns = {parseColumn(i) : i \in columnsIn(u)}
        /\ want.tail = t.tail /\ have.tail = u.tail
        /\ want.constraints = {i \in Range(t.items) : ~isColumn(i)}
        /\ have.constraints = {i \in Range(u.items) : ~isColumn(i)}
    BY DEF parseCreateTable, columnsIn
  <1>3. addable = {} /\ missing \ addable = {} /\ extra = {} /\ differing = {}
    <2>1. /\ columnChanges(want, have, count).changes
               = {[do |-> "add column", table |-> want.name, column |-> c] : c \in addable}
          /\ columnChanges(want, have, count).refusals
               = {<<want.name, c.name>> : c \in (missing \ addable) \union extra \union differing}
      BY DEF columnChanges
    <2> HIDE DEF want, have, missing, addable, extra, differing
    <2>2. /\ columnChanges(want, have, count).changes = {}
          /\ columnChanges(want, have, count).refusals = {}
      BY DEF want, have
    <2> QED
      BY <2>1, <2>2
  <1>4. missing = {}
    BY <1>3
  <1>5. want.constraints = have.constraints /\ want.tail = have.tail
    BY DEF constraintRefusals
  <1> HIDE DEF addable, want, have
  <1>6. ASSUME NEW i \in columnsIn(t) PROVE \E j \in columnsIn(u) : ofColumn(i) = ofColumn(j)
    <2>1. parseColumn(i).name = i.name /\ parseColumn(i) \in want.columns
      BY <1>2 DEF parseColumn
    <2>2. PICK j \in columnsIn(u) : parseColumn(j).name = i.name
      BY <1>2, <1>4, <2>1 DEF names
    <2>3. j.name = i.name
      BY <2>2 DEF parseColumn
    <2>4. ~columnDifference(parseColumn(i), parseColumn(j))
      BY <1>2, <1>3, <2>1, <2>2 DEF sameName
    <2> QED
      BY <1>1, <2>3, <2>4, SameColumn DEF columnsIn
  <1>7. ASSUME NEW j \in columnsIn(u) PROVE \E i \in columnsIn(t) : ofColumn(i) = ofColumn(j)
    <2>1. parseColumn(j).name = j.name /\ parseColumn(j) \in have.columns
      BY <1>2 DEF parseColumn
    <2>2. PICK i \in columnsIn(t) : parseColumn(i).name = j.name
      BY <1>2, <1>3, <2>1 DEF names
    <2>3. j.name = i.name /\ parseColumn(i) \in want.columns
      BY <1>2, <2>2 DEF parseColumn
    <2>4. ~columnDifference(parseColumn(i), parseColumn(j))
      BY <1>2, <1>3, <2>1, <2>2, <2>3 DEF sameName
    <2> QED
      BY <1>1, <2>3, <2>4, SameColumn DEF columnsIn
  <1>8. {ofColumn(i) : i \in columnsIn(t)} = {ofColumn(i) : i \in columnsIn(u)}
    BY <1>6, <1>7
  <1> QED
    BY <1>2, <1>5, <1>8 DEF shapeOfTable, columnsIn

\* The delta misses nothing: where it finds nothing, the database has the
\* schema.
LEMMA DeltaMissesNothing ==
  ASSUME NEW sql \in Stores, NEW db \in Stores, NEW counts,
         upToDate(diffSchema(parseSchemaSql(sql), parseSchemaSql(db), counts))
  PROVE  Matches(sql, db)
  <1> DEFINE desired == parseSchemaSql(sql)
             actual == parseSchemaSql(db)
             present == {t \in actual.tables : ~isInternalTable(t.name)}
             missing == {t \in desired.tables : t.name \notin names(present)}
             extra == {t \in present : t.name \notin names(desired.tables)}
             pairs == {p \in desired.tables \X present : p[1].name = p[2].name}
             columns == {columnChanges(p[1], p[2], counts[p[1].name]) : p \in pairs}
             kept == {u \in db.tables : u.name \notin Internal}
  <1> DEFINE creates == {[do |-> "create table", table |-> t.name] : t \in missing}
             adds == UNION {c.changes : c \in columns}
             indexing == indexChanges(desired, actual)
             unknown == {<<t.name>> : t \in extra}
             unlike == UNION {c.refusals : c \in columns}
             all == {constraintRefusals(p[1], p[2]) : p \in pairs}
             bound == UNION all
  <1>1. /\ diffSchema(desired, actual, counts).changes = creates \union adds \union indexing
        /\ diffSchema(desired, actual, counts).refusals = unknown \union unlike \union bound
    BY DEF diffSchema
  <1>2. /\ diffSchema(desired, actual, counts).changes = {}
        /\ diffSchema(desired, actual, counts).refusals = {}
    BY DEF upToDate
  <1>3. /\ desired.tables = {parseCreateTable(t) : t \in sql.tables} /\ desired.indexes = sql.indexes
        /\ actual.tables = {parseCreateTable(t) : t \in db.tables} /\ actual.indexes = db.indexes
    BY DEF parseSchemaSql
  <1> HIDE DEF desired, actual
  <1>4. /\ missing = {} /\ extra = {} /\ indexChanges(desired, actual) = {}
        /\ \A p \in pairs : /\ columnChanges(p[1], p[2], counts[p[1].name]).changes = {}
                            /\ columnChanges(p[1], p[2], counts[p[1].name]).refusals = {}
                            /\ constraintRefusals(p[1], p[2]) = {}
    <2>1. /\ creates = {} /\ adds = {} /\ indexing = {} /\ unknown = {} /\ unlike = {} /\ bound = {}
      <3> HIDE DEF creates, adds, indexing, unknown, unlike, bound
      <3> QED
        BY <1>1, <1>2
    <2>2. missing = {}
      <3> SUFFICES ASSUME NEW t \in missing PROVE FALSE
        OBVIOUS
      <3>1. [do |-> "create table", table |-> t.name] \in creates
        OBVIOUS
      <3> HIDE DEF creates
      <3> QED
        BY <2>1, <3>1
    <2>3. ASSUME NEW t \in extra PROVE FALSE
      <3>1. <<t.name>> \in unknown
        OBVIOUS
      <3> HIDE DEF unknown
      <3> QED
        BY <2>1, <3>1
    <2>4. ASSUME NEW p \in pairs PROVE constraintRefusals(p[1], p[2]) = {}
      <3>1. constraintRefusals(p[1], p[2]) \in all
        <4> HIDE DEF pairs
        <4> QED
          OBVIOUS
      <3> HIDE DEF all
      <3> QED
        BY <2>1, <3>1
    <2>5. ASSUME NEW c \in columns PROVE c.changes = {} /\ c.refusals = {}
      <3> HIDE DEF columns
      <3> QED
        BY <2>1
    <2>6. \A p \in pairs : columnChanges(p[1], p[2], counts[p[1].name]) \in columns
      <3> HIDE DEF pairs
      <3> QED
        OBVIOUS
    <2> HIDE DEF missing, extra, columns, pairs
    <2> QED
      BY <2>1, <2>2, <2>3, <2>4, <2>5, <2>6
  <1>5. present = {parseCreateTable(u) : u \in kept}
    BY <1>3 DEF isInternalTable, parseCreateTable
  <1>6. sql.tables \subseteq StoredTables /\ kept \subseteq StoredTables
    BY DEF Stores
  <1>7. ASSUME NEW t \in sql.tables, NEW u \in kept, t.name = u.name PROVE shapeOfTable(t) = shapeOfTable(u)
    <2> DEFINE a == parseCreateTable(t)
               b == parseCreateTable(u)
    <2>1. a.name = b.name /\ a \in desired.tables /\ b \in present
      BY <1>3, <1>5, <1>7 DEF parseCreateTable
    <2>2. <<a, b>> \in pairs
      <3> HIDE DEF a, b, present
      <3> QED
        BY <2>1
    <2> HIDE DEF pairs
    <2>3. /\ columnChanges(a, b, counts[a.name]).changes = {}
          /\ columnChanges(a, b, counts[a.name]).refusals = {} /\ constraintRefusals(a, b) = {}
      <3> HIDE DEF a, b
      <3> QED
        BY <1>4, <2>2
    <2> QED
      BY <1>6, <1>7, <2>3, SameTable
  <1>8. ASSUME NEW t \in sql.tables PROVE \E u \in kept : shapeOfTable(t) = shapeOfTable(u)
    <2>1. parseCreateTable(t) \in desired.tables /\ parseCreateTable(t).name = t.name
      BY <1>3 DEF parseCreateTable
    <2>2. PICK b \in present : b.name = t.name
      <3> HIDE DEF present
      <3> QED
        BY <1>4, <2>1 DEF names
    <2>3. PICK u \in kept : u.name = t.name
      BY <1>5, <2>2 DEF parseCreateTable
    <2> QED
      BY <1>7, <2>3
  <1>9. ASSUME NEW u \in kept PROVE \E t \in sql.tables : shapeOfTable(t) = shapeOfTable(u)
    <2>1. parseCreateTable(u) \in present /\ parseCreateTable(u).name = u.name
      BY <1>5 DEF parseCreateTable
    <2>2. PICK a \in desired.tables : a.name = u.name
      <3> HIDE DEF present
      <3> QED
        BY <1>4, <2>1 DEF names
    <2>3. PICK t \in sql.tables : t.name = u.name
      BY <1>3, <2>2 DEF parseCreateTable
    <2> QED
      BY <1>7, <2>3
  <1>10. sql.indexes \subseteq db.indexes
    <2> SUFFICES ASSUME NEW i \in sql.indexes PROVE i \in db.indexes
      OBVIOUS
    <2> DEFINE new == {j \in desired.indexes : j.name \notin names(actual.indexes)}
               changed == {j \in desired.indexes : \E k \in sameName(actual.indexes, j.name) : j # k}
    <2>0. new = {} /\ changed = {}
      <3>1. indexChanges(desired, actual) =
               {[do |-> "create index", table |-> j.table, index |-> j] : j \in new}
               \union {[do |-> "replace index", table |-> j.table, index |-> j] : j \in changed}
        BY DEF indexChanges
      <3> HIDE DEF new, changed
      <3> QED
        BY <1>4, <3>1
    <2>1. i.name \in names(db.indexes) /\ \A k \in sameName(db.indexes, i.name) : i = k
      BY <1>3, <2>0
    <2> QED
      BY <2>1 DEF names, sameName
  <1>11. {shapeOfTable(t) : t \in sql.tables} = {shapeOfTable(u) : u \in kept}
    BY <1>8, <1>9
  <1> QED
    BY <1>10, <1>11 DEF Matches

\* What the statements of a schema's plan are is finite.
LEMMA StepsAreFinite ==
  ASSUME NEW sql \in Schemas
  PROVE  IsFiniteSet(Steps(sql))
  <1>1. /\ IsFiniteSet(sql.tables) /\ IsFiniteSet(sql.indexes)
        /\ \A t \in sql.tables : t.items \in Seq(Range(t.items))
    BY SchemaAssumption DEF Schemas
  <1> DEFINE creates == {[do |-> "create table", table |-> t.name] : t \in sql.tables}
             adds == {AddedTo(t) : t \in sql.tables}
             news == {[do |-> "create index", table |-> i.table, index |-> i] : i \in sql.indexes}
             replaced == {[do |-> "replace index", table |-> i.table, index |-> i] : i \in sql.indexes}
  <1>2. IsFiniteSet(creates)
    <2>1. [t \in sql.tables |-> [do |-> "create table", table |-> t.name]] \in Surjection(sql.tables, creates)
      BY DEF Surjection
    <2> QED
      BY <1>1, <2>1, FS_Surjection
  <1>3. IsFiniteSet(adds)
    <2>1. [t \in sql.tables |-> AddedTo(t)] \in Surjection(sql.tables, adds)
      BY DEF Surjection
    <2> QED
      BY <1>1, <2>1, FS_Surjection
  <1>4. ASSUME NEW t \in sql.tables PROVE IsFiniteSet(AddedTo(t))
    <2>1. IsFiniteSet(DOMAIN t.items)
      BY <1>1, LenProperties, FS_Interval
    <2>2. t.items \in Surjection(DOMAIN t.items, Range(t.items))
      <3>1. t.items \in [1..Len(t.items) -> Range(t.items)]
        BY <1>1, LenProperties
      <3> QED
        BY <3>1 DEF Surjection, Range
    <2>3. IsFiniteSet(Range(t.items))
      BY <2>1, <2>2, FS_Surjection
    <2>4. IsFiniteSet(columnsIn(t))
      BY <2>3, FS_Subset, columnsIn(t) \in SUBSET Range(t.items) DEF columnsIn
    <2> DEFINE added == [i \in columnsIn(t) |-> [do |-> "add column", table |-> t.name, column |-> parseColumn(i)]]
    <2>5. added \in Surjection(columnsIn(t), AddedTo(t))
      BY DEF Surjection, AddedTo
    <2> HIDE DEF added
    <2> QED
      BY <2>4, <2>5, FS_Surjection
  <1>5. IsFiniteSet(news)
    <2>1. [i \in sql.indexes |-> [do |-> "create index", table |-> i.table, index |-> i]] \in Surjection(sql.indexes, news)
      BY DEF Surjection
    <2> QED
      BY <1>1, <2>1, FS_Surjection
  <1>6. IsFiniteSet(replaced)
    <2>1. [i \in sql.indexes |-> [do |-> "replace index", table |-> i.table, index |-> i]] \in Surjection(sql.indexes, replaced)
      BY DEF Surjection
    <2> QED
      BY <1>1, <2>1, FS_Surjection
  <1>7. Steps(sql) = creates \union (UNION adds) \union news \union replaced
    BY DEF Steps
  <1>8. IsFiniteSet(UNION adds)
    <2>1. \A T \in adds : IsFiniteSet(T)
      BY <1>4
    <2> HIDE DEF adds
    <2> QED
      BY <1>3, <2>1, FS_UNION
  <1> HIDE DEF creates, adds, news, replaced
  <1>9. IsFiniteSet(creates \union (UNION adds))
    BY <1>2, <1>8, FS_Union
  <1>10. IsFiniteSet((creates \union (UNION adds)) \union news)
    BY <1>5, <1>9, FS_Union
  <1>11. IsFiniteSet(((creates \union (UNION adds)) \union news) \union replaced)
    BY <1>6, <1>10, FS_Union
  <1> QED
    BY <1>7, <1>11

\* A finite set in some order is a sequence of its elements.
LEMMA OrderedIn ==
  ASSUME NEW S, NEW T \in SUBSET S, IsFiniteSet(T)
  PROVE  SetToSeq(T) \in Seq(S)
  <1>1. Cardinality(T) \in Nat /\ ExistsBijection(1..Cardinality(T), T)
    BY FS_CardinalityType
  <1>2. \E f \in [1..Cardinality(T) -> T] : IsInjective(f)
    BY <1>1 DEF ExistsBijection, Bijection, Injection, IsInjective
  <1>3. SetToSeq(T) \in [1..Cardinality(T) -> T]
    BY <1>2 DEF SetToSeq
  <1> QED
    BY <1>1, <1>3, IsASeq, SeqMonotonic

\* A plan is the changes of its delta, in order.
LEMMA PlansInOrder ==
  ASSUME NEW S, NEW delta, delta.changes \subseteq S, IsFiniteSet(delta.changes)
  PROVE  statementsOf(delta) \in Seq(S)
  <1> DEFINE ofKind(do) == SetToSeq({c \in delta.changes : c.do = do})
  <1>1. ASSUME NEW do PROVE ofKind(do) \in Seq(S)
    <2> DEFINE T == {c \in delta.changes : c.do = do}
    <2>1. T \in SUBSET S
      OBVIOUS
    <2>2. IsFiniteSet(T)
      BY FS_Subset, T \in SUBSET delta.changes
    <2> QED
      BY <2>1, <2>2, OrderedIn
  <1>2. statementsOf(delta) =
          ofKind("create table") \o ofKind("add column") \o ofKind("replace index") \o ofKind("create index")
    BY DEF statementsOf
  <1>3. /\ ofKind("create table") \in Seq(S) /\ ofKind("add column") \in Seq(S)
        /\ ofKind("replace index") \in Seq(S) /\ ofKind("create index") \in Seq(S)
    BY <1>1
  <1> HIDE DEF ofKind
  <1>4. ofKind("create table") \o ofKind("add column") \in Seq(S)
    BY <1>3, ConcatProperties
  <1>5. (ofKind("create table") \o ofKind("add column")) \o ofKind("replace index") \in Seq(S)
    BY <1>3, <1>4, ConcatProperties
  <1> QED
    BY <1>2, <1>3, <1>5, ConcatProperties

\* So it is statements of what the checkout asks for.
LEMMA PlansAreSteps ==
  ASSUME NEW sql \in Schemas, NEW delta, delta.changes \subseteq Steps(sql)
  PROVE  statementsOf(delta) \in Seq(Steps(sql))
  <1>1. IsFiniteSet(delta.changes)
    BY StepsAreFinite, FS_Subset
  <1> QED
    BY <1>1, PlansInOrder

\* The statements that add no column to a table there is.
Creations(sql) == {s \in Steps(sql) : s.do # "add column"}

\* The baseline of an empty database is of those.
LEMMA BaselinesAreSteps ==
  ASSUME NEW sql \in Schemas
  PROVE  baseline(sql) \in Seq(Creations(sql)) /\ baseline(sql) \in Seq(Steps(sql))
  <1> DEFINE creates == {[do |-> "create table", table |-> t.name] : t \in sql.tables}
             news == {[do |-> "create index", table |-> i.table, index |-> i] : i \in sql.indexes}
  <1>1. creates \in SUBSET Creations(sql) /\ news \in SUBSET Creations(sql)
    <2>1. creates \in SUBSET Steps(sql) /\ news \in SUBSET Steps(sql)
      BY DEF Steps
    <2>2. ASSUME NEW s \in creates PROVE s.do # "add column"
      <3>1. PICK t \in sql.tables : s = [do |-> "create table", table |-> t.name]
        OBVIOUS
      <3> HIDE DEF creates, news
      <3> QED
        BY <3>1
    <2>3. ASSUME NEW s \in news PROVE s.do # "add column"
      <3>1. PICK i \in sql.indexes : s = [do |-> "create index", table |-> i.table, index |-> i]
        OBVIOUS
      <3> HIDE DEF creates, news
      <3> QED
        BY <3>1
    <2> HIDE DEF creates, news
    <2> QED
      BY <2>1, <2>2, <2>3 DEF Creations
  <1>2. baseline(sql) = SetToSeq(creates) \o SetToSeq(news)
    BY DEF baseline
  <1>3. IsFiniteSet(Creations(sql))
    BY StepsAreFinite, FS_Subset, Creations(sql) \in SUBSET Steps(sql) DEF Creations
  <1> HIDE DEF creates, news
  <1>4. SetToSeq(creates) \in Seq(Creations(sql)) /\ SetToSeq(news) \in Seq(Creations(sql))
    BY <1>1, <1>3, FS_Subset, OrderedIn
  <1>5. baseline(sql) \in Seq(Creations(sql))
    BY <1>2, <1>4, ConcatProperties
  <1>6. Creations(sql) \subseteq Steps(sql)
    BY DEF Creations
  <1> QED
    BY <1>5, <1>6, SeqMonotonic

\* What a delta changes is what the checkout asks for, whatever is there.
LEMMA DeltasAreSteps ==
  ASSUME NEW sql \in Schemas, NEW db, NEW counts
  PROVE  diffSchema(parseSchemaSql(sql), db, counts).changes \subseteq Steps(sql)
  <1> DEFINE desired == parseSchemaSql(sql)
             present == {t \in db.tables : ~isInternalTable(t.name)}
             missing == {t \in desired.tables : t.name \notin names(present)}
             pairs == {p \in desired.tables \X present : p[1].name = p[2].name}
             columns == {columnChanges(p[1], p[2], counts[p[1].name]) : p \in pairs}
             creates == {[do |-> "create table", table |-> t.name] : t \in missing}
             adds == UNION {c.changes : c \in columns}
             indexing == indexChanges(desired, db)
  <1>1. diffSchema(desired, db, counts).changes = creates \union adds \union indexing
    BY DEF diffSchema
  <1>2. desired.tables = {parseCreateTable(t) : t \in sql.tables} /\ desired.indexes = sql.indexes
    BY DEF parseSchemaSql
  <1> HIDE DEF desired
  <1>3. creates \subseteq Steps(sql)
    <2>1. ASSUME NEW t \in missing PROVE [do |-> "create table", table |-> t.name] \in Steps(sql)
      <3>1. PICK u \in sql.tables : t = parseCreateTable(u)
        BY <1>2
      <3> QED
        BY <3>1 DEF parseCreateTable, Steps
    <2> HIDE DEF missing
    <2> QED
      BY <2>1
  <1>4. ASSUME NEW c \in columns PROVE c.changes \subseteq Steps(sql)
    <2>1. PICK p \in pairs : c = columnChanges(p[1], p[2], counts[p[1].name])
      OBVIOUS
    <2>2. p[1] \in desired.tables
      OBVIOUS
    <2>3. PICK u \in sql.tables : p[1] = parseCreateTable(u)
      BY <1>2, <2>2
    <2> HIDE DEF pairs, columns
    <2>4. ASSUME NEW x \in c.changes
          PROVE  \E col \in p[1].columns : x = [do |-> "add column", table |-> p[1].name, column |-> col]
      <3> DEFINE want == p[1]
                 have == p[2]
                 absent == {k \in want.columns : k.name \notin names(have.columns)}
                 extra == {k \in have.columns : k.name \notin names(want.columns)}
                 addable == {k \in absent : extra = {} /\ ~whyCannotAdd(k, counts[p[1].name])}
      <3>1. c.changes = {[do |-> "add column", table |-> want.name, column |-> k] : k \in addable}
        <4> HIDE DEF want, have
        <4>1. columnChanges(want, have, counts[p[1].name]).changes
                 = {[do |-> "add column", table |-> want.name, column |-> k] : k \in addable}
          BY DEF columnChanges
        <4> QED
          BY <2>1, <4>1 DEF want, have
      <3>2. addable \subseteq want.columns
        OBVIOUS
      <3> HIDE DEF addable
      <3> QED
        BY <2>4, <3>1, <3>2
    <2>5. ASSUME NEW x \in c.changes PROVE x \in AddedTo(u)
      <3>1. PICK col \in p[1].columns : x = [do |-> "add column", table |-> p[1].name, column |-> col]
        BY <2>4, <2>5
      <3>2. p[1].name = u.name /\ p[1].columns = {parseColumn(i) : i \in columnsIn(u)}
        BY <2>3 DEF parseCreateTable, columnsIn
      <3>3. PICK i \in columnsIn(u) : col = parseColumn(i)
        BY <3>1, <3>2
      <3> QED
        BY <3>1, <3>2, <3>3 DEF AddedTo
    <2>6. AddedTo(u) \subseteq Steps(sql)
      BY DEF Steps
    <2> QED
      BY <2>5, <2>6
  <1>5. adds \subseteq Steps(sql)
    <2> HIDE DEF columns
    <2> QED
      BY <1>4
  <1>6. indexing \subseteq Steps(sql)
    BY <1>2 DEF indexChanges, Steps
  <1> HIDE DEF creates, adds, indexing
  <1> QED
    BY <1>1, <1>3, <1>5, <1>6 DEF desired

\* A statement of a plan is of one of the four kinds.
LEMMA StatementsAre ==
  ASSUME NEW sql, NEW s \in Steps(sql)
  PROVE  \/ s.do = "create table"
         \/ /\ s.do = "add column"
            /\ \E t \in sql.tables : \E i \in columnsIn(t) :
                  s = [do |-> "add column", table |-> t.name, column |-> parseColumn(i)]
         \/ s.do \in {"create index", "replace index"} /\ s.index \in sql.indexes
  <1> DEFINE adds == {AddedTo(t) : t \in sql.tables}
  <1>1. \/ \E t \in sql.tables : s = [do |-> "create table", table |-> t.name]
        \/ s \in UNION adds
        \/ \E i \in sql.indexes : s = [do |-> "create index", table |-> i.table, index |-> i]
        \/ \E i \in sql.indexes : s = [do |-> "replace index", table |-> i.table, index |-> i]
    BY DEF Steps
  <1>2. ASSUME s \in UNION adds
        PROVE  \E t \in sql.tables : \E i \in columnsIn(t) :
                  s = [do |-> "add column", table |-> t.name, column |-> parseColumn(i)]
    <2>1. PICK t \in sql.tables : s \in AddedTo(t)
      BY <1>2
    <2> QED
      BY <2>1 DEF AddedTo
  <1>3. ASSUME NEW t \in sql.tables, NEW i \in columnsIn(t),
               s = [do |-> "add column", table |-> t.name, column |-> parseColumn(i)]
        PROVE  s.do = "add column"
    BY <1>3
  <1>4. ASSUME NEW t, s = [do |-> "create table", table |-> t.name] PROVE s.do = "create table"
    BY <1>4
  <1>5. ASSUME NEW i \in sql.indexes, NEW kind \in {"create index", "replace index"},
               s = [do |-> kind, table |-> i.table, index |-> i]
        PROVE  s.do \in {"create index", "replace index"} /\ s.index \in sql.indexes
    BY <1>5
  <1>6. CASE \E t \in sql.tables : s = [do |-> "create table", table |-> t.name]
    BY <1>4, <1>6
  <1>7. CASE s \in UNION adds
    <2> HIDE DEF adds
    <2> QED
      BY <1>2, <1>3, <1>7
  <1>8. CASE \E i \in sql.indexes : s = [do |-> "create index", table |-> i.table, index |-> i]
    BY <1>5, <1>8
  <1>9. CASE \E i \in sql.indexes : s = [do |-> "replace index", table |-> i.table, index |-> i]
    BY <1>5, <1>9
  <1> HIDE DEF adds
  <1> QED
    BY <1>1, <1>6, <1>7, <1>8, <1>9

\* The item a statement adds is the checkout's.
LEMMA ItemsAreShipped ==
  ASSUME NEW sql \in Schemas, NEW s, s.do = "add column", s \in Steps(sql)
  PROVE  itemOf(sql, s) \in Items
  <1>1. \E t \in sql.tables : \E i \in columnsIn(t) :
           s = [do |-> "add column", table |-> t.name, column |-> parseColumn(i)]
    BY StatementsAre
  <1>2. PICK t \in sql.tables : \E i \in columnsIn(t) :
           s = [do |-> "add column", table |-> t.name, column |-> parseColumn(i)]
    BY <1>1
  <1>3. PICK i \in columnsIn(t) : s = [do |-> "add column", table |-> t.name, column |-> parseColumn(i)]
    BY <1>2
  <1>4. s.table = t.name /\ s.column.name = i.name
    BY <1>3 DEF parseColumn
  <1>5. \A u \in sql.tables : u.name = t.name => u = t
    BY SchemaAssumption DEF Schemas
  <1>6. sameName(sql.tables, s.table) = {t}
    BY <1>4, <1>5 DEF sameName
  <1>7. (CHOOSE u \in sameName(sql.tables, s.table) : TRUE) = t
    BY <1>6
  <1>8. itemOf(sql, s) = CHOOSE j \in Range(t.items) : isColumn(j) /\ j.name = s.column.name
    BY <1>7 DEF itemOf
  <1>9. itemOf(sql, s) \in Range(t.items)
    BY <1>3, <1>4, <1>8 DEF columnsIn
  <1> QED
    BY <1>2, <1>9 DEF Items, Shipping

\* A table with a column more is one still.
LEMMA TablesGrow ==
  ASSUME NEW t \in StoredTables, NEW item \in Items
  PROVE  [t EXCEPT !.items = Append(t.items, item)] \in StoredTables
  <1>1. t.items \in Seq(Items)
    BY DEF StoredTables
  <1>2. Append(t.items, item) \in Seq(Items)
    BY <1>1, AppendProperties
  <1> QED
    BY <1>1, <1>2 DEF StoredTables

\* A database one of whose tables has a column more is one still.
LEMMA StoresGrow ==
  ASSUME NEW db \in Stores, NEW name, NEW item \in Items
  PROVE  [db EXCEPT !.tables = {IF t.name = name THEN [t EXCEPT !.items = Append(t.items, item)]
                                ELSE t : t \in db.tables}] \in Stores
  <1> DEFINE grown == {IF t.name = name THEN [t EXCEPT !.items = Append(t.items, item)] ELSE t : t \in db.tables}
  <1>1. grown \subseteq StoredTables
    BY TablesGrow DEF Stores
  <1> HIDE DEF grown
  <1>2. [db EXCEPT !.tables = grown] \in Stores
    BY <1>1 DEF Stores
  <1> QED
    BY <1>2 DEF grown

\* A statement leaves a database as SQLite may have it, or fails.
LEMMA StatementsKeepStores ==
  ASSUME NEW sql \in Schemas, NEW db \in Stores, NEW s \in Steps(sql)
  PROVE  execute(db, sql, s) \in Stores \union {Failed}
  <1>s. sql \in Stores /\ sql.tables \subseteq StoredTables /\ sql.indexes \subseteq Indexes
    BY SchemasAreStores DEF Stores
  <1>d. /\ db = [tables |-> db.tables, indexes |-> db.indexes]
        /\ db.tables \subseteq StoredTables /\ db.indexes \subseteq Indexes
    BY DEF Stores
  <1>k. \/ s.do = "create table"
        \/ s.do = "add column"
        \/ s.do \in {"create index", "replace index"} /\ s.index \in sql.indexes
    BY StatementsAre
  <1>1. ASSUME s.do = "create table" PROVE execute(db, sql, s) \in Stores
    <2>1. execute(db, sql, s) = IF s.table \in names(db.tables) THEN db
                                ELSE [db EXCEPT !.tables = @ \union sameName(sql.tables, s.table)]
      BY <1>1 DEF execute
    <2>2. sameName(sql.tables, s.table) \subseteq StoredTables
      BY <1>s DEF sameName
    <2> QED
      BY <1>d, <2>1, <2>2 DEF Stores
  <1>2. ASSUME s.do = "add column" PROVE execute(db, sql, s) \in Stores \union {Failed}
    <2> DEFINE item == itemOf(sql, s)
               name == s.table
               grown == {IF t.name = name THEN [t EXCEPT !.items = Append(t.items, item)] ELSE t : t \in db.tables}
    <2>1. execute(db, sql, s) = Failed \/ execute(db, sql, s) = [db EXCEPT !.tables = grown]
      BY <1>2 DEF execute
    <2>2. [db EXCEPT !.tables = grown] \in Stores
      <3>1. item \in Items
        BY <1>2, ItemsAreShipped
      <3> HIDE DEF item, name
      <3> QED
        BY <3>1, StoresGrow
    <2> HIDE DEF grown
    <2> QED
      BY <2>1, <2>2
  <1>3. ASSUME s.do \in {"create index", "replace index"}, s.index \in sql.indexes
        PROVE  execute(db, sql, s) \in Stores \union {Failed}
    <2> DEFINE kept == IF s.do = "replace index" THEN db.indexes \ sameName(db.indexes, s.index.name)
                       ELSE db.indexes
    <2>1. execute(db, sql, s) = IF s.index.name \in names(kept) THEN db
                                ELSE IF refusesIndex(db, s.index) THEN Failed
                                ELSE [db EXCEPT !.indexes = kept \union {s.index}]
      BY <1>3 DEF execute
    <2>2. kept \subseteq Indexes
      BY <1>d
    <2> HIDE DEF kept
    <2>3. kept \union {s.index} \subseteq Indexes
      BY <1>s, <1>3, <2>2
    <2> DEFINE grown == kept \union {s.index}
    <2>4. [db EXCEPT !.indexes = grown] \in Stores
      <3> HIDE DEF grown
      <3>1. grown \subseteq Indexes
        BY <2>3 DEF grown
      <3> QED
        BY <1>d, <3>1 DEF Stores
    <2> QED
      BY <2>1, <2>4
  <1> QED
    BY <1>k, <1>1, <1>2, <1>3

\* A database after each statement of a transaction.
Runs(run, db, sql, sequel) ==
    /\ run[0] = db
    /\ \A k \in 1..Len(sequel) :
          run[k] = IF isFailed(run[k - 1]) THEN run[k - 1] ELSE execute(run[k - 1], sql, sequel[k])
RunsWithin(New, db, sql, sequel) ==
    \E run \in [0..Len(sequel) -> New] :
        Runs(run, db, sql, sequel) /\ batch(db, sql, sequel) = run[Len(sequel)]

\* A transaction runs its statements one after another, until one fails.
LEMMA BatchesRun ==
  ASSUME NEW sql, NEW S, NEW sequel \in Seq(S), NEW New, NEW db \in New,
         \A d \in New : \A s \in S : ~isFailed(d) => execute(d, sql, s) \in New
  PROVE  RunsWithin(New, db, sql, sequel)
  <1> DEFINE D == DOMAIN sequel
             last == [s \in SUBSET D |-> Max(s)]
             take(d, s) == IF isFailed(d) THEN d ELSE execute(d, sql, s)
             step == [x \in D \X New |-> take(x[2], sequel[x[1]])]
             ByStep(f) == f = [s \in SUBSET D |->
                                 IF s = {} THEN db ELSE take(f[s \ {Max(s)}], sequel[Max(s)])]
  <1>1. batch(db, sql, sequel) = (CHOOSE f : ByStep(f))[D]
    BY DEF batch, FoldLeft, MapThenFoldSet
  <1>2. IsFiniteSet(D) /\ D \subseteq Nat /\ \A i \in D : sequel[i] \in S
    <2>1. D = 1..Len(sequel) /\ Len(sequel) \in Nat
      BY LenProperties
    <2>2. \A i \in 1..Len(sequel) : sequel[i] \in S
      BY ElementOfSeq
    <2> QED
      BY <2>1, <2>2, FS_Interval
  <1>3. Picks(last, D)
    <2> SUFFICES ASSUME NEW s \in SUBSET D, s # {} PROVE Max(s) \in s
      BY DEF Picks
    <2>1. IsFiniteSet(s) /\ s \in SUBSET Int
      BY <1>2, FS_Subset
    <2> QED
      BY <2>1, MaxIsIn
  <1>t. ASSUME NEW d \in New, NEW x \in S PROVE take(d, x) \in New
    OBVIOUS
  <1>4. step \in [D \X New -> New]
    <2> HIDE DEF take, D
    <2> QED
      BY <1>2, <1>t
  <1>5. PICK f \in [SUBSET D -> New] : Folded(f, D, last, step, db)
    <2> HIDE DEF D, last, step
    <2> QED
      BY <1>2, <1>3, <1>4, FoldExists
  <1>6. ByStep(f)
    <2>1. ASSUME NEW s \in SUBSET D, s # {}
          PROVE  /\ last[s] = Max(s)
                 /\ step[<<last[s], f[s \ {last[s]}]>>] = take(f[s \ {Max(s)}], sequel[Max(s)])
      <3>1. Max(s) \in D /\ last[s] = Max(s) /\ f[s \ {Max(s)}] \in New
        BY <1>3, <1>5, <2>1 DEF Picks
      <3> HIDE DEF take, D, last
      <3> QED
        BY <3>1
    <2> HIDE DEF step, last, take, D
    <2> QED
      BY <1>5, <2>1 DEF Folded
  <1> DEFINE it == CHOOSE h : ByStep(h)
  <1>7. ByStep(it)
    <2> HIDE DEF ByStep
    <2> QED
      BY <1>6
  <1>8. it[{}] \in New
    <2>1. it[{}] = db
      <3> HIDE DEF it, take
      <3> QED
        BY <1>7
    <2> QED
      BY <2>1
  <1>9. ASSUME NEW s \in SUBSET D, s # {}, it[s \ {Max(s)}] \in New
        PROVE  it[s] \in New /\ Max(s) \in s
    <2>1. Max(s) \in s /\ Max(s) \in D
      BY <1>3, <1>9 DEF Picks
    <2>2. it[s] = take(it[s \ {Max(s)}], sequel[Max(s)])
      <3> HIDE DEF it, take
      <3> QED
        BY <1>7, <1>9
    <2> HIDE DEF it, D, take
    <2> QED
      BY <1>2, <1>9, <1>t, <2>1, <2>2
  <1> HIDE DEF it
  <1> DEFINE Bad == {T \in SUBSET D : it[T] \notin New}
  <1>10. ASSUME Bad # {} PROVE FALSE
    <2> HIDE DEF D
    <2>1. PICK T \in Bad : \A U \in SUBSET T : U # T => U \notin Bad
      <3> HIDE DEF Bad
      <3>1. Bad \in SUBSET (SUBSET D)
        BY DEF Bad
      <3> QED
        BY <1>2, <1>10, <3>1, SmallestOf
    <2>2. T # {} /\ T \in SUBSET D
      BY <1>8, <2>1
    <2>3. Max(T) \in T
      BY <1>3, <2>2 DEF Picks
    <2>4. it[T \ {Max(T)}] \in New
      BY <2>1, <2>2, <2>3
    <2> QED
      BY <1>9, <2>1, <2>2, <2>4
  <1>11. \A T \in SUBSET D : it[T] \in New
    BY <1>10
  <1> HIDE DEF Bad
  <1> DEFINE n == Len(sequel)
             run == [k \in 0..n |-> it[1..k]]
  <1>12. D = 1..n /\ n \in Nat
    BY LenProperties
  <1> HIDE DEF D, n, take
  <1>13. run \in [0..n -> New]
    <2>1. \A k \in 0..n : 1..k \in SUBSET D
      BY <1>12
    <2> QED
      BY <1>11, <2>1
  <1>14. run[0] = db /\ run[n] = it[D]
    <2>1. 0 \in 0..n /\ n \in 0..n /\ 1..0 = {}
      BY <1>12
    <2>2. it[{}] = db
      BY <1>7
    <2> QED
      BY <1>12, <2>1, <2>2
  <1>15. ASSUME NEW k \in 1..n PROVE run[k] = take(run[k - 1], sequel[k])
    <2>1. /\ 1..k \in SUBSET D /\ 1..k # {} /\ k \in 0..n /\ k - 1 \in 0..n /\ k \in 1..k
          /\ \A m \in 1..k : k >= m
      <3>1. k \in Nat /\ k >= 1 /\ k <= n
        BY <1>12
      <3>2. 1..k \subseteq 1..n /\ k \in 1..k
        BY <1>12, <3>1
      <3>3. k \in 0..n /\ k - 1 \in 0..n /\ \A m \in 1..k : k >= m
        BY <1>12, <3>1
      <3> QED
        BY <1>12, <3>2, <3>3
    <2>2. Max(1..k) = k
      BY <2>1 DEF Max
    <2>3. (1..k) \ {k} = 1..(k - 1)
      BY <1>12
    <2>4. it[1..k] = take(it[(1..k) \ {Max(1..k)}], sequel[Max(1..k)])
      <3> HIDE DEF it
      <3> QED
        BY <1>7, <2>1
    <2> HIDE DEF it
    <2> QED
      BY <2>1, <2>2, <2>3, <2>4
  <1> QED
    <2>1. batch(db, sql, sequel) = run[n]
      BY <1>1, <1>14 DEF it
    <2>2. \A k \in 1..n : run[k] = IF isFailed(run[k - 1]) THEN run[k - 1] ELSE execute(run[k - 1], sql, sequel[k])
      BY <1>15 DEF take
    <2> HIDE DEF run
    <2> QED
      BY <1>13, <1>14, <2>1, <2>2 DEF n, Runs, RunsWithin

\* What each statement keeps, a transaction of them keeps.
LEMMA BatchesKeep ==
  ASSUME NEW sql, NEW S, NEW sequel \in Seq(S), NEW New, NEW db \in New,
         \A d \in New : \A s \in S : ~isFailed(d) => execute(d, sql, s) \in New
  PROVE  batch(db, sql, sequel) \in New
  <1>1. \E run \in [0..Len(sequel) -> New] : batch(db, sql, sequel) = run[Len(sequel)]
    <2>1. RunsWithin(New, db, sql, sequel)
      BY BatchesRun
    <2> QED
      BY <2>1 DEF RunsWithin
  <1>2. Len(sequel) \in 0..Len(sequel)
    BY LenProperties
  <1> QED
    BY <1>1, <1>2

\* So a transaction leaves a database as SQLite may have it, or fails.
LEMMA BatchesKeepStores ==
  ASSUME NEW sql \in Schemas, NEW db \in Stores, NEW sequel \in Seq(Steps(sql))
  PROVE  batch(db, sql, sequel) \in Stores \union {Failed}
  <1> DEFINE New == Stores \union {Failed}
  <1>1. ASSUME NEW d \in New, NEW s \in Steps(sql), ~isFailed(d) PROVE execute(d, sql, s) \in New
    <2>1. isFailed(Failed)
      BY DEF isFailed, Failed
    <2> QED
      BY <1>1, <2>1, StatementsKeepStores
  <1>2. db \in New
    OBVIOUS
  <1> HIDE DEF New
  <1>3. batch(db, sql, sequel) \in New
    BY <1>1, <1>2, BatchesKeep
  <1> QED
    BY <1>3 DEF New

\* A command at work: what it wants is shipped, what it read is a database,
\* and its plan is statements of what it wants.
CommandHolds(c) ==
    /\ c = [at |-> c.at, want |-> c.want, seen |-> c.seen, counts |-> c.counts,
            plan |-> c.plan, alone |-> c.alone]
    /\ c.at # "idle" => /\ c.want \in DOMAIN shipped /\ c.seen \in Stores
                        /\ c.plan \in Seq(Steps(shipped[c.want]))

SchemaInv ==
    /\ inDatabase \in Stores
    /\ shipped \in Shipments /\ checkout \in DOMAIN shipped
    /\ push = [p \in People |-> push[p]] /\ lastSaid = [p \in People |-> lastSaid[p]]
    /\ \A p \in People : CommandHolds(push[p])
    /\ UpToDateIsTrue

\* Every version that ships is a schema.
LEMMA ShippedAre ==
  ASSUME NEW s \in Shipments
  PROVE  /\ 1 \in DOMAIN s /\ DOMAIN s = 1..Len(s) /\ Len(s) \in Nat
         /\ \A v \in DOMAIN s : s[v] \in Schemas /\ s[v] \in Stores /\ s[v].tables \subseteq StoredTables
  <1>1. s \in Seq(Range(s)) /\ s # <<>>
    BY SchemaAssumption
  <1>2. DOMAIN s = 1..Len(s) /\ Len(s) \in Nat /\ 1 \in DOMAIN s
    BY <1>1, LenProperties, EmptySeq
  <1>3. ASSUME NEW v \in DOMAIN s PROVE s[v] \in Schemas /\ s[v] \in Stores /\ s[v].tables \subseteq StoredTables
    <2>1. s[v] \in Range(s)
      BY DEF Range
    <2>2. s[v] \in Schemas
      BY <2>1 DEF Schemas
    <2> QED
      BY <2>2, SchemasAreStores DEF Stores
  <1> QED
    BY <1>2, <1>3

\* Nothing at work holds.
LEMMA IdleHolds ==
  /\ CommandHolds(NoCommand)
  /\ NoSchema \in Stores
  /\ NoCommand = [at |-> "idle", want |-> 0, seen |-> NoSchema, counts |-> <<>>, plan |-> <<>>, alone |-> TRUE]
  BY DEF CommandHolds, NoCommand, NoSchema, Stores

\* It holds at first.
LEMMA InitSchema == SchemaInit => SchemaInv
  <1> SUFFICES ASSUME SchemaInit PROVE SchemaInv
    OBVIOUS
  <1>1. inDatabase \in Stores
    BY SchemasAreStores DEF SchemaInit, Schemas
  <1>2. shipped \in Shipments /\ checkout \in DOMAIN shipped
    BY ShippedAre DEF SchemaInit
  <1>3. /\ push = [p \in People |-> NoCommand] /\ lastSaid = [p \in People |-> Silent]
        /\ \A p \in People : lastSaid[p].so
    BY DEF SchemaInit, Silent
  <1>4. push = [p \in People |-> push[p]] /\ lastSaid = [p \in People |-> lastSaid[p]]
    BY <1>3
  <1>5. \A p \in People : CommandHolds(push[p])
    BY <1>3, IdleHolds
  <1> QED
    BY <1>1, <1>2, <1>3, <1>4, <1>5 DEF SchemaInv, UpToDateIsTrue

\* A step that leaves what ships and says alone, and whose commands hold.
LEMMA SchemaRests ==
  ASSUME SchemaInv, UNCHANGED <<shipped, lastSaid>>,
         inDatabase' \in Stores, checkout' \in DOMAIN shipped,
         push' = [p \in People |-> push'[p]], \A p \in People : CommandHolds(push'[p])
  PROVE  SchemaInv'
  <1>1. \A p \in People : CommandHolds(push[p])'
    BY DEF CommandHolds
  <1> QED
    BY <1>1 DEF SchemaInv, UpToDateIsTrue

\* A command that ends having said something of a database it read.
LEMMA SaysTrue ==
  ASSUME SchemaInv, NEW p \in People, NEW what, NEW known, Says(p, what, known),
         what \in {"up to date", "verified"} => Matches(shipped[push[p].want], known),
         UNCHANGED <<inDatabase, shipped, checkout>>, push' = [push EXCEPT ![p] = NoCommand] \/ push' = push
  PROVE  SchemaInv'
  <1> DEFINE said == [says |-> what, alone |-> push[p].alone,
                      so |-> what \in {"up to date", "verified"} => Matches(shipped[push[p].want], known),
                      unique |-> \E s \in Range(push[p].plan) : cautioned(s) /\ s.table \in doubles]
  <1>1. lastSaid' = [lastSaid EXCEPT ![p] = said] /\ said.so
    BY DEF Says
  <1> HIDE DEF said
  <1>2. /\ lastSaid' = [q \in People |-> lastSaid'[q]]
        /\ \A q \in People : lastSaid'[q].so
    BY <1>1 DEF SchemaInv, UpToDateIsTrue
  <1>3. push' = [q \in People |-> push'[q]] /\ \A q \in People : push'[q] = push[q] \/ push'[q] = NoCommand
    BY DEF SchemaInv
  <1>4. \A q \in People : CommandHolds(push'[q])
    BY <1>3, IdleHolds DEF SchemaInv
  <1>5. \A q \in People : CommandHolds(push[q])'
    BY <1>4 DEF CommandHolds
  <1> QED
    BY <1>2, <1>3, <1>5 DEF SchemaInv, UpToDateIsTrue

\* A command's fields, as it goes on.
Going(a, w, s, n, l, o) == [at |-> a, want |-> w, seen |-> s, counts |-> n, plan |-> l, alone |-> o]

\* A command that starts or goes on, three fields at once.
ToCount(c, x, y, z) == [c EXCEPT !.at = x, !.want = y, !.seen = z]
ToBase(c, x, y, z) == [c EXCEPT !.at = x, !.want = y, !.plan = z]
ToApply(c, x, y, z) == [c EXCEPT !.at = x, !.counts = y, !.plan = z]

\* One field after the other.
LEMMA Starts ==
  ASSUME NEW c, NEW a, NEW w, NEW s, NEW n, NEW l, NEW o, c = Going(a, w, s, n, l, o), NEW x, NEW y, NEW z
  PROVE  /\ ToCount(c, x, y, z) = Going(x, y, z, n, l, o)
         /\ ToBase(c, x, y, z) = Going(x, y, s, n, z, o)
         /\ ToApply(c, x, y, z) = Going(x, w, s, y, z, o)
  <1> DEFINE c1 == [c EXCEPT !.at = x]
  <1>1. c1 = Going(x, w, s, n, l, o)
    BY DEF Going
  <1> HIDE DEF c1
  <1> DEFINE c2 == [c1 EXCEPT !.want = y]
             c3 == [c1 EXCEPT !.counts = y]
  <1>2. c2 = Going(x, y, s, n, l, o) /\ c3 = Going(x, w, s, y, l, o)
    BY <1>1 DEF Going
  <1> HIDE DEF c2, c3
  <1>3. [c2 EXCEPT !.seen = z] = Going(x, y, z, n, l, o)
    BY <1>2 DEF Going
  <1>4. [c2 EXCEPT !.plan = z] = Going(x, y, s, n, z, o)
    BY <1>2 DEF Going
  <1>5. [c3 EXCEPT !.plan = z] = Going(x, w, s, y, z, o)
    BY <1>2 DEF Going
  <1> QED
    BY <1>3, <1>4, <1>5 DEF c1, c2, c3, ToCount, ToBase, ToApply

\* Nothing at work, field by field.
LEMMA IdleGoing == NoCommand = Going("idle", 0, NoSchema, <<>>, <<>>, NoCommand.alone)
  <1>1. NoCommand = Going("idle", 0, NoSchema, <<>>, <<>>, TRUE)
    BY ONLY DEF NoCommand, Going
  <1>2. NoCommand.alone = TRUE
    BY DEF NoCommand
  <1> QED
    BY ONLY <1>1, <1>2

\* A command forgotten, or no longer alone, holds still.
LEMMA AloneOrNot ==
  ASSUME NEW c, CommandHolds(c)
  PROVE  CommandHolds([c EXCEPT !.alone = FALSE])
  <1> DEFINE a == c.at
             w == c.want
             s == c.seen
             n == c.counts
             l == c.plan
             o == c.alone
  <1>1. c = Going(a, w, s, n, l, o)
    BY DEF CommandHolds, Going
  <1>2. a # "idle" => w \in DOMAIN shipped /\ s \in Stores /\ l \in Seq(Steps(shipped[w]))
    BY DEF CommandHolds
  <1> DEFINE no == FALSE
  <1> HIDE DEF a, w, s, n, l, o, no
  <1>3. [c EXCEPT !.alone = no] = Going(a, w, s, n, l, no)
    BY ONLY <1>1 DEF Going
  <1> QED
    BY <1>2, <1>3 DEF CommandHolds, Going, no

\* So it holds.
LEMMA GoingHolds ==
  ASSUME NEW a, NEW w \in DOMAIN shipped, NEW s \in Stores, NEW n,
         NEW l \in Seq(Steps(shipped[w])), NEW o
  PROVE  CommandHolds(Going(a, w, s, n, l, o))
  BY DEF CommandHolds, Going

\* Commands disturbed by another hold still.
LEMMA Disturbs ==
  ASSUME SchemaInv, NEW but
  PROVE  /\ disturbed(but) = [q \in People |-> disturbed(but)[q]]
         /\ \A q \in People : CommandHolds(disturbed(but)[q])
         /\ \A q \in People : q \in but => disturbed(but)[q] = push[q]
  <1>1. disturbed(but) = [q \in People |-> IF q \in but THEN push[q] ELSE [push[q] EXCEPT !.alone = FALSE]]
    BY DEF disturbed
  <1>2. ASSUME NEW q \in People PROVE CommandHolds([push[q] EXCEPT !.alone = FALSE])
    BY AloneOrNot DEF SchemaInv
  <1>3. ASSUME NEW q \in People
        PROVE  CommandHolds(disturbed(but)[q]) /\ (q \in but => disturbed(but)[q] = push[q])
    BY <1>1, <1>2 DEF SchemaInv
  <1> QED
    BY <1>1, <1>3

\* Every step keeps it.
LEMMA SchemaStep == SchemaInv /\ [SchemaNext]_scvars => SchemaInv'
  <1> SUFFICES ASSUME SchemaInv, [SchemaNext]_scvars PROVE SchemaInv'
    OBVIOUS
  <1>s. /\ inDatabase \in Stores /\ shipped \in Shipments /\ checkout \in DOMAIN shipped
        /\ push = [p \in People |-> push[p]] /\ lastSaid = [p \in People |-> lastSaid[p]]
        /\ \A p \in People : CommandHolds(push[p])
        /\ \A p \in People : lastSaid[p].so
    BY DEF SchemaInv, UpToDateIsTrue
  <1>v. /\ DOMAIN shipped = 1..Len(shipped) /\ Len(shipped) \in Nat
        /\ \A v \in DOMAIN shipped : /\ shipped[v] \in Schemas /\ shipped[v] \in Stores
                                     /\ shipped[v].tables \subseteq StoredTables
    BY <1>s, ShippedAre
  <1>f. ASSUME NEW p \in People, push' = [push EXCEPT ![p] = NoCommand]
        PROVE  push' = [q \in People |-> push'[q]] /\ \A q \in People : CommandHolds(push'[q])
    BY <1>s, <1>f, IdleHolds
  <1>0. CASE UNCHANGED scvars
    BY <1>0, <1>s, SchemaRests DEF scvars
  <1>1. CASE GitPull
    BY <1>1, <1>s, <1>v, SchemaRests DEF GitPull
  <1>2. ASSUME NEW t \in TableNames, RebuildByHand(t) PROVE SchemaInv'
    <2> DEFINE rebuilt == (inDatabase.tables \ sameName(inDatabase.tables, t))
                            \union sameName(shipped[checkout].tables, t)
    <2>1. /\ inDatabase' = [inDatabase EXCEPT !.tables = rebuilt] /\ push' = disturbed({})
          /\ UNCHANGED <<lastSaid, checkout, shipped>>
      BY <1>2 DEF RebuildByHand
    <2>2. rebuilt \subseteq StoredTables
      BY <1>s, <1>v DEF Stores, sameName
    <2> HIDE DEF rebuilt
    <2>3. inDatabase' \in Stores
      BY <1>s, <2>1, <2>2 DEF Stores
    <2> QED
      BY <1>s, <2>1, <2>3, Disturbs, SchemaRests
  <1>3. ASSUME NEW t \in TableNames, NEW again \in BOOLEAN, AppWrites(t, again) PROVE SchemaInv'
    <2>1. push' = disturbed({}) /\ UNCHANGED <<inDatabase, lastSaid, checkout, shipped>>
      BY <1>3 DEF AppWrites
    <2> QED
      BY <1>s, <2>1, Disturbs, SchemaRests
  <1>4. ASSUME NEW p \in People, PushReads(p) PROVE SchemaInv'
    <2>1. CASE inDatabase.tables = {}
      <3>1. Says(p, "empty", inDatabase) /\ UNCHANGED <<push, inDatabase, checkout, shipped>>
        BY <1>4, <2>1 DEF PushReads
      <3> QED
        BY <3>1, SaysTrue
    <2>2. CASE inDatabase.tables # {}
      <3> DEFINE c == [NoCommand EXCEPT !.at = "counting", !.want = checkout, !.seen = inDatabase]
      <3>1. /\ push' = [push EXCEPT ![p] = c] /\ lastSaid' = [lastSaid EXCEPT ![p] = Silent]
            /\ UNCHANGED <<inDatabase, checkout, shipped>>
        BY <1>4, <2>2 DEF PushReads
      <3>2. c = Going("counting", checkout, inDatabase, <<>>, <<>>, NoCommand.alone)
        <4>1. c = ToCount(NoCommand, "counting", checkout, inDatabase)
          BY DEF ToCount
        <4> HIDE DEF c
        <4> QED
          BY <4>1, IdleGoing, Starts
      <3> HIDE DEF c
      <3>3. <<>> \in Seq(Steps(shipped[checkout]))
        BY EmptySeq
      <3>4. CommandHolds(c)
        BY <1>s, <3>2, <3>3, GoingHolds
      <3>5. push' = [q \in People |-> push'[q]] /\ \A q \in People : CommandHolds(push'[q])
        BY <1>s, <3>1, <3>4
      <3>6. \A q \in People : CommandHolds(push[q])'
        BY <3>1, <3>5 DEF CommandHolds
      <3>7. lastSaid' = [q \in People |-> lastSaid'[q]] /\ \A q \in People : lastSaid'[q].so
        BY <1>s, <3>1 DEF Silent
      <3> QED
        BY <1>s, <3>1, <3>5, <3>6, <3>7 DEF SchemaInv, UpToDateIsTrue
    <2> QED
      BY <2>1, <2>2
  <1>5. ASSUME NEW p \in People, PushPlans(p) PROVE SchemaInv'
    <2> DEFINE want == shipped[push[p].want]
               delta == diffSchema(parseSchemaSql(want), parseSchemaSql(push[p].seen), held)
    <2>1. /\ push[p].at = "counting"
          /\ \/ upToDate(delta) /\ Says(p, "up to date", push[p].seen) /\ push' = [push EXCEPT ![p] = NoCommand]
             \/ Says(p, "refused", push[p].seen) /\ push' = [push EXCEPT ![p] = NoCommand]
             \/ /\ push' = [push EXCEPT ![p].at = "applying", ![p].counts = held, ![p].plan = statementsOf(delta)]
                /\ UNCHANGED lastSaid
          /\ UNCHANGED <<inDatabase, checkout, shipped>>
      BY <1>5, Zenon DEF PushPlans
    <2>2. /\ push[p].want \in DOMAIN shipped /\ push[p].seen \in Stores /\ want \in Schemas /\ want \in Stores
      BY <1>s, <1>v, <2>1 DEF CommandHolds
    <2>3. upToDate(delta) => Matches(want, push[p].seen)
      BY <2>2, DeltaMissesNothing
    <2>4. delta.changes \subseteq Steps(want)
      BY <2>2, DeltasAreSteps
    <2> HIDE DEF delta
    <2>5. statementsOf(delta) \in Seq(Steps(want))
      BY <2>2, <2>4, PlansAreSteps
    <2>6. CASE upToDate(delta) /\ Says(p, "up to date", push[p].seen) /\ push' = [push EXCEPT ![p] = NoCommand]
      BY <2>1, <2>3, <2>6, SaysTrue
    <2>7. CASE Says(p, "refused", push[p].seen) /\ push' = [push EXCEPT ![p] = NoCommand]
      BY <2>1, <2>7, SaysTrue
    <2>8. CASE /\ push' = [push EXCEPT ![p].at = "applying", ![p].counts = held, ![p].plan = statementsOf(delta)]
               /\ UNCHANGED lastSaid
      <3> DEFINE sequel == statementsOf(delta)
                 w == push[p].want
                 s == push[p].seen
                 o == push[p].alone
                 c == Going("applying", w, s, held, sequel, o)
      <3>1. push' = [push EXCEPT ![p] = [push[p] EXCEPT !.at = "applying", !.counts = held, !.plan = sequel]]
        BY <1>s, <2>8
      <3>2. ToApply(push[p], "applying", held, sequel) = c
        <4> DEFINE a == push[p].at
                   n == push[p].counts
                   l == push[p].plan
        <4>1. push[p] = Going(a, w, s, n, l, o)
          BY <1>s DEF CommandHolds, Going
        <4> HIDE DEF sequel, w, s, o, a, n, l
        <4> QED
          BY <4>1, Starts
      <3>3. CommandHolds(c)
        <4>1. w \in DOMAIN shipped /\ s \in Stores /\ sequel \in Seq(Steps(shipped[w]))
          BY <2>2, <2>5
        <4> HIDE DEF w, s, o, sequel
        <4> QED
          BY <4>1, GoingHolds
      <3> HIDE DEF c
      <3>4. push' = [push EXCEPT ![p] = c]
        BY <3>1, <3>2 DEF ToApply
      <3>5. push' = [q \in People |-> push'[q]] /\ \A q \in People : CommandHolds(push'[q])
        BY <1>s, <3>3, <3>4
      <3> QED
        BY <1>s, <2>1, <2>8, <3>5, SchemaRests
    <2> QED
      BY <2>1, <2>6, <2>7, <2>8
  <1>6. ASSUME NEW p \in People, PushApplies(p) PROVE SchemaInv'
    <2> DEFINE want == shipped[push[p].want]
               after == batch(inDatabase, want, push[p].plan)
    <2>1. /\ push[p].at = "applying"
          /\ \/ isFailed(after) /\ Says(p, "failed", inDatabase)
                /\ push' = [push EXCEPT ![p] = NoCommand] /\ UNCHANGED inDatabase
             \/ /\ ~isFailed(after) /\ inDatabase' = after
                /\ push' = [disturbed({p}) EXCEPT ![p].at = "verifying"] /\ UNCHANGED lastSaid
          /\ UNCHANGED <<checkout, shipped>>
      BY <1>6 DEF PushApplies
    <2>2. /\ push[p].want \in DOMAIN shipped /\ push[p].seen \in Stores /\ want \in Schemas
          /\ push[p].plan \in Seq(Steps(want))
      BY <1>s, <1>v, <2>1 DEF CommandHolds
    <2>3. after \in Stores \union {Failed}
      BY <1>s, <2>2, BatchesKeepStores
    <2> HIDE DEF after
    <2>4. CASE isFailed(after) /\ Says(p, "failed", inDatabase)
                /\ push' = [push EXCEPT ![p] = NoCommand] /\ UNCHANGED inDatabase
      BY <2>1, <2>4, SaysTrue
    <2>5. CASE /\ ~isFailed(after) /\ inDatabase' = after
               /\ push' = [disturbed({p}) EXCEPT ![p].at = "verifying"] /\ UNCHANGED lastSaid
      <3> DEFINE w == push[p].want
                 s == push[p].seen
                 n == push[p].counts
                 l == push[p].plan
                 o == push[p].alone
                 a == push[p].at
                 c == Going("verifying", w, s, n, l, o)
                 others == disturbed({p})
      <3>1. inDatabase' \in Stores
        BY <2>3, <2>5 DEF isFailed, Failed
      <3>2. /\ others = [q \in People |-> others[q]] /\ \A q \in People : CommandHolds(others[q])
            /\ others[p] = push[p]
        BY Disturbs
      <3>3. push[p] = Going(a, w, s, n, l, o)
        BY <1>s DEF CommandHolds, Going
      <3>4. CommandHolds(c)
        <4>1. w \in DOMAIN shipped /\ s \in Stores /\ l \in Seq(Steps(shipped[w]))
          BY <2>2
        <4> HIDE DEF w, s, n, l, o
        <4> QED
          BY <4>1, GoingHolds
      <3>5. push' = [others EXCEPT ![p] = c]
        <4>1. [push[p] EXCEPT !.at = "verifying"] = c
          <5> HIDE DEF w, s, n, l, o, a
          <5> QED
            BY <3>3 DEF Going
        <4> HIDE DEF others, c
        <4>2. push' = [others EXCEPT ![p] = [others[p] EXCEPT !.at = "verifying"]]
          BY <2>5 DEF others
        <4> QED
          BY <3>2, <4>1, <4>2
      <3> HIDE DEF c, others
      <3>6. push' = [q \in People |-> push'[q]] /\ \A q \in People : CommandHolds(push'[q])
        BY <3>2, <3>4, <3>5
      <3> QED
        BY <1>s, <2>1, <2>5, <3>1, <3>6, SchemaRests
    <2> QED
      BY <2>1, <2>4, <2>5
  <1>7. ASSUME NEW p \in People, PushVerifies(p) PROVE SchemaInv'
    <2> DEFINE want == shipped[push[p].want]
               after == diffSchema(parseSchemaSql(want), parseSchemaSql(inDatabase), push[p].counts)
               said == IF upToDate(after) THEN "verified" ELSE "survives"
    <2>1. /\ push[p].at = "verifying" /\ Says(p, said, inDatabase) /\ push' = [push EXCEPT ![p] = NoCommand]
          /\ UNCHANGED <<inDatabase, checkout, shipped>>
      BY <1>7 DEF PushVerifies
    <2>2. want \in Stores
      BY <1>s, <1>v, <2>1 DEF CommandHolds
    <2>3. upToDate(after) => Matches(want, inDatabase)
      BY <1>s, <2>2, DeltaMissesNothing
    <2>4. said \in {"up to date", "verified"} => Matches(want, inDatabase)
      BY <2>3
    <2> HIDE DEF said
    <2> QED
      BY <2>1, <2>4, SaysTrue
  <1>8. ASSUME NEW p \in People, BaselineStarts(p) PROVE SchemaInv'
    <2> DEFINE sequel == baseline(shipped[checkout])
               c == [NoCommand EXCEPT !.at = "baseline", !.want = checkout, !.plan = sequel]
    <2>1. /\ push' = [push EXCEPT ![p] = c] /\ lastSaid' = [lastSaid EXCEPT ![p] = Silent]
          /\ UNCHANGED <<inDatabase, checkout, shipped>>
      BY <1>8 DEF BaselineStarts
    <2>2. sequel \in Seq(Steps(shipped[checkout]))
      BY <1>s, <1>v, BaselinesAreSteps
    <2> HIDE DEF sequel
    <2>3. c = Going("baseline", checkout, NoSchema, <<>>, sequel, NoCommand.alone)
      <3>1. c = ToBase(NoCommand, "baseline", checkout, sequel)
        BY DEF ToBase
      <3> HIDE DEF c
      <3> QED
        BY <3>1, IdleGoing, Starts
    <2> HIDE DEF c
    <2>4. CommandHolds(c)
      BY <1>s, <2>2, <2>3, IdleHolds, GoingHolds
    <2>5. push' = [q \in People |-> push'[q]] /\ \A q \in People : CommandHolds(push'[q])
      BY <1>s, <2>1, <2>4
    <2>6. \A q \in People : CommandHolds(push[q])'
      BY <2>1, <2>5 DEF CommandHolds
    <2>7. lastSaid' = [q \in People |-> lastSaid'[q]] /\ \A q \in People : lastSaid'[q].so
      BY <1>s, <2>1 DEF Silent
    <2> QED
      BY <1>s, <2>1, <2>5, <2>6, <2>7 DEF SchemaInv, UpToDateIsTrue
  <1>9. ASSUME NEW p \in People, BaselineStep(p) PROVE SchemaInv'
    <2> DEFINE w == push[p].want
               s == push[p].seen
               n == push[p].counts
               l == push[p].plan
               o == push[p].alone
               a == push[p].at
               exists == IF Head(l).do = "create table" THEN Head(l).table \in names(inDatabase.tables)
                         ELSE Head(l).index.name \in names(inDatabase.indexes)
               after == IF exists THEN Failed ELSE execute(inDatabase, shipped[w], Head(l))
               c == Going("baseline", w, s, n, Tail(l), o)
               others == disturbed({p})
    <2>1. /\ a = "baseline" /\ l # <<>>
          /\ \/ push' = [push EXCEPT ![p] = NoCommand] /\ UNCHANGED inDatabase
             \/ /\ ~isFailed(after) /\ inDatabase' = after
                /\ push' = [others EXCEPT ![p].plan = Tail(@)]
          /\ UNCHANGED <<checkout, lastSaid, shipped>>
      BY <1>9 DEF BaselineStep
    <2>2. /\ w \in DOMAIN shipped /\ s \in Stores /\ shipped[w] \in Schemas
          /\ l \in Seq(Steps(shipped[w]))
      BY <1>s, <1>v, <2>1 DEF CommandHolds
    <2>3. Head(l) \in Steps(shipped[w]) /\ Tail(l) \in Seq(Steps(shipped[w]))
      <3> HIDE DEF l, w
      <3> QED
        BY <2>1, <2>2, HeadTailProperties
    <2>4. after \in Stores \union {Failed}
      <3>1. execute(inDatabase, shipped[w], Head(l)) \in Stores \union {Failed}
        BY <1>s, <2>2, <2>3, StatementsKeepStores
      <3> QED
        BY <3>1
    <2> HIDE DEF after
    <2>5. CASE push' = [push EXCEPT ![p] = NoCommand] /\ UNCHANGED inDatabase
      BY <1>s, <1>f, <2>1, <2>5, SchemaRests
    <2>6. CASE ~isFailed(after) /\ inDatabase' = after /\ push' = [others EXCEPT ![p].plan = Tail(@)]
      <3>1. inDatabase' \in Stores
        BY <2>4, <2>6 DEF isFailed, Failed
      <3>2. /\ others = [q \in People |-> others[q]] /\ \A q \in People : CommandHolds(others[q])
            /\ others[p] = push[p]
        BY Disturbs
      <3>3. push[p] = Going("baseline", w, s, n, l, o)
        BY <1>s, <2>1 DEF CommandHolds, Going
      <3>4. CommandHolds(c)
        <4> HIDE DEF w, s, n, l, o
        <4> QED
          BY <2>2, <2>3, GoingHolds
      <3>5. push' = [others EXCEPT ![p] = c]
        <4>1. [push[p] EXCEPT !.plan = Tail(push[p].plan)] = c
          <5>1. [push[p] EXCEPT !.plan = Tail(l)] = c
            <6> DEFINE k == Tail(l)
            <6> HIDE DEF w, s, n, l, o, k
            <6>1. [push[p] EXCEPT !.plan = k] = Going("baseline", w, s, n, k, o)
              BY <3>3 DEF Going
            <6> QED
              BY <6>1 DEF k
          <5> QED
            BY <5>1
        <4> HIDE DEF others, c
        <4>2. push' = [others EXCEPT ![p] = [others[p] EXCEPT !.plan = Tail(others[p].plan)]]
          BY <2>6
        <4> QED
          BY <3>2, <4>1, <4>2
      <3> HIDE DEF c, others
      <3>6. push' = [q \in People |-> push'[q]] /\ \A q \in People : CommandHolds(push'[q])
        BY <3>2, <3>4, <3>5
      <3> QED
        BY <1>s, <2>1, <3>1, <3>6, SchemaRests
    <2> QED
      BY <2>1, <2>5, <2>6
  <1>10. ASSUME NEW p \in People, BaselineDone(p) PROVE SchemaInv'
    BY <1>10, <1>s, <1>f, SchemaRests DEF BaselineDone
  <1>11. ASSUME NEW p \in People, CommandStopped(p) PROVE SchemaInv'
    BY <1>11, <1>s, <1>f, SchemaRests DEF CommandStopped
  <1> QED
    BY <1>0, <1>1, <1>2, <1>3, <1>4, <1>5, <1>6, <1>7, <1>8, <1>9, <1>10, <1>11 DEF SchemaNext

\* "Up to date" and "Verified" are said only of a database that has the
\* checkout's schema, whatever its tables went through before, whoever else
\* pushes, and wherever a command is stopped (scripts/push-schema.ts).
THEOREM PushSaysTrue == SchemaSpec => []UpToDateIsTrue
  <1>1. SchemaInv => UpToDateIsTrue
    BY DEF SchemaInv
  <1> QED
    BY <1>1, InitSchema, SchemaStep, PTL DEF SchemaSpec

-----------------------------------------------------------------------------
(* A first push stopped halfway. *)

\* Between a table and itself the delta finds nothing.
LEMMA TablesAgree ==
  ASSUME NEW sql \in Schemas, NEW t \in sql.tables, NEW count
  PROVE  /\ columnChanges(parseCreateTable(t), parseCreateTable(t), count).changes = {}
         /\ columnChanges(parseCreateTable(t), parseCreateTable(t), count).refusals = {}
         /\ constraintRefusals(parseCreateTable(t), parseCreateTable(t)) = {}
  <1> DEFINE want == parseCreateTable(t)
             missing == {c \in want.columns : c.name \notin names(want.columns)}
             addable == {c \in missing : missing = {} /\ ~whyCannotAdd(c, count)}
             differing == {c \in want.columns :
                             \E d \in sameName(want.columns, c.name) : columnDifference(c, d)}
  <1>1. want.columns = {parseColumn(i) : i \in columnsIn(t)}
    BY DEF parseCreateTable, columnsIn
  <1>2. \A i, j \in columnsIn(t) : i.name = j.name => i = j
    BY SchemaAssumption DEF Schemas, columnsIn
  <1>3. \A i \in columnsIn(t) : parseColumn(i).name = i.name
    BY DEF parseColumn
  <1> HIDE DEF want
  <1>4. missing = {}
    BY DEF names
  <1>5. differing = {}
    <2> SUFFICES ASSUME NEW c \in want.columns, NEW d \in want.columns, d.name = c.name
                 PROVE  ~columnDifference(c, d)
      BY DEF sameName
    <2>1. c = d
      BY <1>1, <1>2, <1>3
    <2> QED
      BY <2>1 DEF columnDifference
  <1>6. /\ columnChanges(want, want, count).changes
             = {[do |-> "add column", table |-> want.name, column |-> c] : c \in addable}
        /\ columnChanges(want, want, count).refusals
             = {<<want.name, c.name>> : c \in (missing \ addable) \union missing \union differing}
    BY DEF columnChanges
  <1>7. constraintRefusals(want, want) = {}
    BY DEF constraintRefusals
  <1>8. addable = {}
    BY <1>4
  <1> HIDE DEF missing, addable, differing
  <1> QED
    BY <1>4, <1>5, <1>6, <1>7, <1>8 DEF want

\* Of a database with some of a schema's tables and no other, the delta refuses
\* nothing, and adds no column.
LEMMA HalfIsCompleted ==
  ASSUME NEW sql \in Schemas, NEW db, db.tables \subseteq sql.tables, NEW counts
  PROVE  /\ diffSchema(parseSchemaSql(sql), parseSchemaSql(db), counts).refusals = {}
         /\ diffSchema(parseSchemaSql(sql), parseSchemaSql(db), counts).changes \subseteq Creations(sql)
  <1> DEFINE desired == parseSchemaSql(sql)
             actual == parseSchemaSql(db)
             present == {t \in actual.tables : ~isInternalTable(t.name)}
             missing == {t \in desired.tables : t.name \notin names(present)}
             extra == {t \in present : t.name \notin names(desired.tables)}
             pairs == {p \in desired.tables \X present : p[1].name = p[2].name}
             columns == {columnChanges(p[1], p[2], counts[p[1].name]) : p \in pairs}
             creates == {[do |-> "create table", table |-> t.name] : t \in missing}
             adds == UNION {c.changes : c \in columns}
             indexing == indexChanges(desired, actual)
             unknown == {<<t.name>> : t \in extra}
             unlike == UNION {c.refusals : c \in columns}
             all == {constraintRefusals(p[1], p[2]) : p \in pairs}
             bound == UNION all
  <1>1. /\ diffSchema(desired, actual, counts).changes = creates \union adds \union indexing
        /\ diffSchema(desired, actual, counts).refusals = unknown \union unlike \union bound
    BY DEF diffSchema
  <1>2. /\ desired.tables = {parseCreateTable(t) : t \in sql.tables}
        /\ actual.tables = {parseCreateTable(t) : t \in db.tables}
    BY DEF parseSchemaSql
  <1>3. \A t : parseCreateTable(t).name = t.name
    BY DEF parseCreateTable
  <1>4. \A t, u \in sql.tables : t.name = u.name => t = u
    BY SchemaAssumption DEF Schemas
  <1>c. diffSchema(desired, actual, counts).changes \subseteq Steps(sql)
    BY DeltasAreSteps
  <1> HIDE DEF desired, actual
  <1>5. extra = {}
    BY <1>2 DEF names
  <1>6. ASSUME NEW p \in pairs
        PROVE  /\ columnChanges(p[1], p[2], counts[p[1].name]).changes = {}
               /\ columnChanges(p[1], p[2], counts[p[1].name]).refusals = {}
               /\ constraintRefusals(p[1], p[2]) = {}
    <2>1. p[1] \in desired.tables /\ p[2] \in actual.tables /\ p[1].name = p[2].name
      OBVIOUS
    <2> HIDE DEF pairs
    <2>2. PICK t \in sql.tables : p[1] = parseCreateTable(t)
      BY <1>2, <2>1
    <2>3. PICK u \in db.tables : p[2] = parseCreateTable(u)
      BY <1>2, <2>1
    <2>4. t = u
      BY <1>3, <1>4, <2>1, <2>2, <2>3
    <2> DEFINE count == counts[p[1].name]
    <2> HIDE DEF count
    <2>5. /\ columnChanges(p[1], p[2], count).changes = {}
          /\ columnChanges(p[1], p[2], count).refusals = {}
          /\ constraintRefusals(p[1], p[2]) = {}
      BY <2>2, <2>3, <2>4, TablesAgree
    <2> QED
      BY <2>5 DEF count
  <1>7. ASSUME NEW c \in columns PROVE c.changes = {} /\ c.refusals = {}
    <2>1. PICK p \in pairs : c = columnChanges(p[1], p[2], counts[p[1].name])
      OBVIOUS
    <2> HIDE DEF columns, pairs
    <2> QED
      BY <1>6, <2>1
  <1>8. adds = {} /\ unlike = {}
    <2> HIDE DEF columns
    <2> QED
      BY <1>7
  <1>9. bound = {}
    <2>1. ASSUME NEW x \in all PROVE x = {}
      <3>1. PICK p \in pairs : x = constraintRefusals(p[1], p[2])
        OBVIOUS
      <3> HIDE DEF all, pairs
      <3> QED
        BY <1>6, <3>1
    <2> HIDE DEF all
    <2> QED
      BY <2>1
  <1>10. unknown = {}
    <2> HIDE DEF extra
    <2> QED
      BY <1>5
  <1>11. ASSUME NEW s \in creates PROVE s.do # "add column"
    <2>1. PICK t \in missing : s = [do |-> "create table", table |-> t.name]
      OBVIOUS
    <2> HIDE DEF missing
    <2> QED
      BY <2>1
  <1>12. ASSUME NEW s \in indexing PROVE s.do # "add column"
    <2>1. PICK i \in desired.indexes :
             \/ s = [do |-> "create index", table |-> i.table, index |-> i]
             \/ s = [do |-> "replace index", table |-> i.table, index |-> i]
      BY DEF indexChanges
    <2> HIDE DEF indexing, creates, missing
    <2>2. CASE s = [do |-> "create index", table |-> i.table, index |-> i]
      BY <2>2
    <2>3. CASE s = [do |-> "replace index", table |-> i.table, index |-> i]
      BY <2>3
    <2> QED
      BY <2>1, <2>2, <2>3
  <1> HIDE DEF creates, adds, indexing, unknown, unlike, bound
  <1> QED
    BY <1>1, <1>c, <1>8, <1>9, <1>10, <1>11, <1>12 DEF desired, actual, Creations

\* A statement that adds no column leaves a database with some of the schema's
\* tables and no other, or fails.
LEMMA CreationsKeep ==
  ASSUME NEW sql \in Schemas, NEW db \in Stores, db.tables \subseteq sql.tables, NEW s \in Creations(sql)
  PROVE  /\ execute(db, sql, s) \in Stores \union {Failed}
         /\ execute(db, sql, s).tables \subseteq sql.tables
  <1>1. s \in Steps(sql) /\ s.do # "add column"
    BY DEF Creations
  <1>2. execute(db, sql, s) \in Stores \union {Failed}
    BY <1>1, StatementsKeepStores
  <1>d. db = [tables |-> db.tables, indexes |-> db.indexes]
    BY DEF Stores
  <1>3. s.do = "create table" \/ s.do \in {"create index", "replace index"}
    BY <1>1, StatementsAre
  <1>4. CASE s.do = "create table"
    <2>1. execute(db, sql, s) = IF s.table \in names(db.tables) THEN db
                                ELSE [db EXCEPT !.tables = @ \union sameName(sql.tables, s.table)]
      BY <1>4 DEF execute
    <2> QED
      BY <1>2, <1>d, <2>1 DEF sameName
  <1>5. CASE s.do \in {"create index", "replace index"}
    <2> DEFINE kept == IF s.do = "replace index" THEN db.indexes \ sameName(db.indexes, s.index.name)
                       ELSE db.indexes
               grown == kept \union {s.index}
    <2>1. execute(db, sql, s) = IF s.index.name \in names(kept) THEN db
                                ELSE IF refusesIndex(db, s.index) THEN Failed
                                ELSE [db EXCEPT !.indexes = grown]
      BY <1>5 DEF execute
    <2> HIDE DEF kept, grown
    <2>2. [db EXCEPT !.indexes = grown].tables = db.tables
      BY <1>d
    <2>3. Failed.tables = {}
      BY DEF Failed
    <2> QED
      BY <1>2, <2>1, <2>2, <2>3
  <1> QED
    BY <1>3, <1>4, <1>5

\* So does a transaction of them.
LEMMA CreationBatchesKeep ==
  ASSUME NEW sql \in Schemas, NEW db \in Stores, db.tables \subseteq sql.tables, NEW sequel \in Seq(Creations(sql))
  PROVE  batch(db, sql, sequel).tables \subseteq sql.tables
  <1> DEFINE New == {d \in Stores \union {Failed} : d.tables \subseteq sql.tables}
  <1>1. ASSUME NEW d \in New, NEW s \in Creations(sql), ~isFailed(d) PROVE execute(d, sql, s) \in New
    <2>1. isFailed(Failed)
      BY DEF isFailed, Failed
    <2> QED
      BY <1>1, <2>1, CreationsKeep
  <1>2. db \in New
    OBVIOUS
  <1>3. batch(db, sql, sequel) \in New
    <2> HIDE DEF New
    <2> QED
      BY <1>1, <1>2, BatchesKeep
  <1> QED
    BY <1>3

\* The database was empty, and nobody has pulled since or rebuilt a table.
FirstPush == began.tables = {} /\ checkout = 1 /\ byHand = 0

\* Then a command at work asks for the first version, has read some of its
\* tables and no other, and adds no column.
OfFirst(c) ==
    c.at # "idle" => /\ c.want = 1 /\ c.seen.tables \subseteq shipped[1].tables
                     /\ c.plan \in Seq(Creations(shipped[1]))

HalfInv ==
    /\ byHand \in Nat
    /\ FirstPush => /\ inDatabase.tables \subseteq shipped[1].tables
                    /\ \A p \in People : OfFirst(push[p])

\* A step after which the first push is still the first.
LEMMA HalfRests ==
  ASSUME HalfInv, UNCHANGED <<began, shipped, checkout, byHand>>,
         FirstPush => inDatabase'.tables \subseteq shipped[1].tables /\ \A p \in People : OfFirst(push'[p])
  PROVE  HalfInv'
  <1>1. FirstPush' => FirstPush
    BY DEF FirstPush
  <1>2. ASSUME NEW p \in People, OfFirst(push'[p]) PROVE OfFirst(push[p])'
    BY <1>2 DEF OfFirst
  <1> QED
    BY <1>1, <1>2 DEF HalfInv

\* A command's fields as it goes on, and as it is disturbed.
LEMMA GoesOn ==
  ASSUME NEW c, CommandHolds(c), NEW x
  PROVE  /\ [c EXCEPT !.at = x] = Going(x, c.want, c.seen, c.counts, c.plan, c.alone)
         /\ [c EXCEPT !.plan = x] = Going(c.at, c.want, c.seen, c.counts, x, c.alone)
         /\ [c EXCEPT !.alone = x] = Going(c.at, c.want, c.seen, c.counts, c.plan, x)
  <1> DEFINE a == c.at
             w == c.want
             s == c.seen
             n == c.counts
             l == c.plan
             o == c.alone
  <1>1. c = Going(a, w, s, n, l, o)
    BY DEF CommandHolds, Going
  <1> HIDE DEF a, w, s, n, l, o
  <1>2. /\ [c EXCEPT !.at = x] = Going(x, w, s, n, l, o)
        /\ [c EXCEPT !.plan = x] = Going(a, w, s, n, x, o)
        /\ [c EXCEPT !.alone = x] = Going(a, w, s, n, l, x)
    BY ONLY <1>1 DEF Going
  <1> QED
    BY <1>2 DEF a, w, s, n, l, o

\* Whether a command is of the first push is told by what it wants, has read
\* and has left.
LEMMA FirstGoing ==
  ASSUME NEW a, NEW w, NEW s, NEW n, NEW l, NEW o,
         w = 1, s.tables \subseteq shipped[1].tables, l \in Seq(Creations(shipped[1]))
  PROVE  OfFirst(Going(a, w, s, n, l, o))
  BY DEF OfFirst, Going

\* The others' commands, disturbed, are of the first push still.
LEMMA FirstDisturbed ==
  ASSUME SchemaInv, \A p \in People : OfFirst(push[p]), NEW but, NEW q \in People
  PROVE  OfFirst(disturbed(but)[q])
  <1>1. disturbed(but)[q] = IF q \in but THEN push[q] ELSE [push[q] EXCEPT !.alone = FALSE]
    BY DEF disturbed
  <1> DEFINE c == push[q]
             no == FALSE
  <1>2. CommandHolds(c) /\ OfFirst(c)
    BY DEF SchemaInv
  <1>3. OfFirst([c EXCEPT !.alone = no])
    <2> HIDE DEF c, no
    <2>1. [c EXCEPT !.alone = no] = Going(c.at, c.want, c.seen, c.counts, c.plan, no)
      BY <1>2, GoesOn
    <2>2. CASE c.at = "idle"
      BY <2>1, <2>2 DEF OfFirst, Going
    <2>3. CASE c.at # "idle"
      BY <1>2, <2>1, <2>3, FirstGoing DEF OfFirst
    <2> QED
      BY <2>2, <2>3
  <1> QED
    BY <1>1, <1>2, <1>3

\* It holds at first.
LEMMA InitHalf == SchemaInit => HalfInv
  BY DEF SchemaInit, HalfInv, FirstPush, OfFirst, NoCommand

\* Every step keeps it.
LEMMA HalfStep == SchemaInv /\ HalfInv /\ [SchemaNext]_scvars => HalfInv'
  <1> SUFFICES ASSUME SchemaInv, HalfInv, [SchemaNext]_scvars PROVE HalfInv'
    OBVIOUS
  <1>s. /\ inDatabase \in Stores /\ shipped \in Shipments /\ checkout \in DOMAIN shipped
        /\ push = [p \in People |-> push[p]]
        /\ \A p \in People : CommandHolds(push[p])
        /\ byHand \in Nat
    BY DEF SchemaInv, HalfInv
  <1>v. /\ DOMAIN shipped = 1..Len(shipped) /\ Len(shipped) \in Nat
        /\ \A v \in DOMAIN shipped : shipped[v] \in Schemas /\ shipped[v] \in Stores
    BY <1>s, ShippedAre
  <1>h. FirstPush => /\ inDatabase.tables \subseteq shipped[1].tables
                     /\ \A p \in People : OfFirst(push[p])
    BY DEF HalfInv
  <1>i. OfFirst(NoCommand)
    BY DEF OfFirst, NoCommand
  <1>f. ASSUME NEW p \in People, NEW c, push' = [push EXCEPT ![p] = c], FirstPush, OfFirst(c)
        PROVE  \A q \in People : OfFirst(push'[q])
    BY <1>s, <1>h, <1>f
  <1>0. CASE UNCHANGED scvars
    BY <1>0, <1>h, HalfRests DEF scvars
  <1>1. CASE GitPull
    <2>1. checkout' = checkout + 1 /\ byHand' = byHand
      BY <1>1 DEF GitPull
    <2>2. checkout' # 1
      BY <1>s, <1>v, <2>1
    <2> QED
      BY <1>s, <2>1, <2>2 DEF HalfInv, FirstPush
  <1>2. ASSUME NEW t \in TableNames, RebuildByHand(t) PROVE HalfInv'
    <2>1. byHand' = byHand + 1
      BY <1>2 DEF RebuildByHand
    <2>2. byHand' \in Nat /\ byHand' # 0
      BY <1>s, <2>1
    <2> QED
      BY <2>2 DEF HalfInv, FirstPush
  <1>3. ASSUME NEW t \in TableNames, NEW again \in BOOLEAN, AppWrites(t, again) PROVE HalfInv'
    <2>1. push' = disturbed({}) /\ UNCHANGED <<inDatabase, began, checkout, byHand, shipped>>
      BY <1>3 DEF AppWrites
    <2> QED
      BY <1>h, <2>1, FirstDisturbed, HalfRests
  <1>4. ASSUME NEW p \in People, PushReads(p) PROVE HalfInv'
    <2>0. UNCHANGED <<inDatabase, began, checkout, byHand, shipped>>
      BY <1>4 DEF PushReads
    <2>1. CASE inDatabase.tables = {}
      <3>1. UNCHANGED push
        BY <1>4, <2>1 DEF PushReads
      <3> QED
        BY <1>h, <2>0, <3>1, HalfRests
    <2>2. CASE inDatabase.tables # {}
      <3> DEFINE c == [NoCommand EXCEPT !.at = "counting", !.want = checkout, !.seen = inDatabase]
      <3>1. push' = [push EXCEPT ![p] = c]
        BY <1>4, <2>2 DEF PushReads
      <3>2. c = Going("counting", checkout, inDatabase, <<>>, <<>>, NoCommand.alone)
        <4>1. c = ToCount(NoCommand, "counting", checkout, inDatabase)
          BY DEF ToCount
        <4> HIDE DEF c
        <4> QED
          BY <4>1, IdleGoing, Starts
      <3> HIDE DEF c
      <3>3. <<>> \in Seq(Creations(shipped[1]))
        BY EmptySeq
      <3>4. FirstPush => OfFirst(c)
        BY <1>h, <3>2, <3>3, FirstGoing DEF FirstPush
      <3> QED
        BY <1>f, <1>h, <2>0, <3>1, <3>4, HalfRests
    <2> QED
      BY <2>1, <2>2
  <1>5. ASSUME NEW p \in People, PushPlans(p) PROVE HalfInv'
    <2> DEFINE want == shipped[push[p].want]
               delta == diffSchema(parseSchemaSql(want), parseSchemaSql(push[p].seen), held)
               sequel == statementsOf(delta)
    <2>1. /\ push[p].at = "counting"
          /\ \/ push' = [push EXCEPT ![p] = NoCommand]
             \/ push' = [push EXCEPT ![p].at = "applying", ![p].counts = held, ![p].plan = sequel]
          /\ UNCHANGED <<inDatabase, began, checkout, byHand, shipped>>
      BY <1>5, Zenon DEF PushPlans
    <2>2. CASE push' = [push EXCEPT ![p] = NoCommand]
      BY <1>f, <1>h, <1>i, <2>1, <2>2, HalfRests
    <2>3. CASE push' = [push EXCEPT ![p].at = "applying", ![p].counts = held, ![p].plan = sequel]
      <3> DEFINE w == push[p].want
                 s == push[p].seen
                 o == push[p].alone
                 c == Going("applying", w, s, held, sequel, o)
      <3>1. ASSUME FirstPush PROVE w = 1 /\ s.tables \subseteq shipped[1].tables /\ sequel \in Seq(Creations(shipped[1]))
        <4>1. w = 1 /\ s.tables \subseteq shipped[1].tables
          BY <1>h, <2>1, <3>1 DEF OfFirst
        <4>2. want \in Schemas /\ want = shipped[1]
          BY <1>s, <1>v, <3>1, <4>1 DEF FirstPush
        <4>3. delta.changes \subseteq Creations(shipped[1])
          BY <4>1, <4>2, HalfIsCompleted
        <4>4. IsFiniteSet(delta.changes)
          <5>1. delta.changes \subseteq Steps(want)
            BY <4>2, DeltasAreSteps
          <5> HIDE DEF delta
          <5> QED
            BY <4>2, <5>1, StepsAreFinite, FS_Subset
        <4> HIDE DEF delta
        <4>5. sequel \in Seq(Creations(shipped[1]))
          BY <4>3, <4>4, PlansInOrder
        <4> QED
          BY <4>1, <4>5
      <3>2. ToApply(push[p], "applying", held, sequel) = c
        <4> DEFINE a == push[p].at
                   n == push[p].counts
                   l == push[p].plan
        <4>1. push[p] = Going(a, w, s, n, l, o)
          BY <1>s DEF CommandHolds, Going
        <4> HIDE DEF sequel, w, s, o, a, n, l
        <4> QED
          BY <4>1, Starts
      <3>3. push' = [push EXCEPT ![p] = [push[p] EXCEPT !.at = "applying", !.counts = held, !.plan = sequel]]
        BY <1>s, <2>3
      <3>4. FirstPush => OfFirst(c)
        <4> HIDE DEF w, s, o, sequel
        <4> QED
          BY <3>1, FirstGoing
      <3> HIDE DEF c, sequel
      <3>5. push' = [push EXCEPT ![p] = c]
        BY <3>2, <3>3 DEF ToApply
      <3> QED
        BY <1>f, <1>h, <2>1, <3>4, <3>5, HalfRests
    <2> QED
      BY <2>1, <2>2, <2>3
  <1>6. ASSUME NEW p \in People, PushApplies(p) PROVE HalfInv'
    <2> DEFINE want == shipped[push[p].want]
               after == batch(inDatabase, want, push[p].plan)
               others == disturbed({p})
    <2>1. /\ push[p].at = "applying"
          /\ \/ push' = [push EXCEPT ![p] = NoCommand] /\ UNCHANGED inDatabase
             \/ /\ inDatabase' = after
                /\ push' = [others EXCEPT ![p].at = "verifying"]
          /\ UNCHANGED <<began, checkout, byHand, shipped>>
      BY <1>6 DEF PushApplies
    <2>2. CASE push' = [push EXCEPT ![p] = NoCommand] /\ UNCHANGED inDatabase
      BY <1>f, <1>h, <1>i, <2>1, <2>2, HalfRests
    <2>3. CASE inDatabase' = after /\ push' = [others EXCEPT ![p].at = "verifying"]
      <3>1. ASSUME FirstPush PROVE after.tables \subseteq shipped[1].tables
        <4>1. push[p].want = 1 /\ push[p].plan \in Seq(Creations(shipped[1]))
          BY <1>h, <2>1, <3>1 DEF OfFirst
        <4>2. want = shipped[1] /\ want \in Schemas
          BY <1>s, <1>v, <3>1, <4>1 DEF FirstPush
        <4> QED
          BY <1>s, <1>h, <3>1, <4>1, <4>2, CreationBatchesKeep
      <3>2. others = [q \in People |-> others[q]] /\ others[p] = push[p]
        BY Disturbs
      <3>3. ASSUME FirstPush, NEW q \in People PROVE OfFirst(push'[q])
        <4> DEFINE c == push[p]
                   d == [c EXCEPT !.at = "verifying"]
        <4>1. OfFirst(others[q])
          BY <1>h, <3>3, FirstDisturbed
        <4>2. CommandHolds(c) /\ OfFirst(c) /\ c.at # "idle"
          BY <1>s, <1>h, <2>1, <3>3
        <4>3. push' = [others EXCEPT ![p] = d]
          BY <2>3, <3>2
        <4> HIDE DEF c, others
        <4>4. OfFirst(d)
          <5>1. d = Going("verifying", c.want, c.seen, c.counts, c.plan, c.alone)
            BY <4>2, GoesOn
          <5>2. c.want = 1 /\ c.seen.tables \subseteq shipped[1].tables /\ c.plan \in Seq(Creations(shipped[1]))
            BY <4>2 DEF OfFirst
          <5> HIDE DEF d
          <5> QED
            BY <5>1, <5>2, FirstGoing
        <4> HIDE DEF d
        <4> QED
          BY <3>2, <4>1, <4>3, <4>4
      <3> QED
        BY <2>1, <2>3, <3>1, <3>3, HalfRests
    <2> QED
      BY <2>1, <2>2, <2>3
  <1>7. ASSUME NEW p \in People, PushVerifies(p) PROVE HalfInv'
    <2>1. push' = [push EXCEPT ![p] = NoCommand] /\ UNCHANGED <<inDatabase, began, checkout, byHand, shipped>>
      BY <1>7 DEF PushVerifies
    <2> QED
      BY <1>f, <1>h, <1>i, <2>1, HalfRests
  <1>8. ASSUME NEW p \in People, BaselineStarts(p) PROVE HalfInv'
    <2> DEFINE sequel == baseline(shipped[checkout])
               c == [NoCommand EXCEPT !.at = "baseline", !.want = checkout, !.plan = sequel]
    <2>1. push' = [push EXCEPT ![p] = c] /\ UNCHANGED <<inDatabase, began, checkout, byHand, shipped>>
      BY <1>8 DEF BaselineStarts
    <2>2. sequel \in Seq(Creations(shipped[checkout]))
      BY <1>s, <1>v, BaselinesAreSteps
    <2> HIDE DEF sequel
    <2>3. c = Going("baseline", checkout, NoSchema, <<>>, sequel, NoCommand.alone)
      <3>1. c = ToBase(NoCommand, "baseline", checkout, sequel)
        BY DEF ToBase
      <3> HIDE DEF c
      <3> QED
        BY <3>1, IdleGoing, Starts
    <2> HIDE DEF c
    <2>4. NoSchema.tables = {}
      BY DEF NoSchema
    <2>5. FirstPush => OfFirst(c)
      BY <2>2, <2>3, <2>4, FirstGoing DEF FirstPush
    <2> QED
      BY <1>f, <1>h, <2>1, <2>5, HalfRests
  <1>9. ASSUME NEW p \in People, BaselineStep(p) PROVE HalfInv'
    <2> DEFINE l == push[p].plan
               w == push[p].want
               done == execute(inDatabase, shipped[w], Head(l))
               others == disturbed({p})
    <2>1. /\ push[p].at = "baseline" /\ l # <<>>
          /\ \/ push' = [push EXCEPT ![p] = NoCommand] /\ UNCHANGED inDatabase
             \/ /\ inDatabase' \in {done, Failed}
                /\ push' = [others EXCEPT ![p].plan = Tail(@)]
          /\ UNCHANGED <<began, checkout, byHand, shipped>>
      BY <1>9 DEF BaselineStep
    <2>2. CASE push' = [push EXCEPT ![p] = NoCommand] /\ UNCHANGED inDatabase
      BY <1>f, <1>h, <1>i, <2>1, <2>2, HalfRests
    <2>3. CASE inDatabase' \in {done, Failed} /\ push' = [others EXCEPT ![p].plan = Tail(@)]
      <3>o. ASSUME FirstPush
            PROVE  /\ w = 1 /\ push[p].seen.tables \subseteq shipped[1].tables /\ l \in Seq(Creations(shipped[1]))
                   /\ shipped[w] = shipped[1] /\ shipped[1] \in Schemas
                   /\ Head(l) \in Creations(shipped[1]) /\ Tail(l) \in Seq(Creations(shipped[1]))
        <4>1. w = 1 /\ push[p].seen.tables \subseteq shipped[1].tables /\ l \in Seq(Creations(shipped[1]))
          BY <1>h, <2>1, <3>o DEF OfFirst
        <4>2. shipped[1] \in Schemas
          BY <1>s, <1>v, <3>o DEF FirstPush
        <4> HIDE DEF l
        <4> QED
          BY <2>1, <4>1, <4>2, HeadTailProperties
      <3>1. ASSUME FirstPush PROVE inDatabase'.tables \subseteq shipped[1].tables
        <4>1. done.tables \subseteq shipped[1].tables
          BY <1>s, <1>h, <3>o, <3>1, CreationsKeep
        <4>2. Failed.tables = {}
          BY DEF Failed
        <4> HIDE DEF done
        <4> QED
          BY <2>3, <4>1, <4>2
      <3>2. others = [q \in People |-> others[q]] /\ others[p] = push[p]
        BY Disturbs
      <3>3. ASSUME FirstPush, NEW q \in People PROVE OfFirst(push'[q])
        <4> DEFINE c == push[p]
                   k == Tail(l)
                   d == [c EXCEPT !.plan = k]
        <4>1. OfFirst(others[q])
          BY <1>h, <3>3, FirstDisturbed
        <4>2. CommandHolds(c) /\ c.want = 1 /\ c.seen.tables \subseteq shipped[1].tables /\ k \in Seq(Creations(shipped[1]))
          BY <1>s, <3>o, <3>3
        <4>3. push' = [others EXCEPT ![p] = d]
          <5>1. push' = [others EXCEPT ![p] = [others[p] EXCEPT !.plan = Tail(others[p].plan)]]
            BY <2>3
          <5> HIDE DEF others
          <5> QED
            BY <3>2, <5>1
        <4> HIDE DEF c, k, others
        <4>4. OfFirst(d)
          <5>1. d = Going(c.at, c.want, c.seen, c.counts, k, c.alone)
            BY <4>2, GoesOn
          <5> HIDE DEF d
          <5> QED
            BY <4>2, <5>1, FirstGoing
        <4> HIDE DEF d
        <4> QED
          BY <3>2, <4>1, <4>3, <4>4
      <3> QED
        BY <2>1, <2>3, <3>1, <3>3, HalfRests
    <2> QED
      BY <2>1, <2>2, <2>3
  <1>10. ASSUME NEW p \in People, BaselineDone(p) PROVE HalfInv'
    <2>1. push' = [push EXCEPT ![p] = NoCommand] /\ UNCHANGED <<inDatabase, began, checkout, byHand, shipped>>
      BY <1>10 DEF BaselineDone
    <2> QED
      BY <1>f, <1>h, <1>i, <2>1, HalfRests
  <1>11. ASSUME NEW p \in People, CommandStopped(p) PROVE HalfInv'
    <2>1. push' = [push EXCEPT ![p] = NoCommand] /\ UNCHANGED <<inDatabase, began, checkout, byHand, shipped>>
      BY <1>11 DEF CommandStopped
    <2> QED
      BY <1>f, <1>h, <1>i, <2>1, HalfRests
  <1> QED
    BY <1>0, <1>1, <1>2, <1>3, <1>4, <1>5, <1>6, <1>7, <1>8, <1>9, <1>10, <1>11 DEF SchemaNext

\* A first push stopped halfway, by whichever command and however often, is one
\* schema:push completes: of what it left behind the delta refuses nothing
\* (scripts/turso-push.ts, scripts/push-schema.ts).
THEOREM HalfPushCompletes == SchemaSpec => []HalfBaselineCompletes
  <1>1. SchemaInv /\ HalfInv => HalfBaselineCompletes
    <2> SUFFICES ASSUME SchemaInv, HalfInv, FirstPush
                 PROVE  diffSchema(parseSchemaSql(shipped[1]), parseSchemaSql(inDatabase), held).refusals = {}
      BY DEF HalfBaselineCompletes, FirstPush
    <2>1. inDatabase.tables \subseteq shipped[1].tables
      BY DEF HalfInv
    <2>2. shipped[1] \in Schemas
      BY ShippedAre DEF SchemaInv
    <2> QED
      BY <2>1, <2>2, HalfIsCompleted
  <1> QED
    BY <1>1, InitSchema, InitHalf, SchemaStep, HalfStep, PTL DEF SchemaSpec

\* A list of a set: each of its members, once.
Lists(s, S) == s \in Seq(S) /\ Range(s) = S /\ \A i, j \in DOMAIN s : s[i] = s[j] => i = j

\* A finite set in some order lists it.
LEMMA SetsAreListed ==
  ASSUME NEW S, IsFiniteSet(S)
  PROVE  Lists(SetToSeq(S), S)
  <1> DEFINE n == Cardinality(S)
             s == SetToSeq(S)
  <1>1. n \in Nat /\ ExistsBijection(1..n, S)
    BY FS_CardinalityType
  <1>2. \E f \in [1..n -> S] : IsInjective(f)
    BY <1>1 DEF ExistsBijection, Bijection, Injection, IsInjective
  <1>3. s \in [1..n -> S] /\ IsInjective(s)
    BY <1>2 DEF SetToSeq
  <1> HIDE DEF s
  <1>4. s \in Seq(S)
    BY <1>1, <1>3, IsASeq
  <1>5. IsFiniteSet(1..n) /\ Cardinality(1..n) = n
    BY <1>1, FS_Interval
  <1>6. s \in Injection(1..n, S)
    BY <1>3 DEF Injection, IsInjective
  <1>7. s \in Surjection(1..n, S)
    BY <1>5, <1>6, FS_Injection
  <1>8. DOMAIN s = 1..n /\ Range(s) = S
    BY <1>3, <1>7 DEF Surjection, Range
  <1> QED
    BY <1>3, <1>4, <1>8 DEF Lists, IsInjective, s

\* One list after another lists both, the first's members before the second's.
Follows(w, s, S, T) ==
    /\ Lists(w, S \union T)
    /\ \A i \in DOMAIN w : w[i] \in T => \A x \in S : \E j \in 1..(i - 1) : w[j] = x
    /\ \A i \in DOMAIN w : w[i] \in S => i \in DOMAIN s
    /\ \A i \in DOMAIN s : i \in DOMAIN w /\ w[i] = s[i]

LEMMA ListsFollow ==
  ASSUME NEW S, NEW T, NEW s, NEW t, Lists(s, S), Lists(t, T), S \intersect T = {}
  PROVE  Follows(s \o t, s, S, T)
  <1> DEFINE both == S \union T
  <1>1. /\ s \in Seq(both) /\ t \in Seq(both)
        /\ Len(s) \in Nat /\ Len(t) \in Nat /\ DOMAIN s = 1..Len(s) /\ DOMAIN t = 1..Len(t)
        /\ \A i \in DOMAIN s : s[i] \in S
        /\ \A i \in DOMAIN t : t[i] \in T
    <2>1. s \in Seq(S) /\ t \in Seq(T)
      BY DEF Lists
    <2> QED
      BY <2>1, LenProperties, SeqMonotonic, ElementOfSeq
  <1> DEFINE w == s \o t
  <1>2. /\ w \in Seq(both) /\ Len(w) = Len(s) + Len(t) /\ DOMAIN w = 1..Len(s) + Len(t)
        /\ \A i \in 1..Len(s) + Len(t) : w[i] = IF i <= Len(s) THEN s[i] ELSE t[i - Len(s)]
    <2>1. /\ w \in Seq(both) /\ Len(w) = Len(s) + Len(t)
          /\ \A i \in 1..Len(s) + Len(t) : w[i] = IF i <= Len(s) THEN s[i] ELSE t[i - Len(s)]
      BY <1>1, ConcatProperties
    <2> HIDE DEF w
    <2> QED
      BY <2>1, LenProperties
  <1> HIDE DEF w
  <1>3. \A i \in DOMAIN s : i \in DOMAIN w /\ w[i] = s[i] /\ w[i] \in S
    BY <1>1, <1>2
  <1>4. \A i \in DOMAIN t : Len(s) + i \in DOMAIN w /\ w[Len(s) + i] = t[i] /\ w[Len(s) + i] \in T
    <2> SUFFICES ASSUME NEW i \in 1..Len(t)
                 PROVE  Len(s) + i \in DOMAIN w /\ w[Len(s) + i] = t[i] /\ w[Len(s) + i] \in T
      BY <1>1
    <2>1. Len(s) + i \in 1..Len(s) + Len(t) /\ ~(Len(s) + i <= Len(s)) /\ (Len(s) + i) - Len(s) = i
      BY <1>1
    <2>2. w[Len(s) + i] = t[(Len(s) + i) - Len(s)]
      BY <1>2, <2>1
    <2> QED
      BY <1>1, <1>2, <2>1, <2>2
  <1>5. \A i \in DOMAIN w : i \in DOMAIN s \/ \E k \in DOMAIN t : i = Len(s) + k
    <2> SUFFICES ASSUME NEW i \in 1..Len(s) + Len(t), i \notin 1..Len(s)
                 PROVE  \E k \in 1..Len(t) : i = Len(s) + k
      BY <1>1, <1>2
    <2>1. i - Len(s) \in 1..Len(t) /\ i = Len(s) + (i - Len(s))
      BY <1>1
    <2> QED
      BY <2>1
  <1>6. Range(w) = both
    <2>1. \A x \in S : \E i \in DOMAIN s : s[i] = x
      BY DEF Lists, Range
    <2>2. \A x \in T : \E i \in DOMAIN t : t[i] = x
      BY DEF Lists, Range
    <2>3. \A x \in both : \E i \in DOMAIN w : w[i] = x
      BY <1>3, <1>4, <2>1, <2>2
    <2>4. \A i \in DOMAIN w : w[i] \in both
      BY <1>3, <1>4, <1>5
    <2> QED
      BY <2>3, <2>4 DEF Range
  <1>7. \A i, j \in DOMAIN w : w[i] = w[j] => i = j
    <2> SUFFICES ASSUME NEW i \in DOMAIN w, NEW j \in DOMAIN w, w[i] = w[j] PROVE i = j
      OBVIOUS
    <2>1. CASE i \in DOMAIN s /\ j \in DOMAIN s
      BY <1>3, <2>1 DEF Lists
    <2>2. CASE i \notin DOMAIN s /\ j \notin DOMAIN s
      <3>1. PICK k \in DOMAIN t : i = Len(s) + k
        BY <1>5, <2>2
      <3>2. PICK l \in DOMAIN t : j = Len(s) + l
        BY <1>5, <2>2
      <3> QED
        BY <1>4, <3>1, <3>2 DEF Lists
    <2>3. CASE i \in DOMAIN s /\ j \notin DOMAIN s
      BY <1>3, <1>4, <1>5, <2>3
    <2>4. CASE i \notin DOMAIN s /\ j \in DOMAIN s
      BY <1>3, <1>4, <1>5, <2>4
    <2> QED
      BY <2>1, <2>2, <2>3, <2>4
  <1>8. ASSUME NEW i \in DOMAIN w, w[i] \in S PROVE i \in DOMAIN s
    BY <1>4, <1>5, <1>8
  <1>9. ASSUME NEW i \in DOMAIN w, w[i] \in T, NEW x \in S PROVE \E j \in 1..(i - 1) : w[j] = x
    <2>1. PICK k \in DOMAIN t : i = Len(s) + k
      BY <1>3, <1>5, <1>9
    <2>2. PICK j \in DOMAIN s : s[j] = x
      BY DEF Lists, Range
    <2>3. j \in 1..(i - 1)
      BY <1>1, <2>1, <2>2
    <2> QED
      BY <1>3, <2>2, <2>3
  <1> QED
    BY <1>2, <1>3, <1>6, <1>7, <1>8, <1>9 DEF Follows, Lists, w

\* The tables' changes before any index's.
TablesFirst(list, changes) ==
    \A i \in DOMAIN list : list[i].do \in {"create index", "replace index"} =>
        \A s \in changes : s.do \in {"create table", "add column"} => \E j \in 1..(i - 1) : list[j] = s

\* A plan does each change of its delta once, and those of the tables first.
LEMMA PlansListChanges ==
  ASSUME NEW sql \in Schemas, NEW delta, delta.changes \subseteq Steps(sql)
  PROVE  /\ Lists(statementsOf(delta), delta.changes)
         /\ TablesFirst(statementsOf(delta), delta.changes)
  <1> DEFINE of(do) == {c \in delta.changes : c.do = do}
             A == of("create table")
             B == of("add column")
             C == of("replace index")
             E == of("create index")
             a == SetToSeq(A)
             b == SetToSeq(B)
             c == SetToSeq(C)
             e == SetToSeq(E)
             tables == a \o b
             some == tables \o c
             all == some \o e
  <1>1. IsFiniteSet(delta.changes)
    BY StepsAreFinite, FS_Subset
  <1>2. Lists(a, A) /\ Lists(b, B) /\ Lists(c, C) /\ Lists(e, E)
    <2>1. \A do : IsFiniteSet(of(do))
      BY <1>1, FS_Subset
    <2> QED
      BY <2>1, SetsAreListed
  <1>3. /\ A \intersect B = {} /\ (A \union B) \intersect C = {} /\ ((A \union B) \union C) \intersect E = {}
        /\ ((A \union B) \union C) \union E = delta.changes
    BY StatementsAre
  <1>4. statementsOf(delta) = all
    BY DEF statementsOf
  <1>i. /\ \A s \in delta.changes : s.do \in {"create table", "add column"} => s \in A \union B
        /\ \A s \in delta.changes : s.do \in {"create index", "replace index"} => s \in C \/ s \in E
    OBVIOUS
  <1> HIDE DEF A, B, C, E, a, b, c, e, of
  <1>5. Lists(tables, A \union B)
    BY <1>2, <1>3, ListsFollow DEF Follows
  <1> HIDE DEF tables
  <1>6. Follows(some, tables, A \union B, C)
    BY <1>2, <1>3, <1>5, ListsFollow, Zenon
  <1> HIDE DEF some
  <1>7. Follows(all, some, (A \union B) \union C, E)
    <2>1. Lists(some, (A \union B) \union C)
      BY <1>6 DEF Follows
    <2> QED
      BY <1>2, <1>3, <2>1, ListsFollow, Zenon
  <1> HIDE DEF all
  <1>8. ASSUME NEW i \in DOMAIN all, all[i].do \in {"create index", "replace index"}, NEW s \in A \union B
        PROVE  \E j \in 1..(i - 1) : all[j] = s
    <2>1. all[i] \in delta.changes
      BY <1>3, <1>7 DEF Follows, Lists, Range
    <2>2. CASE all[i] \in E
      BY <1>7, <2>2 DEF Follows
    <2>3. CASE all[i] \in C
      <3>1. i \in DOMAIN some /\ some[i] \in C
        BY <1>7, <2>3 DEF Follows
      <3>2. PICK j \in 1..(i - 1) : some[j] = s
        BY <1>6, <3>1 DEF Follows
      <3>3. j \in DOMAIN some
        <4>1. some \in Seq((A \union B) \union C)
          BY <1>6 DEF Follows, Lists
        <4>2. DOMAIN some = 1..Len(some) /\ Len(some) \in Nat
          BY <4>1, LenProperties
        <4> QED
          BY <3>1, <4>2
      <3> QED
        BY <1>7, <3>2, <3>3 DEF Follows
    <2> QED
      BY <1>8, <1>i, <2>1, <2>2, <2>3
  <1>9. Lists(all, delta.changes)
    BY <1>3, <1>7 DEF Follows
  <1> QED
    <2>1. TablesFirst(all, delta.changes)
      BY <1>8, <1>i DEF TablesFirst
    <2> QED
      BY <1>4, <1>9, <2>1

-----------------------------------------------------------------------------
(* What a plan leaves: the changes of its delta, each made once, on what the *)
(* database is read as.                                                      *)

Shipped == UNION {Range(s) : s \in Shipments}
CreateOf(n) == [do |-> "create table", table |-> n]
AddOf(n, c) == [do |-> "add column", table |-> n, column |-> c]
ours(tables) == {t \in tables : ~isInternalTable(t.name)}

\* A table that differs from the one asked for by the columns it lacks, if at all.
Fits(want, have) ==
    /\ want.constraints = have.constraints /\ want.tail = have.tail
    /\ names(have.columns) \subseteq names(want.columns)
    /\ \A c \in want.columns : \A d \in have.columns : c.name = d.name => ~columnDifference(c, d)
lacking(want, have) == {c \in want.columns : c.name \notin names(have.columns)}

\* A delta without a refusal finds tables that fit, and adds what they lack.
LEMMA FitsWhenNotRefused ==
  ASSUME NEW want, NEW have, NEW count,
         columnChanges(want, have, count).refusals = {}, constraintRefusals(want, have) = {}
  PROVE  /\ Fits(want, have)
         /\ columnChanges(want, have, count).changes = {AddOf(want.name, c) : c \in lacking(want, have)}
         /\ \A c \in lacking(want, have) : ~whyCannotAdd(c, count)
  <1> DEFINE missing == {c \in want.columns : c.name \notin names(have.columns)}
             extra == {c \in have.columns : c.name \notin names(want.columns)}
             addable == {c \in missing : extra = {} /\ ~whyCannotAdd(c, count)}
             differing == {c \in want.columns :
                             \E d \in sameName(have.columns, c.name) : columnDifference(c, d)}
  <1>1. /\ columnChanges(want, have, count).changes
             = {[do |-> "add column", table |-> want.name, column |-> c] : c \in addable}
        /\ columnChanges(want, have, count).refusals
             = {<<want.name, c.name>> : c \in (missing \ addable) \union extra \union differing}
    BY DEF columnChanges
  <1>2. missing \ addable = {} /\ extra = {} /\ differing = {} /\ addable \subseteq missing
    <2>1. addable \subseteq missing
      OBVIOUS
    <2> DEFINE refused == (missing \ addable) \union extra \union differing
    <2>2. {<<want.name, c.name>> : c \in refused} = {}
      BY <1>1
    <2>3. refused = {}
      <3> HIDE DEF refused
      <3> QED
        BY <2>2
    <2> HIDE DEF missing, extra, addable, differing
    <2> QED
      BY <2>1, <2>3
  <1>3. addable = missing
    <2> HIDE DEF missing, extra, addable, differing
    <2> QED
      BY <1>2
  <1>4. names(have.columns) \subseteq names(want.columns)
    BY <1>2 DEF names
  <1>5. \A c \in want.columns : \A d \in have.columns : c.name = d.name => ~columnDifference(c, d)
    <2> SUFFICES ASSUME NEW c \in want.columns, NEW d \in have.columns, c.name = d.name, columnDifference(c, d)
                 PROVE  FALSE
      OBVIOUS
    <2>1. c \in differing
      BY DEF sameName
    <2> QED
      BY <1>2, <2>1
  <1>6. want.constraints = have.constraints /\ want.tail = have.tail
    BY DEF constraintRefusals
  <1>7. lacking(want, have) = missing
    BY DEF lacking
  <1>8. \A c \in missing : ~whyCannotAdd(c, count)
    BY <1>3
  <1> HIDE DEF missing, extra, addable, differing
  <1> QED
    BY <1>1, <1>3, <1>4, <1>5, <1>6, <1>7, <1>8 DEF Fits, AddOf

\* And where nothing is lacking it finds nothing.
LEMMA NothingWhenWhole ==
  ASSUME NEW want, NEW have, NEW count, Fits(want, have), lacking(want, have) = {}
  PROVE  /\ columnChanges(want, have, count).changes = {} /\ columnChanges(want, have, count).refusals = {}
         /\ constraintRefusals(want, have) = {}
  <1> DEFINE missing == {c \in want.columns : c.name \notin names(have.columns)}
             extra == {c \in have.columns : c.name \notin names(want.columns)}
             addable == {c \in missing : extra = {} /\ ~whyCannotAdd(c, count)}
             differing == {c \in want.columns :
                             \E d \in sameName(have.columns, c.name) : columnDifference(c, d)}
  <1>1. /\ columnChanges(want, have, count).changes
             = {[do |-> "add column", table |-> want.name, column |-> c] : c \in addable}
        /\ columnChanges(want, have, count).refusals
             = {<<want.name, c.name>> : c \in (missing \ addable) \union extra \union differing}
    BY DEF columnChanges
  <1>2. missing = {}
    BY DEF lacking
  <1>3. addable = {}
    BY <1>2
  <1>4. extra = {}
    BY DEF Fits, names
  <1>5. differing = {}
    BY DEF Fits, sameName
  <1>6. constraintRefusals(want, have) = {}
    BY DEF Fits, constraintRefusals
  <1> HIDE DEF missing, extra, addable, differing
  <1> QED
    BY <1>1, <1>2, <1>3, <1>4, <1>5, <1>6

\* What a plan without a refusal is made of, for tables read as asked and as there.
PlanFor(desired, actual, counts, changes) ==
    /\ \A p \in ours(actual.tables) : \E w \in desired.tables : w.name = p.name
    /\ \A w \in desired.tables : \A p \in ours(actual.tables) : w.name = p.name =>
          /\ Fits(w, p)
          /\ \A c \in lacking(w, p) : AddOf(w.name, c) \in changes
    /\ \A w \in desired.tables : w.name \in names(ours(actual.tables)) \/ CreateOf(w.name) \in changes
    /\ indexChanges(desired, actual) \subseteq changes
    /\ \A s \in changes :
          \/ \E w \in desired.tables : w.name \notin names(ours(actual.tables)) /\ s = CreateOf(w.name)
          \/ \E w \in desired.tables : \E p \in ours(actual.tables) : \E c \in lacking(w, p) :
                w.name = p.name /\ ~whyCannotAdd(c, counts[w.name]) /\ s = AddOf(w.name, c)
          \/ s \in indexChanges(desired, actual)

LEMMA DeltasPlan ==
  ASSUME NEW desired, NEW actual, NEW counts, diffSchema(desired, actual, counts).refusals = {}
  PROVE  PlanFor(desired, actual, counts, diffSchema(desired, actual, counts).changes)
  <1> DEFINE present == {t \in actual.tables : ~isInternalTable(t.name)}
             missing == {t \in desired.tables : t.name \notin names(present)}
             extra == {t \in present : t.name \notin names(desired.tables)}
             pairs == {p \in desired.tables \X present : p[1].name = p[2].name}
             of(p) == columnChanges(p[1], p[2], counts[p[1].name])
             columns == {columnChanges(p[1], p[2], counts[p[1].name]) : p \in pairs}
             creates == {[do |-> "create table", table |-> t.name] : t \in missing}
             adds == UNION {c.changes : c \in columns}
             unknown == {<<t.name>> : t \in extra}
             unlike == UNION {c.refusals : c \in columns}
             all == {constraintRefusals(p[1], p[2]) : p \in pairs}
             bound == UNION all
             changes == diffSchema(desired, actual, counts).changes
  <1>1. /\ changes = creates \union adds \union indexChanges(desired, actual)
        /\ diffSchema(desired, actual, counts).refusals = unknown \union unlike \union bound
    BY DEF diffSchema
  <1>2. unknown = {} /\ unlike = {} /\ bound = {}
    <2> HIDE DEF unknown, unlike, bound, changes
    <2> QED
      BY <1>1
  <1> HIDE DEF changes
  <1>3. ours(actual.tables) = present
    BY DEF ours
  <1>4. extra = {}
    <2> SUFFICES ASSUME NEW t \in extra PROVE FALSE
      OBVIOUS
    <2>1. <<t.name>> \in unknown
      OBVIOUS
    <2> HIDE DEF unknown
    <2> QED
      BY <1>2, <2>1
  <1>5. \A p \in present : \E w \in desired.tables : w.name = p.name
    BY <1>4 DEF names
  <1>6. ASSUME NEW w \in desired.tables, NEW p \in present, w.name = p.name
        PROVE  /\ columnChanges(w, p, counts[w.name]).refusals = {}
               /\ constraintRefusals(w, p) = {}
               /\ columnChanges(w, p, counts[w.name]).changes \subseteq adds
    <2>1. <<w, p>> \in pairs /\ <<w, p>>[1] = w /\ <<w, p>>[2] = p
      BY <1>6
    <2>2. columnChanges(w, p, counts[w.name]) \in columns /\ constraintRefusals(w, p) \in all
      BY <2>1
    <2> HIDE DEF columns, all
    <2> QED
      BY <1>2, <2>2
  <1>7. ASSUME NEW s \in adds
        PROVE  \E w \in desired.tables : \E p \in present :
                  w.name = p.name /\ s \in columnChanges(w, p, counts[w.name]).changes
    <2>1. PICK c \in columns : s \in c.changes
      <3> HIDE DEF columns
      <3> QED
        BY <1>7
    <2>2. PICK p \in pairs : c = columnChanges(p[1], p[2], counts[p[1].name])
      OBVIOUS
    <2>3. p[1] \in desired.tables /\ p[2] \in present /\ p[1].name = p[2].name
      OBVIOUS
    <2> HIDE DEF pairs, present
    <2> QED
      BY <2>1, <2>2, <2>3
  <1>8. ASSUME NEW w \in desired.tables, NEW p \in present, w.name = p.name
        PROVE  /\ Fits(w, p)
               /\ columnChanges(w, p, counts[w.name]).changes = {AddOf(w.name, c) : c \in lacking(w, p)}
               /\ \A c \in lacking(w, p) : ~whyCannotAdd(c, counts[w.name])
    BY <1>6, <1>8, FitsWhenNotRefused
  <1>9. \A w \in desired.tables : w.name \in names(present) \/ CreateOf(w.name) \in creates
    BY DEF CreateOf
  <1>10. \A s \in creates : \E w \in desired.tables : w.name \notin names(present) /\ s = CreateOf(w.name)
    BY DEF CreateOf
  <1> HIDE DEF present, missing, extra, pairs, of, columns, creates, adds, unknown, unlike, all, bound
  <1>11. \A w \in desired.tables : \A p \in present : w.name = p.name =>
            /\ Fits(w, p)
            /\ \A c \in lacking(w, p) : AddOf(w.name, c) \in changes
    BY <1>1, <1>6, <1>8
  <1>12. ASSUME NEW s \in adds
         PROVE  \E w \in desired.tables : \E p \in present : \E c \in lacking(w, p) :
                   w.name = p.name /\ ~whyCannotAdd(c, counts[w.name]) /\ s = AddOf(w.name, c)
    <2>1. PICK w \in desired.tables, p \in present :
             w.name = p.name /\ s \in columnChanges(w, p, counts[w.name]).changes
      BY <1>7, <1>12
    <2> QED
      BY <1>8, <2>1
  <1> QED
    BY <1>1, <1>3, <1>5, <1>9, <1>10, <1>11, <1>12 DEF PlanFor, changes

\* Where every table fits and lacks nothing, and every index is as asked for,
\* the delta finds nothing.
LEMMA NothingLeft ==
  ASSUME NEW desired, NEW actual, NEW counts, PlanFor(desired, actual, counts, {})
  PROVE  upToDate(diffSchema(desired, actual, counts))
  <1> DEFINE present == {t \in actual.tables : ~isInternalTable(t.name)}
             missing == {t \in desired.tables : t.name \notin names(present)}
             extra == {t \in present : t.name \notin names(desired.tables)}
             pairs == {p \in desired.tables \X present : p[1].name = p[2].name}
             columns == {columnChanges(p[1], p[2], counts[p[1].name]) : p \in pairs}
             creates == {[do |-> "create table", table |-> t.name] : t \in missing}
             adds == UNION {c.changes : c \in columns}
             unknown == {<<t.name>> : t \in extra}
             unlike == UNION {c.refusals : c \in columns}
             all == {constraintRefusals(p[1], p[2]) : p \in pairs}
             bound == UNION all
  <1>1. /\ diffSchema(desired, actual, counts).changes = creates \union adds \union indexChanges(desired, actual)
        /\ diffSchema(desired, actual, counts).refusals = unknown \union unlike \union bound
    BY DEF diffSchema
  <1>2. ours(actual.tables) = present
    BY DEF ours
  <1>3. missing = {} /\ extra = {} /\ indexChanges(desired, actual) = {}
    BY <1>2 DEF PlanFor, names
  <1>4. ASSUME NEW p \in pairs
        PROVE  /\ columnChanges(p[1], p[2], counts[p[1].name]).changes = {}
               /\ columnChanges(p[1], p[2], counts[p[1].name]).refusals = {}
               /\ constraintRefusals(p[1], p[2]) = {}
    <2>1. p[1] \in desired.tables /\ p[2] \in present /\ p[1].name = p[2].name
      OBVIOUS
    <2> HIDE DEF present, pairs
    <2>2. Fits(p[1], p[2]) /\ lacking(p[1], p[2]) = {}
      BY <1>2, <2>1 DEF PlanFor
    <2> QED
      BY <2>2, NothingWhenWhole
  <1>5. creates = {} /\ unknown = {}
    BY <1>3
  <1>6. \A c \in columns : c.changes = {} /\ c.refusals = {}
    <2> HIDE DEF pairs
    <2> QED
      BY <1>4
  <1>7. \A b \in all : b = {}
    <2> HIDE DEF pairs
    <2> QED
      BY <1>4
  <1> HIDE DEF present, missing, extra, pairs, columns, creates, unknown, all
  <1>8. adds = {} /\ unlike = {} /\ bound = {}
    BY <1>6, <1>7
  <1> HIDE DEF adds, unlike, bound
  <1> QED
    BY <1>1, <1>3, <1>5, <1>8 DEF upToDate


\* An index changed.
IndexOf(do, i) == [do |-> do, table |-> i.table, index |-> i]

LEMMA IndexChangesAre ==
  ASSUME NEW desired, NEW actual, NEW s
  PROVE  s \in indexChanges(desired, actual) <=>
           \E i \in desired.indexes :
              \/ s = IndexOf("create index", i) /\ i.name \notin names(actual.indexes)
              \/ s = IndexOf("replace index", i) /\ \E k \in sameName(actual.indexes, i.name) : i # k
  BY DEF indexChanges, IndexOf

LEMMA IndexStatements ==
  ASSUME NEW desired, NEW actual, NEW s \in indexChanges(desired, actual)
  PROVE  s.do \in {"create index", "replace index"} /\ s.index \in desired.indexes
         /\ s = IndexOf(s.do, s.index)
  <1>1. PICK i \in desired.indexes : s = IndexOf("create index", i) \/ s = IndexOf("replace index", i)
    <2>1. \E i \in desired.indexes : s = IndexOf("create index", i) \/ s = IndexOf("replace index", i)
      BY DEF indexChanges, IndexOf
    <2> QED
      BY <2>1
  <1>2. CASE s = IndexOf("create index", i)
    <2>1. s.do = "create index" /\ s.index = i
      BY <1>2 DEF IndexOf
    <2> QED
      BY <1>2, <2>1
  <1>3. CASE s = IndexOf("replace index", i)
    <2>1. s.do = "replace index" /\ s.index = i
      BY <1>3 DEF IndexOf
    <2> QED
      BY <1>3, <2>1
  <1> QED
    BY <1>1, <1>2, <1>3

\* What is read once some of the changes are made.
Added(done, n) == {s.column : s \in {x \in done : x.do = "add column" /\ x.table = n}}
Wider(p, columns) == [name |-> p.name, tail |-> p.tail, columns |-> p.columns \union columns, constraints |-> p.constraints]
Grown(p, done) == Wider(p, Added(done, p.name))
Made(desired, done) == {w \in desired.tables : CreateOf(w.name) \in done}
Reindexed(indexes, done) ==
    {k \in indexes : \A s \in done : s.do = "replace index" => s.index.name # k.name}
    \union {s.index : s \in {x \in done : x.do \in {"create index", "replace index"}}}
ViewOf(desired, actual, done) ==
    [tables |-> {Grown(p, done) : p \in actual.tables} \union Made(desired, done),
     indexes |-> Reindexed(actual.indexes, done)]

\* What ships, as read.
OneOfEach(things) == \A x, y \in things : x.name = y.name => x = y
Orderly(desired) ==
    /\ OneOfEach(desired.tables) /\ OneOfEach(desired.indexes)
    /\ \A w \in desired.tables : OneOfEach(w.columns) /\ w.name \in TableNames /\ ~isInternalTable(w.name)
    /\ \A i \in desired.indexes : \E w \in desired.tables : w.name = i.table /\ i.columns \subseteq names(w.columns)
    /\ \A w \in desired.tables : w = Wider(w, {})

\* A statement that adds a column a table there is lacks, and can have.
AddsLacking(desired, actual, counts, s) ==
    \E w \in desired.tables : \E p \in ours(actual.tables) : \E c \in lacking(w, p) :
       w.name = p.name /\ ~whyCannotAdd(c, counts[w.name]) /\ s = AddOf(w.name, c)

\* A statement of a plan is one thing.
LEMMA PlannedAre ==
  ASSUME NEW desired, NEW actual, NEW counts, NEW changes, PlanFor(desired, actual, counts, changes),
         NEW s \in changes
  PROVE  /\ s.do = "create table" =>
               \E w \in desired.tables : w.name \notin names(ours(actual.tables)) /\ s = CreateOf(w.name)
         /\ s.do = "add column" => AddsLacking(desired, actual, counts, s)
         /\ s.do \in {"create index", "replace index"} => s \in indexChanges(desired, actual)
         /\ s.do \in {"create table", "add column", "create index", "replace index"}
  <1>1. ASSUME NEW w, s = CreateOf(w) PROVE s.do = "create table"
    BY <1>1 DEF CreateOf
  <1>2. ASSUME NEW w, NEW c, s = AddOf(w, c) PROVE s.do = "add column"
    BY <1>2 DEF AddOf
  <1>3. s \in indexChanges(desired, actual) => s.do \in {"create index", "replace index"}
    BY IndexStatements
  <1>4. \/ \E w \in desired.tables : w.name \notin names(ours(actual.tables)) /\ s = CreateOf(w.name)
        \/ \E w \in desired.tables : \E p \in ours(actual.tables) : \E c \in lacking(w, p) :
              w.name = p.name /\ ~whyCannotAdd(c, counts[w.name]) /\ s = AddOf(w.name, c)
        \/ s \in indexChanges(desired, actual)
    BY DEF PlanFor
  <1> QED
    BY <1>1, <1>2, <1>3, <1>4 DEF AddsLacking

\* A column a plan adds is one a table there is lacks.
LEMMA AddedAre ==
  ASSUME NEW desired, Orderly(desired), NEW actual, OneOfEach(actual.tables), NEW counts, NEW changes,
         PlanFor(desired, actual, counts, changes), NEW done \in SUBSET changes,
         NEW w \in desired.tables, NEW p \in ours(actual.tables), w.name = p.name
  PROVE  /\ \A c : c \in Added(done, p.name) <=> c \in lacking(w, p) /\ AddOf(w.name, c) \in done
         /\ Added(changes, p.name) = lacking(w, p)
         /\ CreateOf(p.name) \notin changes
  <1>1. ASSUME NEW c, NEW s \in changes, s.do = "add column", s.table = p.name, s.column = c
        PROVE  c \in lacking(w, p) /\ s = AddOf(w.name, c)
    <2>0. PICK v \in desired.tables, q \in ours(actual.tables) :
             \E b \in lacking(v, q) : v.name = q.name /\ s = AddOf(v.name, b)
      <3>1. AddsLacking(desired, actual, counts, s)
        BY <1>1, PlannedAre
      <3> QED
        BY <3>1 DEF AddsLacking
    <2>1. PICK b \in lacking(v, q) : v.name = q.name /\ s = AddOf(v.name, b)
      BY <2>0
    <2>2. v.name = p.name /\ b = c
      BY <1>1, <2>1 DEF AddOf
    <2>3. v = w /\ q = p
      BY <2>1, <2>2 DEF Orderly, OneOfEach, ours
    <2> QED
      BY <2>1, <2>2, <2>3
  <1>2. ASSUME NEW c PROVE c \in Added(done, p.name) <=> c \in lacking(w, p) /\ AddOf(w.name, c) \in done
    <2>1. ASSUME c \in Added(done, p.name) PROVE c \in lacking(w, p) /\ AddOf(w.name, c) \in done
      <3>1. PICK s \in done : s.do = "add column" /\ s.table = p.name /\ s.column = c
        BY <2>1 DEF Added
      <3> QED
        BY <1>1, <3>1
    <2>2. ASSUME AddOf(w.name, c) \in done PROVE c \in Added(done, p.name)
      <3>1. PICK s \in done : s = AddOf(w.name, c)
        BY <2>2
      <3>2. s.do = "add column" /\ s.table = p.name /\ s.column = c
        BY <3>1 DEF AddOf
      <3> QED
        BY <3>2 DEF Added
    <2> QED
      BY <2>1, <2>2
  <1>3. \A c \in lacking(w, p) : AddOf(w.name, c) \in changes
    BY DEF PlanFor
  <1>4. Added(changes, p.name) = lacking(w, p)
    <2>1. ASSUME NEW c PROVE c \in Added(changes, p.name) <=> c \in lacking(w, p)
      <3>1. ASSUME c \in Added(changes, p.name) PROVE c \in lacking(w, p)
        <4>1. PICK s \in changes : s.do = "add column" /\ s.table = p.name /\ s.column = c
          BY <3>1 DEF Added
        <4> QED
          BY <1>1, <4>1
      <3>2. ASSUME c \in lacking(w, p) PROVE c \in Added(changes, p.name)
        <4>1. PICK s \in changes : s = AddOf(w.name, c)
          BY <1>3, <3>2
        <4>2. s.do = "add column" /\ s.table = p.name /\ s.column = c
          BY <4>1 DEF AddOf
        <4> QED
          BY <4>2 DEF Added
      <3> QED
        BY <3>1, <3>2
    <2> QED
      BY <2>1
  <1>5. CreateOf(p.name) \notin changes
    <2> SUFFICES ASSUME CreateOf(p.name) \in changes PROVE FALSE
      OBVIOUS
    <2>0. PICK s \in changes : s = CreateOf(p.name)
      OBVIOUS
    <2>1. PICK v \in desired.tables : v.name \notin names(ours(actual.tables)) /\ s = CreateOf(v.name)
      <3>1. s.do = "create table" =>
               \E u \in desired.tables : u.name \notin names(ours(actual.tables)) /\ s = CreateOf(u.name)
        BY PlannedAre
      <3>2. s.do = "create table"
        BY <2>0 DEF CreateOf
      <3> QED
        BY <3>1, <3>2
    <2>2. v.name = p.name
      <3>1. s.table = p.name
        BY <2>0 DEF CreateOf
      <3>2. s.table = v.name
        BY <2>1 DEF CreateOf
      <3> QED
        BY <3>1, <3>2
    <2> QED
      BY <2>1, <2>2 DEF names
  <1> QED
    BY <1>2, <1>4, <1>5

\* Once all the changes are made, nothing is left to change.
LEMMA PlansLeaveNothing ==
  ASSUME NEW desired, Orderly(desired), NEW actual, OneOfEach(actual.tables), NEW counts, NEW changes,
         PlanFor(desired, actual, counts, changes), NEW other
  PROVE  upToDate(diffSchema(desired, ViewOf(desired, actual, changes), other))
  <1> DEFINE view == ViewOf(desired, actual, changes)
  <1>1. /\ view.tables = {Grown(p, changes) : p \in actual.tables} \union Made(desired, changes)
        /\ view.indexes = Reindexed(actual.indexes, changes)
    BY DEF ViewOf
  <1> HIDE DEF view
  <1>2. ASSUME NEW w \in desired.tables, NEW p \in ours(actual.tables), w.name = p.name
        PROVE  Fits(w, Grown(p, changes)) /\ lacking(w, Grown(p, changes)) = {}
    <2>1. Added(changes, p.name) = lacking(w, p) /\ Fits(w, p)
      <3>1. changes \in SUBSET changes
        OBVIOUS
      <3>2. Added(changes, p.name) = lacking(w, p)
        BY <1>2, <3>1, AddedAre
      <3> QED
        BY <1>2, <3>2 DEF PlanFor
    <2>2. /\ Grown(p, changes).columns = p.columns \union lacking(w, p)
          /\ Grown(p, changes).tail = p.tail /\ Grown(p, changes).constraints = p.constraints
      BY <2>1 DEF Grown, Wider
    <2>3. names(Grown(p, changes).columns) \subseteq names(w.columns)
      BY <2>1, <2>2 DEF Fits, names, lacking
    <2>4. \A c \in w.columns : \A d \in Grown(p, changes).columns : c.name = d.name => ~columnDifference(c, d)
      BY <2>1, <2>2 DEF Fits, lacking, Orderly, OneOfEach, columnDifference
    <2>5. lacking(w, Grown(p, changes)) = {}
      BY <2>2 DEF lacking, names
    <2> QED
      BY <2>1, <2>2, <2>3, <2>4, <2>5 DEF Fits
  <1>3. ASSUME NEW w \in desired.tables, NEW v \in desired.tables, w.name = v.name
        PROVE  Fits(w, v) /\ lacking(w, v) = {}
    <2>1. w = v /\ OneOfEach(w.columns)
      BY <1>3 DEF Orderly, OneOfEach
    <2> QED
      BY <2>1 DEF Fits, lacking, names, OneOfEach, columnDifference
  <1>4. ASSUME NEW t \in ours(view.tables)
        PROVE  (\E p \in ours(actual.tables) : t = Grown(p, changes) /\ t.name = p.name) \/ t \in Made(desired, changes)
    BY <1>1, <1>4 DEF ours, Grown, Wider
  <1>5. ASSUME NEW w \in desired.tables PROVE w.name \in names(ours(view.tables))
    <2>1. CASE w.name \in names(ours(actual.tables))
      <3>1. PICK p \in ours(actual.tables) : p.name = w.name
        BY <2>1 DEF names
      <3>2. Grown(p, changes) \in ours(view.tables) /\ Grown(p, changes).name = w.name
        BY <1>1, <3>1 DEF ours, Grown, Wider
      <3> QED
        BY <3>2 DEF names
    <2>2. CASE CreateOf(w.name) \in changes
      <3>1. w \in ours(view.tables)
        BY <1>1, <2>2 DEF Made, ours, Orderly
      <3> QED
        BY <3>1 DEF names
    <2> QED
      BY <2>1, <2>2 DEF PlanFor
  <1>6. indexChanges(desired, view) = {}
    <2> SUFFICES ASSUME NEW j \in desired.indexes
                 PROVE  j.name \in names(view.indexes) /\ \A k \in sameName(view.indexes, j.name) : k = j
      BY IndexChangesAre
    <2>1. ASSUME NEW s \in changes, s.do \in {"create index", "replace index"} PROVE s.index \in desired.indexes
      <3>1. s \in indexChanges(desired, actual)
        BY <2>1, PlannedAre
      <3> QED
        BY <3>1, IndexStatements
    <2>2. ASSUME NEW k \in view.indexes, k.name = j.name, k \notin actual.indexes PROVE k = j
      <3>1. PICK s \in changes : s.do \in {"create index", "replace index"} /\ k = s.index
        BY <1>1, <2>2 DEF Reindexed
      <3> QED
        BY <2>1, <2>2, <3>1 DEF Orderly, OneOfEach
    <2>3. ASSUME NEW do \in {"create index", "replace index"}, IndexOf(do, j) \in changes PROVE j \in view.indexes
      <3>1. PICK s \in changes : s = IndexOf(do, j)
        BY <2>3
      <3>2. s.do \in {"create index", "replace index"} /\ s.index = j
        BY <3>1 DEF IndexOf
      <3> QED
        BY <1>1, <3>2 DEF Reindexed
    <2>4. CASE j.name \notin names(actual.indexes)
      <3>1. IndexOf("create index", j) \in changes
        BY <2>4, IndexChangesAre DEF PlanFor
      <3>2. \A k \in actual.indexes : k.name # j.name
        BY <2>4 DEF names
      <3> QED
        BY <2>2, <2>3, <3>1, <3>2 DEF names, sameName
    <2>5. CASE \E k \in sameName(actual.indexes, j.name) : j # k
      <3>1. IndexOf("replace index", j) \in changes
        BY <2>5, IndexChangesAre DEF PlanFor
      <3>2. j \in view.indexes
        BY <2>3, <3>1
      <3>3. ASSUME NEW k \in view.indexes, k.name = j.name PROVE k = j
        <4>1. CASE \E s \in changes : s.do \in {"create index", "replace index"} /\ k = s.index
          BY <2>1, <3>3, <4>1 DEF Orderly, OneOfEach
        <4>2. CASE \A s \in changes : s.do = "replace index" => s.index.name # k.name
          <5>1. PICK s \in changes : s = IndexOf("replace index", j)
            BY <3>1
          <5>2. s.do = "replace index" /\ s.index = j
            BY <5>1 DEF IndexOf
          <5> QED
            BY <3>3, <4>2, <5>2
        <4> QED
          BY <1>1, <4>1, <4>2 DEF Reindexed
      <3> QED
        BY <3>2, <3>3 DEF names, sameName
    <2>6. CASE j.name \in names(actual.indexes) /\ \A k \in sameName(actual.indexes, j.name) : j = k
      <3>1. j \in actual.indexes /\ \A k \in actual.indexes : k.name = j.name => k = j
        BY <2>6 DEF names, sameName
      <3>2. j \in view.indexes
        <4>1. CASE \A s \in changes : s.do = "replace index" => s.index.name # j.name
          BY <1>1, <3>1, <4>1 DEF Reindexed
        <4>2. ASSUME NEW s \in changes, s.do = "replace index", s.index.name = j.name PROVE j \in view.indexes
          <5>1. s.index = j
            BY <2>1, <4>2 DEF Orderly, OneOfEach
          <5> QED
            BY <1>1, <4>2, <5>1 DEF Reindexed
        <4> QED
          BY <4>1, <4>2
      <3> QED
        BY <2>2, <3>1, <3>2 DEF names, sameName
    <2> QED
      BY <2>4, <2>5, <2>6
  <1>7. PlanFor(desired, view, other, {})
    <2>1. \A t \in ours(view.tables) : \E w \in desired.tables : w.name = t.name
      BY <1>4 DEF PlanFor, Made
    <2>2. ASSUME NEW w \in desired.tables, NEW t \in ours(view.tables), w.name = t.name
          PROVE  Fits(w, t) /\ lacking(w, t) = {}
      BY <1>2, <1>3, <1>4, <2>2 DEF Made
    <2> QED
      BY <1>5, <1>6, <2>1, <2>2 DEF PlanFor
  <1> QED
    BY <1>7, NothingLeft DEF view


\* What a schema is read as.
LEMMA ReadAs ==
  ASSUME NEW sql
  PROVE  /\ parseSchemaSql(sql).tables = {parseCreateTable(t) : t \in sql.tables}
         /\ parseSchemaSql(sql).indexes = sql.indexes
         /\ \A t : /\ parseCreateTable(t).name = t.name
                   /\ parseCreateTable(t).tail = t.tail
                   /\ parseCreateTable(t).columns = {parseColumn(i) : i \in columnsIn(t)}
                   /\ parseCreateTable(t).constraints = {i \in Range(t.items) : ~isColumn(i)}
         /\ \A i : parseColumn(i).name = i.name
  BY DEF parseSchemaSql, parseCreateTable, parseColumn, columnsIn

\* A table of each name is read as one of each name.
LEMMA OneOfEachRead ==
  ASSUME NEW db, OneOfEach(db.tables)
  PROVE  OneOfEach(parseSchemaSql(db).tables)
  <1>1. parseSchemaSql(db).tables = {parseCreateTable(t) : t \in db.tables}
    BY ReadAs
  <1>2. \A t : parseCreateTable(t).name = t.name
    BY ReadAs
  <1> QED
    BY <1>1, <1>2 DEF OneOfEach

\* What ships is in order.
LEMMA OrderlyShips ==
  ASSUME NEW sql \in Shipped
  PROVE  sql \in Schemas /\ Orderly(parseSchemaSql(sql))
  <1> DEFINE desired == parseSchemaSql(sql)
  <1>1. sql \in Schemas
    BY DEF Shipped, Schemas
  <1>2. /\ desired.tables = {parseCreateTable(t) : t \in sql.tables} /\ desired.indexes = sql.indexes
    BY ReadAs
  <1> HIDE DEF desired
  <1>3. /\ \A t, u \in sql.tables : t.name = u.name => t = u
        /\ \A t \in sql.tables : \A i, j \in columnsIn(t) : i.name = j.name => i = j
    BY <1>1, SchemaAssumption DEF Schemas, columnsIn
  <1>4. /\ \A t \in sql.tables : t.name \in TableNames /\ ~isInternalTable(t.name)
        /\ \A i, j \in sql.indexes : i.name = j.name => i = j
        /\ \A i \in sql.indexes : \E t \in sql.tables :
              t.name = i.table /\ i.columns \subseteq {c.name : c \in columnsIn(t)}
    BY SchemaAssumption DEF Shipped, columnsIn
  <1>5. OneOfEach(desired.tables) /\ OneOfEach(desired.indexes)
    BY <1>2, <1>3, <1>4, ReadAs DEF OneOfEach
  <1>6. ASSUME NEW w \in desired.tables
        PROVE  OneOfEach(w.columns) /\ w.name \in TableNames /\ ~isInternalTable(w.name) /\ w = Wider(w, {})
    <2>1. PICK t \in sql.tables : w = parseCreateTable(t)
      BY <1>2
    <2>2. w.name = t.name /\ w.columns = {parseColumn(i) : i \in columnsIn(t)}
      BY <2>1, ReadAs
    <2>3. OneOfEach(w.columns)
      BY <1>3, <2>2, ReadAs DEF OneOfEach
    <2>4. w = Wider(w, {})
      BY <2>1 DEF parseCreateTable, Wider
    <2> QED
      BY <1>4, <2>2, <2>3, <2>4
  <1>7. ASSUME NEW i \in desired.indexes
        PROVE  \E w \in desired.tables : w.name = i.table /\ i.columns \subseteq names(w.columns)
    <2>1. PICK t \in sql.tables : t.name = i.table /\ i.columns \subseteq {c.name : c \in columnsIn(t)}
      BY <1>2, <1>4
    <2> DEFINE w == parseCreateTable(t)
    <2>2. w \in desired.tables /\ w.name = t.name /\ w.columns = {parseColumn(j) : j \in columnsIn(t)}
      BY <1>2, ReadAs
    <2>3. names(w.columns) = {c.name : c \in columnsIn(t)}
      <3> HIDE DEF w
      <3> QED
        BY <2>2, ReadAs DEF names
    <2> QED
      BY <2>1, <2>2, <2>3
  <1> QED
    BY <1>1, <1>5, <1>6, <1>7 DEF Orderly, desired

\* A plan for a schema that ships, over a database with a table of each name.
Planning(sql, db, counts, changes) ==
    /\ sql \in Shipped /\ db \in Stores /\ OneOfEach(db.tables)
    /\ changes \subseteq Steps(sql)
    /\ PlanFor(parseSchemaSql(sql), parseSchemaSql(db), counts, changes)

\* A database on which some of the changes are made.
Reached(d, sql, db, done) ==
    /\ d \in Stores /\ OneOfEach(d.tables)
    /\ parseSchemaSql(d).tables = ViewOf(parseSchemaSql(sql), parseSchemaSql(db), done).tables
    /\ d.indexes = ViewOf(parseSchemaSql(sql), parseSchemaSql(db), done).indexes

\* Before the first it is the database as it was.
LEMMA NothingDone ==
  ASSUME NEW sql \in Schemas, NEW db \in Stores, OneOfEach(db.tables)
  PROVE  Reached(db, sql, db, {})
  <1> DEFINE actual == parseSchemaSql(db)
             desired == parseSchemaSql(sql)
  <1>1. actual.tables = {parseCreateTable(t) : t \in db.tables} /\ actual.indexes = db.indexes
    BY ReadAs
  <1>2. ASSUME NEW p \in actual.tables PROVE Grown(p, {}) = p
    <2>1. PICK t \in db.tables : p = parseCreateTable(t)
      BY <1>1
    <2>2. Added({}, p.name) = {}
      BY DEF Added
    <2>3. Grown(p, {}) = [name |-> p.name, tail |-> p.tail, columns |-> p.columns, constraints |-> p.constraints]
      BY <2>2 DEF Grown, Wider
    <2> QED
      BY <2>1, <2>3 DEF parseCreateTable
  <1>3. Made(desired, {}) = {}
    BY DEF Made
  <1>4. Reindexed(actual.indexes, {}) = actual.indexes
    BY DEF Reindexed
  <1>5. {Grown(p, {}) : p \in actual.tables} = actual.tables
    BY <1>2
  <1> HIDE DEF actual, desired
  <1>6. ViewOf(desired, actual, {}).tables = actual.tables /\ ViewOf(desired, actual, {}).indexes = actual.indexes
    BY <1>3, <1>4, <1>5 DEF ViewOf
  <1> QED
    BY <1>1, <1>6 DEF Reached, actual, desired

\* An index is created if there is none of its name, and replaced else.
LEMMA IndexChangeIs ==
  ASSUME NEW desired, NEW actual, NEW s \in indexChanges(desired, actual)
  PROVE  /\ \/ s.do = "create index" /\ s.index.name \notin names(actual.indexes)
            \/ s.do = "replace index" /\ s.index.name \in names(actual.indexes)
         /\ s.index \in desired.indexes /\ s.table = s.index.table /\ s = IndexOf(s.do, s.index)
  <1>1. PICK i \in desired.indexes :
           \/ s = IndexOf("create index", i) /\ i.name \notin names(actual.indexes)
           \/ s = IndexOf("replace index", i) /\ i.name \in names(actual.indexes)
    <2>1. \E i \in desired.indexes :
             \/ s = IndexOf("create index", i) /\ i.name \notin names(actual.indexes)
             \/ s = IndexOf("replace index", i) /\ \E k \in sameName(actual.indexes, i.name) : i # k
      BY DEF indexChanges, IndexOf
    <2>2. \A i : (\E k \in sameName(actual.indexes, i.name) : i # k) => i.name \in names(actual.indexes)
      BY DEF sameName, names
    <2> QED
      BY <2>1, <2>2
  <1>2. CASE s = IndexOf("create index", i) /\ i.name \notin names(actual.indexes)
    <2>1. s.do = "create index" /\ s.index = i /\ s.table = i.table
      BY <1>2 DEF IndexOf
    <2> QED
      BY <1>2, <2>1
  <1>3. CASE s = IndexOf("replace index", i) /\ i.name \in names(actual.indexes)
    <2>1. s.do = "replace index" /\ s.index = i /\ s.table = i.table
      BY <1>3 DEF IndexOf
    <2> QED
      BY <1>3, <2>1
  <1> QED
    BY <1>1, <1>2, <1>3

\* An index is changed once.
LEMMA OneChangeEach ==
  ASSUME NEW desired, Orderly(desired), NEW actual,
         NEW s \in indexChanges(desired, actual), NEW x \in indexChanges(desired, actual),
         s.index.name = x.index.name
  PROVE  s = x
  <1>1. /\ \/ s.do = "create index" /\ s.index.name \notin names(actual.indexes)
           \/ s.do = "replace index" /\ s.index.name \in names(actual.indexes)
        /\ s.index \in desired.indexes /\ s = IndexOf(s.do, s.index)
    BY IndexChangeIs
  <1>2. /\ \/ x.do = "create index" /\ x.index.name \notin names(actual.indexes)
           \/ x.do = "replace index" /\ x.index.name \in names(actual.indexes)
        /\ x.index \in desired.indexes /\ x = IndexOf(x.do, x.index)
    BY IndexChangeIs
  <1>3. s.index = x.index
    BY <1>1, <1>2 DEF Orderly, OneOfEach
  <1> DEFINE there == s.index.name \in names(actual.indexes)
  <1>4. s.do = IF there THEN "replace index" ELSE "create index"
    BY <1>1
  <1>5. x.do = IF there THEN "replace index" ELSE "create index"
    <2>1. there <=> x.index.name \in names(actual.indexes)
      OBVIOUS
    <2> QED
      BY <1>2, <2>1
  <1> HIDE DEF there
  <1> QED
    BY <1>1, <1>2, <1>3, <1>4, <1>5

\* A table is created where there is none of its name.
CreatesNew(s, sql, db) ==
    \E w \in parseSchemaSql(sql).tables :
        s = CreateOf(w.name) /\ s.table = w.name /\ w.name \notin names(parseSchemaSql(db).tables)

\* So is every table a planned change creates.
LEMMA CreatedAre ==
  ASSUME NEW sql, NEW db, NEW counts, NEW changes, Planning(sql, db, counts, changes),
         NEW s \in changes, s.do = "create table"
  PROVE  CreatesNew(s, sql, db)
  <1> DEFINE desired == parseSchemaSql(sql)
             actual == parseSchemaSql(db)
  <1>1. PlanFor(desired, actual, counts, changes) /\ Orderly(desired)
    BY OrderlyShips DEF Planning
  <1> HIDE DEF desired, actual
  <1>2. PICK w \in desired.tables : w.name \notin names(ours(actual.tables)) /\ s = CreateOf(w.name)
    BY <1>1, PlannedAre
  <1>3. s.table = w.name
    BY <1>2 DEF CreateOf
  <1>4. w.name \notin names(actual.tables)
    BY <1>1, <1>2 DEF Orderly, names, ours
  <1> QED
    BY <1>2, <1>3, <1>4 DEF desired, actual, CreatesNew

\* A table of a database on the way: one that was there, or one made.
ComesFrom(t, desired, actual, done) ==
    \/ \E p \in actual.tables : parseCreateTable(t) = Grown(p, done) /\ t.name = p.name
    \/ \E w \in desired.tables : parseCreateTable(t) = w /\ t.name = w.name /\ CreateOf(w.name) \in done

\* A table is there, read so.
Has(d, v) == \E t \in d.tables : parseCreateTable(t) = v /\ t.name = v.name

\* The tables of a database on the way.
LEMMA TablesReached ==
  ASSUME NEW sql, NEW db, NEW counts, NEW changes, Planning(sql, db, counts, changes),
         NEW done \in SUBSET changes, NEW d, Reached(d, sql, db, done)
  PROVE  /\ \A t \in d.tables : ComesFrom(t, parseSchemaSql(sql), parseSchemaSql(db), done)
         /\ \A p \in parseSchemaSql(db).tables : Has(d, Grown(p, done))
         /\ \A w \in parseSchemaSql(sql).tables : CreateOf(w.name) \in done => Has(d, w)
  <1> DEFINE desired == parseSchemaSql(sql)
             actual == parseSchemaSql(db)
             view == ViewOf(desired, actual, done)
  <1>1. view.tables = {Grown(p, done) : p \in actual.tables} \union Made(desired, done)
    BY DEF ViewOf
  <1>2. {parseCreateTable(t) : t \in d.tables} = view.tables
    BY ReadAs DEF Reached
  <1> HIDE DEF desired, actual, view
  <1>3. \A p : Grown(p, done).name = p.name
    BY DEF Grown, Wider
  <1>4. \A t : parseCreateTable(t).name = t.name
    BY ReadAs
  <1>5. ASSUME NEW t \in d.tables
        PROVE  ComesFrom(t, desired, actual, done)
    <2>1. parseCreateTable(t) \in view.tables
      BY <1>2
    <2>2. CASE \E p \in actual.tables : parseCreateTable(t) = Grown(p, done)
      BY <1>3, <1>4, <2>2 DEF ComesFrom
    <2>3. CASE parseCreateTable(t) \in Made(desired, done)
      BY <1>4, <2>3 DEF Made, ComesFrom
    <2> QED
      BY <1>1, <2>1, <2>2, <2>3
  <1>6. ASSUME NEW v \in view.tables PROVE Has(d, v)
    BY <1>2, <1>4 DEF Has
  <1>7. \A p \in actual.tables : Has(d, Grown(p, done))
    BY <1>1, <1>6
  <1>8. \A w \in desired.tables : CreateOf(w.name) \in done => Has(d, w)
    BY <1>1, <1>6 DEF Made
  <1> QED
    BY <1>5, <1>7, <1>8 DEF desired, actual

\* A schema has one table of a name, and in it one column of a name.
LEMMA OneOfAName ==
  ASSUME NEW sql \in Schemas, NEW u \in sql.tables
  PROVE  /\ sameName(sql.tables, u.name) = {u}
         /\ \A i, j \in columnsIn(u) : i.name = j.name => i = j
  <1>1. \A t \in sql.tables : t.name = u.name => t = u
    BY SchemaAssumption DEF Schemas
  <1>2. \A i, j \in columnsIn(u) : i.name = j.name => i = j
    BY SchemaAssumption DEF Schemas, columnsIn
  <1> QED
    BY <1>1, <1>2 DEF sameName

\* A table read is one there is.
LEMMA ReadFrom ==
  ASSUME NEW sql, NEW w \in parseSchemaSql(sql).tables
  PROVE  \E u \in sql.tables : parseCreateTable(u) = w /\ u.name = w.name
  <1>1. parseSchemaSql(sql).tables = {parseCreateTable(t) : t \in sql.tables}
    BY ReadAs
  <1>2. PICK u \in sql.tables : parseCreateTable(u) = w
    BY <1>1
  <1>3. parseCreateTable(u).name = u.name
    BY ReadAs
  <1> QED
    BY <1>2, <1>3

\* A table created is there, and no other with its name.
LEMMA CreatesReach ==
  ASSUME NEW sql, NEW db, NEW counts, NEW changes, Planning(sql, db, counts, changes),
         NEW done \in SUBSET changes, NEW d, Reached(d, sql, db, done),
         NEW s \in changes, s \notin done, s.do = "create table"
  PROVE  Reached(execute(d, sql, s), sql, db, done \union {s})
  <1> DEFINE desired == parseSchemaSql(sql)
             actual == parseSchemaSql(db)
             then == done \union {s}
             after == execute(d, sql, s)
  <1>1. PICK w \in desired.tables : s = CreateOf(w.name) /\ s.table = w.name /\ w.name \notin names(actual.tables)
    <2>1. CreatesNew(s, sql, db)
      BY CreatedAre
    <2> QED
      BY <2>1 DEF CreatesNew
  <1>2. /\ d \in Stores /\ OneOfEach(d.tables) /\ sql \in Schemas /\ sql \in Stores /\ s \in Steps(sql)
        /\ Orderly(desired)
    BY OrderlyShips, SchemasAreStores DEF Reached, Planning
  <1>3. w.name \notin names(d.tables)
    <2> SUFFICES ASSUME NEW t \in d.tables, t.name = w.name PROVE FALSE
      BY DEF names
    <2>1. \/ \E p \in actual.tables : t.name = p.name
          \/ \E v \in desired.tables : t.name = v.name /\ CreateOf(v.name) \in done
      <3>1. ComesFrom(t, desired, actual, done)
        BY TablesReached
      <3> QED
        BY <3>1 DEF ComesFrom
    <2>2. CASE \E p \in actual.tables : t.name = p.name
      BY <1>1, <2>2 DEF names
    <2>3. CASE \E v \in desired.tables : t.name = v.name /\ CreateOf(v.name) \in done
      BY <1>1, <2>3
    <2> QED
      BY <2>1, <2>2, <2>3
  <1>4. PICK u \in sql.tables : parseCreateTable(u) = w /\ u.name = w.name
    BY ReadFrom
  <1>5. sameName(sql.tables, w.name) = {u}
    BY <1>2, <1>4, OneOfAName
  <1> DEFINE more == d.tables \union {u}
  <1>6. after = [d EXCEPT !.tables = more]
    BY <1>1, <1>3, <1>5 DEF execute
  <1>7. after.tables = more /\ after.indexes = d.indexes /\ after \in Stores
    <2>1. d = [tables |-> d.tables, indexes |-> d.indexes] /\ d.tables \subseteq StoredTables /\ d.indexes \subseteq Indexes
      BY <1>2 DEF Stores
    <2>2. more \subseteq StoredTables
      BY <1>2, <2>1 DEF Stores
    <2> HIDE DEF more, after
    <2> QED
      BY <1>6, <2>1, <2>2 DEF Stores
  <1>8. OneOfEach(more)
    BY <1>2, <1>3, <1>4 DEF OneOfEach, names
  <1>9. parseSchemaSql(after).tables = parseSchemaSql(d).tables \union {w}
    <2>1. /\ parseSchemaSql(after).tables = {parseCreateTable(t) : t \in after.tables}
          /\ parseSchemaSql(d).tables = {parseCreateTable(t) : t \in d.tables}
      BY ReadAs
    <2>2. {parseCreateTable(t) : t \in more} = {parseCreateTable(t) : t \in d.tables} \union {parseCreateTable(u)}
      OBVIOUS
    <2> HIDE DEF after, more
    <2> QED
      BY <1>4, <1>7, <2>1, <2>2
  <1>10. ViewOf(desired, actual, then).tables = ViewOf(desired, actual, done).tables \union {w}
    <2>1. \A n : Added(then, n) = Added(done, n)
      BY DEF Added
    <2> HIDE DEF desired, actual, then
    <2>2. {Grown(p, then) : p \in actual.tables} = {Grown(p, done) : p \in actual.tables}
      <3>1. \A p : Grown(p, then) = Grown(p, done)
        BY <2>1 DEF Grown
      <3> QED
        BY <3>1
    <2>3. Made(desired, then) = Made(desired, done) \union {w}
      <3> USE DEF then
      <3>1. ASSUME NEW v \in desired.tables, CreateOf(v.name) = s PROVE v = w
        <4>1. s.table = v.name
          BY <3>1 DEF CreateOf
        <4> QED
          BY <1>1, <1>2, <4>1 DEF Orderly, OneOfEach
      <3> QED
        BY <1>1, <3>1 DEF Made
    <2> QED
      BY <2>2, <2>3 DEF ViewOf
  <1>11. ViewOf(desired, actual, then).indexes = ViewOf(desired, actual, done).indexes
    <2>1. Reindexed(actual.indexes, then) = Reindexed(actual.indexes, done)
      BY DEF Reindexed
    <2> HIDE DEF desired, actual, then
    <2> QED
      BY <2>1 DEF ViewOf
  <1> HIDE DEF after, more
  <1> QED
    <2>1. parseSchemaSql(d).tables = ViewOf(desired, actual, done).tables /\ d.indexes = ViewOf(desired, actual, done).indexes
      BY DEF Reached, desired, actual
    <2> HIDE DEF desired, actual, then
    <2>2. /\ parseSchemaSql(after).tables = ViewOf(desired, actual, then).tables
          /\ after.indexes = ViewOf(desired, actual, then).indexes
      BY <1>7, <1>9, <1>10, <1>11, <2>1
    <2> QED
      BY <1>7, <1>8, <2>2 DEF Reached, desired, actual, then, after

\* What a statement adds to a table there is: an item of the one that ships.
AddsAs(sql, counts, s, w, p, i) ==
    /\ w.name = p.name
    /\ s.table = w.name /\ s = AddOf(w.name, parseColumn(i)) /\ s.column = parseColumn(i)
    /\ parseColumn(i) \in lacking(w, p) /\ ~whyCannotAdd(parseColumn(i), counts[w.name])
    /\ isColumn(i) /\ itemOf(sql, s) = i

\* A statement that adds a column adds it so.
LEMMA AddsAre ==
  ASSUME NEW sql, NEW db, NEW counts, NEW changes, Planning(sql, db, counts, changes),
         NEW s \in changes, s.do = "add column"
  PROVE  \E w \in parseSchemaSql(sql).tables : \E p \in ours(parseSchemaSql(db).tables) : \E i \in Items :
            AddsAs(sql, counts, s, w, p, i)
  <1> DEFINE desired == parseSchemaSql(sql)
             actual == parseSchemaSql(db)
  <1>1. PlanFor(desired, actual, counts, changes) /\ Orderly(desired) /\ sql \in Schemas
    BY OrderlyShips DEF Planning
  <1>2. AddsLacking(desired, actual, counts, s)
    BY <1>1, PlannedAre
  <1>3. PICK w \in desired.tables, p \in ours(actual.tables) : \E c \in lacking(w, p) :
           w.name = p.name /\ ~whyCannotAdd(c, counts[w.name]) /\ s = AddOf(w.name, c)
    BY <1>2 DEF AddsLacking
  <1>4. PICK c \in lacking(w, p) : w.name = p.name /\ ~whyCannotAdd(c, counts[w.name]) /\ s = AddOf(w.name, c)
    BY <1>3
  <1>5. s.table = w.name /\ s.column = c /\ p \in actual.tables /\ c \in w.columns
    BY <1>3, <1>4 DEF AddOf, ours, lacking
  <1>6. PICK u \in sql.tables : parseCreateTable(u) = w /\ u.name = w.name
    BY ReadFrom
  <1>7. PICK i \in columnsIn(u) : parseColumn(i) = c /\ i.name = c.name
    <2>1. w.columns = {parseColumn(j) : j \in columnsIn(u)}
      <3>1. parseCreateTable(u).columns = {parseColumn(j) : j \in columnsIn(u)}
        BY ReadAs
      <3> QED
        BY <1>6, <3>1
    <2>2. \A j : parseColumn(j).name = j.name
      BY ReadAs
    <2> QED
      BY <1>5, <2>1, <2>2
  <1>8. i \in Items /\ isColumn(i) /\ i \in Range(u.items)
    BY <1>1, <1>7 DEF Items, Shipping, columnsIn
  <1>9. itemOf(sql, s) = i
    <2>1. sameName(sql.tables, s.table) = {u}
      BY <1>1, <1>5, <1>6, OneOfAName
    <2>2. (CHOOSE t \in sameName(sql.tables, s.table) : TRUE) = u
      BY <2>1
    <2>3. itemOf(sql, s) = CHOOSE j \in Range(u.items) : isColumn(j) /\ j.name = s.column.name
      BY <2>2 DEF itemOf
    <2>4. \A j \in Range(u.items) : isColumn(j) /\ j.name = i.name => j = i
      BY <1>1, <1>7, OneOfAName DEF columnsIn
    <2> QED
      BY <1>5, <1>7, <1>8, <2>3, <2>4
  <1> HIDE DEF desired, actual
  <1> QED
    BY <1>3, <1>4, <1>5, <1>7, <1>8, <1>9 DEF AddsAs, desired, actual

\* A table of the name of one there was is that one, as it grew.
OldAreGrown(d, desired, actual, done) ==
    \A p \in ours(actual.tables) : \A w \in desired.tables : \A t \in d.tables :
        w.name = p.name /\ t.name = p.name => parseCreateTable(t) = Grown(p, done)

\* It is so on the way.
LEMMA OldTables ==
  ASSUME NEW sql, NEW db, NEW counts, NEW changes, Planning(sql, db, counts, changes),
         NEW done \in SUBSET changes, NEW d, Reached(d, sql, db, done)
  PROVE  OldAreGrown(d, parseSchemaSql(sql), parseSchemaSql(db), done)
  <1> DEFINE desired == parseSchemaSql(sql)
             actual == parseSchemaSql(db)
  <1> SUFFICES ASSUME NEW p \in ours(actual.tables), NEW w \in desired.tables, NEW t \in d.tables,
                      w.name = p.name, t.name = p.name
               PROVE  parseCreateTable(t) = Grown(p, done)
    BY DEF OldAreGrown
  <1>1. ComesFrom(t, desired, actual, done)
    BY TablesReached
  <1>2. OneOfEach(actual.tables) /\ OneOfEach(desired.tables)
    <2>3. OneOfEach(actual.tables)
      BY OneOfEachRead DEF Planning
    <2>4. Orderly(desired)
      BY OrderlyShips DEF Planning
    <2> HIDE DEF actual, desired
    <2> QED
      BY <2>3, <2>4 DEF Orderly
  <1>3. \A x \in changes : x.do = "create table" =>
           \E v \in desired.tables : x.table = v.name /\ v.name \notin names(actual.tables)
    <2>1. \A x \in changes : x.do = "create table" => CreatesNew(x, sql, db)
      BY CreatedAre
    <2> QED
      BY <2>1 DEF CreatesNew
  <1> HIDE DEF desired, actual
  <1>4. p \in actual.tables /\ w \in desired.tables
    BY DEF ours
  <1>5. CASE \E q \in actual.tables : parseCreateTable(t) = Grown(q, done) /\ t.name = q.name
    BY <1>2, <1>4, <1>5 DEF OneOfEach
  <1>6. CASE \E v \in desired.tables : parseCreateTable(t) = v /\ t.name = v.name /\ CreateOf(v.name) \in done
    <2>1. PICK v \in desired.tables : t.name = v.name /\ CreateOf(v.name) \in done
      BY <1>6
    <2>2. PICK x \in changes : x = CreateOf(v.name)
      BY <2>1
    <2>3. x.do = "create table" /\ x.table = v.name
      BY <2>2 DEF CreateOf
    <2>4. v.name \notin names(actual.tables)
      BY <1>3, <2>3
    <2> QED
      BY <1>4, <2>1, <2>4 DEF names
  <1> QED
    BY <1>1, <1>5, <1>6 DEF ComesFrom

\* What is added so far is what was lacking, less what is still to add.
LEMMA AddsSoFar ==
  ASSUME NEW sql, NEW db, NEW counts, NEW changes, Planning(sql, db, counts, changes),
         NEW done \in SUBSET changes,
         NEW p \in ours(parseSchemaSql(db).tables), NEW w \in parseSchemaSql(sql).tables, w.name = p.name
  PROVE  \A c : c \in Added(done, p.name) <=> c \in lacking(w, p) /\ AddOf(w.name, c) \in done
  <1> DEFINE desired == parseSchemaSql(sql)
             actual == parseSchemaSql(db)
  <1>3. OneOfEach(actual.tables)
    BY OneOfEachRead DEF Planning
  <1>4. PlanFor(desired, actual, counts, changes) /\ Orderly(desired)
    BY OrderlyShips DEF Planning
  <1>5. p \in ours(actual.tables) /\ w \in desired.tables
    OBVIOUS
  <1> HIDE DEF desired, actual
  <1> QED
    BY <1>3, <1>4, <1>5, AddedAre

\* SQLite adds a column of a plan, as long as the rows are as counted.
LEMMA AddsAreTaken ==
  ASSUME NEW sql, NEW db, NEW counts, NEW changes, Planning(sql, db, counts, changes),
         NEW done \in SUBSET changes, NEW d, Reached(d, sql, db, done),
         NEW s \in changes, s \notin done, s.do = "add column",
         held \in [TableNames -> Nat], counts = held
  PROVE  ~refusesColumn(d, s, itemOf(sql, s))
  <1> DEFINE desired == parseSchemaSql(sql)
             actual == parseSchemaSql(db)
  <1>1. PICK w \in desired.tables, p \in ours(actual.tables), i \in Items : AddsAs(sql, counts, s, w, p, i)
    BY AddsAre
  <1>2. /\ w.name = p.name
        /\ s.table = w.name /\ s = AddOf(w.name, parseColumn(i)) /\ s.column = parseColumn(i)
        /\ parseColumn(i) \in lacking(w, p) /\ ~whyCannotAdd(parseColumn(i), counts[w.name])
        /\ isColumn(i) /\ itemOf(sql, s) = i
    BY <1>1 DEF AddsAs
  <1> DEFINE c == parseColumn(i)
  <1>3. Orderly(desired)
    BY OrderlyShips DEF Planning
  <1>4. /\ c.name = i.name /\ c.primaryKey = ("PRIMARY KEY" \in i.clauses) /\ c.unique = ("UNIQUE" \in i.clauses)
        /\ c.notNull = ("NOT NULL" \in i.clauses) /\ c.references = ("REFERENCES" \in i.clauses)
        /\ c.defaultExpr = i.default
    BY DEF parseColumn
  <1>5. held[s.table] \in Nat /\ counts[w.name] = held[s.table]
    BY <1>2, <1>3 DEF Orderly
  <1>6. i.clauses \intersect {"PRIMARY KEY", "UNIQUE"} = {}
    BY <1>2, <1>4 DEF whyCannotAdd
  <1>7. held[s.table] > 0 => /\ ~("NOT NULL" \in i.clauses /\ i.default = "none")
                             /\ i.default # "now"
                             /\ ~("REFERENCES" \in i.clauses /\ i.default = "const")
    <2> SUFFICES ASSUME held[s.table] > 0
                 PROVE  /\ ~("NOT NULL" \in i.clauses /\ i.default = "none")
                        /\ i.default # "now"
                        /\ ~("REFERENCES" \in i.clauses /\ i.default = "const")
      OBVIOUS
    <2>1. counts[w.name] # 0
      BY ONLY <1>5, held[s.table] > 0
    <2>2. ~whyCannotAdd(c, counts[w.name])
      BY <1>2
    <2> HIDE DEF c
    <2> QED
      BY <1>4, <2>1, <2>2 DEF whyCannotAdd, isConstantDefault
  <1>8. \E t \in sameName(d.tables, s.table) : \A j \in Range(t.items) : ~(isColumn(j) /\ j.name = i.name)
    <2>1. PICK t \in d.tables : parseCreateTable(t) = Grown(p, done) /\ t.name = p.name
      <3>1. p \in actual.tables
        BY DEF ours
      <3>2. Has(d, Grown(p, done))
        BY <3>1, TablesReached
      <3>3. Grown(p, done).name = p.name
        BY DEF Grown, Wider
      <3> QED
        BY <3>2, <3>3 DEF Has
    <2>2. ASSUME NEW j \in Range(t.items), isColumn(j), j.name = i.name PROVE FALSE
      <3>1. parseColumn(j) \in parseCreateTable(t).columns /\ parseColumn(j).name = i.name
        <4>1. parseCreateTable(t).columns = {parseColumn(k) : k \in columnsIn(t)} /\ parseColumn(j).name = j.name
          BY ReadAs
        <4> QED
          BY <2>2, <4>1 DEF columnsIn
      <3>2. parseColumn(j) \in p.columns \/ parseColumn(j) \in Added(done, p.name)
        <4>1. parseCreateTable(t).columns = p.columns \union Added(done, p.name)
          <5>1. Grown(p, done).columns = p.columns \union Added(done, p.name)
            BY DEF Grown, Wider
          <5> QED
            BY <2>1, <5>1
        <4> QED
          BY <3>1, <4>1
      <3>3. CASE parseColumn(j) \in p.columns
        BY <1>2, <1>4, <3>1, <3>3 DEF lacking, names
      <3>4. CASE parseColumn(j) \in Added(done, p.name)
        <4>1. parseColumn(j) \in lacking(w, p) /\ AddOf(w.name, parseColumn(j)) \in done
          BY <1>2, <3>4, AddsSoFar
        <4>2. parseColumn(j) = c
          <5>1. parseColumn(j) \in w.columns /\ c \in w.columns /\ parseColumn(j).name = c.name
            BY <1>2, <1>4, <3>1, <4>1 DEF lacking
          <5>2. OneOfEach(w.columns)
            BY <1>3 DEF Orderly
          <5> HIDE DEF c
          <5> QED
            BY <5>1, <5>2 DEF OneOfEach
        <4> QED
          BY <1>2, <4>1, <4>2
      <3> QED
        BY <3>2, <3>3, <3>4
    <2> QED
      BY <1>2, <2>1, <2>2 DEF sameName
  <1> HIDE DEF desired, actual, c
  <1>9. itemOf(sql, s) = i
    BY <1>2
  <1> QED
    BY <1>4, <1>6, <1>7, <1>8, <1>9 DEF refusesColumn

\* A table with an item more is read as one with a column more.
LEMMA ReadWider ==
  ASSUME NEW t \in StoredTables, NEW item \in Items, isColumn(item)
  PROVE  parseCreateTable([t EXCEPT !.items = Append(t.items, item)]) = Wider(parseCreateTable(t), {parseColumn(item)})
  <1> DEFINE more == Append(t.items, item)
             u == [t EXCEPT !.items = more]
  <1>1. t.items \in Seq(Items)
    BY DEF StoredTables
  <1>2. Range(more) = Range(t.items) \union {item}
    <2>1. /\ DOMAIN t.items = 1..Len(t.items) /\ Len(t.items) \in Nat
          /\ DOMAIN more = 1..(Len(t.items) + 1)
          /\ \A i \in 1..Len(t.items) : more[i] = t.items[i]
          /\ more[Len(t.items) + 1] = item
      BY <1>1, AppendProperties, LenProperties
    <2> HIDE DEF more
    <2>2. 1..(Len(t.items) + 1) = 1..Len(t.items) \union {Len(t.items) + 1}
      BY <2>1
    <2> QED
      BY <2>1, <2>2 DEF Range
  <1> HIDE DEF more
  <1>3. u.name = t.name /\ u.tail = t.tail /\ u.items = more
    BY DEF StoredTables
  <1> HIDE DEF u
  <1>4. {j \in Range(u.items) : isColumn(j)} = {j \in Range(t.items) : isColumn(j)} \union {item}
    BY <1>2, <1>3
  <1>5. {i \in Range(u.items) : ~isColumn(i)} = {i \in Range(t.items) : ~isColumn(i)}
    BY <1>2, <1>3
  <1>6. {parseColumn(i) : i \in {j \in Range(u.items) : isColumn(j)}}
          = {parseColumn(i) : i \in {j \in Range(t.items) : isColumn(j)}} \union {parseColumn(item)}
    BY <1>4
  <1>7. parseCreateTable(u) = [name |-> t.name, tail |-> t.tail,
                               columns |-> {parseColumn(i) : i \in {j \in Range(t.items) : isColumn(j)}} \union {parseColumn(item)},
                               constraints |-> {i \in Range(t.items) : ~isColumn(i)}]
    BY <1>3, <1>5, <1>6 DEF parseCreateTable
  <1> QED
    BY <1>7 DEF parseCreateTable, Wider, u, more

\* A column added is there, on the table it was added to and on no other.
LEMMA AddsReach ==
  ASSUME NEW sql, NEW db, NEW counts, NEW changes, Planning(sql, db, counts, changes),
         NEW done \in SUBSET changes, NEW d, Reached(d, sql, db, done),
         NEW s \in changes, s \notin done, s.do = "add column",
         ~refusesColumn(d, s, itemOf(sql, s))
  PROVE  Reached(execute(d, sql, s), sql, db, done \union {s})
  <1> DEFINE desired == parseSchemaSql(sql)
             actual == parseSchemaSql(db)
             then == done \union {s}
             after == execute(d, sql, s)
  <1>1. PICK w \in desired.tables, p \in ours(actual.tables), i \in Items : AddsAs(sql, counts, s, w, p, i)
    BY AddsAre
  <1> DEFINE c == parseColumn(i)
             n == p.name
             grow(t) == IF t.name = n THEN [t EXCEPT !.items = Append(t.items, i)] ELSE t
             grown == {grow(t) : t \in d.tables}
  <1>2. /\ w.name = n /\ s.table = n /\ s = AddOf(n, c) /\ s.column = c
        /\ isColumn(i) /\ itemOf(sql, s) = i /\ p \in actual.tables
    BY <1>1 DEF AddsAs, ours
  <1>3. d \in Stores /\ OneOfEach(d.tables) /\ d.tables \subseteq StoredTables
    BY DEF Reached, Stores
  <1>4. OneOfEach(actual.tables)
    BY OneOfEachRead DEF Planning
  <1>5. after = [d EXCEPT !.tables = grown]
    <2>1. after = LET item == itemOf(sql, s) IN
                  IF refusesColumn(d, s, item) THEN Failed
                  ELSE [d EXCEPT !.tables = {IF t.name = s.table THEN [t EXCEPT !.items = Append(@, item)]
                                             ELSE t : t \in @}]
      BY DEF execute
    <2> HIDE DEF after
    <2> QED
      BY <1>2, <2>1
  <1>6. after \in Stores
    <2>1. [d EXCEPT !.tables = {IF t.name = n THEN [t EXCEPT !.items = Append(t.items, i)] ELSE t : t \in d.tables}] \in Stores
      <3> HIDE DEF n
      <3> QED
        BY <1>3, StoresGrow
    <2> HIDE DEF after
    <2> QED
      BY <1>5, <2>1
  <1>7. after.tables = grown /\ after.indexes = d.indexes
    <2>1. d = [tables |-> d.tables, indexes |-> d.indexes]
      BY <1>3 DEF Stores
    <2> HIDE DEF grown, after
    <2> QED
      BY <1>5, <2>1
  <1>8. \A t \in d.tables : grow(t).name = t.name
    BY <1>3 DEF StoredTables
  <1>9. OneOfEach(grown)
    <2>1. \A t, u \in d.tables : t.name = u.name => t = u
      BY <1>3 DEF OneOfEach
    <2> HIDE DEF grow
    <2>2. ASSUME NEW x \in grown, NEW y \in grown, x.name = y.name PROVE x = y
      <3>1. PICK t \in d.tables : x = grow(t)
        OBVIOUS
      <3>2. PICK u \in d.tables : y = grow(u)
        OBVIOUS
      <3>3. t.name = u.name
        BY <1>8, <2>2, <3>1, <3>2
      <3> QED
        BY <2>1, <3>1, <3>2, <3>3
    <2> QED
      BY <2>2 DEF OneOfEach
  <1>10. /\ Added(then, n) = Added(done, n) \union {c}
         /\ \A m : m # n => Added(then, m) = Added(done, m)
    <2>1. s.do = "add column"
      OBVIOUS
    <2> HIDE DEF desired, actual, c, n
    <2> QED
      BY <1>2, <2>1 DEF Added
  <1>11. Made(desired, then) = Made(desired, done)
    <2>1. \A m : CreateOf(m) # s
      <3> SUFFICES ASSUME NEW m, CreateOf(m) = s PROVE FALSE
        OBVIOUS
      <3>1. CreateOf(m).do = "create table"
        BY DEF CreateOf
      <3> QED
        BY <3>1
    <2> QED
      BY <2>1 DEF Made
  <1>12. Reindexed(actual.indexes, then) = Reindexed(actual.indexes, done)
    BY DEF Reindexed
  <1>13. Grown(p, then) = Wider(Grown(p, done), {c}) /\ \A q : q.name # n => Grown(q, then) = Grown(q, done)
    <2>1. /\ Grown(p, done).name = p.name /\ Grown(p, done).tail = p.tail /\ Grown(p, done).constraints = p.constraints
          /\ Grown(p, done).columns = p.columns \union Added(done, n)
      BY DEF Grown, Wider
    <2>2. (p.columns \union Added(done, n)) \union {c} = p.columns \union (Added(done, n) \union {c})
      OBVIOUS
    <2>3. Grown(p, then) = [name |-> p.name, tail |-> p.tail, columns |-> p.columns \union (Added(done, n) \union {c}),
                            constraints |-> p.constraints]
      BY <1>10 DEF Grown, Wider
    <2>4. Wider(Grown(p, done), {c}) = [name |-> p.name, tail |-> p.tail,
                            columns |-> (p.columns \union Added(done, n)) \union {c}, constraints |-> p.constraints]
      BY <2>1 DEF Wider
    <2>5. \A q : q.name # n => Grown(q, then) = Grown(q, done)
      BY <1>10 DEF Grown
    <2> QED
      BY <2>2, <2>3, <2>4, <2>5
  <1>14. ASSUME NEW t \in d.tables, t.name = n PROVE parseCreateTable(grow(t)) = Grown(p, then)
    <2>1. parseCreateTable(t) = Grown(p, done)
      <3>1. OldAreGrown(d, desired, actual, done)
        BY OldTables
      <3> QED
        BY <1>2, <1>14, <3>1 DEF OldAreGrown
    <2>2. parseCreateTable([t EXCEPT !.items = Append(t.items, i)]) = Wider(parseCreateTable(t), {c})
      BY <1>2, <1>3, ReadWider
    <2> QED
      BY <1>13, <1>14, <2>1, <2>2
  <1>v. ViewOf(desired, actual, then).tables = {Grown(q, then) : q \in actual.tables} \union Made(desired, then)
    BY DEF ViewOf
  <1>15. ASSUME NEW t \in d.tables PROVE parseCreateTable(grow(t)) \in ViewOf(desired, actual, then).tables
    <2>1. CASE t.name = n
      <3>1. parseCreateTable(grow(t)) = Grown(p, then)
        BY <1>14, <2>1
      <3> HIDE DEF grow, desired, actual, then, n
      <3> QED
        BY <1>2, <1>v, <3>1
    <2>2. CASE t.name # n
      <3>1. ComesFrom(t, desired, actual, done) /\ grow(t) = t
        BY <2>2, TablesReached
      <3>2. CASE \E q \in actual.tables : parseCreateTable(t) = Grown(q, done) /\ t.name = q.name
        <4>1. PICK q \in actual.tables : parseCreateTable(t) = Grown(q, done) /\ t.name = q.name
          BY <3>2
        <4>2. Grown(q, done) = Grown(q, then)
          BY <1>13, <2>2, <4>1
        <4> HIDE DEF grow, desired, actual, then, n
        <4> QED
          BY <1>v, <3>1, <4>1, <4>2
      <3>3. CASE \E v \in desired.tables : parseCreateTable(t) = v /\ t.name = v.name /\ CreateOf(v.name) \in done
        <4>1. parseCreateTable(t) \in Made(desired, done)
          BY <3>3 DEF Made
        <4> HIDE DEF grow, desired, actual, then, n
        <4> QED
          BY <1>11, <1>v, <3>1, <4>1
      <3> HIDE DEF grow, desired, actual, then, n
      <3> QED
        BY <3>1, <3>2, <3>3 DEF ComesFrom
    <2> QED
      BY <2>1, <2>2
  <1>16. ASSUME NEW q \in actual.tables PROVE \E t \in d.tables : parseCreateTable(grow(t)) = Grown(q, then)
    <2>1. Has(d, Grown(q, done)) /\ Grown(q, done).name = q.name
      <3>1. Has(d, Grown(q, done))
        BY TablesReached
      <3>2. Grown(q, done).name = q.name
        BY DEF Grown, Wider
      <3> QED
        BY <3>1, <3>2
    <2>2. PICK t \in d.tables : parseCreateTable(t) = Grown(q, done) /\ t.name = q.name
      BY <2>1 DEF Has
    <2>3. CASE q.name = n
      <3>1. q = p
        BY <1>2, <1>4, <2>3 DEF OneOfEach
      <3> QED
        BY <1>14, <2>2, <2>3, <3>1
    <2>4. CASE q.name # n
      BY <1>13, <2>2, <2>4
    <2> QED
      BY <2>3, <2>4
  <1>17. ASSUME NEW v \in Made(desired, done) PROVE \E t \in d.tables : parseCreateTable(grow(t)) = v
    <2>1. v \in desired.tables /\ CreateOf(v.name) \in done
      BY <1>17 DEF Made
    <2>2. Has(d, v)
      BY <2>1, TablesReached
    <2>3. v.name # n
      <3>1. PICK x \in changes : x = CreateOf(v.name)
        BY <2>1
      <3>2. x.do = "create table" /\ x.table = v.name
        BY <3>1 DEF CreateOf
      <3>3. PICK u \in desired.tables : x.table = u.name /\ u.name \notin names(actual.tables)
        <4>1. CreatesNew(x, sql, db)
          BY <3>2, CreatedAre
        <4> QED
          BY <4>1 DEF CreatesNew
      <3> QED
        BY <1>2, <3>2, <3>3 DEF names
    <2> QED
      BY <2>2, <2>3 DEF Has
  <1>18. parseSchemaSql(after).tables = ViewOf(desired, actual, then).tables
    <2>1. parseSchemaSql(after).tables = {parseCreateTable(t) : t \in grown}
      BY <1>7, ReadAs
    <2>2. {parseCreateTable(t) : t \in grown} = {parseCreateTable(grow(t)) : t \in d.tables}
      <3> HIDE DEF grow
      <3> QED
        OBVIOUS
    <2> HIDE DEF grow, grown, desired, actual, then, after, n
    <2> QED
      <3>1. \A t \in d.tables : parseCreateTable(grow(t)) \in ViewOf(desired, actual, then).tables
        BY <1>15
      <3>2. \A v \in ViewOf(desired, actual, then).tables : \E t \in d.tables : parseCreateTable(grow(t)) = v
        BY <1>11, <1>16, <1>17, <1>v
      <3> QED
        <4> DEFINE P == parseSchemaSql(after).tables
                   V == ViewOf(desired, actual, then).tables
                   g(t) == parseCreateTable(grow(t))
        <4>1. P = {g(t) : t \in d.tables}
          BY <2>1, <2>2
        <4>2. \A t \in d.tables : g(t) \in V
          BY <3>1
        <4>3. \A v \in V : \E t \in d.tables : g(t) = v
          BY <3>2
        <4> HIDE DEF P, V, g
        <4>4. P = V
          BY <4>1, <4>2, <4>3
        <4> QED
          BY <4>4 DEF P, V
  <1>19. after.indexes = ViewOf(desired, actual, then).indexes
    <2>1. d.indexes = ViewOf(desired, actual, done).indexes
      BY DEF Reached
    <2> HIDE DEF desired, actual, then, after
    <2> QED
      BY <1>7, <1>12, <2>1 DEF ViewOf
  <1> HIDE DEF grow, grown
  <1>20. OneOfEach(after.tables)
    BY <1>7, <1>9
  <1> HIDE DEF desired, actual, then, after
  <1> QED
    BY <1>6, <1>18, <1>19, <1>20 DEF Reached, desired, actual, then, after

\* The tables' changes are made.
TablesDone(changes, done) == \A x \in changes : x.do \in {"create table", "add column"} => x \in done

\* Then every table asked for is there with every column asked for.
LEMMA TablesWhole ==
  ASSUME NEW sql, NEW db, NEW counts, NEW changes, Planning(sql, db, counts, changes),
         NEW done \in SUBSET changes, NEW d, Reached(d, sql, db, done), TablesDone(changes, done),
         NEW w \in parseSchemaSql(sql).tables
  PROVE  \E t \in d.tables : t.name = w.name /\ names(w.columns) \subseteq {i.name : i \in columnsIn(t)}
  <1> DEFINE desired == parseSchemaSql(sql)
             actual == parseSchemaSql(db)
  <1>1. PlanFor(desired, actual, counts, changes)
    BY DEF Planning
  <1>2. ASSUME NEW t, NEW v, parseCreateTable(t) = v PROVE {i.name : i \in columnsIn(t)} = names(v.columns)
    <2>1. v.columns = {parseColumn(i) : i \in columnsIn(t)}
      <3>1. parseCreateTable(t).columns = {parseColumn(i) : i \in columnsIn(t)}
        BY ReadAs
      <3> QED
        BY <1>2, <3>1
    <2>2. \A i : parseColumn(i).name = i.name
      BY ReadAs
    <2> QED
      BY <2>1, <2>2 DEF names
  <1>3. CASE w.name \in names(ours(actual.tables))
    <2>1. PICK p \in ours(actual.tables) : p.name = w.name
      BY <1>3 DEF names
    <2>2. Has(d, Grown(p, done))
      <3>1. p \in actual.tables
        BY DEF ours
      <3> QED
        BY <3>1, TablesReached
    <2>3. Grown(p, done).name = p.name /\ Grown(p, done).columns = p.columns \union Added(done, p.name)
      BY DEF Grown, Wider
    <2>4. PICK t \in d.tables : parseCreateTable(t) = Grown(p, done) /\ t.name = Grown(p, done).name
      BY <2>2 DEF Has
    <2>5. ASSUME NEW c \in w.columns, c.name \notin names(p.columns) PROVE c \in Added(done, p.name)
      <3>1. c \in lacking(w, p)
        BY <2>5 DEF lacking
      <3>2. AddOf(w.name, c) \in changes
        BY <1>1, <2>1, <3>1 DEF PlanFor
      <3>3. PICK x \in changes : x = AddOf(w.name, c)
        BY <3>2
      <3>4. x.do = "add column"
        BY <3>3 DEF AddOf
      <3>5. AddOf(w.name, c) \in done
        BY <3>3, <3>4 DEF TablesDone
      <3> QED
        BY <2>1, <3>1, <3>5, AddsSoFar
    <2>6. names(w.columns) \subseteq names(Grown(p, done).columns)
      BY <2>3, <2>5 DEF names
    <2>7. {i.name : i \in columnsIn(t)} = names(Grown(p, done).columns)
      BY <1>2, <2>4
    <2> QED
      BY <2>1, <2>3, <2>4, <2>6, <2>7
  <1>4. CASE CreateOf(w.name) \in changes
    <2>1. PICK x \in changes : x = CreateOf(w.name)
      BY <1>4
    <2>2. x.do = "create table"
      BY <2>1 DEF CreateOf
    <2>3. CreateOf(w.name) \in done
      BY <2>1, <2>2 DEF TablesDone
    <2>4. Has(d, w)
      BY <2>3, TablesReached
    <2>5. PICK t \in d.tables : parseCreateTable(t) = w /\ t.name = w.name
      BY <2>4 DEF Has
    <2>6. {i.name : i \in columnsIn(t)} = names(w.columns)
      BY <1>2, <2>5
    <2> QED
      BY <2>5, <2>6
  <1> QED
    BY <1>1, <1>3, <1>4 DEF PlanFor

\* So an index asked for can be made, but for rows that are alike.
LEMMA IndexesAreTaken ==
  ASSUME NEW sql, NEW db, NEW counts, NEW changes, Planning(sql, db, counts, changes),
         NEW done \in SUBSET changes, NEW d, Reached(d, sql, db, done), TablesDone(changes, done),
         NEW j \in parseSchemaSql(sql).indexes, refusesIndex(d, j)
  PROVE  j.unique /\ j.table \in doubles
  <1>1. PICK w \in parseSchemaSql(sql).tables : w.name = j.table /\ j.columns \subseteq names(w.columns)
    <2>1. Orderly(parseSchemaSql(sql))
      BY OrderlyShips DEF Planning
    <2> QED
      BY <2>1 DEF Orderly
  <1>2. PICK t \in d.tables : t.name = w.name /\ names(w.columns) \subseteq {i.name : i \in columnsIn(t)}
    BY TablesWhole
  <1>3. t \in sameName(d.tables, j.table) /\ j.columns \subseteq {i.name : i \in {k \in Range(t.items) : isColumn(k)}}
    BY <1>1, <1>2 DEF sameName, columnsIn
  <1> QED
    BY <1>3 DEF refusesIndex

\* The index statements of a plan, each of an index asked for.
LEMMA IndexedAre ==
  ASSUME NEW sql, NEW db, NEW counts, NEW changes, Planning(sql, db, counts, changes),
         NEW s \in changes, s.do \in {"create index", "replace index"}
  PROVE  s \in indexChanges(parseSchemaSql(sql), parseSchemaSql(db)) /\ Orderly(parseSchemaSql(sql))
  <1>1. PlanFor(parseSchemaSql(sql), parseSchemaSql(db), counts, changes) /\ Orderly(parseSchemaSql(sql))
    BY OrderlyShips DEF Planning
  <1> QED
    BY <1>1, PlannedAre

\* An index made is there, and no other with its name.
LEMMA IndexesReach ==
  ASSUME NEW sql, NEW db, NEW counts, NEW changes, Planning(sql, db, counts, changes),
         NEW done \in SUBSET changes, NEW d, Reached(d, sql, db, done), TablesDone(changes, done),
         NEW s \in changes, s \notin done, s.do \in {"create index", "replace index"}
  PROVE  \/ execute(d, sql, s) = Failed /\ s.index.unique /\ s.table \in doubles
         \/ Reached(execute(d, sql, s), sql, db, done \union {s})
  <1> DEFINE desired == parseSchemaSql(sql)
             actual == parseSchemaSql(db)
             then == done \union {s}
             after == execute(d, sql, s)
             j == s.index
             kept == IF s.do = "replace index" THEN d.indexes \ sameName(d.indexes, j.name) ELSE d.indexes
             more == kept \union {j}
  <1>1. s \in indexChanges(desired, actual) /\ Orderly(desired)
    BY IndexedAre
  <1>2. ASSUME NEW x \in done, x.do \in {"create index", "replace index"}
        PROVE  x \in indexChanges(desired, actual) /\ x.index.name # j.name
    <2>1. x \in indexChanges(desired, actual)
      BY <1>2, IndexedAre
    <2>2. CASE x.index.name = j.name
      <3>1. x = s
        BY <1>1, <2>1, <2>2, OneChangeEach
      <3> QED
        BY <3>1
    <2> QED
      BY <2>1, <2>2
  <1>3. /\ \/ s.do = "create index" /\ j.name \notin names(actual.indexes)
           \/ s.do = "replace index" /\ j.name \in names(actual.indexes)
        /\ j \in desired.indexes /\ s.table = j.table
    <2>1. /\ \/ s.do = "create index" /\ s.index.name \notin names(actual.indexes)
             \/ s.do = "replace index" /\ s.index.name \in names(actual.indexes)
          /\ s.index \in desired.indexes /\ s.table = s.index.table /\ s = IndexOf(s.do, s.index)
      <3> HIDE DEF desired, actual
      <3> QED
        BY <1>1, IndexChangeIs
    <2> QED
      BY <2>1
  <1>4. d.indexes = Reindexed(actual.indexes, done)
    <2>1. d.indexes = ViewOf(desired, actual, done).indexes
      BY DEF Reached
    <2> HIDE DEF desired, actual
    <2> QED
      BY <2>1 DEF ViewOf
  <1> HIDE DEF desired, actual
  <1>5. ASSUME NEW k \in d.indexes, k.name = j.name PROVE s.do = "replace index"
    <2>1. k \in actual.indexes
      BY <1>2, <1>4, <1>5 DEF Reindexed
    <2> QED
      BY <1>3, <1>5, <2>1 DEF names
  <1>6. j.name \notin names(kept)
    BY <1>5 DEF names, sameName
  <1>7. more = Reindexed(actual.indexes, then)
    <2>1. CASE s.do = "replace index"
      <3>1. more = {k \in d.indexes : k.name # j.name} \union {j}
        BY <2>1 DEF sameName
      <3>2. Reindexed(actual.indexes, then) = {k \in Reindexed(actual.indexes, done) : k.name # j.name} \union {j}
        <4>1. ASSUME NEW k, k \in Reindexed(actual.indexes, then)
              PROVE  k = j \/ (k \in Reindexed(actual.indexes, done) /\ k.name # j.name)
          BY <1>2, <2>1, <4>1 DEF Reindexed
        <4>2. ASSUME NEW k, k \in Reindexed(actual.indexes, done), k.name # j.name
              PROVE  k \in Reindexed(actual.indexes, then)
          BY <2>1, <4>2 DEF Reindexed
        <4>3. j \in Reindexed(actual.indexes, then)
          BY DEF Reindexed
        <4> HIDE DEF then, j
        <4> QED
          BY <4>1, <4>2, <4>3
      <3> QED
        BY <1>4, <3>1, <3>2
    <2>2. CASE s.do = "create index"
      <3>1. more = d.indexes \union {j}
        BY <2>2
      <3>2. Reindexed(actual.indexes, then) = Reindexed(actual.indexes, done) \union {j}
        BY <2>2 DEF Reindexed
      <3> QED
        BY <1>4, <3>1, <3>2
    <2> QED
      BY <2>1, <2>2
  <1>8. after = IF refusesIndex(d, j) THEN Failed ELSE [d EXCEPT !.indexes = more]
    <2>1. after = IF j.name \in names(kept) THEN d
                  ELSE IF refusesIndex(d, j) THEN Failed
                  ELSE [d EXCEPT !.indexes = kept \union {j}]
      BY DEF execute
    <2> HIDE DEF after, kept, j
    <2> QED
      BY <1>6, <2>1
  <1>9. CASE refusesIndex(d, j)
    <2>1. j.unique /\ j.table \in doubles
      <3>1. j \in parseSchemaSql(sql).indexes
        BY <1>3 DEF desired
      <3> HIDE DEF j, then, after
      <3> QED
        BY <1>9, <3>1, IndexesAreTaken
    <2> HIDE DEF after
    <2> QED
      BY <1>3, <1>8, <1>9, <2>1 DEF after
  <1>10. CASE ~refusesIndex(d, j)
    <2>1. d \in Stores /\ OneOfEach(d.tables) /\ sql \in Stores
      BY OrderlyShips, SchemasAreStores DEF Reached, Planning
    <2>2. d = [tables |-> d.tables, indexes |-> d.indexes] /\ d.tables \subseteq StoredTables /\ d.indexes \subseteq Indexes
      BY <2>1 DEF Stores
    <2>3. more \subseteq Indexes
      <3>1. j \in Indexes
        <4>1. j \in sql.indexes
          BY <1>3, ReadAs DEF desired
        <4> QED
          BY <2>1, <4>1 DEF Stores
      <3> QED
        BY <2>2, <3>1
    <2> HIDE DEF after, more, kept, then, j
    <2>4. after = [d EXCEPT !.indexes = more]
      BY <1>8, <1>10
    <2>5. after \in Stores /\ after.tables = d.tables /\ after.indexes = more
      BY <2>2, <2>3, <2>4 DEF Stores
    <2>6. parseSchemaSql(after).tables = parseSchemaSql(d).tables
      <3>1. /\ parseSchemaSql(after).tables = {parseCreateTable(t) : t \in after.tables}
            /\ parseSchemaSql(d).tables = {parseCreateTable(t) : t \in d.tables}
        BY ReadAs
      <3> QED
        BY <2>5, <3>1
    <2>7. ViewOf(desired, actual, then).tables = ViewOf(desired, actual, done).tables
      <3>1. s.do # "create table" /\ s.do # "add column"
        OBVIOUS
      <3>2. \A n : Added(then, n) = Added(done, n)
        BY <3>1 DEF Added, then
      <3>3. \A p : Grown(p, then) = Grown(p, done)
        BY <3>2 DEF Grown
      <3>4. \A m : CreateOf(m) # s
        <4> SUFFICES ASSUME NEW m, CreateOf(m) = s PROVE FALSE
          OBVIOUS
        <4>1. CreateOf(m).do = "create table"
          BY DEF CreateOf
        <4> QED
          BY <3>1, <4>1
      <3>5. Made(desired, then) = Made(desired, done)
        BY <3>4 DEF Made, then
      <3> QED
        BY <3>3, <3>5 DEF ViewOf
    <2>8. parseSchemaSql(d).tables = ViewOf(desired, actual, done).tables
      BY DEF Reached, desired, actual
    <2>9. ViewOf(desired, actual, then).indexes = more
      BY <1>7 DEF ViewOf
    <2> QED
      BY <2>1, <2>5, <2>6, <2>7, <2>8, <2>9 DEF Reached, desired, actual, then, after
  <1> QED
    BY <1>9, <1>10

\* A plan has a unique index on a table with rows that are alike.
BreaksIndex(changes) ==
    \E s \in changes : s.do \in {"create index", "replace index"} /\ s.index.unique /\ s.table \in doubles

\* One statement more: it is made, or a unique index is broken.
LEMMA OneMore ==
  ASSUME NEW sql, NEW db, NEW counts, NEW changes, Planning(sql, db, counts, changes),
         NEW done \in SUBSET changes, NEW d, Reached(d, sql, db, done),
         NEW s \in changes, s \notin done,
         s.do \in {"create index", "replace index"} => TablesDone(changes, done),
         held \in [TableNames -> Nat], counts = held
  PROVE  \/ execute(d, sql, s) = Failed /\ BreaksIndex(changes)
         \/ Reached(execute(d, sql, s), sql, db, done \union {s})
  <1>1. s.do \in {"create table", "add column", "create index", "replace index"}
    <2>1. PlanFor(parseSchemaSql(sql), parseSchemaSql(db), counts, changes)
      BY DEF Planning
    <2> QED
      BY <2>1, PlannedAre
  <1>2. CASE s.do = "create table"
    BY <1>2, CreatesReach
  <1>3. CASE s.do = "add column"
    BY <1>3, AddsAreTaken, AddsReach
  <1>4. CASE s.do \in {"create index", "replace index"}
    <2>1. \/ execute(d, sql, s) = Failed /\ s.index.unique /\ s.table \in doubles
          \/ Reached(execute(d, sql, s), sql, db, done \union {s})
      BY <1>4, IndexesReach
    <2> QED
      BY <1>4, <2>1 DEF BreaksIndex
  <1> QED
    BY <1>1, <1>2, <1>3, <1>4

\* A plan shown without a refusal is carried out, on rows as counted, unless a
\* unique index is broken; and what it leaves is what was asked for.
LEMMA PlansAreKept ==
  ASSUME NEW sql \in Shipped, NEW db \in Stores, OneOfEach(db.tables),
         held \in [TableNames -> Nat], NEW counts, counts = held,
         diffSchema(parseSchemaSql(sql), parseSchemaSql(db), counts).refusals = {}, NEW other
  PROVE  LET delta == diffSchema(parseSchemaSql(sql), parseSchemaSql(db), counts)
             after == batch(db, sql, statementsOf(delta))
         IN \/ after = Failed /\ BreaksIndex(delta.changes)
            \/ /\ after \in Stores /\ OneOfEach(after.tables)
               /\ upToDate(diffSchema(parseSchemaSql(sql), parseSchemaSql(after), other))
  <1> DEFINE desired == parseSchemaSql(sql)
             actual == parseSchemaSql(db)
             delta == diffSchema(desired, actual, counts)
             changes == delta.changes
             sequel == statementsOf(delta)
             New == Stores \union {Failed}
             n == Len(sequel)
             done(k) == {sequel[i] : i \in 1..k}
             Fine(d, k) == (d = Failed /\ BreaksIndex(changes)) \/ Reached(d, sql, db, done(k))
  <1>1. sql \in Schemas /\ Orderly(desired)
    BY OrderlyShips
  <1>2. changes \subseteq Steps(sql)
    BY <1>1, DeltasAreSteps
  <1>3. PlanFor(desired, actual, counts, changes)
    BY DeltasPlan
  <1>4. Planning(sql, db, counts, changes)
    BY <1>2, <1>3 DEF Planning
  <1>5. /\ Lists(sequel, changes)
        /\ TablesFirst(sequel, changes)
    BY <1>1, <1>2, PlansListChanges
  <1>6. sequel \in Seq(Steps(sql))
    BY <1>1, <1>2, PlansAreSteps
  <1> HIDE DEF desired, actual, delta, changes, sequel
  <1>7. n \in Nat /\ DOMAIN sequel = 1..n
    BY <1>6, LenProperties
  <1>8. \A i \in 1..n : sequel[i] \in changes
    BY <1>5, <1>7 DEF Lists, Range
  <1>f. isFailed(Failed) /\ \A d \in Stores : ~isFailed(d)
    BY DEF isFailed, Failed, Stores
  <1>9. PICK run \in [0..n -> New] :
           /\ run[0] = db /\ batch(db, sql, sequel) = run[n]
           /\ \A k \in 1..n : run[k] = IF isFailed(run[k - 1]) THEN run[k - 1] ELSE execute(run[k - 1], sql, sequel[k])
    <2>1. \A d \in New : \A s \in Steps(sql) : ~isFailed(d) => execute(d, sql, s) \in New
      BY <1>1, <1>f, StatementsKeepStores
    <2>2. db \in New
      OBVIOUS
    <2> HIDE DEF New
    <2>3. RunsWithin(New, db, sql, sequel)
      BY <1>6, <2>1, <2>2, BatchesRun
    <2>4. PICK run \in [0..Len(sequel) -> New] : Runs(run, db, sql, sequel) /\ batch(db, sql, sequel) = run[Len(sequel)]
      BY <2>3 DEF RunsWithin
    <2> WITNESS run \in [0..n -> New]
    <2> QED
      BY <2>4 DEF Runs
  <1>10. Fine(run[0], 0)
    <2>1. done(0) = {}
      OBVIOUS
    <2>2. Reached(db, sql, db, {})
      BY <1>1, NothingDone
    <2> HIDE DEF done
    <2> QED
      BY <1>9, <2>1, <2>2
  <1>11. ASSUME NEW k \in 1..n, Fine(run[k - 1], k - 1) PROVE Fine(run[k], k)
    <2> DEFINE d == run[k - 1]
               s == sequel[k]
               before == done(k - 1)
    <2>1. run[k] = IF isFailed(d) THEN d ELSE execute(d, sql, s)
      BY <1>9
    <2>2. s \in changes /\ before \subseteq changes
      <3>1. \A i \in 1..(k - 1) : i \in 1..n
        BY <1>7
      <3> QED
        BY <1>8, <3>1
    <2>3. s \notin before
      <3> SUFFICES ASSUME NEW i \in 1..(k - 1), sequel[i] = sequel[k] PROVE FALSE
        OBVIOUS
      <3>1. i \in 1..n /\ i # k
        BY <1>7
      <3> QED
        BY <1>5, <1>7, <3>1 DEF Lists
    <2>4. done(k) = before \union {s}
      <3>1. 1..k = 1..(k - 1) \union {k}
        BY <1>7
      <3> QED
        BY <3>1
    <2>5. s.do \in {"create index", "replace index"} => TablesDone(changes, before)
      <3> SUFFICES ASSUME s.do \in {"create index", "replace index"},
                          NEW x \in changes, x.do \in {"create table", "add column"}
                   PROVE  x \in before
        BY DEF TablesDone
      <3>1. \E j \in 1..(k - 1) : sequel[j] = x
        BY <1>5, <1>7 DEF TablesFirst
      <3> QED
        BY <3>1
    <2> HIDE DEF d, s, before, done
    <2>6. CASE d = Failed /\ BreaksIndex(changes)
      BY <1>f, <2>1, <2>6
    <2>7. CASE Reached(d, sql, db, before)
      <3>1. ~isFailed(d)
        BY <1>f, <2>7 DEF Reached
      <3>2. \/ execute(d, sql, s) = Failed /\ BreaksIndex(changes)
            \/ Reached(execute(d, sql, s), sql, db, before \union {s})
        BY <1>4, <2>2, <2>3, <2>5, <2>7, OneMore
      <3> QED
        BY <2>1, <2>4, <3>1, <3>2
    <2> QED
      BY <1>11, <2>6, <2>7 DEF d, before
  <1>12. Fine(run[n], n)
    <2> SUFFICES ASSUME ~Fine(run[n], n) PROVE FALSE
      OBVIOUS
    <2> DEFINE Bad == {k \in 0..n : ~Fine(run[k], k)}
    <2> HIDE DEF Fine
    <2>1. n \in Bad /\ Bad \subseteq Nat
      BY <1>7
    <2>2. PICK k \in Bad : \A m \in Bad : <<m, k>> \notin OpToRel(<, Nat)
      BY <2>1, NatLessThanWellFounded, WFMin
    <2>3. k \in 0..n /\ ~Fine(run[k], k)
      OBVIOUS
    <2>4. k # 0
      BY <1>10, <2>3
    <2>5. k \in 1..n /\ k - 1 \in 0..n
      BY <1>7, <2>3, <2>4
    <2>6. k - 1 \in Bad
      BY <1>11, <2>3, <2>5
    <2>7. <<k - 1, k>> \in OpToRel(<, Nat)
      BY <1>7, <2>5 DEF OpToRel
    <2> QED
      BY <2>2, <2>6, <2>7
  <1>13. done(n) = changes
    BY <1>5, <1>7 DEF Lists, Range
  <1> HIDE DEF done
  <1>14. CASE Reached(run[n], sql, db, changes)
    <2> DEFINE after == run[n]
    <2>1. after \in Stores /\ OneOfEach(after.tables)
      BY <1>14 DEF Reached
    <2>2. parseSchemaSql(after) = ViewOf(desired, actual, changes)
      <3>1. /\ parseSchemaSql(after).tables = ViewOf(desired, actual, changes).tables
            /\ after.indexes = ViewOf(desired, actual, changes).indexes
        BY <1>14 DEF Reached, desired, actual
      <3>2. parseSchemaSql(after).indexes = after.indexes
        BY ReadAs
      <3>3. parseSchemaSql(after) = [tables |-> parseSchemaSql(after).tables, indexes |-> parseSchemaSql(after).indexes]
        BY DEF parseSchemaSql
      <3>4. ViewOf(desired, actual, changes)
               = [tables |-> ViewOf(desired, actual, changes).tables, indexes |-> ViewOf(desired, actual, changes).indexes]
        BY DEF ViewOf
      <3> QED
        BY <3>1, <3>2, <3>3, <3>4
    <2>3. OneOfEach(actual.tables)
      BY OneOfEachRead DEF actual
    <2>4. upToDate(diffSchema(desired, ViewOf(desired, actual, changes), other))
      BY <1>1, <1>3, <2>3, PlansLeaveNothing
    <2> HIDE DEF after
    <2>5. upToDate(diffSchema(desired, parseSchemaSql(after), other))
      BY <2>2, <2>4
    <2> QED
      BY <1>9, <2>1, <2>5 DEF after, desired, actual, delta, sequel
  <1>15. CASE run[n] = Failed /\ BreaksIndex(changes)
    BY <1>9, <1>15 DEF changes, delta, sequel, desired, actual
  <1> QED
    BY <1>12, <1>13, <1>14, <1>15

\* A statement keeps a table of each name.
LEMMA StatementsKeepOne ==
  ASSUME NEW sql \in Schemas, NEW db \in Stores, OneOfEach(db.tables), NEW s \in Steps(sql)
  PROVE  OneOfEach(execute(db, sql, s).tables)
  <1>d. db = [tables |-> db.tables, indexes |-> db.indexes] /\ db.tables \subseteq StoredTables
    BY DEF Stores
  <1>k. s.do \in {"create table", "add column", "create index", "replace index"}
    BY StatementsAre
  <1>f. OneOfEach(Failed.tables)
    BY DEF Failed, OneOfEach
  <1>1. CASE s.do = "create table"
    <2> DEFINE new == sameName(sql.tables, s.table)
               more == db.tables \union new
    <2>1. execute(db, sql, s) = IF s.table \in names(db.tables) THEN db ELSE [db EXCEPT !.tables = more]
      BY <1>1 DEF execute
    <2>2. \A t, u \in new : t = u
      <3> SUFFICES ASSUME NEW t \in new, NEW u \in new PROVE t = u
        OBVIOUS
      <3>1. t \in sql.tables /\ u \in sql.tables /\ t.name = s.table /\ u.name = s.table
        BY DEF sameName
      <3>2. sameName(sql.tables, t.name) = {t}
        BY <3>1, OneOfAName
      <3> QED
        BY <3>1, <3>2 DEF sameName
    <2>3. \A t \in new : t.name = s.table
      BY DEF sameName
    <2> HIDE DEF new
    <2>4. s.table \notin names(db.tables) => OneOfEach(more)
      BY <2>2, <2>3 DEF OneOfEach, names
    <2> HIDE DEF more
    <2>5. [db EXCEPT !.tables = more].tables = more
      BY <1>d
    <2> QED
      BY <2>1, <2>4, <2>5
  <1>2. CASE s.do = "add column"
    <2> DEFINE item == itemOf(sql, s)
               grow(t) == IF t.name = s.table THEN [t EXCEPT !.items = Append(t.items, item)] ELSE t
               grown == {grow(t) : t \in db.tables}
    <2>1. execute(db, sql, s) = Failed \/ execute(db, sql, s) = [db EXCEPT !.tables = grown]
      BY <1>2 DEF execute
    <2> HIDE DEF item
    <2>2. \A t \in db.tables : grow(t).name = t.name
      BY <1>d DEF StoredTables
    <2>3. OneOfEach(grown)
      <3> HIDE DEF grow
      <3> QED
        BY <2>2 DEF OneOfEach
    <2> HIDE DEF grown
    <2>4. [db EXCEPT !.tables = grown].tables = grown
      BY <1>d
    <2> QED
      BY <1>f, <2>1, <2>3, <2>4
  <1>3. CASE s.do \in {"create index", "replace index"}
    <2> DEFINE kept == IF s.do = "replace index" THEN db.indexes \ sameName(db.indexes, s.index.name)
                       ELSE db.indexes
               more == kept \union {s.index}
    <2>1. execute(db, sql, s) = IF s.index.name \in names(kept) THEN db
                                ELSE IF refusesIndex(db, s.index) THEN Failed
                                ELSE [db EXCEPT !.indexes = more]
      BY <1>3 DEF execute
    <2> HIDE DEF kept, more
    <2>2. [db EXCEPT !.indexes = more].tables = db.tables
      BY <1>d
    <2> QED
      BY <1>f, <2>1, <2>2
  <1> QED
    BY <1>k, <1>1, <1>2, <1>3

\* So does a transaction.
LEMMA BatchesKeepOne ==
  ASSUME NEW sql \in Schemas, NEW db \in Stores, OneOfEach(db.tables), NEW sequel \in Seq(Steps(sql))
  PROVE  OneOfEach(batch(db, sql, sequel).tables)
  <1> DEFINE New == {d \in Stores \union {Failed} : OneOfEach(d.tables)}
  <1>1. ASSUME NEW d \in New, NEW s \in Steps(sql), ~isFailed(d) PROVE execute(d, sql, s) \in New
    <2>1. isFailed(Failed)
      BY DEF isFailed, Failed
    <2>2. d \in Stores /\ OneOfEach(d.tables)
      BY <1>1, <2>1
    <2> QED
      BY <2>2, StatementsKeepStores, StatementsKeepOne
  <1>2. db \in New
    OBVIOUS
  <1> HIDE DEF New
  <1>3. batch(db, sql, sequel) \in New
    BY <1>1, <1>2, BatchesKeep
  <1> QED
    BY <1>3 DEF New

\* What a command that nobody disturbed knows of the database and its rows.
AloneHolds(c, db, rows) ==
    /\ c.alone \in BOOLEAN
    /\ c.alone /\ c.at \in {"counting", "applying"} => c.seen = db
    /\ c.alone /\ c.at = "applying" =>
          LET delta == diffSchema(parseSchemaSql(shipped[c.want]), parseSchemaSql(db), rows)
          IN c.counts = rows /\ delta.refusals = {} /\ c.plan = statementsOf(delta)
    /\ c.alone /\ c.at = "verifying" =>
          upToDate(diffSchema(parseSchemaSql(shipped[c.want]), parseSchemaSql(db), c.counts))

KeptIn(said) ==
    /\ said.says = "failed" /\ said.alone => said.unique
    /\ said.says = "survives" => ~said.alone

PlanInv ==
    /\ OneOfEach(inDatabase.tables)
    /\ held \in [TableNames -> Nat]
    /\ \A t \in doubles : t \in TableNames /\ held[t] > 0
    /\ \A p \in People : AloneHolds(push[p], inDatabase, held)
    /\ \A p \in People : KeptIn(lastSaid[p])

\* Idle, or with rows or tables changed under it, a command knows nothing.
LEMMA NothingKnown ==
  ASSUME NEW db, NEW rows
  PROVE  /\ AloneHolds(NoCommand, db, rows)
         /\ SchemaInv => \A but : \A q \in People : q \notin but => AloneHolds(disturbed(but)[q], db, rows)
  <1>1. AloneHolds(NoCommand, db, rows)
    BY DEF AloneHolds, NoCommand
  <1>2. ASSUME SchemaInv, NEW but, NEW q \in People, q \notin but PROVE AloneHolds(disturbed(but)[q], db, rows)
    <2> DEFINE c == push[q]
               no == FALSE
    <2>1. disturbed(but)[q] = [c EXCEPT !.alone = no]
      BY <1>2 DEF disturbed
    <2>2. CommandHolds(c)
      BY <1>2 DEF SchemaInv
    <2> HIDE DEF c, no
    <2>3. [c EXCEPT !.alone = no] = Going(c.at, c.want, c.seen, c.counts, c.plan, no)
      BY <2>2, GoesOn
    <2> QED
      BY <2>1, <2>3 DEF AloneHolds, Going, no
  <1> QED
    BY <1>1, <1>2

\* It holds at first.
LEMMA InitPlan == SchemaInit => PlanInv
  <1> SUFFICES ASSUME SchemaInit PROVE PlanInv
    OBVIOUS
  <1>1. inDatabase \in Schemas /\ held \in [TableNames -> Nat] /\ doubles = {}
    BY DEF SchemaInit, Schemas
  <1>2. OneOfEach(inDatabase.tables)
    <2> SUFFICES ASSUME NEW t \in inDatabase.tables, NEW u \in inDatabase.tables, t.name = u.name PROVE t = u
      BY DEF OneOfEach
    <2>1. sameName(inDatabase.tables, t.name) = {t}
      BY <1>1, OneOfAName
    <2> QED
      BY <2>1 DEF sameName
  <1>3. \A p \in People : push[p] = NoCommand /\ lastSaid[p] = Silent
    BY DEF SchemaInit
  <1>4. \A p \in People : AloneHolds(push[p], inDatabase, held)
    BY <1>3, NothingKnown
  <1>5. \A p \in People : KeptIn(lastSaid[p])
    BY <1>3 DEF KeptIn, Silent
  <1> QED
    BY <1>1, <1>2, <1>4, <1>5 DEF PlanInv

\* A step that leaves what ships and a table of each name, knows and has told well.
LEMMA PlanRests ==
  ASSUME UNCHANGED shipped, OneOfEach(inDatabase'.tables), held' \in [TableNames -> Nat],
         \A t \in doubles' : t \in TableNames /\ held'[t] > 0,
         \A p \in People : AloneHolds(push'[p], inDatabase', held'),
         \A p \in People : KeptIn(lastSaid'[p])
  PROVE  PlanInv'
  <1>1. \A p \in People : AloneHolds(push[p], inDatabase, held)'
    BY DEF AloneHolds
  <1> QED
    BY <1>1 DEF PlanInv


\* A command that ends having told what is so.
LEMMA SaysWell ==
  ASSUME SchemaInv, PlanInv, NEW p \in People, NEW what, NEW known, Says(p, what, known),
         what = "failed" /\ push[p].alone => \E s \in Range(push[p].plan) : cautioned(s) /\ s.table \in doubles,
         what = "survives" => ~push[p].alone
  PROVE  \A q \in People : KeptIn(lastSaid'[q])
  <1> DEFINE said == [says |-> what, alone |-> push[p].alone,
                      so |-> what \in {"up to date", "verified"} => Matches(shipped[push[p].want], known),
                      unique |-> \E s \in Range(push[p].plan) : cautioned(s) /\ s.table \in doubles]
  <1>1. lastSaid' = [lastSaid EXCEPT ![p] = said]
    BY DEF Says
  <1>2. KeptIn(said)
    BY DEF KeptIn
  <1> HIDE DEF said
  <1> QED
    BY <1>1, <1>2 DEF SchemaInv, PlanInv

\* A unique index a plan breaks is one it cautioned of.
LEMMA BrokenIsCautioned ==
  ASSUME PlanInv, NEW sql, NEW changes, changes \subseteq Steps(sql), BreaksIndex(changes), NEW sequel, Range(sequel) = changes
  PROVE  \E s \in Range(sequel) : cautioned(s) /\ s.table \in doubles
  <1>1. PICK s \in changes : s.do \in {"create index", "replace index"} /\ s.index.unique /\ s.table \in doubles
    BY DEF BreaksIndex
  <1>2. "index" \in DOMAIN s
    <2>1. s \in Steps(sql)
      OBVIOUS
    <2>2. \/ \E t \in sql.tables : s = [do |-> "create table", table |-> t.name]
          \/ s \in UNION {AddedTo(t) : t \in sql.tables}
          \/ \E i \in sql.indexes : s = [do |-> "create index", table |-> i.table, index |-> i]
          \/ \E i \in sql.indexes : s = [do |-> "replace index", table |-> i.table, index |-> i]
      BY <2>1 DEF Steps
    <2>3. ASSUME NEW t, s = [do |-> "create table", table |-> t.name] PROVE FALSE
      BY <1>1, <2>3
    <2>4. ASSUME NEW t \in sql.tables, s \in AddedTo(t) PROVE FALSE
      <3>1. PICK i \in columnsIn(t) : s = [do |-> "add column", table |-> t.name, column |-> parseColumn(i)]
        BY <2>4 DEF AddedTo
      <3>2. s.do = "add column"
        BY <3>1
      <3> QED
        BY <1>1, <3>2
    <2>5. ASSUME NEW i, NEW do, s = [do |-> do, table |-> i.table, index |-> i] PROVE "index" \in DOMAIN s
      BY <2>5
    <2> QED
      BY <2>2, <2>3, <2>4, <2>5
  <1>3. held[s.table] > 0
    BY <1>1 DEF PlanInv
  <1> QED
    BY <1>1, <1>2, <1>3 DEF cautioned

\* Every step keeps it.
LEMMA PlanStep == SchemaInv /\ PlanInv /\ [SchemaNext]_scvars => PlanInv'
  <1> SUFFICES ASSUME SchemaInv, PlanInv, [SchemaNext]_scvars PROVE PlanInv'
    OBVIOUS
  <1>s. /\ inDatabase \in Stores /\ shipped \in Shipments /\ checkout \in DOMAIN shipped
        /\ push = [p \in People |-> push[p]] /\ lastSaid = [p \in People |-> lastSaid[p]]
        /\ \A p \in People : CommandHolds(push[p])
    BY DEF SchemaInv
  <1>v. \A v \in DOMAIN shipped : shipped[v] \in Schemas /\ shipped[v] \in Shipped
    <2>1. \A v \in DOMAIN shipped : shipped[v] \in Schemas
      BY <1>s, ShippedAre
    <2>2. \A v \in DOMAIN shipped : shipped[v] \in Range(shipped)
      BY DEF Range
    <2> QED
      BY <1>s, <2>1, <2>2 DEF Shipped
  <1>p. /\ OneOfEach(inDatabase.tables) /\ held \in [TableNames -> Nat]
        /\ \A t \in doubles : t \in TableNames /\ held[t] > 0
        /\ \A p \in People : AloneHolds(push[p], inDatabase, held)
        /\ \A p \in People : KeptIn(lastSaid[p])
    BY DEF PlanInv
  <1>f. ASSUME NEW p \in People, NEW c, push' = [push EXCEPT ![p] = c], AloneHolds(c, inDatabase, held)
        PROVE  \A q \in People : AloneHolds(push'[q], inDatabase, held)
    BY <1>s, <1>p, <1>f
  <1>i. AloneHolds(NoCommand, inDatabase, held)
    BY NothingKnown
  <1>t. ASSUME NEW p \in People, lastSaid' = [lastSaid EXCEPT ![p] = Silent] PROVE \A q \in People : KeptIn(lastSaid'[q])
    <2>1. KeptIn(Silent)
      BY DEF KeptIn, Silent
    <2> QED
      BY <1>s, <1>p, <1>t, <2>1
  <1>0. CASE UNCHANGED scvars
    BY <1>0, <1>p, PlanRests DEF scvars
  <1>1. CASE GitPull
    <2>1. UNCHANGED <<inDatabase, held, doubles, push, lastSaid, shipped>>
      BY <1>1 DEF GitPull
    <2> QED
      BY <1>p, <2>1, PlanRests
  <1>2. ASSUME NEW t \in TableNames, RebuildByHand(t) PROVE PlanInv'
    <2> DEFINE want == shipped[checkout]
               left == inDatabase.tables \ sameName(inDatabase.tables, t)
               new == sameName(want.tables, t)
               more == left \union new
    <2>1. /\ inDatabase' = [inDatabase EXCEPT !.tables = more] /\ push' = disturbed({})
          /\ UNCHANGED <<held, doubles, lastSaid, shipped>>
      BY <1>2 DEF RebuildByHand
    <2>2. \A x \in left : x.name # t
      BY DEF sameName
    <2>3. ASSUME NEW x \in new, NEW y \in new PROVE x = y /\ x.name = t
      <3>1. x \in want.tables /\ y \in want.tables /\ x.name = t /\ y.name = t
        BY DEF sameName
      <3>2. sameName(want.tables, x.name) = {x}
        BY <1>s, <1>v, <3>1, OneOfAName
      <3> QED
        BY <3>1, <3>2 DEF sameName
    <2>4. left \subseteq inDatabase.tables
      OBVIOUS
    <2>5. OneOfEach(more)
      <3> HIDE DEF left, new
      <3> QED
        BY <1>p, <2>2, <2>3, <2>4 DEF OneOfEach
    <2>6. inDatabase'.tables = more
      <3>1. inDatabase = [tables |-> inDatabase.tables, indexes |-> inDatabase.indexes]
        BY <1>s DEF Stores
      <3> HIDE DEF more
      <3> QED
        BY <2>1, <3>1
    <2>7. \A q \in People : AloneHolds(push'[q], inDatabase', held')
      <3>1. \A q \in People : AloneHolds(disturbed({})[q], inDatabase', held')
        BY NothingKnown
      <3> QED
        BY <2>1, <3>1
    <2> HIDE DEF more
    <2> QED
      BY <1>p, <2>1, <2>5, <2>6, <2>7, PlanRests
  <1>3. ASSUME NEW t \in TableNames, NEW again \in BOOLEAN, AppWrites(t, again) PROVE PlanInv'
    <2>1. /\ held' = [held EXCEPT ![t] = @ + 1] /\ push' = disturbed({})
          /\ doubles' \subseteq doubles \union {t}
          /\ UNCHANGED <<inDatabase, lastSaid, shipped>>
      BY <1>3 DEF AppWrites
    <2>2. held' \in [TableNames -> Nat] /\ held'[t] > 0 /\ \A u \in TableNames : u # t => held'[u] = held[u]
      BY <1>p, <2>1
    <2>3. \A u \in doubles' : u \in TableNames /\ held'[u] > 0
      BY <1>p, <2>1, <2>2
    <2>4. \A q \in People : AloneHolds(push'[q], inDatabase', held')
      <3>1. \A q \in People : AloneHolds(disturbed({})[q], inDatabase', held')
        BY NothingKnown
      <3> QED
        BY <2>1, <3>1
    <2> QED
      BY <1>p, <2>1, <2>2, <2>3, <2>4, PlanRests
  <1>4. ASSUME NEW p \in People, PushReads(p) PROVE PlanInv'
    <2>0. UNCHANGED <<inDatabase, held, doubles, shipped>>
      BY <1>4 DEF PushReads
    <2>1. CASE inDatabase.tables = {}
      <3>1. UNCHANGED push /\ Says(p, "empty", inDatabase)
        BY <1>4, <2>1 DEF PushReads
      <3>2. \A q \in People : KeptIn(lastSaid'[q])
        BY <3>1, SaysWell
      <3> QED
        BY <1>p, <2>0, <3>1, <3>2, PlanRests
    <2>2. CASE inDatabase.tables # {}
      <3> DEFINE c == [NoCommand EXCEPT !.at = "counting", !.want = checkout, !.seen = inDatabase]
      <3>1. push' = [push EXCEPT ![p] = c] /\ lastSaid' = [lastSaid EXCEPT ![p] = Silent]
        BY <1>4, <2>2 DEF PushReads
      <3>2. c = Going("counting", checkout, inDatabase, <<>>, <<>>, NoCommand.alone)
        <4>1. c = ToCount(NoCommand, "counting", checkout, inDatabase)
          BY DEF ToCount
        <4> HIDE DEF c
        <4> QED
          BY <4>1, IdleGoing, Starts
      <3> HIDE DEF c
      <3>3. AloneHolds(c, inDatabase, held)
        <4>1. NoCommand.alone \in BOOLEAN
          BY DEF NoCommand
        <4> QED
          BY <3>2, <4>1 DEF AloneHolds, Going
      <3> QED
        BY <1>f, <1>p, <1>t, <2>0, <3>1, <3>3, PlanRests
    <2> QED
      BY <2>1, <2>2
  <1>5. ASSUME NEW p \in People, PushPlans(p) PROVE PlanInv'
    <2> DEFINE w == push[p].want
               s == push[p].seen
               o == push[p].alone
               want == shipped[w]
               delta == diffSchema(parseSchemaSql(want), parseSchemaSql(s), held)
               sequel == statementsOf(delta)
    <2>0. UNCHANGED <<inDatabase, held, doubles, shipped>> /\ push[p].at = "counting"
      BY <1>5 DEF PushPlans
    <2>1. \/ (Says(p, "up to date", s) \/ Says(p, "refused", s)) /\ push' = [push EXCEPT ![p] = NoCommand]
          \/ /\ delta.refusals = {}
             /\ push' = [push EXCEPT ![p].at = "applying", ![p].counts = held, ![p].plan = sequel]
             /\ UNCHANGED lastSaid
      <3> HIDE DEF delta, sequel
      <3>1. CASE upToDate(delta)
        BY <1>5, <3>1 DEF PushPlans, delta
      <3>2. CASE ~upToDate(delta) /\ delta.refusals # {}
        BY <1>5, <3>2 DEF PushPlans, delta
      <3>3. CASE ~upToDate(delta) /\ delta.refusals = {}
        BY <1>5, <3>3 DEF PushPlans, delta, sequel
      <3> QED
        BY <3>1, <3>2, <3>3
    <2>2. CASE (Says(p, "up to date", s) \/ Says(p, "refused", s)) /\ push' = [push EXCEPT ![p] = NoCommand]
      <3>1. \A q \in People : KeptIn(lastSaid'[q])
        <4> HIDE DEF s
        <4> QED
          BY <2>2, SaysWell
      <3> QED
        BY <1>f, <1>i, <1>p, <2>0, <2>2, <3>1, PlanRests
    <2>3. CASE /\ delta.refusals = {}
               /\ push' = [push EXCEPT ![p].at = "applying", ![p].counts = held, ![p].plan = sequel]
               /\ UNCHANGED lastSaid
      <3> DEFINE c == Going("applying", w, s, held, sequel, o)
      <3>1. o \in BOOLEAN /\ (o => s = inDatabase)
        BY <1>p, <2>0 DEF AloneHolds
      <3>2. ToApply(push[p], "applying", held, sequel) = c
        <4> DEFINE a == push[p].at
                   n == push[p].counts
                   l == push[p].plan
        <4>1. push[p] = Going(a, w, s, n, l, o)
          BY <1>s DEF CommandHolds, Going
        <4> HIDE DEF sequel, w, s, o, a, n, l
        <4> QED
          BY <4>1, Starts
      <3>3. push' = [push EXCEPT ![p] = [push[p] EXCEPT !.at = "applying", !.counts = held, !.plan = sequel]]
        BY <1>s, <2>3
      <3>4. AloneHolds(c, inDatabase, held)
        <4>1. /\ c.at = "applying" /\ c.seen = s /\ c.counts = held /\ c.plan = sequel /\ c.alone = o /\ c.want = w
          BY DEF Going
        <4>2. o => /\ delta = diffSchema(parseSchemaSql(shipped[w]), parseSchemaSql(inDatabase), held)
                   /\ delta.refusals = {} /\ sequel = statementsOf(delta)
          BY <2>3, <3>1
        <4> HIDE DEF c, w, s, o, delta, sequel
        <4> QED
          BY <3>1, <4>1, <4>2 DEF AloneHolds
      <3> HIDE DEF c, sequel
      <3>5. push' = [push EXCEPT ![p] = c]
        BY <3>2, <3>3 DEF ToApply
      <3> QED
        BY <1>f, <1>p, <2>0, <2>3, <3>4, <3>5, PlanRests
    <2> HIDE DEF delta, sequel, s
    <2> QED
      BY <2>1, <2>2, <2>3
  <1>6. ASSUME NEW p \in People, PushApplies(p) PROVE PlanInv'
    <2> DEFINE w == push[p].want
               want == shipped[w]
               l == push[p].plan
               n == push[p].counts
               after == batch(inDatabase, want, l)
               others == disturbed({p})
    <2>0. /\ push[p].at = "applying" /\ UNCHANGED <<held, doubles, shipped>>
          /\ w \in DOMAIN shipped /\ want \in Schemas /\ want \in Shipped /\ l \in Seq(Steps(want))
      <3>1. push[p].at = "applying" /\ UNCHANGED <<held, doubles, shipped>>
        BY <1>6 DEF PushApplies
      <3>2. w \in DOMAIN shipped /\ l \in Seq(Steps(want))
        BY <1>s, <3>1 DEF CommandHolds
      <3> QED
        BY <1>v, <3>1, <3>2
    <2>1. IF isFailed(after)
          THEN Says(p, "failed", inDatabase) /\ push' = [push EXCEPT ![p] = NoCommand] /\ UNCHANGED inDatabase
          ELSE inDatabase' = after /\ push' = [others EXCEPT ![p].at = "verifying"] /\ UNCHANGED lastSaid
      BY <1>6 DEF PushApplies
    <2> DEFINE delta == diffSchema(parseSchemaSql(want), parseSchemaSql(inDatabase), held)
    <2>2. push[p].alone \in BOOLEAN /\ (push[p].alone => n = held /\ delta.refusals = {} /\ l = statementsOf(delta))
      <3> HIDE DEF w, n, l
      <3> QED
        BY <1>p, <2>0 DEF AloneHolds, w, n, l
    <2>3. push[p].alone => \/ after = Failed /\ BreaksIndex(delta.changes)
                           \/ after \in Stores /\ upToDate(diffSchema(parseSchemaSql(want), parseSchemaSql(after), n))
      <3> SUFFICES ASSUME push[p].alone
                   PROVE  \/ after = Failed /\ BreaksIndex(delta.changes)
                          \/ after \in Stores /\ upToDate(diffSchema(parseSchemaSql(want), parseSchemaSql(after), n))
        OBVIOUS
      <3> DEFINE left == batch(inDatabase, want, statementsOf(delta))
      <3>1. \/ left = Failed /\ BreaksIndex(delta.changes)
            \/ left \in Stores /\ upToDate(diffSchema(parseSchemaSql(want), parseSchemaSql(left), n))
        <4> HIDE DEF w, n, l, want
        <4>1. delta.refusals = {}
          BY <2>2
        <4> QED
          BY <1>s, <1>p, <2>0, <4>1, PlansAreKept
      <3>2. left = after
        BY <2>2
      <3> HIDE DEF left, after, delta
      <3> QED
        BY <3>1, <3>2
    <2>4. CASE isFailed(after)
      <3>1. push[p].alone => \E s \in Range(l) : cautioned(s) /\ s.table \in doubles
        <4> SUFFICES ASSUME push[p].alone PROVE \E s \in Range(l) : cautioned(s) /\ s.table \in doubles
          OBVIOUS
        <4>1. BreaksIndex(delta.changes)
          <5>1. \A d \in Stores : ~isFailed(d)
            BY DEF isFailed, Stores
          <5> HIDE DEF after, delta
          <5> QED
            BY <2>3, <2>4, <5>1
        <4>2. delta.changes \subseteq Steps(want)
          BY <2>0, DeltasAreSteps
        <4> HIDE DEF delta
        <4>3. Lists(l, delta.changes)
          BY <2>0, <2>2, <4>2, PlansListChanges
        <4> QED
          BY <4>1, <4>2, <4>3, BrokenIsCautioned DEF Lists
      <3>2. \A q \in People : KeptIn(lastSaid'[q])
        <4>1. Says(p, "failed", inDatabase)
          BY <2>1, <2>4
        <4> QED
          BY <3>1, <4>1, SaysWell
      <3> HIDE DEF after
      <3> QED
        BY <1>f, <1>i, <1>p, <2>0, <2>1, <2>4, <3>2, PlanRests
    <2>5. CASE ~isFailed(after)
      <3>1. inDatabase' = after /\ push' = [others EXCEPT ![p].at = "verifying"] /\ UNCHANGED lastSaid
        BY <2>1, <2>5
      <3>2. OneOfEach(after.tables)
        BY <1>s, <1>p, <2>0, BatchesKeepOne
      <3>3. others = [q \in People |-> others[q]] /\ others[p] = push[p]
        BY Disturbs
      <3> DEFINE c == push[p]
                 d == [c EXCEPT !.at = "verifying"]
      <3>4. push' = [others EXCEPT ![p] = d]
        <4> HIDE DEF others
        <4> QED
          BY <3>1, <3>3
      <3>5. AloneHolds(d, after, held)
        <4>1. d = Going("verifying", w, c.seen, n, l, c.alone)
          <5> HIDE DEF c, d
          <5>1. CommandHolds(c)
            BY <1>s DEF c
          <5>2. [c EXCEPT !.at = "verifying"] = Going("verifying", c.want, c.seen, c.counts, c.plan, c.alone)
            BY <5>1, GoesOn
          <5> QED
            BY <5>2 DEF c, d
        <4>2. c.alone => upToDate(diffSchema(parseSchemaSql(want), parseSchemaSql(after), n))
          <5>1. isFailed(Failed)
            BY DEF isFailed, Failed
          <5> HIDE DEF after, delta
          <5> QED
            BY <2>3, <2>5, <5>1
        <4>3. d.at = "verifying" /\ d.alone = c.alone /\ d.counts = n /\ d.want = w
          <5> HIDE DEF d, w, n, l, c
          <5> QED
            BY <4>1 DEF Going
        <4>4. c.alone \in BOOLEAN
          BY <2>2
        <4> HIDE DEF d, w, n, l, c, after
        <4> QED
          BY <4>2, <4>3, <4>4 DEF AloneHolds
      <3>6. ASSUME NEW q \in People PROVE AloneHolds(push'[q], inDatabase', held')
        <4>1. CASE q = p
          <5>1. push'[q] = d
            <6> HIDE DEF others, d
            <6> QED
              BY <3>3, <3>4, <4>1
          <5> HIDE DEF d, after
          <5> QED
            BY <2>0, <3>1, <3>5, <5>1
        <4>2. CASE q # p
          <5>1. push'[q] = others[q]
            <6> HIDE DEF others, d
            <6> QED
              BY <3>3, <3>4, <4>2
          <5>2. AloneHolds(others[q], inDatabase', held')
            <6>1. q \notin {p}
              BY <4>2
            <6> QED
              BY <6>1, NothingKnown
          <5> QED
            BY <5>1, <5>2
        <4> QED
          BY <4>1, <4>2
      <3> HIDE DEF after, others, d
      <3> QED
        BY <1>p, <2>0, <3>1, <3>2, <3>6, PlanRests
    <2> QED
      BY <2>4, <2>5
  <1>7. ASSUME NEW p \in People, PushVerifies(p) PROVE PlanInv'
    <2> DEFINE w == push[p].want
               n == push[p].counts
               fine == upToDate(diffSchema(parseSchemaSql(shipped[w]), parseSchemaSql(inDatabase), n))
    <2>1. /\ Says(p, IF fine THEN "verified" ELSE "survives", inDatabase)
          /\ push' = [push EXCEPT ![p] = NoCommand] /\ UNCHANGED <<inDatabase, held, doubles, shipped>>
          /\ push[p].at = "verifying"
      BY <1>7 DEF PushVerifies
    <2>2. push[p].alone => fine
      BY <1>p, <2>1 DEF AloneHolds
    <2> HIDE DEF fine
    <2>3. \A q \in People : KeptIn(lastSaid'[q])
      <3>1. CASE fine
        <4>1. Says(p, "verified", inDatabase)
          BY <2>1, <3>1
        <4> QED
          BY <4>1, SaysWell
      <3>2. CASE ~fine
        <4>1. Says(p, "survives", inDatabase) /\ ~push[p].alone
          BY <2>1, <2>2, <3>2
        <4> QED
          BY <4>1, SaysWell
      <3> QED
        BY <3>1, <3>2
    <2> QED
      BY <1>f, <1>i, <1>p, <2>1, <2>3, PlanRests
  <1>8. ASSUME NEW p \in People, BaselineStarts(p) PROVE PlanInv'
    <2> DEFINE sequel == baseline(shipped[checkout])
               c == [NoCommand EXCEPT !.at = "baseline", !.want = checkout, !.plan = sequel]
    <2>1. /\ push' = [push EXCEPT ![p] = c] /\ lastSaid' = [lastSaid EXCEPT ![p] = Silent]
          /\ UNCHANGED <<inDatabase, held, doubles, shipped>>
      BY <1>8 DEF BaselineStarts
    <2> HIDE DEF sequel
    <2>2. c = Going("baseline", checkout, NoSchema, <<>>, sequel, NoCommand.alone)
      <3>1. c = ToBase(NoCommand, "baseline", checkout, sequel)
        BY DEF ToBase
      <3> HIDE DEF c
      <3> QED
        BY <3>1, IdleGoing, Starts
    <2> HIDE DEF c
    <2>3. AloneHolds(c, inDatabase, held)
      <3>1. NoCommand.alone \in BOOLEAN
        BY DEF NoCommand
      <3> QED
        BY <2>2, <3>1 DEF AloneHolds, Going
    <2> QED
      BY <1>f, <1>p, <1>t, <2>1, <2>3, PlanRests
  <1>9. ASSUME NEW p \in People, BaselineStep(p) PROVE PlanInv'
    <2> DEFINE l == push[p].plan
               w == push[p].want
               made == execute(inDatabase, shipped[w], Head(l))
               others == disturbed({p})
    <2>1. /\ push[p].at = "baseline" /\ l # <<>>
          /\ \/ push' = [push EXCEPT ![p] = NoCommand] /\ UNCHANGED inDatabase
             \/ /\ inDatabase' \in {made, Failed}
                /\ push' = [others EXCEPT ![p].plan = Tail(@)]
          /\ UNCHANGED <<held, doubles, shipped, lastSaid>>
      BY <1>9 DEF BaselineStep
    <2>2. CASE push' = [push EXCEPT ![p] = NoCommand] /\ UNCHANGED inDatabase
      BY <1>f, <1>i, <1>p, <2>1, <2>2, PlanRests
    <2>3. CASE inDatabase' \in {made, Failed} /\ push' = [others EXCEPT ![p].plan = Tail(@)]
      <3>o. shipped[w] \in Schemas /\ Head(l) \in Steps(shipped[w])
        <4>1. w \in DOMAIN shipped /\ l \in Seq(Steps(shipped[w]))
          BY <1>s, <2>1 DEF CommandHolds
        <4> HIDE DEF l
        <4> QED
          BY <1>v, <2>1, <4>1, HeadTailProperties
      <3>1. OneOfEach(inDatabase'.tables)
        <4>1. OneOfEach(made.tables)
          BY <1>s, <1>p, <3>o, StatementsKeepOne
        <4>2. OneOfEach(Failed.tables)
          BY DEF Failed, OneOfEach
        <4> HIDE DEF made
        <4> QED
          BY <2>3, <4>1, <4>2
      <3>2. others = [q \in People |-> others[q]] /\ others[p] = push[p]
        BY Disturbs
      <3> DEFINE c == push[p]
                 k == Tail(l)
                 d == [c EXCEPT !.plan = k]
      <3>3. push' = [others EXCEPT ![p] = d]
        <4>1. push' = [others EXCEPT ![p] = [others[p] EXCEPT !.plan = Tail(others[p].plan)]]
          BY <2>3
        <4> HIDE DEF others
        <4> QED
          BY <3>2, <4>1
      <3>4. AloneHolds(d, inDatabase', held')
        <4>1. CommandHolds(c) /\ c.at = "baseline" /\ c.alone \in BOOLEAN
          BY <1>s, <1>p, <2>1 DEF AloneHolds
        <4> HIDE DEF c, k
        <4>2. d = Going(c.at, c.want, c.seen, c.counts, k, c.alone)
          BY <4>1, GoesOn
        <4> HIDE DEF d
        <4> QED
          BY <4>1, <4>2 DEF AloneHolds, Going
      <3>5. ASSUME NEW q \in People PROVE AloneHolds(push'[q], inDatabase', held')
        <4>1. CASE q = p
          <5>1. push'[q] = d
            <6> HIDE DEF others, d
            <6> QED
              BY <3>2, <3>3, <4>1
          <5> HIDE DEF d
          <5> QED
            BY <3>4, <5>1
        <4>2. CASE q # p
          <5>1. push'[q] = others[q]
            <6> HIDE DEF others, d
            <6> QED
              BY <3>2, <3>3, <4>2
          <5>2. AloneHolds(others[q], inDatabase', held')
            <6>1. q \notin {p}
              BY <4>2
            <6> QED
              BY <6>1, NothingKnown
          <5> QED
            BY <5>1, <5>2
        <4> QED
          BY <4>1, <4>2
      <3> HIDE DEF others, d, made
      <3> QED
        BY <1>p, <2>1, <3>1, <3>5, PlanRests
    <2> QED
      BY <2>1, <2>2, <2>3
  <1>10. ASSUME NEW p \in People, BaselineDone(p) PROVE PlanInv'
    <2>1. push' = [push EXCEPT ![p] = NoCommand] /\ UNCHANGED <<inDatabase, held, doubles, shipped, lastSaid>>
      BY <1>10 DEF BaselineDone
    <2> QED
      BY <1>f, <1>i, <1>p, <2>1, PlanRests
  <1>11. ASSUME NEW p \in People, CommandStopped(p) PROVE PlanInv'
    <2>1. push' = [push EXCEPT ![p] = NoCommand] /\ UNCHANGED <<inDatabase, held, doubles, shipped, lastSaid>>
      BY <1>11 DEF CommandStopped
    <2> QED
      BY <1>f, <1>i, <1>p, <2>1, PlanRests
  <1> QED
    BY <1>0, <1>1, <1>2, <1>3, <1>4, <1>5, <1>6, <1>7, <1>8, <1>9, <1>10, <1>11 DEF SchemaNext

\* A plan shown without a refusal is one SQLite carries out if nobody writes in
\* between, but for rows that break a unique index it cautioned of, and what it
\* leaves is what was asked for (scripts/push-schema.ts, schema-delta.ts).
THEOREM PushKeepsItsPlan == SchemaSpec => []PlanIsKept
  <1>1. PlanInv => PlanIsKept
    BY DEF PlanInv, PlanIsKept, KeptIn
  <1> QED
    BY <1>1, InitSchema, InitPlan, SchemaStep, PlanStep, PTL DEF SchemaSpec

=============================================================================
