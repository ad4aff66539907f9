--------------------------- MODULE Classification ---------------------------
(***************************************************************************)
(* The pure decisions about a stored transaction: what the rules make of   *)
(* it, when an investment account (a closed box) makes it a transfer, what *)
(* clearing and releasing it write, and which rows pair as two sides of    *)
(* one transfer.  A row's feed data (account, amount, day, payee, wording) *)
(* never changes and is given by constants; what the app decides about it  *)
(* is the record Txn.  A definition named X_Fault is the form of X that a  *)
(* plausible bug would give it, for checking that a property notices; no   *)
(* definition uses it.                                                     *)
(***************************************************************************)
EXTENDS Integers, FiniteSets

CONSTANTS
    Rows, Accounts, Payees, Categories,
    account,        \* [Rows -> Accounts]
    amount,         \* [Rows -> Int], signed cents, never 0
    day,            \* [Rows -> Nat]
    rank,           \* [Rows -> Nat], the order the database returns rows in
    payee,          \* [Rows -> Payees], what a rule's value matches
    P2P,            \* rows whose wording names a payment rail (isP2P)
    Internal,       \* rows worded as activity inside an investment account
    feedFlow,       \* [Rows -> Flows], the connector's flow
    hint,           \* [Rows -> Categories or NoCat], the source's own category
    packRule,       \* [Payees -> Rule or NoRule], the shipped pack
    NoCat, NoRow, NoRule, Keep

Flows == {"INFLOW", "OUTFLOW", "TRANSFER"}
Sources == {"AGGREGATOR", "RULE", "MANUAL"}

\* A rule assigns a category, or marks a transfer, or both.
Rule == [cat : Categories \union {NoCat}, flow : {"TRANSFER", Keep}]

Txn == [cat : Categories \union {NoCat}, src : Sources, flow : Flows,
        pair : Rows \union {NoRow}, reimb : Rows \union {NoRow}]

ASSUME FeedAssumption ==
    /\ account \in [Rows -> Accounts]
    /\ amount \in [Rows -> Int \ {0}]
    /\ day \in [Rows -> Nat]
    /\ rank \in [Rows -> Nat]
    /\ \A r, q \in Rows : rank[r] = rank[q] => r = q
    /\ payee \in [Rows -> Payees]
    /\ P2P \subseteq Rows /\ Internal \subseteq Rows
    /\ feedFlow \in [Rows -> Flows]
    /\ hint \in [Rows -> Categories \union {NoCat}]
    /\ packRule \in [Payees -> Rule \union {NoRule}]

ASSUME AbsentAssumption ==
    NoCat \notin Categories /\ NoRow \notin Rows /\ NoRule \notin Rule
    /\ Keep \notin Flows

\* A row as createMany inserts it.
Imported(r) ==
    [cat |-> NoCat, src |-> "AGGREGATOR", flow |-> feedFlow[r],
     pair |-> NoRow, reimb |-> NoRow]

flowByAmount(r) == IF amount[r] >= 0 THEN "INFLOW" ELSE "OUTFLOW"

isClosedBox(investment, r) == account[r] \in investment

-----------------------------------------------------------------------------
(* Rules.  A user rule outranks the pack; a P2P payment takes nothing but a *)
(* user's transfer rule; the closed box is asked before any rule.           *)

Enclosed == [cat |-> NoCat, flow |-> "TRANSFER"]

\* The first matching rule that may apply to a row, or NoRule.
ruleFor_P2PUnheld(userRules, r) ==
    LET user == userRules[payee[r]] IN
    IF user # NoRule THEN user ELSE packRule[payee[r]]
ruleFor(userRules, r) ==
    LET user == userRules[payee[r]] IN
    IF r \in P2P
    THEN IF user # NoRule /\ user.flow = "TRANSFER" THEN user ELSE NoRule
    ELSE IF user # NoRule THEN user ELSE packRule[payee[r]]

\* A person decided the row.
Sacred_Never(t) == FALSE
Sacred(t) == t.src = "MANUAL"

\* applyRules over the rows ids whose state is txn: the outcome of each row
\* that gets one.
Ruled(userRules, investment, txn, ids) ==
    {r \in ids : /\ ~Sacred(txn[r])
                 /\ isClosedBox(investment, r) \/ ruleFor(userRules, r) # NoRule}

Outcome(userRules, investment, r) ==
    IF isClosedBox(investment, r) THEN Enclosed ELSE ruleFor(userRules, r)

\* Rows headed for one category and flow are written together.
Batches(userRules, investment, ids) ==
    LET out(r) == Outcome(userRules, investment, r) IN
    { [cat |-> o.cat, flow |-> o.flow, ids |-> {r \in ids : out(r) = o}]
        : o \in {out(r) : r \in ids} }

\* What one rule write makes of a row.
ByRule_NoFlowWritten(t, b) ==
    [t EXCEPT !.cat = b.cat, !.src = "RULE", !.flow = b.flow]
ByRule(t, b) ==
    [t EXCEPT !.cat = b.cat, !.src = "RULE",
              !.flow = IF b.flow = Keep THEN @ ELSE b.flow]

\* sourceCategoryToApply: the source's category, on a row no rule spoke for.
HintApplies(investment, txn, r) ==
    /\ hint[r] # NoCat
    /\ txn[r].flow # "TRANSFER"
    /\ ~isClosedBox(investment, r)
    /\ r \notin P2P

isUnreviewedP2P(t, r) ==
    r \in P2P /\ t.cat = NoCat /\ t.reimb = NoRow /\ t.flow # "TRANSFER"

-----------------------------------------------------------------------------
(* A person's decisions about one row. *)

whenCleared(t, box) ==
    IF box THEN [t EXCEPT !.cat = NoCat, !.src = "RULE", !.flow = "TRANSFER"]
           ELSE [t EXCEPT !.cat = NoCat, !.src = "AGGREGATOR"]

\* releaseTransfer: only a transfer flagged by words may be released.
Releasable(t, box) == t.flow = "TRANSFER" /\ ~box /\ t.pair = NoRow

Released(t, r) ==
    [t EXCEPT !.flow = flowByAmount(r), !.cat = NoCat, !.src = "MANUAL"]

-----------------------------------------------------------------------------
(* Transfer pairs (transfers.ts). *)

WindowDays == 4

distance(r, q) == IF day[r] >= day[q] THEN day[r] - day[q] ELSE day[q] - day[r]

\* Two sides of one transfer, r out and q in.
Opposite(r, q) ==
    /\ amount[r] < 0 /\ amount[q] = -amount[r]
    /\ account[r] # account[q]
    /\ distance(r, q) <= WindowDays

\* The order the stable sort by date leaves rows in.
Before(r, q) == day[r] < day[q] \/ (day[r] = day[q] /\ rank[r] < rank[q])

\* q is the better partner of out than p: nearer, or as near and sorted first.
Nearer(out, q, p) ==
    \/ distance(out, q) < distance(out, p)
    \/ distance(out, q) = distance(out, p) /\ Before(q, p)

Matches_DayOver(o, i) ==
    /\ amount[i] = -amount[o] /\ account[o] # account[i]
    /\ distance(o, i) <= WindowDays + 1
Matches(o, i) == Opposite(o, i)

\* An earlier out has taken i.
Taken_Never(m, o, i, outs) == FALSE
Taken(m, o, i, outs) == \E x \in outs : Before(x, o) /\ m[x] = i

\* m gives every out its nearest in that no earlier out has taken.
Greedy(m, outs, ins) ==
    \A o \in outs :
        LET free == {i \in ins : Matches(o, i) /\ ~Taken(m, o, i, outs)}
        IN \/ free = {} /\ m[o] = NoRow
           \/ m[o] \in free /\ \A i \in free \ {m[o]} : Nearer(o, m[o], i)

\* The results detectTransferPairs can return for a set of candidates.
detectTransferPairs(candidates) ==
    LET outs == {r \in candidates : amount[r] < 0}
        ins == {r \in candidates : amount[r] > 0}
    IN { {[out |-> o, in |-> m[o]] : o \in {x \in outs : m[x] # NoRow}}
           : m \in {f \in [outs -> ins \union {NoRow}] : Greedy(f, outs, ins)} }
=============================================================================
