------------------------------ MODULE Renewals ------------------------------
(***************************************************************************)
(* The subscriptions the operator registered (health/subscriptions.ts):    *)
(* which charges are a subscription's, when it renews next, and whether    *)
(* its price moved.  A month has its own number of days, and a biller that *)
(* charges on a day a month lacks charges on the last it has.              *)
(***************************************************************************)
EXTENDS Integers, Sequences, FiniteSets, FiniteSetsExt

CONSTANTS
    MonthDays,      \* the lengths of the months, from the first
    Cycles,         \* cadences, in months
    AnchorDays,
    Price,
    NewPrices,      \* what it may change to
    OtherPrices,    \* purchases whose text matches too
    MaxOthers,
    NoCharge

VARIABLES
    sub,        \* the biller's own: [cycle, anchor], from the first month
    onDate,     \* <<month, day>>: today
    price,      \* what the biller asks
    charges,    \* {[date, amount, by]}: outflows that match, by date
    tracked     \* the row registered: [from, expected]

rnvars == <<sub, onDate, price, charges, tracked>>

before(a, b) == a[1] < b[1] \/ (a[1] = b[1] /\ a[2] < b[2])
clamped(month, day) == <<month, Min({day, MonthDays[month]})>>

\* Billed in month n of its cycle, on its own day or the month's last.
billedOn(d) == (d[1] - 1) % sub.cycle = 0 /\ d = clamped(d[1], sub.anchor)

RenewalsInit ==
    /\ sub \in [cycle : Cycles, anchor : AnchorDays]
    /\ onDate = <<1, 1>> /\ price = Price /\ charges = {}
    /\ tracked = [from |-> <<1, sub.anchor>>, expected |-> Price]

-----------------------------------------------------------------------------
\* Counted from the origin, so a clamp never accumulates.
addMonths(date, months) == clamped(date[1] + months, date[2])
steps(origin) == [n \in 0..(Len(MonthDays) - origin[1]) \div sub.cycle |-> addMonths(origin, n * sub.cycle)]
stepsFrom_Stepped(origin) ==
    [n \in 0..(Len(MonthDays) - origin[1]) \div sub.cycle |->
        clamped(origin[1] + n * sub.cycle, Min({origin[2]} \union {MonthDays[m] : m \in origin[1]..origin[1] + n * sub.cycle}))]
stepsFrom(origin) == steps(origin)

\* The first of them after today; NoCharge past the months there are.
projectNextPayment(lastDate) ==
    LET origin == IF lastDate = NoCharge THEN tracked.from ELSE lastDate
        all == stepsFrom(origin)
        later == {n \in DOMAIN all : before(onDate, all[n])}
    IN IF later = {} THEN NoCharge ELSE all[Min(later)]

\* Charges near the price, and any only where none is; the newest of them.
plausible(c) == 2 * (IF c.amount > tracked.expected THEN c.amount - tracked.expected ELSE tracked.expected - c.amount) <= Max({tracked.expected, 2})
newest(pool) == IF pool = {} THEN NoCharge ELSE CHOOSE c \in pool : \A d \in pool : ~before(c.date, d.date)
lastCharge ==
    LET near == {c \in charges : plausible(c)} IN newest(IF near # {} THEN near ELSE charges)
reconcileSubscription ==
    [next |-> projectNextPayment(IF lastCharge = NoCharge THEN NoCharge ELSE lastCharge.date),
     drift |-> IF lastCharge = NoCharge THEN FALSE ELSE lastCharge.amount # tracked.expected]

-----------------------------------------------------------------------------
\* A day ends; the biller charges on its day.
NextDate ==
    /\ LET next == IF onDate[2] < MonthDays[onDate[1]] THEN <<onDate[1], onDate[2] + 1>> ELSE <<onDate[1] + 1, 1>>
       IN /\ next[1] <= Len(MonthDays)
          /\ onDate' = next
          /\ charges' = IF billedOn(next)
                        THEN charges \union {[date |-> next, amount |-> price, by |-> "biller"]} ELSE charges
    /\ UNCHANGED <<sub, price, tracked>>
\* The merchant sells other things, whose rows match the pattern too.
BuysOther(amount) ==
    /\ Cardinality({c \in charges : c.by = "shop"}) < MaxOthers /\ \A c \in charges : c.date # onDate
    /\ charges' = charges \union {[date |-> onDate, amount |-> amount, by |-> "shop"]}
    /\ UNCHANGED <<sub, onDate, price, tracked>>
PriceChanges(to) ==
    /\ price = Price /\ price' = to
    /\ UNCHANGED <<sub, onDate, charges, tracked>>
\* The operator tracks one of its charges again: the same pattern, so the same row.
registerSubscription(c) ==
    /\ tracked' = [from |-> c.date, expected |-> c.amount]
    /\ UNCHANGED <<sub, onDate, price, charges>>

RenewalsNext ==
    \/ NextDate
    \/ \E c \in charges : c.by = "biller" /\ registerSubscription(c)
    \/ \E a \in OtherPrices : BuysOther(a)
    \/ \E p \in NewPrices : PriceChanges(p)

-----------------------------------------------------------------------------
billed == {c \in charges : c.by = "biller"}
dueNext == LET due == {d \in {clamped(m, sub.anchor) : m \in {k \in DOMAIN MonthDays : (k - 1) % sub.cycle = 0}} : before(onDate, d)}
           IN IF due = {} THEN NoCharge ELSE CHOOSE d \in due : \A e \in due : ~before(e, d)
wholePrices == \A c \in charges : plausible(c) <=> c.by = "biller"

\* The next payment shown is the one the biller takes, however short a month
\* between was and whatever else was bought there ("the provider's actual cycle
\* beats the registered anchor"), unless the newest charge itself fell in a month
\* too short for its day.
RenewalIsForetold ==
    (wholePrices /\ (lastCharge # NoCharge => lastCharge.date[2] = sub.anchor)) => reconcileSubscription.next = dueNext

\* A price that moved is flagged from its first charge on, by a cent or by
\* half, and a purchase beside it never reads as one.
DriftIsThePrice ==
    wholePrices /\ billed # {} => (reconcileSubscription.drift <=> newest(billed).amount # tracked.expected)

RenewalsKeepTheirWord == RenewalIsForetold /\ DriftIsThePrice
\* "A biller charges Feb 28 and then Mar 31 again."
BillingDayHolds == wholePrices /\ billed # {} => reconcileSubscription.next = dueNext
=============================================================================
