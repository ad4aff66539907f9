------------------------------- MODULE LedgerPage -------------------------------
(***************************************************************************)
(* The ledger's page (app/transactions/page.tsx).  Its whole state is its  *)
(* address: every filter, the two review modes and the page number ride in *)
(* the links it draws and in the fields of its form, and each render reads *)
(* the rows of that moment.  The counts, sums and links of one render come *)
(* from several queries over differently narrowed rows.                    *)
(*                                                                         *)
(* A row is Figures' with a trip, a word its text holds and whether it is  *)
(* paired; a month is its number.                                          *)
(***************************************************************************)
EXTENDS Figures

CONSTANTS
    FirstBooks,         \* what the ledger may hold at first
    LateRow,            \* what a sync brings in
    FirstAddresses,     \* the links other pages draw
    PageCategories,
    Asks,               \* what the form may be changed to, by field
    PAGE_SIZE,
    ClosedBoxes, NON_REIMBURSABLE_ACCOUNTS,
    MaxHops,
    All,                \* no filter
    Blank               \* what a comma with nothing beside it names

VARIABLES
    book,       \* the ledger, a sequence
    url,        \* the address shown
    hops        \* links followed and forms sent

pgvars == <<book, url, hops>>
rows == ToSet(book)

-----------------------------------------------------------------------------
(* What an address selects. *)

\* A span that ends before it starts, a list that names nothing: no filter.
parsePeriodParam(period) == IF period # All /\ period.from > period.to THEN All ELSE period
parseAccountParam(account) == IF account # All /\ account \subseteq {Blank} THEN All ELSE account
parsed(u) == [u EXCEPT !.period = parsePeriodParam(@), !.account = parseAccountParam(@)]
isSpan(u) == u.period # All /\ u.period.span

nullBucket(u) == u.category # All /\ u.category \intersect {NoCategory, Unreviewed} # {}
\* One of the two null buckets and not the other: finished in memory.
nullSplit(u) == u.category # All /\ ((NoCategory \in u.category) # (Unreviewed \in u.category))
figure(u) == u.flow \in {"SPENDING", "INCOME"}
pagedInJs(u) == u.review \/ nullSplit(u) \/ u.merchant # All \/ figure(u)

sqlFlow(u, t) ==
    CASE u.flow = All -> nullBucket(u) => t.flow # "TRANSFER"
      [] u.flow = "INCOME" -> t.flow = "INFLOW"
      [] u.flow = "SPENDING" -> t.flow # "TRANSFER"
      [] OTHER -> t.flow = u.flow

sqlCategory(u, t) ==
    u.category # All => t.category \in u.category \/ (nullBucket(u) /\ t.category = NoCategory)

\* The part of the query every list of the page shares; a merchant narrows to
\* a superset, the rows whose text holds the first word of its key.
sharedWhere(u, t) ==
    /\ u.period # All => t.month \in u.period.from..u.period.to
    /\ u.account # All => t.account \in u.account
    /\ u.q # All => t.text = u.q
    /\ u.trip # All => t.trip = u.trip
    /\ u.merchant # All => t.word = u.merchant.word

undecided(t) == t.category = NoCategory /\ t.links = NoLink /\ t.flow # "TRANSFER"

\* The mode's own tests replace the category's and the flow's, not what a
\* mixed selection put beside them, which every undecided row passes.
listWhere(u, t) ==
    /\ sharedWhere(u, t)
    /\ IF u.review THEN undecided(t) ELSE sqlCategory(u, t) /\ sqlFlow(u, t)

isMerchant(u, t) == u.merchant = All \/ t.merchant = u.merchant.key

finish(u, t) ==
    /\ IF u.review THEN isUnreviewedP2P(t)
       ELSE nullSplit(u) => t.category # NoCategory \/ (IF isUnreviewedP2P(t) THEN Unreviewed ELSE NoCategory) \in u.category
    /\ isMerchant(u, t)
    /\ figure(u) /\ ~u.review => flowFinish(IF u.flow = "INCOME" THEN "income" ELSE "spending", t, rows)

\* Newest first; SQL is asked for no order within a day and keeps its own.
newestFirst(some) ==
    SortSeq(some, LAMBDA s, t : \/ s.month > t.month
                                \/ s.month = t.month /\ s.day > t.day
                                \/ s.month = t.month /\ s.day = t.day /\ s.id < t.id)

fetched(u) == newestFirst(SelectSeq(book, LAMBDA t : listWhere(u, t)))
matching(u) == IF pagedInJs(u) THEN SelectSeq(fetched(u), LAMBDA t : finish(u, t)) ELSE fetched(u)

\* Skip and take, in SQL or in memory.
pageOf(s, n) == SubSeq(s, (n - 1) * PAGE_SIZE + 1, smaller(n * PAGE_SIZE, Len(s)))
pageCount(s) == larger(1, ceilOf(Len(s), PAGE_SIZE))

pool(u) == {t \in rows : sharedWhere(u, t) /\ undecided(t) /\ isMerchant(u, t)}
reviewCount(u) == Cardinality({t \in pool(u) : t.p2p})
queue(u) == pool(u)

-----------------------------------------------------------------------------
(* What a render says of its rows. *)

\* A repayment counts from outside the LIST, all its pages, not the page.
pageTotals(n, list) == band(ToSet(pageOf(list, n)), rows, ToSet(list))
overallTotals(list) == band(ToSet(list), rows, ToSet(list))

filtered(u) == \/ \E f \in {"period", "category", "account", "flow", "q", "trip", "merchant"} : u[f] # All
               \/ u.review

\* REPAID is printed where there is any, transfers only on a filtered view.
TotalsBand(totals, repayments, someTransfer, says) ==
    [out |-> totals.out, in |-> totals.in, net |-> totals.net,
     repaid |-> IF repayments > 0 THEN totals.repaid ELSE 0,
     transfers |-> IF says /\ someTransfer THEN totals.transfersIn - totals.transfersOut ELSE 0]

\* The trip's band: the finished list where there is one, else aggregates; the
\* count of transfers asks for its own flow in place of the view's.
tripBand(u, list) ==
    LET summed == IF pagedInJs(u) THEN ToSet(list) ELSE {t \in rows : listWhere(u, t)}
        flowed == IF pagedInJs(u) THEN ToSet(list) ELSE {t \in rows : sharedWhere(u, t) /\ sqlCategory(u, t)}
    IN [count |-> Cardinality(summed), net |-> sumOf(summed, LAMBDA t : t.amount),
        transfers |-> Cardinality({t \in flowed : t.flow = "TRANSFER"})]

\* The controls of a row: each has one way to its trip.
controls(t) ==
    LET tag == IF t.trip # All THEN {"chip"} ELSE {}
    IN IF t.flow = "TRANSFER"
       THEN {"trip word"} \union tag
            \union (IF ~t.paired /\ t.account \notin ClosedBoxes THEN {"not a transfer"} ELSE {})
       ELSE IF t.flow = "INFLOW" /\ t.links # NoLink
       THEN {"unlink"} \union (IF t.trip = All THEN {"trip word"} ELSE tag)
       ELSE {"category", "menu"} \union tag
            \union (IF t.flow = "INFLOW" /\ t.account \notin NON_REIMBURSABLE_ACCOUNTS THEN {"repays"} ELSE {})

-----------------------------------------------------------------------------
(* The links it draws. *)

buildHref(u, overrides) == overrides @@ u
FirstPage == [page |-> 1]
to(u, change) == buildHref(u, change @@ FirstPage)

\* Every month from the first with data to the last.
monthOptions == LET ms == {t.month : t \in rows} IN Min(ms)..Max(ms)

\* Past the last visible row's month, where no month is selected; from a
\* month, the next; from a span, none.
olderPeriod(u, visible, more, options) ==
    LET month == IF u.period # All THEN u.period.from ELSE visible[Len(visible)].month
    IN IF isSpan(u) \/ (u.period = All /\ (visible = <<>> \/ ~more)) THEN {}
       ELSE IF u.period # All /\ month \notin options THEN {}
       ELSE {month - 1} \intersect options
newerPeriod(u, options) ==
    IF u.period = All \/ isSpan(u) \/ u.period.from \notin options THEN {} ELSE {u.period.from + 1} \intersect options

month(m) == [from |-> m, to |-> m, span |-> FALSE]

Pager(u, count) ==
    {buildHref(u, [page |-> n]) :
        n \in (IF u.page > 2 THEN {1} ELSE {})
              \union (IF u.page > 1 THEN {IF u.page > count THEN count ELSE u.page - 1} ELSE {})
              \union (IF u.page < count THEN {u.page + 1, count} ELSE {})}

clearLinks(u) ==
    {to(u, x) : x \in
        (IF u.category # All /\ Cardinality(u.category) > 1 THEN {[category |-> All]} ELSE {})
        \union (IF u.account # All /\ Cardinality(u.account) > 1 THEN {[account |-> All]} ELSE {})
        \union (IF u.trip # All THEN {[trip |-> All]} ELSE {})
        \union (IF u.flow = "SPENDING" THEN {[flow |-> All]} ELSE {})
        \union (IF u.flow = "INCOME" THEN {[flow |-> "INFLOW"]} ELSE {})
        \union (IF u.merchant # All THEN {[merchant |-> All]} ELSE {})
        \union (IF u.review THEN {[review |-> FALSE]} ELSE {})}

payeesLink(u) ==
    IF pool(u) = {} THEN {}
    ELSE {to(u, [payees |-> TRUE, category |-> {NoCategory}, review |-> FALSE])}
reviewLink(u) ==
    IF ~u.review /\ reviewCount(u) > 0 THEN {to(u, [review |-> TRUE])} ELSE {}

links(u, list, options) ==
    LET visible == pageOf(list, u.page)
        more == (IF pagedInJs(u) THEN Len(fetched(u)) ELSE Len(list)) > Len(visible)
    IN IF u.payees
       THEN {to(u, [payees |-> FALSE])} \union (IF u.merchant # All THEN {to(u, [merchant |-> All])} ELSE {})
       ELSE (IF pageCount(list) > 1 \/ (Len(list) > 0 /\ u.page > pageCount(list)) THEN Pager(u, pageCount(list)) ELSE {})
            \union clearLinks(u) \union payeesLink(u) \union reviewLink(u)
            \union {to(u, [period |-> month(m)]) : m \in olderPeriod(u, visible, more, options)}
            \union {to(u, [period |-> month(m)]) : m \in newerPeriod(u, options)}

-----------------------------------------------------------------------------
(* The form: a GET sends its own fields, hidden ones among them. *)

NoFilters == [f \in {"period", "category", "account", "flow", "q", "trip", "merchant"} |-> All]
             @@ [review |-> FALSE, payees |-> FALSE, page |-> 1]

\* The modes and filters that have no control of their own.
hiddenInputs_NoReview(u) == [payees |-> u.payees, trip |-> u.trip, merchant |-> u.merchant]
hiddenInputs(u) == [payees |-> u.payees, review |-> u.review, trip |-> u.trip, merchant |-> u.merchant]

\* What each control stands at: a select at the option that is its filter,
\* and at All where none is.
stands(u, options) ==
    [period |-> IF u.period = All \/ isSpan(u) \/ u.period.from \in options THEN u.period ELSE All,
     category |-> IF u.category = All \/ Cardinality(u.category) > 1
                     \/ u.category \subseteq (PageCategories \union {NoCategory, Unreviewed})
                  THEN u.category ELSE All,
     account |-> u.account, flow |-> u.flow, q |-> u.q]

\* The staged ticks travel as one list, ids that name no account among them.
toggle(selected, id) ==
    LET now == IF selected = All THEN {} ELSE selected
        next == IF id \in now THEN now \ {id} ELSE now \union {id}
    IN IF next = {} THEN All ELSE next
AccountFilter(u) == {[account |-> toggle(u.account, t.account)] : t \in rows}

submitted(u, change, options) == change @@ hiddenInputs(u) @@ stands(u, options) @@ NoFilters

-----------------------------------------------------------------------------
LedgerPageInit ==
    /\ book \in FirstBooks
    /\ \E u \in FirstAddresses : url = parsed(u @@ NoFilters)
    /\ hops = 0

goes(u) == url' = u /\ hops' = hops + 1

FollowLink ==
    /\ hops < MaxHops
    /\ \E u \in links(url, matching(url), monthOptions) : goes(u)
    /\ UNCHANGED book

\* One control changed, or none.
SubmitForm ==
    /\ hops < MaxHops
    /\ \E change \in Asks \union AccountFilter(url) : goes(submitted(url, change, monthOptions))
    /\ UNCHANGED book

\* A row of the page is decided, and the page drawn again at its address.
DecideRow ==
    /\ ~url.payees
    /\ \E i \in DOMAIN book, c \in PageCategories :
          /\ book[i] \in ToSet(pageOf(matching(url), url.page)) /\ undecided(book[i])
          /\ book' = [book EXCEPT ![i].category = c]
    /\ UNCHANGED <<url, hops>>

SyncArrives ==
    /\ LateRow.id \notin {t.id : t \in rows}
    /\ book' = Append(book, LateRow)
    /\ UNCHANGED <<url, hops>>

LedgerPageNext == FollowLink \/ SubmitForm \/ DecideRow \/ SyncArrives

-----------------------------------------------------------------------------
\* Every row the filters match is on one page and only one, and the sums under
\* the pages add up to the sum above them, repayments from outside the list
\* included ("taking the page instead of the list would make the page totals
\* stop adding up to the overall one", repaid.ts).
PagesShareTheList ==
    LET list == matching(url)
        overall == overallTotals(list)
        pages == 1..pageCount(list)
        totals == [n \in pages |-> pageTotals(n, list)]
    IN /\ \A t \in ToSet(list) : Cardinality({n \in pages : t \in ToSet(pageOf(list, n))}) = 1
       /\ \A k \in DOMAIN overall : FoldFunction(+, 0, [n \in pages |-> totals[n][k]]) = overall[k]

\* The number a link carries is the number of rows behind it, and a queue with
\* rows in it is offered: "N payments to confirm" and the bulk review count
\* before the filters are finished what the page behind finishes.
LinksKeepTheirCount ==
    /\ \A u \in reviewLink(url) : Len(matching(u)) = reviewCount(url)
    /\ \A u \in payeesLink(url) : queue(u) = pool(url)
    /\ (\E t \in pool(url) : t.p2p) => url.review \/ reviewLink(url) # {}

\* Sent as it stands, the form asks for what is shown: every filter and mode,
\* those with no control of their own among them ("without this, \"review just
\* June\" dropped you out of the queue").
FormKeepsFilters ==
    LET again == submitted(url, [page |-> 1], monthOptions)
    IN /\ again.payees = url.payees /\ again.review = url.review
       /\ matching(again) = matching(url)

listedTransfers(list) == Cardinality({t \in ToSet(list) : t.flow = "TRANSFER"})

\* The band of a trip states the rows listed under it, whichever of its two
\* queries counted them, and their transfers where the view asks for no flow
\* of its own; and a printed net is the sum of the figures printed.
BandsStateTheList ==
    LET list == matching(url)
        repayments == Cardinality({r \in rows : r.flow = "INFLOW" /\ r \notin ToSet(list)
                                      /\ \E t \in ToSet(list) : t.flow = "OUTFLOW" /\ t.id = r.links})
        printed == TotalsBand(overallTotals(list), repayments,
                              \E t \in ToSet(list) : t.flow = "TRANSFER", filtered(url))
        trip == tripBand(url, list)
    IN /\ url.trip # All /\ ~url.review => /\ trip.count = Len(list)
                                           /\ trip.net = printed.in - printed.out + printed.transfers
                                           /\ pagedInJs(url) \/ (url.flow = All /\ ~nullBucket(url)) =>
                                                trip.transfers = listedTransfers(list)
       /\ printed.net = printed.in + printed.repaid - printed.out

\* "It states what its own view shows" (transactions/page.tsx): the transfers
\* a trip's band says it includes are among the rows it counts.  Refuted: a
\* view of the trip's outflows alone says it includes its transfers.
TripIncludesWhatItSays ==
    \A list \in {matching(url)} : url.trip # All /\ ~url.review => tripBand(url, list).transfers = listedTransfers(list)

\* From an empty page past the end of a list that has rows, a link leads back
\* to rows of the same list (decisions shrink it under an open page); and a
\* step to an older month leaves behind every month on the screen.
WaysLeadOn ==
    LET list == matching(url)
        options == monthOptions
        all == links(url, list, options)
    IN ~url.payees =>
       /\ list # <<>> /\ pageOf(list, url.page) = <<>> =>
             \E u \in all : [u EXCEPT !.page = 1] = [url EXCEPT !.page = 1] /\ pageOf(list, u.page) # <<>>
       /\ \A m \in olderPeriod(url, pageOf(list, url.page), TRUE, options) :
             /\ \A t \in ToSet(pageOf(list, url.page)) : t.month > m
             /\ newerPeriod(to(url, [period |-> month(m)]), options) = {m + 1}

\* A row of the page has one way to its trip, and a payment that waits for its
\* person has the way to confirm it.
RowsHaveTheirWays ==
    \A t \in rows : /\ (t.trip # All) = ("chip" \in controls(t))
                    /\ controls(t) \intersect {"trip word", "chip", "menu"} # {}
                    /\ isUnreviewedP2P(t) => "category" \in controls(t)

PageTellsTheLedger ==
    /\ PagesShareTheList /\ LinksKeepTheirCount /\ FormKeepsFilters
    /\ BandsStateTheList /\ WaysLeadOn /\ RowsHaveTheirWays
=============================================================================
