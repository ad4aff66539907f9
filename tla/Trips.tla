--------------------------------- MODULE Trips ---------------------------------
(***************************************************************************)
(* Trips: labels a person ties to rows of the ledger through one picker    *)
(* (components/GroupPicker.tsx), renames across every row that carries     *)
(* them (RenameGroup.tsx, sync/groups.ts), and what the page of a period   *)
(* sums of each (ui/trips.ts).  A label exists only as the value on its    *)
(* rows, so what two tabs write meets there and nowhere else.              *)
(***************************************************************************)
EXTENDS Integers, FiniteSets, SequencesExt

CONSTANTS
    TripRows,
    Amount,          \* of each
    InPeriod,        \* the rows of the period viewed
    TripTabs,
    TripNames,       \* what is typed: a word, and the casing it is typed in
    NoName,          \* nothing typed, or a name that is too long or empty
    FirstTags,       \* what the rows may carry at first
    MaxTagged,       \* bound on the writes asked for
    Untagged

VARIABLES
    tag,             \* [TripRows -> a label or Untagged]
    shown,           \* [TripTabs -> the tags its page was drawn from]
    tagging,         \* [TripTabs -> Untagged or the open picker]
    tagWrites,       \* what was asked for and is not done
    tagged,          \* how many
    landed,          \* [TripTabs -> where its last rename took it]
    forkable         \* whether a list was stale under a tag, or two renames overlapped

tvars == <<tag, shown, tagging, tagWrites, tagged, landed, forkable>>

foldTrip(label) == label.word
labelsOf(tags) == {tags[r] : r \in TripRows} \ {Untagged}
sameTrip(label, among) == {l \in among : foldTrip(l) = foldTrip(label)}

-----------------------------------------------------------------------------
(* The picker. *)

Clear == [kind |-> "clear", value |-> Untagged]
listedTrips(ls) == SetToSortSeq({[kind |-> "label", value |-> l] : l \in ls},
                           LAMBDA a, b : \/ a.value.word < b.value.word
                                         \/ a.value.word = b.value.word /\ b.value.caps)

\* What a query leaves of the list; it holds a word whole, or is not typed.
offeredTrips(ls, typed, current) ==
    (IF current # Untagged /\ typed = NoName THEN <<Clear>> ELSE <<>>)
    \o listedTrips(IF typed = NoName THEN ls ELSE sameTrip(typed, ls))
    \o (IF typed # NoName /\ sameTrip(typed, ls) = {} THEN <<[kind |-> "create", value |-> typed]>> ELSE <<>>)

\* 0: nothing is active, and Enter writes nothing.
startsAt(rows, typed, current) ==
    IF typed = NoName
    THEN SelectInSeq(rows, LAMBDA r : r.kind = "label" /\ r.value = current)
    ELSE LET starts == SelectInSeq(rows, LAMBDA r : r.kind = "label")
         IN IF starts = 0 /\ rows # <<>> THEN 1 ELSE starts

TripsInit ==
    /\ tag \in FirstTags
    /\ shown = [t \in TripTabs |-> tag]
    /\ tagging = [t \in TripTabs |-> Untagged]
    /\ tagWrites = {} /\ tagged = 0
    /\ landed = [t \in TripTabs |-> Untagged]
    /\ forkable = FALSE

\* A Server Action is sent when the tab's one before it has answered.
sends(t) == tagged < MaxTagged /\ \A w \in tagWrites : w.tab # t

OpenTrips(t, r) ==
    /\ \A u \in TripTabs : tagging[u] = Untagged
    /\ sends(t)
    /\ tagging' = [tagging EXCEPT ![t] = [row |-> r, current |-> shown[t][r], typed |-> NoName]]
    /\ UNCHANGED <<tag, shown, tagWrites, tagged, landed, forkable>>

TypeTrip(t, name) ==
    /\ tagging[t] # Untagged /\ tagging[t].typed # name
    /\ tagging' = [tagging EXCEPT ![t].typed = name]
    /\ UNCHANGED <<tag, shown, tagWrites, tagged, landed, forkable>>

\* Enter where the keyboard starts (at = 0), or of the row it was moved to.
PickTrip(t, at) ==
    LET p == tagging[t]
        rows == offeredTrips(labelsOf(shown[t]), p.typed, p.current)
        i == IF at = 0 THEN startsAt(rows, p.typed, p.current) ELSE at
    IN
    /\ p # Untagged /\ i \in DOMAIN rows /\ sends(t)
    /\ tagWrites' = tagWrites \union
          {[tab |-> t, do |-> "tag", row |-> p.row, from |-> p.current, to |-> rows[i].value, seen |-> shown[t],
            bare |-> at = 0 /\ p.typed = NoName]}
    /\ tagged' = tagged + 1
    /\ tagging' = [tagging EXCEPT ![t] = Untagged]
    /\ UNCHANGED <<tag, shown, landed, forkable>>

DismissTrips(t) ==
    /\ tagging[t] # Untagged
    /\ tagging' = [tagging EXCEPT ![t] = Untagged]
    /\ UNCHANGED <<tag, shown, tagWrites, tagged, landed, forkable>>

\* RenameGroup's commit: adopts the casing of the label it knows.
AskRenameTrip(t, from, typed) ==
    LET known == sameTrip(typed, labelsOf(shown[t]) \ {from})
        to == IF known # {} THEN CHOOSE l \in known : TRUE ELSE typed
    IN
    /\ tagging[t] = Untagged /\ sends(t)
    /\ from \in labelsOf(shown[t]) /\ typed # NoName /\ to # from
    /\ tagWrites' = tagWrites \union
          {[tab |-> t, do |-> "rename", row |-> Untagged, from |-> from, to |-> to, seen |-> shown[t], bare |-> FALSE]}
    /\ tagged' = tagged + 1
    /\ UNCHANGED <<tag, shown, tagging, landed, forkable>>

-----------------------------------------------------------------------------
(* The actions on the server. *)

answered(w) == /\ tagWrites' = tagWrites \ {w}
               /\ shown' = [shown EXCEPT ![w.tab] = tag']

\* setTransactionGroup writes the label it is given.
SetTransactionGroup(w) ==
    /\ w.do = "tag"
    /\ tag' = [tag EXCEPT ![w.row] = w.to]
    /\ forkable' = (forkable \/ labelsOf(w.seen) # labelsOf(tag))
    /\ answered(w)
    /\ UNCHANGED <<tagging, tagged, landed>>

\* renameGroup reads the labels there are, and adopts the casing of the one
\* it would fork.
adopted_Typed(from, to, ls) == to
adopted(from, to, ls) ==
    LET existing == sameTrip(to, ls \ {from})
    IN IF existing # {} THEN CHOOSE l \in existing : TRUE ELSE to

ReadLabels(w) ==
    /\ w.do = "rename"
    /\ tagWrites' = (tagWrites \ {w}) \union
          {[w EXCEPT !.do = "renaming", !.seen = tag, !.to = adopted(w.from, w.to, labelsOf(tag))]}
    /\ UNCHANGED <<tag, shown, tagging, tagged, landed, forkable>>

\* One statement over every row that carries the label now.
renameGroupRows(tags, from, to) == [r \in TripRows |-> IF tags[r] = from THEN to ELSE tags[r]]

RenameRows(w) ==
    /\ w.do = "renaming"
    /\ tag' = renameGroupRows(tag, w.from, w.to)
    /\ forkable' = (forkable \/ labelsOf(w.seen) # labelsOf(tag))
    /\ landed' = [landed EXCEPT ![w.tab] = w.to]
    /\ answered(w)
    /\ UNCHANGED <<tagging, tagged>>

TripsNext ==
    \/ \E t \in TripTabs :
          \/ \E r \in TripRows : OpenTrips(t, r)
          \/ \E n \in TripNames \union {NoName} : TypeTrip(t, n)
          \/ tagging[t] # Untagged /\ \E at \in 0..(Cardinality(TripRows) + 2) : PickTrip(t, at)
          \/ DismissTrips(t)
          \/ \E l \in labelsOf(shown[t]), n \in TripNames : AskRenameTrip(t, l, n)
    \/ \E w \in tagWrites : SetTransactionGroup(w) \/ ReadLabels(w) \/ RenameRows(w)

-----------------------------------------------------------------------------
(* The trips of a period, as the page sums them. *)

tripSum(rows) == FoldFunctionOnSet(LAMBDA a, b : a + b, 0, Amount, rows)

tripsForPeriod(tags) ==
    {[label |-> l,
      periodNet |-> tripSum({r \in InPeriod : tags[r] = l}),
      runningNet |-> tripSum({r \in TripRows : tags[r] = l}),
      rowCount |-> Cardinality({r \in TripRows : tags[r] = l})]
        : l \in {l \in labelsOf(tags) : \E r \in InPeriod : tags[r] = l}}

\* The rows of the ledger behind a trip's link: its label, exactly.
behind(tags, label) == {r \in TripRows : tags[r] = label}

-----------------------------------------------------------------------------
\* Opening the picker and pressing Enter writes what the page already shows
\* on the row: "an UNTAGGED row with no query starts with NOTHING active"
\* (GroupPicker.tsx preferredIndex).
BareEnterKeepsTag ==
    \A w \in tagWrites : w.bare => w.to = w.from /\ w.to # Untagged

\* No two trips differ only in their casing, however stale the list a rename
\* was typed against ("the write is what must not fork a case-variant",
\* actions.ts renameGroup), unless a tag was written from a stale list, which
\* adopts nothing, or two renames overlapped on the server.
NoForks ==
    ~forkable => \A l, m \in labelsOf(tag) : foldTrip(l) = foldTrip(m) => l = m

\* A rename lands on the whole group: with nothing in flight and nobody else
\* renaming, the label it took its tab to carries every row of that trip.
LandsOnTheTrip ==
    ~forkable /\ tagWrites = {} =>
        \A t \in TripTabs : landed[t] \in labelsOf(tag) =>
            behind(tag, landed[t]) = {r \in TripRows : tag[r] # Untagged /\ foldTrip(tag[r]) = foldTrip(landed[t])}

\* What the period's trips add up to is what its tagged rows add up to: a
\* rename or a merge moves no money in or out of the section.
TripsAccountForAll ==
    LET trips == tripsForPeriod(tag)
    IN /\ FoldSet(LAMBDA x, n : n + x.periodNet, 0, {[label |-> x.label, periodNet |-> x.periodNet] : x \in trips})
            = tripSum({r \in InPeriod : tag[r] # Untagged})
       /\ \A x \in trips : x.rowCount = Cardinality(behind(tag, x.label))

TripsKeepTheirRows == BareEnterKeepsTag /\ NoForks /\ LandsOnTheTrip /\ TripsAccountForAll
=============================================================================
