------------------------------- MODULE Overlap -------------------------------
(***************************************************************************)
(* Which rows of a statement the database holds already under another      *)
(* source's id (sync/overlap.ts).  The match is on the signed amount and   *)
(* on dates within a window, and it is a multiset match: two equal rows    *)
(* are two rows, and only the surplus over what is stored is missing.      *)
(*                                                                         *)
(* A day is a number; a row is a record.  `nth' is a row's place in the    *)
(* statement, which the code's stable sort keeps among rows of one day.    *)
(***************************************************************************)
EXTENDS Integers, FiniteSets, SequencesExt

CONSTANT NotLate   \* a row that is no late posting carries no period

\* [key, day, nth, amount, posted]: posted is the period of a row listed long
\* after the merchant's date, [from, to], or NotLate.
rangeOf(row, w) ==
    IF row.posted = NotLate THEN {}
    ELSE row.posted.from .. (row.posted.to + w)

near(row, s, w) ==
    /\ s.amount = row.amount
    /\ s.day \in (row.day - w)..(row.day + w) \union rangeOf(row, w)

\* Rows linked through stored rows they could both match.
componentOf(row, incoming, stored, w) ==
    LET apart(C) == \A a \in C, b \in incoming \ C, s \in stored :
                        ~(near(a, s, w) /\ near(b, s, w))
        around == {C \in SUBSET incoming : row \in C /\ apart(C)}
    IN CHOOSE C \in around : \A D \in around : C \subseteq D

earlier(a, b) == a.day < b.day \/ (a.day = b.day /\ a.nth < b.nth)

\* Every row in date order takes the earliest stored row it can reach that no
\* row before it took.
picks(rows, stored, w) ==
    LET free(row, taken) ==
            {s \in stored : near(row, s, w) /\ \A k \in DOMAIN taken : taken[k] # s}
        first(ss) == CHOOSE s \in ss : \A t \in ss : s.day < t.day \/ (s.day = t.day /\ s.id <= t.id)
        pick(taken, row) ==
            IF free(row, taken) = {} THEN taken
            ELSE (row.key :> first(free(row, taken))) @@ taken
    IN FoldLeft(pick, <<>>, SetToSortSeq(rows, earlier))

interchangeable_Always(rows) == TRUE
interchangeable(rows) == Cardinality({r.day : r \in rows}) = 1

\* A row nothing matched is added, as older history or as a gap, unless rows
\* of different days compete for the stored ones.
unmatched(row, historyStart) == IF row.day >= historyStart THEN "GAP" ELSE "NEW"

verdictOf(row, incoming, stored, w, historyStart) ==
    LET rows == componentOf(row, incoming, stored, w)
        taken == picks(rows, stored, w)
        contested == DOMAIN taken # {}
    IN CASE row.key \in DOMAIN taken -> "MATCHED"
         [] row.key \notin DOMAIN taken /\ contested /\ ~interchangeable(rows) -> "AMBIGUOUS"
         [] OTHER -> unmatched(row, historyStart)

matchOverlap_IdsOnly(incoming, stored, w, historyStart) ==
    [k \in {r.key : r \in incoming} |-> "GAP"]
matchOverlap(incoming, stored, w, historyStart) ==
    [k \in {r.key : r \in incoming} |->
        verdictOf(CHOOSE r \in incoming : r.key = k, incoming, stored, w, historyStart)]

isAdded(verdict) == verdict \in {"NEW", "GAP"}

=============================================================================
