---------------------------- MODULE MCLedgerUndo ----------------------------
(***************************************************************************)
(* Ledger with a history variable: the ledger as it was before the last    *)
(* review decision, forgotten when a sync runs in between or a function is *)
(* killed.                                                                 *)
(***************************************************************************)
EXTENDS MCLedger

VARIABLE before

Forgotten == [rules |-> NoRules, txn |-> <<>>]

DecideStarts == \E s \in Sessions, p \in Payees, t \in Targets : Decide(s, p, t)

HistoryInit == Init /\ before = Forgotten

HistoryNext ==
    /\ Next
    /\ before' = IF DecideStarts THEN [rules |-> userRules, txn |-> txn]
                 ELSE IF op' = op \/ kills' # kills THEN Forgotten
                 ELSE before

HistorySpec == HistoryInit /\ [][HistoryNext]_<<vars, before>>

\* "Undo puts every one back and removes those rules" (GroupedReview): taken
\* back before anything else happens, a decision leaves every rule, and every
\* row outside a closed box, as it found them; P2P rows it confirmed included.
UndoPutsBack ==
    [][ (\E s \in Sessions : UndoDone(s)) /\ before # Forgotten =>
          /\ userRules = before.rules
          /\ \A r \in stored :
                ~isClosedBox(investment, r) => txn[r] = before.txn[r] ]_vars
=============================================================================
