------------------------------ MODULE MCLedger ------------------------------
(***************************************************************************)
(* Instances of Ledger for TLC.  Three rows of one amount: a payment out   *)
(* of the bank, the money arriving in another account, and a second        *)
(* payment out that could pair with the same arrival; or in its place a    *)
(* trade at the broker, which the wording of its import flags a transfer.  *)
(***************************************************************************)
EXTENDS Ledger, TLC

MCRows == {"out1", "in1", "out2"}
MCRowsFlagged == {"out1", "in1", "trade"}
MCAccounts == {"bank", "broker"}
MCPayees == {"shop", "move"}
MCCategories == {"Food", "Home"}

MCaccount == [r \in Rows |-> IF r \in {"in1", "trade"} THEN "broker" ELSE "bank"]
MCamount == [r \in Rows |-> CASE r = "in1" -> 5 [] r = "trade" -> 7 [] OTHER -> -5]
MCday == [r \in Rows |-> CASE r = "out1" -> 1 [] r = "in1" -> 3 [] r \in {"out2", "trade"} -> 4]
MCdayFar == [MCday EXCEPT !["out2"] = 8]
MCrank == [r \in Rows |-> CASE r = "out1" -> 1 [] r = "in1" -> 2 [] r = "out2" -> 3 [] r = "trade" -> 4]
MCpayee == [r \in Rows |-> IF r = "out1" THEN "shop" ELSE "move"]
MCfeedFlow == [r \in Rows |-> CASE r = "in1" -> "INFLOW" [] r = "trade" -> "TRANSFER" [] OTHER -> "OUTFLOW"]
MChint == [r \in Rows |-> IF r \in {"out2", "trade"} THEN "Home" ELSE NoCat]
MCpackRule == [p \in MCPayees |->
    IF p = "shop" THEN [cat |-> "Food", flow |-> Keep] ELSE NoRule]
=============================================================================
