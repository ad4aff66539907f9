SPECIFICATION Spec
CONSTANTS
    Rows <- MCRows
    Accounts <- MCAccounts
    Payees <- MCPayees
    Categories <- MCCategories
    account <- MCaccount
    amount <- MCamount
    day <- MCday
    rank <- MCrank
    payee <- MCpayee
    P2P = {"in1", "out2"}
    Internal = {}
    feedFlow <- MCfeedFlow
    hint <- MChint
    packRule <- MCpackRule
    NoCat = noCat
    NoRow = noRow
    NoRule = noRule
    Keep = keep
    FirstTypes = {{}, {"broker"}}
    MaxKills = 0
    Sessions = {s1}
    Operations = {"categorize", "decide", "undo"}
    Overlap = TRUE
    MaxOps = 2
INVARIANTS
    P2PNeverCategorizedUnseen
