SPECIFICATION HistorySpec
CONSTANTS
    Rows <- MCRows
    Accounts <- MCAccounts
    Payees <- MCPayees
    Categories <- MCCategories
    account <- MCaccount
    amount <- MCamount
    day <- MCday
    rank <- MCrank
    payee <- MCpayee
    P2P = {"in1", "out2"}
    Internal = {}
    feedFlow <- MCfeedFlow
    hint <- MChint
    packRule <- MCpackRule
    NoCat = noCat
    NoRow = noRow
    NoRule = noRule
    Keep = keep
    FirstTypes = {{}, {"broker"}}
    MaxKills = 1
    Sessions = {s1}
    Operations = {"decide", "undo"}
    Overlap = FALSE
    MaxOps = 3
PROPERTIES
    UndoPutsBack
