SPECIFICATION Spec
CONSTANTS
    Rows <- MCRows
    Accounts <- MCAccounts
    Payees <- MCPayees
    Categories <- MCCategories
    account <- MCaccount
    amount <- MCamount
    day <- MCday
    rank <- MCrank
    payee <- MCpayee
    P2P = {}
    Internal = {}
    feedFlow <- MCfeedFlow
    hint <- MChint
    packRule <- MCpackRule
    NoCat = noCat
    NoRow = noRow
    NoRule = noRule
    Keep = keep
    FirstTypes = {{}}
    MaxKills = 0
    Sessions = {s1}
    Operations = {"categorize"}
    Overlap = TRUE
    MaxOps = 1
PROPERTIES
    PairingSparesManual
