SPECIFICATION FairSpec
CONSTANTS
    Rows <- MCRows
    Accounts <- MCAccounts
    Payees <- MCPayees
    Categories <- MCCategories
    account <- MCaccount
    amount <- MCamount
    day <- MCdayFar
    rank <- MCrank
    payee <- MCpayee
    P2P = {}
    Internal = {"in1"}
    feedFlow <- MCfeedFlow
    hint <- MChint
    packRule <- MCpackRule
    NoCat = noCat
    NoRow = noRow
    NoRule = noRule
    Keep = keep
    FirstTypes = {{}, {"broker"}}
    MaxKills = 1
    Sessions = {s1}
    Operations = {"categorize", "decide"}
    Overlap = TRUE
    MaxOps = 1
INVARIANTS
    PairsMatch
    InsideNeverPairs
PROPERTIES
    RulePassSparesManual
    ReimportChangesNothing
    StrandedRowsReached
