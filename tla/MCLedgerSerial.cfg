SPECIFICATION FairSpec
CONSTANTS
    Rows <- MCRowsFlagged
    Accounts <- MCAccounts
    Payees <- MCPayees
    Categories <- MCCategories
    account <- MCaccount
    amount <- MCamount
    day <- MCday
    rank <- MCrank
    payee <- MCpayee
    P2P = {}
    Internal = {}
    feedFlow <- MCfeedFlow
    hint <- MChint
    packRule <- MCpackRule
    NoCat = noCat
    NoRow = noRow
    NoRule = noRule
    Keep = keep
    FirstTypes = {{}, {"broker"}}
    MaxKills = 0
    Sessions = {s1}
    Operations = {"categorize", "clear", "release", "decide", "retype", "link", "unlink"}
    Overlap = FALSE
    MaxOps = 2
PROPERTIES
    ManualIsSacred
    BoxEncloses
    LeavingBoxReleases
    PairedLeavesTotals
