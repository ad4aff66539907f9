SPECIFICATION ScreensSpec
CONSTANTS
    ScreensMoved = {"pickers", "trips", "ledger page", "review", "repayments", "statement files", "budget"}
    LedgerRows = {1, 2}
    Boxed = {2}
    ShortValued = {}
    Screens = {s1, s2}
    Typings <- MCTypings
    NewNames <- MCNewNames
    FirstCategories <- MCFirstCategories
    PackCategories <- MCPackCategories
    Reserved <- MCReserved
    MaxWords = 2
    FirstFiled <- MCFirstFiled
    FirstRules <- MCFirstRules
    MaxAsked = 2
    MaxIds = 5
    NoCat = 0
    NoRule = NoRule
    NoTarget = NoTarget
    TripRows = {1, 2, 3}
    Amount <- MCAmount
    InPeriod = {1, 3}
    TripTabs = {s1, s2}
    TripNames <- MCTripNames
    NoName = NoName
    FirstTags <- MCFirstTags
    MaxTagged = 2
    Untagged = Untagged
    NoCategory = NoCategory
    NoLink = NoLink
    IncomeCategories = {"Salary"}
    MerchantRows = 1
    GroupLines = 1
    MinShare = 30
    MaxSlices = 2
    FirstBooks <- MCFirstBooks
    LateRow <- MCLateRow
    FirstAddresses <- MCFirstAddresses
    PageCategories <- MCPageCategories
    Asks <- MCAsks
    PAGE_SIZE = 2
    ClosedBoxes = {}
    NON_REIMBURSABLE_ACCOUNTS = {}
    MaxHops = 2
    All = All
    Blank = Blank
    Rails <- MCRails
    RailWords <- MCRailWords
    Noise <- MCNoise
    Ref = "REF"
    Marks <- MCMarks
    Letters <- MCLetters
    NameWords <- MCNameWords
    Bookkeeping <- MCBookkeeping
    MemoWords <- MCMemoWords
    Unknown = "none"
    FirstLedgers <- MCFirstLedgers
    Arriving <- MCArriving
    FirstDecided <- MCFirst
    FirstRulesKept <- MCRules
    Options <- MCOptions
    ShortKeys <- MCShort
    MaxSent = 2
    MaxLost = 1
    MaxTaps = 2
    FirstMonies <- MCFirstMonies
    PaysBack = 3
    Queries <- MCQueries
    Untyped = "none typed"
    WINDOW_DAYS = 45
    LEAD_DAYS = 30
    POSTING_LAG_DAYS = 3
    POOL_TAKE = 20
    CANDIDATE_LIMIT = 3
    SEARCH_LIMIT = 2
    BarredAccounts = {"brokerage"}
    Unlinked = 0
    MaxOpens = 2
    MaxTyped = 2
    MaxFailures = 1
    MaxPaired = 1
    Banks <- MCBanks
    ExportedBy <- MCExportedBy
    Investments <- MCInvestments
    FED = "chk"
    FED_FROM = 3
    EXACT <- MCExact
    TAILS <- MCTails
    WITHIN <- MCWithin
    LabelOf <- MCLabelOf
    Ruled = {"coffee"}
    Hints = {"shop"}
    TransferTexts = {"payment", "bought"}
    MONTH_DAYS = 2
    MaxRuns = 2
    DAYS = 2
    YEAR = 4
    WINDOW = 2
    YEARLY_WINDOW = 3
    PACE_MIN_MONTHS = 2
    YEARLY_MIN_MONTHS = 3
    MAX_MONTHLY_LINES = 2
    RING_SLICES = 1
    STEP = 10
    YEARLY_STEP = 50
    AHEAD_MIN = 2
    AHEAD_TENTHS = 1
    NOT_EVERYDAY = {"gifts"}
    Keys = {"food", "trip", "new"}
    Tabs = {s1, s2}
    Records <- MCRecords
    Purchases <- MCPurchases
    Limits = {40}
    LastMonth = 4
    MaxSaves = 2
INVARIANTS
    LedgerDecisions
    MoneyPages
    StatementFiles
CONSTRAINT MCOneTabElsewhere
SYMMETRY MCSame
CHECK_DEADLOCK FALSE
