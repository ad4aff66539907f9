SPECIFICATION PagesSpec
CONSTANTS
    PagesMoved = {"worth goal", "health", "renewals", "savings goals", "house", "nudges", "signals", "pace"}
    CashAccounts = {"bank", "fund"}
    InvestedAccounts = {"broker"}
    YEAR = 4
    PACE_MONTHS = 3
    PACE_MIN_MONTHS = 2
    HORIZON = 16
    IDLE_CASH_MIN = 1000
    INFLATION_PCT = 3
    Unmeasured = Unmeasured
    Histories <- MCHistories
    FirstMonths = 7
    GoalTabs = {s1, s2}
    Targets = {0, 60000, 900000}
    Returns = {0, 6, 12}
    Monthly = {600, 400, Unmeasured}
    MAX_TARGET = 500000
    MAX_REAL_RETURN_PCT = 100
    MAX_MONTHLY_INVEST = 1000000
    FirstGoal <- MCFirstGoal
    NoDate = NoDate
    MaxCommits = 2
    MaxLost = 1
    MaxDay = 2
    Checked = {"card"}
    Exempt = {"broker"}
    OVERDUE = 1
    STALE = 2
    GAP_WINDOW = 3
    GAP_MONTH = 3
    GAP_MIN_TYPICAL = 2
    RATE_STALE_DAYS = 2
    BACKUP_WARN_AFTER_NIGHTS = 1
    BACKUP_ERROR_AFTER_NIGHTS = 2
    LOGS_PAGE_SIZE = 2
    History = 7
    FirstRows <- MCFirstRows
    Nights = 7
    MaxTurns = 2
    NoRun = NoRun
    MonthDays <- MCMonthDays
    Cycles = {1, 3}
    AnchorDays = {2, 4, 5}
    Price = 10
    NewPrices = {11, 15}
    OtherPrices = {40}
    MaxOthers = 1
    NoCharge = NoCharge
    DOLLAR = 4
    MONTH = 10
    Skew <- MCSkew
    WINDOW_MONTHS = 6
    WINDOW_MIN_MONTHS = 3
    SHORTFALL_STEP = 40
    None = None
    FirstPages <- MCFirstPages
    CardTabs = {s1, s2}
    Typed = {205, 300, 2000, None}
    MAX_GOAL_PACE = 1000
    AddAsks <- MCAddAsks
    RemoveAsks <- MCRemoveAsks
    Absent = Absent
    Junk = Junk
    BadPace = BadPace
    Gone = Gone
    Refused = Refused
    MaxEdits = 2
    MaxAnswersLost = 1
    PaymentOf <- MCPaymentOf
    PRICE_CAP = 2000
    OBSERVATION_LOOKBACK = 2
    HouseMonths <- MCHouseMonths
    HouseFunds <- MCHouseFunds
    FirstDeclared <- MCFirstDeclared
    Terms <- MCTermsAsked
    TypedRates = {None, 5, 99}
    TypedDates = {None, 0, 9}
    HouseSyncs = {s1, s2}
    Published <- MCPublished
    LastDay = 4
    MaxFetches = 3
    MaxDeclared = 2
    DAY = 2
    NOON = 1
    DUE_WITHIN_DAYS = 7
    STALE_DISPLAY_DAYS = 2
    KEPT = 2
    FirstAsked <- MCFirstAsked
    OverviewTabs = {s1, s2}
    LastInstant = 6
    MaxNews = 2
    MaxMarks = 2
    NoCategory = NoCategory
    NoLink = NoLink
    IncomeCategories = {"Salary"}
    MerchantRows = 2
    GroupLines = 2
    MinShare = 5
    MaxSlices = 3
    NoKey = NoKey
    SIGNAL_MONTH = 6
    HISTORY <- MCHistory
    COMPARABLE = {{2, 3, 4, 5}, {5}}
    PURCHASES <- MCPurchases
    CHARGES <- MCCharges
    MaxSignalRows = 3
    MaxDismissals = 1
    PACE_MONTH = 21
    DAYS = 4
    BAND_MONTHS = 6
    BAND_MIN_MONTHS = 3
    RECAP_LAST_DAY = 1
    RECAP_MIN_TYPICAL_MONTHS = 3
    RECAP_MOVED_MIN = 10
    LUMPY_MONTHS = 12
    PastMonths <- MCPastMonths
    RecordsBegin <- MCRecords
    PaceCash = 400
    Plans <- MCPlans
    DaySpending = {0, 7, 30}
INVARIANTS
    GoalPages
    HealthPages
    InsightPages
CONSTRAINT MCThirdFetch
SYMMETRY MCSameTabs
CHECK_DEADLOCK FALSE
