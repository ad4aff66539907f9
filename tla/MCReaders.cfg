SPECIFICATION PartsSpec
CONSTANTS
    Parts = {"copies", "schema", "sheets", "access"}
    Purchases = {1, 2, 3, 4}
    post <- MCpost
    seen <- MCseen
    printedOn <- MCprintedOn
    closed = {4}
    Statements = {"A", "Q", "C"}
    period <- MCperiod
    ofClosed = {"C"}
    Imports <- MCImports
    Reach = 3
    ListReach = 2
    Lookback = 1
    Window = 1
    MaxDay = 6
    MaxMishaps = 1
    None = None
    NotLate = NotLate
    Instances = {"i1", "i2"}
    Days = {1, 2}
    Cap = 2
    PerRun = {1}
    MaxRequests = 2
    MaxUpsets = 2
    Months = {1, 2, 3}
    Neighbours = 2
    Needed = 1
    Mostly <- MCMostly
    ScopeLookback = 1
    Tabs = {"t1", "t2"}
    MaxEdits = 2
    NoInsight = NoInsight
    Browsers = {"b1", "b2"}
    Deployments <- MCDeployments
    Deployed <- MCDeployed
    SessionAge = 1
    DeviceAge = 2
    MaxTime = 3
    NoCookie = NoCookie
    NoRow = NoRow
    Tables <- MCTables
    VisitorKeys = {"goals.savings", "budget.categories"}
    Releases = {1, 2}
    DemoMonths = {1, 2}
    HoldAfter = 2
    MaxStops = 1
    NoRecord = NoRecord
    Names <- MCNames
    Brand <- MCBrand
    Prices = {10, 12}
    Stride = 30
    Histories <- MCHistories
    Began = 60
    LastDay = 150
    MaxCharges = 7
    Kept = 2
    Calls = {k1, k2}
    Declared <- MCDeclared
    CloudRows = {c1}
    LocalRows = {w1}
    FirstRow = r0
    Dates = {1, 2, 3, 4}
    OldDates = {1, 2}
    monthOf <- MCmonth
    DailyKept = 1
    MaxPref = 1
    MaxKills = 1
    NotYet = NotYet
    NoMoney = NoMoney
    NoSection = NoSection
    Smudge = Smudge
    NoCategory = NoCategory
    NoLink = NoLink
    IncomeCategories = {"Salary"}
    MerchantRows = 1
    GroupLines = 1
    MinShare = 30
    MaxSlices = 2
    Unread = Unread
    Nearness = 1
    Printed <- MCPrinted
    TableNames = {"Setting", "Goal"}
    Shipments <- MCShipments
    FirstStored <- MCFirstStored
    People = {me, you}
    MaxRows <- MCMaxRows
    MaxByHand = 1
    MaxStopped = 1
    Internal = {"_prisma_migrations"}
INVARIANTS
    CopiesAreTrue
    SessionsAreEarned
    OnlySurplusAdded
    AcceptedIsTrue
    FiguresTellTheLedger
    PushesAreTrue
PROPERTIES
    PruneKeeps
CHECK_DEADLOCK FALSE
