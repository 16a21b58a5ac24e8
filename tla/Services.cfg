CONSTANTS
    r1 = r1
    r2 = r2
    u1 = u1
    u2 = u2
    h1 = h1
    h2 = h2
    m1 = m1
    m2 = m2
    m3 = m3
    a = a
    b = b
    c = c
    v1 = v1
    v2 = v2
    v3 = v3
    freePlan = freePlan
    proPlan = proPlan
    Keys <- MCKeys
    Max <- MCMax
    Window <- MCWindow
    Chains <- MCChains
    Requests <- MCRequests
    EndOfTime = 2
    MaxAccepted = 3
    MaxRestarts = 1
    Owners <- MCUsers
    MonitorIds <- MCMonitorIds
    Plans <- MCPlans
    FreePlan = freePlan
    MaxMonitors <- MCMaxMonitors
    MinInterval <- MCMinInterval
    QuotaRequests <- MCRequests
    Nobody = Nobody
    NoMonitor = NoMonitor
    MaxEvents = 1
    Holders <- MCHolders
    SlugNames <- MCSlugNames
    Candidates <- MCCandidates
    LastResort <- MCLastResort
    SlugRequests <- MCRequests
    NoHolder = NoHolder
    NoSlug = NoSlug
    MaxSlugFaults = 1
    Customers <- MCUsers
    Tariffs <- MCPlans
    FreeTariff = freePlan
    NoCustomer = NoCustomer
    HistoryDays <- MCHistoryDays
    RetentionDays = 2
    AbandonedDays = 1
    LastDay = 2
    MaxIncidents = 1
    Releases <- MCReleases
    NoRelease = NoRelease
    KeepReleases = 2
    MaxScripts = 5
SYMMETRY ServicesSymmetry
SPECIFICATION Spec
INVARIANTS TypeOK QuotaBound FloorHeld WindowBound RefusalsAreEarned SlugNamesOneUser ChosenSlugKept Lockstep 
PROPERTIES HistoryKept
CHECK_DEADLOCK FALSE
