SPECIFICATION Spec
CONSTANTS
    SchSyncs = {"a"}
    SchCrons <- MCCrons
    SchRows <- MCRows
    SchZones <- MCZones
    SchLocal <- East
    MinutesPerHour = 2
    HoursPerDay = 2
    DaysPerMonth = 1
    MonthsPerYear = 2
    DaysPerWeek = 2
    SchMaxTick = 10
    SchMaxCalls = 1
    MgrProcs = {p1, p2}
    MgrKinds = {"config", "schema", "tenant"}
    MgrSchemas <- MCSchemas
    MgrDefaultQuota = 1
    MgrMaxWrites = 3
    MgrMaxAdded = 3
    RtrTenants = {1, 2}
    RtrProcs = {p1, p2}
    RtrIdle = 1
    RtrMaxTick = 3
    RtrMaxOpen = 3
    CatProcs = {p1, p2}
    CatRequests <- MCRequests
    CatMaxWrites = 2
    WrkProcs = {p1, p2}
    WrkKinds = {"extract", "transform", "load", "supervisor"}
    WrkBatches <- MCBatches
    WrkBits <- MCBits
    WrkBatchSize = 2
    WrkConcurrency = 2
    WrkMaxRetries = 1
    WrkMin = 1
    WrkMax = 4
    WrkUp = 2
    WrkDown = 1
    WrkMaxDepth = 3
    LimProcs = {p1, p2}
    LimKinds = {"redis", "bucket", "mcp", "agent", "rest"}
    LimLimit = 2
    LimBurst = 2
    LimWindow = 3
    LimSecond = 2
    LimIdle = 3
    LimAges = {1, 3}
    LimMaxTick = 5
    LimMaxEntries = 2
    EmbProcs = {p1, p2}
    EmbKinds = {"lifecycle", "oauth"}
    EmbWindow = 1
    EmbMaxTick = 2
    EmbMaxRows = 1
    EmbMaxFlows = 2
    EmbMaxSyncs = 1
    AudProcs = {"p1", "p2"}
    AudBatchSize = 2
    AudCap = 2
    AudMaxEvents = 3
    GwTransports = {"sse", "websocket", "stdio"}
    GwClients = {c1}
    GwEvents = 1
    GwMaxRequests = 2
    RegNames = {1, 2}
    RegStatic = {1}
    RegBroken = {}
    RegProcs = {p1, p2}
    RegMaxLoads = 2
    RegMaxChecks = 2
    KeyVersions = {0, 1, 2}
    KeyMaterials = {"", "k1", "k2"}
    KeyTags = 2
    SecProcs = {p1, p2}
    SecPaths = {"a", "b"}
    SecData = {"d1", "d2"}
    SecKinds = {"local", "vault"}
    PartIdBits = 3
    PartPerSecond = 2
    SubKinds = {"hub", "redis"}
    SubPublishers = {p1, p2}
    SubCapacity = 1
    SubMaxChannels = 3
    SubMaxEvents = 2
INVARIANTS
    TypeOK
    StaleOnlyAfterOverlap
    QuotaOvershootBounded
    NoPoolLeaked
    DeduplicatedNotLost
    LoadedOrDead
    AdmissionBounded
    ExchangedOnce
    EventsAccounted
    AuditedOnce
    ChannelsSafe
PROPERTIES
    OncePerSlot
CHECK_DEADLOCK FALSE
