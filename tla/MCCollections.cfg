CONSTANTS
    Hosts = {h1, h2}
    Ports = {0, 1, 2}
    MaxHostnames = 3
    UserIds = {u1, u2, u3}
    UserNames = {n1, n2}
    MaxUsers = 2
    RouteKeys = {r1, r2, r3}
    MaxRoutes = 2
    MaxGraphQLSchemas = 2
    PackageNames = {p1, p2, p3}
    Versions = {v1, v2}
    MaxPackages = 2
    MaxPerfSamples = 2
    MaxCompressedStats = 2
    MaxLogs = 2
    Hour = 3
    MaxTime = 8
    MaxCalls = 6
    Bits = 2
    ShortLength = 1
    LongLength = 2
    Urls = {a, b, c, d}
    MaxRecursionDepth = 2
    MaxRedirects = 3
    Primitive = {"string", "number", "null"}
    MaxBodies = 3
    RedirectLists <- SmallRedirectLists
    Methods = {"GET", "POST"}
    Routes <- SmallRoutes
    Fields = {"f"}
    ConfigLists <- SmallConfigLists
    RequestContexts <- Requests
    Ips = {"ip1", "ip2", "local"}
    Localhost = "local"
    MaxStars = 2
    MaxEndpoints = 3
    MaxTimeOfUsers = 3
    InitialReconnect = 2
    MaxReconnect = 24
    StableConnection = 12
    ReadTimeout = 28
    MaxTries = 5
    MaxActs = 2
    ContextFields = {"query", "markUnsafe", "consumedRateLimit"}
    InputStrings = {"a/b", "c"}
    PathStrings = {"a/b"}
SPECIFICATION MCSpec
INVARIANTS
    WithinLimits
    TimingsReportedOnce
    AddressesFound
    EndpointsDecide
    NeverQuietForLong
    OriginsFound
    SamplesDescribed
    CacheFresh
PROPERTIES
    EvictsOneAtTheLimit
    BacksOff
CHECK_DEADLOCK FALSE
