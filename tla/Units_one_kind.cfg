\* Two connections, requests and events; a body of three chunks read three
\* times; paths of four characters on three routes of two routers; two cache
\* entries over five hours; three apps; three tokens in AGENTS.md.
CONSTANTS
    s1 = s1
    s2 = s2
    Socket = {s1, s2}
    Req = {1, 2}
    MaxEvents = 2
    MaxChunks = 3
    MaxReads = 3
    Limit = 2
    Character = {"/", "a", "%"}
    MaxPath = 4
    Single = {"x"}
    Wild = {"w"}
    Route <- SevenRoutes
    MaxRoutes = 3
    Hostname <- FourHosts
    Address <- OneAddress
    CertTtl = 3
    MaxEntries = 2
    MaxTime = 5
    a = a
    b = b
    c = c
    Apps <- ThreeApps
    Unknown = unknown
    MaxDeps = 2
    MaxTokens = 3
    MaxUpgrades = 1
SPECIFICATION UnitsSpec
INVARIANTS OneResponse EventsReachOpen HttpCallHonest OneAnswer InternalsHidden BodyWhole RouteFound CertificateServes OrderCorrect SyncConverges
PROPERTY EnvPrecedence
CHECK_DEADLOCK FALSE
