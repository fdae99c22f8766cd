SPECIFICATION Spec
CONSTANTS
    h1 = h1
    h2 = h2
    legacyHost = legacyHost
    r1 = r1
    r2 = r2
    n1 = n1
    n2 = n2
    n3 = n3
    a1 = a1
    good = good
    bad = bad
    NoKey = NoKey
    DefaultHost = NoKey
    Host <- MCHost
    Name <- MCName
    Listen <- MCListen
    Route <- MCRoute
    EnabledRoute <- MCEnabled
    LegacyRoutes <- MCRoute
    Port <- MCPort
    Target <- MCTarget
    BadTarget <- MCBad
    SiteInput <- Nothing
    DomainInput <- MCDomains
    ForwardInput <- OneForward
    DNATInput <- Nothing
    InitialFiles <- FreshFiles
CHECK_DEADLOCK FALSE
INVARIANTS
    RestartLoads
