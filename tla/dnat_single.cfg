SPECIFICATION Spec
CONSTANTS
    a1 = a1
    main = main
    n1 = n1
    n2 = n2
    p1 = p1
    p2 = p2
    t1 = t1
    t2 = t2
    NoKey = NoKey
    Nobody = Nobody
    Main = main
    Admin <- OneAdmin
    Name <- MCName
    Listen <- MCListen
    Target <- MCTarget
    DNATInput <- MCInput
    Configs <- MCConfigs
    SaveMayFail = TRUE
    MaxFailures = 2
INVARIANTS
    KernelFollowsConfig
    ActiveIsInstalled
    LeftoversExplained
