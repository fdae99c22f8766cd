SPECIFICATION FairSpec
CONSTANTS
    a1 = a1
    a2 = a2
    main = main
    n1 = n1
    n2 = n2
    any = any
    vpn = vpn
    t1 = t1
    t2 = t2
    NoKey = NoKey
    Nobody = Nobody
    Main = main
    Admin <- TwoAdmins
    Name <- MCName
    Listen <- OneListen
    Target <- MCTarget
    Clash <- OneClash
    ForwardInput <- PairInput
    Configs <- NoConfig
    SaveMayFail = TRUE
INVARIANTS
    StatusIsRuntime
PROPERTIES
    EditsAnswered
