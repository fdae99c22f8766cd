SPECIFICATION FairSpec
CONSTANTS
    a1 = a1
    a2 = a2
    main = main
    h1 = h1
    h2 = h2
    NoKey = NoKey
    Nobody = Nobody
    Main = main
    Admin <- TwoAdmins
    Host <- MCHost
    Port <- MCPort
    ServedElsewhere <- MCMain
    DomainInput <- MCInput
    Tables <- MCTables
    SaveMayFail = FALSE
INVARIANTS
    ListenersFollowTable
PROPERTIES
    Reconciles
    PortsServed
