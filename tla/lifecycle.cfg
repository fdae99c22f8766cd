SPECIFICATION FairSpec
CONSTANTS
    b1 = b1
    b2 = b2
    pw1 = pw1
    pw2 = pw2
    extra = extra
    NoCookie = NoCookie
    ProxyPort = ProxyPort
    AdminPort = AdminPort
    RedirectPort = RedirectPort
    Browser <- MCBrowser
    Inside <- MCInside
    Password <- MCPassword
    TTL = 1
    Port <- MCPort
    Settings <- MCSettings
    MaxFaults = 1
PROPERTIES
    ComesBack
    StopEnds
    StopClears
    OwnPairKept
    EditsEarned
