SPECIFICATION FairSpec
CONSTANTS
    None = None
    Hosts = {h1}
    Ports = {p1}
    Cas = {ca1}
    Names = {n1}
    Tokens = {}
    ClockRange = 8
    BackoffCap = 2
    SlowRequest = 1
INVARIANT BackoffExact
PROPERTY KeepsTrying
