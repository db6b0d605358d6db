SPECIFICATION Spec
CONSTANTS
    None = None
    Hosts = {h1}
    Ports = {p1}
    Cas = {ca1, ca2}
    Names = {n1}
    Tokens = {t1}
    ClockRange = 4
    BackoffCap = 1
    SlowRequest = 0
INVARIANTS
    TypeOK
    StringsOutliveHandle
    RequestIsCurrent
    
