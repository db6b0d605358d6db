SPECIFICATION Spec
CONSTANTS
    None = None
    s1 = s1
    s2 = s2
    p1 = p1
    p2 = p2
    c1 = c1
    Sids = {s1, s2}
    Peers = {p1, p2}
    Chars = {c1}
    ConnIds = {1, 2}
    Offers <- TwoPeers
    Plan <- TwoPlans
    MaxConnections = 2
    MaxOpens = 2
    MaxOwed = 2
    MinInterval = 2
    MaxSubscribes = 2
    MaxGiveUps = 0
INVARIANTS
    TypeOK
    SessionHasConnection
    ConnectingIsAwaited
    InitIsAwaited
    InitIsSequential
    ScanIsResumed
    NeverDangling
    TimersFollowSession
CHECK_DEADLOCK FALSE
