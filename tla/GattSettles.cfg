SPECIFICATION FairSpec
CONSTANTS
    None = None
    s1 = s1
    s2 = s2
    p1 = p1
    p2 = p2
    c1 = c1
    Sids = {s1}
    Peers = {p1}
    Chars = {c1}
    ConnIds = {1}
    Offers <- OnePeer
    Plan <- OnePlan
    MaxConnections = 1
    MaxOpens = 2
    MaxOwed = 2
    MinInterval = 2
    MaxSubscribes = 2
    MaxGiveUps = 1
PROPERTIES
    SessionSettles
    ImplementsLife
CHECK_DEADLOCK FALSE
