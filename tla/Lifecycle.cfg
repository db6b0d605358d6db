SPECIFICATION FairSpec
CONSTANTS
    None = None
    MaxStarts = 2
    Clients = {c1, c2}
INVARIANTS
    TypeOK
    OneClient
    OnePostTask
    TaskEndsBeforeStop
    ServerStateKnown
PROPERTY ChannelComesUp
