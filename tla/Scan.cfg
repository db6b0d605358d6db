SPECIFICATION FairSpec
CONSTANTS
    Kinds = {"hosted", "native", "nimble"}
    MayRefuse = TRUE
    MayFailReset = TRUE
    MayGiveUp = TRUE
    MaxQueue = 3
    MaxSessions = 2
    WithStop = TRUE
    MayOutwait = TRUE
INVARIANTS
    TypeOK
    RebootIsLast
    FlagIsHonest
    StopIsFinalOnNimble

    
    
