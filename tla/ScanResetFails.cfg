SPECIFICATION FairSpec
CONSTANTS
    Kinds = {"hosted"}
    MayRefuse = FALSE
    MayFailReset = TRUE
    MayGiveUp = FALSE
    MaxQueue = 4
    MaxSessions = 0
    WithStop = FALSE
    MayOutwait = FALSE
PROPERTY ResetIsFollowed
