SPECIFICATION FairSpec
CONSTANTS
    Sizes = {0, 2, 3}
    DrainWindow = 2
    MaxReceived = 4
INVARIANTS
    TypeOK
    Accounting
    InArrivalOrder
    ArraysBounded
    CallbackNeverWaits
PROPERTIES
    NoGrowthOnCallback
    DropsOldestFirst
    ImplementsLedger
    EverySettled
