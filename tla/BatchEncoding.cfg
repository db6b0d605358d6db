SPECIFICATION Spec
CONSTANTS
    Headers <- SomeHeaders
    Batches <- SomeBatches
    NameMax = 3
INVARIANTS
    TypeOK
    SizesAgree
    BodyIsTheBatch
