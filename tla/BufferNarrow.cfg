SPECIFICATION Spec
CONSTANTS
    Sizes = {2}
    DrainWindow = 3
    MaxReceived = 3
INVARIANTS
    NeverTwoFullArrays
