SPECIFICATION Spec
CONSTANTS
    None = None
    MaxStarts = 1
    Clients = {c1, c2}
INVARIANT StoppedGatewayIsQuiet
