SPECIFICATION sockFairSpec
CONSTANTS
    Sock = {a, b}
    MaxLines = 2
    MaxNested = 1
INVARIANTS SocksSound
PROPERTIES ClosedIsSilent ClosedIsFreed
