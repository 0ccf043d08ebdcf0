SPECIFICATION FairSpec
CONSTANTS
    a1 = a1
    a2 = a2
    None = None
    Aliases = {a1, a2}
    Procs = {p1, p2}
    Requests = {r1}
    Loaders = {l1}
    MaxLoaded = 1
    MaxMemory = 0
    Memory <- MCMemory
    Events = {"crash"}
PROPERTIES AcquireReturns ImplementsPool
