SPECIFICATION Spec
CONSTANTS
    a1 = a1
    a2 = a2
    None = None
    Aliases = {a1, a2}
    Procs = {p1, p2, p3}
    Requests = {r1, r2}
    Loaders = {}
    MaxLoaded = 1
    MaxMemory = 0
    Memory <- MCMemory
    Events = {}
SYMMETRY Symmetry
VIEW MCView
PROPERTY EvictionSparesLeases
