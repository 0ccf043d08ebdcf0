SPECIFICATION Spec
CONSTANTS
    a1 = a1
    a2 = a2
    None = None
    Aliases = {a1, a2}
    Procs = {p1, p2}
    Requests = {r1, r2}
    Loaders = {}
    MaxLoaded = 2
    MaxMemory = 4
    Memory <- MCMemory
    Events = {"cancel", "crash", "reap", "unload", "stopall"}
SYMMETRY Symmetry
VIEW MCView
INVARIANTS BudgetHeld NoOrphan NothingWedged
