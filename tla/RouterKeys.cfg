SPECIFICATION Spec
CONSTANTS
    Labels = {l1}
    Commands = {c1, c2}
    MaxKeys = 2
    PollInterval = 2
    Granule = 1
    MaxNow = 4
    HandEdits = {"corrupt", "chmod"}
CONSTRAINTS CanWrite OneMode
VIEW MCView
SYMMETRY Symmetry
CHECK_DEADLOCK FALSE
INVARIANTS InStepWithFile KeysKept
