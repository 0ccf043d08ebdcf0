SPECIFICATION Spec
CONSTANTS
    None = None
    v1 = v1
    v2 = v2
    big = big
    small = small
    local = local
    e1 = e1
    e2 = e2
    Requests = {r1, r2}
    Virtuals = {v1, v2}
    Declared <- MCDeclared
    Endpoint <- MCEndpoint
    Conversations = {k1}
    Keys <- MCKeys
    Targets = {big, small, local}
    TTL = 1
    Cap = 2
    MaxNow = 1
VIEW MCView
SYMMETRY Symmetry
INVARIANT ServedByOne
PROPERTY FailsAfterAll
