SPECIFICATION FairSpec
CONSTANTS
    None = None
    Callers = {c1, c2}
    NumEndpoints = 2
    Reliable = {2}
    TTL = 1
    MaxNow = 1
INVARIANTS SingleFlight AnswersSound
PROPERTIES NeverOlder AlwaysAnswers
