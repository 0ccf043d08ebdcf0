SPECIFICATION MCSpec
CONSTANTS
    Requests = {r1, r2, r3}
    Streaming = {r1}
    Upgraded = {r2}
    Cap = 2
    QuietAfter = 1
    StallAfter = 2
    HeaderStall = 3
    MaxNow = 3
    None = None
    Timed = {r1, r2}
    Writers = {w1, w2, w3}
    Window = 2
    MaxTick = 6
    MaxBytes = 2
CHECK_DEADLOCK FALSE
INVARIANTS ListedOnce SilenceShows RateHonest
