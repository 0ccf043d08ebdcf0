SPECIFICATION FairSpec
CONSTANTS
    Unix = {u1, u2}
    Tcp = {t1}
    Modes = {"standalone", "launched"}
    MaxStarts = 2
    Pids = {1, 2}
    MaxVersion = 3
    None = None
CHECK_DEADLOCK FALSE
INVARIANTS RestartsClean OnlyItsRelay TcpDrained
PROPERTY Settles
