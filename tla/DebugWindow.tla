---------------------------- MODULE DebugWindow ----------------------------
(***************************************************************************)
(* The debug window of the log (logging.go): a program started at debug    *)
(* falls back to info once, half an hour later, at the first call that     *)
(* notices.  Every call of every goroutine looks at the clock twice, in    *)
(* Enabled and in Handle, and three atomics are read and written without a *)
(* lock between them.                                                      *)
(***************************************************************************)
EXTENDS Naturals, FiniteSets

CONSTANTS
    Loggers,        \* the goroutines that log
    Deadline,       \* when the window ends
    MaxSeconds,     \* bound: the clock
    MaxLogCalls      \* bound: calls

ASSUME WindowAssumption == Deadline \in Nat /\ MaxSeconds \in Nat /\ MaxLogCalls \in Nat

Levels == {"debug", "info", "warn", "error"}

VARIABLES
    start,      \* the level of RELAY_LOG_LEVEL; info when there is none or it is not one
    level,      \* the level of the log
    expired,    \* the flag of the compare-and-swap
    seconds,    \* the time
    logCall,      \* the call of each goroutine
    logCalls,    \* calls so far
    notices,    \* expiry lines written (history)
    late,       \* a debug line was written by a call begun after an expiry line (history)
    missed      \* a call begun past the deadline ended with the window open (history)

windowVars == <<start, level, expired, seconds, logCall, logCalls, notices, late, missed>>

NoLogCall == [at |-> "idle"]
Rank(l) == CASE l = "debug" -> 0 [] l = "info" -> 1 [] l = "warn" -> 2 [] OTHER -> 3

WindowTypeOK ==
    /\ {start, level} \subseteq Levels /\ expired \in BOOLEAN
    /\ seconds \in 0..MaxSeconds /\ logCalls \in 0..MaxLogCalls /\ notices \in Nat
    /\ \A g \in Loggers : logCall[g].at \in {"idle", "window", "swap", "store", "notice", "level", "write"}

\* Only a program started at debug has a deadline.
WindowInit ==
    /\ start \in Levels /\ level = start
    /\ expired = FALSE /\ seconds = 0 /\ logCalls = 0 /\ notices = 0
    /\ late = FALSE /\ missed = FALSE
    /\ logCall = [g \in Loggers |-> NoLogCall]

AtStep(g, at) == logCall' = [logCall EXCEPT ![g].at = at]

\* A call of slog at a level: Enabled first, then Handle, and both begin
\* with checkWindow.
CallLog(g, l) ==
    /\ logCall[g] = NoLogCall /\ logCalls < MaxLogCalls
    /\ logCalls' = logCalls + 1
    /\ logCall' = [logCall EXCEPT ![g] = [at |-> "window", level |-> l, handling |-> FALSE,
                                      noticed |-> notices > 0,
                                      past |-> start = "debug" /\ seconds >= Deadline]]
    /\ UNCHANGED <<start, level, expired, seconds, notices, late, missed>>

AfterWindow(g) == IF logCall[g].handling THEN "write" ELSE "level"

\* checkWindow looks: no deadline, expired already, or not yet.
LookAtWindow(g) ==
    /\ logCall[g].at = "window"
    /\ AtStep(g, IF start # "debug" \/ expired \/ seconds < Deadline THEN AfterWindow(g) ELSE "swap")
    /\ UNCHANGED <<start, level, expired, seconds, logCalls, notices, late, missed>>

Swapped_LoadStore == TRUE
Swapped == ~expired

\* One goroutine alone wins the compare-and-swap.
Swap(g) ==
    /\ logCall[g].at = "swap"
    /\ expired' = TRUE
    /\ AtStep(g, IF Swapped THEN "store" ELSE AfterWindow(g))
    /\ UNCHANGED <<start, level, seconds, logCalls, notices, late, missed>>

StoreLevel(g) ==
    /\ logCall[g].at = "store"
    /\ level' = "info"
    /\ AtStep(g, "notice")
    /\ UNCHANGED <<start, expired, seconds, logCalls, notices, late, missed>>

\* The line that says so, written by the winner itself.
WriteNotice(g) ==
    /\ logCall[g].at = "notice"
    /\ notices' = notices + 1
    /\ AtStep(g, AfterWindow(g))
    /\ UNCHANGED <<start, level, expired, seconds, logCalls, late, missed>>

EndLogCall(g) ==
    /\ logCall' = [logCall EXCEPT ![g] = NoLogCall]
    /\ missed' = (missed \/ (logCall[g].past /\ ~expired))

\* Enabled compares with the level of the log, and slog drops the record or
\* calls Handle.
CompareLevel(g) ==
    /\ logCall[g].at = "level"
    /\ IF Rank(logCall[g].level) >= Rank(level)
       THEN /\ logCall' = [logCall EXCEPT ![g].at = "window", ![g].handling = TRUE]
            /\ UNCHANGED missed
       ELSE EndLogCall(g)
    /\ UNCHANGED <<start, level, expired, seconds, logCalls, notices, late>>

\* Handle writes what Enabled let through, whatever the window did since.
WriteRecord(g) ==
    /\ logCall[g].at = "write"
    /\ EndLogCall(g)
    /\ late' = (late \/ (logCall[g].level = "debug" /\ logCall[g].noticed))
    /\ UNCHANGED <<start, level, expired, seconds, logCalls, notices>>

SecondPasses ==
    /\ seconds < MaxSeconds
    /\ seconds' = seconds + 1
    /\ UNCHANGED <<start, level, expired, logCall, logCalls, notices, late, missed>>

WindowNext ==
    \/ SecondPasses
    \/ \E g \in Loggers :
          \/ \E l \in {"debug", "info"} : CallLog(g, l)
          \/ LookAtWindow(g) \/ Swap(g) \/ StoreLevel(g) \/ WriteNotice(g)
          \/ CompareLevel(g) \/ WriteRecord(g)

WindowSpec == WindowInit /\ [][WindowNext]_windowVars

-----------------------------------------------------------------------------
(***************************************************************************)
(* The end of the window is told once, however many goroutines notice it   *)
(* together; a call begun after it was told writes no debug line; and no   *)
(* call begun past the deadline ends with the window still open            *)
(* (checkWindow, logging.go:205).                                          *)
(***************************************************************************)
ExpiryOnce == notices <= 1 /\ ~late /\ ~missed
=============================================================================
