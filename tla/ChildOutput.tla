---------------------------- MODULE ChildOutput ----------------------------
(***************************************************************************)
(* The output of one managed child (logProcessOutput and childLineLogger,  *)
(* server_manager.go): a pump per pipe takes lines and logs them through a *)
(* limiter the two share, at most so many lines a window, the rest counted *)
(* and the count reported.  A child that writes to a full pipe blocks.  A  *)
(* line too long for the scanner ends the pump of its pipe.  cmd.Wait      *)
(* closes the pipes once the child has exited, whatever they still hold.   *)
(***************************************************************************)
EXTENDS Integers, Sequences, FiniteSets

CONSTANTS
    PipeCap,        \* the lines a pipe holds
    PerWindow,      \* childLinesPerWindow
    LineWindow,     \* childLineWindow
    MaxLines,       \* bound: lines the child writes
    MaxClock        \* bound: the clock

ASSUME ChildAssumption ==
    {PipeCap, PerWindow, LineWindow} \subseteq Nat \ {0} /\ {MaxLines, MaxClock} \subseteq Nat

VARIABLES
    alive,      \* the child has not exited
    want,       \* the line it is writing, NoLine when none
    pipe,       \* for each stream, the lines in the pipe
    pump,       \* for each stream, where its goroutine is
    waited,     \* cmd.Wait has returned: the pipes are closed
    limiter,    \* the shared limiter
    clock,      \* the time
    count       \* lines written, taken by a pump, logged, reported as dropped, overlong

childVars == <<alive, want, pipe, pump, waited, limiter, clock, count>>

Streams == {"stdout", "stderr"}
NoLine == [stream |-> "none", long |-> FALSE]
Lines == [stream : Streams, long : BOOLEAN]

ChildTypeOK ==
    /\ alive \in BOOLEAN /\ waited \in BOOLEAN
    /\ want \in Lines \cup {NoLine}
    /\ \A s \in Streams : Len(pipe[s]) <= PipeCap /\ \A i \in DOMAIN pipe[s] : pipe[s][i] \in BOOLEAN
    /\ pump \in [Streams -> {"reading", "holding", "ended"}]
    /\ limiter \in [start : 0..MaxClock, inWindow : 0..PerWindow, dropped : 0..MaxLines, closed : BOOLEAN]
    /\ clock \in 1..MaxClock
    /\ count \in [written : 0..MaxLines, taken : 0..MaxLines, logged : 0..MaxLines,
                  reported : 0..MaxLines, overlong : SUBSET Streams]

ChildInit ==
    /\ alive = TRUE /\ want = NoLine /\ waited = FALSE /\ clock = 1
    /\ pipe = [s \in Streams |-> <<>>]
    /\ pump = [s \in Streams |-> "reading"]
    /\ limiter = [start |-> 0, inWindow |-> 0, dropped |-> 0, closed |-> FALSE]
    /\ count = [written |-> 0, taken |-> 0, logged |-> 0, reported |-> 0, overlong |-> {}]

-----------------------------------------------------------------------------
(***************************************************************************)
(* The child                                                               *)
(***************************************************************************)
WriteLine(line) ==
    /\ alive /\ want = NoLine /\ count.written < MaxLines
    /\ want' = line
    /\ UNCHANGED <<alive, pipe, pump, waited, limiter, clock, count>>

\* The write returns when the pipe has room.
LineWritten ==
    LET s == want.stream IN
    /\ alive /\ want # NoLine
    /\ Len(pipe[s]) < PipeCap
    /\ pipe' = [pipe EXCEPT ![s] = Append(@, want.long)]
    /\ want' = NoLine
    /\ count' = [count EXCEPT !.written = @ + 1,
                              !.overlong = IF want.long THEN @ \cup {s} ELSE @]
    /\ UNCHANGED <<alive, pump, waited, limiter, clock>>

ChildExits ==
    /\ alive
    /\ alive' = FALSE /\ want' = NoLine
    /\ UNCHANGED <<pipe, pump, waited, limiter, clock, count>>

\* The goroutine of cmd.Wait closes the read ends.
WaitReturns ==
    /\ ~alive /\ ~waited
    /\ waited' = TRUE
    /\ pipe' = [s \in Streams |-> <<>>]
    /\ UNCHANGED <<alive, want, pump, limiter, clock, count>>

-----------------------------------------------------------------------------
(***************************************************************************)
(* The pumps                                                               *)
(***************************************************************************)
Reads_OneAfterTheOther(s) == pump[s] = "reading" /\ (s = "stderr" => pump["stdout"] = "ended")

Reads(s) == pump[s] = "reading"

\* Scan returns a line, or stops on one longer than maxLogLineBytes.
TakeLine(s) ==
    /\ Reads(s) /\ pipe[s] # <<>>
    /\ pipe' = [pipe EXCEPT ![s] = Tail(@)]
    /\ IF Head(pipe[s])
       THEN pump' = [pump EXCEPT ![s] = "ended"] /\ UNCHANGED count
       ELSE /\ pump' = [pump EXCEPT ![s] = "holding"]
            /\ count' = [count EXCEPT !.taken = @ + 1]
    /\ UNCHANGED <<alive, want, waited, limiter, clock>>

\* Scan finds the end: nothing can be written any more, or the pipe is closed.
PumpEnds(s) ==
    /\ Reads(s) /\ pipe[s] = <<>> /\ ~alive
    /\ pump' = [pump EXCEPT ![s] = "ended"]
    /\ UNCHANGED <<alive, want, pipe, waited, limiter, clock, count>>

Rolled_Forgets == [start |-> clock, inWindow |-> 0, dropped |-> 0, closed |-> FALSE, flushed |-> 0]

\* A window over: what it dropped is reported with the first line of the next.
Rolled == [start |-> clock, inWindow |-> 0, dropped |-> 0, closed |-> FALSE, flushed |-> limiter.dropped]

Same == [start |-> limiter.start, inWindow |-> limiter.inWindow, dropped |-> limiter.dropped,
         closed |-> limiter.closed, flushed |-> 0]

\* childLineLogger.log, under its mutex.
LogLine(s) ==
    LET l == IF limiter.start = 0 \/ clock - limiter.start >= LineWindow THEN Rolled ELSE Same
        full == l.inWindow >= PerWindow
    IN
    /\ pump[s] = "holding"
    /\ pump' = [pump EXCEPT ![s] = "reading"]
    /\ limiter' = [start |-> l.start, closed |-> l.closed,
                   inWindow |-> IF full THEN l.inWindow ELSE l.inWindow + 1,
                   dropped |-> IF full THEN l.dropped + 1 ELSE l.dropped]
    /\ count' = [count EXCEPT !.logged = IF full THEN @ ELSE @ + 1, !.reported = @ + l.flushed]
    /\ UNCHANGED <<alive, want, pipe, waited, clock>>

\* Both pumps have ended: close reports the rest.
CloseLogger ==
    /\ \A s \in Streams : pump[s] = "ended"
    /\ ~limiter.closed
    /\ limiter' = [limiter EXCEPT !.dropped = 0, !.closed = TRUE]
    /\ count' = [count EXCEPT !.reported = @ + limiter.dropped]
    /\ UNCHANGED <<alive, want, pipe, pump, waited, clock>>

ClockTicks ==
    /\ clock < MaxClock
    /\ clock' = clock + 1
    /\ UNCHANGED <<alive, want, pipe, pump, waited, limiter, count>>

\* The child is gone and everything it wrote accounted for: the end.
ChildOver == waited /\ limiter.closed /\ clock = MaxClock /\ UNCHANGED childVars

ChildNext ==
    \/ \E line \in Lines : WriteLine(line)
    \/ LineWritten \/ ChildExits \/ WaitReturns \/ CloseLogger \/ ClockTicks \/ ChildOver
    \/ \E s \in Streams : TakeLine(s) \/ PumpEnds(s) \/ LogLine(s)

\* Goroutines that can run run, and a write that has room returns.
ChildFairness ==
    /\ WF_childVars(LineWritten) /\ WF_childVars(CloseLogger)
    /\ \A s \in Streams : /\ WF_childVars(TakeLine(s)) /\ WF_childVars(PumpEnds(s))
                          /\ WF_childVars(LogLine(s))

ChildSpec == ChildInit /\ [][ChildNext]_childVars /\ ChildFairness

-----------------------------------------------------------------------------
(***************************************************************************)
(* "The excess is counted, not written" (server_manager.go:1324): of the   *)
(* lines the pumps took none is forgotten, whichever stream they came by   *)
(* and wherever the windows fall, and once the logger is closed every one  *)
(* was logged or reported.  Before the child's exit closes the pipes, no   *)
(* line is lost but an overlong one and what is behind it.                 *)
(***************************************************************************)
Holding == {s \in Streams : pump[s] = "holding"}

EveryLineCounted ==
    /\ count.taken = count.logged + count.reported + limiter.dropped + Cardinality(Holding)
    /\ limiter.closed => count.taken = count.logged + count.reported
    /\ ~waited /\ count.overlong = {} =>
           count.written = count.taken + Len(pipe["stdout"]) + Len(pipe["stderr"])

(***************************************************************************)
(* A child that blocks on one of its pipes goes on, whatever it writes to  *)
(* the other, unless it wrote a line of more than maxLogLineBytes to this  *)
(* one (server_manager.go:1316).                                           *)
(***************************************************************************)
ChildDrained ==
    \A s \in Streams :
        want.stream = s ~> want.stream # s \/ s \in count.overlong
=============================================================================
