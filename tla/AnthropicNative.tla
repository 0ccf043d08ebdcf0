-------------------------- MODULE AnthropicNative --------------------------
(***************************************************************************)
(* One request that a target serves in the Anthropic dialect itself:       *)
(* attemptNative and buildNativeProxy of router_anthropic_native.go, the   *)
(* usage tap of anthropic_usage_tap.go on the response, and the probe that *)
(* holds back the answer to count_tokens.  The backend is the environment: *)
(* what it answers, lines of its stream cut anywhere, how its body ends.   *)
(* Which candidate is attempted is VirtualRouter's; this is the attempt    *)
(* that gets a response, or the last one.                                  *)
(***************************************************************************)
EXTENDS Integers, Sequences, SequencesExt

CONSTANTS
    Usages,         \* what one event of the stream, or one JSON body, reports
    MaxLines,       \* bound: lines of a stream
    Informational   \* whether a backend may send a 1xx before its answer

VARIABLES
    route,          \* "messages" or "count_tokens"
    at,             \* where the exchange is
    body,           \* how the response's body is read: by the tap, or not
    probe,          \* the status the count_tokens probe took for the answer
    tap,            \* the tap
    noted,          \* the tap's calls of noteUsage, which adds to the counters
    reply,          \* what was written to the client, in order
    told,           \* the reports of the body that were read whole (history)
    status, ending  \* the backend's status and the end of its body (history)

vars == <<route, at, body, probe, tap, noted, reply, told, status, ending>>

Fields == {"input", "output"}
NoUsage == [f \in Fields |-> 0]
Statuses == {"ok", "missing", "error"}

\* line: the SSE line so far is empty, cut in mid-event, an event that only
\* lacks its newline, or too long; for a JSON body, all of it.
NoTap == [seen |-> FALSE, usage |-> NoUsage, line |-> "empty", last |-> NoUsage, done |-> FALSE]

TypeOK ==
    /\ route \in {"messages", "count_tokens"} /\ at \in {"attempt", "body", "close", "fallback", "over"}
    /\ body \in {"none", "sse", "json", "plain"} /\ probe \in Statuses \cup {"none", "info"}
    /\ tap \in [seen : BOOLEAN, usage : [Fields -> Nat], line : {"empty", "cut", "whole", "long"},
                last : Usages \cup {NoUsage}, done : BOOLEAN]
    /\ noted \in Seq([Fields -> Nat]) /\ told \in BoundedSeq(Usages, MaxLines)
    /\ status \in Statuses \cup {"none"} /\ ending \in {"none", "eof", "cut"}

Init ==
    /\ route \in {"messages", "count_tokens"} /\ at = "attempt"
    /\ body = "none" /\ probe = "none" /\ tap = NoTap /\ noted = <<>>
    /\ reply = <<>> /\ told = <<>> /\ status = "none" /\ ending = "none"

Wrote(what) == Append(reply, what)

-----------------------------------------------------------------------------
(***************************************************************************)
(* Until the response.                                                     *)
(***************************************************************************)
\* No lease, a body that cannot be built, or no answer: a message gets an error
\* of the router's, and tokens are counted without the backend.
Fails ==
    /\ at = "attempt"
    /\ IF route = "messages" THEN at' = "over" /\ reply' = Wrote("router error")
                             ELSE at' = "fallback" /\ UNCHANGED reply
    /\ UNCHANGED <<route, body, probe, tap, noted, told, status, ending>>

\* The probe's WriteHeader: the first status decides, and a missing route is
\* not relayed.  After a 1xx, the body is written under an implied 200.
Relay(s) ==
    CASE route = "messages" -> Wrote(s)
      [] route = "count_tokens" /\ probe = "none" -> IF s = "missing" THEN reply ELSE Wrote(s)
      [] OTHER -> Wrote("ok")

Decide(s) == probe' = IF route = "count_tokens" /\ probe = "none" THEN s ELSE probe

Inform ==
    /\ Informational /\ at = "attempt" /\ reply = <<>>
    /\ reply' = Wrote("info") /\ Decide("info")
    /\ UNCHANGED <<route, at, body, tap, noted, told, status, ending>>

\* ModifyResponse: the tap reads what it can of an answer to a message.
Tapped(s, kind) == route = "messages" /\ s = "ok" /\ kind \in {"sse", "json"}

Respond(s, kind) ==
    /\ at = "attempt"
    /\ at' = "body" /\ status' = s
    /\ body' = IF Tapped(s, kind) THEN kind ELSE "plain"
    /\ reply' = Relay(s) /\ Decide(s)
    /\ UNCHANGED <<route, tap, noted, told, ending>>

-----------------------------------------------------------------------------
(***************************************************************************)
(* usageTap.                                                               *)
(***************************************************************************)
\* merge: the fields a report carries replace the ones before.
Merge(t, u) ==
    [t EXCEPT !.seen = TRUE, !.usage = [f \in Fields |-> IF u[f] > 0 THEN u[f] ELSE @[f]]]

Emptied(t) == [t EXCEPT !.line = "empty", !.last = NoUsage]

\* A read that ends a line: u is parsed unless the line was too long.
ReadLine(u) ==
    /\ at = "body" /\ body = "sse" /\ Len(told) < MaxLines
    /\ tap.line = "whole" => tap.last = u
    /\ tap' = Emptied(IF tap.line = "long" THEN tap ELSE Merge(tap, u))
    /\ told' = IF tap.line = "long" THEN told ELSE Append(told, u)
    /\ UNCHANGED <<route, at, body, probe, noted, reply, status, ending>>

\* A read that ends in mid-line, or mid-body; "whole" lacks nothing of u.
ReadPart(line, u) ==
    /\ at = "body" /\ body \in {"sse", "json"} /\ tap.line \notin {"whole", "long"}
    /\ Len(told) < MaxLines
    /\ tap' = [tap EXCEPT !.line = line, !.last = u]
    /\ UNCHANGED <<route, at, body, probe, noted, reply, told, status, ending>>

\* finish, which once.Do runs for EOF or Close, whichever comes first.
Report(t) ==
    /\ tap' = [Emptied(t) EXCEPT !.done = TRUE]
    /\ noted' = IF t.seen THEN Append(noted, t.usage) ELSE noted

Finish_Again ==
    LET whole == tap.line = "whole" IN
    /\ Report(IF whole THEN Merge(tap, tap.last) ELSE tap)
    /\ told' = IF whole THEN Append(told, tap.last) ELSE told

Finish ==
    LET whole == tap.line = "whole" IN
    IF tap.done \/ body = "plain" THEN UNCHANGED <<tap, noted, told>>
    ELSE /\ Report(IF whole THEN Merge(tap, tap.last) ELSE tap)
         /\ told' = IF whole THEN Append(told, tap.last) ELSE told

\* Read meets the end of the body ...
Eof ==
    /\ at = "body"
    /\ at' = "close" /\ ending' = "eof" /\ Finish
    /\ UNCHANGED <<route, body, probe, reply, status>>

\* ... or the body or the client breaks off, of which the tap hears by Close.
Breaks ==
    /\ at = "body"
    /\ at' = "close" /\ ending' = "cut"
    /\ UNCHANGED <<route, body, probe, tap, noted, reply, told, status>>

\* ReverseProxy closes the body and returns, or panics when it broke.
Close ==
    /\ at = "close" /\ Finish
    /\ at' = IF ending = "eof" /\ probe = "missing" THEN "fallback" ELSE "over"
    /\ UNCHANGED <<route, body, probe, reply, status, ending>>

\* handleAnthropicCountTokens estimates.
Estimate ==
    /\ at = "fallback"
    /\ at' = "over" /\ reply' = Wrote("estimate")
    /\ UNCHANGED <<route, body, probe, tap, noted, told, status, ending>>

Next ==
    \/ Fails \/ Inform \/ Eof \/ Breaks \/ Close \/ Estimate
    \/ \E s \in Statuses, kind \in {"sse", "json", "plain"} : Respond(s, kind)
    \/ \E u \in Usages : ReadLine(u) \/ ReadPart("whole", u)
    \/ \E line \in {"cut", "long"} : ReadPart(line, NoUsage)

Spec == Init /\ [][Next]_vars

-----------------------------------------------------------------------------
(***************************************************************************)
(* However the reads cut the body and however it ends, the connection is   *)
(* charged once, with what the backend reported last, field by field, and  *)
(* not at all when it reported nothing: the reports are cumulative, and    *)
(* one that was cut off or was too long to read does not count.            *)
(***************************************************************************)
LastOf(f) == LET given == {n \in DOMAIN told : told[n][f] > 0}
             IN  IF given = {} THEN 0 ELSE told[Max(given)][f]

UsageCounted ==
    at = "over" => noted = IF told = <<>> THEN <<>> ELSE <<[f \in Fields |-> LastOf(f)]>>

(***************************************************************************)
(* count_tokens is answered once: with the backend's answer, or with the   *)
(* estimate when it has no such route or cannot be reached ("reports       *)
(* false, having written nothing, whenever the caller should answer with   *)
(* the byte estimate instead").  A body that breaks aborts the exchange,   *)
(* and a 1xx that came first has decided the probe.                        *)
(***************************************************************************)
Answered ==
    (IF probe = "info" THEN Tail(reply) ELSE reply) =
        IF status \in {"none", "missing"} THEN <<"estimate">> ELSE <<status>>

CountAnswered ==
    at = "over" /\ route = "count_tokens" /\ ending # "cut" /\ probe # "info" => Answered

(***************************************************************************)
(* "404/405 is swallowed ..., any other status is relayed verbatim"        *)
(* (router_anthropic_native.go:344), after a 1xx as well.                  *)
(***************************************************************************)
CountAnsweredAlways ==
    at = "over" /\ route = "count_tokens" /\ ending # "cut" => Answered
=============================================================================
