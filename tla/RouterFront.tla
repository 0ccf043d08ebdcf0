---------------------------- MODULE RouterFront ----------------------------
(***************************************************************************)
(* One request through the router's HTTP front: the listener that takes it *)
(* (router.go, auth.go, router_socket.go), the handler the mux chooses     *)
(* (router_anthropic.go, router_audio.go, router_passthrough.go), what     *)
(* each upstream is sent (newUpstreamProxy and the two passthrough         *)
(* proxies), what the client is answered, and the model.request line the   *)
(* request leaves.  Which targets a model leads to is Dispatch's subject   *)
(* and given here; so is the body of an answer.                            *)
(***************************************************************************)
EXTENDS Naturals, Sequences, FiniteSets, SequencesExt

CONSTANTS
    Targets,          \* the backends: managed aliases, and endpoints' models
    EndpointTargets,  \* the latter
    OnBox,            \* the upstreams on this machine
    WithKey,          \* the targets with an API key in the configuration
    Speakers,         \* the targets that speak Anthropic
    Declared,         \* for each target, the paths of the params it declares
    Candidates,       \* for each model the router knows, the targets in the order it tries them
    VirtualNames,     \* the models that are virtual
    MapOf,            \* router.anthropic.modelMap
    Calls             \* the requests that may arrive

Passthroughs == {"anthropic", "passthrough"}
Codes == {101, 200, 400, 401, 403, 404, 413, 500, 502, 503}
Denied == {401, 403}

ASSUME FrontAssumption ==
    /\ EndpointTargets \subseteq Targets /\ OnBox \subseteq Targets \cup Passthroughs
    /\ Targets \cap (Passthroughs \cup {"router"}) = {}
    /\ Declared \in [Targets -> SUBSET Seq(STRING)]
    /\ \A m \in DOMAIN Candidates : Candidates[m] \in Seq(Targets)
    /\ \A m \in DOMAIN Candidates \ VirtualNames : Candidates[m] = <<m>>
    /\ DOMAIN MapOf \cap DOMAIN Candidates = {}
    /\ \A c \in Calls : \A f \in DOMAIN c.fields : c.fields[f] = "client"

(***************************************************************************)
(* A request has a path and a method, a model and the leaves of its body   *)
(* ("client" at each path), and of its headers Authorization (a Bearer of  *)
(* its own, a Bearer that is the router key, or another scheme),           *)
(* X-Api-Key, X-Relay-Router-Key and X-Trace-Id.  Every request also has a *)
(* forged X-Relay-Model-Target.                                            *)
(***************************************************************************)
VARIABLES
    setup,      \* the listener, and whether router.anthropic is configured
    call,       \* the request
    at,         \* where the handler is
    mode,       \* the writer and the proxy the handler uses
    left,       \* the upstreams it has not given up, the current one first
    sent,       \* what upstreams were sent
    heading,    \* the values of X-Relay-Model-Target in the header to be written
    took,       \* the status the attempt's writer took first, 0 before
    reply,      \* what the client was answered
    recorded,   \* the status traceResponseWriter recorded, 0 before
    gone,       \* the client has hung up
    line        \* the model.request lines of the request

frontVars == <<setup, call, at, mode, left, sent, heading, took, reply, recorded, gone, line>>

Vias == {"tcp", "keyed", "relay", "stranger"}   \* launched, standalone, router.sock
NoCall == [path |-> "none"]
NoReply == [code |-> 0, heading |-> <<>>, by |-> "router", cut |-> FALSE]

FrontTypeOK ==
    /\ setup \in [via : Vias, compat : BOOLEAN]
    /\ call \in Calls \cup {NoCall}
    /\ at \in {"idle", "attempt", "sent", "streaming", "returned", "done"}
    /\ mode \in {"none", "plain", "native", "translated", "probe", "audio", "passthrough"}
    /\ left \in Seq(Targets \cup Passthroughs)
    /\ {took, recorded} \subseteq Codes \cup {0, 103}
    /\ reply.code \in Codes \cup {0} /\ gone \in BOOLEAN

FrontInit ==
    /\ setup \in [via : Vias, compat : BOOLEAN]
    /\ call = NoCall /\ at = "idle" /\ mode = "none" /\ left = <<>> /\ sent = <<>>
    /\ heading = <<>> /\ took = 0 /\ reply = NoReply /\ recorded = 0 /\ gone = FALSE
    /\ line = <<>>

-----------------------------------------------------------------------------
(***************************************************************************)
(* Admission, and the mux                                                  *)
(***************************************************************************)
TakesKeyHeader_NotCount(path) == path \in {"api", "messages", "passthrough"}

\* The paths whose handlers may forward Authorization and X-Api-Key.
TakesKeyHeader(path) == path \in {"api", "messages", "count", "passthrough"}

\* The router key a request presents: a Bearer comes before X-Api-Key.
Presented(c) ==
    IF TakesKeyHeader(c.path) THEN c.routerKey
    ELSE IF c.auth \in {"own", "key"} THEN c.auth ELSE c.apiKey

Admitted(c) ==
    \/ setup.via \in {"tcp", "relay"}
    \/ setup.via = "keyed" /\ Presented(c) = "key"

\* A path mounted for one method only falls to handleProxy with another.
Handler(c) ==
    IF \/ c.path \in {"api", "passthrough"}
       \/ c.path \in {"messages", "count", "audio", "load"} /\ c.method = "POST"
       \/ c.path = "models" /\ c.method = "GET"
    THEN c.path ELSE "proxy"

HasClientCredential(c) == c.auth # "none" \/ c.apiKey # "none"

Mapped(model) == setup.compat /\ model \in DOMAIN MapOf
Resolved(model) == IF Mapped(model) THEN MapOf[model] ELSE model
TargetsOf(model) == IF Resolved(model) \in DOMAIN Candidates THEN Candidates[Resolved(model)] ELSE <<>>
AllSpeak(model) == TargetsOf(model) # <<>> /\ Range(TargetsOf(model)) \subseteq Speakers
Single(model) == Resolved(model) \notin VirtualNames

\* A transcription goes to an endpoint's model and to nothing else.
AudioCode(model) == IF model \in EndpointTargets THEN 0 ELSE 400

\* The code a request is refused with before any upstream, 0 when it is not.
Refusal(c) ==
    LET handler == Handler(c) IN
    IF ~Admitted(c) THEN 401
    ELSE IF handler \in {"api", "messages", "count"} /\ ~setup.compat THEN 404
    ELSE IF /\ handler \in {"messages", "count"} /\ ~Mapped(c.model)
            /\ setup.via = "relay" /\ ~HasClientCredential(c) THEN 404
    ELSE IF handler = "proxy" \/ (handler = "messages" /\ Mapped(c.model))
         THEN IF Resolved(c.model) \notin DOMAIN Candidates THEN 400
              ELSE IF TargetsOf(c.model) = <<>> THEN 503 ELSE 0
    ELSE IF handler = "audio" THEN AudioCode(c.model) ELSE 0

\* A body that is too large, or that cannot be read or parsed, is refused when
\* the handler reads it, before its model is known.
UnreadCodes(c) ==
    IF Admitted(c) /\ (Handler(c) \in {"proxy", "audio"} \/ (Handler(c) \in {"messages", "count"} /\ setup.compat))
    THEN {400, 413} ELSE {}

\* A backend that speaks Anthropic is asked for the count, but for a virtual
\* model, whose count is the estimate.
CountedBy(model) == IF AllSpeak(model) /\ Single(model) THEN "probe" ELSE "none"

\* How a handler serves, but for the Anthropic routes with an id of the map.
OwnMode == [models |-> "none", load |-> "none", proxy |-> "plain", audio |-> "audio",
            api |-> "passthrough", passthrough |-> "passthrough",
            messages |-> "passthrough", count |-> "passthrough"]

\* How a request that is not refused is served: "none" by the router itself.
ModeOf(c) ==
    LET handler == Handler(c) IN
    IF handler = "messages" /\ Mapped(c.model)
    THEN IF AllSpeak(c.model) THEN "native" ELSE "translated"
    ELSE IF handler = "count" /\ Mapped(c.model) THEN CountedBy(c.model)
    ELSE OwnMode[handler]

\* What the router answers of itself; a load or an unload may be of a model
\* that is not managed, or is not there.
OwnCodes(c) == IF Handler(c) = "load" THEN {200, 400, 502} ELSE {200}

UpstreamsOf(c) ==
    IF ModeOf(c) = "passthrough" THEN <<IF c.path = "passthrough" THEN "passthrough" ELSE "anthropic">>
    ELSE IF ModeOf(c) = "audio" THEN <<c.model>>
    ELSE TargetsOf(c.model)

Failover == mode \in {"plain", "native", "translated"} /\ ~Single(call.model)

-----------------------------------------------------------------------------
(***************************************************************************)
(* What an upstream is sent                                                *)
(***************************************************************************)
Related(f, g) == IsPrefix(f, g) \/ IsPrefix(g, f)

\* applyVirtualParams: a declared leaf is injected where the client has
\* neither it nor a value in its way.
Merged(fields, t) ==
    LET injected == {d \in Declared[t] : \A g \in DOMAIN fields : ~Related(d, g)}
    IN  [f \in DOMAIN fields \cup injected |-> IF f \in DOMAIN fields THEN fields[f] ELSE t]

TraceID == IF call.trace = "valid" THEN "client's" ELSE "fresh"
TraceTo(upstream) == IF upstream \in OnBox THEN TraceID ELSE "none"

Forwarded(upstream) ==
    [to |-> upstream, auth |-> call.auth, apiKey |-> call.apiKey, routerKey |-> "none",
     forged |-> TRUE, trace |-> TraceTo(upstream), model |-> call.model, fields |-> call.fields]

\* An endpoint and a native backend are sent the name they know the model
\* by, a managed server the name dispatch found it under.
ModelSent(t) == IF t \in EndpointTargets \/ mode \in {"native", "probe"} THEN t ELSE Resolved(call.model)

\* The native path gives the configured key under this name too.
KeySent(t) == IF t \in WithKey /\ mode \in {"native", "probe"} THEN "configured" ELSE "none"

\* Each attempt begins with the client's body; the native path has no params.
FieldsSent(t) == IF Failover /\ mode # "native" THEN Merged(call.fields, t) ELSE call.fields

Dispatched(t) ==
    [to |-> t,
     auth |-> IF t \in WithKey THEN "configured" ELSE "none",
     apiKey |-> KeySent(t), routerKey |-> "none", forged |-> FALSE, trace |-> TraceTo(t),
     model |-> ModelSent(t), fields |-> FieldsSent(t)]

-----------------------------------------------------------------------------
(***************************************************************************)
(* The handler                                                             *)
(***************************************************************************)
Record_Any(code) == recorded' = IF recorded = 0 THEN code ELSE recorded

\* traceResponseWriter: an informational status is not the answer.
Record(code) == recorded' = IF recorded = 0 /\ (code >= 200 \/ code = 101) THEN code ELSE recorded

\* The final header reaches the client with what the header map holds.
Answer(code, values, by) ==
    /\ reply' = [reply EXCEPT !.code = code, !.heading = values, !.by = by]
    /\ Record(code)

Arrive(c, code) ==
    /\ at = "idle"
    /\ call' = c
    /\ \/ /\ code \in UnreadCodes(c) \/ (Refusal(c) # 0 /\ code = Refusal(c))
          /\ Answer(code, <<>>, "router")
          /\ at' = "returned" /\ UNCHANGED <<mode, left>>
       \/ /\ Refusal(c) = 0 /\ ModeOf(c) = "none"
          /\ code \in OwnCodes(c)
          /\ Answer(code, <<>>, "router")
          /\ at' = "returned" /\ UNCHANGED <<mode, left>>
       \/ /\ Refusal(c) = 0 /\ ModeOf(c) # "none" /\ code = 200
          /\ mode' = ModeOf(c) /\ left' = UpstreamsOf(c) /\ at' = "attempt"
          /\ UNCHANGED <<reply, recorded>>
    /\ UNCHANGED <<setup, sent, heading, took, gone, line>>

HangUp ==
    /\ at \in {"attempt", "sent"} /\ Failover /\ ~gone
    /\ gone' = TRUE
    /\ UNCHANGED <<setup, call, at, mode, left, sent, heading, took, reply, recorded, line>>

\* The walk over a virtual model's candidates stops when the caller is gone.
Abandon ==
    /\ at = "attempt" /\ gone /\ Failover
    /\ at' = "returned"
    /\ IF mode = "translated" THEN Answer(502, heading, "router") ELSE UNCHANGED <<reply, recorded>>
    /\ UNCHANGED <<setup, call, mode, left, sent, heading, took, gone, line>>

Names(t) == IF mode \in {"plain", "native", "translated"} THEN <<t>> ELSE heading

Send ==
    /\ at = "attempt" /\ ~(gone /\ Failover)
    /\ heading' = Names(Head(left))
    /\ sent' = Append(sent, IF mode = "passthrough" THEN Forwarded(Head(left)) ELSE Dispatched(Head(left)))
    /\ at' = "sent"
    /\ UNCHANGED <<setup, call, mode, left, took, reply, recorded, gone, line>>

\* No header came: the next candidate, or the failure is the answer.  A
\* count falls back on the estimate.  What a writer took before the failure
\* (an informational status) decides what can still be said.
Fail(values) ==
    LET code == IF mode = "probe" \/ (took # 0 /\ mode = "translated") THEN 200
                ELSE IF Failover THEN 503 ELSE 502
    IN
    /\ IF Failover /\ took = 0 /\ Len(left) > 1
       THEN left' = Tail(left) /\ at' = "attempt" /\ UNCHANGED <<reply, recorded>>
       ELSE /\ at' = "returned" /\ UNCHANGED left
            /\ IF took # 0 /\ Failover /\ mode # "translated"
               THEN UNCHANGED <<reply, recorded>> ELSE Answer(code, values, "router")
    /\ heading' = values
    /\ UNCHANGED <<setup, call, mode, sent, took, gone, line>>

\* Acquire fails: routeManaged has not named the target yet, failover has.
NotAcquired ==
    /\ at = "attempt" /\ ~(gone /\ Failover)
    /\ mode # "passthrough" /\ Head(left) \notin EndpointTargets
    /\ Fail(IF Failover THEN Names(Head(left)) ELSE heading)

NoHeader == at = "sent" /\ Fail(heading)

\* An informational response.  The proxy copies the upstream's header into
\* the map, sends it and clears the map; the translating writer takes the
\* status for the final one; the probe passes it on and keeps its header.
Inform ==
    /\ at = "sent" /\ took = 0
    /\ took' = 103
    /\ IF mode = "translated" THEN UNCHANGED <<recorded, heading>>
       ELSE Record(103) /\ heading' = IF mode = "probe" THEN <<Head(left)>> ELSE <<>>
    /\ UNCHANGED <<setup, call, at, mode, left, sent, reply, gone, line>>

\* Of the upstream's own X-Relay-* headers a passthrough keeps them all.
Stripped(theirs) == IF theirs /\ mode = "passthrough" THEN <<"theirs">> ELSE <<>>

\* The upstream's final header.  A count's 404 is swallowed, and the estimate
\* answers when the handler returns.
Respond(code, theirs) ==
    LET implied == took # 0 /\ mode \in {"translated", "probe"}
        values == IF mode = "probe" /\ took = 0 THEN <<Head(left)>> ELSE heading \o Stripped(theirs)
    IN
    /\ at = "sent"
    /\ took' = IF took = 0 THEN code ELSE took
    /\ IF mode = "probe" /\ took = 0 /\ code = 404 THEN UNCHANGED <<reply, recorded>>
       ELSE Answer(IF implied THEN 200 ELSE code, values, Head(left))
    /\ heading' = reply'.heading
    /\ at' = "streaming"
    /\ UNCHANGED <<setup, call, mode, left, sent, gone, line>>

\* A WebSocket of a passthrough: the connection is hijacked.
Upgrade ==
    /\ at = "sent" /\ mode = "passthrough" /\ call.path = "passthrough" /\ call.method = "GET" /\ took = 0
    /\ reply' = [reply EXCEPT !.code = 101, !.by = Head(left)]
    /\ Record(101)
    /\ at' = "streaming"
    /\ UNCHANGED <<setup, call, mode, left, sent, heading, took, gone, line>>

\* The body ends, or breaks: the proxy panics with ErrAbortHandler.
Body(whole) ==
    /\ at = "streaming"
    /\ reply' = [reply EXCEPT !.cut = ~whole]
    /\ at' = "returned"
    /\ UNCHANGED <<setup, call, mode, left, sent, heading, took, recorded, gone, line>>

-----------------------------------------------------------------------------
(***************************************************************************)
(* The handler has returned.  net/http answers 200 for one that wrote      *)
(* nothing; logModelRequest writes the line.                               *)
(***************************************************************************)
Quiet == call.path = "models" /\ call.method = "GET"

Line(code, aborted) ==
    [status |-> IF aborted THEN "aborted" ELSE IF code < 400 THEN "ok"
                ELSE IF code \in Denied THEN "denied" ELSE "error",
     code |-> code, named |-> heading]

Return ==
    LET code == IF recorded = 0 THEN 200 ELSE recorded IN
    /\ at = "returned"
    /\ reply' = IF reply.code = 0 THEN [reply EXCEPT !.code = 200, !.heading = heading] ELSE reply
    /\ line' = IF ~reply.cut /\ code < 400 /\ Quiet THEN line
               ELSE Append(line, Line(code, reply.cut))
    /\ at' = "done"
    /\ UNCHANGED <<setup, call, mode, left, sent, heading, took, recorded, gone>>

FrontNext ==
    \/ \E c \in Calls, code \in Codes : Arrive(c, code)
    \/ HangUp \/ Abandon \/ Send \/ NotAcquired \/ NoHeader \/ Inform \/ Upgrade \/ Return
    \/ \E code \in {200, 401, 403, 404, 500}, theirs \in BOOLEAN : Respond(code, theirs)
    \/ \E whole \in BOOLEAN : Body(whole)

FrontSpec == FrontInit /\ [][FrontNext]_frontVars

-----------------------------------------------------------------------------
(***************************************************************************)
(* What an upstream sees.  The credential that let a request in reaches no *)
(* upstream, under any header it could have come by (auth.go:45); one of   *)
(* the router's own targets never sees the client's credentials or its     *)
(* X-Relay-* headers; a provider gets the client's credentials as they     *)
(* are, and from the socket of relay no model's request without one        *)
(* (router_socket.go:22); a trace ID stays on this machine.  The body is   *)
(* the client's: its leaves are kept, and what is added are params of the  *)
(* very target it is sent to, whichever was tried before                   *)
(* (router_virtual.go:361).                                                *)
(***************************************************************************)
LetInBy == IF TakesKeyHeader(call.path) THEN "routerKey"
           ELSE IF call.auth \in {"own", "key"} THEN "auth" ELSE "apiKey"

SeesNoSecret(s) ==
    /\ setup.via = "keyed" => s.routerKey # "key" /\ s[LetInBy] # "key"
    /\ s.to \in Targets => {s.auth, s.apiKey} \subseteq {"none", "configured"} /\ ~s.forged
    /\ s.to \in Passthroughs => s.auth = call.auth /\ s.apiKey = call.apiKey
    /\ setup.via = "relay" /\ Handler(call) \in {"messages", "count"} /\ s.to = "anthropic"
           => s.auth # "none" \/ s.apiKey # "none"
    /\ s.to \notin OnBox => s.trace = "none"

BodyIsTheClients(s) ==
    /\ \A f \in DOMAIN call.fields : f \in DOMAIN s.fields /\ s.fields[f] = "client"
    /\ \A f \in DOMAIN s.fields \ DOMAIN call.fields :
          /\ s.fields[f] = s.to /\ f \in Declared[s.to]
          /\ \A g \in DOMAIN call.fields : ~Related(f, g)
    /\ s.to \in EndpointTargets => s.model = s.to

UpstreamSees == \A i \in DOMAIN sent : SeesNoSecret(sent[i]) /\ BodyIsTheClients(sent[i])

(***************************************************************************)
(* X-Relay-Model-Target on an answer has one value at most, never the      *)
(* upstream's own but on a passthrough, and names the target that          *)
(* answered: newUpstreamProxy strips the upstream's "by construction       *)
(* rather than by hoping" (router.go:607).  It is missing only where an    *)
(* informational response wiped it.  An error of the router's own names a  *)
(* target of the model or nothing.                                         *)
(***************************************************************************)
TargetHonest ==
    at = "done" =>
        /\ Len(reply.heading) <= 1
        /\ mode # "passthrough" => Range(reply.heading) \subseteq Range(TargetsOf(call.model))
        /\ reply.by \in Targets /\ mode # "audio" =>
               \/ reply.heading = <<reply.by>>
               \/ reply.heading = <<>> /\ took = 103

(***************************************************************************)
(* A request leaves one model.request line, unless it is a quiet path      *)
(* answered well, and the line says what the client was answered: the      *)
(* code, the target its header named, "aborted" when it was cut off, and   *)
(* "denied" for a 401 or a 403 (logModelRequest, router.go:826).           *)
(***************************************************************************)
LineTellsOutcome ==
    at = "done" =>
        /\ Len(line) = IF Quiet /\ ~reply.cut /\ reply.code < 400 THEN 0 ELSE 1
        /\ \A i \in DOMAIN line :
              /\ line[i].status = "aborted" <=> reply.cut
              /\ line[i].named = reply.heading
              /\ ~reply.cut => /\ line[i].code = reply.code
                               /\ line[i].status = "denied" <=> reply.code \in {401, 403}

(***************************************************************************)
(* What the router tells of an answer, in its header and in its log, is    *)
(* what happened.                                                          *)
(***************************************************************************)
OutcomeTold == TargetHonest /\ LineTellsOutcome
=============================================================================
