--------------------------- MODULE ProxyRegistry ---------------------------
(***************************************************************************)
(* internal/registry/registry.go: the cache of which remote endpoints are  *)
(* reachable.  A call of LookupModel concerns one endpoint, a call of      *)
(* Snapshot all of them; for each of its endpoints the call has a task     *)
(* (for Snapshot a goroutine) that checks the cache and, when the entry is *)
(* stale, runs the probe or waits for the one in flight.                   *)
(*                                                                         *)
(* One action is one critical section of ProxyRegistry.mu or one wait that *)
(* ends, so what the code does between two of them (isFresh and probe, the *)
(* fetch and the store, delete from inflight and close) can interleave.    *)
(***************************************************************************)
EXTENDS Naturals, FiniteSets

CONSTANTS
    Callers,      \* goroutines that use the registry
    NumEndpoints, \* endpoints are numbered in the order of the configuration
    Reliable,     \* the endpoints that are up and answer all along
    TTL,          \* proxyRegistryTTL in ticks of the clock
    MaxNow,       \* bound on the clock
    None          \* no channel

Endpoints == 1 .. NumEndpoints

ASSUME ConstantsAssumption ==
    /\ NumEndpoints \in Nat /\ MaxNow \in Nat /\ TTL \in Nat \ {0}
    /\ Reliable \subseteq Endpoints
    /\ None \notin Callers

VARIABLES
    now,      \* the clock
    status,   \* r.status: the last result recorded for each endpoint
    inflight, \* r.inflight: the endpoints with a probe in flight
    task,     \* where each call stands with each of its endpoints
    call      \* each call: its endpoints, when it began, whether it was cancelled

vars == <<now, status, inflight, task, call>>

Tasks == Callers \X Endpoints

Labels == {"none", "check", "enter", "waiting", "fetching", "storing",
           "leaving", "closing", "done"}

Results == [known : BOOLEAN, online : BOOLEAN, checked : 0 .. MaxNow]

NoResult == [known |-> FALSE, online |-> FALSE, checked |-> 0]

At(label) == [pc |-> label, on |-> None, result |-> NoResult]

NoTask == At("none")

NoCall == [wants |-> {}, began |-> 0, over |-> FALSE]

TypeOK ==
    /\ now \in 0 .. MaxNow
    /\ status \in [Endpoints -> Results]
    /\ inflight \in SUBSET Endpoints
    /\ task \in [Tasks -> [pc : Labels, on : Callers \cup {None}, result : Results]]
    /\ call \in [Callers -> [wants : SUBSET Endpoints, began : 0 .. MaxNow,
                             over : BOOLEAN]]

Init ==
    /\ now = 0
    /\ status = [e \in Endpoints |-> NoResult]
    /\ inflight = {}
    /\ task = [t \in Tasks |-> NoTask]
    /\ call = [c \in Callers |-> NoCall]

-----------------------------------------------------------------------------
\* isFresh
Fresh(e) == status[e].known /\ now < status[e].checked + TTL

\* The task of call c for endpoint e goes on at `label'.
Goto(c, e, label) ==
    task' = [task EXCEPT ![<<c, e>>] = At(label)]

\* The same, with the result of its probe in hand.
Advance(c, e, label) ==
    task' = [task EXCEPT ![<<c, e>>] =
                [pc |-> label, on |-> None, result |-> task[<<c, e>>].result]]

\* LookupModel names one configured endpoint, Snapshot goes over all of them.
Begin(c, wants) ==
    /\ call[c].wants = {} /\ wants # {}
    /\ call' = [call EXCEPT ![c] = [wants |-> wants, began |-> now, over |-> FALSE]]
    /\ task' = [t \in Tasks |-> IF t[1] = c /\ t[2] \in wants
                                THEN At("check") ELSE task[t]]
    /\ UNCHANGED <<now, status, inflight>>

LookupModel(c, e) == Begin(c, {e})

Snapshot(c) == Begin(c, Endpoints)

\* isFresh, for the endpoints of the call in order; a stale one goes to probe.
Check(c, e) ==
    /\ task[<<c, e>>].pc = "check"
    /\ \A d \in Endpoints : d < e => task[<<c, d>>].pc # "check"
    /\ Goto(c, e, IF Fresh(e) THEN "done" ELSE "enter")
    /\ UNCHANGED <<now, status, inflight, call>>

\* The owner of the probe in flight for e: the caller whose channel r.inflight holds.
Owner(e) == CHOOSE c \in Callers : task[<<c, e>>].pc \in {"fetching", "storing", "leaving"}

\* A probe of e is in flight: wait on its channel.
Wait(c, e) ==
    /\ task[<<c, e>>].pc = "enter" /\ e \in inflight
    /\ task' = [task EXCEPT ![<<c, e>>] =
                   [pc |-> "waiting", on |-> Owner(e), result |-> NoResult]]
    /\ UNCHANGED <<now, status, inflight, call>>

\* None is: put a channel of our own into inflight and fetch.
Probe_NoFlight(c, e) ==
    /\ task[<<c, e>>].pc = "enter"
    /\ inflight' = inflight \cup {e}
    /\ Goto(c, e, "fetching")
    /\ UNCHANGED <<now, status, call>>

Probe(c, e) ==
    /\ task[<<c, e>>].pc = "enter" /\ e \notin inflight
    /\ inflight' = inflight \cup {e}
    /\ Goto(c, e, "fetching")
    /\ UNCHANGED <<now, status, call>>

\* A waiter whose own caller hung up leaves without a result.
GiveUp(c, e) ==
    /\ task[<<c, e>>].pc = "waiting" /\ call[c].over
    /\ Goto(c, e, "done")
    /\ UNCHANGED <<now, status, inflight, call>>

\* FetchOpenAIModels returns, with its own timeout and detached from the
\* caller's context: the models, or an error when e is down or slow.
Outcomes_CallerContext(c, e) ==
    IF call[c].over THEN {FALSE} ELSE IF e \in Reliable THEN {TRUE} ELSE BOOLEAN

Outcomes(c, e) == IF e \in Reliable THEN {TRUE} ELSE BOOLEAN

Fetched_OfflineUndated(c, e, ok) ==
    /\ task[<<c, e>>].pc = "fetching"
    /\ task' = [task EXCEPT ![<<c, e>>] =
           [pc |-> "storing", on |-> None,
            result |-> [known |-> TRUE, online |-> ok,
                        checked |-> IF ok THEN now ELSE 0]]]
    /\ UNCHANGED <<now, status, inflight, call>>

Fetched(c, e, ok) ==
    /\ task[<<c, e>>].pc = "fetching"
    /\ task' = [task EXCEPT ![<<c, e>>] =
           [pc |-> "storing", on |-> None,
            result |-> [known |-> TRUE, online |-> ok, checked |-> now]]]
    /\ UNCHANGED <<now, status, inflight, call>>

\* The result is recorded under the lock ...
Store(c, e) ==
    /\ task[<<c, e>>].pc = "storing"
    /\ status' = [status EXCEPT ![e] = task[<<c, e>>].result]
    /\ Advance(c, e, "leaving")
    /\ UNCHANGED <<now, inflight, call>>

\* ... the probe leaves inflight under another ...
Leave(c, e) ==
    /\ task[<<c, e>>].pc = "leaving"
    /\ inflight' = inflight \ {e}
    /\ Advance(c, e, "closing")
    /\ UNCHANGED <<now, status, call>>

\* ... and closing its channel lets those who waited on it go on.
Close_ForgetsWaiters(c, e) ==
    /\ task[<<c, e>>].pc = "closing"
    /\ Goto(c, e, "done")
    /\ UNCHANGED <<now, status, inflight, call>>

Close(c, e) ==
    /\ task[<<c, e>>].pc = "closing"
    /\ task' = [t \in Tasks |->
           IF t = <<c, e>> \/ (t[2] = e /\ task[t].pc = "waiting" /\ task[t].on = c)
           THEN At("done") ELSE task[t]]
    /\ UNCHANGED <<now, status, inflight, call>>

\* Every task of the call is done: it can read its answer from status.
Ready(c) == call[c].wants # {} /\ \A e \in call[c].wants : task[<<c, e>>].pc = "done"

Answer(c) ==
    /\ Ready(c)
    /\ call' = [call EXCEPT ![c] = NoCall]
    /\ task' = [t \in Tasks |-> IF t[1] = c THEN NoTask ELSE task[t]]
    /\ UNCHANGED <<now, status, inflight>>

\* The client of a call hangs up.
Cancel(c) ==
    /\ call[c].wants # {} /\ ~call[c].over
    /\ call' = [call EXCEPT ![c].over = TRUE]
    /\ UNCHANGED <<now, status, inflight, task>>

\* Time passes.  From reading LastChecked to closing its channel a probe only
\* runs two short critical sections: less than a TTL (15 s) goes by.
Tick ==
    /\ now < MaxNow
    /\ \A t \in Tasks : task[t].pc \in {"storing", "leaving", "closing"} =>
           now + 1 < task[t].result.checked + TTL
    /\ now' = now + 1
    /\ UNCHANGED <<status, inflight, task, call>>

TaskStep(c, e) ==
    \/ Check(c, e) \/ Wait(c, e) \/ Probe(c, e) \/ GiveUp(c, e)
    \/ \E ok \in Outcomes(c, e) : Fetched(c, e, ok)
    \/ Store(c, e) \/ Leave(c, e) \/ Close(c, e)

Next ==
    \/ \E c \in Callers, e \in Endpoints : LookupModel(c, e) \/ TaskStep(c, e)
    \/ \E c \in Callers : Snapshot(c) \/ Answer(c) \/ Cancel(c)
    \/ Tick

Spec == Init /\ [][Next]_vars

\* Goroutines run, and a fetch is bounded by modelsFetchTimeout: a call that can
\* move on, at one of its endpoints or to its answer, does.
CallStep(c) == Answer(c) \/ \E e \in Endpoints : TaskStep(c, e)

Fairness == \A c \in Callers : WF_vars(CallStep(c))

FairSpec == Spec /\ Fairness

-----------------------------------------------------------------------------
(***************************************************************************)
(* Properties.                                                             *)
(***************************************************************************)

\* The tasks that have a probe of e under way.
Probing(e) == {c \in Callers : task[<<c, e>>].pc \in {"fetching", "storing", "leaving"}}

\* Concurrent misses share one network round trip: never two probes of one
\* endpoint at a time, and inflight says exactly which endpoints have one.
SingleFlight ==
    \A e \in Endpoints :
        /\ e \in inflight <=> Probing(e) # {}
        /\ \A c, d \in Probing(e) : c = d

\* A call that nobody cancelled answers, for each of its endpoints, from an
\* entry that exists and that was still within the TTL when the call began: no
\* interleaving of probes lets it miss a configured endpoint or answer from
\* the very entry that sent it to probe.
FreshAnswer ==
    \A c \in Callers : Ready(c) /\ ~call[c].over =>
        \A e \in call[c].wants :
            status[e].known /\ call[c].began < status[e].checked + TTL

\* A caller that disconnects says nothing about the upstream: an endpoint that
\* was up all along is never recorded offline, which would hide its models for
\* a whole TTL.
NoPoison == \A e \in Reliable : status[e].known => status[e].online

\* What a caller is told is neither old nor another caller's doing.
AnswersSound == FreshAnswer /\ NoPoison

\* A recorded result is never replaced by an older one.
NeverOlder ==
    [][\A e \in Endpoints : status[e].known =>
           status'[e].known /\ status'[e].checked >= status[e].checked]_vars

\* Every call is answered: nobody waits on a channel that is never closed, and
\* calls cannot wait on each other.
AlwaysAnswers == \A c \in Callers : (call[c].wants # {}) ~> (call[c].wants = {})

\* "How long a probe result is trusted before the next inbound request triggers
\* a fresh probe": no probe starts while the entry is within the TTL.
ProbesOnlyStale ==
    [][\A e \in Endpoints : e \in inflight' \ inflight => ~Fresh(e)]_vars

\* The inductive invariant behind SingleFlight and NeverOlder.
Dated ==
    /\ \A e \in Endpoints : status[e].checked <= now
    /\ \A t \in Tasks : task[t].pc = "storing" =>
           /\ task[t].result.known /\ task[t].result.checked <= now
           /\ task[t].result.checked >= status[t[2]].checked

Spans == \A c \in Callers, e \in Endpoints :
             task[<<c, e>>].pc # "none" <=> e \in call[c].wants

IInv == TypeOK /\ SingleFlight /\ Dated /\ Spans
=============================================================================
