--------------------------- MODULE VirtualRouter ---------------------------
(***************************************************************************)
(* internal/router/router_virtual.go: a request for a virtual model walks  *)
(* its candidate targets, pinned one first, until one of them answers.     *)
(* The affinity store is VirtualAffinity, shared by all requests.          *)
(*                                                                         *)
(* The response of a target reaches the client through httputil's          *)
(* ReverseProxy and virtualResponseRecorder: informational (1xx) headers   *)
(* are forwarded through WriteHeader too and empty the header map, and a   *)
(* stream that breaks after its header panics with ErrAbortHandler, which  *)
(* skips everything after ServeHTTP but the deferred calls.                *)
(***************************************************************************)
EXTENDS VirtualAffinity, Sequences, Functions

CONSTANTS
    Requests,      \* concurrent requests, each a goroutine of handleProxy
    Virtuals,      \* the configured virtual models
    Declared,      \* Declared[v]: the targets of v in configuration order
    Endpoint,      \* Endpoint[t]: the endpoint of target t, None for an alias
    Conversations  \* prompt_cache_key or user; None when the request has neither

VARIABLE req       \* the requests; the store and the clock are VirtualAffinity's

vars == <<affinityVars, req>>

Endpoints == {Endpoint[t] : t \in Targets} \ {None}

ASSUME RouterAssumption ==
    /\ Declared \in [Virtuals -> Seq(Targets)]
    /\ Endpoint \in [Targets -> Endpoints \cup {None}]
    /\ Keys = Virtuals \X Conversations
    /\ None \notin Conversations \cup Virtuals

Labels == {"idle", "pinning", "walking", "attempting", "answering", "recording"}

Statuses == {None, "served", "serverError"}

\* tried, sent and due are history: the targets that failed, those whose bytes
\* reached the client, and the target that the store still remembers.
Requested == [pc : Labels, virtual : Virtuals \cup {None},
              conversation : Conversations \cup {None}, order : Seq(Targets),
              target : Targets \cup {None}, wrote : BOOLEAN, status : Statuses,
              header : Targets \cup {None}, over : BOOLEAN,
              tried : SUBSET Targets, sent : SUBSET Targets,
              due : Targets \cup {None}]

TypeOK == AffinityTypeOK /\ req \in [Requests -> Requested]

NoRequest == [pc |-> "idle", virtual |-> None, conversation |-> None,
              order |-> <<>>, target |-> None, wrote |-> FALSE, status |-> None,
              header |-> None, over |-> FALSE, tried |-> {}, sent |-> {},
              due |-> None]

Init == AffinityInit /\ req = [r \in Requests |-> NoRequest]

-----------------------------------------------------------------------------
Usable(t, online) == Endpoint[t] = None \/ Endpoint[t] \in online

\* CandidatesForVirtual: the targets believed usable, then the others, both as
\* declared.  One sequence fits.
Candidates_OnlineOnly(v, online) ==
    LET Fresh(t) == Usable(t, online) IN {SelectSeq(Declared[v], Fresh)}

Candidates(v, online) ==
    LET places == DOMAIN Declared[v]
        Fresh(i) == Usable(Declared[v][i], online)
        Before(i, j) == \/ Fresh(i) /\ ~Fresh(j)
                        \/ (Fresh(i) <=> Fresh(j)) /\ i < j
        InOrder(p) == \A i, j \in places : i < j => Before(p[i], p[j])
    IN  {[i \in places |-> Declared[v][p[i]]] : p \in {p \in Bijection(places, places) : InOrder(p)}}

\* applyAffinity: the pinned target moves to the front, if it is a candidate.
ApplyAffinity(order, pinned) ==
    LET at == {i \in DOMAIN order : order[i] = pinned}
        idx == CHOOSE i \in at : \A j \in at : i <= j
    IN  IF at = {} THEN order
        ELSE [i \in DOMAIN order |->
                 IF i = 1 THEN pinned ELSE order[IF i <= idx THEN i - 1 ELSE i]]

\* The key of the affinity store: the conversation under its virtual model.
Key(r) == <<req[r].virtual, req[r].conversation>>

Becomes(r, q) == req' = [req EXCEPT ![r] = q]
Finish(r) == Becomes(r, NoRequest)

\* handleProxy's virtual branch: a snapshot of the registry orders the
\* candidates.  What it believes of an endpoint may be stale either way.
Arrive(r, v, k, online) ==
    /\ req[r].pc = "idle"
    /\ \E order \in Candidates(v, online) :
           Becomes(r, [NoRequest EXCEPT !.pc = "pinning", !.virtual = v, !.conversation = k,
                                        !.order = order])
    /\ UNCHANGED affinityVars

\* The pin is looked up after the snapshot, which may have taken a probe.
Pin(r) ==
    LET keyed == req[r].conversation # None
        pinned == IF keyed THEN Lookup(Key(r)) ELSE None
        due == IF keyed /\ Remembered(Key(r)) THEN served[Key(r)].target ELSE None
    IN
    /\ req[r].pc = "pinning"
    /\ Becomes(r, [req[r] EXCEPT !.pc = "walking", !.order = ApplyAffinity(req[r].order, pinned),
                                 !.due = due])
    /\ UNCHANGED affinityVars

\* The caller's context is done before the next candidate: return at once.
Abandon(r) ==
    /\ req[r].pc = "walking" /\ req[r].order # <<>> /\ req[r].over
    /\ Finish(r)
    /\ UNCHANGED affinityVars

\* The next candidate is announced in X-Relay-Model-Target and attempted.
Attempt(r) ==
    LET t == Head(req[r].order) IN
    /\ req[r].pc = "walking" /\ req[r].order # <<>> /\ ~req[r].over
    /\ Becomes(r, [req[r] EXCEPT !.pc = "attempting", !.target = t, !.header = t, !.wrote = FALSE,
                                 !.order = Tail(req[r].order)])
    /\ UNCHANGED affinityVars

\* No candidate is left: 503 names them all.
AllFailed(r) ==
    /\ req[r].pc = "walking" /\ req[r].order = <<>>
    /\ Finish(r)
    /\ UNCHANGED affinityVars

\* The attempt fails: a lease or a request that could not be had, a dial or
\* round trip error, or the client's cancellation.  Nothing written means the
\* walk goes on; otherwise the handler returns.
Retries(r) == Becomes(r, [req[r] EXCEPT !.pc = "walking", !.tried = req[r].tried \cup {req[r].target}])

Fails_Retries(r) == req[r].pc = "attempting" /\ Retries(r) /\ UNCHANGED affinityVars

Fails(r) ==
    /\ req[r].pc = "attempting"
    /\ IF req[r].wrote THEN Finish(r) ELSE Retries(r)
    /\ UNCHANGED affinityVars

Sends(r) == req[r].sent \cup {req[r].target}

\* The target sends an informational header, 100 Continue for one: the
\* recorder notes a write and the header map is emptied.
Informs(r) ==
    /\ req[r].pc = "attempting"
    /\ Becomes(r, [req[r] EXCEPT !.wrote = TRUE, !.header = None, !.sent = Sends(r)])
    /\ UNCHANGED affinityVars

\* The target sends its response header, below 500 or not, and it is passed on.
Answers(r, status) ==
    /\ req[r].pc = "attempting"
    /\ Becomes(r, [req[r] EXCEPT !.pc = "answering", !.wrote = TRUE, !.order = <<>>,
                                 !.status = status, !.sent = Sends(r)])
    /\ UNCHANGED affinityVars

\* The body is copied to its end ...
Completes(r) ==
    /\ req[r].pc = "answering"
    /\ Becomes(r, [req[r] EXCEPT !.pc = "recording"])
    /\ UNCHANGED affinityVars

\* ... or breaks, on either side: the panic skips the pin.
Breaks(r) ==
    /\ req[r].pc = "answering"
    /\ Finish(r)
    /\ UNCHANGED affinityVars

\* routeVirtual pins what answered below 500.
Pinned(r) == req[r].conversation # None /\ req[r].status # "serverError"

Pins(r) ==
    /\ req[r].pc = "recording"
    /\ IF Pinned(r) THEN Record(Key(r), req[r].target) ELSE UNCHANGED affinityVars
    /\ Finish(r)

\* The client disconnects.
Cancel(r) ==
    /\ req[r].pc # "idle" /\ ~req[r].over
    /\ Becomes(r, [req[r] EXCEPT !.over = TRUE])
    /\ UNCHANGED affinityVars

Tick == AffinityTick /\ UNCHANGED req

Step(r) ==
    \/ Pin(r) \/ Abandon(r) \/ Attempt(r) \/ AllFailed(r) \/ Fails(r) \/ Informs(r)
    \/ \E status \in Statuses \ {None} : Answers(r, status)
    \/ Completes(r) \/ Breaks(r) \/ Pins(r)

Next ==
    \/ \E r \in Requests : Step(r) \/ Cancel(r)
    \/ \E r \in Requests, v \in Virtuals, k \in Conversations \cup {None},
          online \in SUBSET Endpoints : Arrive(r, v, k, online)
    \/ Tick

Spec == Init /\ [][Next]_vars

-----------------------------------------------------------------------------
(***************************************************************************)
(* Properties.                                                             *)
(***************************************************************************)

DeclaredTargets(v) == {Declared[v][i] : i \in DOMAIN Declared[v]}
Left(q) == {q.order[i] : i \in DOMAIN q.order}

\* Failover never splices two responses: the bytes of at most one target reach
\* the client of a request.
OneTargetAnswers == \A r \in Requests : Cardinality(req[r].sent) <= 1

\* A conversation that some target serves is not moved: a request that finds it
\* within the TTL, and not pushed out by the cap, is answered by that target
\* unless the target has failed in this very request.  What the registry
\* believes, and other conversations or virtual models, have no say in it.
NoSwitch ==
    \A r \in Requests :
        req[r].pc \in {"answering", "recording"} /\ req[r].due # None =>
            req[r].target = req[r].due \/ req[r].due \in req[r].tried

\* A request is served by one target, and by its conversation's own.
ServedByOne == OneTargetAnswers /\ NoSwitch

\* "Only fails (503) when every target genuinely fails": the registry's belief
\* that an endpoint is offline never keeps a target from being tried.
FailsAfterAll ==
    [][\A r \in Requests : AllFailed(r) =>
           req[r].tried = DeclaredTargets(req[r].virtual)]_vars

\* "Once a target has answered, the router pins the conversation to it": when a
\* request that was answered below 500 ends, its conversation is pinned.
AnsweredIsPinned ==
    [][\A r \in Requests :
           /\ req[r].pc \in {"answering", "recording"} /\ req'[r].pc = "idle"
           /\ req[r].conversation # None /\ req[r].status # "serverError"
           => Lookup(Key(r))' = req[r].target]_vars

\* X-Relay-Model-Target names the target that answered.
HeaderNamesTarget ==
    \A r \in Requests : req[r].pc = "answering" => req[r].header = req[r].target

\* A request whose client is still there never ends with neither an answer nor
\* an error written: net/http would send an empty 200 for it.
NeverSilent ==
    [][\A r \in Requests :
           Fails(r) /\ req'[r].pc = "idle" => req[r].over]_vars

\* The inductive invariant.  What can still be tried is what was not: of the
\* virtual model's targets each has failed, is being attempted or is to come.
\* A due target that has not failed is the next to be tried, or being tried.
Walked(q) ==
    /\ q.pc # "idle" => q.virtual \in Virtuals
    /\ q.pc \in {"idle", "pinning", "walking"} => q.sent = {}
    /\ q.pc \in {"idle", "pinning"} => q.tried = {} /\ q.due = None
    /\ q.pc \in {"pinning", "walking"} => DeclaredTargets(q.virtual) = q.tried \cup Left(q)
    /\ q.pc = "attempting" =>
           /\ DeclaredTargets(q.virtual) = q.tried \cup {q.target} \cup Left(q)
           /\ q.sent \subseteq {q.target} /\ (~q.wrote => q.sent = {})
    /\ q.pc \in {"attempting", "answering", "recording"} =>
           q.target \in DeclaredTargets(q.virtual) /\ q.sent \subseteq {q.target}
    /\ q.due # None /\ q.due \notin q.tried =>
           /\ q.pc = "walking" => q.order # <<>> /\ Head(q.order) = q.due
           /\ q.pc \in {"attempting", "answering", "recording"} => q.target = q.due

\* The store holds targets of the virtual model whose conversation it pins.
PinsAreDeclared == \A k \in DOMAIN served : served[k].target \in DeclaredTargets(k[1])

WalkInv ==
    /\ AffinityInv /\ PinsAreDeclared
    /\ req \in [Requests -> Requested] /\ \A r \in Requests : Walked(req[r])
=============================================================================
