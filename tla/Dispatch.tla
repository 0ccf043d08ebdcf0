----------------------------- MODULE Dispatch -----------------------------
(***************************************************************************)
(* How the router decides who serves a model id, and what it says it       *)
(* serves: handleProxy (router.go), the Anthropic routes                   *)
(* (router_anthropic.go, router_anthropic_native.go) and the catalog of    *)
(* /v1/models (router_models.go).  The configuration is fixed at startup;  *)
(* which endpoints the registry believes online changes between any two    *)
(* reads of it.  A model id is a sequence of parts, written with "/"       *)
(* between them.                                                           *)
(***************************************************************************)
EXTENDS Naturals, Sequences, FiniteSets, SequencesExt, Selection

CONSTANTS
    Configs     \* the configurations the router may be started with

ASSUME DispatchAssumption ==
    \A c \in Configs :
        /\ Len(c.managers) \in Nat /\ DOMAIN c.managers = 1 .. Len(c.managers)
        /\ Len(c.virtuals) \in Nat /\ DOMAIN c.virtuals = 1 .. Len(c.virtuals)
        /\ \A v \in DOMAIN c.virtuals :
               c.virtuals[v].targets \in Seq(Range(c.virtuals[v].targets))
        /\ Len(c.endpoints) \in Nat /\ DOMAIN c.endpoints = 1 .. Len(c.endpoints)
        /\ \A e \in DOMAIN c.endpoints :
               /\ c.endpoints[e].name \in Seq(Range(c.endpoints[e].name))
               /\ \A k \in Range(c.endpoints[e].models) : k \in Seq(Range(k))
        /\ \A key \in DOMAIN c.modelMap : c.modelMap[key] \in Seq(Range(c.modelMap[key]))

(***************************************************************************)
(* A configuration: the managers in priority order (their aliases, and     *)
(* whether they speak Anthropic), the virtual models with their targets    *)
(* (an endpoint and its model, or an alias), the endpoints with the models *)
(* they advertise, and router.anthropic.modelMap.                          *)
(***************************************************************************)
VARIABLES
    config,     \* the configuration
    online,     \* the endpoints (by position) the registry believes online
    req,        \* one Anthropic request
    dialects    \* the dialect each mapped id was served in so far (history)

vars == <<config, online, req, dialects>>

Managers == config.managers
Virtuals == config.virtuals
Endpoints == config.endpoints
ModelMap == config.modelMap
Ids == DOMAIN ModelMap \cup {Virtuals[v].name : v \in DOMAIN Virtuals}
           \cup (UNION {Range(Managers[m].aliases) : m \in DOMAIN Managers})
           \cup (UNION {{Endpoints[e].name \o k : k \in Range(Endpoints[e].models)} : e \in DOMAIN Endpoints})

\* A route: the branch of handleProxy, and who serves (a position and a name).
Route(kind, at, name) == [kind |-> kind, at |-> at, name |-> name]
Nowhere(kind) == Route(kind, 0, <<>>)
Served == {"managed", "virtual", "endpoint"}

Idle == [at |-> "idle", id |-> <<>>, target |-> <<>>, route |-> Nowhere("none"),
         native |-> FALSE, due |-> Nowhere("none")]

TypeOK ==
    /\ config \in Configs
    /\ online \subseteq DOMAIN Endpoints
    /\ req.at \in {"idle", "resolve", "translate", "done"}
    /\ req.id \in Ids \cup {<<>>}
    /\ req.target \in Range(ModelMap) \cup {<<>>}
    /\ {req.route.kind, req.due.kind} \subseteq
           Served \cup {"none", "unusable", "unknown", "estimate", "upstream", "refused"}
    /\ req.native \in BOOLEAN
    /\ dialects \subseteq [id : DOMAIN ModelMap, native : BOOLEAN]

Init ==
    /\ config \in Configs
    /\ online \in SUBSET DOMAIN Endpoints
    /\ req = Idle /\ dialects = {}

-----------------------------------------------------------------------------
(***************************************************************************)
(* Resolution                                                              *)
(***************************************************************************)
\* The first manager with the alias.
ManagerOf(id) == SelectInSeq(Managers, LAMBDA m : id \in Range(m.aliases))
VirtualOf(id) == SelectInSeq(Virtuals, LAMBDA v : v.name = id)
EndpointNamed(name) == SelectInSeq(Endpoints, LAMBDA e : e.name = name)

\* LookupModel: what is before the first "/" names the endpoint, which must be online.
LookupModel(id, on) == IF Len(id) < 2 THEN 0
                       ELSE LET e == EndpointNamed(<<Head(id)>>) IN IF e \in on THEN e ELSE 0

\* The candidates of a virtual model: an alias some manager has, an endpoint
\* that is configured; those believed usable come first.
Exists(t) == IF t.endpoint # <<>> THEN EndpointNamed(t.endpoint) # 0 ELSE ManagerOf(t.model) # 0
Fresh(t, on) == Exists(t) /\ (t.endpoint # <<>> => EndpointNamed(t.endpoint) \in on)
CandidatesForVirtual(v, on) ==
    LET targets == Virtuals[v].targets
        fresh == {t \in Range(targets) : Fresh(t, on)}
        stale == {t \in Range(targets) : Exists(t) /\ ~Fresh(t, on)}
    IN  Only(targets, fresh) \o Only(targets, stale)

\* Managed alias, virtual model, endpoint: the order of every route.
ResolveName_VirtualLast(name, on) ==
    IF ManagerOf(name) # 0 THEN Route("managed", ManagerOf(name), name)
    ELSE IF LookupModel(name, on) # 0 THEN Route("endpoint", LookupModel(name, on), Tail(name))
    ELSE IF VirtualOf(name) # 0
         THEN IF CandidatesForVirtual(VirtualOf(name), on) = <<>> THEN Nowhere("unusable")
              ELSE Route("virtual", VirtualOf(name), name)
    ELSE Nowhere("unknown")

ResolveName(name, on) ==
    IF ManagerOf(name) # 0 THEN Route("managed", ManagerOf(name), name)
    ELSE IF VirtualOf(name) # 0
         THEN IF CandidatesForVirtual(VirtualOf(name), on) = <<>> THEN Nowhere("unusable")
              ELSE Route("virtual", VirtualOf(name), name)
    ELSE IF LookupModel(name, on) # 0 THEN Route("endpoint", LookupModel(name, on), Tail(name))
    ELSE Nowhere("unknown")

\* handleProxy: a key of the model map stands for its target.
HandleProxy(id, on) ==
    ResolveName(IF id \in DOMAIN ModelMap THEN ModelMap[id] ELSE id, on)

\* resolveAnthropicNative walks the same order by itself, and declines what
\* does not speak the dialect: a virtual model unless every candidate does.
ResolveNative_VirtualLast(name, on) == ResolveName_VirtualLast(name, on)

ResolveNative(name, on) ==
    IF ManagerOf(name) # 0 THEN Route("managed", ManagerOf(name), name)
    ELSE IF VirtualOf(name) # 0
         THEN IF CandidatesForVirtual(VirtualOf(name), on) = <<>> THEN Nowhere("unusable")
              ELSE Route("virtual", VirtualOf(name), name)
    ELSE IF LookupModel(name, on) # 0 THEN Route("endpoint", LookupModel(name, on), Tail(name))
    ELSE Nowhere("unknown")

SpeaksAnthropic(t) == IF t.endpoint # <<>> THEN Endpoints[EndpointNamed(t.endpoint)].anthropic
                      ELSE Managers[ManagerOf(t.model)].anthropic

Native(route, on) ==
    \/ route.kind = "managed" /\ Managers[route.at].anthropic
    \/ route.kind = "endpoint" /\ Endpoints[route.at].anthropic
    \/ route.kind = "virtual"
           /\ \A t \in Range(CandidatesForVirtual(route.at, on)) : SpeaksAnthropic(t)

-----------------------------------------------------------------------------
(***************************************************************************)
(* The Anthropic routes                                                    *)
(***************************************************************************)
\* The registry probes: what it believes changes.
Probe(on) ==
    /\ on # online
    /\ online' = on
    /\ UNCHANGED <<config, req, dialects>>

\* An id outside the map goes to Anthropic, but not from the socket of relay
\* without a credential.  Both routes, on both transports.
Upstream(id, allowed) ==
    /\ req.at = "idle" /\ id \notin DOMAIN ModelMap
    /\ req' = [Idle EXCEPT !.at = "done", !.id = id,
                           !.route = Nowhere(IF allowed THEN "upstream" ELSE "refused")]
    /\ UNCHANGED <<config, online, dialects>>

\* /v1/messages with an id of the map.
Messages(id) ==
    /\ req.at = "idle" /\ id \in DOMAIN ModelMap
    /\ req' = [Idle EXCEPT !.at = "resolve", !.id = id, !.target = ModelMap[id]]
    /\ UNCHANGED <<config, online, dialects>>

\* /v1/messages/count_tokens: a native backend that is not a virtual model
\* counts, unless it fails or has no such route; the rest is an estimate.
CountTokens(id, answers) ==
    LET route == ResolveNative(ModelMap[id], online) IN
    /\ req.at = "idle" /\ id \in DOMAIN ModelMap
    /\ req' = [Idle EXCEPT !.at = "done", !.id = id, !.target = ModelMap[id],
                   !.native = answers /\ Native(route, online) /\ route.kind # "virtual",
                   !.route = IF answers /\ Native(route, online) /\ route.kind # "virtual"
                             THEN route ELSE Nowhere("estimate")]
    /\ UNCHANGED <<config, online, dialects>>

Serve(route, native) ==
    /\ req' = [req EXCEPT !.at = "done", !.route = route, !.native = native,
                          !.due = HandleProxy(req.id, online)]
    /\ dialects' = IF route.kind \in Served
                   THEN dialects \cup {[id |-> req.id, native |-> native]} ELSE dialects

\* serveAnthropicNative resolves the target and serves it, or leaves it to
\* the translation, which resolves it again.  (The body is one both accept.)
ServeNative ==
    LET route == ResolveNative(req.target, online) IN
    /\ req.at = "resolve"
    /\ IF Native(route, online) THEN Serve(route, TRUE)
       ELSE req' = [req EXCEPT !.at = "translate"] /\ UNCHANGED dialects
    /\ UNCHANGED <<config, online>>

\* handleProxy is entered again with the target in the place of the id.
Translate ==
    /\ req.at = "translate"
    /\ Serve(HandleProxy(req.target, online), FALSE)
    /\ UNCHANGED <<config, online>>

NextTurn ==
    /\ req.at = "done"
    /\ req' = Idle
    /\ UNCHANGED <<config, online, dialects>>

Next ==
    \/ \E on \in SUBSET DOMAIN Endpoints : Probe(on)
    \/ \E id \in Ids : Messages(id)
    \/ \E id \in Ids, allowed \in BOOLEAN : Upstream(id, allowed)
    \/ \E id \in Ids, answers \in BOOLEAN : CountTokens(id, answers)
    \/ ServeNative \/ Translate \/ NextTurn

Spec == Init /\ [][Next]_vars

-----------------------------------------------------------------------------
(***************************************************************************)
(* The catalog: handleModels, on one snapshot of the registry.  A row has  *)
(* the id, the route it says serves it, and whether it says usable now.    *)
(***************************************************************************)
Row(id, route, usable) == [id |-> id, route |-> route, usable |-> usable]

ManagedRows ==
    UNION {{Row(alias, Route("managed", m, alias), TRUE) : alias \in Range(Managers[m].aliases)} :
           m \in DOMAIN Managers}

VirtualRows(on) ==
    {Row(Virtuals[v].name, Route("virtual", v, Virtuals[v].name),
         \E t \in Range(Virtuals[v].targets) : Fresh(t, on)) : v \in DOMAIN Virtuals}

EndpointRows(on) ==
    UNION {{Row(Endpoints[e].name \o k, Route("endpoint", e, k), TRUE) : k \in Range(Endpoints[e].models)} :
           e \in on}

\* A section adds the first row of each id that was not seen before.
Listed(seen, rows) ==
    seen \cup {r \in rows : /\ \A s \in seen : s.id # r.id
                            /\ \A s \in rows : s.id = r.id => r.route.at <= s.route.at}

Rows_EndpointsFirst(on) == Listed(Listed(Listed({}, ManagedRows), EndpointRows(on)), VirtualRows(on))

Rows(on) == Listed(Listed(Listed({}, ManagedRows), VirtualRows(on)), EndpointRows(on))

\* A key of the map is listed while its target is a row usable now.
KeyListed(key, on) == \E r \in Rows(on) : r.id = ModelMap[key] /\ r.usable

KeyRows(on) ==
    {Row(key, Nowhere("map"), TRUE) :
        key \in {k \in DOMAIN ModelMap : KeyListed(k, on) /\ \A r \in Rows(on) : r.id # k}}

Catalog(on) == Rows(on) \cup KeyRows(on)

-----------------------------------------------------------------------------
(***************************************************************************)
(* The catalog tells the truth: "the row that survives here is the one     *)
(* that will actually serve a request for that id" (router_models.go:25),  *)
(* and a row that says usable names something that is served.              *)
(***************************************************************************)
RowServes ==
    \A r \in Catalog(online) :
        LET route == HandleProxy(r.id, online) IN
        /\ r.usable => route.kind \in Served
        /\ \/ r.route.kind = "map"
           \/ route = r.route
           \/ route.kind = "unusable" /\ ~r.usable

(***************************************************************************)
(* The catalog is honest: it tells the truth and it is complete.  An id    *)
(* that names a managed alias, a virtual model with a fresh target, a      *)
(* model of an online endpoint or a key that leads to one of these is      *)
(* listed, once, and as usable.  The catalog depends on the configuration  *)
(* and the registry alone, so it is looked at before the first request,    *)
(* under every belief of the registry.                                     *)
(***************************************************************************)
ServesNow(id) ==
    LET route == HandleProxy(id, online) IN
    /\ route.kind \in Served
    /\ route.kind = "virtual" => \E t \in Range(Virtuals[route.at].targets) : Fresh(t, online)
    /\ route.kind = "endpoint" => route.name \in Range(Endpoints[route.at].models)

AllListed ==
    \A id \in Ids : ServesNow(id) =>
        Cardinality({r \in Catalog(online) : r.id = id /\ r.usable}) = 1

CatalogHonest == req = Idle /\ dialects = {} => RowServes /\ AllListed

(***************************************************************************)
(* All the turns of a conversation on a virtual model speak one dialect,   *)
(* whatever the registry believes from turn to turn: "all-or-nothing keeps *)
(* each conversation on one dialect" (router_anthropic_native.go:62).      *)
(***************************************************************************)
VirtualKeepsDialect ==
    \A x, y \in dialects :
        x.id = y.id /\ ManagerOf(ModelMap[x.id]) = 0 /\ VirtualOf(ModelMap[x.id]) # 0
            => x.native = y.native

(***************************************************************************)
(* An Anthropic request for a mapped id is served by what serves the same  *)
(* id from an OpenAI client at that moment, translated or not: both have   *)
(* resolved the map once (router_models.go:184).                           *)
(***************************************************************************)
SameRoute == req.at = "done" /\ req.due.kind # "none" => req.route = req.due

(***************************************************************************)
(* The two resolvers and the two dialects agree on who serves a name.      *)
(***************************************************************************)
RoutedAlike == SameRoute /\ VirtualKeepsDialect

(***************************************************************************)
(* "A redirect target that declares api: ["anthropic"] skips the           *)
(* translation" (router_anthropic.go:11): one that is served is served     *)
(* natively.                                                               *)
(***************************************************************************)
DeclaredSkipsTranslation ==
    req.at = "done" /\ req.route.kind = "endpoint" /\ Endpoints[req.route.at].anthropic
        => req.native

=============================================================================
