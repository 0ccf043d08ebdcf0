----------------------------- MODULE MCRouter -----------------------------
(***************************************************************************)
(* Small instances of Dispatch and of RouterFront, for one run: a          *)
(* behaviour is one of theirs, and the other stays where it began.  For    *)
(* Dispatch, sets of configurations of two managers, one or two virtual    *)
(* models, two endpoints and a model map of one or two keys; for           *)
(* RouterFront, one configuration and a request of every kind.             *)
(***************************************************************************)
EXTENDS Dispatch, RouterFront

VARIABLE part

\* Where Dispatch stays while the front runs.
Parked ==
    /\ config = CHOOSE c \in Configs : TRUE
    /\ online = {} /\ req = [Idle EXCEPT !.at = "done"] /\ dialects = {}

MCInit ==
    /\ part \in {"dispatch", "front"}
    /\ IF part = "dispatch" THEN Init ELSE Parked
    /\ FrontInit /\ (part = "front" \/ setup = [via |-> "tcp", compat |-> FALSE])

MCNext ==
    /\ UNCHANGED part
    /\ \/ part = "dispatch" /\ Next /\ UNCHANGED frontVars
       \/ part = "front" /\ FrontNext /\ UNCHANGED vars

MCSpec == MCInit /\ [][MCNext]_<<vars, frontVars, part>>

-----------------------------------------------------------------------------
(***************************************************************************)
(* Dispatch                                                                *)
(***************************************************************************)

A == <<"a">>
B == <<"b">>
V == <<"v">>
E == <<"e">>
F == <<"f">>
EM == <<"e", "m">>
FM == <<"f", "m">>
K == <<"k">>
L == <<"l">>

Target(endpoint, model) == [endpoint |-> endpoint, model |-> model]
Manager(aliases, anthropic) == [aliases |-> aliases, anthropic |-> anthropic]
Virtual(name, targets) == [name |-> name, targets |-> targets]
Endpoint(name, anthropic) == [name |-> name, anthropic |-> anthropic, models |-> <<<<"m">>>>]

\* An alias of both managers, one of the second, and none.
SomeManagers == {<<Manager(<<A>>, a), Manager(x, TRUE)>> :
                     a \in BOOLEAN, x \in {<<>>, <<B>>, <<A, B>>}}

SomeTargets == {<<Target(E, <<"m">>), Target(F, <<"m">>)>>, <<Target(F, <<"m">>), Target(<<>>, B)>>,
                <<Target(E, <<"m">>)>>, <<Target(<<"x">>, <<"m">>)>>}

\* A virtual model of its own name, one named as an alias, one as an endpoint's model.
SomeVirtuals == {<<Virtual(n, t)>> : n \in {V, B, EM}, t \in SomeTargets}
SomeEndpoints == {<<Endpoint(E, a), Endpoint(F, TRUE)>> : a \in BOOLEAN}

Config(m, v, e, map) == [managers |-> m, virtuals |-> v, endpoints |-> e, modelMap |-> map]
Map1(t) == [k \in {K} |-> t]
Map2(t, u) == [k \in {K, L} |-> IF k = K THEN t ELSE u]

\* No key of the map is the id of something else or the target of a key.
SomeConfigs ==
    {Config(m, v, e, map) : m \in SomeManagers, v \in SomeVirtuals, e \in SomeEndpoints,
        map \in {Map2(V, EM), Map2(B, V), Map2(EM, FM), Map2(A, FM), Map1(<<"x", "m">>)}}

\* A key whose target is a key.
ChainConfigs == {Config(<<Manager(<<A>>, FALSE)>>, <<>>, <<>>, [k \in {K, L} |-> IF k = K THEN L ELSE A])}

\* A key that is also an alias.
ShadowConfigs == {Config(<<Manager(<<A, B>>, FALSE)>>, <<>>, <<>>, [k \in {A} |-> B])}

\* An endpoint with a "/" in its name.
SlashConfigs == {Config(<<>>, <<>>, <<Endpoint(<<"e", "x">>, FALSE)>>, Map1(A))}

-----------------------------------------------------------------------------
(***************************************************************************)
(* RouterFront: a managed model m, the models of two endpoints (e, with a  *)
(* key, and f, on this machine, speak Anthropic), the virtual models v     *)
(* (e then m), w (f then e), y (m then e) and u (nobody), and a model map. *)
(***************************************************************************)
TheTargets == {"m", "e", "f"}
TheEndpoints == {"e", "f"}
OnThisBox == {"m", "f", "passthrough"}
KeyHolders == {"e"}
AnthropicSpeakers == {"e", "f"}

Params(t) == CASE t = "e" -> {<<"a">>, <<"o", "x">>, <<"o", "y">>}
               [] t = "f" -> {<<"b">>}
               [] OTHER -> {}
DeclaredParams == [t \in TheTargets |-> Params(t)]

Cands(x) == CASE x = "v" -> <<"e", "m">> [] x = "w" -> <<"f", "e">> [] x = "y" -> <<"m", "e">> [] x = "u" -> <<>> [] OTHER -> <<x>>
TheCandidates == [x \in {"m", "e", "f", "v", "w", "y", "u"} |-> Cands(x)]
TheVirtuals == {"v", "w", "y", "u"}

\* The last target is of nobody.
Mapping == <<<<"k", "v">>, <<"l", "w">>, <<"n", "e">>, <<"p", "m">>, <<"q", "x">>>>
TheMap == [k \in {pair[1] : pair \in Range(Mapping)} |-> (CHOOSE pair \in Range(Mapping) : pair[1] = k)[2]]

\* The paths and methods with the models that tell something apart there.
Requests ==
    {<<"api", "GET">>, <<"passthrough", "GET">>, <<"messages", "GET">>,
     <<"models", "GET">>, <<"load", "POST">>} \X {"m"}
    \cup {<<"messages", "POST">>, <<"count", "POST">>} \X {"z", "k", "l", "n", "p", "q"}
    \cup {<<"chat", "POST">>} \X {"z", "m", "e", "v", "w", "y", "u", "k"}
    \cup {<<"audio", "POST">>} \X {"m", "e", "k"}

\* Authorization, X-Api-Key and X-Relay-Router-Key.
Credentials ==
    {<<"none", "none", "none">>, <<"own", "none", "none">>, <<"own", "none", "key">>,
     <<"key", "none", "none">>, <<"key", "own", "none">>, <<"basic", "key", "none">>,
     <<"none", "own", "key">>, <<"none", "key", "bad">>, <<"own", "key", "none">>}

Call(request, creds, fields) ==
    [path |-> request[1][1], method |-> request[1][2], model |-> request[2],
     auth |-> creds[1], apiKey |-> creds[2], routerKey |-> creds[3],
     trace |-> IF creds[3] = "none" THEN "valid" ELSE "bad",
     fields |-> [f \in fields |-> "client"]]

TheCalls ==
    {Call(r, c, {}) : r \in Requests, c \in Credentials}
    \cup {Call(<<<<"chat", "POST">>, x>>, <<"key", "none", "none">>, fields) :
             x \in {"v", "w"}, fields \in {{<<"a">>, <<"o", "x">>}, {<<"o">>}}}
=============================================================================
