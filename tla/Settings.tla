------------------------------ MODULE Settings ------------------------------
(***************************************************************************)
(* The configuration the program starts with (internal/config): which of   *)
(* settings.json, the --openai-config file, openai_endpoints.json,         *)
(* llama_models.json and the environment it comes from, what makes a load  *)
(* fail, and what the transports built for an endpoint will connect to     *)
(* afterwards.  The CA file of an endpoint is read four times in a load    *)
(* and may be rewritten between any two.                                   *)
(***************************************************************************)
EXTENDS Naturals, Sequences, FiniteSets, SequencesExt

CONSTANTS
    Disks,          \* the files, the environment and the flag a load may find
    Peers,          \* who may answer a connection
    MaxRewrites     \* bound: rewrites of the CA file

(***************************************************************************)
(* A file: is it "absent", "unreadable", "malformed" or "ok".  An          *)
(* endpoint: the scheme of its URL, whether its host is this machine,      *)
(* whether it has a caFile, its pins (the leaf each names, and whether it  *)
(* is a SHA-256 digest once colons and case are gone), whether its api     *)
(* list is known.  A section of managed models: the same of its api list,  *)
(* idleTimeoutMinutes (is the key "absent", "null" or a "number", which),  *)
(* modelDir, and its models (whether each has an alias, whether its path   *)
(* is absolute).                                                           *)
(***************************************************************************)
VARIABLES
    disk,       \* what the load finds
    caFile,     \* what the CA file holds: an authority, "empty" or "unreadable"
    held,       \* all it has held (history)
    rewrites,   \* how often it was rewritten
    loading,    \* where LoadConfig is
    todo,       \* endpoints not prepared yet, with what follows them
    building,   \* the endpoint being prepared: what each read of the CA file gave
    policy,     \* allowPlaintextEndpoints, where it is read
    endpoints,  \* the endpoints loaded
    models,     \* the models loaded, and the idle timeout of each section
    reached     \* the last connection made: of which endpoint, by which of its
                \* transports, to where, and whether a redirect led there (history)

settingsVars == <<disk, caFile, held, rewrites, loading, todo, building, policy, endpoints, models, reached>>

\* Endpoints come in a sequence, there is a file of the flag only with the flag,
\* and an idle timeout that is no number decodes to 0.
ASSUME SettingsAssumption ==
    \A d \in Disks :
        /\ \A file \in {d.settings, d.override, d.endpoints} : file.is = "ok" => file.eps \in Seq(Range(file.eps))
        /\ d.environment \in Seq(Range(d.environment))
        /\ d.flag \/ d.override.is = "absent"
        /\ d.settings.is = "ok" => \A k \in DOMAIN d.settings.sections :
               LET idle == d.settings.sections[k].idle IN idle.key = "number" \/ idle.minutes = 0
        /\ d.llama.is = "ok" => LET idle == d.llama.section.idle IN idle.key = "number" \/ idle.minutes = 0

Authorities == {"own", "other"}
Contents == Authorities \cup {"empty", "unreadable"}
Transports == <<"default", "virtual", "probe">>
Sections == {"llama-server", "mlx-serve", "splash-serve"}
Stops == {"loaded", "failed"}

SettingsTypeOK ==
    /\ disk \in Disks /\ caFile \in Contents /\ held \subseteq Contents
    /\ rewrites \in 0..MaxRewrites /\ policy \in BOOLEAN
    /\ loading \in {"settings", "sections", "override", "endpoints", "environment", "llama", "prepare"} \cup Stops
    /\ building \in Seq(Contents)
    /\ \A c \in reached : c.peer \in Peers /\ c.scheme \in {"http", "https"}

SettingsInit ==
    /\ disk \in Disks /\ caFile \in Contents /\ held = {caFile} /\ rewrites = 0
    /\ loading = "settings" /\ todo = [next |-> "settings", eps |-> <<>>] /\ building = <<>>
    /\ policy = FALSE /\ endpoints = <<>> /\ models = {} /\ reached = {}

RewriteCA(contents) ==
    /\ rewrites < MaxRewrites /\ loading \notin Stops
    /\ rewrites' = rewrites + 1 /\ caFile' = contents /\ held' = held \cup {contents}
    /\ UNCHANGED <<disk, loading, todo, building, policy, endpoints, models, reached>>

-----------------------------------------------------------------------------
(***************************************************************************)
(* normalizeOpenAI: each endpoint in turn is validated and gets its three  *)
(* transports; the first bad one fails the load.                           *)
(***************************************************************************)
Prepare(eps, next) ==
    /\ loading' = "prepare" /\ todo' = [next |-> next, eps |-> eps]
    /\ endpoints' = <<>>

\* validateEndpointTransport, but for the CA file.
Valid(ep) ==
    /\ ep.scheme \in {"http", "https"} /\ ep.api
    /\ ep.scheme = "http" => /\ ep.loopback \/ policy
                             /\ ~ep.ca /\ ep.pins = {}
    /\ \A p \in ep.pins : p.digest

ReadsCA(ep) == ep.ca /\ ep.scheme = "https"

\* loadCAPool, for the validation and for each transport.
ReadCA ==
    /\ loading = "prepare" /\ todo.eps # <<>>
    /\ LET ep == Head(todo.eps) IN Valid(ep) /\ ReadsCA(ep)
    /\ Len(building) < 4
    /\ IF caFile \in Authorities
       THEN building' = Append(building, caFile) /\ UNCHANGED loading
       ELSE loading' = "failed" /\ building' = <<>>
    /\ UNCHANGED <<disk, caFile, held, rewrites, todo, policy, endpoints, models, reached>>

Roots(ep, n) == IF ReadsCA(ep) THEN building[n + 1] ELSE "system"

PrepareEndpoint ==
    /\ loading = "prepare" /\ todo.eps # <<>>
    /\ LET ep == Head(todo.eps) IN
       \/ /\ ~Valid(ep)
          /\ loading' = "failed"
          /\ UNCHANGED <<todo, building, endpoints>>
       \/ /\ Valid(ep) /\ (ReadsCA(ep) => Len(building) = 4)
          /\ endpoints' = Append(endpoints, [ep |-> ep, roots |-> [n \in DOMAIN Transports |-> Roots(ep, n)]])
          /\ todo' = [todo EXCEPT !.eps = Tail(@)] /\ building' = <<>>
          /\ UNCHANGED loading
    /\ UNCHANGED <<disk, caFile, held, rewrites, policy, models, reached>>

AllPrepared ==
    /\ loading = "prepare" /\ todo.eps = <<>>
    /\ loading' = todo.next
    /\ UNCHANGED <<disk, caFile, held, rewrites, todo, building, policy, endpoints, models, reached>>

-----------------------------------------------------------------------------
(***************************************************************************)
(* LoadConfig                                                              *)
(***************************************************************************)
KeepCA == UNCHANGED <<disk, caFile, held, rewrites, building, reached>>

\* Only a settings.json that is not there leads to the other files.
ReadSettings ==
    /\ loading = "settings"
    /\ CASE disk.settings.is = "absent" ->
              loading' = "endpoints" /\ UNCHANGED <<todo, policy, endpoints>>
         [] disk.settings.is = "ok" ->
              policy' = disk.settings.plaintext /\ Prepare(disk.settings.eps, "sections")
         [] OTHER -> loading' = "failed" /\ UNCHANGED <<todo, policy, endpoints>>
    /\ KeepCA /\ UNCHANGED models

\* A target's params must be an object, a system model's id not empty.
VirtualValid(s) == s.params \subseteq {"absent", "null", "object"}
SectionValid(section) == section.api /\ \A m \in section.models : m.alias

\* MarkIdleTimeoutPresence, and what a manager makes of it: the profile's
\* default is for a key that is not there.
DefaultIdle(kind) == IF kind = "splash-serve" THEN 60 ELSE 0
IdleSet(idle) == idle.key = "number"

IdleMinutes(kind, idle) == IF ~IdleSet(idle) /\ idle.minutes = 0 THEN DefaultIdle(kind) ELSE idle.minutes

\* A relative path is joined to modelDir, a repository of splash is no path.
ParseServerRawModels(kind, section) ==
    {[kind |-> kind, model |-> m, idle |-> IdleMinutes(kind, section.idle),
      joined |-> section.dir /\ ~m.absolute /\ kind # "splash-serve"] : m \in section.models}

ParseSections ==
    LET s == disk.settings IN
    /\ loading = "sections"
    /\ IF VirtualValid(s) /\ "" \notin s.systemModels /\ \A k \in DOMAIN s.sections : SectionValid(s.sections[k])
       THEN /\ models' = UNION {ParseServerRawModels(k, s.sections[k]) : k \in DOMAIN s.sections}
            /\ loading' = "override"
       ELSE loading' = "failed" /\ UNCHANGED models
    /\ KeepCA /\ UNCHANGED <<todo, policy, endpoints>>

Passable_Any(file) == file.is # "ok"

\* A file that may be done without is one that is not there.
Passable(file) == file.is = "absent"

\* --openai-config replaces the section of settings.json, under its policy.
ReadOverride ==
    /\ loading = "override"
    /\ CASE Passable(disk.override) -> loading' = "loaded" /\ UNCHANGED <<todo, endpoints>>
         [] disk.override.is = "ok" -> Prepare(disk.override.eps, "loaded")
         [] OTHER -> loading' = "failed" /\ UNCHANGED <<todo, endpoints>>
    /\ KeepCA /\ UNCHANGED <<policy, models>>

\* Without settings.json: the file of the flag, or the one in the data directory.
LegacyFile == IF disk.flag THEN disk.override ELSE disk.endpoints

ReadEndpoints ==
    /\ loading = "endpoints"
    /\ CASE Passable(LegacyFile) -> loading' = "environment" /\ UNCHANGED <<todo, endpoints>>
         [] LegacyFile.is = "ok" -> Prepare(LegacyFile.eps, "llama")
         [] OTHER -> loading' = "failed" /\ UNCHANGED <<todo, endpoints>>
    /\ KeepCA /\ UNCHANGED <<policy, models>>

\* OPENAI_BASE_URL
ReadEnvironment ==
    /\ loading = "environment"
    /\ Prepare(disk.environment, "llama")
    /\ KeepCA /\ UNCHANGED <<policy, models>>

ReadLlamaModels ==
    LET file == disk.llama IN
    /\ loading = "llama"
    /\ IF Passable(file) THEN loading' = "loaded" /\ UNCHANGED models
       ELSE IF file.is = "ok" /\ SectionValid(file.section)
       THEN loading' = "loaded" /\ models' = ParseServerRawModels("llama-server", file.section)
       ELSE loading' = "failed" /\ UNCHANGED models
    /\ KeepCA /\ UNCHANGED <<todo, policy, endpoints>>

-----------------------------------------------------------------------------
(***************************************************************************)
(* The transports of a loaded endpoint                                     *)
(***************************************************************************)
Accepts_PinsAlone(e, n, scheme, peer) ==
    scheme = "http" \/ IF e.ep.pins # {} THEN \E p \in e.ep.pins : p.leaf = peer.leaf
                       ELSE peer.chain = e.roots[n]

\* In the clear nothing is asked of the peer.  Of its certificate, the chain is
\* verified first, then the leaf is one of the pins.
Accepts(e, n, scheme, peer) ==
    scheme = "http" \/ /\ peer.chain = e.roots[n]
                       /\ e.ep.pins # {} => \E p \in e.ep.pins : p.leaf = peer.leaf

Connect(i, n, peer) ==
    LET e == endpoints[i] IN
    /\ loading = "loaded"
    /\ Accepts(e, n, e.ep.scheme, peer)
    /\ reached' = {[of |-> e, by |-> n, scheme |-> e.ep.scheme, loopback |-> e.ep.loopback, peer |-> peer,
                    redirected |-> FALSE]}
    /\ UNCHANGED <<disk, caFile, held, rewrites, loading, todo, building, policy, endpoints, models>>

\* The answer to the last request redirects to any http or https URL.  Requests
\* that are proxied pass it on; FetchOpenAIModels has a client over the probe
\* transport, which asks there too.
FollowRedirect(scheme, loopback, peer) ==
    /\ \E c \in reached :
          /\ Transports[c.by] = "probe"
          /\ Accepts(c.of, c.by, scheme, peer)
          /\ reached' = {[of |-> c.of, by |-> c.by, scheme |-> scheme, loopback |-> loopback, peer |-> peer,
                         redirected |-> TRUE]}
    /\ UNCHANGED <<disk, caFile, held, rewrites, loading, todo, building, policy, endpoints, models>>

SettingsNext ==
    \/ \E contents \in Contents : RewriteCA(contents)
    \/ ReadSettings \/ ParseSections \/ ReadOverride \/ ReadEndpoints \/ ReadEnvironment \/ ReadLlamaModels
    \/ ReadCA \/ PrepareEndpoint \/ AllPrepared
    \/ \E i \in DOMAIN endpoints, n \in DOMAIN Transports, peer \in Peers : Connect(i, n, peer)
    \/ \E scheme \in {"http", "https"}, loopback \in BOOLEAN, peer \in Peers : FollowRedirect(scheme, loopback, peer)

SettingsSpec == SettingsInit /\ [][SettingsNext]_settingsVars

-----------------------------------------------------------------------------
(***************************************************************************)
(* What is loaded is one source's, whole: the endpoints are those of the   *)
(* first source that is there, and a source that was looked at and is      *)
(* broken is never passed over ("don't silently fall back",                *)
(* config.go:128).  The models come from the same file, those of           *)
(* splash-serve under the names written, and an idle timeout of 0 that was *)
(* written is 0 (server.go:68).  And a load fails for a reason: of the     *)
(* sources it looks at one is broken, or one has an endpoint, a CA file, a *)
(* section, virtual params or a system model with a fault in it.           *)
(***************************************************************************)
Unified == disk.settings.is # "absent"

InForce ==
    IF disk.flag /\ disk.override.is # "absent" THEN disk.override.eps
    ELSE IF Unified THEN disk.settings.eps
    ELSE IF ~disk.flag /\ disk.endpoints.is # "absent" THEN disk.endpoints.eps
    ELSE disk.environment

\* The files a load must not get past when they are broken.
Consulted == {disk.override} \cup IF Unified THEN {disk.settings}
                                  ELSE {disk.llama} \cup IF disk.flag THEN {} ELSE {disk.endpoints}

Written == IF Unified THEN disk.settings.sections
           ELSE IF disk.llama.is = "ok" THEN [k \in {"llama-server"} |-> disk.llama.section] ELSE <<>>

SourceKept ==
    /\ \A file \in Consulted : file.is \in {"absent", "ok"}
    /\ [i \in DOMAIN endpoints |-> endpoints[i].ep] = InForce
    /\ {<<m.kind, m.model>> : m \in models} =
           UNION {{<<k, m>> : m \in Written[k].models} : k \in DOMAIN Written}
    /\ \A m \in models : /\ m.model.alias
                         /\ m.joined => ~m.model.absolute /\ m.kind # "splash-serve"
                         /\ LET idle == Written[m.kind].idle IN
                            m.idle = IF idle.key = "number" THEN idle.minutes ELSE DefaultIdle(m.kind)

\* Leave of settings.json to talk to another machine in the clear.
Acknowledged == disk.settings.is = "ok" /\ disk.settings.plaintext

\* The endpoints a load may look at, those of settings.json even with the flag.
EndpointsOf(files) == UNION {Range(file.eps) : file \in {f \in files : f.is = "ok"}}

LookedAt ==
    IF Unified THEN EndpointsOf({disk.settings, disk.override})
    ELSE EndpointsOf({LegacyFile}) \cup IF LegacyFile.is = "absent" THEN Range(disk.environment) ELSE {}

Faulty(ep) ==
    \/ ep.scheme \notin {"http", "https"} \/ ~ep.api
    \/ ep.scheme = "http" /\ (ep.ca \/ ep.pins # {} \/ (~ep.loopback /\ ~Acknowledged))
    \/ ep.scheme = "https" /\ (\/ \E p \in ep.pins : ~p.digest
                               \/ ep.ca /\ ~(held \subseteq Authorities))

FailsForReason ==
    \/ \E file \in Consulted : file.is \notin {"absent", "ok"}
    \/ \E ep \in LookedAt : Faulty(ep)
    \/ \E k \in DOMAIN Written : ~Written[k].api \/ \E m \in Written[k].models : ~m.alias
    \/ Unified /\ ("" \in disk.settings.systemModels \/ disk.settings.params \ {"absent", "null", "object"} # {})

LoadedAsWritten == /\ loading = "loaded" => SourceKept
                   /\ loading = "failed" => FailsForReason

(***************************************************************************)
(* Whichever transport a request takes, no connection is made in the clear *)
(* to another machine but by leave of settings.json, and none of an        *)
(* endpoint with pins to a peer that has none of them: a pinned hop is not *)
(* "silently downgraded" (endpoint_tls.go:3).  The exception is a model    *)
(* list that an endpoint redirects to http, see AlwaysAcknowledged.  A     *)
(* redirect to https is held to the pins of the endpoint that sent it, and *)
(* no connection under TLS is to a peer of an authority that neither the   *)
(* CA file of its endpoint ever held nor, without a CA file, the system.   *)
(***************************************************************************)
InTheClear(c) == c.scheme = "http" /\ ~c.loopback

ListInTheClear(c) == Transports[c.by] = "probe" /\ c.redirected /\ c.scheme = "http"

NeverDowngraded ==
    \A c \in reached :
        /\ InTheClear(c) => Acknowledged \/ ListInTheClear(c)
        /\ c.of.ep.pins # {} => c.peer.leaf \in {p.leaf : p \in c.of.ep.pins} \/ ListInTheClear(c)
        /\ c.scheme = "https" =>
              c.peer.chain \in (IF c.of.ep.ca /\ c.of.ep.scheme = "https" THEN held ELSE {"system"})

(***************************************************************************)
(* "http is only reachable unconditionally when the host is loopback,      *)
(* otherwise only when allowPlaintext opts the deployment into an          *)
(* acknowledged-unencrypted hop" (endpoint_tls.go:65).  That is so of the  *)
(* URLs written and not of those a model list is redirected to, which      *)
(* nothing validates (upstream_models.go:52): this does not hold.          *)
(***************************************************************************)
AlwaysAcknowledged == \A c \in reached : InTheClear(c) => Acknowledged
=============================================================================
