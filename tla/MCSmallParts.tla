---------------------------- MODULE MCSmallParts ----------------------------
(***************************************************************************)
(* Small instances of machines that share nothing: the affinity store, the *)
(* ports and the output of managed children, the size of a model, the      *)
(* loading of the configuration and the debug window of the log.  A        *)
(* behaviour is one of theirs, and the others stay where they began.       *)
(***************************************************************************)
EXTENDS VirtualAffinity, Ports, ChildOutput, DebugWindow, Settings, ModelSize

VARIABLE part

vars == <<affinityVars, portsVars, childVars, windowVars, settingsVars, sizeVars, part>>

-----------------------------------------------------------------------------
(***************************************************************************)
(* What a configuration may be.  Of endpoints: one of this machine, one in *)
(* the clear, one with a CA file and pins, and bad ones.                   *)
(***************************************************************************)
Endpoint(scheme, loopback, ca, pins) ==
    [scheme |-> scheme, loopback |-> loopback, ca |-> ca, pins |-> pins, api |-> TRUE]
Pin(leaf) == [leaf |-> leaf, digest |-> TRUE]

Local == Endpoint("http", TRUE, FALSE, {})
Clear == Endpoint("http", FALSE, FALSE, {})
Pinned == Endpoint("https", FALSE, TRUE, {Pin("leaf")})
PinnedOnly == Endpoint("https", FALSE, FALSE, {Pin("leaf")})
Bad == {Endpoint("http", TRUE, FALSE, {Pin("leaf")}), Endpoint("ftp", TRUE, FALSE, {}),
        Endpoint("https", FALSE, FALSE, {[leaf |-> "leaf", digest |-> FALSE]}),
        [Local EXCEPT !.api = FALSE]}

SomeEndpoints == {<<>>, <<Clear>>, <<Pinned>>, <<Local, PinnedOnly>>}
MoreEndpoints == SomeEndpoints \cup {<<ep>> : ep \in Bad}

Model(alias, absolute) == [alias |-> alias, absolute |-> absolute]
Idle(key, minutes) == [key |-> key, minutes |-> minutes]
Section(idle, listed) == [api |-> TRUE, idle |-> idle, dir |-> TRUE, models |-> listed]
GoodSection(idle) == Section(idle, {Model(TRUE, TRUE), Model(TRUE, FALSE)})
SomeSections == {GoodSection(Idle("absent", 0)), GoodSection(Idle("null", 0)), GoodSection(Idle("number", 0)),
                 GoodSection(Idle("number", 5))}
BadSections == {Section(Idle("absent", 0), {Model(FALSE, TRUE)}),
                [GoodSection(Idle("absent", 0)) EXCEPT !.api = FALSE]}

NotOk == {[is |-> x] : x \in {"absent", "unreadable", "malformed"}}
EndpointFiles(some) == NotOk \cup {[is |-> "ok", eps |-> eps] : eps \in some}

Settings(plaintext, eps, params, systemModels, sections) ==
    [is |-> "ok", plaintext |-> plaintext, eps |-> eps, params |-> params,
     systemModels |-> systemModels, sections |-> sections]

NoSections == [k \in {} |-> 0]
EndpointSettings ==
    {Settings(plaintext, eps, {}, {}, NoSections) : plaintext \in BOOLEAN, eps \in MoreEndpoints}
SectionSettings ==
    {Settings(FALSE, <<>>, params, ids, sections) :
        params \in {{"object"}, {"other"}}, ids \in {{"m"}, {""}},
        sections \in UNION {[ks -> SomeSections \cup BadSections] : ks \in {{"llama-server"}, {"splash-serve"}}}}

Disk(settings, flag, override, eps, environment, llama) ==
    [settings |-> settings, flag |-> flag, override |-> override, endpoints |-> eps,
     environment |-> environment, llama |-> llama]
Absent == [is |-> "absent"]
Environments == {<<>>, <<Clear>>, <<Local>>}

LlamaFiles == NotOk \cup {[is |-> "ok", section |-> s] : s \in SomeSections \cup BadSections}

SomeDisks ==
    {Disk(s, FALSE, Absent, Absent, <<Local>>, Absent) : s \in NotOk \cup EndpointSettings \cup SectionSettings}
    \cup {Disk(Settings(p, <<Local>>, {}, {}, NoSections), TRUE, o, Absent, <<>>, Absent) :
              p \in BOOLEAN, o \in EndpointFiles(MoreEndpoints)}
    \cup {Disk(Absent, flag, IF flag THEN f ELSE Absent, IF flag THEN Absent ELSE f, e, Absent) :
              flag \in BOOLEAN, f \in EndpointFiles(SomeEndpoints), e \in Environments}
    \cup {Disk(Absent, FALSE, Absent, Absent, <<>>, l) : l \in LlamaFiles}

SomePeers == [chain : Authorities \cup {"system"}, leaf : {"leaf", "another"}]

Nothing == Disk(Absent, FALSE, Absent, Absent, <<>>, Absent)

-----------------------------------------------------------------------------
(***************************************************************************)
(* Models to size: of GGUF headers, two layers with one count of heads or  *)
(* one each, with vectors given or derived, with and without windows; of   *)
(* shards, its own and those of a model whose name begins with its own.    *)
(***************************************************************************)
Number(n) == [is |-> "int", v |-> n]
Entry(key, value) == [key |-> key, value |-> value, long |-> FALSE]
Key(suffix, value) == Entry(<<"a", suffix>>, value)
Arch == Entry(<<"general", "architecture">>, [is |-> "string", v |-> "a"])

Heads == {<<>>, <<Key("head_count_kv", Number(2))>>, <<Key("head_count_kv", [is |-> "ints", v |-> <<2, 1>>])>>,
          <<Key("head_count_kv", [is |-> "ints", v |-> <<2, 1, 1>>])>>}
Vectors == {<<Key("key_length", Number(2)), Key("value_length", Number(1))>>,
            <<Key("embedding_length", Number(4)), Key("head_count", Number(2))>>, <<Key("key_length", Number(2))>>}
Windows == {<<>>, <<Key("sliding_window", Number(1)), Key("sliding_window_pattern", [is |-> "bools", v |-> <<FALSE, TRUE>>]),
                    Key("key_length_swa", Number(1))>>,
            <<Key("sliding_window", Number(5)), Key("sliding_window_pattern", [is |-> "bools", v |-> <<TRUE>>])>>}
Layers == {2, 3}

Header(listed) == [magic |-> TRUE, count |-> Len(listed), entries |-> listed]
GoodHeader == Header(<<Arch, Key("block_count", Number(1)), Key("head_count_kv", Number(1)),
                       Key("key_length", Number(1)), Key("value_length", Number(1)), Key("context_length", Number(2))>>)
Headers ==
    {Header(<<Arch, Key("block_count", Number(9)), Key("block_count", Number(n))>> \o h \o v \o w) :
        n \in Layers, h \in Heads, v \in Vectors, w \in Windows}
BadHeaders ==
    {[GoodHeader EXCEPT !.magic = FALSE], [GoodHeader EXCEPT !.count = 7], [GoodHeader EXCEPT !.count = 1],
     [GoodHeader EXCEPT !.entries[1].long = TRUE], [GoodHeader EXCEPT !.entries[6].value = [is |-> "nested", v |-> 0]],
     [GoodHeader EXCEPT !.entries[1].key = <<"general", "name">>]}

File(name, of, size) == [name |-> name, of |-> of, size |-> size, weights |-> TRUE]
Shard(n) == File(<<"x", n>>, "2", 100)
OthersShard == File(<<"x", "y", "1">>, "2", 70)
FileLists == {<<Shard("1")>>, <<Shard("1"), Shard("2")>>, <<Shard("1"), Shard("2"), OthersShard>>}
NoConfig == [read |-> FALSE, layers |-> 0, head_dim |-> 0, heads |-> 0, hidden |-> 0, kv_heads |-> 0, positions |-> 0]
MLXConfigs == {NoConfig, [NoConfig EXCEPT !.read = TRUE, !.layers = 2, !.heads = 2, !.hidden = 4, !.positions = 3],
               [NoConfig EXCEPT !.read = TRUE, !.layers = 2, !.head_dim = 1, !.kv_heads = 1]}

Unsized == [kind |-> "llama", memory |-> 0, headroom |-> 0, ctx |-> 0, cacheK |-> "f16", cacheV |-> "f16",
            path |-> TRUE, exists |-> TRUE, file |-> Shard("1"), files |-> <<Shard("1")>>, header |-> GoodHeader,
            dir |-> TRUE, config |-> NoConfig]

SomeModels ==
    {[Unsized EXCEPT !.header = h, !.ctx = 3, !.cacheK = t] : h \in Headers, t \in {"q8_0", "f32", "unheard of"}}
    \cup {[Unsized EXCEPT !.header = h, !.files = fs] : h \in BadHeaders \cup {GoodHeader}, fs \in FileLists}
    \cup {[Unsized EXCEPT !.kind = k, !.memory = mem, !.path = p, !.exists = e, !.headroom = 20] :
              k \in {"llama", "mlx", "splash"}, mem \in {0, 7}, p \in BOOLEAN, e \in BOOLEAN}
    \cup {[Unsized EXCEPT !.kind = "mlx", !.ctx = x, !.config = c, !.dir = d, !.files = <<[Shard("1") EXCEPT !.weights = w]>>] :
              x \in {0, 2}, c \in MLXConfigs, d \in BOOLEAN, w \in BOOLEAN}

-----------------------------------------------------------------------------

\* One alias has a port in its args, inside the range the manager counts through.
MCExplicit == [m \in {"b"} |-> 2]

-----------------------------------------------------------------------------

MCInit ==
    /\ part \in {"pins", "ports", "output", "window", "settings", "size"}
    /\ AffinityInit /\ PortsInit /\ ChildInit
    /\ WindowInit /\ (part = "window" \/ start = "info")
    /\ SettingsInit /\ (part = "settings" \/ (disk = Nothing /\ caFile = "empty"))
    /\ SizeInit /\ (part = "size" \/ model = Unsized)

MCNext ==
    /\ UNCHANGED part
    /\ \/ part = "pins" /\ AffinityNext
          /\ UNCHANGED <<portsVars, childVars, windowVars, settingsVars, sizeVars>>
       \/ part = "ports" /\ PortsNext
          /\ UNCHANGED <<affinityVars, childVars, windowVars, settingsVars, sizeVars>>
       \/ part = "output" /\ ChildNext
          /\ UNCHANGED <<affinityVars, portsVars, windowVars, settingsVars, sizeVars>>
       \/ part = "window" /\ WindowNext
          /\ UNCHANGED <<affinityVars, portsVars, childVars, settingsVars, sizeVars>>
       \/ part = "settings" /\ SettingsNext
          /\ UNCHANGED <<affinityVars, portsVars, childVars, windowVars, sizeVars>>
       \/ part = "size" /\ Size
          /\ UNCHANGED <<affinityVars, portsVars, childVars, windowVars, settingsVars>>

MCSpec == MCInit /\ [][MCNext]_vars /\ ChildFairness
=============================================================================
