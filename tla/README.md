# relayLLM in TLA+

relayLLM is a Go program that puts one OpenAI- and Anthropic-compatible router
in front of local model servers (llama-server, mlx-serve, splash), which it
launches and stops on demand, and of remote OpenAI endpoints.  This directory
models its concurrent and stateful parts, checks them with TLC on small
instances, and proves the facts that matter most with TLAPS for every instance.

    tlc -config ServerManager.cfg MCServerManager      # model-check one run
    tlapm ServerManager_proofs.tla                     # check one module's proofs

Paths below are relative to `src/internal/`.  `PROJECT.json` holds the same
information for tools: components, runs, the source lines of every definition,
hazards, theorems, and for every property a plausible bug that breaks it.

## 1. The system: parts, state, operations, hard behaviours

| Part (source) | State | Operations | What is hard | What makes it correct | Modules |
|---|---|---|---|---|---|
| Managed-server pool (`servermanager/server_manager.go`, `splash.go`) | map alias -> instance, leases, health, load errors, the idleSignal channel | Acquire and its releaser, StartLoad, StopInstance, ReapIdle, StopAll, child exit | callers interleave between every unlock and the next lock; launches that die half-way; wake-ups; a budget shared by all aliases | the budget is never overspent, no process is lost sight of, leases count the users, no waiter sleeps past room, every Acquire returns | `ServerManager`, `ModelPool` |
| Remote endpoint registry (`registry/registry.go`, `upstream_models.go`) | last probe result per endpoint, probes in flight | LookupModel, Snapshot, probe | freshness read in one critical section and acted on in another; callers that hang up during a probe others wait for | one probe at a time, no stale answer, no healthy endpoint hidden, no result overwritten by an older one, every call answered | `ProxyRegistry` |
| Affinity store (`router/router_virtual_affinity.go`) | map (virtual model, conversation) -> target, last use | lookup, record, expiry, LRU eviction | expiry and cap enforced on writes only | bounded, never a wrong pin, never a pin lost early | `VirtualAffinity` |
| Virtual-model failover (`router/router_virtual.go`) | per request: candidates left, what the recorder saw; the store above | candidate order, attempts, commitment, pin | ReverseProxy's own behaviour (1xx, panics on a broken body), reachability that wobbles, shared store | one target's bytes per request, no switch of a live conversation, 503 only after every target failed | `VirtualRouter` |
| Router keys (`router/keys.go`, `auth.go`, `app/router_key_cmd.go`) | router_keys.json and its modes; the server's parsed copy | add, revoke, hand edits, Authenticate with its polled reload | commands killed between two steps, concurrent commands, a stat and a read that see different files, timestamps | what is accepted and refused follows the file within a poll interval; no key lost or revived | `RouterKeys` |
| Program lifecycle (`app/app.go`, `model_host.go`, `router/router_socket.go`, `relay/*`, `peertoken/*`) | relay's identity, listeners, socket files, registration with relay, drain | launch handshake, start, register, admit a peer, SIGTERM, drain, shutdown, kill | four goroutines, files that outlive a kill, clients that never finish, pids that are given again | restarts succeed, only the relay of the handshake is served, the TCP front drains, SIGTERM ends the program, a launched program is relay's host or ends | `Lifecycle` |
| Proxy metrics (`router/status_metrics.go`) | map of connections, ring of finished ones, a set of atomics per connection, two-bucket byte rates | Begin, noteHeader, noteWrite, End, snapshot, add, rate | polls read atomics one by one while they are written; lock-free rolls | every request listed once, silence shown as a stall, no byte invented | `ProxyMetrics`, `RollingRate` |
| Anthropic redirect (`router/router_anthropic.go`, `router_anthropic_translate.go`) | translating writer, stream translator, ping goroutine | translation of the request; WriteHeader, Write, Flush, finish, pings | turns that mix results, text and images; pings between any two events, tool-call pieces interleaved by the backend, errors and panics at any point | a conversation kept in order, a legal stream, a whole reply, refusals as errors, no goroutine left | `AnthropicRedirect`, `AnthropicRequest`, `AnthropicStream` |
| Native Anthropic exchange (`router/router_anthropic_native.go`, `anthropic_usage_tap.go`) | usage tap on one body, count_tokens probe | Read, Close, WriteHeader, the fallback estimate | a body cut anywhere, that ends by EOF, by Close or by both; a 1xx before the answer | tokens charged once, count_tokens answered once | `AnthropicNative` |
| Dispatch and catalog (`router/router.go`, `router_models.go`, `router_anthropic_native.go`) | configuration; the registry's belief | handleProxy, the Anthropic routes, count_tokens, /v1/models | one order of resolution written out in several functions; the registry changes between two reads of one request | the routes agree, a conversation keeps one dialect, the catalog says what is served | `Dispatch` |
| Ports of managed servers (`servermanager/server_manager.go`) | the next port; who listens on each | allocatePort, a port named in args, preflight, fork, the child's bind, health check, restart after a kill | a child binds long after its port was chosen; others bind in between; a health check cannot tell who answers; children outlive a killed program | no port given twice, no old stranger taken for a child | `Ports` |
| Child output limiter (`server_manager.go`, `logProcessOutput`) | window, counts; two pipes | a pump per pipe, the shared limiter, close, cmd.Wait | a child blocks on a full pipe; two pumps, one limiter; a line the scanner refuses | no line forgotten, no child stuck on a quiet pump | `ChildOutput` |
| Model size estimate (`server_memory.go`, `gguf.go`) | none | the sum of shards, the GGUF header, the KV cache, MLX configs | formats with optional keys, per-layer heads, sliding windows | unknown or never too small | `ModelSize` |
| Configuration (`config/*`) | the loaded configuration; transports of an endpoint | LoadConfig over five sources, validation, building of transports, their connections | precedence; keys that are absent or null; a CA file rewritten in mid-load | one source in force, broken files refused, no connection downgraded | `Settings` |
| Logging window (`logging/logging.go`) | level, deadline, a flag, three atomics | Enabled and Handle of every goroutine | all notice the deadline together | expiry told once, no debug line afterwards | `DebugWindow` |
| Router front (`router/router.go`, `auth.go`, `router_socket.go`, `router_passthrough.go`, `router_audio.go`, `router_rewrite.go`, `router_virtual_params.go`) | per request: what was sent where, the header map, the recorded status | admission on three listeners, the mux, the forward of every kind, the answer, the log line | failover that reuses header map and body; 1xx; writers that wrap writers | no credential where it does not belong, the client's body kept, header and log line true | `RouterFront` |
| The bridge's wire format, log format, status API, support code | none, or read once | pure mappings and rendering | nothing interleaves | - | section 8 |

How they interact.  `handleProxy` (Dispatch) resolves an id and calls the pool
(`Acquire`, holding a lease for the length of the response), the registry
(`LookupModel`) or the virtual router, which calls the other two for each
candidate and the affinity store before and after.  `RouterFront` is what surrounds all of
that: who is let in, what is sent out, what is told.  `/v1/messages` serves a
target that speaks Anthropic in a native exchange (AnthropicNative); for any
other it translates the body (AnthropicRequest) and enters `handleProxy` with a
translating writer (AnthropicStream) around the client's.
Every routed request passes through the metrics.  Keys guard the standalone
router.  The lifecycle starts everything and calls the pools' `StopAll` last.
The pool, the registry, the store, the keys and the metrics have a mutex each
and call nothing of each other while they hold it.

## 2. The plan

Order of the modules, most important behaviour first, and what composes what:

1. `ServerManager`, refining the abstract `ModelPool`.
2. `ProxyRegistry`.
3. `VirtualAffinity`, then `VirtualRouter`, which extends it with the requests.
4. `RouterKeys`, `Lifecycle` (in which the pools of 1 are one step).
5. `ProxyMetrics` and `RollingRate`, put side by side by `MCStatusPage`.
6. `AnthropicStream`.  `AnthropicRedirect` composes it with
   `AnthropicRequest` before it and with `AnthropicNative` beside it.
   `Selection`, a filter written as its loop, serves these and 7.
7. `Dispatch`, and `RouterFront` beside it in `MCRouter`: the first says where a
   model leads, the second takes that for given and follows headers and bodies.
8. `Ports`, which runs beside the affinity store in `MCSmallParts`.
9. `ChildOutput`, `DebugWindow`, `Settings`, `ModelSize`, in the same place.

Eight proof modules: `ServerManager_proofs`, `ProxyRegistry_proofs`,
`VirtualRouter_proofs`, `RouterKeys_proofs`, `Router_proofs` (7),
`Anthropic_proofs` (6), `Lifecycle_proofs`, which has `Settings`, too, and
`SmallParts_proofs` for the rest.  Section 5 has what they prove.

All of these are on disk.  Where one MC module holds several machines that
share no state (`MCRouter`, `MCSmallParts`, `MCStatusPage`), a behaviour is one
machine's and the others stand still.  What is left is in section 8.

## 3. Modules

Each `MC...` module only holds the sets, the view and the symmetry of the runs.

### ServerManager and ModelPool

One action is one critical section of `ServerManager.mu` or one wait that
ends.  `call[c].pc` says where a caller of `Acquire` stands; a background
`StartLoad` goroutine is a caller in `Loaders`, which cannot be cancelled.  The
steps the code takes between an unlock and the next lock are therefore steps
others can come between: a victim chosen (`ChooseVictim`) and stopped
(`Evict`), a failed launch and its removal (`RemoveFailed`, `Unblock`), a failed load and its record
(`RecordLoadError`).  `waiters` is the set of callers blocked on the current
`idleSignal` channel; closing the channel empties it.  `stopping` holds the
processes that were signalled and will be killed at the end of their grace.

Abstractions: time (the admission deadline, idle timeouts, the stop grace and
the health check may elapse whenever the code reads them); `lastUsed` (any idle
instance may be the victim); a process record is a member of `Procs`, reused
once nothing refers to it; whether a launch finds a port or an executable is a
choice (`LaunchFails`); memory estimates are constants, 0 for unknown.  An
instance is one process, the one that was launched.  In the splash profile that
process leads a group: its exit is `Exit`, and an engine it leaves behind is
outside the model, as neither `StopInstance` (`server_manager.go:973`) nor the
exited path of `awaitReady` (`:695`) then signals the group.  `NoOrphan` is
about launched leaders, and says nothing of what they leave.

`ModelPool` is what clients see: an alias is absent, loading or ready, loading
starts only with room in both budgets, and every load resolves.

- `server_manager`: two requests, two models that do not fit together (sizes 2
  and 3 under a cap of 4), two processes, all environment events.  `BudgetHeld`,
  `NoOrphan`, `NothingWedged` (leases count their holders, a joiner's launch has
  an owner, and `NoLostWakeup`).
- `server_manager_live`: a request and a loader for one slot, crashes.
  `AcquireReturns`, and `ImplementsPool`, the refinement with its liveness.
- `evict_leased`: fails, see section 6.

Bounds.  Two aliases and two callers are the least with which every race of the
code exists (two callers of one launch, a caller against the eviction of
another's alias); a third process record only repeats them, except for the
finding, whose run has three.  Fairness: a goroutine that can step does, the
admission deadline fires, the grace of a signalled process ends in SIGKILL, and
a loader, which only releases what it got, finishes.  Nothing is assumed of
clients: a request may hold its lease for ever.

`NoLostWakeup` excepts one case the code has: a leased instance that crashes
frees its room at once, and waiters hear of it when its last lease returns.
They have their deadline, so `AcquireReturns` holds all the same.

### Ports

A launch goes from the choice of a port to the fork under the manager's mutex
(`Locked`); afterwards the child binds, dies or is late on its own, an outsider
may take and leave any port, and `HealthAnswered` takes an answer from whoever
listens.  `since` remembers after how many launches a listener came.
`Restarted` is a kill: the children stay (`orphan`) and the count begins again.
`KillChild` ends a child and frees its port in one step; `StopInstance` drops the
instance first and kills after the grace, which no property here tells apart.
The preflight test binds 127.0.0.1 (`server_manager.go:1278`), and the model takes
it that a port with a listener cannot be bound: on a system that lets it be
bound beside a wildcard listener, such a listener is not noticed, and `NoSquatter`
does not extend to it.

- `small_parts`, one of its parts: two aliases, one with a port in its args
  that lies inside the counted range, two ports, three launches, two lives:
  `AllocatedApart` and `NoSquatter`.  Three launches are a child that is late,
  one counted past it and one of the alias with its own port; two ports are
  exhausted by two of them.  `NoSquatter` says no more than the code can know: a child
  that loses a race *after* the preflight test, to an outsider or to a sibling
  whose port came from its args, can still have the winner's answer taken for
  its own until its exit is noticed.

### ProxyRegistry

`LookupModel` has a task for one endpoint, `Snapshot` one for each; a task
checks freshness, enters `probe`, and there waits for the probe in flight or
runs one: fetch, store, delete from inflight, close.  Each is a critical section or
a wait.  A cancelled caller answers early, but the probe it started goes on
with a context of its own.  Endpoints in `Reliable` always answer a fetch.

- `proxy_registry`: two callers, two endpoints (one unreliable), cancellations,
  a TTL of one tick: `SingleFlight`, `AnswersSound` (no answer was a
  TTL old when its call began, and a caller that hangs up hides no healthy endpoint),
  `NeverOlder`, `AlwaysAnswers`.  Two callers give a prober and a waiter, and the prober's
  successor that enters before the waiter has left.  Fairness: a call that can
  step does; a fetch has a timeout (`modelsFetchTimeout`).

Assumption: the clock does not move by a TTL between the reading of
`LastChecked` and `close(ch)`, a few instructions (`Tick`).

### VirtualAffinity and VirtualRouter

`entries` is the store's map; `served` is history: what a store without expiry
or cap would remember.  `Record` is the whole of `record`: the sweep of expired
entries, the eviction when a new key meets the cap, the write.  Entries used at
the same instant tie, and any of them may go.

`VirtualRouter` extends it, with `Keys` the pairs of a virtual model and a
conversation, and adds the requests: `Arrive` orders the candidates by what the
registry believes (the one arrangement that puts the usable before the others
and keeps each half as declared), `Pin` puts the remembered target first, `Attempt` starts the next
candidate (a lease or an endpoint), `Fails`, `Informs` (a 1xx header), `Answers`,
`Completes` and `Breaks` are what ReverseProxy and the recorder make of the
target, `Pins` is the record after `ServeHTTP`.  `tried`, `sent` and `due` are
history.  The header of an attempt is part of the state, so that
`HeaderNamesTarget` can be stated.

- `small_parts`: four conversations over a cap of two, TTL 3, five ticks:
  `CapHeld`, `PinsExact` (lookup answers the last record within the TTL or nothing, and
  a pin goes early only to `Cap` later ones).  Four keys over two places let the
  store evict, refresh and evict again; five ticks let an entry expire and its
  successor age.
- `virtual_router`: two requests, turn after turn, two virtual models that
  share a target: `ServedByOne` (one target's bytes in a reply, and no switch of
  a live conversation while its target answers), `FailsAfterAll`.

### RouterKeys

A command is a read, the write of a temporary file, a rename and a report, and
may be killed between any two.  The store looks at the file at most once per poll
interval, in three system calls: a stat of the file (`Stat`), one of its directory
(`StatDir`), and a `Read` when the time has changed.  The file may be replaced, and
either mode changed, between any two of them.  `Damage` and `Chmod` are the
operator's hand.  `listedAt`, `modeAt`, `added`, `revoked` and `overlapped` are history;
a mode is followed for the file and for the directory apart.

- `router_keys`: two commands, two keys, damage and chmod, two ticks between
  polls: `InStepWithFile` (contents and modes), `KeysKept`.  Four ticks
  hold a load, a change and two polls after it.  `MCView` keeps of the answer
  only whether it is right, for every step replaces it; `CanWrite` drops what
  commands would have written after the last tick, and `OneMode` lets, after the first
  tick, either mode change but not both in one behaviour.

Assumptions: a reload takes less than a poll interval, and the clock advances
when a temporary file is written, so that with `Granule = 1` no two files carry
the same timestamp.  Without the latter `InStepWithFile` fails (section 6).  The commands take
no lock, so two that overlap may undo each other; `KeysKept` says nothing of a
file replaced between another command's read and rename.

### Lifecycle

`main` walks through `Main`: the launch handshake (descriptor, secret, Hello),
router, router.sock, status socket, HTTP front, serving, closing, stopping.
`registrar`, `drain` and the requests are the other goroutines.  A kill leaves
socket files as `stale`.  One program at a time runs on a directory; stopping
the pools is one step.

Outside are relay and a stranger; either may have the bridge's socket, answer
Hello with any pid, dial router.sock, end, and come back under a free pid, with
a pidversion never used before.  `identity` is what `RelayIdentity` returns;
that it is set and that `Launched()` is true are two writes one after the other
on one goroutine, before anything reads them, and one step here.  The
connection to router.sock is at most one.  What the handshake establishes is
the process that accepted the connection and gave its own pid: that this is
relay rests on who can bind the bridge's socket and on the secret, which are
relay's.  A relay that restarts is no longer admitted, and nothing in the
program notices; `host` only says that somebody accepted the registration.

- `lifecycle`: two starts in either mode, two clients on the socket and one on
  TCP, one process outside that ends and returns, under a pid given before:
  `RestartsClean`, `OnlyItsRelay`, `TcpDrained`, `Settles` (SIGTERM ends the
  program, and a launched one is relay's host or ends).
  Two starts are one kill and one restart on what it left.  Fairness: the program's
  goroutines step and the five seconds end; no signal, answer or well-behaved
  client is assumed.

### ProxyMetrics, RollingRate and MCStatusPage

`ProxyMetrics`: the mutex covers the map and the ring; each connection's
`header` and `lastWrite` are atomics that the poll reads in its own order
(`LoadHeader`, `LoadLastWrite`), and a writer reads the clock (`ReadClock`) before
it stores what it read (`NoteHeader`, `SeedLastWrite`, `NoteWrite`).  `RollingRate` takes `add` apart into its load,
compare-and-swap, swap, store and addition, for racing writers; no tick passes
inside an `add`.  `written` is history, the bytes written by the end of each tick,
and `Since` a difference of two of them.  The parts do not interact, so a behaviour of `MCStatusPage`
exercises one of them: the ring with the clock standing, the timing of two requests, or
the rate.

- `status_page`: `ListedOnce` (three requests over a ring of two: it wraps),
  `SilenceShows` (a silence of the whole threshold is a stall, and a response that
  wrote within it is none, but in the race of `NotInstantlyStalled`, section 6;
  thresholds 1, 2 and 3 ticks, told apart by three),
  `RateHonest` (nothing invented and silence reads zero; three writers, a window
  of two ticks, three windows long).

### AnthropicRedirect, AnthropicRequest, AnthropicNative, AnthropicStream

`AnthropicRedirect` is one request from its body to the end of its response: it
is refused, or translated and then exchanged (`stage`), or served natively.

`AnthropicRequest` is the pure translation.  A block of content is named by its
place, so that `ConversationKept` can say what became of it: one leading system
message, everything said in its order, and each call followed at once by its
answers if the client's history was and no id came twice in a turn (with a
repeated id the answers can be fewer than the calls).  `IsRequest` says what a
parsed body can be; a string is one text block.  A `tool_use` without an id is
given a random one (`router_anthropic_translate.go:380`), which its id stands
for.  Wording and copied parameters are left out.

`AnthropicNative` is an exchange without translation.  The backend's lines come
whole or in pieces and may be too long; the body ends or breaks; `told` is what
a reader of whole lines would have been told, and `NativeCounted` compares the
counters with it and asks that count_tokens is answered, once.  `probe` is the answer to count_tokens that is held back until
its status is known: 404 and 405 give the estimate.  `NativeCounted` excepts a
body that breaks, which aborts the exchange, and a 1xx, which decides the probe
(section 6).

In `AnthropicStream`, the translated exchange, the backend is the environment
again.  It sends a 1xx first or not, a status, events of
`Chunks` (text, tool-call pieces, a finish reason) cut anywhere, and a body that
ends or breaks ("cut" stands for the client leaving, too).  The handler feeds
all of it to the translating writer; `finish` runs deferred, closes `pingStop`, waits
for the goroutine and takes the mutex for the end of the stream.  Pings in a row
are recorded as one.  The 8 MiB caps on a line and on a buffered body are not reached, and
the implied 200 of a `Write` without `WriteHeader` cannot come from ReverseProxy.

- `anthropic`: histories of up to three turns of fourteen kinds (calls, results
  mixed with text and images, system messages, turns that are refused), five
  system fields, targets with and without vision: `ConversationKept`; three
  turns are a call, its answer and a turn that comes between or after.  Native bodies of up to
  three lines: `NativeCounted`.  Streams of three events of seven
  kinds, with two interleaved calls: `WellFormed`, `ReplyShown` (whole, or
  refused as an error),
  `PingEnds`, `Finishes`; three events
  are text, a piece and another call's piece in any order, and three lines a
  report, one that overrides it and one that is cut off.  Fairness: the
  handler's finish and a ping that runs go on; of `PingStop`, a select whose
  stop case stays ready, it is strong, because Go's select chooses at random among ready cases.
- `anthropic_error`: fails, see section 6.

### Dispatch

A configuration is an initial choice; an id is a sequence of parts with "/"
between them.  `HandleProxy`, `ResolveNative` and the catalog's `Rows` are three
translations of three functions, and the properties compare them.  `Probe` lets
the registry change its belief between any two reads of one request.  Endpoint
names are taken to be unique, which the configuration does not enforce (the
registry keeps one status for each name); a map key with an empty target is
absent, and the body is one both dialects accept.  A section of the catalog is a
set of rows, and `Listed` adds, of each id not seen before, the row whose manager,
virtual model or endpoint comes first, which is what the loops with `seen` do.
An endpoint that advertised a model without a name would be listed as "name/"
and not found; no configuration has one.

- `router`: 720 configurations with an alias of two managers, a virtual model
  named as an alias or as an endpoint's model, targets that do not exist, and a
  map that leads to each kind: `RoutedAlike` (the routes agree, a virtual model
  keeps one dialect), `CatalogHonest`.  The catalog is a function of configuration and belief, so it
  is looked at before the first request, under every belief.

### RouterFront

One request on one of the listeners (`via`): the launched router's TCP front,
the standalone one with keys, router.sock reached by relay or by a stranger.
`Arrive` is admission, mux and the choice of a handler; `Send` is one attempt,
with everything the upstream gets in a record of `sent`; `Fail`, `Inform`, `Respond`,
`Upgrade` and `Body` are what ReverseProxy makes of the upstream; `Return` is
the implied 200 of net/http and the model.request line.  `heading` is the
X-Relay-Model-Target of the header map, which outlives a failed attempt and is
wiped by a forwarded 1xx.  A body is the set of its leaves with who wrote each.
`UnreadCodes` are the refusals of a body that is too large, cut off or no JSON.  The
code has no 403 of its own (a peer that is not relay gets a 401, `router_socket.go:155`);
an upstream's is passed on and told as a denial (`router.go:865`).  What the code
does when it cannot build an attempt is left out: the body was parsed and the
URLs were validated before.

- `router`, its other half: every path with the models that tell something
  apart there, nine combinations of credentials, 1xx, failures, hang-ups:
  `UpstreamSees` (router keys and client credentials go only where they belong,
  trace IDs stay on the machine, every attempt's body is the client's with its
  own target's params) and `OutcomeTold` (the target header and the log line are
  what happened).  A failed attempt and a second is all the history there is.

### ChildOutput, DebugWindow, Settings, ModelSize

These run in `small_parts`, too.

`ChildOutput`: a full pipe blocks the child (`want`), a pump takes a line and
logs it in two steps, the limiter is shared by both.  `EveryLineCounted`: what
was taken is logged, reported or still counted; `ChildDrained`: a blocked write
returns, unless the stream had an overlong line.  One line of room, one line a
window and four lines let both streams block and a window roll with something dropped.
Fairness: pumps, close and a write that has room go on; the child owes nothing.

`DebugWindow`: the steps are the atomics of `checkWindow`, which a call passes in
`Enabled` and again in `Handle`.  `ExpiryOnce`.  Two goroutines and four calls let two
notice together and two begin after.

`Settings`: `LoadConfig` file by file, the four readings of a CA file
with a rewrite between any two, then connections of each transport.  Proxied
requests pass a redirect on to the client.  The model list is fetched with an
`http.Client` over the probe transport (`upstream_models.go:52`) that has no
`CheckRedirect`, so it follows what the endpoint answers, to any host and also from
https to http (`FollowRedirect`); net/http stops after ten, and keeps the
Authorization header while the host stays the same.  The transport still holds
a redirect to https to the CA file and the pins of the endpoint.  What a disk
may hold is `SettingsAssumption`: an override exists only under its flag, and the
minutes of an idle timeout that is no number are zero.
`LoadedAsWritten`: one source in force, read whole; and a load that fails found a
broken source or a fault in what it looked at.
`NeverDowngraded`: no clear text, foreign authority or wrong pin, but for a model
list that an endpoint redirects to http (section 6).  The disks are
every state of every file, one or two endpoints of each kind, good and bad.

`ModelSize`: the estimate is one step; `EstimateHonest` compares it with a cache
counted cell by cell, over headers with two or three layers, heads per layer or
for all, vectors given or derived, windows narrower and wider than the context.
What a header and a config.json may hold is `ModelSizeAssumption`: counts that are
not below zero, and no header in an empty file.

## 4. Properties that fail when the code is wrong

Every property of a passing run has a mutant in `PROJECT.json`: an operator of
the module (`..._NoCap`, `..._NoSignal`) that changes a definition as a bug would,
and under which TLC finds the property violated with the run's own bounds.

## 5. What is proved

Proofs are in `..._proofs.tla`; they assume only the named ASSUME of the
component's module (finite sets of aliases and callers, `None` outside them,
naturals where the code has counts, configurations of the shape the code
parses), and in three theorems hypotheses of their own, named below.  Each
theorem follows from an inductive invariant: the property, and what it needs of
the other steps.  Every such invariant held in a TLC run before it was proved.

### ServerManager_proofs

| Theorem | States | Inductive invariant, and why the property alone is not |
|---|---|---|
| `TypeCorrect`, `NoOrphans` | `TypeOK`, `NoOrphan` | `IInv`.  `JoinReturns` and `RemoveFailed` empty a slot without a look at the process, so it must be known what each stage of a call knows of its instance (`CallOK`), that a launch has one owner and is dead or dying when it is cleaned up (`LaunchOK`), that a ready process is healthy, dead or dying (`ProcOK`), and that a slot holds its own alias's process (`SlotOK`).  Steps that touch no process are dealt with once (`Calm`) |
| `PoolImplemented` | `Pool!SafeSpec` | `IInv`; each action of the manager is a step of the abstract pool under `status <- Status`, or a stutter.  A launch is the step that needs both budgets |
| `WithinBudget` | `BudgetHeld` | Carried over the refinement: `PoolKeepsBudget` proves the budgets of every step of the abstract pool.  The memory in use is a sum over the loaded aliases; that it is a natural, grows by what is added and falls by what is taken away (`SumIsNat`, `SumAdds`, `SumGrows`) is proved of the sum's recursive function by a minimal set at which it would not be so |
| `NothingIsWedged` | `NothingWedged` | `WedgeInv`: lease counts need to know who holds what at every stage (`LeasesCounted`, by cardinalities of holder sets), joiners need their owner to be still at it (`OwnerOK`), and a sleeper needs to be in the set the next close empties (`WaitersOK`) |

### ProxyRegistry_proofs

`OneProbe` (`SingleFlight`) and `Monotone` (`NeverOlder`), from `IInv`: a result about
to be stored is no older than the recorded one (`Dated`), which rests on there
being one probe, and tasks exist for what their call wants (`Spans`).
`SoundAnswers` (`AnswersSound`), from `Sound` on top of it, which says what a task
knows at each label (`TaskSound`): a waiter's channel has an owner that has yet to
close it; a result in hand is no older than its call and within the TTL, and
once recorded is not undone by an older one; and a task that is done leaves an
answer its call may use.

### VirtualRouter_proofs

`Bounded` (`CapHeld`) and `Exact` (`PinsExact`) of the store, from `AffinityInv`, which
adds `History`: an entry is the last record of its key, and a key without one
has expired or was pushed out by `Cap` later ones.  The eviction case counts the
survivors of the cap (`SurvivorsBounded`, `UsedSinceGrows`).

`OneServes` (`ServedByOne`), `FailsWhenAllDo` (`FailsAfterAll`) and `TypeCorrect` of
the requests, from `WalkInv`: the targets of a virtual model are the ones that
failed, the one being tried and the ones to come (`Walked`), which is what the
503 rests on; nothing was sent unless the recorder saw a write; a due pin that
has not failed is at the head of the walk or being tried, which rests on
`PinsExact` at the moment of `Pin` and on the store holding only declared targets
(`PinsAreDeclared`).  `CandidatesAreDeclared` and `AffinityReorders` say that neither
the registry's belief nor a pin adds or loses a candidate.

### Router_proofs

- Of `Dispatch`: `RoutesAgree` (`RoutedAlike`) and `DialectKept`
  (`VirtualKeepsDialect`).  `DispatchInv` says that a turn that has come to
  translation is of a key whose targets do not all speak Anthropic, and that
  all turns were served in their key's dialect; what makes it inductive is
  that the candidates are the targets that exist, whatever the registry
  believes (`CandidatesAre`, over `OnlyKeeps`).  `DialectKept` holds for any map.
  `RoutesAgree` assumes `Unchained`: no target of the map is a key of it.  That is
  needed, for the Anthropic route looks the map up twice (section 6).
- `CatalogTrue` (`CatalogHonest`), a fact of the configuration and any belief of
  the registry.  `RowOf` is the row a name should have, written from dispatch's
  own lookups.  Section by section, every row listed is the `RowOf` of its id
  (`ManagedListed`, `VirtuallyListed`, `RowsFound`) and every name the lookups find
  has it (`RowsPresent`), so there is at most one; `RowResolves` and
  `ServedIsListed` compare it with `ResolveName`, and `RowIsNoKey` keeps the rows of
  the map apart.  It assumes what the code does not check: endpoint names without
  a slash and models with a name (`Unslashed`), a name for each endpoint
  (`NamedApart`), no key that is the id of something else (`Unshadowed`).  Without
  the first or the last it is false, with the counterexamples of section 6; the
  configurations of the run satisfy all three.  Nothing is assumed of aliases,
  virtual names and the models of endpoints, which may collide.
- Of `RouterFront`: `UpstreamsSeeTheirs` (`UpstreamSees`) and `OutcomesTold`
  (`OutcomeTold`), from `FrontInv`.  `Located` says which upstreams can be left in
  each mode, so that what a handler is about to send suits the call that was
  admitted; `Headed` what the header map holds, which outlives attempts; `Told`
  ties the answer so far to that map and to the recorded status.

### RouterKeys_proofs

`TypeCorrect` and `NoKeyLost` (`KeysKept`), from `KeysInv`: besides the file, every
copy a command holds between its read and its rename must keep the added keys
and none of the revoked ones, unless another's rename came in between.
`AnswersFollowFile` (`InStepWithFile`), from `PollInv` on top of it: the store's copy is the file
of its time stamp (`Stamped`, `SameTime`), its last poll is less than an interval
ago, and what each system call of a poll has found was so when the poll began or has
changed since (`FileClosed`, `StatSound`, `DirClosed`).  It assumes `Granule = 1`,
without which it is false (section 6).

### Lifecycle_proofs

`TypeCorrect`, `ServesItsRelay` (`OnlyItsRelay`), `DrainsTcp` (`TcpDrained`) and
`StartsOverLeftovers` (`RestartsClean`), from `LInv`, which follows Main: besides the two
halves of `TypeOK` (`ControlOK`, `PeersOK`), what the program knows of relay at each
step (`Introduced`: nothing before Hello, the identity confirmed there after it),
that there is no connection before router.sock is there and that an admitted
one is from that identity (`Guarded`), and that the drain runs only once Main
serves and leaves the TCP front only when it is quiet (`Ordered`).

Of `Settings`: `EndpointsNeverDowngraded` (`NeverDowngraded`), from `SettingsInv`: a
transport's anchors are contents the CA file once had, in a load whose policy was
checked; a connection is of a loaded endpoint, and a redirected one is of its probe
transport.  `SourceLoadedWhole` (`LoadedAsWritten`), from `SourceInv`, which follows the
load from file to file: the endpoints prepared and those to do are together
those of the source in force, in its order (`WholeOf`), the models are those of
the sections read, and a file that was passed over was not there; and from
`ReasonInv`, which says that each step that gives up has met a fault of a source
the load may look at.

### Anthropic_proofs

- Of `AnthropicNative`: `NativeChargedOnce` (`NativeCounted`), from `UsageInv` and
  `CountInv`: the tap holds, for each field, the last report of what was read
  whole, whether the line being read is cut, whole or too long, and the answer
  to a count_tokens stands where the probe's status says.
- Of the pings: `NoPingAfterReturn` (`PingEnds`) and `OneWriter`, from `PingInv`: who
  holds the mutex, and that the handler is past the wait only when the ping
  goroutine is gone.
- `StreamWellFormed` (`WellFormed`), from `StreamInv`: what the client was sent is a
  stream with the translator's blocks so far, the text's open, and closed once
  the handler is gone (`Stream`, `Formed`).  The events of one chunk and the calls
  flushed at the end are loops, and a loop adds whole blocks however often it runs.
- `ReplyReachesClient` (`ReplyShown`), from `SaidInv` and `ShownInv`: the translator
  holds the text, the pieces of each call and the reason of all that was said
  (`TextSaid`, `CallPieces`), the blocks sent hold what the translator sent
  (`TextHeld`), and nothing decides the client's status before the reply does.
  What is kept of each call while its pieces come interleaved with another's is
  compared, chunk by chunk, with the filter of all of them.
- `ConversationTranslated` (`ConversationKept`), for any number of turns with any
  blocks.  Both sides of it are concatenations over the messages, so that it is
  enough to look at one turn: what is gathered from the messages of a turn is
  what is chosen of its places (`TurnKept`), and gathering, choosing and mapping
  commute with concatenation (`GatherFlat`, `OnlyFlat`, `MapFlat`, all from
  `FlatHomomorphism`).  For the answers it must be known where each turn's
  messages are in the result (`FlatPlaces`): a call's answers follow it because
  the turns between send nothing (`NothingBetween`), a user's results come first
  (`UserAnswers`), and there are as many of them as calls (`SameLength`).

### SmallParts_proofs

- Ports: `NoPortTwice` (`AllocatedApart`) and `NoStray` (`NoSquatter`), from `PortsIInv`.
  `Counted` adds that the ports allocated in a life lie behind `nextPort`,
  whatever became of their launches; `Polled`, that what is on the port of a
  launch being polled came there after the launch, which the preflight test
  gives it under the mutex.
- The debug window: `WindowExpiresOnce` (`ExpiryOnce`), from `WindowInv`: the swap
  is won once, by a call that has yet to write the notice or has written it, and
  what a call knows of the window at each step (`CallSound`).
- The output of a child: `EveryLineAccounted` (`EveryLineCounted`), from `ChildInv`,
  an equation between what was taken, logged, reported, dropped and in a pump's hands.
- The proxy metrics: `NoneMissed` (`ListedOnce`) and `SilenceIsShown` (`SilenceShows`),
  from `MetricsInv`: a request is in the map or in one slot of the ring (`Placed`),
  the slots before `next` are the last ones to finish, in order, also when it has
  wrapped (`RingKept`), what a poll has read of a silent response was so when
  it began (`ReadInTime`), and what a response notes after a poll came to it is no
  older than the poll (`HeedsWrites`).
- The rate: `RatesHonest` (`RateHonest`), from `RateIInv`: one writer at a time
  rolls the bucket, in the tick it began (`OneRolls`), and the two buckets, with
  what is on its way between them and the bytes of writers in the middle of an
  `add`, are weighed against what was written by the end of each tick (`BytesKept`).
- The estimate: `EstimatesHonest` (`EstimateHonest`).  Its state is one step, and the
  work is in the numbers: a loop's sum is the size of a union of sets with nothing
  in common (`SumOfCardinalities`), a layer's bytes are its cells, each with its
  weight (`CellsOfLayer`, `SumLinear`), so that the cache computed is the one counted
  (`CacheCounted`); and the pattern of the shards matches the model's own
  (`OwnAreSiblings`).

### Only model-checked

- Liveness (`AcquireReturns`, `AlwaysAnswers`, `Settles`, `Finishes`, `ChildDrained`,
  and the liveness half of `ImplementsPool`): the prover has no ENABLED.  The
  safety half of the refinement is `PoolImplemented`.  Every safety invariant of
  the runs, and every action property of theirs, is a theorem.

`TypeOK`s of the modules without a `TypeCorrect` document the variables and can be
added to any run.

## 6. Departures of the code from its documents

Two runs are expected to fail:

- `evict_leased` (`EvictionSparesLeases`): `Acquire` chooses a victim under the
  lock, unlocks (`server_manager.go:482`) and calls `StopInstance`, which does
  not look at leases.  A lease taken in between loses its server in mid-turn.
  `server_manager.go:110`: "An instance with leases > 0 is mid-turn and must
  never be evicted".
- `anthropic_error` (`ErrorKeepsStatus`): ReverseProxy flushes an error body
  after every write, `Flush` is gated on `wantStream` only
  (`router_anthropic.go:523`), and net/http sends 200 before `finish` writes the
  mapped status.  `router_anthropic.go:418`: a failure is to "surface as a real
  Anthropic error".

The following are stated as properties and have no run.  Each is seen to fail by
putting it in the place of the properties of the component's cfg; action properties (marked PROPERTY)
go under PROPERTY, the others under INVARIANT, and a change of the cfg is given where one is needed.

| Property, cfg | The code | What its documents say |
|---|---|---|
| `ReapSparesLeases` (PROPERTY), ServerManager | `ReapIdle` stops aliases listed before, without a second look (`server_manager.go:858`) | `:111` "the idle reaper and the LRU victim search both skip it" |
| `StopAllLeavesNone` (PROPERTY), ServerManager | a launch after StopAll's snapshot is alive when it returns (`:1013`) | `:996` "StopAll terminates every managed process concurrently" |
| `SuccessRetiresFailure`, ServerManagerLive | a loader records its failure after another launch retired it (`:1237`) | `:705` "A successful launch retires any recorded failure for this alias" |
| `ProbesOnlyStale` (PROPERTY), ProxyRegistry | `probe` does not look at the entry again after `isFresh` (`registry.go:140`) | `registry.go:126` "concurrent callers for the same cold endpoint share one network round trip" |
| `AnsweredIsPinned` (PROPERTY), VirtualRouter | a stream broken after its header leaves by a panic that skips the pin (`router_virtual.go:392`) | `README.md:146` "once a target has answered, the router pins the conversation to it" |
| `HeaderNamesTarget`, VirtualRouter without VIEW | a forwarded 1xx empties the header map set before it (`router_virtual.go:323`) | `router.go:503` relay "reads this off every proxied response" |
| `NeverSilent` (PROPERTY), VirtualRouter | a 1xx counts as a write; a failure after it ends the walk with nothing written (`router_virtual.go:454`) | `README.md:139` "only fails (503) when every target genuinely fails" |
| `InStepWithFile`, RouterKeys with `Granule = 2` | an equal mtime is taken for equal contents (`keys.go:371`) | `keys_test.go:427` "a revoked key still authenticated after its poll window" |
| `DrainedFirst`, Lifecycle | `Shutdown` makes `Serve` return at once, so the pools stop while the socket drains (`app.go:331`) | `app.go:310` "drain HTTP requests, then stop managed model servers" |
| `NotInstantlyStalled`, StatusPage | `headerNano` is published before `lastWriteNano` (`status_metrics.go:303`) | `:305` "which would otherwise read as instantly stalled" |
| `TrailingOnly`, StatusPage | the expired bucket becomes `prev` whatever its age (`status_metrics.go:191`) | `:197` "rate returns bytes/sec over the trailing window" |
| `CutShows`, AnthropicStream | a broken body is closed as a complete message (`router_anthropic.go:640`) | `:612` "end the stream with an in-band error event" |
| `CountAnsweredAlways`, AnthropicStream | a 1xx decides the count_tokens probe, so a 404 after it goes to the client, under an implied 200 (`router_anthropic_native.go:361`) | `:344` "any other status is relayed verbatim" |
| `AnswerShown`, AnthropicStream | the first `WriteHeader` decides, and may be a 1xx (`router_anthropic.go:467`) | `:416` "a 200 begins the Anthropic-shaped response" |
| `AlwaysAcknowledged`, SmallParts | the client of the model list follows a redirect to http, to whatever host (`upstream_models.go:52`) | `endpoint_tls.go:65` "http is only reachable unconditionally when the host is loopback, otherwise only when allowPlaintext opts the deployment into an acknowledged-unencrypted hop" |
| `SameRoute`, Router with `Configs <- ChainConfigs` | the Anthropic route looks the map up twice (`router_anthropic.go:366`) | `router_models.go:183` "dispatch, which resolves the map only once" |
| `RowServes`, Router with `ShadowConfigs` | a key that equals an alias is listed as the alias, dispatched as the key (`router_models.go:201`) | `router_models.go:25` "the row that will actually serve a request for that id" |
| `RowServes`, Router with `SlashConfigs` | ids of an endpoint with "/" in its name are listed and not found (`router_models.go:147`) | the same |
| `DeclaredSkipsTranslation`, Router | two lookups of the registry in one request (`router_anthropic_native.go:105`) | `router_anthropic.go:11` such a target "skips the translation" |

Modelled as the code has them, and excepted by name in the properties:

- When every target of a virtual model fails, the 503 (or a native 502) carries
  the last candidate's X-Relay-Model-Target, which `router_virtual.go:319`
  supposes is on no wire unless that candidate answered (`TargetHonest` lets
  an error of the router's own name any target of the model).
- A forwarded 1xx wipes X-Relay-Model-Target from the answer that follows, and the
  1xx itself carries the upstream's X-Relay-* headers, which `router.go:607`
  rules out "by construction".  A passthrough strips nothing, and a transcription
  has no such header at all.
- After a 1xx the translated path and the count_tokens probe ignore the final
  status: the answer goes out under an implied 200.
- A caller that hangs up between candidates leaves a line that says ok and 200.
- A managed target of a virtual model is sent the virtual name, the native path
  injects no virtual params, and count_tokens of a virtual model is the estimate.
- `cmd.Wait` closes the pipes while lines may still be in them; lines dropped in a
  window are reported with the next line or at the close, and not before.
- A line past 8 MiB ends the pump of its pipe (`ChildDrained`, `overlong`).
- A debug line may be written after the deadline by a call that was let through before it.
- A CA file rewritten during a load may give the three transports of one
  endpoint different anchors, "same TLS pinning" (`openai.go:63`) notwithstanding.
- An absent `--openai-config` file is passed over in silence.
- A broken GGUF header makes the whole size unknown, a broken MLX config only
  the cache; shards are matched by `name-*`, so `name-other-00001-of-...` counts, too.
- Once `nextPort` has passed 65535 nothing without a port of its own launches
  until relayLLM restarts (`NoPort`).

## 7. Bounds in one place

`Procs`, `MaxNow`, `MaxStarts`, `MaxVersion`, `MaxKeys`, `MaxChunks`, `MaxLines`,
`MaxMessages`, `MaxBytes`, `MaxTick`, `MaxLaunches`, `MaxLives`, `MaxClock`,
`MaxSeconds`, `MaxLogCalls` and `MaxRewrites` bound the models and stand for nothing in the code.  `TTL`, `Cap`,
`PollInterval`, `Window`, `LineWindow`, `PerWindow`, `Deadline`, the stall
thresholds, `LastPort`, `ScanAttempts`, `MaxKVCount` and `DefaultContext` are the code's constants in
ticks, ports or counts, small enough to be crossed.  At most one 1xx comes
before an attempt's answer.  Where a run switches the deadlock check
off, the bounded clock, the bounded number of keys, starts or requests, or the
end of the one exchange modelled, lets the model stop.

## 8. What is not modelled, and what comes next

Not modelled, because nothing in it interleaves or keeps state that a property
could be about: JSON and GGUF syntax and the splicing of JSON or multipart text, tool schemas
and copied parameters of the translation, the wire format of relay's bridge,
the format and redaction of log lines, metadata and order of catalog rows, the
status API and its page, `WriteConfigPTY` (which no program calls), and the
transports' dial timeouts.  `ModelSize` does not take numbers to the width of
a machine integer, nor counts below zero.

Next, in this order:

1. A composition of `ServerManager` with the virtual router's attempts, in which
   a candidate's lease is a real lease; it is left because each half alone
   already fills its run.
2. The remaining type invariants, which document the variables of the modules
   whose proofs did not need them.
