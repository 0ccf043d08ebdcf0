------------------------------ MODULE Lifecycle ------------------------------
(***************************************************************************)
(* One relayLLM program from internal/app's Main to its end, again and     *)
(* again: the order its listeners come up in, the goroutine that registers *)
(* it with relay, the goroutine that waits for SIGTERM and drains the two  *)
(* status fronts, and Main's own shutdown, which stops the model servers.  *)
(* The sockets are files that outlive a killed program.                    *)
(*                                                                         *)
(* Relay is a process outside the program, and so is a stranger that may   *)
(* dial router.sock; either may end and another take its place, with a pid *)
(* that was used before but a pidversion that was not.                     *)
(*                                                                         *)
(* The model servers are those of ServerManager: here stopping them is one *)
(* step, after which the program exits and every open request is cut.      *)
(***************************************************************************)
EXTENDS Naturals

CONSTANTS
    Unix,           \* requests that come in over the status socket
    Tcp,            \* requests that come in over --http-port
    Modes,          \* how the program may be started
    Pids,           \* the pids of the processes outside
    MaxVersion,     \* bound: processes outside in a behaviour
    MaxStarts,      \* bound: starts of the program in a behaviour
    None            \* no process

ASSUME LifecycleAssumption ==
    /\ Unix \cap Tcp = {}
    /\ Modes \subseteq {"standalone", "launched"} /\ Modes # {}
    /\ MaxStarts \in Nat /\ MaxVersion \in Nat /\ Pids \subseteq Nat \ {0}
    /\ None \notin [pid : Pids, version : 1..MaxVersion]

VARIABLES
    main,           \* where Main is
    mode,           \* standalone, or launched by relay (Hello succeeded)
    starts,         \* starts so far
    socket,         \* the status socket's file
    routerSocket,   \* router.sock
    registrar,      \* the goroutine registerWithRelay
    host,           \* relay has agreed to dial router.sock
    identity,       \* the process RelayIdentity returns; launched once it is one
    link,           \* a connection to router.sock
    outside,        \* the processes outside: relay and the stranger
    helloed,        \* the process that accepted the Hello, by the pid it gave (history)
    drain,          \* the goroutine that waits for SIGTERM
    deadline,       \* the drain's five seconds are over
    request,        \* the requests of the two fronts
    ended           \* how the program last ended

relayVars == <<identity, link, outside, helloed>>
Listeners == <<socket, routerSocket, registrar, host, drain>>
vars == <<main, mode, starts, socket, routerSocket, registrar, host, drain, deadline, request,
          ended, relayVars>>

Processes == [pid : Pids, version : 1..MaxVersion]
Launched == identity # None

Requests == Unix \cup Tcp
Files == {"none", "live", "stale"}

TypeOK ==
    /\ main \in {"down", "bootstrap", "secret", "hello", "router", "routerSocket", "socket", "http", "serving", "closing", "stopping"}
    /\ mode \in {"standalone", "launched"} /\ starts \in 0..MaxStarts
    /\ socket \in Files /\ routerSocket \in Files
    /\ registrar \in {"off", "manifest", "host", "done"} /\ host \in BOOLEAN
    /\ drain \in {"off", "starting", "armed", "tcp", "unix", "over"} /\ deadline \in BOOLEAN
    /\ request \in [Requests -> {"idle", "active", "answered", "cut"}]
    /\ ended \in {"never", "shutdown", "failed", "refused", "in use", "killed"}
    /\ identity \in Processes \cup {None} /\ helloed \in Processes \cup {None}
    /\ outside \in [{"relay", "stranger"} -> Processes]
    /\ link \in [from : Processes, admitted : BOOLEAN] \cup {None}
    /\ main \in {"closing", "stopping"} => drain \in {"unix", "over"}

Init ==
    /\ main = "down" /\ mode \in Modes /\ starts = 0
    /\ socket = "none" /\ routerSocket = "none"
    /\ registrar = "off" /\ host = FALSE
    /\ drain = "off" /\ deadline = FALSE
    /\ request = [r \in Requests |-> "idle"]
    /\ ended = "never"
    /\ identity = None /\ link = None /\ helloed = None
    /\ outside \in [{"relay", "stranger"} -> Processes]
    /\ outside.relay.version = 1 /\ outside.stranger.version = 2
    /\ outside.relay.pid # outside.stranger.pid

(* Main got as far as step; nothing but the named variables changes.       *)
At(step) == main = step
Go(step) == main' = step /\ UNCHANGED <<mode, starts, deadline, request, ended, outside>>

(* The process is gone and its requests are cut; a socket file it had not  *)
(* closed stays behind.                                                    *)
LeftBehind(f) == IF f = "live" THEN "stale" ELSE f

Exit(how) ==
    /\ main' = "down" /\ ended' = how
    /\ socket' = LeftBehind(socket) /\ routerSocket' = LeftBehind(routerSocket)
    /\ registrar' = "off" /\ host' = FALSE /\ drain' = "off"
    /\ request' = [r \in Requests |-> IF request[r] = "active" THEN "cut" ELSE request[r]]
    /\ identity' = None /\ link' = None /\ helloed' = None
    /\ UNCHANGED <<mode, starts, deadline, outside>>

-----------------------------------------------------------------------------
(* Main, until it serves.                                                  *)

Start ==
    /\ At("down") /\ starts < MaxStarts
    /\ main' = "bootstrap" /\ mode' \in Modes /\ starts' = starts + 1
    /\ deadline' = FALSE
    /\ request' = [r \in Requests |-> "idle"]
    /\ UNCHANGED <<socket, routerSocket, registrar, host, drain, ended, relayVars>>

(* A start whose descriptor, secret, handshake, configuration, port or     *)
(* path cannot be used ends at once, whichever listeners it already has.   *)
Fail ==
    /\ main \in {"bootstrap", "secret", "hello", "router", "routerSocket", "socket", "http"}
    /\ mode = "launched" \/ main # "bootstrap"
    /\ Exit("failed")

(* BootstrapLaunch: RELAY_LAUNCH_FD is set when relay starts the program.  *)
BootstrapLaunch ==
    /\ At("bootstrap") /\ Go(IF mode = "launched" THEN "secret" ELSE "router")
    /\ UNCHANGED <<Listeners, identity, link, helloed>>

ReadLaunchSecret ==
    /\ At("secret") /\ Go("hello")
    /\ UNCHANGED <<Listeners, identity, link, helloed>>

(* Hello: who accepted the connection is the kernel's word, the pid in the *)
(* reply and the service it names are relay's; they must agree.  Relay     *)
(* answers, or somebody else that has the bridge's socket.                 *)
Agreed(peer, pid, serviceMatches) == pid = peer.pid /\ pid # 0 /\ serviceMatches

Hello(who, pid, serviceMatches) ==
    LET peer == outside[who] IN
    /\ At("hello")
    /\ IF Agreed(peer, pid, serviceMatches)
         THEN /\ Go("router")
              /\ identity' = peer /\ helloed' = [peer EXCEPT !.pid = pid]
              /\ UNCHANGED <<Listeners, link>>
         ELSE Exit("failed")

(* A launched program refuses a router port, so only a standalone one has  *)
(* its router on TCP.                                                      *)
RefusePort == At("router") /\ Launched /\ Exit("refused")

ServeRouter ==
    /\ At("router") /\ Go("routerSocket")
    /\ UNCHANGED <<Listeners, identity, link, helloed>>

(* Listening on a path that exists fails: the file must go first.          *)
Removed_Not(f) == f  \* mutant: the file of an earlier run is left in place

Removed(f) == "none"

ListenSocket ==
    /\ At("routerSocket")
    /\ IF Launched /\ Removed(routerSocket) # "none"
         THEN Exit("in use")
         ELSE /\ Go("socket")
              /\ routerSocket' = IF Launched THEN "live" ELSE routerSocket
              /\ UNCHANGED <<socket, registrar, host, drain, identity, link, helloed>>

ListenStatus ==
    /\ At("socket")
    /\ IF Removed(socket) # "none"
         THEN Exit("in use")
         ELSE /\ Go("http") /\ socket' = "live"
              /\ UNCHANGED <<routerSocket, registrar, host, drain, identity, link, helloed>>

(* The TCP front is bound, both goroutines start, and Main serves.         *)
Serve ==
    /\ At("http") /\ Go("serving")
    /\ registrar' = "manifest" /\ drain' = "starting"
    /\ UNCHANGED <<socket, routerSocket, host, identity, link, helloed>>

-----------------------------------------------------------------------------
(* registerWithRelay: a failed manifest is tolerated, a refused model host *)
(* ends the program.  Whoever has the bridge's socket by now answers.      *)
RegisterManifest ==
    /\ registrar = "manifest"
    /\ registrar' = IF Launched THEN "host" ELSE "done"
    /\ UNCHANGED <<main, mode, starts, socket, routerSocket, host, drain, deadline, request, ended,
                   relayVars>>

RegisterModelHost ==
    /\ registrar = "host"
    /\ registrar' = "done" /\ host' = TRUE
    /\ UNCHANGED <<main, mode, starts, socket, routerSocket, drain, deadline, request, ended,
                   relayVars>>

Refused ==
    /\ registrar = "host"
    /\ Exit("refused")

-----------------------------------------------------------------------------
(* Shutdown.                                                               *)
DrainStep ==
    UNCHANGED <<main, mode, starts, routerSocket, registrar, host, request, ended, relayVars>>

Notify ==
    /\ drain = "starting" /\ drain' = "armed"
    /\ DrainStep /\ UNCHANGED <<socket, deadline>>

(* SIGTERM before Notify kills the program; later ones are not looked at.  *)
Sigterm ==
    \/ main # "down" /\ drain \in {"off", "starting"} /\ Exit("killed")
    \/ drain = "armed" /\ drain' = "tcp" /\ DrainStep /\ UNCHANGED <<socket, deadline>>

Deadline ==
    /\ drain \in {"tcp", "unix"} /\ ~deadline /\ deadline' = TRUE
    /\ DrainStep /\ UNCHANGED <<socket, drain>>

Quiet_NoTimeout(front) ==  \* mutant: the drain has no budget
    \A r \in front : request[r] # "active"

Quiet(front) == deadline \/ \A r \in front : request[r] # "active"

(* tcpServer.Shutdown has returned; server.Shutdown is called, closes the  *)
(* status listener, which removes its file, and makes Serve return.        *)
ShutdownTcp_Skips ==  \* mutant: both fronts are shut down together
    /\ drain = "tcp"
    /\ drain' = "unix" /\ socket' = "none"
    /\ DrainStep /\ UNCHANGED deadline

ShutdownTcp ==
    /\ drain = "tcp" /\ Quiet(Tcp)
    /\ drain' = "unix" /\ socket' = "none"
    /\ DrainStep /\ UNCHANGED deadline

ShutdownUnix ==
    /\ drain = "unix" /\ Quiet(Unix)
    /\ drain' = "over" /\ socket' = "none"
    /\ DrainStep /\ UNCHANGED deadline

ServeReturns ==
    /\ At("serving") /\ drain \in {"unix", "over"}
    /\ Go("closing")
    /\ UNCHANGED <<Listeners, identity, link, helloed>>

(* relayRouter.Close cuts the router's connections and removes router.sock. *)
CloseRouter ==
    /\ At("closing") /\ Go("stopping")
    /\ routerSocket' = IF routerSocket = "live" THEN "none" ELSE routerSocket
    /\ link' = None
    /\ UNCHANGED <<socket, registrar, host, drain, identity, helloed>>

(* Every manager's StopAll, and Main returns.                              *)
StopManagers == At("stopping") /\ Exit("shutdown")

Kill == main # "down" /\ Exit("killed")

-----------------------------------------------------------------------------
(* Clients of the status fronts.                                           *)
Accepting(r) ==
    /\ At("serving")
    /\ drain \in IF r \in Tcp THEN {"starting", "armed"} ELSE {"starting", "armed", "tcp"}

Moves(r, from, to) ==
    /\ request[r] = from
    /\ request' = [request EXCEPT ![r] = to]
    /\ UNCHANGED <<main, mode, starts, Listeners, deadline, ended, relayVars>>

Arrive(r) == Accepting(r) /\ Moves(r, "idle", "active")
Finish(r) == Moves(r, "active", "answered")

-----------------------------------------------------------------------------
(* The processes outside, and router.sock.  Admission is decided once, when *)
(* the connection is accepted, by the kernel's word on its far end.         *)
OutsideOnly ==
    UNCHANGED <<main, mode, starts, Listeners, deadline, request, ended, identity, helloed>>

Admits_ByPid(p) == Launched /\ p.pid = identity.pid  \* mutant: a recycled pid will do

Admits(p) == Launched /\ p = identity

Dial(who) ==
    /\ routerSocket = "live" /\ link = None
    /\ link' = [from |-> outside[who], admitted |-> Admits(outside[who])]
    /\ OutsideOnly /\ UNCHANGED outside

(* A connection that was not admitted is closed with its first answer.     *)
Hangup == link # None /\ link' = None /\ OutsideOnly /\ UNCHANGED outside

(* A process ends, and its connection with it; its pid may be given again. *)
Reborn(who) ==
    /\ \E pid \in Pids, version \in 1..MaxVersion :
         /\ \A other \in {"relay", "stranger"} :
              /\ version > outside[other].version
              /\ other # who => pid # outside[other].pid
         /\ outside' = [outside EXCEPT ![who] = [pid |-> pid, version |-> version]]
    /\ link' = IF link # None /\ link.from = outside[who] THEN None ELSE link
    /\ OutsideOnly

MainStep ==
    \/ BootstrapLaunch \/ ReadLaunchSecret
    \/ \E who \in DOMAIN outside, pid \in Pids \cup {0}, same \in BOOLEAN : Hello(who, pid, same)
    \/ RefusePort \/ ServeRouter \/ ListenSocket \/ ListenStatus \/ Serve
    \/ ServeReturns \/ CloseRouter \/ StopManagers
Registration == RegisterManifest \/ RegisterModelHost \/ Refused
Shutdown == Notify \/ Deadline \/ ShutdownTcp \/ ShutdownUnix

Next ==
    \/ Start \/ Fail \/ Kill \/ Sigterm
    \/ MainStep \/ Registration \/ Shutdown
    \/ \E r \in Requests : Arrive(r) \/ Finish(r)
    \/ \E who \in DOMAIN outside : Dial(who) \/ Reborn(who)
    \/ Hangup

Spec == Init /\ [][Next]_vars

(* The program's own goroutines run and its timers fire; nobody owes it a  *)
(* signal, an answer in time or a client that reads.                       *)
FairSpec == Spec /\ WF_vars(MainStep) /\ WF_vars(Registration) /\ WF_vars(Shutdown)

-----------------------------------------------------------------------------
(* Properties.                                                             *)

(* No start fails because of what a killed program left behind: "replacing *)
(* any stale file a prior crashed process left" (router_socket.go).        *)
RestartsClean == ended # "in use"

(* Past its handshake a program believes itself launched exactly when relay *)
(* launched it ("degrading to standalone would leave the two disagreeing",  *)
(* launch.go), and router.sock serves nobody but the process that accepted  *)
(* the Hello and gave its own pid, though pids are given again.             *)
OnlyItsRelay ==
    /\ main \notin {"down", "bootstrap", "secret", "hello"} => (Launched <=> mode = "launched")
    /\ link # None /\ link.admitted => link.from = helloed

(* Main closes the router and stops the model servers only after the TCP   *)
(* front has drained or the five seconds are over.                         *)
TcpDrained ==
    main \in {"closing", "stopping"} => deadline \/ \A r \in Tcp : request[r] # "active"

(* The comment over the shutdown goroutine, for both fronts: "drain HTTP   *)
(* requests, then stop managed model servers" (app.go).  It does not hold  *)
(* for the status socket: server.Shutdown makes Serve return at once.      *)
DrainedFirst ==
    main = "stopping" => deadline \/ \A r \in Requests : request[r] # "active"

(* A SIGTERM that is received ends the program, even under a client that   *)
(* never finishes.                                                         *)
SigtermEnds == drain = "tcp" ~> main = "down"

(* A launched program that serves becomes relay's model host or ends: it   *)
(* never runs on believing relay will dial it.                             *)
HostOrExit == main = "serving" /\ mode = "launched" ~> host \/ main = "down"

(* Under the clock of its own timeouts a program always gets where it is   *)
(* going: down after the signal, to relay or down after a launch.          *)
Settles == SigtermEnds /\ HostOrExit
=============================================================================
