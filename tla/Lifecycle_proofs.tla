-------------------------- MODULE Lifecycle_proofs --------------------------
(***************************************************************************)
(* Who router.sock serves and what is drained before the router closes,    *)
(* for any requests, pids, processes and number of starts.  The argument   *)
(* runs along Main: what a program knows of relay, and which listener and  *)
(* goroutine it has, is settled by how far Main has come.                  *)
(*                                                                         *)
(* The second part is about the settings Main loads before it opens any    *)
(* door: what is loaded is one source's, whole, and an endpoint that was   *)
(* prepared is never spoken to with less than the policy asks.             *)
(***************************************************************************)
EXTENDS Lifecycle, Settings, TLAPS

\* Main has not finished its handshake, or has yet to listen on router.sock.
Early == {"down", "bootstrap", "secret", "hello"}
Deaf == Early \cup {"router", "routerSocket"}

\* What Main knows of relay at each step.
Introduced ==
    /\ main \in Early => identity = None
    /\ main \in {"secret", "hello"} => mode = "launched"
    /\ main \notin Early => (Launched <=> mode = "launched")
    /\ helloed = identity

\* Nobody has a connection before router.sock is there, and one that was
\* admitted is from relay's own process.
Guarded ==
    /\ main \in Deaf => routerSocket # "live" /\ link = None
    /\ link # None /\ link.admitted => link.from = identity

\* The goroutine that drains runs once Main serves, and has left the TCP front
\* only when it was quiet.
Ordered ==
    /\ drain # "off" => main \in {"serving", "closing", "stopping"}
    /\ drain \in {"unix", "over"} => Quiet(Tcp)

\* The two halves of TypeOK: where the program stands, and whom it deals with.
ControlOK ==
    /\ main \in {"down", "bootstrap", "secret", "hello", "router", "routerSocket", "socket", "http",
                "serving", "closing", "stopping"}
    /\ mode \in {"standalone", "launched"}
    /\ socket \in Files /\ routerSocket \in Files
    /\ registrar \in {"off", "manifest", "host", "done"} /\ host \in BOOLEAN
    /\ drain \in {"off", "starting", "armed", "tcp", "unix", "over"} /\ deadline \in BOOLEAN
    /\ ended \in {"never", "shutdown", "failed", "refused", "in use", "killed"}
    /\ main \in {"closing", "stopping"} => drain \in {"unix", "over"}

PeersOK ==
    /\ starts \in 0..MaxStarts
    /\ request \in [Requests -> {"idle", "active", "answered", "cut"}]
    /\ identity \in Processes \cup {None} /\ helloed \in Processes \cup {None}
    /\ outside \in [{"relay", "stranger"} -> Processes]
    /\ link \in [from : Processes, admitted : BOOLEAN] \cup {None}

LInv == ControlOK /\ PeersOK /\ Introduced /\ Guarded /\ Ordered

\* How a program may end.
Endings == {"shutdown", "failed", "refused", "in use", "killed"}

\* Before the first start.
LEMMA InitLInv == Init => LInv
  <1> SUFFICES ASSUME Init PROVE LInv
    OBVIOUS
  <1>1. ControlOK
    BY LifecycleAssumption DEF Init, ControlOK, Files
  <1>2. PeersOK
    BY LifecycleAssumption DEF Init, PeersOK
  <1>3. Introduced /\ Guarded /\ Ordered
    BY DEF Init, Introduced, Guarded, Ordered, Early, Deaf
  <1> QED
    BY <1>1, <1>2, <1>3 DEF LInv

\* However a program ends, it takes its knowledge, its connections and its
\* goroutines with it.
LEMMA ExitInv == ASSUME LInv, NEW how \in Endings, Exit(how) PROVE LInv'
  <1>1. ControlOK'
    BY DEF LInv, ControlOK, Exit, Endings, LeftBehind, Files
  <1>4. PeersOK'
    BY DEF LInv, PeersOK, Exit
  <1>2. main' = "down" /\ identity' = None /\ helloed' = None /\ link' = None /\ drain' = "off"
    BY DEF Exit
  <1>3. routerSocket' # "live"
    BY DEF Exit, LeftBehind
  <1> QED
    BY <1>1, <1>2, <1>3, <1>4 DEF LInv, Introduced, Guarded, Ordered, Early, Deaf

\* Steps of clients and of the processes outside leave the program where it is.
LEMMA ControlFrame ==
    ASSUME ControlOK, Introduced,
           UNCHANGED <<main, mode, Listeners, deadline, ended, identity, helloed>>
    PROVE  ControlOK' /\ Introduced'
  <1>1. /\ main' = main /\ mode' = mode /\ socket' = socket /\ routerSocket' = routerSocket
        /\ registrar' = registrar /\ host' = host /\ drain' = drain /\ deadline' = deadline
        /\ ended' = ended
    BY DEF Listeners
  <1>2. identity' = identity /\ helloed' = helloed
    OBVIOUS
  <1>5. host' \in BOOLEAN /\ deadline' \in BOOLEAN
    BY <1>1 DEF ControlOK
  <1>6. /\ main' = main /\ mode' = mode /\ socket' = socket /\ routerSocket' = routerSocket
        /\ registrar' = registrar /\ drain' = drain /\ ended' = ended
    BY <1>1
  <1>3. ControlOK'
    BY <1>5, <1>6 DEF ControlOK
  <1>4. Introduced'
    BY <1>1, <1>2 DEF Introduced, Launched
  <1> QED
    BY <1>3, <1>4

\* Main on its way up: it knows relay once the handshake is done, and listens
\* on router.sock after that.
LEMMA UpInv ==
    ASSUME LInv, \/ Start \/ BootstrapLaunch \/ ReadLaunchSecret \/ ServeRouter \/ ListenSocket
                 \/ ListenStatus \/ Serve
    PROVE  LInv'
  <1>1. CASE Start
    <2>1. ControlOK'
      <3>1. mode' \in {"standalone", "launched"}
        BY <1>1, LifecycleAssumption DEF Start
      <3>2. /\ main' = "bootstrap" /\ deadline' = FALSE /\ socket' = socket
            /\ routerSocket' = routerSocket /\ registrar' = registrar /\ host' = host
            /\ drain' = drain /\ ended' = ended
        BY <1>1 DEF Start
      <3> QED
        BY <3>1, <3>2 DEF LInv, ControlOK
    <2>2. PeersOK'
      BY <1>1, LifecycleAssumption DEF LInv, PeersOK, At, Go, Listeners, relayVars, Start
    <2>3. Introduced'
      BY <1>1, LifecycleAssumption DEF LInv, PeersOK, Introduced, Early, Launched, Processes, At, Go, Listeners, relayVars, Start
    <2>4. Guarded'
      BY <1>1 DEF LInv, Guarded, Deaf, Early, At, Go, Listeners, relayVars, Start
    <2>5. Ordered'
      BY <1>1 DEF LInv, Ordered, Quiet, At, Go, Listeners, relayVars, Start
    <2> QED
      BY <2>1, <2>2, <2>3, <2>4, <2>5 DEF LInv
  <1>2. CASE BootstrapLaunch
    <2>1. ControlOK'
      BY <1>2 DEF LInv, ControlOK, Ordered, Files, At, Go, Listeners, relayVars, BootstrapLaunch
    <2>2. PeersOK'
      BY <1>2, LifecycleAssumption DEF LInv, PeersOK, At, Go, Listeners, relayVars, BootstrapLaunch
    <2>3. Introduced'
      BY <1>2, LifecycleAssumption DEF LInv, PeersOK, Introduced, Early, Launched, Processes, At, Go, Listeners, relayVars, BootstrapLaunch
    <2>4. Guarded'
      BY <1>2 DEF LInv, Guarded, Deaf, Early, At, Go, Listeners, relayVars, BootstrapLaunch
    <2>5. Ordered'
      BY <1>2 DEF LInv, Ordered, Quiet, At, Go, Listeners, relayVars, BootstrapLaunch
    <2> QED
      BY <2>1, <2>2, <2>3, <2>4, <2>5 DEF LInv
  <1>3. CASE ReadLaunchSecret
    <2>1. ControlOK'
      BY <1>3 DEF LInv, ControlOK, Ordered, Files, At, Go, Listeners, relayVars, ReadLaunchSecret
    <2>2. PeersOK'
      BY <1>3, LifecycleAssumption DEF LInv, PeersOK, At, Go, Listeners, relayVars, ReadLaunchSecret
    <2>3. Introduced'
      BY <1>3, LifecycleAssumption DEF LInv, PeersOK, Introduced, Early, Launched, Processes, At, Go, Listeners, relayVars, ReadLaunchSecret
    <2>4. Guarded'
      BY <1>3 DEF LInv, Guarded, Deaf, Early, At, Go, Listeners, relayVars, ReadLaunchSecret
    <2>5. Ordered'
      BY <1>3 DEF LInv, Ordered, Quiet, At, Go, Listeners, relayVars, ReadLaunchSecret
    <2> QED
      BY <2>1, <2>2, <2>3, <2>4, <2>5 DEF LInv
  <1>4. CASE ServeRouter
    <2>1. ControlOK'
      BY <1>4 DEF LInv, ControlOK, Ordered, Files, At, Go, Listeners, relayVars, ServeRouter
    <2>2. PeersOK'
      BY <1>4, LifecycleAssumption DEF LInv, PeersOK, At, Go, Listeners, relayVars, ServeRouter
    <2>3. Introduced'
      BY <1>4, LifecycleAssumption DEF LInv, PeersOK, Introduced, Early, Launched, Processes, At, Go, Listeners, relayVars, ServeRouter
    <2>4. Guarded'
      BY <1>4 DEF LInv, Guarded, Deaf, Early, At, Go, Listeners, relayVars, ServeRouter
    <2>5. Ordered'
      BY <1>4 DEF LInv, Ordered, Quiet, At, Go, Listeners, relayVars, ServeRouter
    <2> QED
      BY <2>1, <2>2, <2>3, <2>4, <2>5 DEF LInv
  <1>5. CASE ListenSocket
    <2>1. ControlOK'
      BY <1>5 DEF LInv, ControlOK, Ordered, Files, At, Go, Listeners, relayVars, Exit, Removed, ListenSocket
    <2>2. PeersOK'
      BY <1>5, LifecycleAssumption DEF LInv, PeersOK, At, Go, Listeners, relayVars, Exit, Removed, ListenSocket
    <2>3. Introduced'
      BY <1>5, LifecycleAssumption DEF LInv, PeersOK, Introduced, Early, Launched, Processes, At, Go, Listeners, relayVars, Exit, Removed, ListenSocket
    <2>4. Guarded'
      BY <1>5 DEF LInv, Guarded, Deaf, Early, At, Go, Listeners, relayVars, Exit, Removed, ListenSocket
    <2>5. Ordered'
      BY <1>5 DEF LInv, Ordered, Quiet, At, Go, Listeners, relayVars, Exit, Removed, ListenSocket
    <2> QED
      BY <2>1, <2>2, <2>3, <2>4, <2>5 DEF LInv
  <1>6. CASE ListenStatus
    <2>1. ControlOK'
      BY <1>6 DEF LInv, ControlOK, Ordered, Files, At, Go, Listeners, relayVars, Exit, Removed, ListenStatus
    <2>2. PeersOK'
      BY <1>6, LifecycleAssumption DEF LInv, PeersOK, At, Go, Listeners, relayVars, Exit, Removed, ListenStatus
    <2>3. Introduced'
      BY <1>6, LifecycleAssumption DEF LInv, PeersOK, Introduced, Early, Launched, Processes, At, Go, Listeners, relayVars, Exit, Removed, ListenStatus
    <2>4. Guarded'
      BY <1>6 DEF LInv, Guarded, Deaf, Early, At, Go, Listeners, relayVars, Exit, Removed, ListenStatus
    <2>5. Ordered'
      BY <1>6 DEF LInv, Ordered, Quiet, At, Go, Listeners, relayVars, Exit, Removed, ListenStatus
    <2> QED
      BY <2>1, <2>2, <2>3, <2>4, <2>5 DEF LInv
  <1>7. CASE Serve
    <2>1. ControlOK'
      BY <1>7 DEF LInv, ControlOK, Ordered, Files, At, Go, Listeners, relayVars, Serve
    <2>2. PeersOK'
      BY <1>7, LifecycleAssumption DEF LInv, PeersOK, At, Go, Listeners, relayVars, Serve
    <2>3. Introduced'
      BY <1>7, LifecycleAssumption DEF LInv, PeersOK, Introduced, Early, Launched, Processes, At, Go, Listeners, relayVars, Serve
    <2>4. Guarded'
      BY <1>7 DEF LInv, Guarded, Deaf, Early, At, Go, Listeners, relayVars, Serve
    <2>5. Ordered'
      BY <1>7 DEF LInv, Ordered, Quiet, At, Go, Listeners, relayVars, Serve
    <2> QED
      BY <2>1, <2>2, <2>3, <2>4, <2>5 DEF LInv
  <1> QED
    BY <1>1, <1>2, <1>3, <1>4, <1>5, <1>6, <1>7

\* The goroutines beside Main, and Main on its way down: the drain leaves the
\* TCP front only when it is quiet.
LEMMA DownInv ==
    ASSUME LInv, \/ RegisterManifest \/ RegisterModelHost
                 \/ drain = "armed" /\ drain' = "tcp" /\ DrainStep /\ UNCHANGED <<socket, deadline>>
                 \/ Notify \/ Deadline \/ ShutdownTcp \/ ShutdownUnix \/ ServeReturns \/ CloseRouter
    PROVE  LInv'
  <1>1. CASE RegisterManifest
    <2>1. ControlOK'
      BY <1>1 DEF LInv, ControlOK, relayVars, RegisterManifest
    <2>2. PeersOK'
      BY <1>1, LifecycleAssumption DEF LInv, PeersOK, At, Go, Listeners, relayVars, DrainStep, RegisterManifest
    <2>3. Introduced'
      BY <1>1, LifecycleAssumption DEF LInv, PeersOK, Introduced, Early, Launched, Processes, At, Go, Listeners, relayVars, DrainStep, RegisterManifest
    <2>4. Guarded'
      BY <1>1 DEF LInv, Guarded, Deaf, Early, At, Go, Listeners, relayVars, DrainStep, RegisterManifest
    <2>5. Ordered'
      BY <1>1 DEF LInv, Ordered, Quiet, At, Go, Listeners, relayVars, DrainStep, RegisterManifest
    <2> QED
      BY <2>1, <2>2, <2>3, <2>4, <2>5 DEF LInv
  <1>2. CASE RegisterModelHost
    <2>1. ControlOK'
      BY <1>2 DEF LInv, ControlOK, relayVars, RegisterModelHost
    <2>2. PeersOK'
      BY <1>2, LifecycleAssumption DEF LInv, PeersOK, At, Go, Listeners, relayVars, DrainStep, RegisterModelHost
    <2>3. Introduced'
      BY <1>2, LifecycleAssumption DEF LInv, PeersOK, Introduced, Early, Launched, Processes, At, Go, Listeners, relayVars, DrainStep, RegisterModelHost
    <2>4. Guarded'
      BY <1>2 DEF LInv, Guarded, Deaf, Early, At, Go, Listeners, relayVars, DrainStep, RegisterModelHost
    <2>5. Ordered'
      BY <1>2 DEF LInv, Ordered, Quiet, At, Go, Listeners, relayVars, DrainStep, RegisterModelHost
    <2> QED
      BY <2>1, <2>2, <2>3, <2>4, <2>5 DEF LInv
  <1>3. CASE Notify
    <2>1. ControlOK'
      BY <1>3 DEF LInv, ControlOK, Ordered, Files, At, Go, Listeners, relayVars, DrainStep, Notify
    <2>2. PeersOK'
      BY <1>3, LifecycleAssumption DEF LInv, PeersOK, At, Go, Listeners, relayVars, DrainStep, Notify
    <2>3. Introduced'
      BY <1>3, LifecycleAssumption DEF LInv, PeersOK, Introduced, Early, Launched, Processes, At, Go, Listeners, relayVars, DrainStep, Notify
    <2>4. Guarded'
      BY <1>3 DEF LInv, Guarded, Deaf, Early, At, Go, Listeners, relayVars, DrainStep, Notify
    <2>5. Ordered'
      BY <1>3 DEF LInv, Ordered, Quiet, At, Go, Listeners, relayVars, DrainStep, Notify
    <2> QED
      BY <2>1, <2>2, <2>3, <2>4, <2>5 DEF LInv
  <1>4. CASE drain = "armed" /\ drain' = "tcp" /\ DrainStep /\ UNCHANGED <<socket, deadline>>
    <2>1. ControlOK'
      BY <1>4 DEF LInv, ControlOK, Ordered, Files, At, Go, Listeners, relayVars, DrainStep
    <2>2. PeersOK'
      BY <1>4, LifecycleAssumption DEF LInv, PeersOK, At, Go, Listeners, relayVars, DrainStep
    <2>3. Introduced'
      BY <1>4, LifecycleAssumption DEF LInv, PeersOK, Introduced, Early, Launched, Processes, At, Go, Listeners, relayVars, DrainStep
    <2>4. Guarded'
      BY <1>4 DEF LInv, Guarded, Deaf, Early, At, Go, Listeners, relayVars, DrainStep
    <2>5. Ordered'
      BY <1>4 DEF LInv, Ordered, Quiet, At, Go, Listeners, relayVars, DrainStep
    <2> QED
      BY <2>1, <2>2, <2>3, <2>4, <2>5 DEF LInv
  <1>5. CASE Deadline
    <2>1. ControlOK'
      <3>1. deadline' \in BOOLEAN /\ ControlOK
        BY <1>5 DEF LInv, Deadline
      <3>2. UNCHANGED <<main, mode, socket, routerSocket, registrar, host, drain, ended>>
        BY <1>5 DEF Deadline, DrainStep
      <3>3. main' = main /\ drain' = drain /\ registrar' = registrar /\ host' = host
        BY <3>2
      <3> QED
        BY <3>1, <3>2, <3>3, Zenon DEF ControlOK
    <2>2. PeersOK'
      BY <1>5, LifecycleAssumption DEF LInv, PeersOK, At, Go, Listeners, relayVars, DrainStep, Deadline
    <2>3. Introduced'
      BY <1>5, LifecycleAssumption DEF LInv, PeersOK, Introduced, Early, Launched, Processes, At, Go, Listeners, relayVars, DrainStep, Deadline
    <2>4. Guarded'
      BY <1>5 DEF LInv, Guarded, Deaf, Early, At, Go, Listeners, relayVars, DrainStep, Deadline
    <2>5. Ordered'
      BY <1>5 DEF LInv, Ordered, Quiet, At, Go, Listeners, relayVars, DrainStep, Deadline
    <2> QED
      BY <2>1, <2>2, <2>3, <2>4, <2>5 DEF LInv
  <1>6. CASE ShutdownTcp
    <2>1. ControlOK'
      BY <1>6 DEF LInv, ControlOK, Ordered, Files, At, Go, Listeners, relayVars, DrainStep, ShutdownTcp
    <2>2. PeersOK'
      BY <1>6, LifecycleAssumption DEF LInv, PeersOK, At, Go, Listeners, relayVars, DrainStep, ShutdownTcp
    <2>3. Introduced'
      BY <1>6, LifecycleAssumption DEF LInv, PeersOK, Introduced, Early, Launched, Processes, At, Go, Listeners, relayVars, DrainStep, ShutdownTcp
    <2>4. Guarded'
      BY <1>6 DEF LInv, Guarded, Deaf, Early, At, Go, Listeners, relayVars, DrainStep, ShutdownTcp
    <2>5. Ordered'
      BY <1>6 DEF LInv, Ordered, Quiet, At, Go, Listeners, relayVars, DrainStep, ShutdownTcp
    <2> QED
      BY <2>1, <2>2, <2>3, <2>4, <2>5 DEF LInv
  <1>7. CASE ShutdownUnix
    <2>1. ControlOK'
      BY <1>7 DEF LInv, ControlOK, Ordered, Files, At, Go, Listeners, relayVars, DrainStep, ShutdownUnix
    <2>2. PeersOK'
      BY <1>7, LifecycleAssumption DEF LInv, PeersOK, At, Go, Listeners, relayVars, DrainStep, ShutdownUnix
    <2>3. Introduced'
      BY <1>7, LifecycleAssumption DEF LInv, PeersOK, Introduced, Early, Launched, Processes, At, Go, Listeners, relayVars, DrainStep, ShutdownUnix
    <2>4. Guarded'
      BY <1>7 DEF LInv, Guarded, Deaf, Early, At, Go, Listeners, relayVars, DrainStep, ShutdownUnix
    <2>5. Ordered'
      BY <1>7 DEF LInv, Ordered, Quiet, At, Go, Listeners, relayVars, DrainStep, ShutdownUnix
    <2> QED
      BY <2>1, <2>2, <2>3, <2>4, <2>5 DEF LInv
  <1>8. CASE ServeReturns
    <2>1. ControlOK'
      BY <1>8 DEF LInv, ControlOK, Ordered, Files, At, Go, Listeners, relayVars, DrainStep, ServeReturns
    <2>2. PeersOK'
      BY <1>8, LifecycleAssumption DEF LInv, PeersOK, At, Go, Listeners, relayVars, DrainStep, ServeReturns
    <2>3. Introduced'
      BY <1>8, LifecycleAssumption DEF LInv, PeersOK, Introduced, Early, Launched, Processes, At, Go, Listeners, relayVars, DrainStep, ServeReturns
    <2>4. Guarded'
      BY <1>8 DEF LInv, Guarded, Deaf, Early, At, Go, Listeners, relayVars, DrainStep, ServeReturns
    <2>5. Ordered'
      BY <1>8 DEF LInv, Ordered, Quiet, At, Go, Listeners, relayVars, DrainStep, ServeReturns
    <2> QED
      BY <2>1, <2>2, <2>3, <2>4, <2>5 DEF LInv
  <1>9. CASE CloseRouter
    <2>1. ControlOK'
      BY <1>9 DEF LInv, ControlOK, Ordered, Files, At, Go, Listeners, relayVars, DrainStep, CloseRouter
    <2>2. PeersOK'
      BY <1>9, LifecycleAssumption DEF LInv, PeersOK, At, Go, Listeners, relayVars, DrainStep, CloseRouter
    <2>3. Introduced'
      BY <1>9, LifecycleAssumption DEF LInv, PeersOK, Introduced, Early, Launched, Processes, At, Go, Listeners, relayVars, DrainStep, CloseRouter
    <2>4. Guarded'
      BY <1>9 DEF LInv, Guarded, Deaf, Early, At, Go, Listeners, relayVars, DrainStep, CloseRouter
    <2>5. Ordered'
      BY <1>9 DEF LInv, Ordered, Quiet, At, Go, Listeners, relayVars, DrainStep, CloseRouter
    <2> QED
      BY <2>1, <2>2, <2>3, <2>4, <2>5 DEF LInv
  <1> QED
    BY <1>1, <1>2, <1>3, <1>4, <1>5, <1>6, <1>7, <1>8, <1>9

\* Relay's own process is the one the kernel names, and the one the program
\* remembers.
LEMMA HelloInv ==
    ASSUME LInv, NEW who \in {"relay", "stranger"}, NEW pid \in Pids \cup {0}, NEW same \in BOOLEAN,
           Hello(who, pid, same)
    PROVE  LInv'
  <1>1. CASE Agreed(outside[who], pid, same)
    <2>1. PICK peer \in Processes : peer = outside[who]
      BY DEF LInv, PeersOK
    <2>2. main = "hello" /\ main' = "router" /\ identity' = peer /\ helloed' = [peer EXCEPT !.pid = pid]
      BY <1>1, <2>1 DEF Hello, At, Go
    <2>3. helloed' = peer /\ peer # None
      BY <1>1, <2>1, <2>2, LifecycleAssumption DEF Agreed, Processes
    <2>4. UNCHANGED <<mode, starts, socket, routerSocket, registrar, host, drain, deadline, request,
                      ended, outside, link>>
      BY <1>1 DEF Hello, Go, Listeners
    <2>5. ControlOK'
      BY <2>2, <2>4 DEF LInv, ControlOK
    <2>6. PeersOK'
      BY <2>1, <2>2, <2>3, <2>4 DEF LInv, PeersOK
    <2>7. Introduced'
      BY <2>2, <2>3, <2>4 DEF LInv, Introduced, Early, Launched
    <2>8. Guarded'
      BY <2>2, <2>4 DEF LInv, Guarded, Deaf, Early
    <2>9. Ordered'
      BY <2>2, <2>4 DEF LInv, Ordered, Quiet
    <2> QED
      BY <2>5, <2>6, <2>7, <2>8, <2>9 DEF LInv
  <1>2. CASE ~Agreed(outside[who], pid, same)
    BY <1>2, ExitInv DEF Hello, Endings
  <1> QED
    BY <1>1, <1>2

\* A request arrives only on a front that takes requests, so none reaches a TCP
\* front that was found quiet.
LEMMA ClientInv == ASSUME LInv, NEW r \in Requests, Arrive(r) \/ Finish(r) PROVE LInv'
  <1>1. UNCHANGED <<main, mode, starts, Listeners, deadline, ended, relayVars>>
    BY DEF Arrive, Finish, Moves
  <1>2. ControlOK' /\ Introduced'
    BY <1>1, ControlFrame DEF LInv, relayVars
  <1>7. Guarded'
    BY <1>1 DEF LInv, Guarded, Listeners, relayVars
  <1>3. PeersOK'
    BY <1>1 DEF LInv, PeersOK, Arrive, Finish, Moves, Listeners, relayVars
  <1>4. drain \in {"unix", "over"} /\ r \in Tcp => request'[r] # "active"
    BY DEF LInv, PeersOK, Arrive, Finish, Moves, Accepting
  <1>5. \A q \in Requests \ {r} : request'[q] = request[q]
    BY DEF LInv, PeersOK, Arrive, Finish, Moves
  <1>6. Ordered'
    BY <1>1, <1>4, <1>5 DEF LInv, Ordered, Quiet, Listeners, Requests
  <1> QED
    BY <1>2, <1>3, <1>6, <1>7 DEF LInv

\* Processes outside come and go: whom router.sock admits is settled by a
\* comparison with the whole identity, the version with the pid.
LEMMA OutsideInv ==
    ASSUME LInv, \/ \E who \in {"relay", "stranger"} : Dial(who) \/ Reborn(who)
                 \/ Hangup
    PROVE  LInv'
  <1>1. UNCHANGED <<main, mode, starts, Listeners, deadline, request, ended, identity, helloed>>
    BY DEF Dial, Reborn, Hangup, OutsideOnly
  <1>2. ControlOK' /\ Introduced'
    BY <1>1, ControlFrame DEF LInv
  <1>6. Ordered'
    BY <1>1 DEF LInv, Ordered, Quiet, Listeners
  <1>3. ASSUME NEW who \in {"relay", "stranger"}, Dial(who) PROVE PeersOK' /\ Guarded'
    <2>1. PICK p \in Processes : p = outside[who]
      BY DEF LInv, PeersOK
    <2>2. PICK ok \in BOOLEAN : ok = Admits(p)
      BY DEF Admits
    <2>3. /\ routerSocket = "live" /\ link' = [from |-> p, admitted |-> ok]
          /\ outside' = outside
      BY <1>3, <2>1, <2>2 DEF Dial
    <2>4. PeersOK'
      BY <1>1, <2>3 DEF LInv, PeersOK
    <2>5. main \notin Deaf /\ (ok => p = identity)
      BY <2>2, <2>3 DEF LInv, Guarded, Admits
    <2>6. Guarded'
      BY <1>1, <2>3, <2>5 DEF Guarded
    <2> QED
      BY <2>4, <2>6
  <1>4. ASSUME NEW who \in {"relay", "stranger"}, Reborn(who) PROVE PeersOK' /\ Guarded'
    <2>1. PICK pid \in Pids, version \in 1..MaxVersion :
              outside' = [outside EXCEPT ![who] = [pid |-> pid, version |-> version]]
      BY <1>4 DEF Reborn
    <2>2. outside' \in [{"relay", "stranger"} -> Processes]
      BY <2>1 DEF LInv, PeersOK, Processes
    <2>3. link' = None \/ link' = link
      BY <1>4 DEF Reborn
    <2>4. PeersOK'
      BY <1>1, <2>2, <2>3 DEF LInv, PeersOK
    <2>5. Guarded'
      BY <1>1, <2>3 DEF LInv, Guarded, Listeners
    <2> QED
      BY <2>4, <2>5
  <1>5. CASE Hangup
    <2>1. link' = None /\ outside' = outside
      BY <1>5 DEF Hangup
    <2>2. PeersOK' /\ Guarded'
      BY <1>1, <2>1 DEF LInv, PeersOK, Guarded, Listeners
    <2> QED
      BY <1>2, <1>6, <2>2 DEF LInv
  <1> QED
    BY <1>2, <1>3, <1>4, <1>5, <1>6 DEF LInv

\* Every step of the program and of the processes outside preserves it.
LEMMA StepLInv == ASSUME LInv, [Next]_vars PROVE LInv'
  <1>1. DOMAIN outside = {"relay", "stranger"}
    BY DEF LInv, PeersOK
  <1>2. CASE MainStep
    <2>1. CASE RefusePort \/ StopManagers
      BY <2>1, ExitInv DEF RefusePort, StopManagers, Endings
    <2> QED
      BY <1>1, <1>2, <2>1, UpInv, DownInv, HelloInv DEF MainStep
  <1>3. CASE Sigterm
    BY <1>3, ExitInv, DownInv DEF Sigterm, Endings
  <1>4. CASE Fail \/ Kill \/ Refused
    BY <1>4, ExitInv DEF Fail, Kill, Refused, Endings
  <1>5. CASE Start \/ RegisterManifest \/ RegisterModelHost \/ Shutdown
    BY <1>5, UpInv, DownInv DEF Shutdown
  <1>6. CASE Registration
    BY <1>4, <1>5, <1>6 DEF Registration
  <1>7. CASE \/ \E r \in Requests : Arrive(r) \/ Finish(r)
             \/ \E who \in {"relay", "stranger"} : Dial(who) \/ Reborn(who)
             \/ Hangup
    BY <1>7, ClientInv, OutsideInv
  <1>8. CASE UNCHANGED vars
    <2>1. ControlOK' /\ Introduced'
      BY <1>8, ControlFrame DEF vars, relayVars, Listeners, LInv
    <2>2. PeersOK' /\ Guarded' /\ Ordered'
      BY <1>8 DEF vars, relayVars, LInv, PeersOK, Guarded, Ordered, Quiet
    <2> QED
      BY <2>1, <2>2 DEF LInv
  <1> QED
    BY <1>1, <1>2, <1>3, <1>4, <1>5, <1>6, <1>7, <1>8 DEF Next

\* The invariant holds in every reachable state.
THEOREM LifecycleInvariance == Spec => []LInv
  BY InitLInv, StepLInv, PTL DEF Spec

\* Every variable keeps its type, and Main has not begun to close before its
\* drain is through with the TCP front.
THEOREM TypeCorrect == Spec => []TypeOK
  <1>1. LInv => TypeOK
    BY DEF LInv, ControlOK, PeersOK, TypeOK
  <1> QED
    BY <1>1, LifecycleInvariance, PTL

\* Past its handshake a program believes itself launched exactly when relay
\* launched it, and router.sock serves nobody but the process that accepted the
\* Hello, though pids are given again (launch.go, router_socket.go).
THEOREM ServesItsRelay == Spec => []OnlyItsRelay
  <1>1. LInv => OnlyItsRelay
    BY DEF LInv, Introduced, Guarded, OnlyItsRelay, Early
  <1> QED
    BY <1>1, LifecycleInvariance, PTL

\* The router closes and the model servers stop only after the TCP front has
\* drained or the five seconds are over (app.go).
THEOREM DrainsTcp == Spec => []TcpDrained
  <1>1. LInv => TcpDrained
    BY DEF LInv, ControlOK, Ordered, Quiet, TcpDrained
  <1> QED
    BY <1>1, LifecycleInvariance, PTL

\* No start fails because of what a killed program left behind: either listener
\* removes the file first, whatever became of the one before (router_socket.go).
THEOREM StartsOverLeftovers == Spec => []RestartsClean
  <1>1. ASSUME RestartsClean, MainStep PROVE RestartsClean'
    BY <1>1 DEF RestartsClean, MainStep, BootstrapLaunch, ReadLaunchSecret, Hello, RefusePort,
                ServeRouter, ListenSocket, ListenStatus, Serve, ServeReturns, CloseRouter,
                StopManagers, Removed, Go, Exit
  <1>2. ASSUME RestartsClean, Start \/ Fail \/ Kill \/ Sigterm \/ Registration \/ Shutdown
        PROVE  RestartsClean'
    BY <1>2 DEF RestartsClean, Start, Fail, Kill, Sigterm, Registration, RegisterManifest,
                RegisterModelHost, Refused, Shutdown, Notify, Deadline, ShutdownTcp, ShutdownUnix,
                DrainStep, Exit
  <1>3. ASSUME RestartsClean,
               \/ \E r \in Requests : Arrive(r) \/ Finish(r)
               \/ \E who \in DOMAIN outside : Dial(who) \/ Reborn(who)
               \/ Hangup \/ UNCHANGED vars
        PROVE  RestartsClean'
    BY <1>3 DEF RestartsClean, Arrive, Finish, Moves, Dial, Reborn, Hangup, OutsideOnly, vars
  <1>4. Init => RestartsClean
    BY DEF Init, RestartsClean
  <1> QED
    BY <1>1, <1>2, <1>3, <1>4, PTL DEF Spec, Next


-----------------------------------------------------------------------------
(* Settings.                                                              *)

\* What an endpoint that was prepared promises: no cleartext but by leave of the
\* policy, and roots that its CA file held, or the system's.
RootsOf(ep, contents) == IF ep.ca /\ ep.scheme = "https" THEN contents ELSE {"system"}

EndpointOK(e, allowed, contents) ==
    /\ e.ep.scheme \in {"http", "https"}
    /\ e.ep.scheme = "http" => (e.ep.loopback \/ allowed) /\ e.ep.pins = {}
    /\ \A n \in DOMAIN Transports : e.roots[n] \in RootsOf(e.ep, contents)

\* A connection is of an endpoint that was prepared, by one of its transports.
ConnectionOK(c, allowed, contents) ==
    /\ c = [of |-> c.of, by |-> c.by, scheme |-> c.scheme, loopback |-> c.loopback, peer |-> c.peer,
            redirected |-> c.redirected]
    /\ c.by \in DOMAIN Transports
    /\ EndpointOK(c.of, allowed, contents)

\* The policy is that of settings.json, and fixed before the first endpoint.
PolicyOK ==
    /\ policy = FALSE \/ (disk.settings.is = "ok" /\ policy = disk.settings.plaintext)
    /\ loading = "settings" => endpoints = <<>>
    /\ loading = "prepare" => todo.next # "settings"

\* The inductive invariant behind NeverDowngraded.
SettingsInv ==
    /\ caFile \in held
    /\ building \in Seq(held)
    /\ \E S : endpoints \in Seq(S)
    /\ PolicyOK
    /\ \A i \in 1..Len(endpoints) : EndpointOK(endpoints[i], policy, held)
    /\ \A c \in reached : ConnectionOK(c, policy, held)
    /\ NeverDowngraded
    /\ reached # {} => loading = "loaded"

\* An element of a sequence over a set is of that set.
LEMMA ElementOfSeq == ASSUME NEW S, NEW q \in Seq(S), NEW k \in 1..Len(q) PROVE q[k] \in S
  OBVIOUS

\* Before the load nothing is prepared and nothing reached.
LEMMA InitSettings == SettingsInit => SettingsInv
  <1> SUFFICES ASSUME SettingsInit PROVE SettingsInv
    OBVIOUS
  <1>1. caFile \in held /\ building \in Seq(held)
    BY DEF SettingsInit
  <1>2. endpoints \in Seq({}) /\ Len(endpoints) = 0
    BY DEF SettingsInit
  <1>3. PolicyOK
    BY DEF SettingsInit, PolicyOK
  <1>4. NeverDowngraded /\ reached = {}
    BY DEF SettingsInit, NeverDowngraded
  <1>5. 1..Len(endpoints) = {} /\ \E S : endpoints \in Seq(S)
    BY <1>2
  <1> QED
    BY <1>1, <1>3, <1>4, <1>5 DEF SettingsInv

\* Steps that prepare no endpoint and connect to nobody: the endpoints stay as
\* they are or go, and what a CA file held is not forgotten.
LEMMA SettingsFrame ==
  ASSUME SettingsInv, UNCHANGED <<disk, reached>>, held \subseteq held', caFile' \in held',
         building' \in Seq(held'), PolicyOK', endpoints' \in {endpoints, <<>>},
         policy' = policy \/ (endpoints = <<>> /\ reached = {}),
         reached = {} \/ loading' = "loaded"
  PROVE  SettingsInv'
<1>1. PICK S : endpoints \in Seq(S)
  BY DEF SettingsInv
<1>2. endpoints' \in Seq(S)
  <2>1. <<>> \in Seq(S)
    OBVIOUS
  <2> QED
    BY <1>1, <2>1
<1>3. NeverDowngraded'
  BY DEF SettingsInv, NeverDowngraded, Acknowledged, InTheClear, ListInTheClear
<1>4. ASSUME NEW i \in 1..Len(endpoints') PROVE EndpointOK(endpoints'[i], policy', held')
  <2>1. endpoints' = endpoints /\ policy' = policy
    BY <1>4
  <2>2. EndpointOK(endpoints[i], policy, held)
    BY <1>4, <2>1 DEF SettingsInv
  <2> QED
    BY <2>1, <2>2 DEF EndpointOK, RootsOf
<1>5. \E T : endpoints' \in Seq(T)
  BY <1>2
<1>6. ASSUME NEW c \in reached' PROVE ConnectionOK(c, policy', held')
  <2>1. policy' = policy /\ ConnectionOK(c, policy, held)
    BY <1>6 DEF SettingsInv
  <2> QED
    BY <2>1 DEF ConnectionOK, EndpointOK, RootsOf
<1> QED
  BY <1>3, <1>4, <1>5, <1>6 DEF SettingsInv

\* One endpoint joins those prepared: it was valid under the policy, and each of
\* its transports trusts what a read of its CA file gave.
LEMMA SettingsPrepare == ASSUME SettingsInv, PrepareEndpoint PROVE SettingsInv'
<1> DEFINE ep == Head(todo.eps)
<1>0. /\ loading = "prepare" /\ UNCHANGED <<disk, caFile, held, rewrites, policy, models, reached>>
      /\ reached = {}
  BY DEF PrepareEndpoint, SettingsInv
<1>1. CASE ~Valid(ep)
  <2>1. loading' = "failed" /\ UNCHANGED <<todo, building, endpoints>>
    BY <1>1 DEF PrepareEndpoint
  <2>2. PolicyOK'
    BY <1>0, <2>1 DEF SettingsInv, PolicyOK
  <2> QED
    BY <1>0, <2>1, <2>2, SettingsFrame DEF SettingsInv
<1>2. CASE Valid(ep)
  <2>1. PICK e : e = [ep |-> ep, roots |-> [n \in DOMAIN Transports |-> Roots(ep, n)]]
    OBVIOUS
  <2>2. /\ ReadsCA(ep) => Len(building) = 4
        /\ endpoints' = Append(endpoints, e)
        /\ todo' = [todo EXCEPT !.eps = Tail(todo.eps)] /\ building' = <<>> /\ loading' = loading
    BY <1>2, <2>1 DEF PrepareEndpoint
  <2>3. PICK S : endpoints \in Seq(S)
    BY DEF SettingsInv
  <2>4. /\ endpoints \in Seq(S \cup {e}) /\ endpoints' \in Seq(S \cup {e})
        /\ Len(endpoints') = Len(endpoints) + 1 /\ Len(endpoints) \in Nat
        /\ endpoints'[Len(endpoints) + 1] = e
        /\ \A i \in 1..Len(endpoints) : endpoints'[i] = endpoints[i]
    BY <2>2, <2>3
  <2>5. EndpointOK(e, policy, held)
    <3>1. e.ep = ep /\ \A n \in DOMAIN Transports : e.roots[n] = Roots(ep, n)
      BY <2>1
    <3>2. /\ ep.scheme \in {"http", "https"}
          /\ ep.scheme = "http" => (ep.loopback \/ policy) /\ ep.pins = {}
      BY <1>2 DEF Valid
    <3>3. ASSUME NEW n \in DOMAIN Transports
          PROVE  Roots(ep, n) \in RootsOf(ep, held)
      <4>1. n \in 1..3
        BY <3>3 DEF Transports
      <4>2. CASE ep.ca /\ ep.scheme = "https"
        <5>1. building \in Seq(held) /\ Len(building) = 4
          BY <2>2, <4>2 DEF ReadsCA, SettingsInv
        <5>2. PICK k \in 1..Len(building) : k = n + 1
          BY <4>1, <5>1
        <5>3. building[k] \in held
          BY <5>1, ElementOfSeq
        <5> QED
          BY <4>2, <5>2, <5>3 DEF Roots, ReadsCA, RootsOf
      <4>3. CASE ~(ep.ca /\ ep.scheme = "https")
        BY <4>3 DEF Roots, ReadsCA, RootsOf
      <4> QED
        BY <4>2, <4>3
    <3> QED
      BY <3>1, <3>2, <3>3 DEF EndpointOK
  <2>6. ASSUME NEW i \in 1..Len(endpoints') PROVE EndpointOK(endpoints'[i], policy', held')
    <3>1. EndpointOK(endpoints'[i], policy, held)
      <4>1. CASE i = Len(endpoints) + 1
        BY <2>4, <2>5, <4>1
      <4>2. CASE i # Len(endpoints) + 1
        <5>1. i \in 1..Len(endpoints)
          BY <2>4, <2>6, <4>2
        <5> QED
          BY <2>4, <5>1 DEF SettingsInv
      <4> QED
        BY <4>1, <4>2
    <3> QED
      BY <1>0, <3>1 DEF EndpointOK, RootsOf
  <2>7. PolicyOK' /\ building' \in Seq(held')
    BY <1>0, <2>2 DEF SettingsInv, PolicyOK
  <2>8. \E T : endpoints' \in Seq(T)
    BY <2>4
  <2>9. NeverDowngraded'
    BY <1>0 DEF NeverDowngraded
  <2> QED
    BY <1>0, <2>2, <2>6, <2>7, <2>8, <2>9 DEF SettingsInv
<1> QED
  BY <1>1, <1>2

\* A peer accepted under TLS is of the roots, and has one of the pins.
LEMMA PeerAccepted ==
  ASSUME NEW e, NEW n \in DOMAIN Transports, NEW scheme, NEW peer, NEW allowed, NEW contents,
         EndpointOK(e, allowed, contents), Accepts(e, n, scheme, peer), scheme # "http"
  PROVE  /\ peer.chain \in RootsOf(e.ep, contents)
         /\ e.ep.pins # {} => peer.leaf \in {p.leaf : p \in e.ep.pins}
<1>1. peer.chain = e.roots[n] /\ (e.ep.pins # {} => \E p \in e.ep.pins : p.leaf = peer.leaf)
  BY DEF Accepts
<1> QED
  BY <1>1 DEF EndpointOK

\* The one connection there is, is as NeverDowngraded has it.
LEMMA SettingsReach ==
  ASSUME SettingsInv, NEW c, reached' = {c}, ConnectionOK(c, policy, held),
         UNCHANGED <<disk, caFile, held, rewrites, loading, todo, building, policy, endpoints, models>>,
         loading = "loaded",
         InTheClear(c) => Acknowledged \/ ListInTheClear(c),
         c.of.ep.pins # {} => c.peer.leaf \in {p.leaf : p \in c.of.ep.pins} \/ ListInTheClear(c),
         c.scheme = "https" => c.peer.chain \in RootsOf(c.of.ep, held)
  PROVE  SettingsInv'
<1>1. NeverDowngraded'
  BY DEF NeverDowngraded, Acknowledged, InTheClear, ListInTheClear, RootsOf
<1>2. \A d \in reached' : ConnectionOK(d, policy', held')
  BY DEF ConnectionOK, EndpointOK, RootsOf
<1>3. PolicyOK' /\ (\A k \in 1..Len(endpoints') : EndpointOK(endpoints'[k], policy', held'))
  BY DEF SettingsInv, PolicyOK, EndpointOK, RootsOf
<1> QED
  BY <1>1, <1>2, <1>3 DEF SettingsInv

\* A connection of a loaded endpoint is in the clear by leave of settings.json,
\* or to a peer its roots and its pins vouch for.
LEMMA SettingsConnect ==
  ASSUME SettingsInv, NEW i \in DOMAIN endpoints, NEW n \in DOMAIN Transports, NEW peer \in Peers,
         Connect(i, n, peer)
  PROVE  SettingsInv'
<1>1. PICK e : e = endpoints[i]
  OBVIOUS
<1>2. PICK c : c = [of |-> e, by |-> n, scheme |-> e.ep.scheme, loopback |-> e.ep.loopback, peer |-> peer,
                    redirected |-> FALSE]
  OBVIOUS
<1>3. /\ loading = "loaded" /\ Accepts(e, n, e.ep.scheme, peer) /\ reached' = {c}
      /\ UNCHANGED <<disk, caFile, held, rewrites, loading, todo, building, policy, endpoints, models>>
  BY <1>1, <1>2 DEF Connect
<1>4. EndpointOK(e, policy, held)
  <2>1. PICK S : endpoints \in Seq(S)
    BY DEF SettingsInv
  <2>2. i \in 1..Len(endpoints)
    BY <2>1
  <2> QED
    BY <1>1, <2>2 DEF SettingsInv
<1>5. /\ c.of = e /\ c.by = n /\ c.scheme = e.ep.scheme /\ c.loopback = e.ep.loopback /\ c.peer = peer
      /\ ConnectionOK(c, policy, held)
  BY <1>2, <1>4 DEF ConnectionOK
<1>6. e.ep.scheme # "http" => /\ peer.chain \in RootsOf(e.ep, held)
                              /\ e.ep.pins # {} => peer.leaf \in {p.leaf : p \in e.ep.pins}
  BY <1>3, <1>4, PeerAccepted
<1>7. InTheClear(c) => Acknowledged
  BY <1>4, <1>5 DEF InTheClear, Acknowledged, EndpointOK, SettingsInv, PolicyOK
<1>8. c.of.ep.pins # {} => c.peer.leaf \in {p.leaf : p \in c.of.ep.pins}
  BY <1>4, <1>5, <1>6 DEF EndpointOK
<1> QED
  BY <1>3, <1>5, <1>6, <1>7, <1>8, SettingsReach

\* A redirect that is followed leads into the clear, as a model list may, or to a
\* peer the roots and the pins of the endpoint that sent it vouch for.
LEMMA SettingsRedirect ==
  ASSUME SettingsInv, NEW scheme \in {"http", "https"}, NEW loopback \in BOOLEAN, NEW peer \in Peers,
         FollowRedirect(scheme, loopback, peer)
  PROVE  SettingsInv'
<1>1. PICK b \in reached :
         /\ Transports[b.by] = "probe" /\ Accepts(b.of, b.by, scheme, peer)
         /\ reached' = {[of |-> b.of, by |-> b.by, scheme |-> scheme, loopback |-> loopback, peer |-> peer,
                        redirected |-> TRUE]}
  BY DEF FollowRedirect
<1>2. /\ UNCHANGED <<disk, caFile, held, rewrites, loading, todo, building, policy, endpoints, models>>
      /\ loading = "loaded" /\ ConnectionOK(b, policy, held)
  BY <1>1 DEF FollowRedirect, SettingsInv
<1>3. PICK c : c = [of |-> b.of, by |-> b.by, scheme |-> scheme, loopback |-> loopback, peer |-> peer,
                    redirected |-> TRUE]
  OBVIOUS
<1>4. reached' = {c}
  BY <1>1, <1>3
<1>5. /\ c.of = b.of /\ c.by = b.by /\ c.scheme = scheme /\ c.peer = peer /\ c.redirected = TRUE
      /\ ConnectionOK(c, policy, held)
  BY <1>2, <1>3 DEF ConnectionOK
<1>6. scheme # "http" => /\ peer.chain \in RootsOf(c.of.ep, held)
                         /\ c.of.ep.pins # {} => peer.leaf \in {p.leaf : p \in c.of.ep.pins}
  BY <1>1, <1>2, <1>5, PeerAccepted DEF ConnectionOK
<1>7. scheme = "http" => ListInTheClear(c)
  BY <1>1, <1>5 DEF ListInTheClear
<1>8. InTheClear(c) => ListInTheClear(c)
  BY <1>5, <1>7 DEF InTheClear
<1> QED
  BY <1>2, <1>4, <1>5, <1>6, <1>7, <1>8, SettingsReach

\* The steps of the load that read a file, and a CA file that is rewritten.
LEMMA SettingsReads ==
  ASSUME SettingsInv,
         \/ ReadSettings \/ ParseSections \/ ReadOverride \/ ReadEndpoints \/ ReadEnvironment
         \/ ReadLlamaModels \/ AllPrepared \/ ReadCA \/ \E contents \in Contents : RewriteCA(contents)
  PROVE  SettingsInv'
<1>0. caFile \in held /\ building \in Seq(held) /\ PolicyOK
  BY DEF SettingsInv
<1>1. ASSUME NEW contents \in Contents, RewriteCA(contents) PROVE SettingsInv'
  <2>1. /\ caFile' = contents /\ held' = held \cup {contents}
        /\ UNCHANGED <<disk, loading, todo, building, policy, endpoints, models, reached>>
    BY <1>1 DEF RewriteCA
  <2>2. building' \in Seq(held')
    BY <1>0, <2>1
  <2>3. PolicyOK' /\ (reached = {} \/ loading' = "loaded")
    BY <2>1 DEF SettingsInv, PolicyOK
  <2> QED
    BY <2>1, <2>2, <2>3, SettingsFrame
<1>2. CASE ReadCA
  <2>1. /\ loading = "prepare" /\ UNCHANGED <<disk, caFile, held, todo, policy, endpoints, reached>>
        /\ \/ building' = Append(building, caFile) /\ loading' = loading
           \/ building' = <<>> /\ loading' = "failed"
    BY <1>2 DEF ReadCA
  <2>2. building' \in Seq(held')
    <3>1. <<>> \in Seq(held) /\ Append(building, caFile) \in Seq(held)
      BY <1>0
    <3> QED
      BY <2>1, <3>1
  <2>3. PolicyOK' /\ reached = {}
    BY <2>1 DEF SettingsInv, PolicyOK
  <2> QED
    BY <1>0, <2>1, <2>2, <2>3, SettingsFrame
<1>3. CASE ReadSettings
  <2>1. loading = "settings" /\ endpoints = <<>> /\ reached = {} /\ UNCHANGED <<disk, caFile, held, building, reached>>
    BY <1>3 DEF ReadSettings, KeepCA, SettingsInv, PolicyOK
  <2>2. endpoints' = <<>> /\ loading' # "settings"
    BY <1>3, <2>1 DEF ReadSettings, Prepare
  <2>3. PolicyOK'
    <3>1. CASE disk.settings.is = "ok"
      BY <1>3, <2>1, <2>2, <3>1 DEF ReadSettings, Prepare, PolicyOK
    <3>2. CASE disk.settings.is # "ok"
      <4>1. policy' = policy /\ loading' \in {"endpoints", "failed"}
        BY <1>3, <3>2 DEF ReadSettings
      <4> QED
        BY <1>0, <2>1, <2>2, <4>1 DEF PolicyOK
    <3> QED
      BY <3>1, <3>2
  <2> QED
    BY <1>0, <2>1, <2>2, <2>3, SettingsFrame
<1>4. CASE \/ ParseSections \/ ReadOverride \/ ReadEndpoints \/ ReadEnvironment
           \/ ReadLlamaModels \/ AllPrepared
  <2>1. /\ loading # "loaded" /\ loading' # "settings"
        /\ UNCHANGED <<disk, caFile, held, building, reached, policy>>
        /\ endpoints' \in {endpoints, <<>>}
        /\ loading' = "prepare" => todo'.next # "settings"
    <3>1. CASE ParseSections
      BY <3>1 DEF ParseSections, KeepCA
    <3>2. CASE ReadOverride
      BY <3>2 DEF ReadOverride, KeepCA, Prepare
    <3>3. CASE ReadEndpoints
      BY <3>3 DEF ReadEndpoints, KeepCA, Prepare
    <3>4. CASE ReadEnvironment
      BY <3>4 DEF ReadEnvironment, KeepCA, Prepare
    <3>5. CASE ReadLlamaModels
      BY <3>5 DEF ReadLlamaModels, KeepCA
    <3>6. CASE AllPrepared
      BY <1>0, <3>6 DEF AllPrepared, PolicyOK
    <3> QED
      BY <1>4, <3>1, <3>2, <3>3, <3>4, <3>5, <3>6
  <2>2. PolicyOK' /\ reached = {}
    BY <1>0, <2>1 DEF PolicyOK, SettingsInv
  <2> QED
    BY <1>0, <2>1, <2>2, SettingsFrame
<1> QED
  BY <1>1, <1>2, <1>3, <1>4

\* Whichever transport a request takes, no connection is made in the clear to
\* another machine but by leave of settings.json, and none of an endpoint with
\* pins to a peer that has none of them, except where a model list is redirected
\* to http; none under TLS, redirected or not, is to a peer of an authority that
\* the endpoint's CA file never held (endpoint_tls.go, upstream_models.go).
THEOREM EndpointsNeverDowngraded == SettingsSpec => []NeverDowngraded
  <1>1. ASSUME SettingsInv, UNCHANGED settingsVars PROVE SettingsInv'
    <2>1. PolicyOK' /\ (reached = {} \/ loading' = "loaded")
      BY <1>1 DEF settingsVars, PolicyOK, SettingsInv
    <2> QED
      BY <1>1, <2>1, SettingsFrame DEF settingsVars, SettingsInv
  <1>2. SettingsInv /\ [SettingsNext]_settingsVars => SettingsInv'
    BY <1>1, SettingsPrepare, SettingsConnect, SettingsRedirect, SettingsReads DEF SettingsNext
  <1>3. SettingsInv => NeverDowngraded
    BY DEF SettingsInv
  <1> QED
    BY <1>2, <1>3, InitSettings, PTL DEF SettingsSpec

-----------------------------------------------------------------------------
(* What is loaded is one source's, whole.  The invariant follows a load    *)
(* from label to label: the endpoints prepared and the ones to do are      *)
(* together those of the source in force, in order, and a file that was    *)
(* passed over was not there.                                              *)

IsSeq(s) == \E S : s \in Seq(S)

\* A load has come to this label, or will when its endpoints are prepared.
AtLabel(label) == loading = label \/ (loading = "prepare" /\ todo.next = label)

Rest == IF loading = "prepare" THEN todo.eps ELSE <<>>

\* Those prepared, then those to do.
WholeOf(eps) ==
    /\ IsSeq(eps)
    /\ Len(endpoints) + Len(Rest) = Len(eps)
    /\ \A i \in 1..Len(endpoints) : endpoints[i].ep = eps[i]
    /\ \A j \in 1..Len(Rest) : Rest[j] = eps[Len(endpoints) + j]

\* The models of the sections written, with the idle timeouts they were given.
ModelsRead ==
    /\ {<<m.kind, m.model>> : m \in models} =
           UNION {{<<k, m>> : m \in Written[k].models} : k \in DOMAIN Written}
    /\ \A m \in models : /\ m.model.alias
                         /\ m.joined => ~m.model.absolute /\ m.kind # "splash-serve"
                         /\ LET idle == Written[m.kind].idle IN
                            m.idle = IF idle.key = "number" THEN idle.minutes ELSE DefaultIdle(m.kind)

Shaped ==
    /\ disk \in Disks
    /\ todo = [next |-> todo.next, eps |-> todo.eps]
    /\ IsSeq(todo.eps) /\ IsSeq(endpoints)
    /\ loading = "prepare" => todo.next \in {"sections", "llama", "loaded"}

UnifiedKept ==
    /\ AtLabel("sections") => disk.settings.is = "ok" /\ WholeOf(disk.settings.eps)
    /\ loading = "override" => disk.settings.is = "ok" /\ ModelsRead /\ WholeOf(disk.settings.eps)

LegacyKept ==
    /\ loading = "settings" => models = {}
    /\ loading \in {"endpoints", "environment"} => ~Unified /\ models = {}
    /\ loading = "environment" => LegacyFile.is = "absent"
    /\ AtLabel("llama") => ~Unified /\ LegacyFile.is \in {"absent", "ok"} /\ models = {} /\ WholeOf(InForce)

FinallyKept ==
    AtLabel("loaded") => (\A file \in Consulted : file.is \in {"absent", "ok"}) /\ ModelsRead /\ WholeOf(InForce)

SourceInv == Shaped /\ UnifiedKept /\ LegacyKept /\ FinallyKept

\* A sequence is its length and its elements.
LEMMA SeqIsItsElements ==
    ASSUME NEW s, IsSeq(s)
    PROVE  s = [i \in 1..Len(s) |-> s[i]] /\ Len(s) \in Nat /\ DOMAIN s = 1..Len(s)
  <1>1. PICK S : s \in Seq(S)
    BY DEF IsSeq
  <1> QED
    BY <1>1

LEMMA EmptyIsSeq == IsSeq(<<>>) /\ Len(<<>>) = 0
  <1>1. <<>> \in Seq({})
    OBVIOUS
  <1> QED
    BY <1>1 DEF IsSeq

\* Endpoints of a file, and of the environment, come in a sequence.
LEMMA DiskSeqs ==
    ASSUME disk \in Disks
    PROVE  /\ \A file \in {disk.settings, disk.override, disk.endpoints} : file.is = "ok" => IsSeq(file.eps)
           /\ IsSeq(disk.environment)
  <1> QED
    BY SettingsAssumption DEF IsSeq

\* At the end of a load that succeeds the invariant is the first half of the
\* property.
LEMMA SourceSound == SourceInv => (loading = "loaded" => SourceKept)
  <1> SUFFICES ASSUME SourceInv, loading = "loaded" PROVE SourceKept
    OBVIOUS
  <1>1. (\A file \in Consulted : file.is \in {"absent", "ok"}) /\ ModelsRead /\ WholeOf(InForce)
    BY DEF SourceInv, FinallyKept, AtLabel
  <1>2. [i \in DOMAIN endpoints |-> endpoints[i].ep] = InForce
    <2> DEFINE source == InForce
    <2>1. IsSeq(endpoints) /\ IsSeq(source) /\ Rest = <<>>
      BY <1>1 DEF SourceInv, Shaped, WholeOf, Rest
    <2>2. Len(endpoints) = Len(source) /\ \A i \in 1..Len(endpoints) : endpoints[i].ep = source[i]
      BY <1>1, <2>1, SeqIsItsElements, EmptyIsSeq DEF WholeOf
    <2> HIDE DEF source
    <2>3. DOMAIN endpoints = 1..Len(source) /\ source = [i \in 1..Len(source) |-> source[i]]
      BY <2>1, <2>2, SeqIsItsElements
    <2>4. [i \in DOMAIN endpoints |-> endpoints[i].ep] = source
      BY <2>2, <2>3
    <2> QED
      BY <2>4 DEF source
  <1> QED
    BY <1>1, <1>2 DEF SourceKept, ModelsRead

LEMMA SourceInit == SettingsInit => SourceInv
  <1> SUFFICES ASSUME SettingsInit PROVE SourceInv
    OBVIOUS
  <1>1. Shaped
    BY EmptyIsSeq DEF SettingsInit, Shaped
  <1>2. UnifiedKept /\ LegacyKept /\ FinallyKept
    BY DEF SettingsInit, UnifiedKept, LegacyKept, FinallyKept, AtLabel
  <1> QED
    BY <1>1, <1>2 DEF SourceInv

\* Steps that move along no label and touch no endpoint.
LEMMA SourceFrame ==
    ASSUME SourceInv, UNCHANGED <<disk, todo, endpoints, models>>, loading' \in {loading, "failed"}
    PROVE  SourceInv'
  <1>1. Shaped'
    BY DEF SourceInv, Shaped
  <1>2. CASE loading' = "failed"
    BY <1>1, <1>2 DEF SourceInv, UnifiedKept, LegacyKept, FinallyKept, AtLabel
  <1>3. CASE loading' = loading
    BY <1>1, <1>3 DEF SourceInv, UnifiedKept, LegacyKept, FinallyKept, AtLabel, WholeOf, Rest, ModelsRead,
                      Written, Unified, InForce, Consulted, LegacyFile
  <1> QED
    BY <1>2, <1>3

\* A source of endpoints is found: none is prepared, all are to do.
LEMMA WholeAtFirst ==
    ASSUME NEW eps, NEW next, IsSeq(eps), Prepare(eps, next)
    PROVE  /\ WholeOf(eps)' /\ loading' = "prepare" /\ todo'.next = next
           /\ todo' = [next |-> todo'.next, eps |-> todo'.eps] /\ IsSeq(todo'.eps) /\ IsSeq(endpoints')
  <1>1. loading' = "prepare" /\ todo' = [next |-> next, eps |-> eps] /\ endpoints' = <<>> /\ todo'.eps = eps
    BY DEF Prepare
  <1>2. Len(eps) \in Nat /\ Len(endpoints') = 0 /\ Rest' = eps /\ IsSeq(endpoints')
    BY <1>1, SeqIsItsElements, EmptyIsSeq DEF Rest
  <1>3. WholeOf(eps)'
    <2>1. \A i \in 1..Len(endpoints') : FALSE
      BY <1>2
    <2>2. \A j \in 1..Len(Rest') : Rest'[j] = eps[Len(endpoints') + j]
      BY <1>2
    <2> QED
      BY <1>2, <2>1, <2>2 DEF WholeOf
  <1> QED
    BY <1>1, <1>2, <1>3

\* An endpoint passes from those to do to those prepared.
LEMMA WholePrepare ==
    ASSUME NEW eps, Shaped, WholeOf(eps), loading = "prepare", loading' = loading, todo.eps # <<>>,
           NEW e, e.ep = Head(todo.eps), endpoints' = Append(endpoints, e),
           todo' = [todo EXCEPT !.eps = Tail(@)]
    PROVE  WholeOf(eps)'
  <1>1. PICK S : todo.eps \in Seq(S)
    BY DEF Shaped, IsSeq
  <1>2. PICK T : endpoints \in Seq(T)
    BY DEF Shaped, IsSeq
  <1> DEFINE rest == todo.eps
             n == Len(endpoints)
  <1>3. /\ rest \in Seq(S) /\ Len(rest) \in Nat /\ Len(rest) >= 1 /\ n \in Nat
        /\ n + Len(rest) = Len(eps)
        /\ \A i \in 1..n : endpoints[i].ep = eps[i]
        /\ \A j \in 1..Len(rest) : rest[j] = eps[n + j]
    BY <1>1, <1>2 DEF WholeOf, Rest
  <1>4. n \in Nat
    BY <1>2
  <1>5. Len(endpoints') = n + 1 /\ endpoints'[n + 1] = e /\ \A i \in 1..n : endpoints'[i] = endpoints[i]
    <2>1. endpoints \in Seq(T \cup {e})
      BY <1>2
    <2> QED
      BY <2>1
  <1>6. Rest' = Tail(rest)
    BY DEF Rest, Shaped
  <1> HIDE DEF rest, n
  <1>7. Len(Tail(rest)) = Len(rest) - 1 /\ \A j \in 1..(Len(rest) - 1) : Tail(rest)[j] = rest[j + 1]
    BY <1>3
  <1>8. e.ep = rest[1]
    BY <1>3 DEF rest
  <1>9. \A i \in 1..(n + 1) : endpoints'[i].ep = eps[i]
    <2> SUFFICES ASSUME NEW i \in 1..(n + 1) PROVE endpoints'[i].ep = eps[i]
      OBVIOUS
    <2>1. CASE i \in 1..n
      BY <2>1, <1>3, <1>5
    <2>2. CASE i = n + 1
      <3>1. 1 \in 1..Len(rest)
        BY <1>3
      <3> QED
        BY <2>2, <3>1, <1>3, <1>5, <1>8
    <2>3. i \in 1..n \/ i = n + 1
      BY <1>4
    <2> QED
      BY <2>1, <2>2, <2>3
  <1>10. \A j \in 1..(Len(rest) - 1) : Tail(rest)[j] = eps[n + 1 + j]
    <2> SUFFICES ASSUME NEW j \in 1..(Len(rest) - 1) PROVE Tail(rest)[j] = eps[n + 1 + j]
      OBVIOUS
    <2>1. j + 1 \in 1..Len(rest) /\ n + (j + 1) = n + 1 + j
      BY <1>3
    <2>2. rest[j + 1] = eps[n + (j + 1)]
      BY <2>1, <1>3
    <2> QED
      BY <2>1, <2>2, <1>7
  <1>11. n + 1 + (Len(rest) - 1) = Len(eps)
    BY <1>3
  <1>12. IsSeq(eps)
    BY DEF WholeOf
  <1> QED
    BY <1>5, <1>6, <1>7, <1>9, <1>10, <1>11, <1>12 DEF WholeOf

\* PrepareEndpoint moves one endpoint, or fails the load.
LEMMA SourcePrepare == ASSUME SourceInv, PrepareEndpoint PROVE SourceInv'
  <1> DEFINE e == [ep |-> Head(todo.eps), roots |-> [n \in DOMAIN Transports |-> Roots(Head(todo.eps), n)]]
  <1>1. loading = "prepare" /\ todo.eps # <<>> /\ UNCHANGED <<disk, policy, models>>
    BY DEF PrepareEndpoint
  <1>2. CASE loading' = "failed" /\ UNCHANGED <<todo, building, endpoints>>
    BY <1>1, <1>2, SourceFrame
  <1>3. CASE loading' = loading /\ endpoints' = Append(endpoints, e) /\ todo' = [todo EXCEPT !.eps = Tail(@)]
    <2>1. e.ep = Head(todo.eps)
      OBVIOUS
    <2> HIDE DEF e
    <2>2. Shaped
      BY DEF SourceInv
    <2>3. \A eps : WholeOf(eps) => WholeOf(eps)'
      BY <1>1, <1>3, <2>1, <2>2, WholePrepare
    <2>4. IsSeq(endpoints')
      <3>1. PICK T : endpoints \in Seq(T)
        BY <2>2 DEF Shaped, IsSeq
      <3>2. endpoints \in Seq(T \cup {e})
        BY <3>1
      <3>3. Append(endpoints, e) \in Seq(T \cup {e})
        BY <3>2
      <3> QED
        BY <3>3, <1>3 DEF IsSeq
    <2>5. IsSeq(Tail(todo.eps))
      <3>1. PICK S : todo.eps \in Seq(S)
        BY <2>2 DEF Shaped, IsSeq
      <3>2. Tail(todo.eps) \in Seq(S)
        BY <3>1, <1>1
      <3> QED
        BY <3>2 DEF IsSeq
    <2>6. todo' = [next |-> todo.next, eps |-> Tail(todo.eps)]
      BY <1>3, <2>2 DEF Shaped
    <2>7. todo'.next = todo.next /\ todo'.eps = Tail(todo.eps)
      BY <2>6
    <2>8. Shaped'
      BY <1>1, <1>3, <2>2, <2>4, <2>5, <2>6, <2>7 DEF Shaped
    <2>9. \A l : AtLabel(l)' <=> AtLabel(l)
      BY <1>3, <2>7 DEF AtLabel
    <2>10. /\ Unified' = Unified /\ InForce' = InForce /\ Consulted' = Consulted /\ ModelsRead' = ModelsRead
           /\ LegacyFile' = LegacyFile /\ disk' = disk /\ models' = models
      BY <1>1 DEF Unified, InForce, Consulted, ModelsRead, Written, LegacyFile
    <2>11. UnifiedKept'
      BY <1>1, <1>3, <2>3, <2>9, <2>10 DEF SourceInv, UnifiedKept
    <2>12. LegacyKept'
      BY <1>1, <1>3, <2>3, <2>9, <2>10 DEF SourceInv, LegacyKept
    <2>13. FinallyKept'
      BY <1>1, <1>3, <2>3, <2>9, <2>10 DEF SourceInv, FinallyKept
    <2> QED
      BY <2>8, <2>11, <2>12, <2>13 DEF SourceInv
  <1> QED
    BY <1>2, <1>3 DEF PrepareEndpoint

\* A label is reached without a change to the endpoints.
LEMMA WholeStays ==
    ASSUME NEW eps, WholeOf(eps), UNCHANGED endpoints, Rest' = Rest
    PROVE  WholeOf(eps)'
  <1> QED
    BY DEF WholeOf

LEMMA SourceAllPrepared == ASSUME SourceInv, AllPrepared PROVE SourceInv'
  <1>1. /\ loading = "prepare" /\ todo.eps = <<>> /\ loading' = todo.next
        /\ UNCHANGED <<disk, todo, endpoints, models>>
        /\ todo.next \in {"sections", "llama", "loaded"}
    BY DEF AllPrepared, SourceInv, Shaped
  <1>2. Rest = <<>> /\ Rest' = <<>>
    BY <1>1 DEF Rest
  <1>3. Shaped'
    BY <1>1 DEF SourceInv, Shaped
  <1>4. \A eps : WholeOf(eps) => WholeOf(eps)'
    BY <1>1, <1>2, WholeStays
  <1>5. \A l : AtLabel(l)' => AtLabel(l)
    BY <1>1 DEF AtLabel
  <1>6. /\ Unified' = Unified /\ InForce' = InForce /\ Consulted' = Consulted /\ ModelsRead' = ModelsRead
        /\ LegacyFile' = LegacyFile /\ disk' = disk /\ models' = models
    BY <1>1 DEF Unified, InForce, Consulted, ModelsRead, Written, LegacyFile
  <1>7. loading' \notin {"settings", "override", "endpoints", "environment"}
    BY <1>1
  <1>8. UnifiedKept'
    BY <1>4, <1>5, <1>6, <1>7 DEF SourceInv, UnifiedKept
  <1>9. LegacyKept'
    BY <1>4, <1>5, <1>6, <1>7 DEF SourceInv, LegacyKept
  <1>10. FinallyKept'
    BY <1>4, <1>5, <1>6, <1>7 DEF SourceInv, FinallyKept
  <1> QED
    BY <1>3, <1>8, <1>9, <1>10 DEF SourceInv

\* settings.json, or the files it replaces.
LEMMA SourceReadSettings == ASSUME SourceInv, ReadSettings PROVE SourceInv'
  <1>1. loading = "settings" /\ UNCHANGED <<disk, models>> /\ models = {}
    BY DEF ReadSettings, KeepCA, SourceInv, LegacyKept
  <1>2. CASE disk.settings.is = "absent"
    <2>1. loading' = "endpoints" /\ UNCHANGED <<todo, endpoints>>
      BY <1>2 DEF ReadSettings
    <2>2. Shaped'
      BY <1>1, <2>1 DEF SourceInv, Shaped
    <2> QED
      BY <1>1, <1>2, <2>1, <2>2 DEF SourceInv, UnifiedKept, LegacyKept, FinallyKept, AtLabel, Unified
  <1>3. CASE disk.settings.is = "ok"
    <2>1. Prepare(disk.settings.eps, "sections")
      BY <1>3 DEF ReadSettings
    <2>2. IsSeq(disk.settings.eps)
      BY <1>3, DiskSeqs DEF SourceInv, Shaped
    <2>3. /\ WholeOf(disk.settings.eps)' /\ loading' = "prepare" /\ todo'.next = "sections"
          /\ todo' = [next |-> todo'.next, eps |-> todo'.eps] /\ IsSeq(todo'.eps) /\ IsSeq(endpoints')
      <3> DEFINE eps == disk.settings.eps
      <3>1. IsSeq(eps) /\ Prepare(eps, "sections") /\ eps' = eps
        BY <2>1, <2>2, <1>1
      <3> HIDE DEF eps
      <3>2. /\ WholeOf(eps)' /\ loading' = "prepare" /\ todo'.next = "sections"
            /\ todo' = [next |-> todo'.next, eps |-> todo'.eps] /\ IsSeq(todo'.eps) /\ IsSeq(endpoints')
        BY <3>1, WholeAtFirst DEF WholeOf
      <3> QED
        BY <3>2 DEF eps
    <2>4. Shaped'
      BY <1>1, <2>3 DEF SourceInv, Shaped
    <2> QED
      BY <1>1, <1>3, <2>3, <2>4 DEF SourceInv, UnifiedKept, LegacyKept, FinallyKept, AtLabel
  <1>4. CASE disk.settings.is \notin {"absent", "ok"}
    <2>1. loading' = "failed" /\ UNCHANGED <<todo, endpoints>>
      BY <1>4 DEF ReadSettings
    <2> QED
      BY <1>1, <2>1, SourceFrame
  <1> QED
    BY <1>2, <1>3, <1>4

\* The models of one section carry its name, and what it says of each.
LEMMA SectionRead ==
    ASSUME NEW kind, NEW section, SectionValid(section),
           section.idle.key = "number" \/ section.idle.minutes = 0,
           NEW m \in ParseServerRawModels(kind, section)
    PROVE  /\ m.kind = kind /\ m.model \in section.models /\ m.model.alias
           /\ m.joined => ~m.model.absolute /\ kind # "splash-serve"
           /\ m.idle = IF section.idle.key = "number" THEN section.idle.minutes ELSE DefaultIdle(kind)
  <1>1. PICK n \in section.models :
            m = [kind |-> kind, model |-> n, idle |-> IdleMinutes(kind, section.idle),
                 joined |-> section.dir /\ ~n.absolute /\ kind # "splash-serve"]
    BY DEF ParseServerRawModels
  <1>2. m.kind = kind /\ m.model = n /\ m.idle = IdleMinutes(kind, section.idle)
    BY <1>1
  <1>3. m.joined <=> section.dir /\ ~n.absolute /\ kind # "splash-serve"
    BY <1>1
  <1> QED
    BY <1>2, <1>3 DEF SectionValid, IdleMinutes, IdleSet

\* And no model of a section is missed.
LEMMA SectionWhole ==
    ASSUME NEW kind, NEW section, NEW n \in section.models
    PROVE  \E m \in ParseServerRawModels(kind, section) : m.kind = kind /\ m.model = n
  <1> DEFINE m == [kind |-> kind, model |-> n, idle |-> IdleMinutes(kind, section.idle),
                   joined |-> section.dir /\ ~n.absolute /\ kind # "splash-serve"]
  <1>1. m \in ParseServerRawModels(kind, section)
    BY DEF ParseServerRawModels
  <1>2. m.kind = kind /\ m.model = n
    OBVIOUS
  <1> QED
    BY <1>1, <1>2

\* The models of every section written, and only those.
LEMMA SectionsRead ==
    ASSUME NEW sections,
           \A k \in DOMAIN sections : SectionValid(sections[k]),
           \A k \in DOMAIN sections : sections[k].idle.key = "number" \/ sections[k].idle.minutes = 0,
           Written' = sections,
           models' = UNION {ParseServerRawModels(k, sections[k]) : k \in DOMAIN sections}
    PROVE  ModelsRead'
  <1>1. \A m \in models' : \E k \in DOMAIN sections : m \in ParseServerRawModels(k, sections[k])
    OBVIOUS
  <1>2. ASSUME NEW m \in models'
        PROVE  /\ m.kind \in DOMAIN sections /\ m.model \in sections[m.kind].models /\ m.model.alias
               /\ m.joined => ~m.model.absolute /\ m.kind # "splash-serve"
               /\ m.idle = IF sections[m.kind].idle.key = "number" THEN sections[m.kind].idle.minutes ELSE DefaultIdle(m.kind)
    <2>1. PICK k \in DOMAIN sections : m \in ParseServerRawModels(k, sections[k])
      BY <1>1
    <2> DEFINE section == sections[k]
    <2>2. SectionValid(section) /\ (section.idle.key = "number" \/ section.idle.minutes = 0)
      BY <2>1
    <2>3. m \in ParseServerRawModels(k, section)
      BY <2>1
    <2> HIDE DEF section
    <2>4. /\ m.kind = k /\ m.model \in section.models /\ m.model.alias
          /\ m.joined => ~m.model.absolute /\ k # "splash-serve"
          /\ m.idle = IF section.idle.key = "number" THEN section.idle.minutes ELSE DefaultIdle(k)
      BY <2>2, <2>3, SectionRead
    <2> QED
      BY <2>1, <2>4 DEF section
  <1>3. ASSUME NEW k \in DOMAIN sections, NEW n \in sections[k].models
        PROVE  \E m \in models' : m.kind = k /\ m.model = n
    <2>1. \E m \in ParseServerRawModels(k, sections[k]) : m.kind = k /\ m.model = n
      BY <1>3, SectionWhole
    <2> QED
      BY <2>1
  <1>4. {<<m.kind, m.model>> : m \in models'} = UNION {{<<k, n>> : n \in sections[k].models} : k \in DOMAIN sections}
    <2>1. ASSUME NEW p \in {<<m.kind, m.model>> : m \in models'}
          PROVE  p \in UNION {{<<k, n>> : n \in sections[k].models} : k \in DOMAIN sections}
      BY <2>1, <1>2
    <2>2. ASSUME NEW p \in UNION {{<<k, n>> : n \in sections[k].models} : k \in DOMAIN sections}
          PROVE  p \in {<<m.kind, m.model>> : m \in models'}
      <3>1. PICK k \in DOMAIN sections : \E n \in sections[k].models : p = <<k, n>>
        BY <2>2
      <3>2. PICK n \in sections[k].models : p = <<k, n>>
        BY <3>1
      <3>3. PICK m \in models' : m.kind = k /\ m.model = n
        BY <1>3
      <3> QED
        BY <3>2, <3>3
    <2> QED
      BY <2>1, <2>2
  <1>5. \A m \in models' :
            /\ m.model.alias
            /\ m.joined => ~m.model.absolute /\ m.kind # "splash-serve"
            /\ m.idle = IF sections[m.kind].idle.key = "number" THEN sections[m.kind].idle.minutes ELSE DefaultIdle(m.kind)
    BY <1>2
  <1> QED
    BY <1>4, <1>5 DEF ModelsRead

LEMMA SourceParseSections == ASSUME SourceInv, ParseSections PROVE SourceInv'
  <1>1. loading = "sections" /\ UNCHANGED <<disk, todo, endpoints>>
    BY DEF ParseSections, KeepCA
  <1>2. disk.settings.is = "ok" /\ WholeOf(disk.settings.eps) /\ disk \in Disks
    BY <1>1 DEF SourceInv, UnifiedKept, AtLabel, Shaped
  <1>3. CASE loading' = "failed" /\ UNCHANGED models
    BY <1>1, <1>3, SourceFrame
  <1>4. CASE /\ loading' = "override"
             /\ \A k \in DOMAIN disk.settings.sections : SectionValid(disk.settings.sections[k])
             /\ models' = UNION {ParseServerRawModels(k, disk.settings.sections[k]) : k \in DOMAIN disk.settings.sections}
    <2>1. Shaped'
      BY <1>1, <1>4 DEF SourceInv, Shaped
    <2>2. Rest = <<>> /\ Rest' = <<>>
      BY <1>1, <1>4 DEF Rest
    <2>3. WholeOf(disk.settings.eps)'
      BY <1>1, <1>2, <2>2 DEF WholeOf
    <2>4. ModelsRead'
      <3> DEFINE sections == disk.settings.sections
      <3>1. /\ \A k \in DOMAIN sections : SectionValid(sections[k])
            /\ models' = UNION {ParseServerRawModels(k, sections[k]) : k \in DOMAIN sections}
        BY <1>4
      <3>2. \A k \in DOMAIN sections : sections[k].idle.key = "number" \/ sections[k].idle.minutes = 0
        BY <1>2, SettingsAssumption
      <3>3. Written' = sections
        BY <1>1, <1>2 DEF Written, Unified
      <3> HIDE DEF sections
      <3> QED
        BY <3>1, <3>2, <3>3, SectionsRead
    <2>5. UnifiedKept' /\ LegacyKept' /\ FinallyKept'
      BY <1>1, <1>2, <1>4, <2>3, <2>4 DEF UnifiedKept, LegacyKept, FinallyKept, AtLabel
    <2> QED
      BY <2>1, <2>5 DEF SourceInv
  <1> QED
    BY <1>3, <1>4 DEF ParseSections

\* The file of the flag, under settings.json.
LEMMA SourceReadOverride == ASSUME SourceInv, ReadOverride PROVE SourceInv'
  <1>1. loading = "override" /\ UNCHANGED <<disk, models>>
    BY DEF ReadOverride, KeepCA
  <1>2. disk.settings.is = "ok" /\ WholeOf(disk.settings.eps) /\ ModelsRead /\ disk \in Disks
    BY <1>1 DEF SourceInv, UnifiedKept, Shaped
  <1>3. ModelsRead' /\ Unified'
    BY <1>1, <1>2 DEF ModelsRead, Written, Unified
  <1>4. Consulted' = {disk.override, disk.settings}
    BY <1>1, <1>2 DEF Consulted, Unified
  <1>5. CASE disk.override.is = "absent"
    <2>1. loading' = "loaded" /\ UNCHANGED <<todo, endpoints>>
      BY <1>5 DEF ReadOverride, Passable
    <2>2. Shaped'
      BY <1>1, <2>1 DEF SourceInv, Shaped
    <2>3. Rest = <<>> /\ Rest' = <<>>
      BY <1>1, <2>1 DEF Rest
    <2>4. InForce' = disk.settings.eps
      BY <1>1, <1>2, <1>5 DEF InForce, Unified
    <2>5. WholeOf(InForce)'
      BY <1>1, <1>2, <2>1, <2>3, <2>4 DEF WholeOf
    <2>6. UnifiedKept' /\ LegacyKept' /\ FinallyKept'
      BY <1>1, <1>2, <1>3, <1>4, <1>5, <2>1, <2>5 DEF UnifiedKept, LegacyKept, FinallyKept, AtLabel
    <2> QED
      BY <2>2, <2>6 DEF SourceInv
  <1>6. CASE disk.override.is = "ok"
    <2> DEFINE eps == disk.override.eps
    <2>1. Prepare(eps, "loaded") /\ IsSeq(eps) /\ eps' = eps
      BY <1>1, <1>2, <1>6, DiskSeqs DEF ReadOverride, Passable
    <2>2. disk.flag
      BY <1>2, <1>6, SettingsAssumption
    <2>3. InForce' = eps
      BY <1>1, <1>6, <2>2 DEF InForce
    <2> HIDE DEF eps
    <2>4. /\ WholeOf(eps)' /\ loading' = "prepare" /\ todo'.next = "loaded"
          /\ todo' = [next |-> todo'.next, eps |-> todo'.eps] /\ IsSeq(todo'.eps) /\ IsSeq(endpoints')
      BY <2>1, WholeAtFirst DEF WholeOf
    <2>5. Shaped'
      BY <1>1, <2>4 DEF SourceInv, Shaped
    <2>6. WholeOf(InForce)'
      BY <2>1, <2>3, <2>4 DEF WholeOf
    <2>7. UnifiedKept' /\ LegacyKept' /\ FinallyKept'
      BY <1>1, <1>2, <1>3, <1>4, <1>6, <2>4, <2>6 DEF UnifiedKept, LegacyKept, FinallyKept, AtLabel
    <2> QED
      BY <2>5, <2>7 DEF SourceInv
  <1>7. CASE disk.override.is \notin {"absent", "ok"}
    <2>1. loading' = "failed" /\ UNCHANGED <<todo, endpoints>>
      BY <1>7 DEF ReadOverride, Passable
    <2> QED
      BY <1>1, <2>1, SourceFrame
  <1> QED
    BY <1>5, <1>6, <1>7

\* Without settings.json, the file that took its place.
LEMMA SourceReadEndpoints == ASSUME SourceInv, ReadEndpoints PROVE SourceInv'
  <1>1. loading = "endpoints" /\ UNCHANGED <<disk, models>> /\ models = {} /\ ~Unified /\ disk \in Disks
    BY DEF ReadEndpoints, KeepCA, SourceInv, LegacyKept, Shaped
  <1>2. ~Unified' /\ LegacyFile' = LegacyFile
    BY <1>1 DEF Unified, LegacyFile
  <1>3. CASE LegacyFile.is = "absent"
    <2>1. loading' = "environment" /\ UNCHANGED <<todo, endpoints>>
      BY <1>3 DEF ReadEndpoints, Passable, LegacyFile
    <2>2. Shaped'
      BY <1>1, <2>1 DEF SourceInv, Shaped
    <2>3. UnifiedKept' /\ LegacyKept' /\ FinallyKept'
      BY <1>1, <1>2, <1>3, <2>1 DEF UnifiedKept, LegacyKept, FinallyKept, AtLabel
    <2> QED
      BY <2>2, <2>3 DEF SourceInv
  <1>4. CASE LegacyFile.is = "ok"
    <2> DEFINE eps == LegacyFile.eps
    <2>1. Prepare(eps, "llama") /\ IsSeq(eps) /\ eps' = eps
      BY <1>1, <1>2, <1>4, DiskSeqs DEF ReadEndpoints, Passable, LegacyFile
    <2>2. InForce' = eps
      BY <1>1, <1>4 DEF InForce, Unified, LegacyFile
    <2> HIDE DEF eps
    <2>3. /\ WholeOf(eps)' /\ loading' = "prepare" /\ todo'.next = "llama"
          /\ todo' = [next |-> todo'.next, eps |-> todo'.eps] /\ IsSeq(todo'.eps) /\ IsSeq(endpoints')
      BY <2>1, WholeAtFirst DEF WholeOf
    <2>4. Shaped'
      BY <1>1, <2>3 DEF SourceInv, Shaped
    <2>5. WholeOf(InForce)'
      BY <2>1, <2>2, <2>3 DEF WholeOf
    <2>6. UnifiedKept' /\ LegacyKept' /\ FinallyKept'
      BY <1>1, <1>2, <1>4, <2>3, <2>5 DEF UnifiedKept, LegacyKept, FinallyKept, AtLabel
    <2> QED
      BY <2>4, <2>6 DEF SourceInv
  <1>5. CASE LegacyFile.is \notin {"absent", "ok"}
    <2>1. loading' = "failed" /\ UNCHANGED <<todo, endpoints>>
      BY <1>5 DEF ReadEndpoints, Passable, LegacyFile
    <2> QED
      BY <1>1, <2>1, SourceFrame
  <1> QED
    BY <1>3, <1>4, <1>5

LEMMA SourceReadEnvironment == ASSUME SourceInv, ReadEnvironment PROVE SourceInv'
  <1>1. /\ loading = "environment" /\ UNCHANGED <<disk, models>> /\ models = {} /\ ~Unified /\ disk \in Disks
        /\ LegacyFile.is = "absent"
    BY DEF ReadEnvironment, KeepCA, SourceInv, LegacyKept, Shaped
  <1>2. ~Unified' /\ LegacyFile' = LegacyFile
    BY <1>1 DEF Unified, LegacyFile
  <1> DEFINE eps == disk.environment
  <1>3. Prepare(eps, "llama") /\ IsSeq(eps) /\ eps' = eps
    BY <1>1, DiskSeqs DEF ReadEnvironment
  <1>4. InForce' = eps
    BY <1>1 DEF InForce, Unified, LegacyFile
  <1> HIDE DEF eps
  <1>5. /\ WholeOf(eps)' /\ loading' = "prepare" /\ todo'.next = "llama"
        /\ todo' = [next |-> todo'.next, eps |-> todo'.eps] /\ IsSeq(todo'.eps) /\ IsSeq(endpoints')
    BY <1>3, WholeAtFirst DEF WholeOf
  <1>6. Shaped'
    BY <1>1, <1>5 DEF SourceInv, Shaped
  <1>7. WholeOf(InForce)'
    BY <1>3, <1>4, <1>5 DEF WholeOf
  <1>8. UnifiedKept' /\ LegacyKept' /\ FinallyKept'
    BY <1>1, <1>2, <1>5, <1>7 DEF UnifiedKept, LegacyKept, FinallyKept, AtLabel
  <1> QED
    BY <1>6, <1>8 DEF SourceInv

\* llama_models.json comes last, and is the only section of its kind.
LEMMA SourceReadLlama == ASSUME SourceInv, ReadLlamaModels PROVE SourceInv'
  <1>1. /\ loading = "llama" /\ UNCHANGED <<disk, todo, endpoints>> /\ disk \in Disks
        /\ ~Unified /\ LegacyFile.is \in {"absent", "ok"} /\ models = {} /\ WholeOf(InForce)
    BY DEF ReadLlamaModels, KeepCA, SourceInv, LegacyKept, Shaped, AtLabel
  <1>2. CASE loading' = "failed" /\ UNCHANGED models
    BY <1>1, <1>2, SourceFrame
  <1>3. ASSUME loading' = "loaded", disk.llama.is \in {"absent", "ok"}, ModelsRead' PROVE SourceInv'
    <2>1. Shaped'
      BY <1>1, <1>3 DEF SourceInv, Shaped
    <2>2. Rest = <<>> /\ Rest' = <<>>
      BY <1>1, <1>3 DEF Rest
    <2>3. InForce' = InForce
      BY <1>1 DEF InForce, Unified
    <2>4. WholeOf(InForce)'
      BY <1>1, <2>2, <2>3 DEF WholeOf
    <2>5. \A file \in Consulted' : file.is \in {"absent", "ok"}
      <3>1. disk.flag \/ disk.override.is = "absent"
        BY <1>1, SettingsAssumption
      <3> QED
        BY <1>1, <1>3, <3>1 DEF Consulted, Unified, LegacyFile
    <2>6. UnifiedKept' /\ LegacyKept' /\ FinallyKept'
      BY <1>1, <1>3, <2>4, <2>5 DEF UnifiedKept, LegacyKept, FinallyKept, AtLabel
    <2> QED
      BY <2>1, <2>6 DEF SourceInv
  <1>4. CASE disk.llama.is = "absent"
    <2>1. loading' = "loaded" /\ models' = models
      BY <1>4 DEF ReadLlamaModels, Passable
    <2>2. Written' = <<>>
      BY <1>1, <1>4 DEF Written, Unified
    <2>3. DOMAIN Written' = {} /\ models' = {}
      BY <1>1, <2>1, <2>2
    <2>4. ModelsRead'
      BY <2>3 DEF ModelsRead
    <2> QED
      BY <1>3, <1>4, <2>1, <2>4
  <1>5. CASE disk.llama.is = "ok" /\ SectionValid(disk.llama.section)
    <2> DEFINE sections == [k \in {"llama-server"} |-> disk.llama.section]
    <2>1. loading' = "loaded" /\ models' = ParseServerRawModels("llama-server", disk.llama.section)
      BY <1>5 DEF ReadLlamaModels, Passable
    <2>2. \A k \in DOMAIN sections : SectionValid(sections[k])
      BY <1>5
    <2>3. \A k \in DOMAIN sections : sections[k].idle.key = "number" \/ sections[k].idle.minutes = 0
      BY <1>1, <1>5, SettingsAssumption
    <2>4. Written' = sections
      BY <1>1, <1>5 DEF Written, Unified
    <2>5. models' = UNION {ParseServerRawModels(k, sections[k]) : k \in DOMAIN sections}
      <3>1. DOMAIN sections = {"llama-server"} /\ sections["llama-server"] = disk.llama.section
        OBVIOUS
      <3> HIDE DEF sections
      <3> QED
        BY <2>1, <3>1
    <2> HIDE DEF sections
    <2>6. ModelsRead'
      BY <2>2, <2>3, <2>4, <2>5, SectionsRead
    <2> QED
      BY <1>3, <1>5, <2>1, <2>6
  <1> QED
    BY <1>2, <1>4, <1>5 DEF ReadLlamaModels, Passable

LEMMA SourceNext == SourceInv /\ [SettingsNext]_settingsVars => SourceInv'
  <1> SUFFICES ASSUME SourceInv, [SettingsNext]_settingsVars PROVE SourceInv'
    OBVIOUS
  <1>1. ASSUME NEW contents \in Contents, RewriteCA(contents) PROVE SourceInv'
    BY <1>1, SourceFrame DEF RewriteCA
  <1>2. CASE ReadCA
    BY <1>2, SourceFrame DEF ReadCA
  <1>3. ASSUME NEW i \in DOMAIN endpoints, NEW n \in DOMAIN Transports, NEW peer \in Peers, Connect(i, n, peer)
        PROVE  SourceInv'
    BY <1>3, SourceFrame DEF Connect
  <1>4. CASE UNCHANGED settingsVars
    BY <1>4, SourceFrame DEF settingsVars
  <1>5. ASSUME NEW scheme, NEW loopback, NEW peer, FollowRedirect(scheme, loopback, peer) PROVE SourceInv'
    BY <1>5, SourceFrame DEF FollowRedirect
  <1> QED
    BY <1>1, <1>2, <1>3, <1>4, <1>5, SourceReadSettings, SourceParseSections, SourceReadOverride, SourceReadEndpoints,
       SourceReadEnvironment, SourceReadLlama, SourcePrepare, SourceAllPrepared DEF SettingsNext

(* Why a load fails.  What is left to prepare is of the sources looked at, *)
(* and the policy is that of settings.json, so that what fails the load is *)
(* a fault of what was written or of the CA file.                          *)

ReasonInv ==
    /\ caFile \in held
    /\ loading \notin {"settings", "failed"} => (~policy => ~Acknowledged)
    /\ loading = "prepare" => \A i \in DOMAIN todo.eps : todo.eps[i] \in LookedAt
    /\ loading = "failed" => FailsForReason

\* A load that goes on leaves the files as they are.
LEMMA ReasonFrame ==
    ASSUME ReasonInv, UNCHANGED <<disk, policy>>, caFile' \in held', loading \notin {"settings", "failed"},
           loading' = "prepare" => \A i \in DOMAIN todo'.eps : todo'.eps[i] \in LookedAt',
           loading' = "failed" => FailsForReason'
    PROVE  ReasonInv'
  <1>1. Acknowledged' = Acknowledged
    BY DEF Acknowledged
  <1>2. ~policy' => ~Acknowledged'
    BY <1>1 DEF ReasonInv
  <1> QED
    BY <1>2 DEF ReasonInv

\* What a load may look at is settled by the files.
LEMMA SameFiles ==
    ASSUME UNCHANGED disk
    PROVE  /\ LookedAt' = LookedAt /\ Consulted' = Consulted /\ Written' = Written
           /\ Unified' = Unified /\ LegacyFile' = LegacyFile /\ Acknowledged' = Acknowledged
  BY DEF LookedAt, EndpointsOf, Consulted, Written, Unified, LegacyFile, Acknowledged

\* The endpoints of a file that is read are among those looked at.
LEMMA LooksAt ==
    ASSUME NEW file, file.is = "ok",
           \/ Unified /\ file \in {disk.settings, disk.override}
           \/ ~Unified /\ file = LegacyFile
    PROVE  \A i \in DOMAIN file.eps : file.eps[i] \in LookedAt
  <1>1. \A files : file \in files => Range(file.eps) \subseteq EndpointsOf(files)
    BY DEF EndpointsOf
  <1>2. Range(file.eps) \subseteq LookedAt
    BY <1>1 DEF LookedAt
  <1>3. \A i \in DOMAIN file.eps : file.eps[i] \in Range(file.eps)
    BY DEF Range
  <1> QED
    BY <1>2, <1>3

LEMMA EnvironmentLookedAt ==
    ASSUME ~Unified, LegacyFile.is = "absent" PROVE Range(disk.environment) \subseteq LookedAt
  BY DEF LookedAt

\* An endpoint that is not valid has a fault that was written.
LEMMA InvalidIsFaulty == ASSUME NEW ep, ~Valid(ep), ~policy => ~Acknowledged PROVE Faulty(ep)
  BY DEF Valid, Faulty

\* One of the endpoints looked at fails the load, and for a reason.
LEMMA ReasonEndpoint ==
    ASSUME NEW ep \in LookedAt, Faulty(ep), UNCHANGED <<disk, held>> PROVE FailsForReason'
  <1>1. ep \in LookedAt'
    BY SameFiles
  <1>2. Faulty(ep)'
    BY SameFiles DEF Faulty
  <1> QED
    BY <1>1, <1>2 DEF FailsForReason

\* The endpoint in hand is one of those to do.
LEMMA HeadLookedAt ==
    ASSUME SourceInv, ReasonInv, loading = "prepare", todo.eps # <<>>
    PROVE  /\ Head(todo.eps) \in LookedAt
           /\ \A i \in DOMAIN Tail(todo.eps) : Tail(todo.eps)[i] \in LookedAt
  <1> DEFINE eps == todo.eps
  <1>1. PICK S : eps \in Seq(S)
    BY DEF SourceInv, Shaped, IsSeq
  <1>2. eps # <<>> /\ \A i \in DOMAIN eps : eps[i] \in LookedAt
    BY DEF ReasonInv
  <1> HIDE DEF eps
  <1>3. Len(eps) \in Nat /\ Len(eps) >= 1 /\ DOMAIN eps = 1..Len(eps) /\ Head(eps) = eps[1]
    BY <1>1, <1>2
  <1>4. Head(eps) \in LookedAt
    BY <1>2, <1>3
  <1>5. DOMAIN Tail(eps) = 1..(Len(eps) - 1) /\ \A i \in 1..(Len(eps) - 1) : Tail(eps)[i] = eps[i + 1]
    BY <1>1, <1>2, <1>3
  <1>6. \A i \in 1..(Len(eps) - 1) : i + 1 \in DOMAIN eps
    BY <1>3
  <1>7. \A i \in DOMAIN Tail(eps) : Tail(eps)[i] \in LookedAt
    BY <1>2, <1>5, <1>6
  <1> QED
    BY <1>4, <1>7 DEF eps

LEMMA ReasonReadSettings == ASSUME SourceInv, ReasonInv, ReadSettings PROVE ReasonInv'
  <1>1. loading = "settings" /\ UNCHANGED <<disk, caFile, held>> /\ caFile' \in held'
    BY DEF ReadSettings, KeepCA, ReasonInv
  <1>2. CASE disk.settings.is = "absent"
    <2>1. loading' = "endpoints" /\ ~Acknowledged'
      BY <1>1, <1>2 DEF ReadSettings, Acknowledged
    <2> QED
      BY <1>1, <2>1 DEF ReasonInv
  <1>3. CASE disk.settings.is = "ok"
    <2>1. policy' = disk.settings.plaintext /\ loading' = "prepare" /\ todo' = [next |-> "sections", eps |-> disk.settings.eps]
      BY <1>3 DEF ReadSettings, Prepare
    <2>2. ~policy' => ~Acknowledged'
      BY <1>1, <2>1 DEF Acknowledged
    <2>3. todo'.eps = disk.settings.eps /\ Unified
      BY <1>3, <2>1 DEF Unified
    <2>4. \A i \in DOMAIN disk.settings.eps : disk.settings.eps[i] \in LookedAt
      BY <1>3, <2>3, LooksAt
    <2>5. \A i \in DOMAIN todo'.eps : todo'.eps[i] \in LookedAt'
      BY <1>1, <2>3, <2>4, SameFiles
    <2> QED
      BY <1>1, <2>1, <2>2, <2>5 DEF ReasonInv
  <1>4. CASE disk.settings.is \notin {"absent", "ok"}
    <2>1. loading' = "failed"
      BY <1>4 DEF ReadSettings
    <2>2. disk.settings \in Consulted'
      BY <1>1, <1>4 DEF Consulted, Unified
    <2>3. FailsForReason'
      BY <1>4, <2>2 DEF FailsForReason
    <2> QED
      BY <1>1, <2>1, <2>3 DEF ReasonInv
  <1> QED
    BY <1>2, <1>3, <1>4

LEMMA ReasonParseSections == ASSUME SourceInv, ReasonInv, ParseSections PROVE ReasonInv'
  <1>1. /\ loading = "sections" /\ UNCHANGED <<disk, caFile, held, policy, todo>> /\ caFile' \in held'
        /\ loading' \in {"override", "failed"}
        /\ disk.settings.is = "ok" /\ Unified
    BY DEF ParseSections, KeepCA, ReasonInv, SourceInv, UnifiedKept, AtLabel, Unified
  <1>2. ASSUME loading' = "failed" PROVE FailsForReason'
    <2> DEFINE s == disk.settings
    <2>1. ~(VirtualValid(s) /\ "" \notin s.systemModels /\ \A k \in DOMAIN s.sections : SectionValid(s.sections[k]))
      BY <1>2 DEF ParseSections
    <2>2. Unified' /\ Written' = s.sections /\ disk' = disk
      BY <1>1, SameFiles DEF Written
    <2>3. CASE "" \in s.systemModels \/ ~VirtualValid(s)
      BY <2>2, <2>3 DEF FailsForReason, VirtualValid
    <2>4. ASSUME NEW k \in DOMAIN s.sections, ~SectionValid(s.sections[k]) PROVE FailsForReason'
      <3>1. k \in DOMAIN Written' /\ (~Written'[k].api \/ \E m \in Written'[k].models : ~m.alias)
        BY <2>2, <2>4 DEF SectionValid
      <3> QED
        BY <3>1 DEF FailsForReason
    <2> QED
      BY <2>1, <2>3, <2>4
  <1> QED
    BY <1>1, <1>2, ReasonFrame

LEMMA ReasonReadOverride == ASSUME SourceInv, ReasonInv, ReadOverride PROVE ReasonInv'
  <1>1. /\ loading = "override" /\ UNCHANGED <<disk, caFile, held, policy>> /\ caFile' \in held' /\ Unified
    BY DEF ReadOverride, KeepCA, ReasonInv, SourceInv, UnifiedKept, Unified
  <1>2. CASE disk.override.is = "absent"
    BY <1>1, <1>2, ReasonFrame DEF ReadOverride, Passable
  <1>3. CASE disk.override.is = "ok"
    <2>1. loading' = "prepare" /\ todo' = [next |-> "loaded", eps |-> disk.override.eps]
      BY <1>3 DEF ReadOverride, Passable, Prepare
    <2>2. todo'.eps = disk.override.eps /\ \A i \in DOMAIN disk.override.eps : disk.override.eps[i] \in LookedAt
      BY <1>1, <1>3, <2>1, LooksAt
    <2>3. \A i \in DOMAIN todo'.eps : todo'.eps[i] \in LookedAt'
      BY <1>1, <2>2, SameFiles
    <2> QED
      BY <1>1, <2>1, <2>3, ReasonFrame
  <1>4. CASE disk.override.is \notin {"absent", "ok"}
    <2>1. loading' = "failed"
      BY <1>4 DEF ReadOverride, Passable
    <2>2. disk.override \in Consulted' /\ disk' = disk
      BY <1>1 DEF Consulted
    <2>3. FailsForReason'
      BY <1>4, <2>2 DEF FailsForReason
    <2> QED
      BY <1>1, <2>1, <2>3, ReasonFrame
  <1> QED
    BY <1>2, <1>3, <1>4

LEMMA ReasonReadEndpoints == ASSUME SourceInv, ReasonInv, ReadEndpoints PROVE ReasonInv'
  <1>1. loading = "endpoints" /\ UNCHANGED <<disk, caFile, held, policy>> /\ caFile' \in held' /\ ~Unified
    BY DEF ReadEndpoints, KeepCA, ReasonInv, SourceInv, LegacyKept
  <1>2. CASE LegacyFile.is = "absent"
    BY <1>1, <1>2, ReasonFrame DEF ReadEndpoints, Passable
  <1>3. CASE LegacyFile.is = "ok"
    <2>1. loading' = "prepare" /\ todo' = [next |-> "llama", eps |-> LegacyFile.eps]
      BY <1>3 DEF ReadEndpoints, Passable, Prepare
    <2>2. todo'.eps = LegacyFile.eps /\ \A i \in DOMAIN LegacyFile.eps : LegacyFile.eps[i] \in LookedAt
      BY <1>1, <1>3, <2>1, LooksAt
    <2>3. \A i \in DOMAIN todo'.eps : todo'.eps[i] \in LookedAt'
      BY <1>1, <2>2, SameFiles
    <2> QED
      BY <1>1, <2>1, <2>3, ReasonFrame
  <1>4. CASE LegacyFile.is \notin {"absent", "ok"}
    <2>1. loading' = "failed"
      BY <1>4 DEF ReadEndpoints, Passable
    <2>2. LegacyFile \in Consulted
      BY <1>1 DEF Consulted, Unified, LegacyFile
    <2>3. FailsForReason'
      BY <1>1, <1>4, <2>2, SameFiles DEF FailsForReason
    <2> QED
      BY <1>1, <2>1, <2>3, ReasonFrame
  <1> QED
    BY <1>2, <1>3, <1>4

LEMMA ReasonReadEnvironment == ASSUME SourceInv, ReasonInv, ReadEnvironment PROVE ReasonInv'
  <1>1. /\ loading = "environment" /\ UNCHANGED <<disk, caFile, held, policy>> /\ caFile' \in held'
        /\ ~Unified /\ LegacyFile.is = "absent"
    BY DEF ReadEnvironment, KeepCA, ReasonInv, SourceInv, LegacyKept
  <1>2. loading' = "prepare" /\ todo' = [next |-> "llama", eps |-> disk.environment]
    BY DEF ReadEnvironment, Prepare
  <1>3. todo'.eps = disk.environment /\ \A i \in DOMAIN disk.environment : disk.environment[i] \in LookedAt
    <2>1. Range(disk.environment) \subseteq LookedAt
      <3>1. ~Unified /\ LegacyFile.is = "absent"
        BY <1>1
      <3> QED
        BY <3>1, EnvironmentLookedAt
    <2>2. \A i \in DOMAIN disk.environment : disk.environment[i] \in Range(disk.environment)
      BY DEF Range
    <2> QED
      BY <1>2, <2>1, <2>2
  <1>4. \A i \in DOMAIN todo'.eps : todo'.eps[i] \in LookedAt'
    BY <1>1, <1>3, SameFiles
  <1> QED
    BY <1>1, <1>2, <1>4, ReasonFrame

LEMMA ReasonReadLlama == ASSUME SourceInv, ReasonInv, ReadLlamaModels PROVE ReasonInv'
  <1>1. /\ loading = "llama" /\ UNCHANGED <<disk, caFile, held, policy>> /\ caFile' \in held'
        /\ ~Unified /\ loading' \in {"loaded", "failed"}
    BY DEF ReadLlamaModels, KeepCA, ReasonInv, SourceInv, LegacyKept, AtLabel
  <1>2. ASSUME loading' = "failed" PROVE FailsForReason'
    <2>1. CASE disk.llama.is \notin {"absent", "ok"}
      <3>1. disk.llama \in Consulted
        BY <1>1 DEF Consulted
      <3> QED
        BY <1>1, <2>1, <3>1, SameFiles DEF FailsForReason
    <2>2. CASE disk.llama.is = "ok"
      <3> DEFINE section == disk.llama.section
      <3>1. ~SectionValid(section)
        BY <1>2, <2>2 DEF ReadLlamaModels, Passable
      <3>2. Written' = [k \in {"llama-server"} |-> section]
        BY <1>1, <2>2, SameFiles DEF Written
      <3> HIDE DEF section
      <3>3. "llama-server" \in DOMAIN Written' /\ Written'["llama-server"] = section
        BY <3>2
      <3> QED
        BY <3>1, <3>3 DEF FailsForReason, SectionValid
    <2>3. disk.llama.is # "absent"
      BY <1>2 DEF ReadLlamaModels, Passable
    <2> QED
      BY <2>1, <2>2, <2>3
  <1> QED
    BY <1>1, <1>2, ReasonFrame

LEMMA ReasonPrepare == ASSUME SourceInv, ReasonInv, PrepareEndpoint PROVE ReasonInv'
  <1> DEFINE ep == Head(todo.eps)
  <1>1. /\ loading = "prepare" /\ todo.eps # <<>> /\ UNCHANGED <<disk, caFile, held, policy>> /\ caFile' \in held'
        /\ ~policy => ~Acknowledged
    BY DEF PrepareEndpoint, ReasonInv
  <1>2. ep \in LookedAt /\ \A i \in DOMAIN Tail(todo.eps) : Tail(todo.eps)[i] \in LookedAt
    BY <1>1, HeadLookedAt
  <1>3. CASE ~Valid(ep)
    <2>1. loading' = "failed" /\ Faulty(ep)
      BY <1>1, <1>3, InvalidIsFaulty DEF PrepareEndpoint
    <2>2. FailsForReason'
      BY <1>1, <1>2, <2>1, ReasonEndpoint
    <2> QED
      BY <1>1, <2>1, <2>2, ReasonFrame
  <1>4. CASE Valid(ep)
    <2>1. loading' = loading /\ todo' = [todo EXCEPT !.eps = Tail(@)]
      BY <1>4 DEF PrepareEndpoint
    <2>2. todo'.eps = Tail(todo.eps)
      BY <2>1 DEF SourceInv, Shaped
    <2>3. \A i \in DOMAIN todo'.eps : todo'.eps[i] \in LookedAt'
      BY <1>1, <1>2, <2>2, SameFiles
    <2> QED
      BY <1>1, <2>1, <2>3, ReasonFrame
  <1> QED
    BY <1>3, <1>4

LEMMA ReasonReadCA == ASSUME SourceInv, ReasonInv, ReadCA PROVE ReasonInv'
  <1> DEFINE ep == Head(todo.eps)
  <1>1. /\ loading = "prepare" /\ todo.eps # <<>> /\ UNCHANGED <<disk, caFile, held, policy, todo>>
        /\ caFile' \in held' /\ caFile \in held /\ ReadsCA(ep)
    BY DEF ReadCA, ReasonInv
  <1>2. CASE caFile \in Authorities
    <2>1. loading' = loading /\ \A i \in DOMAIN todo'.eps : todo'.eps[i] \in LookedAt'
      BY <1>1, <1>2, SameFiles DEF ReadCA, ReasonInv
    <2> QED
      BY <1>1, <2>1, ReasonFrame
  <1>3. CASE caFile \notin Authorities
    <2>1. loading' = "failed" /\ ep \in LookedAt
      BY <1>1, <1>3, HeadLookedAt DEF ReadCA
    <2>2. Faulty(ep)
      BY <1>1, <1>3 DEF Faulty, ReadsCA
    <2>3. FailsForReason'
      BY <1>1, <2>1, <2>2, ReasonEndpoint
    <2> QED
      BY <1>1, <2>1, <2>3, ReasonFrame
  <1> QED
    BY <1>2, <1>3

\* The steps that are no part of the load's own work.
LEMMA ReasonBeside ==
    ASSUME ReasonInv, UNCHANGED <<disk, policy, loading, todo>>, caFile' \in held',
           held' = held \/ loading # "failed"
    PROVE  ReasonInv'
  <1>1. loading' = "failed" => FailsForReason'
    <2> SUFFICES ASSUME loading' = "failed" PROVE FailsForReason'
      OBVIOUS
    <2>1. held' = held /\ FailsForReason
      BY DEF ReasonInv
    <2>2. \A ep \in LookedAt : Faulty(ep) => FailsForReason'
      BY <2>1, ReasonEndpoint
    <2> QED
      BY <2>1, <2>2, SameFiles DEF FailsForReason
  <1>2. loading' \notin {"settings", "failed"} => (~policy' => ~Acknowledged')
    BY SameFiles DEF ReasonInv
  <1>3. loading' = "prepare" => \A i \in DOMAIN todo'.eps : todo'.eps[i] \in LookedAt'
    BY SameFiles DEF ReasonInv
  <1> QED
    BY <1>1, <1>2, <1>3 DEF ReasonInv

LEMMA ReasonNext == SourceInv /\ ReasonInv /\ [SettingsNext]_settingsVars => ReasonInv'
  <1> SUFFICES ASSUME SourceInv, ReasonInv, [SettingsNext]_settingsVars PROVE ReasonInv'
    OBVIOUS
  <1>0. caFile \in held
    BY DEF ReasonInv
  <1>1. ASSUME NEW contents \in Contents, RewriteCA(contents) PROVE ReasonInv'
    BY <1>0, <1>1, ReasonBeside DEF RewriteCA, Stops
  <1>2. ASSUME NEW i, NEW n, NEW peer, Connect(i, n, peer) PROVE ReasonInv'
    BY <1>0, <1>2, ReasonBeside DEF Connect
  <1>3. ASSUME NEW scheme, NEW loopback, NEW peer, FollowRedirect(scheme, loopback, peer) PROVE ReasonInv'
    BY <1>0, <1>3, ReasonBeside DEF FollowRedirect
  <1>4. CASE UNCHANGED settingsVars
    BY <1>0, <1>4, ReasonBeside DEF settingsVars
  <1>5. CASE AllPrepared
    <2>1. loading = "prepare" /\ loading' \in {"sections", "llama", "loaded"} /\ UNCHANGED <<disk, caFile, held, policy>>
      BY <1>5 DEF AllPrepared, SourceInv, Shaped
    <2> QED
      BY <1>0, <2>1, ReasonFrame
  <1> QED
    BY <1>1, <1>2, <1>3, <1>4, <1>5, ReasonReadSettings, ReasonParseSections, ReasonReadOverride, ReasonReadEndpoints,
       ReasonReadEnvironment, ReasonReadLlama, ReasonPrepare, ReasonReadCA DEF SettingsNext

\* A load that succeeds takes its endpoints and its models from one source, whole
\* and in order, gets past no file that is broken, and keeps an idle timeout that
\* was written; one that fails has a fault among the sources it looked at or in a
\* CA file: for any files, environment and flag (LoadConfig).
THEOREM SourceLoadedWhole == SettingsSpec => []LoadedAsWritten
  <1>1. SettingsInit => SourceInv /\ ReasonInv
    BY SourceInit DEF SettingsInit, ReasonInv
  <1>2. (SourceInv /\ ReasonInv) /\ [SettingsNext]_settingsVars => (SourceInv /\ ReasonInv)'
    BY SourceNext, ReasonNext
  <1>3. SourceInv /\ ReasonInv => LoadedAsWritten
    BY SourceSound DEF LoadedAsWritten, ReasonInv
  <1> QED
    BY <1>1, <1>2, <1>3, PTL DEF SettingsSpec

=============================================================================
