------------------------------- MODULE Ports -------------------------------
(***************************************************************************)
(* The ports of a manager's children (server_manager.go): launchLocked     *)
(* chooses a port and forks the child, the child binds it later or exits   *)
(* because it is taken, and waitForHealth takes an answer on the port for  *)
(* the child's.  Anything else on the machine may bind and leave ports, a  *)
(* relayLLM that is killed leaves its children behind, and the next one    *)
(* counts ports from the base again.  Which child runs when is             *)
(* ServerManager's subject; an alias has one launch at a time here.        *)
(***************************************************************************)
EXTENDS Naturals, FiniteSets

CONSTANTS
    Aliases,         \* aliases
    Explicit,       \* the port of each alias whose args name one
    BasePort, LastPort,     \* LastPort is 65535 in the code
    ScanAttempts,   \* maxPortScanAttempts
    MaxLaunches,    \* bound: launches over all lives of the program
    MaxLives        \* bound: lives of the program

PortNumbers == BasePort..LastPort \cup {Explicit[m] : m \in DOMAIN Explicit}

ASSUME PortsAssumption ==
    /\ BasePort \in Nat /\ LastPort \in Nat /\ ScanAttempts \in Nat \ {0}
    /\ MaxLaunches \in Nat /\ MaxLives \in Nat
    /\ DOMAIN Explicit \subseteq Aliases /\ \A m \in DOMAIN Explicit : Explicit[m] \in Nat

VARIABLES
    nextPort,   \* the manager's
    life,       \* which life of the program this is
    started,    \* launches so far
    launch,     \* the launches
    listener    \* for each port, who listens, and since which launch

portsVars == <<nextPort, life, started, launch, listener>>

Launches == 1..MaxLaunches
Nobody == 0
Outsider == MaxLaunches + 1
Free == [who |-> Nobody, since |-> 0]
NoLaunch == [step |-> "none"]

LaunchRecord ==
    [model : Aliases, port : Nat, life : Nat, allocated : BOOLEAN,
     step : {"chosen", "polling", "answered", "ready", "over", "orphan"},
     child : {"none", "loading", "bound", "dead"}, reaped : BOOLEAN, since : Nat]

PortsTypeOK ==
    /\ nextPort \in Nat /\ life \in Nat
    /\ started \in 0..MaxLaunches
    /\ launch \in [Launches -> LaunchRecord \cup {NoLaunch}]
    /\ \A k \in Launches : launch[k] = NoLaunch <=> k > started
    /\ listener \in [PortNumbers -> [who : Nat, since : Nat]]

PortsInit ==
    /\ nextPort = BasePort /\ life = 1 /\ started = 0
    /\ launch = [k \in Launches |-> NoLaunch]
    /\ listener = [p \in PortNumbers |-> Free]

-----------------------------------------------------------------------------
Taken(p) == listener[p].who # Nobody
Stands(k, steps) == launch[k].step \in steps

\* m.mu is held from the choice of the port to the fork.
Locked == \E k \in Launches : Stands(k, {"chosen"})
ModelRunning(m) == \E k \in Launches : /\ Stands(k, {"chosen", "polling", "answered", "ready"})
                                  /\ launch[k].model = m

MayLaunch(m) == started < MaxLaunches /\ ~Locked /\ ~ModelRunning(m)

Choose(m, port, allocated) ==
    /\ started' = started + 1
    /\ launch' = [launch EXCEPT ![started + 1] =
           [model |-> m, port |-> port, life |-> life, allocated |-> allocated,
            step |-> "chosen", child |-> "none", reaped |-> FALSE, since |-> 0]]

\* The ports allocatePort tries, those past the last valid one cut off.
Scanned == {p \in nextPort..(nextPort + ScanAttempts - 1) : p <= LastPort}

Advance_Stays(port) == nextPort' = port

\* Every port tried is passed for good.
Advance(port) == nextPort' = port + 1

AllocatePort(m) ==
    LET open == {p \in Scanned : ~Taken(p)} IN
    /\ MayLaunch(m) /\ m \notin DOMAIN Explicit
    /\ open # {}
    /\ \E port \in open : /\ \A p \in open : port <= p
                          /\ Choose(m, port, TRUE)
                          /\ Advance(port)
    /\ UNCHANGED <<life, listener>>

\* None is free, or the range is used up: nothing launches, and the ports
\* tried do not come back.  (One past the last is where counting stops here.)
NoPort(m) ==
    /\ MayLaunch(m) /\ m \notin DOMAIN Explicit
    /\ \A p \in Scanned : Taken(p)
    /\ nextPort' = nextPort + Cardinality(Scanned)
    /\ UNCHANGED <<life, started, launch, listener>>

PortFromArgs(m) ==
    /\ MayLaunch(m) /\ m \in DOMAIN Explicit
    /\ Choose(m, Explicit[m], FALSE)
    /\ UNCHANGED <<nextPort, life, listener>>

PreflightPortFree_Any(p) == TRUE

\* The bind of 127.0.0.1 is taken to fail beside any listener on the port.
PreflightPortFree(p) == ~Taken(p)

\* preflightPortFree, then cmd.Start.
Fork(k) ==
    /\ Stands(k, {"chosen"})
    /\ launch' = IF PreflightPortFree(launch[k].port)
                 THEN [launch EXCEPT ![k].step = "polling", ![k].child = "loading"]
                 ELSE [launch EXCEPT ![k].step = "over"]
    /\ UNCHANGED <<nextPort, life, started, listener>>

-----------------------------------------------------------------------------
\* The child comes to bind its port, whatever has become of its launch, and
\* exits when the port is taken.
BindPort(k) ==
    LET p == launch[k].port IN
    /\ launch[k] # NoLaunch /\ launch[k].child = "loading"
    /\ IF Taken(p)
       THEN launch' = [launch EXCEPT ![k].child = "dead"] /\ UNCHANGED listener
       ELSE /\ launch' = [launch EXCEPT ![k].child = "bound"]
            /\ listener' = [listener EXCEPT ![p] = [who |-> k, since |-> started]]
    /\ UNCHANGED <<nextPort, life, started>>

Released(k) == [p \in PortNumbers |-> IF listener[p].who = k THEN Free ELSE listener[p]]

ChildDies(k) ==
    /\ launch[k] # NoLaunch /\ launch[k].child \in {"loading", "bound"}
    /\ launch' = [launch EXCEPT ![k].child = "dead"]
    /\ listener' = Released(k)
    /\ UNCHANGED <<nextPort, life, started>>

\* The goroutine of cmd.Wait sets exited.
Reaped(k) ==
    /\ Stands(k, {"polling", "answered", "ready"}) /\ launch[k].child = "dead" /\ ~launch[k].reaped
    /\ launch' = [launch EXCEPT ![k].reaped = TRUE]
    /\ UNCHANGED <<nextPort, life, started, listener>>

\* waitForHealth: a 200 on the port, from whoever listens there.
HealthAnswered(k) ==
    /\ Stands(k, {"polling"}) /\ Taken(launch[k].port)
    /\ launch' = [launch EXCEPT ![k].step = "answered",
                                ![k].since = listener[launch[k].port].since]
    /\ UNCHANGED <<nextPort, life, started, listener>>

\* The record of a launch that is done with keeps its port.
Ended(k, child) == [launch[k] EXCEPT !.step = "over", !.child = child, !.reaped = FALSE, !.since = 0]

\* awaitReady: an answer is not the child's when the child has exited.
AwaitReady(k) ==
    /\ Stands(k, {"answered"})
    /\ launch' = [launch EXCEPT ![k] = IF launch[k].reaped THEN Ended(k, "dead")
                                      ELSE [launch[k] EXCEPT !.step = "ready"]]
    /\ UNCHANGED <<nextPort, life, started, listener>>

\* The health check times out or the instance is stopped: killInstance.
KillChild(k) ==
    /\ Stands(k, {"polling", "ready"})
    /\ launch' = [launch EXCEPT ![k] = Ended(k, "dead")]
    /\ listener' = Released(k)
    /\ UNCHANGED <<nextPort, life, started>>

\* An Acquire finds that the child has exited, and drops the instance.
DropDead(k) ==
    /\ Stands(k, {"ready"}) /\ launch[k].reaped
    /\ launch' = [launch EXCEPT ![k] = Ended(k, "dead")]
    /\ UNCHANGED <<nextPort, life, started, listener>>

\* relayLLM is killed and starts again; its children live on.
Restarted ==
    /\ life < MaxLives
    /\ life' = life + 1
    /\ nextPort' = BasePort
    /\ launch' = [k \in Launches |->
           IF k <= started /\ ~Stands(k, {"over"}) THEN [Ended(k, launch[k].child) EXCEPT !.step = "orphan"]
           ELSE launch[k]]
    /\ UNCHANGED <<started, listener>>

OutsiderBinds(p) ==
    /\ ~Taken(p)
    /\ listener' = [listener EXCEPT ![p] = [who |-> Outsider, since |-> started]]
    /\ UNCHANGED <<nextPort, life, started, launch>>

OutsiderLeaves(p) ==
    /\ listener[p].who = Outsider
    /\ listener' = [listener EXCEPT ![p] = Free]
    /\ UNCHANGED <<nextPort, life, started, launch>>

PortsNext ==
    \/ \E m \in Aliases : AllocatePort(m) \/ NoPort(m) \/ PortFromArgs(m)
    \/ \E k \in Launches :
          \/ Fork(k) \/ BindPort(k) \/ ChildDies(k) \/ Reaped(k) \/ HealthAnswered(k)
          \/ AwaitReady(k) \/ KillChild(k) \/ DropDead(k)
    \/ \E p \in PortNumbers : OutsiderBinds(p) \/ OutsiderLeaves(p)
    \/ Restarted

PortsSpec == PortsInit /\ [][PortsNext]_portsVars

-----------------------------------------------------------------------------
(***************************************************************************)
(* In one life of the program no port is allocated twice, whatever became  *)
(* of the first launch and however many ports the scan found taken: a      *)
(* child that is late to bind is never raced by a sibling allocatePort     *)
(* chose a port for (server_manager.go:1034).                              *)
(***************************************************************************)
AllocatedApart ==
    \A j, k \in 1..started :
        /\ j # k /\ launch[j].life = launch[k].life
        /\ launch[j].allocated /\ launch[k].allocated
        => launch[j].port # launch[k].port

(***************************************************************************)
(* Whoever answered for an instance that is served bound the port after    *)
(* the launch: the instance's own child, or one that won a race with it,   *)
(* never "a stray server from a previous run" (server_manager.go:617) that *)
(* was there already.                                                      *)
(***************************************************************************)
NoSquatter == \A k \in 1..started : Stands(k, {"answered", "ready"}) => launch[k].since >= k

(***************************************************************************)
(* The inductive invariant behind the two: the ports allocated in a life   *)
(* are behind nextPort, and what is on the port of a launch being polled   *)
(* came there after the launch.                                            *)
(***************************************************************************)
Counted ==
    /\ nextPort >= BasePort
    /\ \A k \in 1..started :
          /\ launch[k].port \in PortNumbers /\ launch[k].life <= life
          /\ launch[k].allocated /\ launch[k].life = life => launch[k].port < nextPort

Polled ==
    \A k \in 1..started :
        Stands(k, {"polling"}) /\ Taken(launch[k].port) => listener[launch[k].port].since >= k

PortsIInv == PortsTypeOK /\ Counted /\ Polled /\ AllocatedApart /\ NoSquatter
=============================================================================
