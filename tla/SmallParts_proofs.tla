------------------------- MODULE SmallParts_proofs -------------------------
(***************************************************************************)
(* What six small machines promise, for any constants of theirs.  In one   *)
(* life of the program allocatePort gives no port twice, and no instance   *)
(* is served on the answer of a server that was there before its launch.   *)
(* The debug window of the log reports its end exactly once.  The limiter  *)
(* of a child's output loses no line without counting it.  The status page *)
(* misses no request and shows none twice, lists the last ones to finish   *)
(* newest first, and shows a response as stalled that has gone silent; its *)
(* byte rates invent nothing and fall to zero with the stream.  The        *)
(* estimate of a model's memory leaves out nothing of its own.             *)
(* They share no state: a section each.                                    *)
(***************************************************************************)
EXTENDS Ports, ChildOutput, DebugWindow, ProxyMetrics, RollingRate, ModelSize, FiniteSetTheorems,
        SequenceTheorems, NaturalsInduction, WellFoundedInduction, TLAPS

-----------------------------------------------------------------------------
(* Ports.                                                                 *)

\* Before the first launch.
LEMMA PortsInitInv == PortsInit => PortsIInv
  <1> SUFFICES ASSUME PortsInit PROVE PortsIInv
    OBVIOUS
  <1> USE PortsAssumption
  <1>1. 1..started = {}
    BY DEF PortsInit
  <1>2. PortsTypeOK
    BY DEF PortsInit, PortsTypeOK, Launches, Free, Nobody
  <1> QED
    BY <1>1, <1>2 DEF PortsIInv, Counted, Polled, AllocatedApart, NoSquatter, PortsInit

\* A launch that exists has a record.
LEMMA PortsRecorded ==
    ASSUME PortsIInv, NEW k \in 1..started
    PROVE  launch[k] \in LaunchRecord /\ k \in Launches
  <1> QED
    BY PortsAssumption DEF PortsIInv, PortsTypeOK, Launches

\* A launch with a step other than "none" exists.
LEMMA Exists ==
    ASSUME PortsIInv, NEW k \in Launches, launch[k] # NoLaunch
    PROVE  k \in 1..started
  <1> QED
    BY PortsAssumption DEF PortsIInv, PortsTypeOK, Launches

\* The steps that start no launch: none moves a port, a launch is polled only
\* from a port that was free, and ports are counted on or from the base in
\* another life.
LEMMA Settles ==
    ASSUME PortsIInv, started' = started,
           nextPort' \in Nat, nextPort' >= BasePort, life' \in Nat,
           (life' = life /\ nextPort' >= nextPort) \/ life' > life,
           DOMAIN launch' = Launches, launch' = [k \in Launches |-> launch'[k]],
           \A k \in Launches \ (1..started) : launch'[k] = launch[k],
           \A k \in 1..started :
               /\ launch'[k] \in LaunchRecord
               /\ launch'[k].port = launch[k].port
               /\ launch'[k].life = launch[k].life
               /\ launch'[k].allocated = launch[k].allocated
               /\ Stands(k, {"polling"})' => Stands(k, {"polling"}) \/ ~Taken(launch[k].port)
               /\ Stands(k, {"answered", "ready"})' => launch'[k].since >= k,
           listener' \in [PortNumbers -> [who : Nat, since : Nat]],
           \A p \in PortNumbers :
               \/ listener'[p] = listener[p]
               \/ listener'[p].who = Nobody
               \/ listener'[p].since = started
    PROVE  PortsIInv'
  <1> USE PortsAssumption
  <1>1. started \in 0..MaxLaunches /\ 1..started \subseteq Launches
    BY DEF PortsIInv, PortsTypeOK, Launches
  <1>2. \A k \in 1..started : launch[k] \in LaunchRecord
    BY PortsRecorded
  <1>3. PortsTypeOK'
    <2>1. \A k \in Launches : launch'[k] = NoLaunch <=> k > started
      <3>1. \A k \in 1..started : launch'[k] # NoLaunch
        BY DEF LaunchRecord, NoLaunch
      <3>2. \A k \in Launches \ (1..started) : launch'[k] = NoLaunch /\ k > started
        BY <1>1 DEF PortsIInv, PortsTypeOK, Launches
      <3> QED
        BY <1>1, <3>1, <3>2 DEF Launches
    <2>2. launch' \in [Launches -> LaunchRecord \cup {NoLaunch}]
      BY <1>1 DEF PortsIInv, PortsTypeOK
    <2> QED
      BY <1>1, <2>1, <2>2 DEF PortsTypeOK
  <1>4. Counted'
    BY <1>1, <1>2 DEF PortsIInv, PortsTypeOK, Counted, LaunchRecord
  <1>5. Polled'
    <2> SUFFICES ASSUME NEW k \in 1..started, Stands(k, {"polling"})', Taken(launch[k].port)'
                 PROVE  listener'[launch[k].port].since >= k
      BY DEF Polled
    <2> DEFINE p == launch[k].port
    <2>1. p \in PortNumbers
      BY DEF PortsIInv, Counted
    <2>2. CASE listener'[p] = listener[p]
      <3>1. Taken(p)
        BY <2>2 DEF Taken
      <3> QED
        BY <2>2, <3>1 DEF PortsIInv, Polled
    <2>3. CASE listener'[p].since = started
      BY <1>1, <2>3
    <2> QED
      BY <2>1, <2>2, <2>3 DEF Taken
  <1>6. AllocatedApart'
    BY DEF PortsIInv, AllocatedApart
  <1>7. NoSquatter'
    BY DEF NoSquatter
  <1> QED
    BY <1>3, <1>4, <1>5, <1>6, <1>7 DEF PortsIInv

\* A launch starts with a port that, if it was allocated, is one the manager
\* had not passed and has passed now.
LEMMA Starts ==
    ASSUME PortsIInv, NEW m \in Aliases, NEW port \in PortNumbers, NEW allocated \in BOOLEAN,
           port \in Nat, started < MaxLaunches, Choose(m, port, allocated),
           life' = life, listener' = listener,
           nextPort' \in Nat, nextPort' >= nextPort,
           allocated => port >= nextPort /\ port < nextPort'
    PROVE  PortsIInv'
  <1> USE PortsAssumption
  <1> DEFINE new == started + 1
  <1>1. /\ started \in 0..MaxLaunches /\ new \in Launches /\ started' = new
        /\ nextPort \in Nat /\ life \in Nat
    BY DEF PortsIInv, PortsTypeOK, Launches, Choose
  <1>2. /\ launch' \in [Launches -> LaunchRecord \cup {NoLaunch}]
        /\ launch'[new] \in LaunchRecord
        /\ launch'[new].port = port /\ launch'[new].life = life
        /\ launch'[new].allocated = allocated /\ launch'[new].step = "chosen"
        /\ \A k \in Launches \ {new} : launch'[k] = launch[k]
    BY <1>1 DEF PortsIInv, PortsTypeOK, Choose, LaunchRecord
  <1>3. \A k \in 1..new : k # new => k \in 1..started /\ launch'[k] = launch[k]
    BY <1>1, <1>2 DEF Launches
  <1>4. \A k \in 1..started : launch[k] \in LaunchRecord
    BY PortsRecorded
  <1>5. PortsTypeOK'
    <2>1. launch'[new] # NoLaunch
      BY <1>2 DEF NoLaunch
    <2>2. \A k \in Launches : launch'[k] = NoLaunch <=> k > new
      BY <1>1, <1>2, <2>1 DEF PortsIInv, PortsTypeOK, Launches
    <2> QED
      BY <1>1, <1>2, <2>2 DEF PortsIInv, PortsTypeOK, Launches
  <1>6. Counted'
    BY <1>1, <1>2, <1>3, <1>4 DEF PortsIInv, Counted, LaunchRecord
  <1>7. Polled'
    BY <1>1, <1>2, <1>3 DEF PortsIInv, Polled, Stands, Taken
  <1>8. AllocatedApart'
    <2> SUFFICES ASSUME NEW j \in 1..new, NEW k \in 1..new, j # k,
                        launch'[j].life = launch'[k].life,
                        launch'[j].allocated, launch'[k].allocated
                 PROVE  launch'[j].port # launch'[k].port
      BY <1>1 DEF AllocatedApart
    <2>1. CASE j # new /\ k # new
      BY <1>3, <2>1 DEF PortsIInv, AllocatedApart
    <2>2. CASE j = new
      BY <1>1, <1>2, <1>3, <1>4, <2>2 DEF PortsIInv, Counted, LaunchRecord
    <2>3. CASE k = new
      BY <1>1, <1>2, <1>3, <1>4, <2>3 DEF PortsIInv, Counted, LaunchRecord
    <2> QED
      BY <2>1, <2>2, <2>3
  <1>9. NoSquatter'
    BY <1>1, <1>2, <1>3 DEF PortsIInv, NoSquatter, Stands
  <1> QED
    BY <1>5, <1>6, <1>7, <1>8, <1>9 DEF PortsIInv

\* Both ways to a port.
LEMMA LaunchInv ==
    ASSUME PortsIInv, NEW m \in Aliases, AllocatePort(m) \/ PortFromArgs(m)
    PROVE  PortsIInv'
  <1> USE PortsAssumption
  <1>1. started \in 0..MaxLaunches /\ nextPort \in Nat /\ nextPort >= BasePort
    BY DEF PortsIInv, PortsTypeOK, Counted
  <1>2. CASE AllocatePort(m)
    <2>1. PICK port \in Scanned : Choose(m, port, TRUE) /\ Advance(port)
      BY <1>2 DEF AllocatePort
    <2>2. /\ port \in Nat /\ port >= nextPort /\ port <= LastPort /\ nextPort' = port + 1
          /\ port \in PortNumbers
      BY <1>1, <2>1 DEF Scanned, Advance, PortNumbers
    <2>3. started < MaxLaunches /\ life' = life /\ listener' = listener
      BY <1>2 DEF AllocatePort, MayLaunch
    <2>4. nextPort' \in Nat /\ nextPort' >= nextPort /\ port < nextPort'
      BY <1>1, <2>2
    <2> QED
      BY <2>1, <2>2, <2>3, <2>4, Starts
  <1>3. CASE PortFromArgs(m)
    <2>1. Explicit[m] \in Nat /\ Explicit[m] \in PortNumbers
      BY <1>3 DEF PortFromArgs, PortNumbers
    <2>2. /\ started < MaxLaunches /\ life' = life /\ listener' = listener
          /\ nextPort' = nextPort /\ Choose(m, Explicit[m], FALSE)
      BY <1>3 DEF PortFromArgs, MayLaunch
    <2>3. nextPort' \in Nat /\ nextPort' >= nextPort
      BY <1>1, <2>2
    <2> QED
      BY <2>1, <2>2, <2>3, Starts
  <1> QED
    BY <1>2, <1>3

\* A scan that finds nothing moves nothing but nextPort.
LEMMA NoPortInv ==
    ASSUME PortsIInv, NEW m \in Aliases, NoPort(m)
    PROVE  PortsIInv'
  <1> USE PortsAssumption
  <1>1. Cardinality(Scanned) \in Nat
    <2>1. IsFiniteSet(nextPort..(nextPort + ScanAttempts - 1))
      BY FS_Interval DEF PortsIInv, PortsTypeOK
    <2>2. IsFiniteSet(Scanned)
      BY <2>1, FS_Subset DEF Scanned
    <2> QED
      BY <2>2, FS_CardinalityType
  <1>2. nextPort \in Nat /\ nextPort >= BasePort /\ life \in Nat
    BY DEF PortsIInv, PortsTypeOK, Counted
  <1>3. nextPort' \in Nat /\ nextPort' >= nextPort
    BY <1>1, <1>2 DEF NoPort
  <1>4. launch \in [Launches -> LaunchRecord \cup {NoLaunch}] /\ \A k \in 1..started : launch[k] \in LaunchRecord
    BY PortsRecorded DEF PortsIInv, PortsTypeOK
  <1>5. launch' = launch /\ listener' = listener /\ started' = started /\ life' = life
    BY DEF NoPort
  <1>6. \A k \in 1..started : Stands(k, {"polling"})' => Stands(k, {"polling"})
    BY <1>5 DEF Stands
  <1>7. \A k \in 1..started : Stands(k, {"answered", "ready"})' => launch'[k].since >= k
    BY <1>5 DEF Stands, PortsIInv, NoSquatter
  <1> QED
    BY <1>2, <1>3, <1>4, <1>5, <1>6, <1>7, Settles DEF PortsIInv, PortsTypeOK

\* The type of the record a launch becomes.
LEMMA EndedTyped ==
    ASSUME PortsIInv, NEW k \in 1..started, NEW child \in {"none", "loading", "bound", "dead"}
    PROVE  /\ Ended(k, child) \in LaunchRecord
           /\ Ended(k, child).port = launch[k].port /\ Ended(k, child).life = launch[k].life
           /\ Ended(k, child).allocated = launch[k].allocated
           /\ Ended(k, child).step = "over"
  <1>1. launch[k] \in LaunchRecord
    BY PortsRecorded
  <1> QED
    BY <1>1 DEF Ended, LaunchRecord

\* One launch moves, and what it does to its port.
LEMMA OneMoves ==
    ASSUME PortsIInv, NEW k \in 1..started, NEW r \in LaunchRecord,
           launch' = [launch EXCEPT ![k] = r],
           r.port = launch[k].port, r.life = launch[k].life, r.allocated = launch[k].allocated,
           r.step = "polling" => Stands(k, {"polling"}) \/ ~Taken(launch[k].port),
           r.step \in {"answered", "ready"} => r.since >= k,
           started' = started, nextPort' = nextPort, life' = life,
           listener' \in [PortNumbers -> [who : Nat, since : Nat]],
           \A p \in PortNumbers :
               \/ listener'[p] = listener[p]
               \/ listener'[p].who = Nobody
               \/ listener'[p].since = started
    PROVE  PortsIInv'
  <1>1. /\ launch \in [Launches -> LaunchRecord \cup {NoLaunch}] /\ 1..started \subseteq Launches
        /\ nextPort \in Nat /\ nextPort >= BasePort /\ life \in Nat
    BY PortsAssumption DEF PortsIInv, PortsTypeOK, Counted, Launches
  <1>2. \A j \in 1..started : launch[j] \in LaunchRecord
    BY PortsRecorded
  <1>3. \A j \in 1..started : Stands(j, {"answered", "ready"}) => launch[j].since >= j
    BY DEF PortsIInv, NoSquatter
  <1>4. \A j \in 1..started :
            /\ launch'[j] \in LaunchRecord
            /\ launch'[j].port = launch[j].port
            /\ launch'[j].life = launch[j].life
            /\ launch'[j].allocated = launch[j].allocated
            /\ Stands(j, {"polling"})' => Stands(j, {"polling"}) \/ ~Taken(launch[j].port)
            /\ Stands(j, {"answered", "ready"})' => launch'[j].since >= j
    <2> TAKE j \in 1..started
    <2>1. CASE j = k
      <3>1. launch'[k] = r
        BY <1>1
      <3> QED
        BY <2>1, <3>1 DEF Stands
    <2>2. CASE j # k
      <3>1. launch'[j] = launch[j]
        BY <1>1, <2>2
      <3> QED
        BY <1>2, <1>3, <3>1 DEF Stands
    <2> QED
      BY <2>1, <2>2
  <1>5. /\ DOMAIN launch' = Launches /\ launch' = [j \in Launches |-> launch'[j]]
        /\ \A j \in Launches \ (1..started) : launch'[j] = launch[j]
    BY <1>1
  <1>6. nextPort' \in Nat /\ nextPort' >= BasePort /\ life' \in Nat /\ nextPort' >= nextPort
    BY <1>1, PortsAssumption
  <1> QED
    BY <1>4, <1>5, <1>6, Settles

\* What a port holds, and when it is left.
LEMMA Ports ==
    ASSUME PortsIInv, NEW k \in Launches
    PROVE  /\ listener \in [PortNumbers -> [who : Nat, since : Nat]]
           /\ Released(k) \in [PortNumbers -> [who : Nat, since : Nat]]
           /\ \A p \in PortNumbers : Released(k)[p] = listener[p] \/ Released(k)[p].who = Nobody
  <1> QED
    BY DEF PortsIInv, PortsTypeOK, Released, Free, Nobody

\* The steps of a launch and of its child.
LEMMA LaunchMoves ==
    ASSUME PortsIInv, NEW k \in Launches,
           \/ Fork(k) \/ BindPort(k) \/ ChildDies(k) \/ Reaped(k) \/ HealthAnswered(k)
           \/ AwaitReady(k) \/ KillChild(k) \/ DropDead(k)
    PROVE  PortsIInv'
  <1> USE PortsAssumption
  <1>1. k \in 1..started
    <2>1. launch[k] # NoLaunch
      BY DEF Fork, BindPort, ChildDies, Reaped, HealthAnswered, AwaitReady, KillChild, DropDead,
             Stands, NoLaunch
    <2> QED
      BY <2>1, Exists
  <1>2. /\ launch \in [Launches -> LaunchRecord \cup {NoLaunch}]
        /\ launch[k] \in LaunchRecord /\ launch[k].port \in PortNumbers
        /\ started \in Nat /\ k <= started
    BY <1>1, PortsRecorded DEF PortsIInv, PortsTypeOK, Counted
  <1>3. /\ Stands(k, {"polling"}) /\ Taken(launch[k].port) => listener[launch[k].port].since >= k
        /\ Stands(k, {"answered", "ready"}) => launch[k].since >= k
    BY <1>1 DEF PortsIInv, Polled, NoSquatter
  <1>4. CASE Fork(k)
    <2>1. CASE ~Taken(launch[k].port)
      <3> DEFINE r == [launch[k] EXCEPT !.step = "polling", !.child = "loading"]
      <3>1. launch' = [launch EXCEPT ![k] = r]
        BY <1>2, <1>4, <2>1 DEF Fork, PreflightPortFree
      <3>2. r \in LaunchRecord /\ r.step = "polling" /\ r.port = launch[k].port
            /\ r.life = launch[k].life /\ r.allocated = launch[k].allocated
        BY <1>2 DEF LaunchRecord
      <3> QED
        BY <1>1, <1>4, <2>1, <3>1, <3>2, OneMoves, Ports DEF Fork
    <2>2. CASE Taken(launch[k].port)
      <3> DEFINE r == [launch[k] EXCEPT !.step = "over"]
      <3>1. launch' = [launch EXCEPT ![k] = r]
        BY <1>2, <1>4, <2>2 DEF Fork, PreflightPortFree
      <3>2. r \in LaunchRecord /\ r.step = "over" /\ r.port = launch[k].port
            /\ r.life = launch[k].life /\ r.allocated = launch[k].allocated
        BY <1>2 DEF LaunchRecord
      <3> QED
        BY <1>1, <1>4, <3>1, <3>2, OneMoves, Ports DEF Fork
    <2> QED
      BY <2>1, <2>2
  <1>5. CASE BindPort(k)
    <2> DEFINE child == IF Taken(launch[k].port) THEN "dead" ELSE "bound"
               r == [launch[k] EXCEPT !.child = child]
    <2>1. launch' = [launch EXCEPT ![k] = r]
      BY <1>2, <1>5 DEF BindPort
    <2>2. r \in LaunchRecord /\ r.step = launch[k].step /\ r.port = launch[k].port /\ r.since = launch[k].since
          /\ r.life = launch[k].life /\ r.allocated = launch[k].allocated
      BY <1>2 DEF LaunchRecord
    <2>3. /\ listener' \in [PortNumbers -> [who : Nat, since : Nat]]
          /\ \A p \in PortNumbers : listener'[p] = listener[p] \/ listener'[p].since = started
      <3>1. k \in Nat /\ [who |-> k, since |-> started] \in [who : Nat, since : Nat]
        BY <1>1, <1>2
      <3>2. listener \in [PortNumbers -> [who : Nat, since : Nat]]
        BY Ports
      <3>3. CASE Taken(launch[k].port)
        BY <1>5, <3>2, <3>3 DEF BindPort
      <3>4. CASE ~Taken(launch[k].port)
        <4>1. listener' = [listener EXCEPT ![launch[k].port] = [who |-> k, since |-> started]]
          BY <1>5, <3>4 DEF BindPort
        <4> QED
          BY <1>2, <3>1, <3>2, <4>1
      <3> QED
        BY <3>3, <3>4
    <2> QED
      BY <1>1, <1>3, <1>5, <2>1, <2>2, <2>3, OneMoves DEF BindPort, Stands
  <1>6. CASE ChildDies(k)
    <2> DEFINE r == [launch[k] EXCEPT !.child = "dead"]
    <2>1. launch' = [launch EXCEPT ![k] = r]
      BY <1>2, <1>6 DEF ChildDies
    <2>2. r \in LaunchRecord /\ r.step = launch[k].step /\ r.port = launch[k].port /\ r.since = launch[k].since
          /\ r.life = launch[k].life /\ r.allocated = launch[k].allocated
      BY <1>2 DEF LaunchRecord
    <2> QED
      BY <1>1, <1>3, <1>6, <2>1, <2>2, OneMoves, Ports DEF ChildDies, Stands
  <1>7. CASE Reaped(k)
    <2> DEFINE r == [launch[k] EXCEPT !.reaped = TRUE]
    <2>1. launch' = [launch EXCEPT ![k] = r]
      BY <1>2, <1>7 DEF Reaped
    <2>2. r \in LaunchRecord /\ r.step = launch[k].step /\ r.port = launch[k].port /\ r.since = launch[k].since
          /\ r.life = launch[k].life /\ r.allocated = launch[k].allocated
      BY <1>2 DEF LaunchRecord
    <2> QED
      BY <1>1, <1>3, <1>7, <2>1, <2>2, OneMoves, Ports DEF Reaped, Stands
  <1>8. CASE HealthAnswered(k)
    <2> DEFINE since == listener[launch[k].port].since
               r == [launch[k] EXCEPT !.step = "answered", !.since = since]
    <2>1. launch' = [launch EXCEPT ![k] = r]
      BY <1>2, <1>8 DEF HealthAnswered
    <2>2. since \in Nat /\ since >= k
      BY <1>2, <1>3, <1>8, Ports DEF HealthAnswered
    <2>3. r \in LaunchRecord /\ r.step = "answered" /\ r.port = launch[k].port /\ r.since = since
          /\ r.life = launch[k].life /\ r.allocated = launch[k].allocated
      BY <1>2, <2>2 DEF LaunchRecord
    <2> QED
      BY <1>1, <1>8, <2>1, <2>2, <2>3, OneMoves, Ports DEF HealthAnswered
  <1>9. CASE AwaitReady(k)
    <2>1. CASE launch[k].reaped
      BY <1>1, <1>9, <2>1, EndedTyped, OneMoves, Ports DEF AwaitReady
    <2>2. CASE ~launch[k].reaped
      <3> DEFINE r == [launch[k] EXCEPT !.step = "ready"]
      <3>1. launch' = [launch EXCEPT ![k] = r]
        BY <1>9, <2>2 DEF AwaitReady
      <3>2. r \in LaunchRecord /\ r.step = "ready" /\ r.port = launch[k].port /\ r.since = launch[k].since
            /\ r.life = launch[k].life /\ r.allocated = launch[k].allocated
        BY <1>2 DEF LaunchRecord
      <3>3. launch[k].since >= k
        BY <1>3, <1>9 DEF AwaitReady, Stands
      <3> QED
        BY <1>1, <1>9, <3>1, <3>2, <3>3, OneMoves, Ports DEF AwaitReady
    <2> QED
      BY <2>1, <2>2
  <1>10. CASE KillChild(k)
    BY <1>1, <1>10, EndedTyped, OneMoves, Ports DEF KillChild
  <1>11. CASE DropDead(k)
    BY <1>1, <1>11, EndedTyped, OneMoves, Ports DEF DropDead
  <1> QED
    BY <1>4, <1>5, <1>6, <1>7, <1>8, <1>9, <1>10, <1>11

\* A restart counts ports from the base again, in another life.
LEMMA RestartedInv ==
    ASSUME PortsIInv, Restarted
    PROVE  PortsIInv'
  <1> USE PortsAssumption
  <1>1. /\ launch \in [Launches -> LaunchRecord \cup {NoLaunch}] /\ 1..started \subseteq Launches
        /\ life \in Nat /\ started \in Nat
        /\ listener \in [PortNumbers -> [who : Nat, since : Nat]]
    BY DEF PortsIInv, PortsTypeOK, Launches
  <1>2. /\ started' = started /\ listener' = listener
        /\ nextPort' \in Nat /\ nextPort' >= BasePort /\ life' \in Nat /\ life' > life
    BY <1>1 DEF Restarted
  <1>3. /\ DOMAIN launch' = Launches /\ launch' = [k \in Launches |-> launch'[k]]
        /\ \A k \in Launches \ (1..started) : launch'[k] = launch[k]
    BY <1>1 DEF Restarted, Launches
  <1>4. \A k \in 1..started :
            /\ launch'[k] \in LaunchRecord
            /\ launch'[k].port = launch[k].port
            /\ launch'[k].life = launch[k].life
            /\ launch'[k].allocated = launch[k].allocated
            /\ Stands(k, {"polling"})' => Stands(k, {"polling"}) \/ ~Taken(launch[k].port)
            /\ Stands(k, {"answered", "ready"})' => launch'[k].since >= k
    <2> TAKE k \in 1..started
    <2>1. launch[k] \in LaunchRecord
      BY PortsRecorded
    <2>2. CASE Stands(k, {"over"})
      <3>1. launch'[k] = launch[k]
        BY <1>1, <2>2 DEF Restarted
      <3> QED
        BY <2>1, <2>2, <3>1 DEF Stands
    <2>3. CASE ~Stands(k, {"over"})
      <3> DEFINE e == Ended(k, launch[k].child)
      <3>1. launch'[k] = [e EXCEPT !.step = "orphan"]
        BY <1>1, <2>3 DEF Restarted
      <3>2. /\ e \in LaunchRecord /\ e.port = launch[k].port /\ e.life = launch[k].life
            /\ e.allocated = launch[k].allocated
        BY <2>1, EndedTyped DEF LaunchRecord
      <3>3. /\ launch'[k] \in LaunchRecord /\ launch'[k].step = "orphan"
            /\ launch'[k].port = launch[k].port /\ launch'[k].life = launch[k].life
            /\ launch'[k].allocated = launch[k].allocated
        BY <3>1, <3>2 DEF LaunchRecord
      <3> QED
        BY <3>3 DEF Stands
    <2> QED
      BY <2>2, <2>3
  <1> QED
    BY <1>1, <1>2, <1>3, <1>4, Settles

\* Others come to ports and leave them.
LEMMA OutsiderInv ==
    ASSUME PortsIInv, NEW p \in PortNumbers, OutsiderBinds(p) \/ OutsiderLeaves(p)
    PROVE  PortsIInv'
  <1> USE PortsAssumption
  <1>1. /\ launch \in [Launches -> LaunchRecord \cup {NoLaunch}]
        /\ \A k \in 1..started : launch[k] \in LaunchRecord
        /\ listener \in [PortNumbers -> [who : Nat, since : Nat]]
        /\ nextPort \in Nat /\ nextPort >= BasePort /\ life \in Nat /\ started \in Nat
    BY PortsRecorded DEF PortsIInv, PortsTypeOK, Counted
  <1>2. launch' = launch /\ started' = started /\ nextPort' = nextPort /\ life' = life
    BY DEF OutsiderBinds, OutsiderLeaves
  <1>3. /\ listener' \in [PortNumbers -> [who : Nat, since : Nat]]
        /\ \A q \in PortNumbers : \/ listener'[q] = listener[q]
                                   \/ listener'[q].who = Nobody
                                   \/ listener'[q].since = started
    BY <1>1 DEF OutsiderBinds, OutsiderLeaves, Outsider, Free, Nobody
  <1>4. \A k \in 1..started :
            /\ Stands(k, {"polling"})' => Stands(k, {"polling"})
            /\ Stands(k, {"answered", "ready"})' => launch'[k].since >= k
    BY <1>2 DEF Stands, PortsIInv, NoSquatter
  <1>5. nextPort' >= nextPort
    BY <1>1, <1>2
  <1> QED
    BY <1>1, <1>2, <1>3, <1>4, <1>5, Settles

\* Every step keeps the invariant.
LEMMA PortsNextInv == PortsIInv /\ [PortsNext]_portsVars => PortsIInv'
  <1> SUFFICES ASSUME PortsIInv, [PortsNext]_portsVars PROVE PortsIInv'
    OBVIOUS
  <1>1. CASE UNCHANGED portsVars
    BY <1>1 DEF portsVars, PortsIInv, PortsTypeOK, Counted, Polled, AllocatedApart, NoSquatter, Stands, Taken
  <1>2. ASSUME NEW m \in Aliases, AllocatePort(m) \/ PortFromArgs(m) PROVE PortsIInv'
    BY <1>2, LaunchInv
  <1>3. ASSUME NEW m \in Aliases, NoPort(m) PROVE PortsIInv'
    BY <1>3, NoPortInv
  <1>4. ASSUME NEW k \in Launches,
               \/ Fork(k) \/ BindPort(k) \/ ChildDies(k) \/ Reaped(k) \/ HealthAnswered(k)
               \/ AwaitReady(k) \/ KillChild(k) \/ DropDead(k)
        PROVE  PortsIInv'
    BY <1>4, LaunchMoves
  <1>5. ASSUME NEW p \in PortNumbers, OutsiderBinds(p) \/ OutsiderLeaves(p) PROVE PortsIInv'
    BY <1>5, OutsiderInv
  <1>6. CASE Restarted
    BY <1>6, RestartedInv
  <1> QED
    BY <1>1, <1>2, <1>3, <1>4, <1>5, <1>6 DEF PortsNext

\* PortsIInv holds in every reachable state.
LEMMA PortsInvariant == PortsSpec => []PortsIInv
  <1> QED
    BY PortsInitInv, PortsNextInv, PTL DEF PortsSpec

\* In one life of the program allocatePort gives no port twice
\* (server_manager.go:1034).
THEOREM NoPortTwice == PortsSpec => []AllocatedApart
  <1>1. PortsIInv => AllocatedApart
    BY DEF PortsIInv
  <1> QED
    BY <1>1, PortsInvariant, PTL

\* No instance is served on the answer of a server that was on its port before
\* its launch (server_manager.go:617).
THEOREM NoStray == PortsSpec => []NoSquatter
  <1>1. PortsIInv => NoSquatter
    BY DEF PortsIInv
  <1> QED
    BY <1>1, PortsInvariant, PTL

-----------------------------------------------------------------------------
(* DebugWindow.                                                           *)

CallRecords == [at : {"window", "swap", "store", "notice", "level", "write"},
                level : {"debug", "info"}, handling : BOOLEAN, noticed : BOOLEAN,
                past : BOOLEAN]

\* What a call knows of the window at each of its steps.  One that began after
\* the notice is held back at the level if it is a debug line; one that began
\* past the deadline has seen to the expiry once it is past its first look.
CallSound(g) ==
    LET c == logCall[g]
    IN  /\ c.noticed => notices > 0
        /\ c.noticed /\ c.level = "debug" => ~c.handling /\ c.at # "write"
        /\ c.past => start = "debug" /\ seconds >= Deadline
        /\ c.past /\ (c.handling \/ c.at \in {"store", "notice", "level", "write"}) => expired
        /\ c.at = "notice" => level = "info"

\* The winners of the compare-and-swap that have yet to write the notice.
Winning(g) == logCall[g].at \in {"store", "notice"}

\* The inductive invariant behind ExpiryOnce: the swap is won once, by a call
\* that writes the notice or has written it.
WindowInv ==
    /\ expired \in BOOLEAN /\ seconds \in Nat /\ notices \in Nat /\ start \in Levels
    /\ late = FALSE /\ missed = FALSE
    /\ logCall \in [Loggers -> CallRecords \cup {NoLogCall}]
    /\ ~expired => notices = 0 /\ \A g \in Loggers : ~Winning(g)
    /\ notices > 0 => notices = 1 /\ level = "info" /\ \A g \in Loggers : ~Winning(g)
    /\ \A g, h \in Loggers : Winning(g) /\ Winning(h) => g = h
    /\ \A g \in Loggers : logCall[g] # NoLogCall => CallSound(g)

\* Before the first call.
LEMMA InitWindow == WindowInit => WindowInv
  <1> SUFFICES ASSUME WindowInit PROVE WindowInv
    OBVIOUS
  <1>1. \A g \in Loggers : logCall[g] = NoLogCall /\ ~Winning(g)
    BY DEF WindowInit, Winning, NoLogCall
  <1>2. logCall \in [Loggers -> CallRecords \cup {NoLogCall}]
    BY DEF WindowInit
  <1>3. /\ expired = FALSE /\ seconds = 0 /\ notices = 0 /\ start \in Levels
        /\ late = FALSE /\ missed = FALSE
    BY DEF WindowInit
  <1>4. seconds \in Nat /\ notices \in Nat /\ ~(notices > 0)
    BY <1>3
  <1> QED
    BY <1>1, <1>2, <1>3, <1>4, Zenon DEF WindowInv

\* The call of g moves on to r, and nothing it sees of the window goes back.
LEMMA WindowMove ==
  ASSUME WindowInv, NEW g \in Loggers, NEW r \in CallRecords \cup {NoLogCall},
         logCall' = [logCall EXCEPT ![g] = r],
         expired' \in BOOLEAN, seconds' \in Nat, notices' \in Nat, start' = start,
         late' = FALSE, missed' = FALSE,
         expired => expired', seconds' >= seconds, notices > 0 => notices' > 0,
         level = "info" => level' = "info",
         ~expired' => notices' = 0 /\ r.at \notin {"store", "notice"},
         notices' > 0 => /\ notices' = 1 /\ level' = "info"
                         /\ \A h \in Loggers : h # g => ~Winning(h)
                         /\ r.at \notin {"store", "notice"},
         r.at \in {"store", "notice"} => \A h \in Loggers : h # g => ~Winning(h),
         r # NoLogCall =>
             /\ r.noticed => notices' > 0
             /\ r.noticed /\ r.level = "debug" => ~r.handling /\ r.at # "write"
             /\ r.past => start = "debug" /\ seconds >= Deadline
             /\ r.past /\ (r.handling \/ r.at \in {"store", "notice", "level", "write"}) => expired'
             /\ r.at = "notice" => level' = "info"
  PROVE  WindowInv'
<1>1. \A h \in Loggers : logCall'[h] = IF h = g THEN r ELSE logCall[h]
  BY DEF WindowInv
<1>2. logCall' \in [Loggers -> CallRecords \cup {NoLogCall}]
  BY DEF WindowInv
<1>3. /\ ~expired' => notices' = 0 /\ \A h \in Loggers : ~Winning(h)'
      /\ notices' > 0 => notices' = 1 /\ level' = "info" /\ \A h \in Loggers : ~Winning(h)'
      /\ \A h, k \in Loggers : Winning(h)' /\ Winning(k)' => h = k
  BY <1>1 DEF WindowInv, Winning
<1>4. ASSUME NEW h \in Loggers, logCall'[h] # NoLogCall PROVE CallSound(h)'
  <2>1. CASE h = g
    BY <1>1, <1>4, <2>1, WindowAssumption DEF CallSound, WindowInv
  <2>2. CASE h # g
    BY <1>1, <1>4, <2>2, WindowAssumption DEF CallSound, WindowInv
  <2> QED
    BY <2>1, <2>2
<1> QED
  BY <1>2, <1>3, <1>4 DEF WindowInv, Levels

\* The call of g ends.
LEMMA WindowEnd ==
  ASSUME WindowInv, NEW g \in Loggers, logCall' = [logCall EXCEPT ![g] = NoLogCall],
         late' = FALSE, missed' = FALSE, UNCHANGED <<start, level, expired, seconds, notices>>
  PROVE  WindowInv'
<1>1. NoLogCall \in CallRecords \cup {NoLogCall} /\ NoLogCall.at = "idle"
  BY DEF NoLogCall
<1>2. /\ expired' \in BOOLEAN /\ seconds' \in Nat /\ notices' \in Nat /\ seconds' >= seconds
      /\ ~expired' => notices' = 0
      /\ notices' > 0 => /\ notices' = 1 /\ level' = "info"
                         /\ \A h \in Loggers : ~Winning(h)
  BY DEF WindowInv
<1> QED
  BY <1>1, <1>2, WindowMove

\* Every step of a call preserves the invariant.
LEMMA WindowCall ==
  ASSUME WindowInv, NEW g \in Loggers, NEW l \in {"debug", "info"},
         \/ CallLog(g, l) \/ LookAtWindow(g) \/ Swap(g) \/ StoreLevel(g) \/ WriteNotice(g)
         \/ CompareLevel(g) \/ WriteRecord(g)
  PROVE  WindowInv'
<1> DEFINE c == logCall[g]
<1>0. c \in CallRecords \cup {NoLogCall}
  BY DEF WindowInv
<1>1. CASE CallLog(g, l)
  <2>1. PICK r : r = [at |-> "window", level |-> l, handling |-> FALSE, noticed |-> notices > 0,
                      past |-> start = "debug" /\ seconds >= Deadline]
    OBVIOUS
  <2>2. /\ logCall' = [logCall EXCEPT ![g] = r]
        /\ UNCHANGED <<start, level, expired, seconds, notices, late, missed>>
    BY <1>1, <2>1 DEF CallLog
  <2>3. r \in CallRecords /\ r.at = "window" /\ ~r.handling
    BY <2>1 DEF CallRecords
  <2>4. (r.noticed => notices > 0) /\ (r.past => start = "debug" /\ seconds >= Deadline)
    BY <2>1
  <2>5. /\ expired' \in BOOLEAN /\ seconds' \in Nat /\ notices' \in Nat /\ seconds' >= seconds
        /\ late' = FALSE /\ missed' = FALSE
        /\ ~expired' => notices' = 0
        /\ notices' > 0 => /\ notices' = 1 /\ level' = "info"
                           /\ \A h \in Loggers : ~Winning(h)
    BY <2>2 DEF WindowInv
  <2> QED
    BY <2>2, <2>3, <2>4, <2>5, WindowMove
<1>2. CASE LookAtWindow(g)
  <2>1. PICK at \in {"write", "level", "swap"} :
          /\ logCall' = [logCall EXCEPT ![g].at = at]
          /\ at = "write" => c.handling
          /\ at = "level" => ~c.handling
          /\ at \in {"write", "level"} => start # "debug" \/ expired \/ seconds < Deadline
    BY <1>2 DEF LookAtWindow, AtStep, AfterWindow
  <2>2. c \in CallRecords /\ c.at = "window" /\ CallSound(g)
    BY <1>0, <1>2 DEF LookAtWindow, NoLogCall, WindowInv
  <2>3. PICK r \in CallRecords : r = [c EXCEPT !.at = at]
    BY <2>2 DEF CallRecords
  <2>4. /\ r.at = at /\ r.level = c.level /\ r.handling = c.handling
        /\ r.noticed = c.noticed /\ r.past = c.past
    BY <2>2, <2>3 DEF CallRecords
  <2>5. logCall' = [logCall EXCEPT ![g] = r]
    BY <2>1, <2>3
  <2>6. UNCHANGED <<start, level, expired, seconds, notices, late, missed>>
    BY <1>2 DEF LookAtWindow
  <2> QED
    BY <2>1, <2>2, <2>4, <2>5, <2>6, WindowMove, WindowAssumption DEF WindowInv, Winning, CallSound
<1>3. CASE Swap(g)
  <2>1. PICK at \in {"write", "level", "store"} :
          /\ logCall' = [logCall EXCEPT ![g].at = at]
          /\ at = "write" => c.handling
          /\ at = "level" => ~c.handling
          /\ at = "store" <=> ~expired
    BY <1>3 DEF Swap, Swapped, AtStep, AfterWindow
  <2>2. c \in CallRecords /\ c.at = "swap" /\ CallSound(g)
    BY <1>0, <1>3 DEF Swap, NoLogCall, WindowInv
  <2>3. PICK r \in CallRecords : r = [c EXCEPT !.at = at]
    BY <2>2 DEF CallRecords
  <2>4. /\ r.at = at /\ r.level = c.level /\ r.handling = c.handling
        /\ r.noticed = c.noticed /\ r.past = c.past
    BY <2>2, <2>3 DEF CallRecords
  <2>5. logCall' = [logCall EXCEPT ![g] = r]
    BY <2>1, <2>3
  <2>6. expired' = TRUE /\ UNCHANGED <<start, level, seconds, notices, late, missed>>
    BY <1>3 DEF Swap
  <2> QED
    BY <2>1, <2>2, <2>4, <2>5, <2>6, WindowMove DEF WindowInv, Winning, CallSound
<1>4. CASE StoreLevel(g)
  <2>1. c \in CallRecords /\ c.at = "store" /\ CallSound(g)
    BY <1>0, <1>4 DEF StoreLevel, NoLogCall, WindowInv
  <2>2. PICK r \in CallRecords : r = [c EXCEPT !.at = "notice"]
    BY <2>1 DEF CallRecords
  <2>3. /\ r.at = "notice" /\ r.level = c.level /\ r.handling = c.handling
        /\ r.noticed = c.noticed /\ r.past = c.past
    BY <2>1, <2>2 DEF CallRecords
  <2>4. /\ logCall' = [logCall EXCEPT ![g] = r] /\ level' = "info"
        /\ UNCHANGED <<start, expired, seconds, notices, late, missed>>
    BY <1>4, <2>2 DEF StoreLevel, AtStep
  <2> QED
    BY <2>1, <2>3, <2>4, WindowMove DEF WindowInv, Winning, CallSound
<1>5. CASE WriteNotice(g)
  <2>1. PICK at \in {"write", "level"} :
          /\ logCall' = [logCall EXCEPT ![g].at = at]
          /\ at = "write" => c.handling
          /\ at = "level" => ~c.handling
    BY <1>5 DEF WriteNotice, AtStep, AfterWindow
  <2>2. c \in CallRecords /\ c.at = "notice" /\ CallSound(g)
    BY <1>0, <1>5 DEF WriteNotice, NoLogCall, WindowInv
  <2>3. PICK r \in CallRecords : r = [c EXCEPT !.at = at]
    BY <2>2 DEF CallRecords
  <2>4. /\ r.at = at /\ r.level = c.level /\ r.handling = c.handling
        /\ r.noticed = c.noticed /\ r.past = c.past
    BY <2>2, <2>3 DEF CallRecords
  <2>5. logCall' = [logCall EXCEPT ![g] = r]
    BY <2>1, <2>3
  <2>6. notices' = notices + 1 /\ UNCHANGED <<start, level, expired, seconds, late, missed>>
    BY <1>5 DEF WriteNotice
  <2>7. Winning(g)
    BY <2>2 DEF Winning
  <2>8. notices = 0 /\ expired
    BY <2>7 DEF WindowInv
  <2> QED
    BY <2>1, <2>2, <2>4, <2>5, <2>6, <2>7, <2>8, WindowMove DEF WindowInv, Winning, CallSound
<1>6. CASE CompareLevel(g)
  <2>1. c \in CallRecords /\ c.at = "level" /\ CallSound(g)
    BY <1>0, <1>6 DEF CompareLevel, NoLogCall, WindowInv
  <2>2. UNCHANGED <<start, level, expired, seconds, notices, late>>
    BY <1>6 DEF CompareLevel
  <2>3. CASE Rank(c.level) >= Rank(level)
    <3>1. PICK r \in CallRecords : r = [c EXCEPT !.at = "window", !.handling = TRUE]
      BY <2>1 DEF CallRecords
    <3>2. /\ r.at = "window" /\ r.level = c.level /\ r.handling = TRUE
          /\ r.noticed = c.noticed /\ r.past = c.past
      BY <2>1, <3>1 DEF CallRecords
    <3>3. logCall' = [logCall EXCEPT ![g] = r] /\ missed' = missed
      BY <1>6, <2>3, <3>1 DEF CompareLevel
    <3>4. ~(r.noticed /\ r.level = "debug")
      <4>1. r.noticed => level = "info"
        BY <2>1, <3>2 DEF CallSound, WindowInv
      <4> QED
        BY <2>3, <3>2, <4>1 DEF Rank
    <3> QED
      BY <2>1, <2>2, <3>2, <3>3, <3>4, WindowMove DEF WindowInv, Winning, CallSound
  <2>4. CASE ~(Rank(c.level) >= Rank(level))
    <3>1. logCall' = [logCall EXCEPT ![g] = NoLogCall] /\ missed' = (missed \/ (c.past /\ ~expired))
      BY <1>6, <2>4 DEF CompareLevel, EndLogCall
    <3>2. missed' = FALSE /\ late' = FALSE
      BY <2>1, <2>2, <3>1 DEF CallSound, WindowInv
    <3> QED
      BY <2>2, <3>1, <3>2, WindowEnd
  <2> QED
    BY <2>3, <2>4
<1>7. CASE WriteRecord(g)
  <2>1. c \in CallRecords /\ c.at = "write" /\ CallSound(g)
    BY <1>0, <1>7 DEF WriteRecord, NoLogCall, WindowInv
  <2>2. /\ logCall' = [logCall EXCEPT ![g] = NoLogCall]
        /\ missed' = (missed \/ (c.past /\ ~expired))
        /\ late' = (late \/ (c.level = "debug" /\ c.noticed))
        /\ UNCHANGED <<start, level, expired, seconds, notices>>
    BY <1>7 DEF WriteRecord, EndLogCall
  <2>3. missed' = FALSE /\ late' = FALSE
    BY <2>1, <2>2 DEF CallSound, WindowInv
  <2> QED
    BY <2>2, <2>3, WindowEnd
<1> QED
  BY <1>1, <1>2, <1>3, <1>4, <1>5, <1>6, <1>7

\* The end of the window is told once, whoever notices it together; a call begun
\* after it was told writes no debug line, and none begun past the deadline ends
\* with the window open (checkWindow, logging.go).
THEOREM WindowExpiresOnce == WindowSpec => []ExpiryOnce
  <1>1. WindowInv /\ [WindowNext]_windowVars => WindowInv'
    <2> SUFFICES ASSUME WindowInv, [WindowNext]_windowVars PROVE WindowInv'
      OBVIOUS
    <2>1. CASE SecondPasses
      <3>1. /\ seconds' = seconds + 1
            /\ UNCHANGED <<start, level, expired, logCall, logCalls, notices, late, missed>>
        BY <2>1 DEF SecondPasses
      <3> QED
        BY <3>1, WindowAssumption DEF WindowInv, Winning, CallSound, Levels
    <2>2. CASE UNCHANGED windowVars
      BY <2>2 DEF windowVars, WindowInv, Winning, CallSound, Levels
    <2> QED
      BY <2>1, <2>2, WindowCall DEF WindowNext
  <1>2. WindowInv => ExpiryOnce
    BY DEF WindowInv, ExpiryOnce
  <1> QED
    BY <1>1, <1>2, InitWindow, PTL DEF WindowSpec

-----------------------------------------------------------------------------
(* ChildOutput.                                                           *)

\* The lines a pump holds, one for each that has taken one.
Held == (IF pump["stdout"] = "holding" THEN 1 ELSE 0)
      + (IF pump["stderr"] = "holding" THEN 1 ELSE 0)

Counts == [written : Nat, taken : Nat, logged : Nat, reported : Nat, overlong : SUBSET Streams]
Limiters == [start : Nat, inWindow : Nat, dropped : Nat, closed : BOOLEAN]
Pumps == [Streams -> {"reading", "holding", "ended"}]

\* The lines in the pipes.
InPipes == Len(pipe["stdout"]) + Len(pipe["stderr"])

\* The inductive invariant behind EveryLineCounted: an overlong line in a pipe
\* has been noted, and a closed limiter has nothing left to report.
ChildInv ==
    /\ alive \in BOOLEAN /\ waited \in BOOLEAN /\ want \in Lines \cup {NoLine}
    /\ pipe \in [Streams -> Seq(BOOLEAN)]
    /\ pump \in Pumps
    /\ limiter \in Limiters /\ clock \in Nat
    /\ count \in Counts
    /\ count.taken = count.logged + count.reported + limiter.dropped + Held
    /\ limiter.closed => limiter.dropped = 0 /\ \A s \in Streams : pump[s] = "ended"
    /\ ~waited /\ count.overlong = {} =>
           count.written = count.taken + InPipes
    /\ \A s \in Streams : \A i \in 1..Len(pipe[s]) : pipe[s][i] => s \in count.overlong

\* Held counts the pumps that hold a line.
LEMMA HeldCounts ==
  ASSUME pump \in Pumps
  PROVE  Cardinality(Holding) = Held
<1>0. Cardinality({"stdout"}) = 1 /\ Cardinality({"stdout", "stderr"}) = 2
      /\ Cardinality({"stderr"}) = 1 /\ Cardinality({}) = 0
  <2>1. IsFiniteSet({"stdout"}) /\ Cardinality({"stdout"}) = 1 /\ Cardinality({"stderr"}) = 1
    BY FS_Singleton
  <2>2. "stderr" \notin {"stdout"} /\ {"stdout"} \cup {"stderr"} = {"stdout", "stderr"}
    OBVIOUS
  <2>3. Cardinality({"stdout"} \cup {"stderr"}) = 1 + 1
    BY <2>1, <2>2, FS_AddElement
  <2> QED
    BY <2>1, <2>2, <2>3, FS_EmptySet
<1>1. CASE pump["stdout"] = "holding" /\ pump["stderr"] = "holding"
  <2>1. Holding = {"stdout", "stderr"}
    BY <1>1 DEF Holding, Streams
  <2> QED
    BY <1>0, <1>1, <2>1 DEF Held
<1>2. CASE pump["stdout"] = "holding" /\ pump["stderr"] # "holding"
  <2>1. Holding = {"stdout"}
    BY <1>2 DEF Holding, Streams
  <2> QED
    BY <1>0, <1>2, <2>1 DEF Held
<1>3. CASE pump["stdout"] # "holding" /\ pump["stderr"] = "holding"
  <2>1. Holding = {"stderr"}
    BY <1>3 DEF Holding, Streams
  <2> QED
    BY <1>0, <1>3, <2>1 DEF Held
<1>4. CASE pump["stdout"] # "holding" /\ pump["stderr"] # "holding"
  <2>1. Holding = {}
    BY <1>4 DEF Holding, Streams
  <2> QED
    BY <1>0, <1>4, <2>1 DEF Held
<1> QED
  BY <1>1, <1>2, <1>3, <1>4

\* The numbers in a state that satisfies the invariant.
LEMMA ChildNumbers ==
  ASSUME ChildInv
  PROVE  /\ count \in Counts /\ limiter \in Limiters /\ pump \in Pumps /\ pipe \in [Streams -> Seq(BOOLEAN)]
         /\ count.written \in Nat /\ count.taken \in Nat /\ count.logged \in Nat
         /\ count.reported \in Nat /\ count.overlong \in SUBSET Streams
         /\ limiter.dropped \in Nat /\ Held \in Nat /\ InPipes \in Nat
<1>1. count \in Counts /\ limiter \in Limiters /\ pump \in Pumps /\ pipe \in [Streams -> Seq(BOOLEAN)]
  BY DEF ChildInv
<1>2. Len(pipe["stdout"]) \in Nat /\ Len(pipe["stderr"]) \in Nat
  BY <1>1 DEF Streams
<1>3. /\ count.written \in Nat /\ count.taken \in Nat /\ count.logged \in Nat
      /\ count.reported \in Nat /\ count.overlong \in SUBSET Streams
  BY <1>1 DEF Counts
<1>4. limiter.dropped \in Nat
  BY <1>1 DEF Limiters
<1>5. Held \in Nat
  BY DEF Held
<1>6. InPipes \in Nat
  <2>1. PICK a \in Nat, b \in Nat : a = Len(pipe["stdout"]) /\ b = Len(pipe["stderr"])
    BY <1>2
  <2>2. InPipes = a + b
    BY <2>1 DEF InPipes
  <2> QED
    BY <2>2
<1> QED
  BY <1>1, <1>3, <1>4, <1>5, <1>6

\* Of these, the counts alone.
LEMMA CountNumbers ==
  ASSUME ChildInv
  PROVE  /\ count.written \in Nat /\ count.taken \in Nat /\ count.logged \in Nat
         /\ count.reported \in Nat /\ limiter.dropped \in Nat /\ Held \in Nat /\ InPipes \in Nat
         /\ count.taken = count.logged + count.reported + limiter.dropped + Held
         /\ ~waited /\ count.overlong = {} => count.written = count.taken + InPipes
  BY ChildNumbers, Zenon DEF ChildInv

\* One of two numbers changes by d.
LEMMA OneChanges ==
  ASSUME NEW a \in Nat, NEW b \in Nat, NEW m \in Nat, NEW n \in Nat, NEW d \in Int,
         (m = a + d /\ n = b) \/ (m = a /\ n = b + d)
  PROVE  m + n = a + b + d
  OBVIOUS

\* One pipe gets longer or shorter.
LEMMA PipeChanges ==
  ASSUME pipe \in [Streams -> Seq(BOOLEAN)], pipe' \in [Streams -> Seq(BOOLEAN)],
         NEW s \in Streams, NEW d \in Int, Len(pipe'[s]) = Len(pipe[s]) + d,
         \A t \in Streams : t # s => pipe'[t] = pipe[t]
  PROVE  InPipes' = InPipes + d
<1>1. \A t \in Streams : Len(pipe[t]) \in Nat /\ Len(pipe'[t]) \in Nat
  OBVIOUS
<1>2. /\ Len(pipe["stdout"]) \in Nat /\ Len(pipe'["stdout"]) \in Nat
      /\ Len(pipe["stderr"]) \in Nat /\ Len(pipe'["stderr"]) \in Nat
  BY <1>1 DEF Streams
<1>5. PICK a \in Nat, b \in Nat, m \in Nat, n \in Nat :
          /\ a = Len(pipe["stdout"]) /\ b = Len(pipe["stderr"])
          /\ m = Len(pipe'["stdout"]) /\ n = Len(pipe'["stderr"])
  BY <1>2
<1>6. InPipes = a + b /\ InPipes' = m + n
  BY <1>5 DEF InPipes
<1>3. CASE s = "stdout"
  <2>1. pipe'["stderr"] = pipe["stderr"]
    BY <1>3 DEF Streams
  <2> QED
    <3>1. m = a + d /\ n = b
      BY <1>5, <1>3, <2>1
    <3>2. m + n = a + b + d
      BY <3>1, OneChanges
    <3> QED
      BY <1>6, <3>2
<1>4. CASE s = "stderr"
  <2>1. pipe'["stdout"] = pipe["stdout"]
    BY <1>4 DEF Streams
  <2> QED
    <3>1. m = a /\ n = b + d
      BY <1>5, <1>4, <2>1
    <3>2. m + n = a + b + d
      BY <3>1, OneChanges
    <3> QED
      BY <1>6, <3>2
<1> QED
  BY <1>3, <1>4 DEF Streams

\* A pump takes up a line, or puts it down.
LEMMA HeldGrows ==
  ASSUME NEW p \in Pumps, NEW q, NEW s \in Streams, p[s] # "holding",
         q = [p EXCEPT ![s] = "holding"]
  PROVE  /\ q \in Pumps
         /\ (IF q["stdout"] = "holding" THEN 1 ELSE 0) + (IF q["stderr"] = "holding" THEN 1 ELSE 0)
            = (IF p["stdout"] = "holding" THEN 1 ELSE 0) + (IF p["stderr"] = "holding" THEN 1 ELSE 0) + 1
<1>1. CASE s = "stdout"
  BY <1>1 DEF Pumps, Streams
<1>2. CASE s = "stderr"
  BY <1>2 DEF Pumps, Streams
<1> QED
  BY <1>1, <1>2 DEF Streams

\* A child starts with empty pipes and nothing counted.
LEMMA InitChild == ChildInit => ChildInv
  <1> SUFFICES ASSUME ChildInit PROVE ChildInv
    OBVIOUS
  <1>1. pipe \in [Streams -> Seq(BOOLEAN)] /\ \A s \in Streams : Len(pipe[s]) = 0
    BY DEF ChildInit
  <1>2. pump \in Pumps /\ Held = 0
    BY DEF ChildInit, Pumps, Held, Streams
  <1>3. /\ limiter \in Limiters /\ limiter.dropped = 0 /\ ~limiter.closed /\ clock \in Nat
        /\ count \in Counts /\ count.written = 0 /\ count.taken = 0 /\ count.logged = 0
        /\ count.reported = 0
    BY DEF ChildInit, Limiters, Counts
  <1>4. alive \in BOOLEAN /\ waited \in BOOLEAN /\ want \in Lines \cup {NoLine}
    BY DEF ChildInit
  <1>5. Len(pipe["stdout"]) = 0 /\ Len(pipe["stderr"]) = 0
    BY <1>1 DEF Streams
  <1>6. \A s \in Streams : 1..Len(pipe[s]) = {}
    BY <1>1
  <1> QED
    BY <1>1, <1>2, <1>3, <1>4, <1>5, <1>6 DEF ChildInv, InPipes

\* A line goes into a pipe: it is counted as written, and noted when overlong.
LEMMA ChildWrites == ASSUME ChildInv, LineWritten PROVE ChildInv'
<1>1. PICK s \in Streams : s = want.stream
  BY DEF LineWritten, ChildInv, Lines
<1>2. PICK long \in BOOLEAN : long = want.long
  BY DEF LineWritten, ChildInv, Lines
<1>3. /\ pipe' = [pipe EXCEPT ![s] = Append(pipe[s], long)]
      /\ want' = NoLine
      /\ count' = [count EXCEPT !.written = count.written + 1,
                                !.overlong = IF long THEN count.overlong \cup {s} ELSE count.overlong]
      /\ UNCHANGED <<alive, pump, waited, limiter, clock>>
  BY <1>1, <1>2 DEF LineWritten
<1>4. /\ pipe' \in [Streams -> Seq(BOOLEAN)]
      /\ Len(pipe'[s]) = Len(pipe[s]) + 1
      /\ pipe'[s][Len(pipe[s]) + 1] = long
      /\ \A i \in 1..Len(pipe[s]) : pipe'[s][i] = pipe[s][i]
      /\ \A t \in Streams : t # s => pipe'[t] = pipe[t]
      /\ \A t \in Streams : Len(pipe[t]) \in Nat
  BY <1>3 DEF ChildInv
<1>5. /\ count' \in Counts
      /\ count'.written = count.written + 1 /\ count'.taken = count.taken
      /\ count'.logged = count.logged /\ count'.reported = count.reported
      /\ count'.overlong = IF long THEN count.overlong \cup {s} ELSE count.overlong
  <2>1. count \in Counts
    BY ChildNumbers
  <2>2. PICK o \in SUBSET Streams : o = IF long THEN count.overlong \cup {s} ELSE count.overlong
    BY <2>1 DEF Counts
  <2>3. PICK w \in Nat : w = count.written + 1
    BY CountNumbers
  <2>4. count' = [count EXCEPT !.written = w, !.overlong = o]
    BY <1>3, <2>2, <2>3
  <2>5. /\ count' \in Counts /\ count'.written = w /\ count'.overlong = o
        /\ count'.taken = count.taken /\ count'.logged = count.logged /\ count'.reported = count.reported
    BY <2>1, <2>4 DEF Counts
  <2> QED
    BY <2>2, <2>3, <2>5
<1>6. Held' = Held
  BY <1>3 DEF Held
<1>7. InPipes' = InPipes + 1
  BY <1>4, PipeChanges, ChildNumbers
<1>8. \A t \in Streams : \A i \in 1..Len(pipe'[t]) : pipe'[t][i] => t \in count'.overlong
  <2> SUFFICES ASSUME NEW t \in Streams, NEW i \in 1..Len(pipe'[t]), pipe'[t][i]
               PROVE  t \in count'.overlong
    OBVIOUS
  <2>1. CASE t # s
    BY <1>4, <1>5, <2>1 DEF ChildInv
  <2>2. CASE t = s /\ i = Len(pipe[s]) + 1
    BY <1>4, <1>5, <2>2
  <2>3. CASE t = s /\ i # Len(pipe[s]) + 1
    <3>1. i \in 1..Len(pipe[s])
      BY <1>4, <2>3
    <3> QED
      BY <1>4, <1>5, <2>3, <3>1 DEF ChildInv
  <2> QED
    BY <2>1, <2>2, <2>3
<1>9. ~waited /\ count'.overlong = {} => count'.written = count'.taken + InPipes'
  <2>1. count'.overlong = {} => count.overlong = {}
    BY <1>5
  <2>2. count'.written = count.written + 1 /\ count'.taken = count.taken
    BY <1>5
  <2> QED
    BY <1>7, <2>1, <2>2, CountNumbers
<1>10. count'.taken = count'.logged + count'.reported + limiter'.dropped + Held'
  BY <1>3, <1>5, <1>6 DEF ChildInv
<1> QED
  BY <1>3, <1>4, <1>5, <1>8, <1>9, <1>10 DEF ChildInv

\* A pump takes the line at the head of its pipe, and ends on an overlong one.
LEMMA ChildTakes == ASSUME ChildInv, NEW s \in Streams, TakeLine(s) PROVE ChildInv'
<1>1. /\ pump[s] = "reading" /\ pipe[s] # <<>>
      /\ pipe' = [pipe EXCEPT ![s] = Tail(pipe[s])]
      /\ UNCHANGED <<alive, want, waited, limiter, clock>>
  BY DEF TakeLine, Reads
<1>2. /\ pipe' \in [Streams -> Seq(BOOLEAN)]
      /\ Len(pipe[s]) \in Nat \ {0} /\ Len(pipe'[s]) = Len(pipe[s]) - 1
      /\ \A i \in 1..Len(pipe'[s]) : pipe'[s][i] = pipe[s][i + 1] /\ i + 1 \in 1..Len(pipe[s])
      /\ \A t \in Streams : t # s => pipe'[t] = pipe[t]
      /\ \A t \in Streams : Len(pipe[t]) \in Nat
      /\ Head(pipe[s]) = pipe[s][1] /\ 1 \in 1..Len(pipe[s])
  BY <1>1 DEF ChildInv
<1>3. \A t \in Streams : \A i \in 1..Len(pipe'[t]) : pipe'[t][i] => t \in count.overlong
  BY <1>2 DEF ChildInv
<1>4. ~limiter.closed
  BY <1>1 DEF ChildInv
<1>5. CASE Head(pipe[s])
  <2>1. pump' = [pump EXCEPT ![s] = "ended"] /\ count' = count
    BY <1>5 DEF TakeLine
  <2>2. s \in count.overlong
    BY <1>2, <1>5 DEF ChildInv
  <2>3. pump' \in Pumps /\ Held' = Held
    BY <1>1, <2>1, ChildNumbers DEF Held, Pumps, Streams
  <2> QED
    BY <1>1, <1>2, <1>3, <1>4, <2>1, <2>2, <2>3 DEF ChildInv
<1>6. CASE ~Head(pipe[s])
  <2>1. pump' = [pump EXCEPT ![s] = "holding"] /\ count' = [count EXCEPT !.taken = count.taken + 1]
    BY <1>6 DEF TakeLine
  <2>2. /\ count' \in Counts
        /\ count'.written = count.written /\ count'.taken = count.taken + 1
        /\ count'.logged = count.logged /\ count'.reported = count.reported
        /\ count'.overlong = count.overlong
    <3>1. count \in Counts
      BY ChildNumbers
    <3> QED
      BY <2>1, <3>1 DEF Counts
  <2>3. pump' \in Pumps /\ Held' = Held + 1
    BY <1>1, <2>1, ChildNumbers, HeldGrows DEF Held
  <2>4. InPipes' = InPipes - 1
    <3>1. Len(pipe'[s]) = Len(pipe[s]) + (0 - 1)
      BY <1>2
    <3>2. InPipes' = InPipes + (0 - 1)
      BY <1>2, <3>1, PipeChanges, ChildNumbers
    <3> QED
      BY <3>2, CountNumbers
  <2>5. count'.taken = count'.logged + count'.reported + limiter'.dropped + Held'
    <3>1. limiter'.dropped = limiter.dropped
      BY <1>1
    <3> QED
      BY <2>2, <2>3, <3>1, CountNumbers
  <2>6. ~waited /\ count'.overlong = {} => count'.written = count'.taken + InPipes'
    BY <2>2, <2>4, CountNumbers
  <2> QED
    BY <1>1, <1>2, <1>3, <1>4, <2>2, <2>3, <2>5, <2>6 DEF ChildInv
<1> QED
  BY <1>5, <1>6

\* The limiter writes the line it is given or counts it as dropped, and a window
\* that rolls over moves what it dropped to what is reported.
LEMMA ChildLogs == ASSUME ChildInv, NEW s \in Streams, LogLine(s) PROVE ChildInv'
<1>1. PICK l \in [start : Nat, inWindow : Nat, dropped : Nat, closed : BOOLEAN, flushed : Nat] :
        /\ l.dropped + l.flushed = limiter.dropped
        /\ l.closed => limiter.closed
        /\ limiter' = [start |-> l.start, closed |-> l.closed,
                       inWindow |-> IF l.inWindow >= PerWindow THEN l.inWindow ELSE l.inWindow + 1,
                       dropped |-> IF l.inWindow >= PerWindow THEN l.dropped + 1 ELSE l.dropped]
        /\ count' = [count EXCEPT !.logged = IF l.inWindow >= PerWindow THEN count.logged ELSE count.logged + 1,
                                  !.reported = count.reported + l.flushed]
  <2>1. CASE limiter.start = 0 \/ clock - limiter.start >= LineWindow
    <3>1. Rolled \in [start : Nat, inWindow : Nat, dropped : Nat, closed : BOOLEAN, flushed : Nat]
          /\ Rolled.dropped + Rolled.flushed = limiter.dropped /\ ~Rolled.closed
      <4>1. limiter \in Limiters /\ clock \in Nat
        BY DEF ChildInv
      <4> QED
        BY <4>1 DEF Rolled, Limiters
    <3> QED
      BY <2>1, <3>1 DEF LogLine
  <2>2. CASE ~(limiter.start = 0 \/ clock - limiter.start >= LineWindow)
    <3>1. Same \in [start : Nat, inWindow : Nat, dropped : Nat, closed : BOOLEAN, flushed : Nat]
          /\ Same.dropped + Same.flushed = limiter.dropped /\ Same.closed = limiter.closed
      <4>1. limiter \in Limiters /\ clock \in Nat
        BY DEF ChildInv
      <4> QED
        BY <4>1 DEF Same, Limiters
    <3> QED
      BY <2>2, <3>1 DEF LogLine
  <2> QED
    BY <2>1, <2>2
<1>2. /\ pump[s] = "holding" /\ pump' = [pump EXCEPT ![s] = "reading"]
      /\ UNCHANGED <<alive, want, pipe, waited, clock>>
  BY DEF LogLine
<1>3. pump' \in Pumps /\ Held = Held' + 1 /\ Held' \in Nat
  BY <1>2, ChildNumbers DEF Held, Pumps, Streams
<1>4. ~limiter.closed /\ ~limiter'.closed
  BY <1>1, <1>2 DEF ChildInv
<1>5. /\ limiter' \in Limiters
      /\ limiter'.dropped = IF l.inWindow >= PerWindow THEN l.dropped + 1 ELSE l.dropped
  BY <1>1, ChildAssumption DEF Limiters
<1>6. /\ count' \in Counts
      /\ count'.written = count.written /\ count'.taken = count.taken
      /\ count'.logged = IF l.inWindow >= PerWindow THEN count.logged ELSE count.logged + 1
      /\ count'.reported = count.reported + l.flushed
      /\ count'.overlong = count.overlong
  <2>1. count \in Counts /\ l.flushed \in Nat
    BY <1>1, ChildNumbers
  <2>2. PICK m \in Nat, n \in Nat :
          /\ m = IF l.inWindow >= PerWindow THEN count.logged ELSE count.logged + 1
          /\ n = count.reported + l.flushed
    BY <2>1 DEF Counts
  <2>3. count' = [count EXCEPT !.logged = m, !.reported = n]
    BY <1>1, <2>2
  <2> QED
    BY <2>1, <2>2, <2>3 DEF Counts
<1>7. count'.taken = count'.logged + count'.reported + limiter'.dropped + Held'
  <2>1. PICK a \in Nat, b \in Nat : a = l.dropped /\ b = l.flushed /\ a + b = limiter.dropped
    BY <1>1
  <2>2. /\ count'.taken = count.taken /\ count'.reported = count.reported + b
        /\ \/ count'.logged = count.logged /\ limiter'.dropped = a + 1
           \/ count'.logged = count.logged + 1 /\ limiter'.dropped = a
    BY <1>5, <1>6, <2>1
  <2> QED
    BY <1>3, <2>1, <2>2, CountNumbers
<1>8. InPipes' = InPipes
  BY <1>2 DEF InPipes
<1> QED
  BY <1>2, <1>3, <1>4, <1>5, <1>6, <1>7, <1>8 DEF ChildInv

\* The rest of the steps.
LEMMA ChildRests ==
  ASSUME ChildInv,
         \/ \E line \in Lines : WriteLine(line)
         \/ ChildExits \/ WaitReturns \/ CloseLogger \/ ClockTicks
         \/ \E s \in Streams : PumpEnds(s)
         \/ UNCHANGED childVars
  PROVE  ChildInv'
<1>1. ASSUME NEW line \in Lines, WriteLine(line) PROVE ChildInv'
  BY <1>1 DEF WriteLine, ChildInv, Held, InPipes
<1>2. CASE ChildExits
  BY <1>2 DEF ChildExits, ChildInv, Held, InPipes
<1>3. CASE WaitReturns
  BY <1>3 DEF WaitReturns, ChildInv, Held, InPipes
<1>4. CASE CloseLogger
  <2>1. /\ \A s \in Streams : pump[s] = "ended"
        /\ limiter' = [limiter EXCEPT !.dropped = 0, !.closed = TRUE]
        /\ count' = [count EXCEPT !.reported = count.reported + limiter.dropped]
        /\ UNCHANGED <<alive, want, pipe, pump, waited, clock>>
    BY <1>4 DEF CloseLogger
  <2>2. /\ limiter' \in Limiters
        /\ limiter'.dropped = 0
    <3>1. limiter \in Limiters
      BY ChildNumbers
    <3> QED
      BY <2>1, <3>1 DEF Limiters
  <2>3. /\ count' \in Counts
        /\ count'.written = count.written /\ count'.taken = count.taken
        /\ count'.logged = count.logged /\ count'.reported = count.reported + limiter.dropped
        /\ count'.overlong = count.overlong
    <3>1. count \in Counts
      BY ChildNumbers
    <3>2. PICK n \in Nat : n = count.reported + limiter.dropped
      BY CountNumbers
    <3>3. count' = [count EXCEPT !.reported = n]
      BY <2>1, <3>2
    <3> QED
      BY <3>1, <3>2, <3>3 DEF Counts
  <2>4. Held' = 0 /\ Held = 0
    BY <2>1 DEF Held, Streams
  <2>5. count'.taken = count'.logged + count'.reported + limiter'.dropped + Held'
    BY <2>2, <2>3, <2>4, CountNumbers
  <2> QED
    BY <2>1, <2>2, <2>3, <2>5 DEF ChildInv, InPipes
<1>5. CASE ClockTicks
  <2>1. clock' \in Nat /\ UNCHANGED <<alive, want, pipe, pump, waited, limiter, count>>
    BY <1>5 DEF ClockTicks, ChildInv
  <2> QED
    BY <2>1 DEF ChildInv, Held, InPipes
<1>6. ASSUME NEW s \in Streams, PumpEnds(s) PROVE ChildInv'
  <2>1. /\ pump[s] = "reading" /\ pump' = [pump EXCEPT ![s] = "ended"]
        /\ UNCHANGED <<alive, want, pipe, waited, limiter, clock, count>>
    BY <1>6 DEF PumpEnds, Reads
  <2>2. pump' \in Pumps /\ Held' = Held
    BY <2>1, ChildNumbers DEF Held, Pumps, Streams
  <2>3. ~limiter.closed
    BY <2>1 DEF ChildInv
  <2> QED
    BY <2>1, <2>2, <2>3 DEF ChildInv, InPipes
<1>7. CASE UNCHANGED childVars
  BY <1>7 DEF childVars, ChildInv, Held, InPipes
<1> QED
  BY <1>1, <1>2, <1>3, <1>4, <1>5, <1>6, <1>7

\* Of the lines the pumps take none is forgotten: each is written, dropped and
\* reported, or still to come, whichever stream it came by and wherever the
\* windows fall ("the excess is counted, not written", server_manager.go).
THEOREM EveryLineAccounted == ChildSpec => []EveryLineCounted
  <1>1. ChildInv /\ [ChildNext]_childVars => ChildInv'
    BY ChildWrites, ChildTakes, ChildLogs, ChildRests DEF ChildNext, ChildOver
  <1>2. ChildInv => EveryLineCounted
    <2> SUFFICES ASSUME ChildInv PROVE EveryLineCounted
      OBVIOUS
    <2>1. Cardinality(Holding) = Held
      BY HeldCounts DEF ChildInv
    <2>2. limiter.closed => Held = 0
      BY DEF ChildInv, Held, Streams
    <2> QED
      <3>1. limiter.closed => limiter.dropped = 0
        BY DEF ChildInv
      <3>2. Len(pipe["stdout"]) \in Nat /\ Len(pipe["stderr"]) \in Nat
        BY ChildNumbers DEF Streams
      <3>3. PICK a \in Nat, b \in Nat : a = Len(pipe["stdout"]) /\ b = Len(pipe["stderr"])
        BY <3>2
      <3>4. InPipes = a + b
        BY <3>3 DEF InPipes
      <3>5. limiter.closed => count.taken = count.logged + count.reported
        BY <2>2, <3>1, CountNumbers
      <3>6. ~waited /\ count.overlong = {} => count.written = count.taken + a + b
        BY <3>4, CountNumbers
      <3> QED
        BY <2>1, <3>3, <3>5, <3>6, CountNumbers DEF EveryLineCounted
  <1> QED
    BY <1>1, <1>2, InitChild, PTL DEF ChildSpec

-----------------------------------------------------------------------------
(* ProxyMetrics.                                                          *)

InFlight == {"open", "noting", "header", "body", "writing"}
Steps == {"new", "counted", "over"} \cup InFlight
ConnRecord == [at : Steps, id : Int, started : Int, stamp : Int, header : Int, lastWrite : Int]
PollRecord == [at : {"idle", "pick", "header", "row"}, now : Int, todo : SUBSET Requests,
               conn : Requests \cup {None}, noted : BOOLEAN, header : Int, state : States]

Over == {finished[i] : i \in DOMAIN finished}

\* A request is in flight, or finished, by where its goroutine is.
Placed ==
    /\ active = {r \in Requests : conn[r].at \in InFlight}
    /\ Over = {r \in Requests : conn[r].at = "over"}
    /\ IsFiniteSet(Over) /\ Cardinality(Over) = Len(finished)

\* The slot of the i-th newest.
Slot(next, i) == IF i <= next THEN next - i + 1 ELSE next - i + Cap + 1

\* The ring holds the last requests to finish, the newest before recentNext.
RingKept ==
    /\ finished \in Seq(Requests) /\ recent \in Seq(Requests)
    /\ recentNext \in 0..(Cap - 1)
    /\ Len(recent) <= Cap /\ Len(recent) <= Len(finished)
    /\ Len(recent) < Cap => recentNext = Len(recent) /\ Len(finished) = Len(recent)
    /\ \A i \in 1..Len(recent) : recent[Slot(recentNext, i)] = finished[Len(finished) - i + 1]

Unwritten == {"new", "counted", "open", "noting", "header"}

\* What a poll has read of a connection is no newer than the connection.
ReadInTime ==
    /\ now \in Nat /\ conn \in [Requests -> ConnRecord] /\ poll \in PollRecord
    /\ \A r \in Requests :
           /\ conn[r].lastWrite <= now /\ conn[r].header <= now /\ conn[r].stamp <= now
           /\ conn[r].at \in Unwritten => conn[r].lastWrite = Zero
           /\ conn[r].at = "noting" => conn[r].stamp >= 0
           /\ conn[r].at = "header" => conn[r].header >= 0
           /\ conn[r].at = "writing" => conn[r].lastWrite <= conn[r].stamp
    /\ poll.now \in Nat /\ poll.now <= now
    /\ poll.at \in {"header", "row"} => poll.conn \in Requests
    /\ poll.at = "row" /\ poll.conn \notin Upgraded /\ poll.header # Zero /\ poll.state # "stalled"
           => poll.now - conn[poll.conn].lastWrite < StallAfter

\* A connection a poll came to with no note in the making has noted its first
\* byte, or is over, and what it has noted since is as late as the poll.
Heeded(c, time) ==
    /\ c.at \in {"body", "writing", "over"}
    /\ c.at = "writing" => c.stamp >= time

Silent(c, time) == c.lastWrite <= time - StallAfter \/ c.lastWrite >= time

HeedsWrites ==
    /\ poll.at \in {"header", "row"} /\ poll.noted => Heeded(conn[poll.conn], poll.now)
    /\ poll.at = "row" /\ poll.noted /\ poll.conn \notin Upgraded /\ poll.header # Zero /\ poll.state = "stalled"
           => Silent(conn[poll.conn], poll.now)

MetricsInv == Placed /\ RingKept /\ ReadInTime /\ HeedsWrites
-----------------------------------------------------------------------------

\* What is assumed of the thresholds.
LEMMA Thresholds ==
    /\ Cap \in Nat \ {0} /\ StallAfter \in Nat \ {0} /\ QuietAfter \in Nat \ {0}
    /\ HeaderStall \in Nat \ {0} /\ Zero \in Int /\ Zero < 0
    /\ QuietAfter < StallAfter /\ None \notin Requests
  <1> QED
    BY MetricsAssumption DEF Zero

\* A slot number wraps at most once.
LEMMA Wraps ==
    ASSUME NEW x \in 0..(2 * Cap - 1)
    PROVE  x % Cap = IF x < Cap THEN x ELSE x - Cap
  <1> USE Thresholds
  <1>1. PICK q, m \in Int : m = x % Cap /\ q = x \div Cap
    OBVIOUS
  <1>2. 0 <= m /\ m < Cap /\ x = Cap * q + m
    BY <1>1
  <1>3. CASE q <= -1
    <2>1. Cap * q <= -Cap
      BY <1>3
    <2> QED
      BY <1>2, <2>1
  <1>4. CASE q >= 2
    <2>1. Cap * q >= 2 * Cap
      BY <1>4
    <2> QED
      BY <1>2, <2>1
  <1>5. CASE q = 0
    BY <1>1, <1>2, <1>5
  <1>6. CASE q = 1
    BY <1>1, <1>2, <1>6
  <1> QED
    BY <1>3, <1>4, <1>5, <1>6

\* Nothing is in flight, finished or polled before the first request.
LEMMA InitMetrics == Init => MetricsInv
  <1> SUFFICES ASSUME Init PROVE MetricsInv
    OBVIOUS
  <1> USE Thresholds
  <1>1. \A r \in Requests : conn[r].at = "new" /\ conn[r].header = Zero /\ conn[r].lastWrite = Zero
                             /\ conn[r].stamp = Zero
    BY DEF Init, NoConn
  <1>2. Over = {}
    BY DEF Init, Over
  <1>3. Placed
    BY <1>1, <1>2, FS_EmptySet DEF Placed, Init, InFlight
  <1>4. RingKept
    BY DEF RingKept, Init
  <1>5. NoConn \in ConnRecord
    BY DEF NoConn, ConnRecord, Steps, InFlight
  <1>6. NoPoll \in PollRecord /\ NoPoll.at = "idle" /\ NoPoll.now = 0
    BY DEF NoPoll, PollRecord, States
  <1>7. ReadInTime
    BY <1>1, <1>5, <1>6 DEF ReadInTime, Init
  <1>8. HeedsWrites
    BY <1>6 DEF HeedsWrites, Init
  <1> QED
    BY <1>3, <1>4, <1>7, <1>8 DEF MetricsInv

-----------------------------------------------------------------------------

\* The ring stays as it is.
LEMMA RingFrame == ASSUME RingKept, UNCHANGED <<recent, recentNext, finished>> PROVE RingKept'
  <1> QED
    BY DEF RingKept, Slot

\* The next slot follows, and wraps.
LEMMA NextSlot ==
    ASSUME recentNext \in 0..(Cap - 1)
    PROVE  (recentNext + 1) % Cap = IF recentNext + 1 < Cap THEN recentNext + 1 ELSE 0
  <1> QED
    BY Thresholds, Wraps

\* A finished request takes the slot of the oldest, and the others age by one.
LEMMA RingRecord == ASSUME RingKept, NEW r \in Requests, Record(r) PROVE RingKept'
  <1> USE Thresholds
  <1>1. /\ finished \in Seq(Requests) /\ recent \in Seq(Requests) /\ recentNext \in 0..(Cap - 1)
        /\ Len(recent) <= Cap /\ Len(recent) <= Len(finished)
        /\ (Len(recent) < Cap => recentNext = Len(recent) /\ Len(finished) = Len(recent))
    BY DEF RingKept
  <1>2. PICK n \in Nat, k \in Nat, next \in 0..(Cap - 1) :
            n = Len(finished) /\ k = Len(recent) /\ next = recentNext
    BY <1>1
  <1>3. finished' = Append(finished, r) /\ finished' \in Seq(Requests) /\ Len(finished') = n + 1
    BY <1>1, <1>2 DEF Record
  <1>4. recentNext' = IF next + 1 < Cap THEN next + 1 ELSE 0
    BY <1>1, <1>2, NextSlot DEF Record
  <1>5. \A j \in 1..n : finished'[j] = finished[j]
    BY <1>1, <1>2, <1>3
  <1>6. finished'[n + 1] = r
    BY <1>1, <1>2, <1>3
  <1>7. \A i \in 1..k : recent[Slot(next, i)] = finished[n - i + 1]
    BY <1>2 DEF RingKept
  <1>8. CASE k < Cap
    <2>1. recent' = Append(recent, r) /\ recent' \in Seq(Requests) /\ Len(recent') = k + 1
          /\ next = k /\ n = k
      BY <1>1, <1>2, <1>8 DEF Record, Recorded
    <2>2. (\A j \in 1..k : recent'[j] = recent[j]) /\ recent'[k + 1] = r
      BY <1>1, <1>2, <2>1
    <2>3. ASSUME NEW i \in 1..(k + 1)
          PROVE  recent'[Slot(recentNext', i)] = finished'[n + 1 - i + 1]
      <3>1. CASE i = 1
        <4>1. Slot(recentNext', i) = k + 1
          BY <1>4, <1>8, <2>1, <3>1 DEF Slot
        <4> QED
          BY <1>2, <1>6, <2>2, <3>1, <4>1
      <3>2. CASE i # 1
        <4>1. i - 1 \in 1..k
          BY <1>2, <3>2
        <4>2. Slot(recentNext', i) = Slot(next, i - 1) /\ Slot(next, i - 1) \in 1..k
          BY <1>2, <1>4, <1>8, <2>1, <3>2 DEF Slot
        <4>3. recent'[Slot(recentNext', i)] = finished[n - (i - 1) + 1]
          BY <1>7, <2>2, <4>1, <4>2
        <4>4. n - (i - 1) + 1 = n + 1 - i + 1 /\ n - (i - 1) + 1 \in 1..n
          BY <1>2, <2>1, <4>1
        <4> QED
          BY <1>5, <4>3, <4>4
      <3> QED
        BY <3>1, <3>2
    <2>4. Len(recent') <= Cap /\ Len(recent') <= Len(finished')
          /\ (Len(recent') < Cap => recentNext' = Len(recent') /\ Len(finished') = Len(recent'))
          /\ recentNext' \in 0..(Cap - 1)
      BY <1>2, <1>3, <1>4, <1>8, <2>1
    <2>5. \A i \in 1..Len(recent') : recent'[Slot(recentNext', i)] = finished'[Len(finished') - i + 1]
      <3>1. Len(finished') = n + 1 /\ Len(recent') = k + 1
        BY ONLY <1>3, <2>1
      <3>2. ASSUME NEW i \in 1..Len(recent')
            PROVE  recent'[Slot(recentNext', i)] = finished'[Len(finished') - i + 1]
        <4>1. i \in 1..(k + 1) /\ Len(finished') - i + 1 = n + 1 - i + 1
          BY ONLY <3>1, <3>2
        <4>2. recent'[Slot(recentNext', i)] = finished'[n + 1 - i + 1]
          BY ONLY <4>1, <2>3
        <4> QED
          BY ONLY <4>1, <4>2
      <3> QED
        BY <3>2
    <2> QED
      BY <1>3, <2>1, <2>4, <2>5 DEF RingKept, Slot
  <1>9. CASE k = Cap
    <2>1. recent' = [recent EXCEPT ![next + 1] = r] /\ next + 1 \in 1..k
      BY <1>1, <1>2, <1>9 DEF Record, Recorded
    <2>2. recent' \in Seq(Requests) /\ Len(recent') = k
      BY <1>1, <1>2, <2>1
    <2>3. recent'[next + 1] = r /\ \A j \in 1..k : j # next + 1 => recent'[j] = recent[j]
      BY <1>1, <1>2, <2>1
    <2>4. ASSUME NEW i \in 1..k
          PROVE  recent'[Slot(recentNext', i)] = finished'[n + 1 - i + 1]
      <3>1. CASE i = 1
        <4>1. Slot(recentNext', i) = next + 1
          BY <1>2, <1>4, <1>9, <3>1 DEF Slot
        <4> QED
          BY <1>2, <1>6, <2>3, <3>1, <4>1
      <3>2. CASE i # 1
        <4>1. i - 1 \in 1..k
          BY <1>2, <3>2
        <4>2. Slot(recentNext', i) = Slot(next, i - 1) /\ Slot(next, i - 1) \in 1..k
              /\ Slot(next, i - 1) # next + 1
          BY <1>2, <1>4, <1>9, <3>2 DEF Slot
        <4>3. recent'[Slot(recentNext', i)] = finished[n - (i - 1) + 1]
          BY <1>7, <2>3, <4>1, <4>2
        <4>4. n - (i - 1) + 1 = n + 1 - i + 1 /\ n - (i - 1) + 1 \in 1..n
          BY <1>1, <1>2, <4>1
        <4> QED
          BY <1>5, <4>3, <4>4
      <3> QED
        BY <3>1, <3>2
    <2>5. Len(recent') <= Cap /\ Len(recent') <= Len(finished') /\ ~(Len(recent') < Cap)
          /\ recentNext' \in 0..(Cap - 1)
      BY <1>1, <1>2, <1>3, <1>4, <1>9, <2>2
    <2>6. \A i \in 1..Len(recent') : recent'[Slot(recentNext', i)] = finished'[Len(finished') - i + 1]
      <3>1. Len(finished') = n + 1 /\ Len(recent') = k
        BY ONLY <1>3, <2>2
      <3>2. ASSUME NEW i \in 1..Len(recent')
            PROVE  recent'[Slot(recentNext', i)] = finished'[Len(finished') - i + 1]
        <4>1. i \in 1..(k) /\ Len(finished') - i + 1 = n + 1 - i + 1
          BY ONLY <3>1, <3>2
        <4>2. recent'[Slot(recentNext', i)] = finished'[n + 1 - i + 1]
          BY ONLY <4>1, <2>4
        <4> QED
          BY ONLY <4>1, <4>2
      <3> QED
        BY <3>2
    <2> QED
      BY <1>3, <2>2, <2>5, <2>6 DEF RingKept, Slot
  <1> QED
    BY <1>1, <1>2, <1>8, <1>9

\* Every step keeps the ring.
LEMMA RingStep == RingKept /\ [Next]_vars => RingKept'
  <1> SUFFICES ASSUME RingKept, [Next]_vars PROVE RingKept'
    OBVIOUS
  <1>1. ASSUME NEW r \in Requests, End(r) PROVE RingKept'
    BY <1>1, RingRecord DEF End
  <1>2. ASSUME NEW r \in Requests,
               \/ Begin(r) \/ Publish(r) \/ NoteHeader(r) \/ SeedLastWrite(r) \/ NoteWrite(r) \/ LoadHeader(r)
               \/ ReadClock(r, "open", "noting") \/ ReadClock(r, "body", "writing")
        PROVE  RingKept'
    BY <1>2, RingFrame DEF Begin, Publish, ReadClock, NoteHeader, SeedLastWrite, NoteWrite, LoadHeader, Ring, Polls
  <1>3. CASE Tick \/ Copy \/ LoadLastWrite \/ Done
    BY <1>3, RingFrame DEF Tick, Copy, LoadLastWrite, Done, Polls
  <1>4. CASE UNCHANGED vars
    BY <1>4, RingFrame DEF vars
  <1> QED
    BY <1>1, <1>2, <1>3, <1>4 DEF Next

\* What the poll lists is the ring read backwards from recentNext.
LEMMA RingListed == RingKept => NewestFirst
  <1> SUFFICES ASSUME RingKept PROVE NewestFirst
    OBVIOUS
  <1> USE Thresholds
  <1>1. /\ finished \in Seq(Requests) /\ recent \in Seq(Requests) /\ recentNext \in 0..(Cap - 1)
        /\ Len(recent) <= Cap /\ Len(recent) <= Len(finished)
        /\ (Len(recent) < Cap => recentNext = Len(recent) /\ Len(finished) = Len(recent))
    BY DEF RingKept
  <1>2. PICK n \in Nat, k \in Nat, next \in 0..(Cap - 1) :
            n = Len(finished) /\ k = Len(recent) /\ next = recentNext
    BY <1>1
  <1>3. k = IF n < Cap THEN n ELSE Cap
    BY <1>1, <1>2
  <1>4. k <= n /\ k <= Cap
    BY <1>1, <1>2
  <1>5. ASSUME NEW i \in 1..k PROVE recent[((next - i + Cap) % Cap) + 1] = finished[n - i + 1]
    <2>1. next - i + Cap \in 0..(2 * Cap - 1)
      BY <1>2, <1>4
    <2>2. (next - i + Cap) % Cap = IF next - i + Cap < Cap THEN next - i + Cap ELSE next - i
      <3>1. PICK x \in 0..(2 * Cap - 1) : x = next - i + Cap
        BY <2>1
      <3>2. x % Cap = IF x < Cap THEN x ELSE x - Cap
        BY Wraps
      <3>3. x - Cap = next - i
        BY <1>2, <3>1
      <3> QED
        BY <3>1, <3>2, <3>3
    <2>3. ((next - i + Cap) % Cap) + 1 = Slot(next, i)
      BY <1>2, <2>2 DEF Slot
    <2> QED
      BY <1>2, <2>3 DEF RingKept
  <1>6. RecentOut = [i \in 1..k |-> finished[n - i + 1]]
    BY <1>2, <1>5 DEF RecentOut
  <1>7. PICK s : s = SubSeq(finished, n - k + 1, n)
    OBVIOUS
  <1>8. s \in Seq(Requests) /\ Len(s) = k /\ \A j \in 1..k : s[j] = finished[n - k + j]
    BY <1>1, <1>2, <1>4, <1>7
  <1>9. Reverse(s) = [i \in 1..k |-> s[k - i + 1]]
    BY <1>8 DEF Reverse
  <1>10. ASSUME NEW i \in 1..k PROVE s[k - i + 1] = finished[n - i + 1]
    <2>1. k - i + 1 \in 1..k /\ n - k + (k - i + 1) = n - i + 1
      BY <1>2
    <2> QED
      BY <1>8, <2>1
  <1>11. RecentOut = Reverse(s)
    BY <1>6, <1>9, <1>10
  <1> QED
    BY <1>2, <1>3, <1>7, <1>11 DEF NewestFirst

-----------------------------------------------------------------------------

\* Of one connection, the step's: the others stay.
LEMMA OneAtomic ==
    ASSUME conn \in [Requests -> ConnRecord], NEW r \in Requests, NEW c \in ConnRecord, Atomics(r, c)
    PROVE  /\ conn' \in [Requests -> ConnRecord] /\ conn'[r] = c
           /\ \A q \in Requests : q # r => conn'[q] = conn[q]
  <1> QED
    BY DEF Atomics

\* A request begins.
LEMMA Begun ==
    ASSUME conn \in [Requests -> ConnRecord], now \in Nat, nextID \in Int, NEW r \in Requests, Begin(r)
    PROVE  \E c \in ConnRecord :
               /\ Atomics(r, c) /\ c.at = "counted" /\ conn[r].at = "new"
               /\ c.header = conn[r].header /\ c.lastWrite = conn[r].lastWrite /\ c.stamp = conn[r].stamp
  <1>1. PICK g \in ConnRecord, i \in Int, t \in Int, h \in Int, k \in Int :
            g = conn[r] /\ i = nextID + 1 /\ t = now /\ h = conn[r].header /\ k = conn[r].stamp
    BY DEF ConnRecord
  <1>2. PICK c : c = [g EXCEPT !.at = "counted", !.id = i, !.started = t]
    OBVIOUS
  <1>3. c \in ConnRecord
    BY <1>2, Thresholds DEF ConnRecord, Steps, InFlight
  <1>4. /\ c.at = "counted" /\ g.at = "new"
        /\ c.header = g.header /\ c.lastWrite = g.lastWrite /\ c.stamp = g.stamp
    BY <1>1, <1>2 DEF Begin, ConnRecord
  <1>5. Atomics(r, c)
    BY <1>1, <1>2 DEF Begin
  <1> QED
    BY <1>1, <1>3, <1>4, <1>5

\* It is published.
LEMMA Published ==
    ASSUME conn \in [Requests -> ConnRecord], now \in Nat, nextID \in Int, NEW r \in Requests, Publish(r)
    PROVE  \E c \in ConnRecord :
               /\ Atomics(r, c) /\ c.at = "open" /\ conn[r].at = "counted"
               /\ c.header = conn[r].header /\ c.lastWrite = conn[r].lastWrite /\ c.stamp = conn[r].stamp
  <1>1. PICK g \in ConnRecord, i \in Int, t \in Int, h \in Int, k \in Int :
            g = conn[r] /\ i = nextID + 1 /\ t = now /\ h = conn[r].header /\ k = conn[r].stamp
    BY DEF ConnRecord
  <1>2. PICK c : c = [g EXCEPT !.at = "open"]
    OBVIOUS
  <1>3. c \in ConnRecord
    BY <1>2, Thresholds DEF ConnRecord, Steps, InFlight
  <1>4. /\ c.at = "open" /\ g.at = "counted"
        /\ c.header = g.header /\ c.lastWrite = g.lastWrite /\ c.stamp = g.stamp
    BY <1>1, <1>2 DEF Publish, ConnRecord
  <1>5. Atomics(r, c)
    BY <1>1, <1>2 DEF Publish
  <1> QED
    BY <1>1, <1>3, <1>4, <1>5

\* The clock is read for its header.
LEMMA HeaderTimed ==
    ASSUME conn \in [Requests -> ConnRecord], now \in Nat, nextID \in Int, NEW r \in Requests, ReadClock(r, "open", "noting")
    PROVE  \E c \in ConnRecord :
               /\ Atomics(r, c) /\ c.at = "noting" /\ conn[r].at = "open"
               /\ c.header = conn[r].header /\ c.lastWrite = conn[r].lastWrite /\ c.stamp = now
  <1>1. PICK g \in ConnRecord, i \in Int, t \in Int, h \in Int, k \in Int :
            g = conn[r] /\ i = nextID + 1 /\ t = now /\ h = conn[r].header /\ k = conn[r].stamp
    BY DEF ConnRecord
  <1>2. PICK c : c = [g EXCEPT !.at = "noting", !.stamp = t]
    OBVIOUS
  <1>3. c \in ConnRecord
    BY <1>2, Thresholds DEF ConnRecord, Steps, InFlight
  <1>4. /\ c.at = "noting" /\ g.at = "open"
        /\ c.header = g.header /\ c.lastWrite = g.lastWrite /\ c.stamp = t
    BY <1>1, <1>2 DEF ReadClock, ConnRecord
  <1>5. Atomics(r, c)
    BY <1>1, <1>2 DEF ReadClock
  <1> QED
    BY <1>1, <1>3, <1>4, <1>5

\* Its header is noted.
LEMMA Noted ==
    ASSUME conn \in [Requests -> ConnRecord], now \in Nat, nextID \in Int, NEW r \in Requests, NoteHeader(r)
    PROVE  \E c \in ConnRecord :
               /\ Atomics(r, c) /\ c.at = "header" /\ conn[r].at = "noting"
               /\ c.header = conn[r].stamp /\ c.lastWrite = conn[r].lastWrite /\ c.stamp = Zero
  <1>1. PICK g \in ConnRecord, i \in Int, t \in Int, h \in Int, k \in Int :
            g = conn[r] /\ i = nextID + 1 /\ t = now /\ h = conn[r].header /\ k = conn[r].stamp
    BY DEF ConnRecord
  <1>2. PICK c : c = [g EXCEPT !.at = "header", !.header = k, !.stamp = Zero]
    OBVIOUS
  <1>3. c \in ConnRecord
    BY <1>2, Thresholds DEF ConnRecord, Steps, InFlight
  <1>4. /\ c.at = "header" /\ g.at = "noting"
        /\ c.header = k /\ c.lastWrite = g.lastWrite /\ c.stamp = Zero
    BY <1>1, <1>2 DEF NoteHeader, ConnRecord
  <1>5. Atomics(r, c)
    BY <1>1, <1>2 DEF NoteHeader
  <1> QED
    BY <1>1, <1>3, <1>4, <1>5

\* Its last write is seeded.
LEMMA Seeded ==
    ASSUME conn \in [Requests -> ConnRecord], now \in Nat, nextID \in Int, NEW r \in Requests, SeedLastWrite(r)
    PROVE  \E c \in ConnRecord :
               /\ Atomics(r, c) /\ c.at = "body" /\ conn[r].at = "header"
               /\ c.header = conn[r].header /\ c.lastWrite = conn[r].header /\ c.stamp = conn[r].stamp
  <1>1. PICK g \in ConnRecord, i \in Int, t \in Int, h \in Int, k \in Int :
            g = conn[r] /\ i = nextID + 1 /\ t = now /\ h = conn[r].header /\ k = conn[r].stamp
    BY DEF ConnRecord
  <1>2. PICK c : c = [g EXCEPT !.at = "body", !.lastWrite = h]
    OBVIOUS
  <1>3. c \in ConnRecord
    BY <1>2, Thresholds DEF ConnRecord, Steps, InFlight
  <1>4. /\ c.at = "body" /\ g.at = "header"
        /\ c.header = g.header /\ c.lastWrite = g.header /\ c.stamp = g.stamp
    BY <1>1, <1>2 DEF SeedLastWrite, ConnRecord
  <1>5. Atomics(r, c)
    BY <1>1, <1>2 DEF SeedLastWrite
  <1> QED
    BY <1>1, <1>3, <1>4, <1>5

\* The clock is read for a write.
LEMMA WriteTimed ==
    ASSUME conn \in [Requests -> ConnRecord], now \in Nat, nextID \in Int, NEW r \in Requests, ReadClock(r, "body", "writing")
    PROVE  \E c \in ConnRecord :
               /\ Atomics(r, c) /\ c.at = "writing" /\ conn[r].at = "body"
               /\ c.header = conn[r].header /\ c.lastWrite = conn[r].lastWrite /\ c.stamp = now
  <1>1. PICK g \in ConnRecord, i \in Int, t \in Int, h \in Int, k \in Int :
            g = conn[r] /\ i = nextID + 1 /\ t = now /\ h = conn[r].header /\ k = conn[r].stamp
    BY DEF ConnRecord
  <1>2. PICK c : c = [g EXCEPT !.at = "writing", !.stamp = t]
    OBVIOUS
  <1>3. c \in ConnRecord
    BY <1>2, Thresholds DEF ConnRecord, Steps, InFlight
  <1>4. /\ c.at = "writing" /\ g.at = "body"
        /\ c.header = g.header /\ c.lastWrite = g.lastWrite /\ c.stamp = t
    BY <1>1, <1>2 DEF ReadClock, ConnRecord
  <1>5. Atomics(r, c)
    BY <1>1, <1>2 DEF ReadClock
  <1> QED
    BY <1>1, <1>3, <1>4, <1>5

\* A write is noted.
LEMMA WriteNoted ==
    ASSUME conn \in [Requests -> ConnRecord], now \in Nat, nextID \in Int, NEW r \in Requests, NoteWrite(r)
    PROVE  \E c \in ConnRecord :
               /\ Atomics(r, c) /\ c.at = "body" /\ conn[r].at = "writing"
               /\ c.header = conn[r].header /\ c.lastWrite = conn[r].stamp /\ c.stamp = Zero
  <1>1. PICK g \in ConnRecord, i \in Int, t \in Int, h \in Int, k \in Int :
            g = conn[r] /\ i = nextID + 1 /\ t = now /\ h = conn[r].header /\ k = conn[r].stamp
    BY DEF ConnRecord
  <1>2. PICK c : c = [g EXCEPT !.at = "body", !.lastWrite = k, !.stamp = Zero]
    OBVIOUS
  <1>3. c \in ConnRecord
    BY <1>2, Thresholds DEF ConnRecord, Steps, InFlight
  <1>4. /\ c.at = "body" /\ g.at = "writing"
        /\ c.header = g.header /\ c.lastWrite = k /\ c.stamp = Zero
    BY <1>1, <1>2 DEF NoteWrite, ConnRecord
  <1>5. Atomics(r, c)
    BY <1>1, <1>2 DEF NoteWrite
  <1> QED
    BY <1>1, <1>3, <1>4, <1>5

\* It ends.
LEMMA ConnEnded ==
    ASSUME conn \in [Requests -> ConnRecord], now \in Nat, nextID \in Int, NEW r \in Requests, End(r)
    PROVE  \E c \in ConnRecord :
               /\ Atomics(r, c) /\ c.at = "over" /\ conn[r].at \in {"open", "body"}
               /\ c.header = conn[r].header /\ c.lastWrite = conn[r].lastWrite /\ c.stamp = conn[r].stamp
  <1>1. PICK g \in ConnRecord, i \in Int, t \in Int, h \in Int, k \in Int :
            g = conn[r] /\ i = nextID + 1 /\ t = now /\ h = conn[r].header /\ k = conn[r].stamp
    BY DEF ConnRecord
  <1>2. PICK c : c = [g EXCEPT !.at = "over"]
    OBVIOUS
  <1>3. c \in ConnRecord
    BY <1>2, Thresholds DEF ConnRecord, Steps, InFlight
  <1>4. /\ c.at = "over" /\ g.at \in {"open", "body"}
        /\ c.header = g.header /\ c.lastWrite = g.lastWrite /\ c.stamp = g.stamp
    BY <1>1, <1>2 DEF End, ConnRecord
  <1>5. Atomics(r, c)
    BY <1>1, <1>2 DEF End
  <1> QED
    BY <1>1, <1>3, <1>4, <1>5

\* A finished request is one more in the list.
LEMMA OverGrows ==
    ASSUME finished \in Seq(Requests), NEW r \in Requests, Record(r)
    PROVE  Over' = Over \cup {r}
  <1>1. finished' = Append(finished, r)
    BY DEF Record
  <1>2. PICK n \in Nat : n = Len(finished)
    OBVIOUS
  <1>3. DOMAIN finished = 1..n /\ DOMAIN finished' = 1..(n + 1)
    BY <1>1, <1>2
  <1>4. finished'[n + 1] = r /\ \A j \in 1..n : finished'[j] = finished[j]
    BY <1>1, <1>2
  <1>5. Over' = {finished'[j] : j \in 1..(n + 1)} /\ Over = {finished[j] : j \in 1..n}
    BY <1>3 DEF Over
  <1>6. 1..(n + 1) = 1..n \cup {n + 1}
    OBVIOUS
  <1> QED
    BY <1>4, <1>5, <1>6

\* Every step leaves a request where its goroutine is.
LEMMA PlacedStep ==
    ASSUME Placed, RingKept, conn \in [Requests -> ConnRecord], now \in Nat, nextID \in Int, [Next]_vars
    PROVE  Placed'
  <1>1. /\ active = {r \in Requests : conn[r].at \in InFlight}
        /\ Over = {r \in Requests : conn[r].at = "over"}
        /\ IsFiniteSet(Over) /\ Cardinality(Over) = Len(finished)
    BY DEF Placed
  <1>2. ASSUME UNCHANGED <<active, conn, finished>> PROVE Placed'
    BY <1>1, <1>2 DEF Placed, Over
  <1>3. ASSUME UNCHANGED <<active, finished>>, NEW r \in Requests, NEW c \in ConnRecord, Atomics(r, c),
               \/ conn[r].at \in {"new", "counted"} /\ c.at \in {"new", "counted"}
               \/ conn[r].at \in InFlight /\ c.at \in InFlight
        PROVE  Placed'
    <2>1. conn'[r] = c /\ \A q \in Requests : q # r => conn'[q] = conn[q]
      BY <1>3, OneAtomic
    <2>2. Over' = Over /\ active' = active /\ Len(finished') = Len(finished)
      BY <1>3 DEF Over
    <2>3. \A q \in Requests : /\ conn'[q].at = "over" <=> conn[q].at = "over"
                              /\ conn'[q].at \in InFlight <=> conn[q].at \in InFlight
      BY <1>1, <1>3, <2>1 DEF InFlight
    <2> QED
      BY <1>1, <2>2, <2>3 DEF Placed
  <1>4. ASSUME NEW r \in Requests, Begin(r) PROVE Placed'
    <2>1. PICK c \in ConnRecord : Atomics(r, c) /\ c.at = "counted" /\ conn[r].at = "new"
      BY <1>4, Begun
    <2> QED
      BY <1>3, <1>4, <2>1 DEF Begin
  <1>5. ASSUME NEW r \in Requests, Publish(r) PROVE Placed'
    <2>1. PICK c \in ConnRecord : Atomics(r, c) /\ c.at = "open" /\ conn[r].at = "counted"
      BY <1>5, Published
    <2>2. active' = active \cup {r} /\ finished' = finished
      BY <1>5 DEF Publish
    <2>3. conn'[r] = c /\ \A q \in Requests : q # r => conn'[q] = conn[q]
      BY <2>1, OneAtomic
    <2>4. Over' = Over
      BY <2>2 DEF Over
    <2> QED
      BY <1>1, <2>1, <2>2, <2>3, <2>4 DEF Placed, InFlight
  <1>6. ASSUME NEW r \in Requests,
               \/ NoteHeader(r) \/ SeedLastWrite(r) \/ NoteWrite(r)
               \/ ReadClock(r, "open", "noting") \/ ReadClock(r, "body", "writing")
        PROVE  Placed'
    <2>1. PICK c \in ConnRecord : Atomics(r, c) /\ c.at \in InFlight
      BY <1>6, HeaderTimed, Noted, Seeded, WriteTimed, WriteNoted DEF InFlight
    <2>2. conn[r].at \in InFlight /\ UNCHANGED <<active, finished>>
      BY <1>6 DEF ReadClock, NoteHeader, SeedLastWrite, NoteWrite, Ring, InFlight
    <2> QED
      BY <1>3, <2>1, <2>2
  <1>7. ASSUME NEW r \in Requests, End(r) PROVE Placed'
    <2>2. PICK c \in ConnRecord : Atomics(r, c) /\ c.at = "over" /\ conn[r].at \in {"open", "body"}
      BY <1>7, ConnEnded
    <2>3. active' = active \ {r} /\ finished' = Append(finished, r)
      BY <1>7 DEF End, Record
    <2>4. conn'[r] = c /\ \A q \in Requests : q # r => conn'[q] = conn[q]
      BY <2>2, OneAtomic
    <2>5. Over' = Over \cup {r}
      BY <1>7, OverGrows DEF RingKept, End
    <2>6. r \notin Over
      BY <1>1, <2>2
    <2>7. IsFiniteSet(Over') /\ Cardinality(Over') = Cardinality(Over) + 1
      BY <1>1, <2>5, <2>6, FS_AddElement
    <2>8. Len(finished') = Len(finished) + 1
      BY <2>3 DEF RingKept
    <2>9. Cardinality(Over') = Len(finished')
      BY <1>1, <2>7, <2>8
    <2>10. active' = {q \in Requests : conn'[q].at \in InFlight}
      BY <1>1, <2>2, <2>3, <2>4 DEF InFlight
    <2>11. Over' = {q \in Requests : conn'[q].at = "over"}
      BY <1>1, <2>2, <2>4, <2>5
    <2> QED
      BY <2>7, <2>9, <2>10, <2>11 DEF Placed
  <1>8. ASSUME NEW r \in Requests, LoadHeader(r) PROVE Placed'
    BY <1>2, <1>8 DEF LoadHeader, Polls
  <1>9. CASE Tick \/ Copy \/ LoadLastWrite \/ Done \/ UNCHANGED vars
    BY <1>2, <1>9 DEF Tick, Copy, LoadLastWrite, Done, Polls, vars
  <1> QED
    BY <1>4, <1>5, <1>6, <1>7, <1>8, <1>9 DEF Next

-----------------------------------------------------------------------------

\* One connection's times change, and what the poll has read is still no newer.
LEMMA TimesMove ==
    ASSUME ReadInTime, NEW r \in Requests, NEW c \in ConnRecord, Atomics(r, c),
           c.lastWrite <= now, c.header <= now, c.stamp <= now, conn[r].lastWrite <= c.lastWrite,
           c.at \in Unwritten => c.lastWrite = Zero,
           c.at = "noting" => c.stamp >= 0, c.at = "header" => c.header >= 0,
           c.at = "writing" => c.lastWrite <= c.stamp
    PROVE  ReadInTime'
  <1> USE Thresholds
  <1>1. conn \in [Requests -> ConnRecord]
    BY DEF ReadInTime
  <1>2. conn' \in [Requests -> ConnRecord] /\ conn'[r] = c /\ \A q \in Requests : q # r => conn'[q] = conn[q]
    BY <1>1, OneAtomic
  <1>3. UNCHANGED <<now, poll>>
    BY DEF Atomics
  <1>4. \A q \in Requests : conn[q].lastWrite \in Int /\ conn'[q].lastWrite \in Int
                            /\ conn[q].lastWrite <= conn'[q].lastWrite
    <2>1. ASSUME NEW q \in Requests
          PROVE  conn[q].lastWrite \in Int /\ conn'[q].lastWrite \in Int
                 /\ conn[q].lastWrite <= conn'[q].lastWrite
      <3>1. conn[q].lastWrite \in Int /\ conn'[q].lastWrite \in Int
        BY <1>1, <1>2 DEF ConnRecord
      <3> QED
        BY <1>2, <3>1
    <2> QED
      BY <2>1
  <1>5. \A q \in Requests :
           /\ conn'[q].lastWrite <= now' /\ conn'[q].header <= now' /\ conn'[q].stamp <= now'
           /\ conn'[q].at \in Unwritten => conn'[q].lastWrite = Zero
           /\ conn'[q].at = "noting" => conn'[q].stamp >= 0
           /\ conn'[q].at = "header" => conn'[q].header >= 0
           /\ conn'[q].at = "writing" => conn'[q].lastWrite <= conn'[q].stamp
    BY <1>2, <1>3 DEF ReadInTime
  <1>6. poll'.at = "row" /\ poll'.conn \notin Upgraded /\ poll'.header # Zero /\ poll'.state # "stalled"
           => poll'.now - conn'[poll'.conn].lastWrite < StallAfter
    <2> SUFFICES ASSUME poll.at = "row", poll.conn \notin Upgraded, poll.header # Zero, poll.state # "stalled"
                 PROVE  poll.now - conn'[poll.conn].lastWrite < StallAfter
      BY <1>3
    <2>1. poll.conn \in Requests /\ poll.now \in Nat /\ poll.now - conn[poll.conn].lastWrite < StallAfter
      BY DEF ReadInTime
    <2> QED
      BY <1>4, <2>1
  <1> QED
    BY <1>2, <1>3, <1>5, <1>6 DEF ReadInTime

\* The poll moves on to p.
LEMMA PollMoves ==
    ASSUME ReadInTime, NEW p \in PollRecord, Polls(p), p.now \in Nat, p.now <= now,
           p.at \in {"header", "row"} => p.conn \in Requests,
           p.at = "row" /\ p.conn \notin Upgraded /\ p.header # Zero /\ p.state # "stalled"
               => p.now - conn[p.conn].lastWrite < StallAfter
    PROVE  ReadInTime'
  <1>1. poll' = p /\ UNCHANGED <<now, conn>>
    BY DEF Polls
  <1> QED
    BY <1>1 DEF ReadInTime

\* The poll comes to a connection.
LEMMA HeaderLoaded ==
    ASSUME poll \in PollRecord, conn \in [Requests -> ConnRecord], NEW r \in Requests, LoadHeader(r)
    PROVE  \E p \in PollRecord :
               /\ Polls(p) /\ p.at = "header" /\ p.conn = r /\ p.now = poll.now
               /\ p.noted <=> conn[r].at \in {"body", "over"}
  <1>1. PICK g \in PollRecord, t \in SUBSET Requests, h \in Int, b \in BOOLEAN :
            g = poll /\ t = poll.todo \ {r} /\ h = conn[r].header /\ b = (conn[r].at \in {"body", "over"})
    <2>1. poll.todo \ {r} \in SUBSET Requests
      BY DEF PollRecord
    <2>2. conn[r].header \in Int
      BY DEF ConnRecord
    <2>3. (conn[r].at \in {"body", "over"}) \in BOOLEAN
      OBVIOUS
    <2> QED
      BY <2>1, <2>2, <2>3
  <1>2. PICK p : p = [g EXCEPT !.at = "header", !.todo = t, !.conn = r, !.header = h, !.noted = b]
    OBVIOUS
  <1>3. p \in PollRecord
    BY <1>2 DEF PollRecord
  <1>4. p.at = "header" /\ p.conn = r /\ p.now = g.now /\ p.noted = b
    BY <1>2 DEF PollRecord
  <1>5. Polls(p)
    BY <1>1, <1>2 DEF LoadHeader
  <1> QED
    BY <1>1, <1>3, <1>4, <1>5

\* It reads when the connection wrote last.
LEMMA LastWriteLoaded ==
    ASSUME poll \in PollRecord, conn \in [Requests -> ConnRecord], poll.conn \in Requests, LoadLastWrite
    PROVE  \E p \in PollRecord :
               /\ Polls(p) /\ p.at = "row" /\ poll.at = "header"
               /\ p.conn = poll.conn /\ p.now = poll.now /\ p.header = poll.header /\ p.noted = poll.noted
               /\ p.state = State(poll.conn, poll.now, poll.header, conn[poll.conn].lastWrite)
  <1>1. PICK s : s = State(poll.conn, poll.now, poll.header, conn[poll.conn].lastWrite)
    OBVIOUS
  <1>2. s \in States
    BY <1>1 DEF State, States
  <1>3. PICK p : p = [poll EXCEPT !.at = "row", !.state = s]
    OBVIOUS
  <1>4. p \in PollRecord
    BY <1>2, <1>3 DEF PollRecord
  <1>5. /\ p.at = "row" /\ p.state = s
        /\ p.conn = poll.conn /\ p.now = poll.now /\ p.header = poll.header /\ p.noted = poll.noted
    BY <1>3 DEF PollRecord
  <1>6. Polls(p) /\ poll.at = "header"
    BY <1>1, <1>3 DEF LoadLastWrite
  <1> QED
    BY <1>1, <1>4, <1>5, <1>6

\* Every step keeps what a poll has read no newer than the connection.
LEMMA TimeStep == ASSUME ReadInTime, Placed, nextID \in Int, [Next]_vars PROVE ReadInTime'
  <1> USE Thresholds
  <1>1. now \in Nat /\ conn \in [Requests -> ConnRecord] /\ poll \in PollRecord /\ poll.now \in Nat
        /\ poll.now <= now
    BY DEF ReadInTime
  <1>2. CASE Tick
    <2>1. now' = now + 1 /\ UNCHANGED <<conn, poll>>
      BY <1>2 DEF Tick
    <2>2. \A q \in Requests : /\ conn[q].lastWrite \in Int /\ conn[q].header \in Int /\ conn[q].stamp \in Int
                              /\ conn[q].lastWrite <= now /\ conn[q].header <= now /\ conn[q].stamp <= now
      BY <1>1 DEF ReadInTime, ConnRecord
    <2>3. \A q \in Requests : conn'[q].lastWrite <= now' /\ conn'[q].header <= now' /\ conn'[q].stamp <= now'
      BY <1>1, <2>1, <2>2
    <2> QED
      BY <1>1, <2>1, <2>3 DEF ReadInTime
  <1>3. ASSUME NEW r \in Requests
        PROVE  /\ conn[r].lastWrite \in Int /\ conn[r].header \in Int /\ conn[r].stamp \in Int
               /\ conn[r].at \in Steps
               /\ conn[r].lastWrite <= now /\ conn[r].header <= now /\ conn[r].stamp <= now
               /\ conn[r].at \in Unwritten => conn[r].lastWrite = Zero
               /\ conn[r].at = "noting" => conn[r].stamp >= 0
               /\ conn[r].at = "header" => conn[r].header >= 0
               /\ conn[r].at = "writing" => conn[r].lastWrite <= conn[r].stamp
    BY <1>1 DEF ReadInTime, ConnRecord
  <1>4. ASSUME NEW r \in Requests, Begin(r) PROVE ReadInTime'
    <2>1. PICK c \in ConnRecord :
              /\ Atomics(r, c) /\ c.at = "counted" /\ conn[r].at = "new"
              /\ c.header = conn[r].header /\ c.lastWrite = conn[r].lastWrite /\ c.stamp = conn[r].stamp
      BY <1>1, <1>4, Begun
    <2> QED
      BY <1>1, <1>3, <2>1, TimesMove DEF Unwritten
  <1>5. ASSUME NEW r \in Requests, Publish(r) PROVE ReadInTime'
    <2>1. PICK c \in ConnRecord :
              /\ Atomics(r, c) /\ c.at = "open" /\ conn[r].at = "counted"
              /\ c.header = conn[r].header /\ c.lastWrite = conn[r].lastWrite /\ c.stamp = conn[r].stamp
      BY <1>1, <1>5, Published
    <2> QED
      BY <1>1, <1>3, <2>1, TimesMove DEF Unwritten
  <1>16. ASSUME NEW r \in Requests, ReadClock(r, "open", "noting") PROVE ReadInTime'
    <2>1. PICK c \in ConnRecord :
              /\ Atomics(r, c) /\ c.at = "noting" /\ conn[r].at = "open"
              /\ c.header = conn[r].header /\ c.lastWrite = conn[r].lastWrite /\ c.stamp = now
      BY <1>1, <1>16, HeaderTimed
    <2> QED
      BY <1>1, <1>3, <2>1, TimesMove DEF Unwritten
  <1>6. ASSUME NEW r \in Requests, NoteHeader(r) PROVE ReadInTime'
    <2>1. PICK c \in ConnRecord :
              /\ Atomics(r, c) /\ c.at = "header" /\ conn[r].at = "noting"
              /\ c.header = conn[r].stamp /\ c.lastWrite = conn[r].lastWrite /\ c.stamp = Zero
      BY <1>1, <1>6, Noted
    <2> QED
      BY <1>1, <1>3, <2>1, TimesMove DEF Unwritten
  <1>7. ASSUME NEW r \in Requests, SeedLastWrite(r) PROVE ReadInTime'
    <2>1. PICK c \in ConnRecord :
              /\ Atomics(r, c) /\ c.at = "body" /\ conn[r].at = "header"
              /\ c.header = conn[r].header /\ c.lastWrite = conn[r].header /\ c.stamp = conn[r].stamp
      BY <1>1, <1>7, Seeded
    <2> QED
      BY <1>1, <1>3, <2>1, TimesMove DEF Unwritten
  <1>17. ASSUME NEW r \in Requests, ReadClock(r, "body", "writing") PROVE ReadInTime'
    <2>1. PICK c \in ConnRecord :
              /\ Atomics(r, c) /\ c.at = "writing" /\ conn[r].at = "body"
              /\ c.header = conn[r].header /\ c.lastWrite = conn[r].lastWrite /\ c.stamp = now
      BY <1>1, <1>17, WriteTimed
    <2> QED
      BY <1>1, <1>3, <2>1, TimesMove DEF Unwritten
  <1>8. ASSUME NEW r \in Requests, NoteWrite(r) PROVE ReadInTime'
    <2>1. PICK c \in ConnRecord :
              /\ Atomics(r, c) /\ c.at = "body" /\ conn[r].at = "writing"
              /\ c.header = conn[r].header /\ c.lastWrite = conn[r].stamp /\ c.stamp = Zero
      BY <1>1, <1>8, WriteNoted
    <2> QED
      BY <1>1, <1>3, <2>1, TimesMove DEF Unwritten
  <1>15. ASSUME NEW r \in Requests, End(r) PROVE ReadInTime'
    <2>1. PICK c \in ConnRecord :
              /\ Atomics(r, c) /\ c.at = "over" /\ conn[r].at \in {"open", "body"}
              /\ c.header = conn[r].header /\ c.lastWrite = conn[r].lastWrite /\ c.stamp = conn[r].stamp
      BY <1>1, <1>15, ConnEnded
    <2> QED
      BY <1>1, <1>3, <2>1, TimesMove DEF Unwritten
  <1>9. ASSUME NEW p \in PollRecord, Polls(p), p.now \in Nat, p.now <= now, p.at \notin {"header", "row"}
        PROVE  ReadInTime'
    BY <1>9, PollMoves
  <1>10. CASE Copy
    <2>1. active \in SUBSET Requests
      BY DEF Placed
    <2>2. NoPoll \in PollRecord
      BY DEF NoPoll, PollRecord, States
    <2>3. PICK g \in PollRecord, t \in Int, a \in SUBSET Requests : g = NoPoll /\ t = now /\ a = active
      BY <1>1, <2>1, <2>2
    <2>4. PICK p : p = [g EXCEPT !.at = "pick", !.now = t, !.todo = a]
      OBVIOUS
    <2>6. p \in PollRecord /\ p.at = "pick" /\ p.now = now
      BY <2>3, <2>4 DEF PollRecord
    <2>5. Polls(p)
      BY <1>10, <2>3, <2>4 DEF Copy
    <2> QED
      BY <1>1, <1>9, <2>5, <2>6
  <1>11. CASE Done
    <2>1. NoPoll \in PollRecord /\ NoPoll.now = 0 /\ NoPoll.at = "idle"
      BY DEF NoPoll, PollRecord, States
    <2> QED
      BY <1>1, <1>9, <1>11, <2>1 DEF Done
  <1>12. ASSUME NEW r \in Requests, LoadHeader(r) PROVE ReadInTime'
    <2>3. PICK p \in PollRecord : Polls(p) /\ p.at = "header" /\ p.conn = r /\ p.now = poll.now
      BY <1>1, <1>12, HeaderLoaded
    <2> QED
      BY <1>1, <2>3, PollMoves
  <1>13. CASE LoadLastWrite
    <2>1. poll.at = "header" /\ poll.conn \in Requests
      BY <1>13 DEF LoadLastWrite, ReadInTime
    <2>2. PICK last \in Int : last = conn[poll.conn].lastWrite
      BY <1>3, <2>1
    <2>3. PICK p \in PollRecord :
              /\ Polls(p) /\ p.at = "row"
              /\ p.conn = poll.conn /\ p.now = poll.now /\ p.header = poll.header
              /\ p.state = State(poll.conn, poll.now, poll.header, last)
      BY <1>1, <1>13, <2>1, <2>2, LastWriteLoaded
    <2>4. poll.conn \notin Upgraded /\ poll.header # Zero /\ p.state # "stalled" => poll.now - last < StallAfter
      BY <1>1, <2>2, <2>3 DEF State
    <2> QED
      BY <1>1, <2>1, <2>2, <2>3, <2>4, PollMoves
  <1>14. CASE UNCHANGED vars
    BY <1>14 DEF vars, ReadInTime
  <1> QED
    BY <1>2, <1>4, <1>5, <1>6, <1>7, <1>8, <1>10, <1>11, <1>12, <1>13, <1>14, <1>15, <1>16, <1>17
       DEF Next

\* One connection moves on: one that noted its first byte stays so, and notes
\* nothing before the poll.
LEMMA HeedMove ==
    ASSUME HeedsWrites, ReadInTime, NEW r \in Requests, NEW c \in ConnRecord, Atomics(r, c),
           conn[r].at \in {"body", "writing", "over"} =>
               /\ c.at \in {"body", "writing", "over"}
               /\ c.at = "writing" => c.stamp = now
               /\ \/ c.lastWrite = conn[r].lastWrite
                  \/ conn[r].at = "writing" /\ c.lastWrite = conn[r].stamp
    PROVE  HeedsWrites'
  <1> USE Thresholds
  <1>1. /\ conn \in [Requests -> ConnRecord] /\ poll.now \in Nat /\ poll.now <= now /\ now \in Nat
        /\ poll.at \in {"header", "row"} => poll.conn \in Requests
    BY DEF ReadInTime
  <1>2. conn'[r] = c /\ \A q \in Requests : q # r => conn'[q] = conn[q]
    BY <1>1, OneAtomic
  <1>3. UNCHANGED <<now, poll>>
    BY DEF Atomics
  <1>4. CASE poll.at \in {"header", "row"} /\ poll.noted
    <2>1. poll.conn \in Requests /\ Heeded(conn[poll.conn], poll.now)
      BY <1>1, <1>4 DEF HeedsWrites
    <2>2. CASE poll.conn # r
      <3>1. conn'[poll.conn] = conn[poll.conn]
        BY <1>2, <2>1, <2>2
      <3> QED
        BY <1>3, <3>1 DEF HeedsWrites, Heeded, Silent
    <2>3. CASE poll.conn = r
      <3>1. Heeded(c, poll.now)
        BY <1>1, <2>1, <2>3 DEF Heeded
      <3>2. Silent(conn[r], poll.now) => Silent(c, poll.now)
        <4>1. conn[r].lastWrite \in Int /\ conn[r].stamp \in Int
          BY <1>1 DEF ConnRecord
        <4> QED
          BY <1>1, <2>1, <2>3, <4>1 DEF Silent, Heeded
      <3> QED
        BY <1>2, <1>3, <2>3, <3>1, <3>2 DEF HeedsWrites
    <2> QED
      BY <2>2, <2>3
  <1>5. CASE ~(poll.at \in {"header", "row"} /\ poll.noted)
    BY <1>3, <1>5 DEF HeedsWrites
  <1> QED
    BY <1>4, <1>5

\* A poll that has come to no connection heeds nothing.
LEMMA HeedNothing ==
    ASSUME poll'.at \notin {"header", "row"}
    PROVE  HeedsWrites'
  <1> QED
    BY DEF HeedsWrites

\* Every step keeps what a poll may have missed as late as the poll.
LEMMA HeedStep == ASSUME HeedsWrites, ReadInTime, nextID \in Int, [Next]_vars PROVE HeedsWrites'
  <1> USE Thresholds
  <1>1. now \in Nat /\ conn \in [Requests -> ConnRecord] /\ poll \in PollRecord /\ poll.now \in Nat
        /\ poll.now <= now
    BY DEF ReadInTime
  <1>2. CASE Tick \/ UNCHANGED vars
    <2>1. UNCHANGED <<conn, poll>>
      BY <1>2 DEF Tick, vars
    <2> QED
      BY <2>1 DEF HeedsWrites, Heeded, Silent
  <1>3. ASSUME NEW r \in Requests, Begin(r) PROVE HeedsWrites'
    <2>1. PICK c \in ConnRecord :
              /\ Atomics(r, c) /\ c.at = "counted" /\ conn[r].at = "new"
              /\ c.header = conn[r].header /\ c.lastWrite = conn[r].lastWrite /\ c.stamp = conn[r].stamp
      BY <1>1, <1>3, Begun
    <2> QED
      BY <2>1, HeedMove
  <1>4. ASSUME NEW r \in Requests, Publish(r) PROVE HeedsWrites'
    <2>1. PICK c \in ConnRecord :
              /\ Atomics(r, c) /\ c.at = "open" /\ conn[r].at = "counted"
              /\ c.header = conn[r].header /\ c.lastWrite = conn[r].lastWrite /\ c.stamp = conn[r].stamp
      BY <1>1, <1>4, Published
    <2> QED
      BY <2>1, HeedMove
  <1>5. ASSUME NEW r \in Requests, ReadClock(r, "open", "noting") PROVE HeedsWrites'
    <2>1. PICK c \in ConnRecord :
              /\ Atomics(r, c) /\ c.at = "noting" /\ conn[r].at = "open"
              /\ c.header = conn[r].header /\ c.lastWrite = conn[r].lastWrite /\ c.stamp = now
      BY <1>1, <1>5, HeaderTimed
    <2> QED
      BY <2>1, HeedMove
  <1>6. ASSUME NEW r \in Requests, NoteHeader(r) PROVE HeedsWrites'
    <2>1. PICK c \in ConnRecord :
              /\ Atomics(r, c) /\ c.at = "header" /\ conn[r].at = "noting"
              /\ c.header = conn[r].stamp /\ c.lastWrite = conn[r].lastWrite /\ c.stamp = Zero
      BY <1>1, <1>6, Noted
    <2> QED
      BY <2>1, HeedMove
  <1>7. ASSUME NEW r \in Requests, SeedLastWrite(r) PROVE HeedsWrites'
    <2>1. PICK c \in ConnRecord :
              /\ Atomics(r, c) /\ c.at = "body" /\ conn[r].at = "header"
              /\ c.header = conn[r].header /\ c.lastWrite = conn[r].header /\ c.stamp = conn[r].stamp
      BY <1>1, <1>7, Seeded
    <2> QED
      BY <2>1, HeedMove
  <1>8. ASSUME NEW r \in Requests, ReadClock(r, "body", "writing") PROVE HeedsWrites'
    <2>1. PICK c \in ConnRecord :
              /\ Atomics(r, c) /\ c.at = "writing" /\ conn[r].at = "body"
              /\ c.header = conn[r].header /\ c.lastWrite = conn[r].lastWrite /\ c.stamp = now
      BY <1>1, <1>8, WriteTimed
    <2> QED
      BY <2>1, HeedMove
  <1>9. ASSUME NEW r \in Requests, NoteWrite(r) PROVE HeedsWrites'
    <2>1. PICK c \in ConnRecord :
              /\ Atomics(r, c) /\ c.at = "body" /\ conn[r].at = "writing"
              /\ c.header = conn[r].header /\ c.lastWrite = conn[r].stamp /\ c.stamp = Zero
      BY <1>1, <1>9, WriteNoted
    <2> QED
      BY <2>1, HeedMove
  <1>10. ASSUME NEW r \in Requests, End(r) PROVE HeedsWrites'
    <2>1. PICK c \in ConnRecord :
              /\ Atomics(r, c) /\ c.at = "over" /\ conn[r].at \in {"open", "body"}
              /\ c.header = conn[r].header /\ c.lastWrite = conn[r].lastWrite /\ c.stamp = conn[r].stamp
      BY <1>1, <1>10, ConnEnded
    <2> QED
      BY <2>1, HeedMove
  <1>11. CASE Copy \/ Done
    <2>1. PICK g : g = NoPoll
      OBVIOUS
    <2>2. poll' = g \/ poll' = [g EXCEPT !.at = "pick", !.now = now, !.todo = active]
      BY <1>11, <2>1 DEF Copy, Done, Polls
    <2>3. g \in PollRecord /\ g.at = "idle"
      BY <2>1 DEF NoPoll, PollRecord, States
    <2>4. poll'.at \in {"pick", "idle"}
      BY <2>2, <2>3 DEF PollRecord
    <2> QED
      BY <2>4, HeedNothing
  <1>12. ASSUME NEW r \in Requests, LoadHeader(r) PROVE HeedsWrites'
    <2>1. PICK p \in PollRecord :
              /\ Polls(p) /\ p.at = "header" /\ p.conn = r
              /\ p.noted <=> conn[r].at \in {"body", "over"}
      BY <1>1, <1>12, HeaderLoaded
    <2>2. poll' = p /\ conn' = conn
      BY <2>1 DEF Polls
    <2>3. p.noted => Heeded(conn[r], p.now)
      BY <2>1 DEF Heeded
    <2> QED
      BY <2>1, <2>2, <2>3 DEF HeedsWrites
  <1>13. CASE LoadLastWrite
    <2>1. poll.at = "header" /\ poll.conn \in Requests
      BY <1>13 DEF LoadLastWrite, ReadInTime
    <2>2. PICK last \in Int : last = conn[poll.conn].lastWrite
      BY <1>1, <2>1 DEF ConnRecord
    <2>3. PICK p \in PollRecord :
              /\ Polls(p) /\ p.at = "row"
              /\ p.conn = poll.conn /\ p.now = poll.now /\ p.header = poll.header /\ p.noted = poll.noted
              /\ p.state = State(poll.conn, poll.now, poll.header, last)
      BY <1>1, <1>13, <2>1, <2>2, LastWriteLoaded
    <2>4. poll' = p /\ conn' = conn
      BY <2>3 DEF Polls
    <2>5. poll.conn \notin Upgraded /\ poll.header # Zero /\ p.state = "stalled" => last <= poll.now - StallAfter
      BY <1>1, <2>2, <2>3 DEF State
    <2>6. p.noted => Heeded(conn[poll.conn], p.now)
      BY <2>1, <2>3 DEF HeedsWrites
    <2>7. p.conn \notin Upgraded /\ p.header # Zero /\ p.state = "stalled" => Silent(conn[p.conn], p.now)
      BY <2>2, <2>3, <2>5 DEF Silent
    <2> QED
      BY <2>3, <2>4, <2>6, <2>7 DEF HeedsWrites
  <1> QED
    BY <1>2, <1>3, <1>4, <1>5, <1>6, <1>7, <1>8, <1>9, <1>10, <1>11, <1>12, <1>13 DEF Next

-----------------------------------------------------------------------------

\* Ids are numbers.
LEMMA IdsCount == nextID \in Int /\ [Next]_vars => nextID' \in Int
  <1> SUFFICES ASSUME nextID \in Int, [Next]_vars PROVE nextID' = nextID \/ nextID' = nextID + 1
    OBVIOUS
  <1> QED
    BY DEF Next, vars, Tick, Begin, Publish, ReadClock, NoteHeader, SeedLastWrite, NoteWrite, End, Ring,
           LoadHeader, Copy, LoadLastWrite, Done, Polls

\* Every reachable state satisfies the invariant.
LEMMA MetricsInvariance == Spec => [](MetricsInv /\ nextID \in Int)
  <1>1. Init => MetricsInv /\ nextID \in Int
    BY InitMetrics DEF Init
  <1>2. MetricsInv /\ nextID \in Int /\ [Next]_vars => MetricsInv' /\ (nextID \in Int)'
    <2> SUFFICES ASSUME MetricsInv, nextID \in Int, [Next]_vars PROVE MetricsInv' /\ nextID' \in Int
      OBVIOUS
    <2>1. Placed /\ RingKept /\ ReadInTime /\ HeedsWrites /\ conn \in [Requests -> ConnRecord] /\ now \in Nat
      BY DEF MetricsInv, ReadInTime
    <2> QED
      BY <2>1, PlacedStep, RingStep, TimeStep, HeedStep, IdsCount DEF MetricsInv
  <1> QED
    BY <1>1, <1>2, PTL DEF Spec

\* Whenever the mutex is free a published request is in the map or in the list
\* of finished ones and never in both, and that list is the last requests to
\* finish, the newest first, before the ring is full and after it wrapped (end
\* and Snapshot, status_metrics.go).
THEOREM NoneMissed == Spec => []ListedOnce
  <1>1. MetricsInv => ListedOnce
    <2> SUFFICES ASSUME MetricsInv PROVE ListedOnce
      OBVIOUS
    <2>1. NewestFirst
      BY RingListed DEF MetricsInv
    <2>2. /\ active = {r \in Requests : conn[r].at \in InFlight}
          /\ Over = {r \in Requests : conn[r].at = "over"}
          /\ Cardinality(Over) = Len(finished)
      BY DEF MetricsInv, Placed
    <2>3. \A r \in Requests : conn[r].at \in Steps
      BY DEF MetricsInv, ReadInTime, ConnRecord
    <2>4. active \cap Over = {}
      BY <2>2 DEF InFlight
    <2>5. active \cup Over = {r \in Requests : conn[r].at \notin {"new", "counted"}}
      BY <2>2, <2>3 DEF Steps, InFlight
    <2>6. InOnePlace
      BY <2>2, <2>4, <2>5 DEF InOnePlace, Over
    <2> QED
      BY <2>1, <2>6 DEF ListedOnce
  <1> QED
    BY <1>1, MetricsInvariance, PTL

\* A response that has been silent for the whole threshold by the time of the
\* poll is shown as stalled, and one that wrote within it is not unless the poll
\* came to it in the middle of a note, although its two times are read one after
\* the other while its goroutine writes them (proxyConnState, status_metrics.go).
THEOREM SilenceIsShown == Spec => []SilenceShows
  <1>1. MetricsInv => SilenceShows
    <2> SUFFICES ASSUME MetricsInv, poll.at = "row", poll.conn \notin Upgraded, poll.header # Zero
                 PROVE  /\ poll.now - conn[poll.conn].lastWrite >= StallAfter => poll.state = "stalled"
                        /\ poll.noted /\ poll.now - conn[poll.conn].lastWrite \in 1..(StallAfter - 1)
                               => poll.state # "stalled"
      BY DEF SilenceShows
    <2>1. poll.conn \in Requests /\ poll.now \in Nat /\ conn[poll.conn].lastWrite \in Int
      BY DEF MetricsInv, ReadInTime, ConnRecord
    <2>2. poll.state # "stalled" => poll.now - conn[poll.conn].lastWrite < StallAfter
      BY DEF MetricsInv, ReadInTime
    <2>3. poll.noted /\ poll.state = "stalled" => Silent(conn[poll.conn], poll.now)
      BY DEF MetricsInv, HeedsWrites
    <2> QED
      BY <2>1, <2>2, <2>3, Thresholds DEF Silent
  <1> QED
    BY <1>1, MetricsInvariance, PTL

-----------------------------------------------------------------------------
(* RollingRate.  Each writer in the middle of an add holds one byte that   *)
(* is written and not yet counted; the invariant weighs the two buckets,   *)
(* and what is on its way between them, with these bytes against what was  *)
(* written by the end of each tick.                                        *)

\* The writers in the middle of an add, the ones that roll the bucket, and the
\* bytes that are written and not yet added.
Busy == {w \in Writers : add[w].at # "idle"}
Rolling == {w \in Writers : add[w].at \in {"swap", "store"}}
Pending == Cardinality(Busy)

\* One writer at a time rolls the bucket, in the tick it began: the others found
\* another start, or do not look for it.
OneRolls ==
    /\ startNano <= tick
    /\ \A v, w \in Rolling : v = w
    /\ \A w \in Rolling : startNano = tick /\ tick > 0
    /\ \A w \in Busy : add[w].now = tick
    /\ \A w \in Writers : add[w].at = "loaded" => add[w].start <= startNano /\ add[w].start + Window <= tick

\* What the buckets hold, with what is still to be added, against what was written.
BytesKept ==
    /\ \A t, u \in 0..tick : t <= u => written[t] <= written[u]
    /\ Pending <= Since(tick)
    /\ cur + prev + Pending <= written[tick]
    /\ \A w \in Writers : add[w].at = "store" => cur + add[w].moved + Pending <= written[tick]
    /\ cur + Pending >= Since(startNano + 1)
    /\ cur + Pending <= Since(startNano) \/ \E w \in Writers : add[w].at = "swap"
    /\ startNano > 0 => Since(startNano) > Since(startNano + 1)
    /\ startNano = 0 => prev = 0

RateIInv == RateTypeOK /\ OneRolls /\ BytesKept

\* The writers in an add are a finite set, so their number is a natural one.
LEMMA PendingFinite == IsFiniteSet(Busy) /\ Pending \in Nat
  <1>1. Busy \subseteq Writers
    BY DEF Busy
  <1>2. IsFiniteSet(Busy)
    BY <1>1, FS_Subset, RateAssumption
  <1> QED
    BY <1>2, FS_CardinalityType DEF Pending

\* What was written from a tick on, by where the tick is.
LEMMA SinceIs ==
    ASSUME RateTypeOK, NEW t \in Int
    PROVE  /\ Since(t) \in Int
           /\ t <= 0 => Since(t) = written[tick]
           /\ 0 < t /\ t <= tick => Since(t) = written[tick] - written[t - 1]
           /\ t > tick /\ t > 0 => Since(t) = 0
  <1>1. tick \in Nat /\ written[tick] \in Nat
    BY DEF RateTypeOK, Ticks
  <1>2. 0 < t /\ t <= tick => written[t - 1] \in Nat
    BY RateAssumption DEF RateTypeOK, Ticks
  <1> QED
    BY <1>1, <1>2 DEF Since

\* Before the first byte.
LEMMA RateStart == RateInit => RateIInv
  <1> SUFFICES ASSUME RateInit PROVE RateIInv
    OBVIOUS
  <1> USE RateAssumption
  <1>1. \A w \in Writers : add[w] = IdleAdd /\ add[w].at = "idle"
    BY DEF RateInit, IdleAdd
  <1>2. RateTypeOK
    BY DEF RateInit, RateTypeOK, IdleAdd, Ticks
  <1>3. Busy = {} /\ Rolling = {}
    BY <1>1 DEF Busy, Rolling
  <1>4. Pending = 0
    BY <1>3, FS_EmptySet DEF Pending
  <1>5. OneRolls
    BY <1>1, <1>3 DEF OneRolls, RateInit
  <1>6. written[0] = 0 /\ tick = 0 /\ startNano = 0 /\ cur = 0 /\ prev = 0
    BY DEF RateInit, Ticks
  <1>7. Since(0) = 0 /\ Since(0 + 1) = 0
    BY <1>6 DEF Since
  <1>8. BytesKept
    BY <1>1, <1>4, <1>6, <1>7 DEF BytesKept
  <1> QED
    BY <1>2, <1>5, <1>8 DEF RateIInv

\* The clock moves only while nobody adds, and nothing was written in the new tick.
LEMMA RateTickKeeps == RateIInv /\ RateTick => RateIInv'
  <1> SUFFICES ASSUME RateIInv, RateTick PROVE RateIInv'
    OBVIOUS
  <1> USE RateAssumption
  <1>1. tick \in Nat /\ startNano \in Nat /\ tick + 1 \in Ticks /\ startNano <= tick /\ cur \in Nat /\ prev \in Nat
    BY DEF RateIInv, RateTypeOK, OneRolls, Ticks, RateTick
  <1>2. RateTypeOK'
    BY <1>1 DEF RateIInv, RateTypeOK, RateTick
  <1>3. Busy = {} /\ Rolling = {} /\ Busy' = {} /\ Rolling' = {}
    BY DEF RateTick, Busy, Rolling
  <1>4. Pending = 0 /\ Pending' = 0
    BY <1>3, FS_EmptySet DEF Pending
  <1>5. \A w \in Writers : add'[w].at = "idle"
    BY DEF RateTick
  <1>6. OneRolls'
    BY <1>1, <1>3, <1>5 DEF OneRolls, RateTick
  <1>7. /\ tick' = tick + 1 /\ startNano' = startNano /\ cur' = cur /\ prev' = prev
        /\ written'[tick + 1] = written[tick]
        /\ \A t \in 0..tick : written'[t] = written[t] /\ written[t] \in Nat
    BY <1>1 DEF RateTick, RateIInv, RateTypeOK, Ticks
  <1>8. \A t \in 0..(tick + 1) : written'[t] = (IF t <= tick THEN written[t] ELSE written[tick])
    BY <1>1, <1>7
  <1>9. \A t, u \in 0..tick' : t <= u => written'[t] <= written'[u]
    <2> SUFFICES ASSUME NEW t \in 0..(tick + 1), NEW u \in 0..(tick + 1), t <= u
                 PROVE  written'[t] <= written'[u]
      BY <1>7
    <2>1. CASE u <= tick
      BY <2>1, <1>1, <1>8 DEF RateIInv, BytesKept
    <2>2. CASE u = tick + 1 /\ t <= tick
      <3>1. tick \in 0..tick /\ t \in 0..tick
        BY <2>2, <1>1
      <3>2. written[t] <= written[tick]
        BY <3>1, <2>2 DEF RateIInv, BytesKept
      <3> QED
        BY <3>1, <3>2, <2>2, <1>7
    <2>3. CASE u = tick + 1 /\ t = tick + 1
      BY <2>3, <1>7, <1>1
    <2> QED
      BY <2>1, <2>2, <2>3, <1>1
  <1>10. Since(tick)' = 0
    BY <1>1, <1>7 DEF Since
  <1>11. Since(startNano + 1)' = Since(startNano + 1) /\ Since(startNano)' = Since(startNano)
    <2>1. startNano \in 0..tick /\ (startNano > 0 => startNano - 1 \in 0..tick)
      BY <1>1
    <2>2. written'[startNano] = written[startNano] /\ (startNano > 0 => written'[startNano - 1] = written[startNano - 1])
      BY <2>1, <1>7
    <2> QED
      BY <1>1, <2>1, <2>2, <1>7 DEF Since
  <1>12. written[tick] \in Nat /\ Since(startNano) \in Int /\ Since(startNano + 1) \in Int
    BY <1>1, SinceIs, <1>7 DEF RateIInv
  <1>13. \A w \in Writers : add[w].at = "idle"
    BY DEF RateTick
  <1>14. BytesKept'
    BY <1>1, <1>4, <1>5, <1>7, <1>9, <1>10, <1>11, <1>12, <1>13 DEF RateIInv, BytesKept
  <1> QED
    BY <1>2, <1>6, <1>14 DEF RateIInv

\* A byte that is written is one more to be added.
LEMMA LoadKeeps ==
    ASSUME RateIInv, NEW w \in Writers, LoadStart(w)
    PROVE  RateIInv'
  <1> USE RateAssumption
  <1>1. tick \in Nat /\ startNano \in Nat /\ tick \in Ticks /\ startNano <= tick /\ cur \in Nat /\ prev \in Nat
    BY DEF RateIInv, RateTypeOK, OneRolls, Ticks
  <1> DEFINE step == IF tick - startNano >= Window THEN "loaded" ELSE "add"
  <1>2. /\ add'[w] = [at |-> step, now |-> tick, start |-> startNano, moved |-> 0]
        /\ \A v \in Writers : v # w => add'[v] = add[v]
        /\ step \in {"loaded", "add"}
    BY DEF LoadStart, RateIInv, RateTypeOK
  <1>3. RateTypeOK'
    <2> DEFINE R == [at : {"idle", "loaded", "swap", "store", "add"}, now : Ticks, start : Ticks, moved : Nat]
    <2>1. add \in [Writers -> R] /\ startNano \in Ticks /\ written \in [Ticks -> Nat]
      BY DEF RateIInv, RateTypeOK
    <2>2. [at |-> step, now |-> tick, start |-> startNano, moved |-> 0] \in R
      BY <1>1, <2>1
    <2>3. add' = [add EXCEPT ![w] = [at |-> step, now |-> tick, start |-> startNano, moved |-> 0]]
      BY DEF LoadStart
    <2> HIDE DEF R
    <2>4. add' \in [Writers -> R]
      BY <2>1, <2>2, <2>3
    <2>5. written' \in [Ticks -> Nat]
      BY <2>1, <1>1 DEF LoadStart
    <2> QED
      BY <1>1, <2>1, <2>4, <2>5 DEF RateTypeOK, R, LoadStart
  <1>4. Busy' = Busy \cup {w} /\ w \notin Busy /\ Rolling' = Rolling
    BY <1>2 DEF LoadStart, Busy, Rolling
  <1>5. Pending' = Pending + 1
    BY <1>4, FS_AddElement, PendingFinite DEF Pending
  <1>6. tick' = tick /\ startNano' = startNano /\ cur' = cur /\ prev' = prev
    BY DEF LoadStart
  <1>7. \A v \in Writers : add'[v].at = "loaded" => add'[v].start <= startNano /\ add'[v].start + Window <= tick
    BY <1>1, <1>2 DEF RateIInv, OneRolls
  <1>8. \A v \in Busy' : add'[v].now = tick
    BY <1>2, <1>4 DEF RateIInv, OneRolls, Busy
  <1>9. OneRolls'
    BY <1>1, <1>4, <1>6, <1>7, <1>8 DEF RateIInv, OneRolls
  <1>10. /\ \A t \in 0..tick : written[t] \in Nat
         /\ written'[tick] = written[tick] + 1
         /\ \A t \in 0..tick : t # tick => written'[t] = written[t]
    BY <1>1 DEF RateIInv, RateTypeOK, LoadStart, Ticks
  <1>11. \A t, u \in 0..tick : t <= u => written'[t] <= written'[u]
    <2> SUFFICES ASSUME NEW t \in 0..tick, NEW u \in 0..tick, t <= u PROVE written'[t] <= written'[u]
      OBVIOUS
    <2>1. written[t] <= written[u]
      BY DEF RateIInv, BytesKept
    <2> QED
      BY <2>1, <1>1, <1>10
  <1>12. Since(tick)' = Since(tick) + 1
    <2>1. tick > 0 => written'[tick - 1] = written[tick - 1] /\ written[tick - 1] \in Nat
      BY <1>1, <1>10
    <2> QED
      BY <1>1, <1>6, <1>10, <2>1 DEF Since
  <1>13. Since(startNano)' = Since(startNano) + 1
    <2>1. startNano > 0 => written'[startNano - 1] = written[startNano - 1] /\ written[startNano - 1] \in Nat
      BY <1>1, <1>10
    <2> QED
      BY <1>1, <1>6, <1>10, <2>1 DEF Since
  <1>14. Since(startNano + 1)' = IF startNano = tick THEN 0 ELSE Since(startNano + 1) + 1
    <2>1. written[startNano] \in Nat /\ (startNano # tick => written'[startNano] = written[startNano])
      BY <1>1, <1>10
    <2> QED
      BY <1>1, <1>6, <1>10, <2>1 DEF Since
  <1>15. /\ Since(tick) \in Int /\ Since(startNano) \in Int /\ Since(startNano + 1) \in Int
         /\ startNano = tick => Since(startNano + 1) = 0
         /\ written[tick] \in Nat /\ Pending \in Nat
    BY <1>1, SinceIs, <1>10, PendingFinite DEF RateIInv
  <1>16. \A v \in Writers : add'[v].at = "store" => add[v].at = "store" /\ add'[v].moved = add[v].moved /\ add[v].moved \in Nat
    BY <1>2 DEF RateIInv, RateTypeOK
  <1>17. (\E v \in Writers : add[v].at = "swap") => \E v \in Writers : add'[v].at = "swap"
    BY <1>2 DEF LoadStart
  <1>18. \A v \in Writers : add'[v].at = "store" => cur + add'[v].moved + Pending' <= written'[tick]
    BY <1>1, <1>5, <1>10, <1>15, <1>16 DEF RateIInv, BytesKept
  <1>19. /\ Pending' <= Since(tick)'
         /\ cur + prev + Pending' <= written'[tick]
         /\ cur + Pending' >= Since(startNano + 1)'
         /\ startNano > 0 => Since(startNano)' > Since(startNano + 1)'
         /\ startNano = 0 => prev = 0
    BY <1>1, <1>5, <1>10, <1>12, <1>13, <1>14, <1>15 DEF RateIInv, BytesKept
  <1>20. cur + Pending' <= Since(startNano)' \/ \E v \in Writers : add'[v].at = "swap"
    BY <1>1, <1>5, <1>13, <1>15, <1>17 DEF RateIInv, BytesKept
  <1>21. BytesKept'
    BY <1>6, <1>11, <1>18, <1>19, <1>20 DEF BytesKept
  <1> QED
    BY <1>3, <1>9, <1>21 DEF RateIInv

\* A step that writes no byte leaves what was written as it was.
LEMMA SinceStays ==
    ASSUME tick' = tick, written' = written, NEW t
    PROVE  Since(t)' = Since(t)
  <1> QED
    BY DEF Since

\* Whoever takes the roll begins the bucket of this tick; the others add.
LEMMA CompareAndSwapKeeps ==
    ASSUME RateIInv, NEW w \in Writers, CompareAndSwap(w)
    PROVE  RateIInv'
  <1> USE RateAssumption
  <1>1. tick \in Nat /\ startNano \in Nat /\ tick \in Ticks /\ startNano <= tick /\ cur \in Nat /\ prev \in Nat
    BY DEF RateIInv, RateTypeOK, OneRolls, Ticks
  <1>2. /\ add[w].at = "loaded" /\ add[w].now = tick /\ add[w].start <= startNano /\ add[w].start + Window <= tick
        /\ add[w].start \in Nat
    BY DEF CompareAndSwap, RateIInv, RateTypeOK, OneRolls, Busy, Ticks
  <1>3. tick' = tick /\ cur' = cur /\ prev' = prev /\ written' = written
    BY DEF CompareAndSwap
  <1>4. /\ \A v \in Writers : v # w => add'[v] = add[v]
        /\ add'[w].now = tick /\ add'[w].at \in {"swap", "add"}
        /\ DOMAIN add' = Writers
    BY <1>2 DEF CompareAndSwap, RateIInv, RateTypeOK
  <1>5. RateTypeOK'
    BY <1>1, <1>2, <1>3 DEF RateIInv, RateTypeOK, CompareAndSwap
  <1>6. Busy' = Busy /\ Pending' = Pending /\ Pending \in Nat /\ Pending >= 1
    <2>1. Busy' = Busy /\ w \in Busy
      BY <1>2, <1>4 DEF Busy
    <2>2. Pending # 0
      BY <2>1, PendingFinite, FS_EmptySet DEF Pending
    <2> QED
      BY <2>1, <2>2, PendingFinite DEF Pending
  <1>7. Since(tick) \in Int /\ Since(startNano) \in Int /\ Since(startNano + 1) \in Int /\ Since(tick)' = Since(tick)
    BY <1>1, <1>3, SinceStays, SinceIs DEF RateIInv
  <1>8. \A v \in Writers : add'[v].at = "store" => add[v].at = "store" /\ add'[v] = add[v]
    BY <1>2, <1>4
  <1>9. CASE startNano = add[w].start
    <2>1. startNano' = tick /\ add'[w].at = "swap" /\ tick > 0 /\ startNano < tick
      BY <1>1, <1>2, <1>9 DEF CompareAndSwap, RateIInv, RateTypeOK
    <2>2. Rolling = {}
      BY <1>1, <2>1 DEF RateIInv, OneRolls
    <2>3. Rolling' = {w}
      BY <1>4, <2>1, <2>2 DEF Rolling
    <2>4. \A v \in Busy' : add'[v].now = tick
      BY <1>4, <1>6 DEF RateIInv, OneRolls, Busy
    <2>5. \A v \in Writers : add'[v].at = "loaded" => add'[v].start <= tick /\ add'[v].start + Window <= tick
      <3> SUFFICES ASSUME NEW v \in Writers, add'[v].at = "loaded"
                   PROVE  add'[v].start <= tick /\ add'[v].start + Window <= tick
        OBVIOUS
      <3>1. v # w /\ add'[v] = add[v]
        BY <2>1, <1>4
      <3>2. add[v].start <= startNano /\ add[v].start + Window <= tick /\ add[v].start \in Nat
        BY <3>1 DEF RateIInv, OneRolls, RateTypeOK, Ticks
      <3> QED
        BY <1>1, <3>1, <3>2
    <2>6. OneRolls'
      BY <1>1, <1>3, <2>1, <2>3, <2>4, <2>5 DEF OneRolls
    <2>7. Since(tick) >= 1
      BY <1>6, <1>7 DEF RateIInv, BytesKept
    <2>8. BytesKept'
      <3>1. \A v \in Writers : add'[v].at # "store"
        BY <1>8, <2>2 DEF Rolling
      <3>2. Since(tick)' = Since(tick) /\ Since(tick) \in Int
        BY <1>7
      <3>3. \E v \in Writers : add'[v].at = "swap"
        BY <2>1
      <3>4. Since(startNano)' = Since(tick)' /\ Since(startNano + 1)' = 0
        <4>1. written'[tick'] \in Nat
          BY <1>1, <1>3 DEF RateIInv, RateTypeOK
        <4> QED
          BY <1>1, <1>3, <2>1, <4>1 DEF Since
      <3> QED
        BY <1>1, <1>3, <1>6, <2>1, <2>7, <3>1, <3>2, <3>3, <3>4 DEF RateIInv, BytesKept
    <2> QED
      BY <1>5, <2>6, <2>8 DEF RateIInv
  <1>10. CASE startNano # add[w].start
    <2>1. startNano' = startNano /\ add'[w].at = "add"
      BY <1>10, <1>2 DEF CompareAndSwap, RateIInv, RateTypeOK
    <2>2. Rolling' = Rolling
      BY <1>2, <1>4, <2>1 DEF Rolling
    <2>3. \A v \in Busy' : add'[v].now = tick
      BY <1>4, <1>6 DEF RateIInv, OneRolls, Busy
    <2>4. \A v \in Writers : add'[v].at = "loaded" => add[v].at = "loaded" /\ add'[v] = add[v]
      BY <1>4, <2>1
    <2>5. OneRolls'
      BY <1>3, <2>1, <2>2, <2>3, <2>4 DEF RateIInv, OneRolls
    <2>6. (\E v \in Writers : add[v].at = "swap") => \E v \in Writers : add'[v].at = "swap"
      BY <1>2, <1>4
    <2>7. Since(tick)' = Since(tick) /\ Since(startNano)' = Since(startNano) /\ Since(startNano + 1)' = Since(startNano + 1)
      BY <1>3, <2>1 DEF Since
    <2>8. BytesKept'
      BY <1>3, <1>6, <1>8, <2>1, <2>6, <2>7 DEF RateIInv, BytesKept
    <2> QED
      BY <1>5, <2>5, <2>8 DEF RateIInv
  <1> QED
    BY <1>9, <1>10

\* The old bucket is in the hands of the one that rolls, and the new one is empty.
LEMMA SwapKeeps ==
    ASSUME RateIInv, NEW w \in Writers, SwapCur(w)
    PROVE  RateIInv'
  <1> USE RateAssumption
  <1>1. tick \in Nat /\ startNano \in Nat /\ cur \in Nat /\ prev \in Nat
    BY DEF RateIInv, RateTypeOK, OneRolls, Ticks
  <1>2. add[w].at = "swap" /\ w \in Rolling /\ startNano = tick /\ tick > 0
    BY DEF SwapCur, RateIInv, OneRolls, Rolling
  <1>3. tick' = tick /\ startNano' = startNano /\ cur' = 0 /\ prev' = prev /\ written' = written
    BY DEF SwapCur
  <1>4. /\ \A v \in Writers : v # w => add'[v] = add[v]
        /\ add'[w].now = add[w].now /\ add'[w].at = "store" /\ add'[w].moved = cur
    BY DEF SwapCur, RateIInv, RateTypeOK
  <1>5. RateTypeOK'
    BY <1>1 DEF RateIInv, RateTypeOK, SwapCur
  <1>6. Rolling' = Rolling /\ Busy' = Busy /\ Pending' = Pending /\ Pending \in Nat
    <2>1. Busy' = Busy /\ Rolling' = Rolling
      BY <1>2, <1>4 DEF Busy, Rolling
    <2> QED
      BY <2>1, PendingFinite DEF Pending
  <1>7. \A v \in Writers : add'[v].at = "loaded" => add[v].at = "loaded" /\ add'[v] = add[v]
    BY <1>4
  <1>8. \A v \in Busy : add'[v].now = tick
    BY <1>4 DEF RateIInv, OneRolls, Busy
  <1>9. OneRolls'
    BY <1>3, <1>6, <1>7, <1>8 DEF RateIInv, OneRolls
  <1>10. \A v \in Writers : add'[v].at = "store" => v = w
    <2> SUFFICES ASSUME NEW v \in Writers, add'[v].at = "store", v # w PROVE FALSE
      OBVIOUS
    <2>1. v \in Rolling
      BY <1>4 DEF Rolling
    <2> QED
      BY <2>1, <1>2 DEF RateIInv, OneRolls
  <1>11. Since(tick)' = Since(tick) /\ Since(startNano)' = Since(startNano) /\ Since(startNano + 1)' = Since(startNano + 1)
    BY <1>3, SinceStays
  <1>12. Since(startNano) = Since(tick) /\ Since(tick) \in Int /\ Since(startNano + 1) = 0 /\ written[tick] \in Nat
    BY <1>1, <1>2, SinceIs DEF RateIInv, RateTypeOK
  <1>13. BytesKept'
    BY <1>1, <1>2, <1>3, <1>4, <1>6, <1>10, <1>11, <1>12 DEF RateIInv, BytesKept
  <1> QED
    BY <1>5, <1>9, <1>13 DEF RateIInv

\* The old bucket becomes the one before.
LEMMA StoreKeeps ==
    ASSUME RateIInv, NEW w \in Writers, StorePrev(w)
    PROVE  RateIInv'
  <1> USE RateAssumption
  <1>1. tick \in Nat /\ startNano \in Nat /\ cur \in Nat /\ prev \in Nat
    BY DEF RateIInv, RateTypeOK, OneRolls, Ticks
  <1>2. add[w].at = "store" /\ w \in Rolling /\ startNano = tick /\ tick > 0
    BY DEF StorePrev, RateIInv, OneRolls, Rolling
  <1>3. tick' = tick /\ startNano' = startNano /\ cur' = cur /\ prev' = add[w].moved /\ written' = written
    BY DEF StorePrev
  <1>4. /\ \A v \in Writers : v # w => add'[v] = add[v]
        /\ add'[w].now = add[w].now /\ add'[w].at = "add"
    BY DEF StorePrev, RateIInv, RateTypeOK
  <1>5. RateTypeOK'
    BY <1>1 DEF RateIInv, RateTypeOK, StorePrev
  <1>6. Rolling' \subseteq Rolling /\ Busy' = Busy /\ Pending' = Pending /\ Pending \in Nat
    <2>1. Busy' = Busy /\ Rolling' \subseteq Rolling
      BY <1>2, <1>4 DEF Busy, Rolling
    <2> QED
      BY <2>1, PendingFinite DEF Pending
  <1>7. \A v \in Writers : add'[v].at = "loaded" => add[v].at = "loaded" /\ add'[v] = add[v]
    BY <1>4
  <1>8. \A v \in Busy : add'[v].now = tick
    BY <1>4 DEF RateIInv, OneRolls, Busy
  <1>9. OneRolls'
    BY <1>3, <1>6, <1>7, <1>8 DEF RateIInv, OneRolls
  <1>10. \A v \in Writers : add'[v].at # "store" /\ add[v].at # "swap"
    <2> SUFFICES ASSUME NEW v \in Writers PROVE add'[v].at # "store" /\ add[v].at # "swap"
      OBVIOUS
    <2>1. CASE v = w
      BY <2>1, <1>2, <1>4
    <2>2. CASE v # w
      BY <2>2, <1>2, <1>4 DEF RateIInv, OneRolls, Rolling
    <2> QED
      BY <2>1, <2>2
  <1>11. Since(tick)' = Since(tick) /\ Since(startNano)' = Since(startNano) /\ Since(startNano + 1)' = Since(startNano + 1)
    BY <1>3, SinceStays
  <1>12. add[w].moved \in Nat /\ cur + add[w].moved + Pending <= written[tick]
    BY <1>2 DEF RateIInv, RateTypeOK, BytesKept
  <1>13. BytesKept'
    BY <1>1, <1>2, <1>3, <1>6, <1>10, <1>11, <1>12 DEF RateIInv, BytesKept
  <1> QED
    BY <1>5, <1>9, <1>13 DEF RateIInv

\* The byte is added.
LEMMA AddKeeps ==
    ASSUME RateIInv, NEW w \in Writers, AddCur(w)
    PROVE  RateIInv'
  <1> USE RateAssumption
  <1>1. tick \in Nat /\ startNano \in Nat /\ cur \in Nat /\ prev \in Nat
    BY DEF RateIInv, RateTypeOK, OneRolls, Ticks
  <1>2. tick' = tick /\ startNano' = startNano /\ cur' = cur + 1 /\ prev' = prev /\ written' = written
    BY DEF AddCur
  <1>3. /\ \A v \in Writers : v # w => add'[v] = add[v]
        /\ add[w].at = "add" /\ add'[w] = IdleAdd /\ add'[w].at = "idle"
    BY DEF AddCur, RateIInv, RateTypeOK, IdleAdd
  <1>4. RateTypeOK'
    BY <1>1 DEF RateIInv, RateTypeOK, AddCur, IdleAdd, Ticks
  <1>5. Busy' = Busy \ {w} /\ w \in Busy /\ Rolling' = Rolling
    BY <1>3 DEF Busy, Rolling
  <1>6. Pending' = Pending - 1 /\ Pending \in Nat
    BY <1>5, FS_RemoveElement, PendingFinite DEF Pending
  <1>7. \A v \in Writers : add'[v].at # "idle" => add'[v] = add[v]
    BY <1>3
  <1>8. \A v \in Busy' : add'[v].now = tick
    BY <1>5, <1>3 DEF RateIInv, OneRolls, Busy
  <1>9. \A v \in Writers : add'[v].at = "loaded" => add[v].at = "loaded" /\ add'[v] = add[v]
    BY <1>7
  <1>10. OneRolls'
    BY <1>2, <1>5, <1>8, <1>9 DEF RateIInv, OneRolls
  <1>11. Since(tick)' = Since(tick) /\ Since(startNano)' = Since(startNano) /\ Since(startNano + 1)' = Since(startNano + 1)
    BY <1>2, SinceStays
  <1>12. Since(tick) \in Int /\ Since(startNano) \in Int /\ Since(startNano + 1) \in Int /\ written[tick] \in Nat
    BY <1>1, SinceIs DEF RateIInv, RateTypeOK
  <1>13. \A v \in Writers : add'[v].at = "store" => add[v].at = "store" /\ add'[v] = add[v] /\ add[v].moved \in Nat
    BY <1>7 DEF RateIInv, RateTypeOK
  <1>14. (\E v \in Writers : add[v].at = "swap") => \E v \in Writers : add'[v].at = "swap"
    BY <1>3
  <1>15. cur' + Pending' = cur + Pending
    BY <1>1, <1>2, <1>6
  <1>16. \A v \in Writers : add'[v].at = "store" => cur' + add'[v].moved + Pending' <= written[tick]
    BY <1>1, <1>2, <1>6, <1>12, <1>13 DEF RateIInv, BytesKept
  <1>17. cur' + Pending' <= Since(startNano) \/ \E v \in Writers : add'[v].at = "swap"
    BY <1>14, <1>15 DEF RateIInv, BytesKept
  <1>18. BytesKept'
    BY <1>1, <1>2, <1>6, <1>11, <1>12, <1>15, <1>16, <1>17 DEF RateIInv, BytesKept
  <1> QED
    BY <1>4, <1>10, <1>18 DEF RateIInv

LEMMA RateNextKeeps == RateIInv /\ [RateNext]_rateVars => RateIInv'
  <1> SUFFICES ASSUME RateIInv, [RateNext]_rateVars PROVE RateIInv'
    OBVIOUS
  <1>1. CASE RateTick
    BY <1>1, RateTickKeeps
  <1>2. CASE \E w \in Writers : LoadStart(w) \/ CompareAndSwap(w) \/ SwapCur(w) \/ StorePrev(w) \/ AddCur(w)
    BY <1>2, LoadKeeps, CompareAndSwapKeeps, SwapKeeps, StoreKeeps, AddKeeps
  <1>3. CASE UNCHANGED rateVars
    <2>1. /\ tick' = tick /\ startNano' = startNano /\ cur' = cur /\ prev' = prev /\ add' = add
          /\ written' = written
      BY <1>3 DEF rateVars
    <2> QED
      BY <2>1 DEF RateIInv, RateTypeOK, OneRolls, BytesKept, Pending, Busy, Rolling, Since
  <1> QED
    BY <1>1, <1>2, <1>3 DEF RateNext

LEMMA RateKept == RateSpec => []RateIInv
  <1> QED
    BY RateStart, RateNextKeeps, PTL DEF RateSpec

\* What the invariant says of a moment when nobody adds.
LEMMA RateSound == RateIInv => RateHonest
  <1> SUFFICES ASSUME RateIInv, Quiescent PROVE RateHonest
    BY DEF RateHonest, NothingInvented, SilentReadsZero
  <1> USE RateAssumption
  <1>1. tick \in Nat /\ startNano \in Nat /\ startNano <= tick /\ cur \in Nat /\ prev \in Nat
    BY DEF RateIInv, RateTypeOK, OneRolls, Ticks
  <1>2. Pending = 0
    <2>1. Busy = {}
      BY DEF Busy, Quiescent
    <2> QED
      BY <2>1, FS_EmptySet DEF Pending
  <1>3. /\ Since(0) = written[tick] /\ Since(startNano) \in Int /\ Since(startNano + 1) \in Int
        /\ written[tick] \in Nat
    BY <1>1, SinceIs DEF RateIInv, RateTypeOK
  <1>4. /\ cur + prev <= written[tick] /\ cur >= Since(startNano + 1) /\ cur <= Since(startNano)
        /\ startNano > 0 => Since(startNano) > Since(startNano + 1)
        /\ startNano = 0 => prev = 0
    BY <1>1, <1>2, <1>3 DEF RateIInv, BytesKept, Quiescent
  <1>5. NothingInvented
    BY <1>1, <1>3, <1>4 DEF NothingInvented
  <1> DEFINE first == tick - 2 * Window + 1
  <1>6. ASSUME Since(first) = 0 PROVE Rate = 0
    <2>1. first \in Int /\ (Elapsed < 2 * Window => first <= startNano)
      BY <1>1 DEF Elapsed
    <2> HIDE DEF first
    <2>2. CASE Elapsed >= 2 * Window
      BY <2>2, <1>1 DEF Rate, Elapsed
    <2>3. ASSUME Elapsed < 2 * Window PROVE cur = 0 /\ prev = 0
      <3>1. Since(startNano) = 0
        <4>1. CASE startNano = 0
          BY <4>1, <2>1, <2>3, <1>1, <1>3, <1>6, SinceIs DEF RateIInv
        <4>2. CASE startNano > 0 /\ first <= 0
          <5>1. Since(first) = written[tick] /\ Since(startNano) = written[tick] - written[startNano - 1]
            BY <4>2, <2>1, <1>1, SinceIs DEF RateIInv
          <5>2. startNano - 1 \in 0..tick /\ tick \in 0..tick /\ startNano - 1 \in Ticks
            BY <4>2, <1>1 DEF RateIInv, RateTypeOK, Ticks
          <5>3. written[startNano - 1] <= written[tick] /\ written[startNano - 1] \in Nat
            BY <5>2, <1>1 DEF RateIInv, RateTypeOK, BytesKept
          <5> QED
            BY <5>1, <5>3, <1>3, <1>6
        <4>3. CASE startNano > 0 /\ first > 0
          <5>1. /\ Since(first) = written[tick] - written[first - 1]
                /\ Since(startNano) = written[tick] - written[startNano - 1]
            BY <4>3, <2>1, <2>3, <1>1, SinceIs DEF RateIInv
          <5>2. /\ startNano - 1 \in 0..tick /\ first - 1 \in 0..tick /\ first - 1 <= startNano - 1
                /\ tick \in 0..tick /\ startNano - 1 \in Ticks /\ first - 1 \in Ticks
            BY <4>3, <1>1, <2>1, <2>3 DEF RateIInv, RateTypeOK, Ticks
          <5>3. written[first - 1] <= written[startNano - 1] /\ written[startNano - 1] <= written[tick]
            BY <5>2, <1>1 DEF RateIInv, BytesKept
          <5>4. written[first - 1] \in Nat /\ written[startNano - 1] \in Nat
            BY <5>2 DEF RateIInv, RateTypeOK
          <5> QED
            BY <5>1, <5>3, <5>4, <1>3, <1>6
        <4> QED
          BY <4>1, <4>2, <4>3, <1>1, <2>1
      <3>2. Since(startNano + 1) >= 0
        <4>1. startNano \in 0..tick /\ tick \in 0..tick /\ startNano + 1 \in Int /\ startNano \in Ticks
          BY <1>1 DEF RateIInv, RateTypeOK
        <4>2. written[startNano] <= written[tick] /\ written[startNano] \in Nat
          BY <4>1, <1>1 DEF RateIInv, RateTypeOK, BytesKept
        <4> QED
          BY <4>1, <4>2, <1>1, <1>3, SinceIs DEF RateIInv
      <3> QED
        BY <3>1, <3>2, <1>1, <1>3, <1>4
    <2>4. CASE Elapsed < 2 * Window
      <3>1. cur = 0 /\ prev = 0
        BY <2>3, <2>4
      <3>2. cur * Window = 0 /\ prev * (Window - Elapsed) = 0
        BY <3>1, <1>1 DEF Elapsed
      <3> QED
        BY <2>4, <3>1, <3>2, <1>1 DEF Rate, Elapsed
    <2> QED
      BY <2>2, <2>4, <1>1 DEF Elapsed
  <1>7. SilentReadsZero
    BY <1>6 DEF SilentReadsZero
  <1> QED
    BY <1>5, <1>7 DEF RateHonest

\* The rates of the status page: whichever writers race for the roll of a bucket,
\* the two buckets hold what was written since the current one began and no more
\* than was ever written, and a stream that was silent for two windows reads zero,
\* for any writers, window and clock (rollingRate's add and rate).
THEOREM RatesHonest == RateSpec => []RateHonest
  <1> QED
    BY RateKept, RateSound, PTL

-----------------------------------------------------------------------------
(* ModelSize.  The estimate adds up layer by layer what the reference      *)
(* counts cell by cell.                                                    *)

\* What holds of 0 and of each number after one of which it holds.
LEMMA Upward ==
  ASSUME NEW n \in Nat, NEW S, 0 \in S, \A i \in 1..n : i - 1 \in S => i \in S
  PROVE  \A i \in 0..n : i \in S
<1> DEFINE Bad == {i \in 0..n : i \notin S}
<1>1. SUFFICES ASSUME Bad # {} PROVE FALSE
  OBVIOUS
<1>2. PICK i \in Bad : \A j \in Bad : <<j, i>> \notin OpToRel(<, Nat)
  <2>1. Bad \in SUBSET Nat
    OBVIOUS
  <2> QED
    BY <1>1, <2>1, NatLessThanWellFounded, WFMin
<1>3. i \in 1..n /\ i - 1 \in 0..n
  OBVIOUS
<1>4. i - 1 \in Bad
  BY <1>2, <1>3
<1>5. <<i - 1, i>> \in OpToRel(<, Nat)
  BY <1>3 DEF OpToRel
<1> QED
  BY <1>2, <1>4, <1>5

\* The loop of SumTo, up to n.
Running(g, s, n) == g = [i \in 0..n |-> IF i = 0 THEN 0 ELSE g[i - 1] + s[i]]

LEMMA SumIsRunning ==
  ASSUME NEW n, NEW s
  PROVE  SumTo(n, s) = (CHOOSE g : Running(g, s, n))[n]
  BY DEF SumTo, Running

\* The loop has a result, however long.
LEMMA RunningExists == ASSUME NEW n \in Nat, NEW s PROVE \E g : Running(g, s, n)
<1> DEFINE S == {i \in 0..n : \E g : Running(g, s, i)}
<1>1. 0 \in S
  <2>1. Running([i \in 0..0 |-> 0], s, 0)
    BY DEF Running
  <2> QED
    BY <2>1
<1>2. ASSUME NEW k \in 1..n, k - 1 \in S PROVE k \in S
  <2>1. PICK g : Running(g, s, k - 1)
    BY <1>2
  <2> DEFINE h == [i \in 0..k |-> IF i = k THEN g[k - 1] + s[k] ELSE g[i]]
  <2>2. \A i \in 0..k : h[i] = IF i = 0 THEN 0 ELSE h[i - 1] + s[i]
    <3> SUFFICES ASSUME NEW i \in 0..k PROVE h[i] = IF i = 0 THEN 0 ELSE h[i - 1] + s[i]
      OBVIOUS
    <3>1. CASE i = k
      <4>1. h[k] = g[k - 1] + s[k] /\ h[k - 1] = g[k - 1] /\ k # 0
        OBVIOUS
      <4> QED
        BY <3>1, <4>1
    <3>2. CASE i # k
      <4>1. i \in 0..(k - 1) /\ h[i] = g[i]
        BY <3>2
      <4>2. i # 0 => i - 1 \in 0..(k - 1) /\ h[i - 1] = g[i - 1]
        BY <3>2
      <4>3. g[i] = IF i = 0 THEN 0 ELSE g[i - 1] + s[i]
        BY <2>1, <4>1 DEF Running
      <4> QED
        BY <4>1, <4>2, <4>3
    <3> QED
      BY <3>1, <3>2
  <2>3. h = [i \in 0..k |-> h[i]]
    OBVIOUS
  <2> HIDE DEF h
  <2>4. Running(h, s, k)
    BY <2>2, <2>3 DEF Running
  <2> QED
    BY <2>4
<1> HIDE DEF S
<1>3. n \in S
  BY <1>1, <1>2, Upward
<1> QED
  BY <1>3 DEF S

\* The sums up to each number, one after the other.
LEMMA SumRuns ==
  ASSUME NEW n \in Nat, NEW s
  PROVE  \E g : g[0] = 0 /\ SumTo(n, s) = g[n] /\ \A i \in 1..n : g[i] = g[i - 1] + s[i]
<1> DEFINE g == CHOOSE g : Running(g, s, n)
<1>1. Running(g, s, n) /\ SumTo(n, s) = g[n]
  BY RunningExists, SumIsRunning
<1> HIDE DEF g
<1>2. \A i \in 0..n : g[i] = IF i = 0 THEN 0 ELSE g[i - 1] + s[i]
  BY <1>1 DEF Running
<1> QED
  BY <1>1, <1>2

\* A sum of natural numbers is one, at least each of them, and nothing if they are.
LEMMA SumOfNaturals ==
  ASSUME NEW n \in Nat, NEW s, \A i \in 1..n : s[i] \in Nat
  PROVE  /\ SumTo(n, s) \in Nat
         /\ \A i \in 1..n : s[i] <= SumTo(n, s)
         /\ (\A i \in 1..n : s[i] = 0) => SumTo(n, s) = 0
<1>1. PICK g : g[0] = 0 /\ SumTo(n, s) = g[n] /\ \A i \in 1..n : g[i] = g[i - 1] + s[i]
  BY SumRuns
<1> DEFINE S == {i \in 0..n : /\ g[i] \in Nat /\ \A j \in 1..i : s[j] <= g[i]
                              /\ (\A j \in 1..i : s[j] = 0) => g[i] = 0}
<1>2. 0 \in S
  BY <1>1
<1>3. ASSUME NEW i \in 1..n, i - 1 \in S PROVE i \in S
  <2>1. g[i] = g[i - 1] + s[i] /\ g[i - 1] \in Nat /\ s[i] \in Nat
    BY <1>1, <1>3
  <2>2. \A j \in 1..i : j = i \/ j \in 1..(i - 1)
    OBVIOUS
  <2>3. \A j \in 1..(i - 1) : s[j] <= g[i - 1] /\ j \in 1..n /\ s[j] \in Nat /\ j \in 1..i
    BY <1>3
  <2>4. \A j \in 1..i : s[j] <= g[i]
    BY <2>1, <2>2, <2>3
  <2>5. (\A j \in 1..i : s[j] = 0) => g[i] = 0
    BY <1>3, <2>1, <2>3
  <2>6. g[i] \in Nat
    BY <2>1
  <2> QED
    BY <2>4, <2>5, <2>6
<1> HIDE DEF S
<1>4. n \in S
  BY <1>2, <1>3, Upward
<1> QED
  BY <1>1, <1>4 DEF S

\* Greater numbers have a greater sum.
LEMMA SumMonotone ==
  ASSUME NEW n \in Nat, NEW s, NEW t, \A i \in 1..n : s[i] \in Nat /\ t[i] \in Nat /\ s[i] <= t[i]
  PROVE  SumTo(n, s) <= SumTo(n, t)
<1>1. PICK g : g[0] = 0 /\ SumTo(n, s) = g[n] /\ \A i \in 1..n : g[i] = g[i - 1] + s[i]
  BY SumRuns
<1>2. PICK h : h[0] = 0 /\ SumTo(n, t) = h[n] /\ \A i \in 1..n : h[i] = h[i - 1] + t[i]
  BY SumRuns
<1> DEFINE S == {i \in 0..n : g[i] \in Nat /\ h[i] \in Nat /\ g[i] <= h[i]}
<1>3. 0 \in S
  BY <1>1, <1>2
<1>4. ASSUME NEW i \in 1..n, i - 1 \in S PROVE i \in S
  <2>1. g[i] = g[i - 1] + s[i] /\ h[i] = h[i - 1] + t[i]
    BY <1>1, <1>2
  <2>2. g[i - 1] \in Nat /\ h[i - 1] \in Nat /\ g[i - 1] <= h[i - 1]
    BY <1>4
  <2>3. s[i] \in Nat /\ t[i] \in Nat /\ s[i] <= t[i]
    OBVIOUS
  <2> QED
    BY <2>1, <2>2, <2>3
<1> HIDE DEF S
<1>5. n \in S
  BY <1>3, <1>4, Upward
<1> QED
  BY <1>1, <1>2, <1>5 DEF S

\* A sum of multiples is a multiple of the sum.
Weighed(x, a, y, b) == x * a + y * b

LEMMA WeighedSum ==
  ASSUME NEW a \in Nat, NEW b \in Nat, NEW x \in Nat, NEW y \in Nat, NEW p \in Nat, NEW q \in Nat
  PROVE  /\ Weighed(x, a, y, b) + Weighed(p, a, q, b) = Weighed(x + p, a, y + q, b)
         /\ Weighed(0, a, 0, b) = 0
<1>1. (x * a + y * b) + (p * a + q * b) = (x + p) * a + (y + q) * b
  OBVIOUS
<1>2. 0 * a + 0 * b = 0
  OBVIOUS
<1> QED
  BY <1>1, <1>2 DEF Weighed

LEMMA SumLinear ==
  ASSUME NEW n \in Nat, NEW a \in Nat, NEW b \in Nat, NEW s, NEW t, NEW u,
         \A i \in 1..n : s[i] \in Nat /\ t[i] \in Nat /\ u[i] = Weighed(s[i], a, t[i], b)
  PROVE  SumTo(n, u) = Weighed(SumTo(n, s), a, SumTo(n, t), b)
<1>1. PICK g : g[0] = 0 /\ SumTo(n, s) = g[n] /\ \A i \in 1..n : g[i] = g[i - 1] + s[i]
  BY SumRuns
<1>2. PICK h : h[0] = 0 /\ SumTo(n, t) = h[n] /\ \A i \in 1..n : h[i] = h[i - 1] + t[i]
  BY SumRuns
<1>3. PICK f : f[0] = 0 /\ SumTo(n, u) = f[n] /\ \A i \in 1..n : f[i] = f[i - 1] + u[i]
  BY SumRuns
<1> DEFINE S == {i \in 0..n : g[i] \in Nat /\ h[i] \in Nat /\ f[i] = Weighed(g[i], a, h[i], b)}
<1>4. 0 \in S
  <2>1. Weighed(0, a, 0, b) = 0
    BY WeighedSum
  <2> QED
    BY <2>1, <1>1, <1>2, <1>3
<1>5. ASSUME NEW i \in 1..n, i - 1 \in S PROVE i \in S
  <2>1. PICK x \in Nat, y \in Nat, p \in Nat, q \in Nat : x = g[i - 1] /\ y = h[i - 1] /\ p = s[i] /\ q = t[i]
    BY <1>5
  <2>2. g[i] = x + p /\ h[i] = y + q /\ f[i] = f[i - 1] + u[i]
    BY <1>1, <1>2, <1>3, <2>1
  <2>3. f[i - 1] = Weighed(x, a, y, b) /\ u[i] = Weighed(p, a, q, b)
    BY <1>5, <2>1
  <2>4. Weighed(x, a, y, b) + Weighed(p, a, q, b) = Weighed(x + p, a, y + q, b)
    BY WeighedSum
  <2>5. g[i] \in Nat /\ h[i] \in Nat
    BY <2>1, <2>2
  <2>6. f[i] = Weighed(g[i], a, h[i], b)
    BY <2>2, <2>3, <2>4
  <2> QED
    BY <2>5, <2>6
<1> HIDE DEF S
<1>6. n \in S
  BY <1>4, <1>5, Upward
<1> QED
  BY <1>1, <1>2, <1>3, <1>6 DEF S

\* What lies in sets that have nothing in common, all together.
LEMMA SumOfCardinalities ==
  ASSUME NEW n \in Nat, NEW C, NEW s, \A i \in 1..n : IsFiniteSet(C[i]) /\ s[i] = Cardinality(C[i]),
         \A i, j \in 1..n : i # j => C[i] \cap C[j] = {}
  PROVE  Cardinality(UNION {C[i] : i \in 1..n}) = SumTo(n, s)
<1>1. PICK g : g[0] = 0 /\ SumTo(n, s) = g[n] /\ \A i \in 1..n : g[i] = g[i - 1] + s[i]
  BY SumRuns
<1> DEFINE U(k) == UNION {C[i] : i \in 1..k}
           S == {k \in 0..n : IsFiniteSet(U(k)) /\ Cardinality(U(k)) = g[k]}
<1>2. 0 \in S
  <2>1. U(0) = {}
    OBVIOUS
  <2> QED
    BY <1>1, <2>1, FS_EmptySet
<1>3. ASSUME NEW k \in 1..n, k - 1 \in S PROVE k \in S
  <2>1. \A i : i \in 1..k <=> i \in 1..(k - 1) \/ i = k
    OBVIOUS
  <2>2. PICK V : V = U(k - 1)
    OBVIOUS
  <2>3. U(k) = V \cup C[k]
    BY <2>1, <2>2
  <2>4. V \cap C[k] = {}
    <3>1. \A i \in 1..(k - 1) : i \in 1..n /\ i # k
      OBVIOUS
    <3> QED
      BY <2>2, <3>1
  <2>5. IsFiniteSet(V) /\ Cardinality(V) = g[k - 1] /\ IsFiniteSet(C[k]) /\ Cardinality(C[k]) = s[k]
    BY <1>3, <2>2
  <2>6. /\ IsFiniteSet(V \cup C[k])
        /\ Cardinality(V \cup C[k]) = Cardinality(V) + Cardinality(C[k]) - Cardinality(V \cap C[k])
    BY <2>5, FS_Union
  <2>7. Cardinality(V \cap C[k]) = 0
    BY <2>4, FS_EmptySet
  <2>8. Cardinality(V) \in Nat /\ Cardinality(C[k]) \in Nat
    BY <2>5, FS_CardinalityType
  <2>9. Cardinality(V \cup C[k]) = g[k]
    BY <1>1, <2>5, <2>6, <2>7, <2>8
  <2> HIDE DEF U
  <2>10. IsFiniteSet(U(k)) /\ Cardinality(U(k)) = g[k]
    BY <2>3, <2>6, <2>9, Zenon
  <2>11. k \in 0..n
    OBVIOUS
  <2> QED
    BY <2>10, <2>11
<1> HIDE DEF S
<1>4. n \in S
  BY <1>2, <1>3, Upward
<1> QED
  BY <1>1, <1>4 DEF S

\* A set of numbers that is not empty has a least one.
LEMMA LeastNumber ==
  ASSUME NEW S \in SUBSET Nat, S # {}
  PROVE  \E x \in S : \A y \in S : x <= y
<1>1. PICK x \in S : \A y \in S : <<y, x>> \notin OpToRel(<, Nat)
  BY NatLessThanWellFounded, WFMin
<1>2. \A y \in S : ~(y < x)
  BY <1>1 DEF OpToRel
<1> QED
  BY <1>2

\* A set of numbers up to n that is not empty has a greatest one.
LEMMA GreatestNumber ==
  ASSUME NEW n \in Nat, NEW S \in SUBSET (1 .. n), S # {}
  PROVE  Max(S) \in S /\ \A y \in S : Max(S) >= y
<1> DEFINE D == {n - x : x \in S}
<1>1. \A x \in S : x \in Nat /\ n - x \in Nat
  OBVIOUS
<1>2. D \in SUBSET Nat /\ D # {}
  BY <1>1
<1> HIDE DEF D
<1>3. PICK d \in D : \A y \in D : d <= y
  BY <1>2, LeastNumber
<1> USE DEF D
<1>4. PICK x \in S : d = n - x
  BY <1>3
<1>5. \A y \in S : n - x <= n - y
  BY <1>3, <1>4
<1>6. \A y \in S : x >= y
  BY <1>1, <1>5
<1>7. Max(S) = CHOOSE m \in S : \A y \in S : m >= y
  BY DEF Max
<1> QED
  BY <1>6, <1>7

\* What was read of a header holds what headers hold.
TypedMd(md) == \A k \in DOMAIN md : Typed(md[k])

LEMMA MetadataTyped ==
  ASSUME NEW m \in Models, ReadsWell(m.header)
  PROVE  TypedMd(Metadata(m.header))
<1> DEFINE header == m.header
           read == SubSeq(header.entries, 1, header.count)
           md == Metadata(header)
           At(k) == SelectLastInSeq(read, LAMBDA e : e.key = k)
<1>1. /\ header.count \in Nat /\ header.entries \in Seq(Range(header.entries))
      /\ \A e \in Range(header.entries) : Typed(e.value)
      /\ header.count <= Len(header.entries)
  BY ModelSizeAssumption DEF ReadsWell
<1>2. /\ Len(read) = header.count /\ DOMAIN read = 1..header.count
      /\ \A i \in 1..header.count : read[i] = header.entries[i] /\ read[i] \in Range(header.entries)
  <2>1. /\ Len(read) = header.count
        /\ \A i \in 1..header.count : read[i] = header.entries[i] /\ i \in 1..Len(header.entries)
    BY <1>1
  <2>2. \A i \in 1..Len(header.entries) : header.entries[i] \in Range(header.entries)
    BY <1>1 DEF Range
  <2>3. DOMAIN read = 1..header.count
    BY <1>1
  <2> QED
    BY <2>1, <2>2, <2>3
<1> HIDE DEF header
<1>3. md = [k \in {e.key : e \in Range(read)} |-> read[At(k)].value]
  BY DEF Metadata
<1>4. ASSUME NEW k \in {e.key : e \in Range(read)} PROVE At(k) \in 1..header.count
  <2> DEFINE I == {i \in 1..Len(read) : read[i].key = k}
  <2>1. I \in SUBSET (1..header.count)
    BY <1>2
  <2>2. I # {}
    <3>1. PICK e \in Range(read) : e.key = k
      OBVIOUS
    <3>2. PICK i \in DOMAIN read : read[i] = e
      BY <3>1 DEF Range
    <3>3. i \in I
      BY <1>2, <3>1, <3>2
    <3> QED
      BY <3>3
  <2>3. At(k) = Max(I)
    BY <2>2 DEF SelectLastInSeq
  <2> HIDE DEF I
  <2>4. Max(I) \in I
    BY <1>1, <2>1, <2>2, GreatestNumber
  <2> QED
    BY <2>1, <2>3, <2>4
<1> HIDE DEF At, read
<1>5. ASSUME NEW k \in DOMAIN md PROVE Typed(md[k])
  <2>1. k \in {e.key : e \in Range(read)} /\ md[k] = read[At(k)].value
    BY <1>3
  <2>2. At(k) \in 1..header.count
    BY <1>4, <2>1
  <2> QED
    BY <1>1, <1>2, <2>1, <2>2
<1> QED
  BY <1>5 DEF TypedMd, header

\* An integer of a header, or the default.
LEMMA IntRead ==
  ASSUME NEW md, TypedMd(md), NEW suffix, NEW default \in Nat
  PROVE  ArchInt(md, suffix, default) \in Nat
<1>1. CASE Has(md, "int", suffix)
  <2>1. Typed(md[ArchKey(md, suffix)]) /\ md[ArchKey(md, suffix)].is = "int"
    BY <1>1 DEF TypedMd, Has
  <2>2. md[ArchKey(md, suffix)].v \in Nat
    BY <2>1 DEF Typed
  <2> QED
    BY <1>1, <2>2 DEF ArchInt, Get
<1>2. CASE ~Has(md, "int", suffix)
  BY <1>2 DEF ArchInt, Get
<1> QED
  BY <1>1, <1>2

\* The pattern of the sliding layers.
LEMMA PatternRead ==
  ASSUME NEW md, TypedMd(md)
  PROVE  Get(md, "bools", "sliding_window_pattern", <<>>) \in Seq(BOOLEAN)
<1> DEFINE suffix == "sliding_window_pattern"
<1>1. CASE Has(md, "bools", suffix)
  <2>1. Typed(md[ArchKey(md, suffix)]) /\ md[ArchKey(md, suffix)].is = "bools"
    BY <1>1 DEF TypedMd, Has
  <2>2. md[ArchKey(md, suffix)].v \in Seq(BOOLEAN)
    BY <2>1 DEF Typed
  <2> QED
    BY <1>1, <2>2 DEF Get
<1>2. CASE ~Has(md, "bools", suffix)
  BY <1>2 DEF Get
<1> QED
  BY <1>1, <1>2

\* The heads of the layers.
LEMMA HeadsRead ==
  ASSUME NEW md, TypedMd(md)
  PROVE  KVHeads(md) \in Seq(Nat)
<1> DEFINE suffix == "head_count_kv"
<1>1. CASE Has(md, "int", suffix)
  <2>1. ArchInt(md, suffix, 0) \in Nat
    BY IntRead
  <2> QED
    BY <1>1, <2>1 DEF KVHeads
<1>2. CASE ~Has(md, "int", suffix) /\ Has(md, "ints", suffix)
  <2>1. Typed(md[ArchKey(md, suffix)]) /\ md[ArchKey(md, suffix)].is = "ints"
    BY <1>2 DEF TypedMd, Has
  <2>2. md[ArchKey(md, suffix)].v \in Seq(Nat)
    BY <2>1 DEF Typed
  <2> QED
    BY <1>2, <2>2 DEF Get, KVHeads
<1>3. CASE ~Has(md, "int", suffix) /\ ~Has(md, "ints", suffix)
  BY <1>3 DEF Get, KVHeads
<1> QED
  BY <1>1, <1>2, <1>3

\* The dimension of a head.
LEMMA DimRead ==
  ASSUME NEW md, TypedMd(md), GeometryKnown(md), NEW suffix
  PROVE  HeadDim(md, suffix) \in Nat
<1>1. CASE Lengths(md)
  BY <1>1, IntRead DEF HeadDim
<1>2. CASE ~Lengths(md)
  <2>1. ArchInt(md, "head_count", 0) # 0
    BY <1>2 DEF GeometryKnown
  <2>2. PICK a \in Nat, b \in Nat \ {0} : a = ArchInt(md, "embedding_length", 0) /\ b = ArchInt(md, "head_count", 0)
    BY <2>1, IntRead
  <2>3. a \div b \in Nat
    OBVIOUS
  <2> QED
    BY <1>2, <2>2, <2>3 DEF HeadDim
<1> QED
  BY <1>1, <1>2

\* The head count of a layer is the one of its own or the one of all.
LEMMA HeadsOfLayer ==
  ASSUME NEW md, TypedMd(md), GeometryKnown(md), NEW i \in 1..ArchInt(md, "block_count", 0)
  PROVE  LET heads == KVHeads(md)
         IN  /\ heads[IF Len(heads) > 1 THEN i ELSE 1] \in Nat
             /\ heads[IF Len(heads) > 1 THEN i ELSE 1] = heads[IF Len(heads) = 1 THEN 1 ELSE i]
<1> DEFINE heads == KVHeads(md)
<1>1. heads \in Seq(Nat)
  BY HeadsRead
<1>2. Len(heads) = 1 \/ Len(heads) >= ArchInt(md, "block_count", 0)
  BY DEF GeometryKnown
<1>3. ArchInt(md, "block_count", 0) \in Nat
  BY IntRead
<1> HIDE DEF heads
<1>4. i \in Nat /\ Len(heads) \in Nat /\ Len(heads) >= 1 /\ (Len(heads) # 1 => i <= Len(heads) /\ i >= 1)
  BY <1>1, <1>2, <1>3
<1>5. PICK k : k = IF Len(heads) > 1 THEN i ELSE 1
  OBVIOUS
<1>6. k \in 1..Len(heads) /\ k = IF Len(heads) = 1 THEN 1 ELSE i
  <2>1. PICK l \in Nat : l = Len(heads)
    BY <1>4
  <2>2. CASE l = 1
    <3>1. k = 1
      BY <1>5, <2>1, <2>2
    <3> QED
      BY <2>1, <2>2, <3>1
  <2>3. CASE l # 1
    <3>1. l > 1
      BY <1>4, <2>1, <2>3
    <3>2. k = i
      BY <1>5, <2>1, <3>1
    <3> QED
      BY <1>4, <2>1, <2>3, <3>2
  <2> QED
    BY <2>2, <2>3
<1>7. heads[k] \in Nat
  BY <1>1, <1>6
<1> QED
  BY <1>5, <1>6, <1>7 DEF heads

\* The code and the reference agree on which layers slide.
LEMMA SlidingIsSlides ==
  ASSUME NEW md, TypedMd(md), NEW i \in Nat \ {0}
  PROVE  Sliding(md, i) <=> Slides(md, i)
<1>1. PICK pattern \in Seq(BOOLEAN) : pattern = Get(md, "bools", "sliding_window_pattern", <<>>)
  BY PatternRead
<1>2. ArchInt(md, "sliding_window", 0) > 0 <=> ArchInt(md, "sliding_window", 0) # 0
  <2>1. ArchInt(md, "sliding_window", 0) \in Nat
    BY IntRead
  <2> QED
    BY <2>1
<1>3. i \in DOMAIN pattern <=> i <= Len(pattern)
  BY <1>1
<1> QED
  BY <1>1, <1>2, <1>3 DEF Sliding, Slides

\* What a layer keeps of ctx tokens.
LEMMA TokensKept ==
  ASSUME NEW md, TypedMd(md), NEW i \in Nat \ {0}, NEW ctx \in Nat
  PROVE  LET window == ArchInt(md, "sliding_window", 0)
             kept == IF Sliding(md, i) /\ window < ctx THEN window ELSE ctx
         IN  kept \in Nat /\ IsFiniteSet(Kept(md, i, ctx)) /\ Cardinality(Kept(md, i, ctx)) = kept
<1>1. PICK window \in Nat : window = ArchInt(md, "sliding_window", 0)
  BY IntRead
<1>2. Kept(md, i, ctx) = IF Sliding(md, i) THEN {t \in 1..ctx : t + window > ctx} ELSE 1..ctx
  BY <1>1, SlidingIsSlides DEF Kept
<1>3. IsFiniteSet(1..ctx) /\ Cardinality(1..ctx) = ctx
  <2>1. IsFiniteSet(1..ctx) /\ Cardinality(1..ctx) = IF 1 > ctx THEN 0 ELSE ctx - 1 + 1
    BY FS_Interval
  <2> QED
    BY <2>1
<1>4. CASE Sliding(md, i) /\ window < ctx
  <2>1. PICK low \in Nat : low = ctx - window + 1
    BY <1>4
  <2>2. {t \in 1..ctx : t + window > ctx} = low..ctx
    BY <1>4, <2>1
  <2>3. IsFiniteSet(low..ctx) /\ Cardinality(low..ctx) = IF low > ctx THEN 0 ELSE ctx - low + 1
    BY FS_Interval
  <2>4. Cardinality(low..ctx) = window
    BY <1>4, <2>1, <2>3
  <2>5. Kept(md, i, ctx) = low..ctx
    BY <1>2, <1>4, <2>2
  <2> QED
    BY <1>1, <1>4, <2>3, <2>4, <2>5
<1>5. CASE ~(Sliding(md, i) /\ window < ctx)
  <2>1. Sliding(md, i) => {t \in 1..ctx : t + window > ctx} = 1..ctx
    BY <1>5
  <2>2. Kept(md, i, ctx) = 1..ctx
    BY <1>2, <2>1
  <2> QED
    BY <1>1, <1>3, <1>5, <2>2
<1> QED
  BY <1>4, <1>5

\* The cells of a layer, for its keys or for its values.
LEMMA CellsOfLayer ==
  ASSUME NEW md, TypedMd(md), GeometryKnown(md), NEW i \in 1..ArchInt(md, "block_count", 0),
         NEW ctx \in Nat, NEW length, NEW lengthSWA
  PROVE  LET window == ArchInt(md, "sliding_window", 0)
             kept == IF Sliding(md, i) /\ window < ctx THEN window ELSE ctx
             heads == KVHeads(md)
             cells == LayerCells(md, i, ctx, length, lengthSWA)
         IN  /\ IsFiniteSet(cells)
             /\ VectorLength(md, i, length, lengthSWA) \in Nat
             /\ Cardinality(cells) = kept * (heads[IF Len(heads) > 1 THEN i ELSE 1]
                                             * VectorLength(md, i, length, lengthSWA))
<1>0. i \in Nat \ {0}
  <2>1. ArchInt(md, "block_count", 0) \in Nat
    BY IntRead
  <2> QED
    BY <2>1
<1>1. PICK kept \in Nat : /\ kept = IF Sliding(md, i) /\ ArchInt(md, "sliding_window", 0) < ctx
                                    THEN ArchInt(md, "sliding_window", 0) ELSE ctx
                          /\ IsFiniteSet(Kept(md, i, ctx)) /\ Cardinality(Kept(md, i, ctx)) = kept
  BY <1>0, TokensKept
<1>2. PICK heads : heads = KVHeads(md)
  OBVIOUS
<1>3. PICK h \in Nat : h = heads[IF Len(heads) > 1 THEN i ELSE 1] /\ h = heads[IF Len(heads) = 1 THEN 1 ELSE i]
  BY <1>2, HeadsOfLayer
<1>4. PICK v \in Nat : v = VectorLength(md, i, length, lengthSWA)
  BY DimRead, IntRead DEF VectorLength
<1>5. v = IF Slides(md, i) THEN ArchInt(md, lengthSWA, HeadDim(md, length)) ELSE HeadDim(md, length)
  BY <1>0, <1>4, SlidingIsSlides DEF VectorLength
<1>6. LayerCells(md, i, ctx, length, lengthSWA) = ({i} \X Kept(md, i, ctx)) \X ((1..h) \X (1..v))
  BY <1>2, <1>3, <1>5 DEF LayerCells
<1>7. IsFiniteSet({i}) /\ Cardinality({i}) = 1
  BY FS_Singleton
<1>8. \A n \in Nat : IsFiniteSet(1..n) /\ Cardinality(1..n) = n
  <2> SUFFICES ASSUME NEW n \in Nat PROVE IsFiniteSet(1..n) /\ Cardinality(1..n) = n
    OBVIOUS
  <2>1. IsFiniteSet(1..n) /\ Cardinality(1..n) = IF 1 > n THEN 0 ELSE n - 1 + 1
    BY FS_Interval
  <2> QED
    BY <2>1
<1>9. IsFiniteSet({i} \X Kept(md, i, ctx)) /\ Cardinality({i} \X Kept(md, i, ctx)) = 1 * kept
  BY <1>1, <1>7, FS_Product
<1>10. IsFiniteSet((1..h) \X (1..v)) /\ Cardinality((1..h) \X (1..v)) = h * v
  <2>1. IsFiniteSet(1..h) /\ Cardinality(1..h) = h
    BY <1>8
  <2>2. IsFiniteSet(1..v) /\ Cardinality(1..v) = v
    BY <1>8
  <2>3. /\ IsFiniteSet((1..h) \X (1..v))
        /\ Cardinality((1..h) \X (1..v)) = Cardinality(1..h) * Cardinality(1..v)
    BY <2>1, <2>2, FS_Product
  <2> QED
    BY <2>1, <2>2, <2>3, Zenon
<1>11. /\ IsFiniteSet(({i} \X Kept(md, i, ctx)) \X ((1..h) \X (1..v)))
       /\ Cardinality(({i} \X Kept(md, i, ctx)) \X ((1..h) \X (1..v))) = (1 * kept) * (h * v)
  BY <1>9, <1>10, FS_Product
<1>12. (1 * kept) * (h * v) = kept * (h * v)
  OBVIOUS
<1> QED
  BY <1>1, <1>2, <1>3, <1>4, <1>6, <1>11, <1>12

\* All the cells of a cache, as the sum over its layers.
LEMMA CellsOfCache ==
  ASSUME NEW md, TypedMd(md), GeometryKnown(md), NEW ctx \in Nat, NEW length, NEW lengthSWA, NEW s,
         \A i \in 1..ArchInt(md, "block_count", 0) : s[i] = Cardinality(LayerCells(md, i, ctx, length, lengthSWA))
  PROVE  Cardinality(Cells(md, ctx, length, lengthSWA)) = SumTo(ArchInt(md, "block_count", 0), s)
<1>1. PICK n \in Nat : n = ArchInt(md, "block_count", 0)
  BY IntRead
<1> DEFINE C == [i \in 1..n |-> LayerCells(md, i, ctx, length, lengthSWA)]
<1>2. \A i \in 1..n : C[i] = LayerCells(md, i, ctx, length, lengthSWA)
  OBVIOUS
<1> HIDE DEF C
<1>3. \A i \in 1..n : IsFiniteSet(C[i]) /\ s[i] = Cardinality(C[i])
  <2> SUFFICES ASSUME NEW i \in 1..n PROVE IsFiniteSet(C[i]) /\ s[i] = Cardinality(C[i])
    OBVIOUS
  <2>1. IsFiniteSet(LayerCells(md, i, ctx, length, lengthSWA))
    BY <1>1, CellsOfLayer
  <2> QED
    BY <1>1, <1>2, <2>1
<1>4. \A i \in 1..n : \A c \in C[i] : c[1][1] = i
  BY <1>2 DEF LayerCells
<1>5. \A i, j \in 1..n : i # j => C[i] \cap C[j] = {}
  BY <1>4
<1>6. Cardinality(UNION {C[i] : i \in 1..n}) = SumTo(n, s)
  BY <1>3, <1>5, SumOfCardinalities
<1>7. Cells(md, ctx, length, lengthSWA) = UNION {C[i] : i \in 1..n}
  BY <1>1, <1>2 DEF Cells
<1> QED
  BY <1>1, <1>6, <1>7

\* The cache computed layer by layer is the one counted cell by cell.
LEMMA CacheCounted ==
  ASSUME NEW md, TypedMd(md), GeometryKnown(md), NEW ctx \in Nat, NEW bk \in Nat, NEW bv \in Nat
  PROVE  LET keys == Cardinality(Cells(md, ctx, "key_length", "key_length_swa"))
             values == Cardinality(Cells(md, ctx, "value_length", "value_length_swa"))
         IN  KVCacheBytes(md, ctx, bk, bv) = Weighed(keys, bk, values, bv) \div 32
             /\ KVCacheBytes(md, ctx, bk, bv) \in Nat
<1>1. PICK n \in Nat : n = ArchInt(md, "block_count", 0)
  BY IntRead
<1> DEFINE s == [i \in 1..n |-> Cardinality(LayerCells(md, i, ctx, "key_length", "key_length_swa"))]
           t == [i \in 1..n |-> Cardinality(LayerCells(md, i, ctx, "value_length", "value_length_swa"))]
           u == [i \in 1..n |-> LayerBytes(md, i, ctx, bk, bv)]
<1>2. \A i \in 1..n : /\ s[i] = Cardinality(LayerCells(md, i, ctx, "key_length", "key_length_swa"))
                      /\ t[i] = Cardinality(LayerCells(md, i, ctx, "value_length", "value_length_swa"))
                      /\ u[i] = LayerBytes(md, i, ctx, bk, bv)
  OBVIOUS
<1>3. KVCacheBytes(md, ctx, bk, bv) = SumTo(n, u) \div 32
  BY <1>1 DEF KVCacheBytes
<1> HIDE DEF s, t, u
<1>4. \A i \in 1..n : s[i] \in Nat /\ t[i] \in Nat /\ u[i] = Weighed(s[i], bk, t[i], bv)
  <2> SUFFICES ASSUME NEW i \in 1..n PROVE s[i] \in Nat /\ t[i] \in Nat /\ u[i] = Weighed(s[i], bk, t[i], bv)
    OBVIOUS
  <2>0. i \in Nat \ {0} /\ i \in 1..ArchInt(md, "block_count", 0)
    BY <1>1
  <2>1. PICK kept \in Nat : kept = IF Sliding(md, i) /\ ArchInt(md, "sliding_window", 0) < ctx
                                   THEN ArchInt(md, "sliding_window", 0) ELSE ctx
    BY <2>0, TokensKept
  <2>2. PICK heads : heads = KVHeads(md)
    OBVIOUS
  <2>3. PICK h \in Nat : h = heads[IF Len(heads) > 1 THEN i ELSE 1]
    BY <2>0, <2>2, HeadsOfLayer
  <2>4. PICK x \in Nat : x = VectorLength(md, i, "key_length", "key_length_swa")
    BY <2>0, CellsOfLayer
  <2>5. PICK y \in Nat : y = VectorLength(md, i, "value_length", "value_length_swa")
    BY <2>0, CellsOfLayer
  <2>6. u[i] = kept * h * (x * bk + y * bv)
    BY <1>2, <2>1, <2>2, <2>3, <2>4, <2>5 DEF LayerBytes
  <2>7. s[i] = kept * (h * x)
    <3>1. Cardinality(LayerCells(md, i, ctx, "key_length", "key_length_swa"))
          = kept * (h * x)
      BY <2>0, <2>1, <2>2, <2>3, <2>4, CellsOfLayer
    <3> QED
      BY <1>2, <3>1
  <2>8. t[i] = kept * (h * y)
    <3>1. Cardinality(LayerCells(md, i, ctx, "value_length", "value_length_swa"))
          = kept * (h * y)
      BY <2>0, <2>1, <2>2, <2>3, <2>5, CellsOfLayer
    <3> QED
      BY <1>2, <3>1
  <2>9. kept * h * (x * bk + y * bv) = (kept * (h * x)) * bk + (kept * (h * y)) * bv
    OBVIOUS
  <2>10. kept * (h * x) \in Nat /\ kept * (h * y) \in Nat
    OBVIOUS
  <2>11. u[i] = Weighed(kept * (h * x), bk, kept * (h * y), bv)
    BY <2>6, <2>9, Zenon DEF Weighed
  <2> QED
    BY <2>7, <2>8, <2>10, <2>11, Zenon
<1>5. SumTo(n, u) = Weighed(SumTo(n, s), bk, SumTo(n, t), bv)
  BY <1>4, SumLinear, SMTT(60)
<1>6. Cardinality(Cells(md, ctx, "key_length", "key_length_swa")) = SumTo(n, s)
  BY <1>1, <1>2, CellsOfCache
<1>7. Cardinality(Cells(md, ctx, "value_length", "value_length_swa")) = SumTo(n, t)
  BY <1>1, <1>2, CellsOfCache
<1>8. SumTo(n, s) \in Nat /\ SumTo(n, t) \in Nat
  <2>1. \A i \in 1..n : s[i] \in Nat
    BY <1>4
  <2>2. \A i \in 1..n : t[i] \in Nat
    BY <1>4
  <2> QED
    BY <2>1, <2>2, SumOfNaturals
<1>9. Weighed(SumTo(n, s), bk, SumTo(n, t), bv) \in Nat
  BY <1>8 DEF Weighed
<1>10. \A k \in Nat : k \div 32 \in Nat
  OBVIOUS
<1>11. KVCacheBytes(md, ctx, bk, bv) = Weighed(SumTo(n, s), bk, SumTo(n, t), bv) \div 32
  BY <1>3, <1>5
<1> QED
  BY <1>6, <1>7, <1>9, <1>10, <1>11

\* The files of the directory, as the loops over them read them.
LEMMA TotalOfFiles ==
  ASSUME NEW m \in Models, NEW S, NEW T, S \subseteq T
  PROVE  /\ Total(m, S) \in Nat
         /\ Total(m, S) <= Total(m, T)
         /\ \A f \in Range(m.files) : f \in S => f.size <= Total(m, S)
         /\ (\A f \in Range(m.files) : f \in S => f.size = 0) => Total(m, S) = 0
<1>1. /\ m.files \in Seq(Range(m.files))
      /\ \A f \in Range(m.files) : f.size \in Nat
  BY ModelSizeAssumption
<1>2. PICK n \in Nat : n = Len(m.files) /\ DOMAIN m.files = 1..n
  BY <1>1
<1>3. \A k \in 1..n : m.files[k] \in Range(m.files) /\ m.files[k].size \in Nat
  BY <1>1, <1>2 DEF Range
<1> DEFINE s == [k \in DOMAIN m.files |-> IF m.files[k] \in S THEN m.files[k].size ELSE 0]
           t == [k \in DOMAIN m.files |-> IF m.files[k] \in T THEN m.files[k].size ELSE 0]
<1>4. \A k \in 1..n : /\ s[k] = IF m.files[k] \in S THEN m.files[k].size ELSE 0
                      /\ t[k] = IF m.files[k] \in T THEN m.files[k].size ELSE 0
  BY <1>2
<1>5. Total(m, S) = SumTo(n, s) /\ Total(m, T) = SumTo(n, t)
  BY <1>2 DEF Total
<1> HIDE DEF s, t
<1>6. \A k \in 1..n : s[k] \in Nat /\ t[k] \in Nat /\ s[k] <= t[k]
  <2> SUFFICES ASSUME NEW k \in 1..n PROVE s[k] \in Nat /\ t[k] \in Nat /\ s[k] <= t[k]
    OBVIOUS
  <2>1. PICK z \in Nat : z = m.files[k].size
    BY <1>3
  <2> QED
    BY <1>4, <2>1
<1>7. SumTo(n, s) <= SumTo(n, t)
  BY <1>6, SumMonotone
<1>8. /\ SumTo(n, s) \in Nat
      /\ \A k \in 1..n : s[k] <= SumTo(n, s)
      /\ (\A k \in 1..n : s[k] = 0) => SumTo(n, s) = 0
  <2>1. \A k \in 1..n : s[k] \in Nat
    BY <1>6
  <2> QED
    BY <2>1, SumOfNaturals
<1>9. ASSUME NEW f \in Range(m.files), f \in S PROVE f.size <= Total(m, S)
  <2>1. PICK k \in 1..n : m.files[k] = f
    BY <1>2 DEF Range
  <2>2. s[k] = f.size
    BY <1>4, <1>9, <2>1
  <2> QED
    BY <1>5, <1>8, <2>2
<1>10. ASSUME \A f \in Range(m.files) : f \in S => f.size = 0 PROVE Total(m, S) = 0
  <2>1. \A k \in 1..n : s[k] = 0
    BY <1>3, <1>4, <1>10
  <2> QED
    BY <1>5, <1>8, <2>1
<1> QED
  BY <1>5, <1>7, <1>8, <1>9, <1>10

\* The pattern of the shards matches those of the model.
LEMMA OwnAreSiblings ==
  ASSUME NEW m \in Models, m.kind = "llama"
  PROVE  OwnShards(m) \subseteq Siblings(m) /\ m.file \in OwnShards(m)
<1>1. /\ m.file \in Range(m.files)
      /\ \A f \in Range(m.files) : f.name \in Seq(Range(f.name))
  BY ModelSizeAssumption
<1>2. m.file \in OwnShards(m)
  BY <1>1 DEF OwnShards
<1>3. CASE m.file.of = "none" \/ Len(m.file.name) < 2
  <2>1. PICK name \in Seq(Range(m.file.name)) : name = m.file.name
    BY <1>1
  <2>2. Len(name) \in Nat
    BY <2>1
  <2>3. ~(m.file.of # "none" /\ Len(m.file.name) > 1)
    BY <1>3, <2>1, <2>2
  <2>4. \A f \in OwnShards(m) : f = m.file
    BY <2>3 DEF OwnShards
  <2>5. Siblings(m) = {m.file}
    BY <1>3 DEF Siblings
  <2> QED
    BY <1>2, <2>4, <2>5
<1>4. CASE ~(m.file.of = "none" \/ Len(m.file.name) < 2)
  <2> DEFINE name == m.file.name
  <2>1. name \in Seq(Range(name)) /\ Len(name) \in Nat /\ Len(name) >= 2
    BY <1>1, <1>4
  <2> SUFFICES ASSUME NEW f \in OwnShards(m) PROVE f \in Siblings(m)
    BY <1>2
  <2>2. f \in Range(m.files) /\ f.name \in Seq(Range(f.name))
    BY <1>1 DEF OwnShards
  <2>3. f.of = m.file.of /\ Front(f.name) = Front(name)
    BY DEF OwnShards
  <2> DEFINE other == f.name
             k == Len(name) - 1
  <2>4. k \in Nat /\ k >= 1
    BY <2>1
  <2>5. Len(Front(name)) = k
    BY <2>1, <2>4 DEF Front
  <2>6. Len(Front(other)) = IF Len(other) = 0 THEN 0 ELSE Len(other) - 1
    BY <2>2 DEF Front
  <2>7. Len(other) = Len(name)
    <3>1. Len(other) \in Nat
      BY <2>2
    <3> QED
      BY <2>1, <2>3, <2>4, <2>5, <2>6, <3>1
  <2>8. Front(name) = SubSeq(name, 1, k) /\ Front(name) = SubSeq(other, 1, k)
    BY <2>3, <2>7 DEF Front
  <2>9. SubSeq(Front(name), 1, k) = Front(name)
    BY <2>1, <2>4, <2>5 DEF Front
  <2>10. IsPrefix(Front(name), other)
    BY <2>4, <2>5, <2>7, <2>8, <2>9 DEF IsPrefix
  <2>11. Len(f.name) >= Len(m.file.name)
    BY <2>1, <2>7
  <2> QED
    BY <1>4, <2>2, <2>3, <2>10, <2>11 DEF Siblings
<1> QED
  BY <1>2, <1>3, <1>4

\* The headroom of more is more.
LEMMA MoreIsPaddedMore ==
  ASSUME NEW m \in Models, NEW x \in Nat, NEW y \in Nat, x <= y
  PROVE  /\ Padded(m, x) \in Nat /\ Padded(m, y) \in Nat
         /\ Padded(m, x) <= Padded(m, y) /\ Padded(m, x) >= x
<1> DEFINE h == IF m.headroom = 0 THEN 10 ELSE m.headroom
<1>1. h \in Nat
  BY ModelSizeAssumption
<1>2. Padded(m, x) = x + (x * h) \div 100 /\ Padded(m, y) = y + (y * h) \div 100
  BY DEF Padded
<1> HIDE DEF h
<1>3. x * h \in Nat /\ y * h \in Nat
  BY <1>1
<1>4. x * h <= y * h
  <2>1. PICK d \in Nat : y = x + d
    <3>1. y - x \in Nat /\ y = x + (y - x)
      OBVIOUS
    <3> QED
      BY <3>1
  <2>2. y * h = x * h + d * h
    BY <1>1, <2>1
  <2>3. d * h \in Nat
    BY <1>1
  <2> QED
    BY <1>3, <2>2, <2>3
<1>5. \A p, q \in Nat : p <= q => p \div 100 \in Nat /\ q \div 100 \in Nat /\ p \div 100 <= q \div 100
  OBVIOUS
<1>6. PICK p \in Nat, q \in Nat : p = x * h /\ q = y * h /\ p <= q
  BY <1>3, <1>4
<1>7. p \div 100 \in Nat /\ q \div 100 \in Nat /\ p \div 100 <= q \div 100
  BY <1>5, <1>6
<1>8. PICK c \in Nat, d \in Nat : c = p \div 100 /\ d = q \div 100 /\ c <= d
  BY <1>7
<1>9. Padded(m, x) = x + c /\ Padded(m, y) = y + d
  BY <1>2, <1>6, <1>8
<1> QED
  BY <1>8, <1>9

\* A context is a number.
LEMMA ContextRead ==
  ASSUME NEW m \in Models, NEW trained \in Nat
  PROVE  Context(m, trained) \in Nat
  BY ModelSizeAssumption DEF Context

\* The bytes of an element are positive.
LEMMA BytesRead == ASSUME NEW type PROVE BytesPerElem(type) \in Nat
<1>1. \A x \in {"f32", "q8_0", "q5_1", "q5_0", "q4_1", "q4_0", "iq4_nl"} : BytesPerElem(x) \in Nat
  BY DEF BytesPerElem
<1>2. type \notin {"f32", "q8_0", "q5_1", "q5_0", "q4_1", "q4_0", "iq4_nl"} => BytesPerElem(type) \in Nat
  BY DEF BytesPerElem
<1> QED
  BY <1>1, <1>2

\* The estimate of a GGUF model is not below its shards and its cache, and is
\* them when the pattern matches no other's.
LEMMA LlamaHonest ==
  ASSUME NEW m \in Models, m.kind = "llama", ReadsWell(m.header), GeometryKnown(Metadata(m.header))
  PROVE  \E e \in Nat :
            /\ EstimateLlama(m) = <<e>> /\ e # 0
            /\ Total(m, OwnShards(m)) + CacheNeeded(m) \in Nat
            /\ Total(m, OwnShards(m)) + CacheNeeded(m) <= e
            /\ Siblings(m) = OwnShards(m) => Total(m, OwnShards(m)) + CacheNeeded(m) = e
<1>1. PICK md : md = Metadata(m.header) /\ TypedMd(md) /\ GeometryKnown(md)
  BY MetadataTyped
<1>2. PICK ctx \in Nat : ctx = Context(m, ArchInt(md, "context_length", 0))
  <2>1. ArchInt(md, "context_length", 0) \in Nat
    BY <1>1, IntRead
  <2> QED
    BY <2>1, ContextRead
<1>3. PICK bk \in Nat, bv \in Nat : bk = BytesPerElem(m.cacheK) /\ bv = BytesPerElem(m.cacheV)
  BY BytesRead
<1>4. PICK cache \in Nat : cache = KVCacheBytes(md, ctx, bk, bv)
  BY <1>1, CacheCounted
<1>5. CacheNeeded(m) = cache
  <2>1. cache = Weighed(Cardinality(Cells(md, ctx, "key_length", "key_length_swa")), bk,
                        Cardinality(Cells(md, ctx, "value_length", "value_length_swa")), bv) \div 32
    BY <1>1, <1>4, CacheCounted
  <2>2. CacheNeeded(m) = Weighed(Cardinality(Cells(md, ctx, "key_length", "key_length_swa")), bk,
                                 Cardinality(Cells(md, ctx, "value_length", "value_length_swa")), bv) \div 32
    BY <1>1, <1>2, <1>3, Zenon DEF CacheNeeded, Weighed
  <2> QED
    BY <2>1, <2>2, Zenon
<1>6. OwnShards(m) \subseteq Siblings(m) /\ m.file \in OwnShards(m)
  BY OwnAreSiblings
<1>7. PICK own \in Nat, all \in Nat : own = Total(m, OwnShards(m)) /\ all = Total(m, Siblings(m)) /\ own <= all
  BY <1>6, TotalOfFiles
<1>8. own # 0
  <2>1. m.file \in Range(m.files) /\ m.file.size \in Nat /\ m.file.size # 0
    BY ModelSizeAssumption
  <2>2. m.file.size <= own
    BY <1>6, <1>7, <2>1, TotalOfFiles
  <2> QED
    BY <2>1, <2>2
<1>9. EstimateLlama(m) = <<all + cache>>
  BY <1>1, <1>2, <1>3, <1>4, <1>7 DEF EstimateLlama
<1>10. all + cache \in Nat /\ all + cache # 0 /\ own + cache \in Nat /\ own + cache <= all + cache
  BY <1>7, <1>8
<1>11. Total(m, OwnShards(m)) + CacheNeeded(m) = own + cache
  BY <1>5, <1>7
<1>12. Siblings(m) = OwnShards(m) => own + cache = all + cache
  BY <1>7
<1> QED
  BY <1>9, <1>10, <1>11, <1>12

\* That of an MLX model is not below its weights, and is an error when it has none.
LEMMA MLXHonest ==
  ASSUME NEW m \in Models
  PROVE  LET weights == IF m.dir THEN Total(m, Weights(m)) ELSE m.file.size
             found == IF m.dir THEN \E f \in Weights(m) : f.size # 0 ELSE m.file.size # 0
         IN  /\ weights \in Nat
             /\ weights # 0 <=> found
             /\ m.dir /\ weights = 0 => EstimateMLX(m) = <<>>
             /\ ~(m.dir /\ weights = 0) => \E e \in Nat : EstimateMLX(m) = <<e>> /\ e >= weights
                                                        /\ (~m.dir => e = weights)
<1>1. /\ m.file.size \in Nat
      /\ \A f \in Range(m.files) : f.size \in Nat
      /\ m.config.layers \in Nat /\ m.config.positions \in Nat /\ m.config.head_dim \in Nat
      /\ m.config.heads \in Nat /\ m.config.kv_heads \in Nat /\ m.config.hidden \in Nat
  BY ModelSizeAssumption
<1>2. PICK w \in Nat : w = Total(m, Weights(m))
  BY TotalOfFiles
<1>3. w # 0 <=> \E f \in Weights(m) : f.size # 0
  <2>1. ASSUME NEW f \in Weights(m), f.size # 0 PROVE w # 0
    <3>1. f \in Range(m.files) /\ f.size \in Nat
      BY <1>1 DEF Weights
    <3>2. f.size <= w
      BY <1>2, <3>1, TotalOfFiles
    <3> QED
      BY <2>1, <3>1, <3>2
  <2>2. (\A f \in Range(m.files) : f \in Weights(m) => f.size = 0) => w = 0
    BY <1>2, TotalOfFiles
  <2> QED
    BY <2>1, <2>2
<1>4. CASE ~m.dir
  <2>1. EstimateMLX(m) = <<m.file.size>>
    BY <1>4 DEF EstimateMLX
  <2> QED
    BY <1>1, <1>4, <2>1
<1>5. CASE m.dir /\ w = 0
  <2>1. EstimateMLX(m) = <<>>
    BY <1>2, <1>5 DEF EstimateMLX
  <2> QED
    BY <1>2, <1>3, <1>5, <2>1
<1>6. CASE m.dir /\ w # 0
  <2> DEFINE c == m.config
             dim == IF c.head_dim # 0 \/ c.heads = 0 THEN c.head_dim ELSE c.hidden \div c.heads
             kvHeads == IF c.kv_heads = 0 THEN c.heads ELSE c.kv_heads
             cache == IF c.read THEN Context(m, c.positions) * c.layers * kvHeads * dim * 2 * 2 ELSE 0
  <2>1. EstimateMLX(m) = <<w + cache>>
    BY <1>2, <1>6 DEF EstimateMLX
  <2>2. dim \in Nat
    <3>1. c.head_dim \in Nat /\ c.heads \in Nat /\ c.hidden \in Nat
      BY <1>1
    <3>2. \A a \in Nat, b \in Nat \ {0} : a \div b \in Nat
      OBVIOUS
    <3> QED
      BY <3>1, <3>2
  <2>3. kvHeads \in Nat
    BY <1>1
  <2>4. Context(m, c.positions) \in Nat /\ c.layers \in Nat
    BY <1>1, ContextRead
  <2>5. cache \in Nat
    <3>1. PICK x \in Nat, y \in Nat, z \in Nat, t \in Nat :
            x = Context(m, c.positions) /\ y = c.layers /\ z = kvHeads /\ t = dim
      BY <2>2, <2>3, <2>4
    <3>2. x * y * z * t * 2 * 2 \in Nat
      OBVIOUS
    <3> HIDE DEF dim, kvHeads
    <3> QED
      BY <3>1, <3>2
  <2> HIDE DEF cache
  <2>6. w + cache \in Nat /\ w + cache >= w
    BY <2>5
  <2> QED
    BY <1>2, <1>3, <1>6, <2>1, <2>6
<1> QED
  BY <1>4, <1>5, <1>6

\* With its headroom, an estimate is what the pool is given.
LEMMA Estimated ==
  ASSUME NEW m \in Models, m.memory = 0, m.kind # "splash", m.path, m.exists, NEW e \in Nat,
         (IF m.kind = "mlx" THEN EstimateMLX(m) ELSE EstimateLlama(m)) = <<e>>
  PROVE  EstimateModelMemory(m) = Padded(m, e)
<1>1. m.headroom \in Nat
  BY ModelSizeAssumption
<1>2. m.headroom <= 0 <=> m.headroom = 0
  BY <1>1
<1>3. ~(m.memory > 0) /\ ~(m.memory = 0 /\ (m.kind = "splash" \/ ~m.path \/ ~m.exists))
  OBVIOUS
<1>4. PICK h : h = IF m.headroom = 0 THEN 10 ELSE m.headroom
  OBVIOUS
<1>5. h = IF m.headroom <= 0 THEN 10 ELSE m.headroom
  BY <1>2, <1>4
<1>6. PICK s : s = IF m.kind = "mlx" THEN EstimateMLX(m) ELSE EstimateLlama(m)
  OBVIOUS
<1>7. s # <<>> /\ s[1] = e
  <2>1. s = <<e>>
    BY <1>6, Zenon
  <2> QED
    BY <2>1
<1>8. EstimateModelMemory(m) = IF s = <<>> THEN 0 ELSE s[1] + (s[1] * h) \div 100
  BY <1>3, <1>5, <1>6, Zenon DEF EstimateModelMemory
<1>9. EstimateModelMemory(m) = e + (e * h) \div 100
  BY <1>7, <1>8, Zenon
<1> QED
  BY <1>4, <1>9, Zenon DEF Padded

\* EstimateHonest of one model.
LEMMA ModelHonest ==
  ASSUME NEW m \in Models
  PROVE  LET bytes == EstimateModelMemory(m)
             own == Total(m, OwnShards(m)) + CacheNeeded(m)
         IN  IF m.memory > 0 THEN bytes = m.memory
             ELSE /\ bytes # 0 <=> Sizeable(m)
                  /\ bytes # 0 /\ m.kind = "llama" =>
                        /\ bytes >= Padded(m, own)
                        /\ Siblings(m) = OwnShards(m) => bytes = Padded(m, own)
                  /\ bytes # 0 /\ m.kind = "mlx" =>
                        bytes >= Padded(m, IF m.dir THEN Total(m, Weights(m)) ELSE m.file.size)
<1> DEFINE bytes == EstimateModelMemory(m)
           own == Total(m, OwnShards(m)) + CacheNeeded(m)
           weights == IF m.dir THEN Total(m, Weights(m)) ELSE m.file.size
<1>1. m.memory \in Nat /\ m.kind \in {"llama", "mlx", "splash"}
  BY ModelSizeAssumption
<1>2. CASE m.memory > 0
  BY <1>2 DEF EstimateModelMemory
<1>3. CASE m.memory = 0 /\ (m.kind = "splash" \/ ~m.path \/ ~m.exists)
  <2>1. bytes = 0
    BY <1>3 DEF EstimateModelMemory
  <2>2. ~Sizeable(m)
    BY <1>1, <1>3 DEF Sizeable
  <2> QED
    BY <1>3, <2>1, <2>2
<1>4. CASE m.memory = 0 /\ m.kind = "llama" /\ m.path /\ m.exists
  <2>1. Sizeable(m) <=> ReadsWell(m.header) /\ GeometryKnown(Metadata(m.header))
    BY <1>4 DEF Sizeable
  <2>2. CASE ~(ReadsWell(m.header) /\ GeometryKnown(Metadata(m.header)))
    <3>1. EstimateLlama(m) = <<>>
      BY <2>2 DEF EstimateLlama
    <3>2. bytes = 0
      BY <1>4, <3>1 DEF EstimateModelMemory
    <3> QED
      BY <1>4, <2>1, <2>2, <3>2
  <2>3. CASE ReadsWell(m.header) /\ GeometryKnown(Metadata(m.header))
    <3>1. PICK e \in Nat : /\ EstimateLlama(m) = <<e>> /\ e # 0
                           /\ own \in Nat /\ own <= e
                           /\ Siblings(m) = OwnShards(m) => own = e
      BY <1>4, <2>3, LlamaHonest
    <3>2. bytes = Padded(m, e)
      BY <1>4, <3>1, Estimated
    <3> HIDE DEF bytes, own
    <3>3. Padded(m, own) \in Nat /\ Padded(m, e) \in Nat /\ Padded(m, own) <= Padded(m, e)
      BY <3>1, MoreIsPaddedMore
    <3>4. Padded(m, e) >= e
      BY MoreIsPaddedMore
    <3>5. bytes # 0
      BY <3>1, <3>2, <3>3, <3>4
    <3>6. bytes >= Padded(m, own)
      BY <3>2, <3>3
    <3>7. Siblings(m) = OwnShards(m) => bytes = Padded(m, own)
      BY <3>1, <3>2
    <3> USE DEF bytes, own
    <3> QED
      BY <1>4, <2>1, <2>3, <3>5, <3>6, <3>7
  <2> QED
    BY <2>2, <2>3
<1>5. CASE m.memory = 0 /\ m.kind = "mlx" /\ m.path /\ m.exists
  <2>1. Sizeable(m) <=> IF m.dir THEN \E f \in Weights(m) : f.size # 0 ELSE m.file.size # 0
    BY <1>5 DEF Sizeable
  <2>2. /\ weights \in Nat
        /\ weights # 0 <=> IF m.dir THEN \E f \in Weights(m) : f.size # 0 ELSE m.file.size # 0
        /\ m.dir /\ weights = 0 => EstimateMLX(m) = <<>>
        /\ ~(m.dir /\ weights = 0) => \E e \in Nat : EstimateMLX(m) = <<e>> /\ e >= weights
                                                   /\ (~m.dir => e = weights)
    BY MLXHonest
  <2>3. Sizeable(m) <=> weights # 0
    BY <2>1, <2>2
  <2> HIDE DEF weights
  <2>4. CASE m.dir /\ weights = 0
    <3>1. EstimateMLX(m) = <<>>
      BY <2>2, <2>4
    <3>2. bytes = 0
      BY <1>5, <3>1 DEF EstimateModelMemory
    <3> QED
      BY <1>5, <2>3, <2>4, <3>2
  <2>5. CASE ~(m.dir /\ weights = 0)
    <3>1. PICK e \in Nat : EstimateMLX(m) = <<e>> /\ e >= weights /\ (~m.dir => e = weights)
      BY <2>2, <2>5
    <3>2. bytes = Padded(m, e)
      BY <1>5, <3>1, Estimated
    <3> HIDE DEF bytes
    <3>3. /\ Padded(m, weights) \in Nat /\ Padded(m, e) \in Nat
          /\ Padded(m, weights) <= Padded(m, e) /\ Padded(m, e) >= e
      BY <2>2, <3>1, MoreIsPaddedMore
    <3>4. Padded(m, 0) = 0
      <4>1. PICK h \in Nat : h = IF m.headroom = 0 THEN 10 ELSE m.headroom
        BY ModelSizeAssumption
      <4>2. 0 * h = 0 /\ 0 \div 100 = 0
        BY <4>1
      <4> QED
        BY <4>1, <4>2 DEF Padded
    <3>5. bytes # 0 <=> weights # 0
      <4>1. weights # 0 => bytes # 0
        BY <2>2, <3>1, <3>2, <3>3
      <4>2. weights = 0 => e = 0
        BY <2>5, <3>1
      <4> QED
        BY <3>2, <3>4, <4>1, <4>2
    <3>6. bytes >= Padded(m, weights)
      BY <3>2, <3>3
    <3> USE DEF bytes, weights
    <3> QED
      BY <1>5, <2>3, <3>5, <3>6
  <2> QED
    BY <2>4, <2>5
<1> QED
  BY <1>1, <1>2, <1>3, <1>4, <1>5

\* EstimateHonest for any model, any header and any directory, in
\* EstimateModelMemory: what the pool is told of a model's memory is 0 exactly
\* for a model that nothing sizes, and never less than the model's own shards
\* with the cache counted cell by cell.
THEOREM EstimatesHonest == SizeSpec => []EstimateHonest
<1> DEFINE IInv == /\ model \in Models
                   /\ estimate = <<>> \/ estimate = <<EstimateModelMemory(model)>>
<1>1. SizeInit => IInv
  BY DEF SizeInit
<1>2. IInv /\ [Size]_sizeVars => IInv'
  <2> SUFFICES ASSUME IInv, [Size]_sizeVars PROVE IInv'
    OBVIOUS
  <2>1. CASE Size
    BY <2>1 DEF Size
  <2>2. CASE UNCHANGED sizeVars
    BY <2>2 DEF sizeVars
  <2> QED
    BY <2>1, <2>2
<1>3. IInv => EstimateHonest
  <2> SUFFICES ASSUME IInv, estimate # <<>> PROVE EstimateHonest
    BY DEF EstimateHonest
  <2>1. estimate[1] = EstimateModelMemory(model)
    OBVIOUS
  <2> QED
    BY <2>1, ModelHonest DEF EstimateHonest
<1> QED
  BY <1>1, <1>2, <1>3, PTL DEF SizeSpec
=============================================================================
