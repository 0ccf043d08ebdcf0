--------------------------- MODULE ServerManager ---------------------------
(***************************************************************************)
(* internal/servermanager/server_manager.go: the manager that starts,      *)
(* shares, evicts and stops the processes of one kind of managed model     *)
(* server (llama-server, mlx-serve, splash).                               *)
(*                                                                         *)
(* One action is one critical section of ServerManager.mu, or one wait     *)
(* that ends.  Time is abstract: the admission deadline, the idle timeout, *)
(* the stop grace and the health check may elapse at any step where the    *)
(* code reads them.  lastUsed only orders the idle instances, so a victim  *)
(* is any idle instance.                                                   *)
(***************************************************************************)
EXTENDS Naturals, FiniteSets, Functions

CONSTANTS
    Aliases,    \* the configured model aliases
    Procs,      \* process records; how many exist at once bounds the model
    Requests,   \* callers of Acquire that carry a client's context
    Loaders,    \* background goroutines of StartLoad: never cancelled
    None,       \* the nil instance
    MaxLoaded,  \* maxLoaded: 0 means no instance cap
    MaxMemory,  \* maxMemoryBytes: 0 means no memory cap
    Memory,     \* memory[a]: the estimate for a, 0 when unknown
    Events      \* what the environment of an instance of the model does

ASSUME ConstantsAssumption ==
    /\ IsFiniteSet(Aliases)
    /\ IsFiniteSet(Requests) /\ IsFiniteSet(Loaders)
    /\ Requests \cap Loaders = {}
    /\ None \notin Procs /\ None \notin Aliases
    /\ MaxLoaded \in Nat /\ MaxMemory \in Nat
    /\ Memory \in [Aliases -> Nat]
    /\ Events \subseteq {"cancel", "crash", "reap", "unload", "stopall"}

Callers == Requests \cup Loaders

VARIABLES
    instances,  \* m.instances: the process that occupies each alias, or None
    inst,       \* every process record (serverInstance and its OS process)
    call,       \* where each caller of Acquire stands
    waiters,    \* the callers blocked on the current idleSignal channel
    stopping,   \* live processes that have been signalled and will be killed
    loadErrors, \* the aliases with a recorded load failure
    reap,       \* the idle reaper's sweep: victims left, process being stopped
    shut        \* StopAll: phase, aliases left, processes being stopped

vars == <<instances, inst, call, waiters, stopping, loadErrors, reap, shut>>

Labels == {"idle", "start", "retry", "joining", "waiting", "evicting",
           "stopping", "launching", "publishing", "retiring", "cleaning",
           "unblocking", "releasing", "using", "failed"}

ProcRecords == [alias : Aliases \cup {None}, exited : BOOLEAN,
                healthy : BOOLEAN, ready : BOOLEAN, leases : Nat]

CallRecords == [pc : Labels, alias : Aliases \cup {None},
                inst : Procs \cup {None}, victim : Aliases \cup {None},
                over : BOOLEAN]

TypeOK ==
    /\ instances \in [Aliases -> Procs \cup {None}]
    /\ inst \in [Procs -> ProcRecords]
    /\ call \in [Callers -> CallRecords]
    /\ waiters \in SUBSET Callers
    /\ stopping \in SUBSET Procs
    /\ loadErrors \in SUBSET Aliases
    /\ reap \in [queue : SUBSET Aliases, inst : Procs \cup {None}]
    /\ shut \in [phase : {"serving", "stopping", "stopped"},
                 queue : SUBSET Aliases, insts : SUBSET Procs]

NoCall == [pc |-> "idle", alias |-> None, inst |-> None, victim |-> None,
           over |-> FALSE]

NoProc == [alias |-> None, exited |-> TRUE, healthy |-> FALSE,
           ready |-> FALSE, leases |-> 0]

Init ==
    /\ instances = [a \in Aliases |-> None]
    /\ inst = [p \in Procs |-> NoProc]
    /\ call = [c \in Callers |-> NoCall]
    /\ waiters = {}
    /\ stopping = {}
    /\ loadErrors = {}
    /\ reap = [queue |-> {}, inst |-> None]
    /\ shut = [phase |-> "serving", queue |-> {}, insts |-> {}]

-----------------------------------------------------------------------------
(***************************************************************************)
(* The budget and the map.                                                 *)
(***************************************************************************)

Running(a) == instances[a] # None /\ ~inst[instances[a]].exited

Resident == {a \in Aliases : Running(a)}

\* fitsLocked: the alias's own instance and exited ones do not count, and a
\* model of unknown size is never blocked by the memory cap.
Fits_IgnoresNeed(a) ==
    LET others == Resident \ {a}
    IN  /\ MaxLoaded > 0 => Cardinality(others) + 1 <= MaxLoaded
        /\ (MaxMemory > 0 /\ Memory[a] > 0) =>
               SumFunctionOnSet(Memory, others) <= MaxMemory

Fits(a) ==
    LET others == Resident \ {a}
    IN  /\ MaxLoaded > 0 => Cardinality(others) + 1 <= MaxLoaded
        /\ (MaxMemory > 0 /\ Memory[a] > 0) =>
               SumFunctionOnSet(Memory, others) + Memory[a] <= MaxMemory

\* lruIdleVictimLocked: the candidates it chooses the oldest of.
IdleVictims(a) == {v \in Resident \ {a} : inst[instances[v]].leases = 0}

\* dropLocked: p leaves the alias's slot only if it is still the occupant, and
\* the idleSignal broadcast wakes every admission waiter.
Drop(a, p) ==
    IF instances[a] = p
    THEN /\ instances' = [instances EXCEPT ![a] = None]
         /\ waiters' = {}
    ELSE UNCHANGED <<instances, waiters>>

\* StopInstance up to its grace sleep: free the slot under the lock, then
\* signal the process unless it has already exited.
StopInstance(a) ==
    /\ instances[a] # None
    /\ Drop(a, instances[a])
    /\ stopping' = IF inst[instances[a]].exited THEN stopping
                                                ELSE stopping \cup {instances[a]}

\* A lease on p is returned (the releaser): the last one wakes the waiters.
Release_NoSignal(p) ==
    /\ inst' = [inst EXCEPT ![p].leases = IF @ > 0 THEN @ - 1 ELSE 0]
    /\ UNCHANGED waiters

Release(p) ==
    /\ inst' = [inst EXCEPT ![p].leases = IF @ > 0 THEN @ - 1 ELSE 0]
    /\ waiters' = IF inst[p].leases <= 1 THEN {} ELSE waiters

-----------------------------------------------------------------------------
(***************************************************************************)
(* Acquire, one action per branch of its loop.                             *)
(***************************************************************************)

TooBig(a) == MaxMemory > 0 /\ Memory[a] > MaxMemory

\* A client's request reaches Acquire.  One for a model that can never fit is
\* refused at once and changes nothing.
Begin(c, a) ==
    /\ c \in Requests /\ call[c].pc = "idle" /\ shut.phase # "stopped"
    /\ ~TooBig(a)
    /\ call' = [call EXCEPT ![c] = [NoCall EXCEPT !.pc = "start", !.alias = a]]
    /\ UNCHANGED <<instances, inst, waiters, stopping, loadErrors, reap, shut>>

\* StartLoad forgets the last failure and acquires in the background.
StartLoad(c, a) ==
    /\ c \in Loaders /\ call[c].pc = "idle" /\ shut.phase # "stopped"
    /\ loadErrors' = loadErrors \ {a}
    /\ call' = [call EXCEPT ![c] =
           [NoCall EXCEPT !.pc = IF TooBig(a) THEN "failed" ELSE "start",
                          !.alias = a]]
    /\ UNCHANGED <<instances, inst, waiters, stopping, reap, shut>>

\* Acquire returns an error: a request is over, a loader still has to record it.
Fail(c) ==
    call' = [call EXCEPT ![c] =
        IF c \in Loaders
        THEN [NoCall EXCEPT !.pc = "failed", !.alias = call[c].alias]
        ELSE NoCall]

\* Caller c goes on at `label' with p as the instance it refers to.
Move(c, label, p) ==
    call' = [call EXCEPT ![c] = [pc |-> label, alias |-> call[c].alias, inst |-> p,
                                 victim |-> None, over |-> call[c].over]]

\* The context check at the top of the loop and, on a later pass, checkDeadline:
\* the context is done, or the deadline has passed since the first pass.
Proceeds(c) == call[c].pc \in {"start", "retry"} /\ ~call[c].over

GiveUp(c) ==
    /\ call[c].pc \in {"start", "retry"} /\ call[c].over
    /\ Fail(c)
    /\ UNCHANGED <<instances, inst, waiters, stopping, loadErrors, reap, shut>>

\* The slot holds a dead instance: drop it and come round again.
DropExited(c) ==
    LET a == call[c].alias
        p == instances[a]
    IN  /\ Proceeds(c) /\ p # None /\ inst[p].exited
        /\ Drop(a, p)
        /\ Move(c, "retry", None)
        /\ UNCHANGED <<inst, stopping, loadErrors, reap, shut>>

\* The fast path: lease the healthy instance in the slot.
Reuse(c) ==
    LET p == instances[call[c].alias]
    IN  /\ Proceeds(c) /\ p # None /\ ~inst[p].exited /\ inst[p].healthy
        /\ inst' = [inst EXCEPT ![p].leases = @ + 1]
        /\ Move(c, "using", p)
        /\ UNCHANGED <<instances, waiters, stopping, loadErrors, reap, shut>>

\* Another goroutine is launching this alias: wait on its ready channel.
Join(c) ==
    LET p == instances[call[c].alias]
    IN  /\ Proceeds(c) /\ p # None /\ ~inst[p].exited /\ ~inst[p].healthy
        /\ Move(c, "joining", p)
        /\ UNCHANGED <<instances, inst, waiters, stopping, loadErrors, reap, shut>>

\* The launch joined has resolved.  A failed one is dropped if still mapped.
JoinReturns(c) ==
    LET a == call[c].alias
        p == call[c].inst
    IN  /\ call[c].pc = "joining" /\ inst[p].ready
        /\ IF ~inst[p].healthy \/ inst[p].exited
           THEN Drop(a, p)
           ELSE UNCHANGED <<instances, waiters>>
        /\ Move(c, "retry", None)
        /\ UNCHANGED <<inst, stopping, loadErrors, reap, shut>>

\* The context or the deadline ends the wait; the launch may still be going on,
\* so the slot is left alone.
JoinGivesUp_Drops(c) ==
    /\ call[c].pc = "joining" /\ call[c].over
    /\ Drop(call[c].alias, call[c].inst)
    /\ Move(c, "retry", None)
    /\ UNCHANGED <<inst, stopping, loadErrors, reap, shut>>

JoinGivesUp(c) ==
    /\ call[c].pc = "joining" /\ call[c].over
    /\ Move(c, "retry", None)
    /\ UNCHANGED <<instances, inst, waiters, stopping, loadErrors, reap, shut>>

\* No room: choose an idle victim under the lock ...
ChooseVictim(c, v) ==
    LET a == call[c].alias
    IN  /\ Proceeds(c) /\ instances[a] = None /\ ~Fits(a)
        /\ v \in IdleVictims(a)
        /\ call' = [call EXCEPT ![c] = [pc |-> "evicting", alias |-> a, inst |-> None,
                                        victim |-> v, over |-> FALSE]]
        /\ UNCHANGED <<instances, inst, waiters, stopping, loadErrors, reap, shut>>

\* ... and stop, after unlocking, whatever the victim's alias holds by then.
Evict(c) ==
    LET v == call[c].victim
        p == instances[v]
    IN  /\ call[c].pc = "evicting"
        /\ IF p = None
           THEN UNCHANGED <<instances, waiters, stopping>>
           ELSE StopInstance(v)
        /\ IF p = None \/ inst[p].exited
           THEN Move(c, "retry", None)
           ELSE Move(c, "stopping", p)
        /\ UNCHANGED <<inst, loadErrors, reap, shut>>

EvictReturns(c) ==
    /\ call[c].pc = "stopping" /\ call[c].inst \notin stopping
    /\ Move(c, "retry", None)
    /\ UNCHANGED <<instances, inst, waiters, stopping, loadErrors, reap, shut>>

\* No room and nothing idle: wait on the idleSignal channel read under the lock.
AwaitIdle(c) ==
    LET a == call[c].alias
    IN  /\ Proceeds(c) /\ instances[a] = None /\ ~Fits(a) /\ IdleVictims(a) = {}
        /\ waiters' = waiters \cup {c}
        /\ Move(c, "waiting", None)
        /\ UNCHANGED <<instances, inst, stopping, loadErrors, reap, shut>>

WakeUp_NoTimer(c) ==
    /\ call[c].pc = "waiting" /\ c \notin waiters
    /\ Move(c, "retry", None)
    /\ UNCHANGED <<instances, inst, waiters, stopping, loadErrors, reap, shut>>

WakeUp(c) ==
    /\ call[c].pc = "waiting"
    /\ c \notin waiters \/ call[c].over
    /\ waiters' = waiters \ {c}
    /\ Move(c, "retry", None)
    /\ UNCHANGED <<instances, inst, stopping, loadErrors, reap, shut>>

\* A record nothing points at any more: exec.Cmd can be a new process.
Fresh(p) ==
    /\ inst[p].exited /\ p \notin stopping
    /\ \A a \in Aliases : instances[a] # p
    /\ \A c \in Callers : call[c].inst # p

\* Room: launchLocked starts the process and maps it, and the caller leases it,
\* in the critical section that checked the budget.
Launch_Unchecked(c, p) ==
    LET a == call[c].alias
    IN  /\ Proceeds(c) /\ instances[a] = None /\ Fresh(p)
        /\ instances' = [instances EXCEPT ![a] = p]
        /\ inst' = [inst EXCEPT ![p] = [NoProc EXCEPT !.alias = a, !.exited = FALSE,
                                                      !.leases = 1]]
        /\ Move(c, "launching", p)
        /\ UNCHANGED <<waiters, stopping, loadErrors, reap, shut>>

Launch(c, p) ==
    LET a == call[c].alias
    IN  /\ Proceeds(c) /\ instances[a] = None /\ Fits(a) /\ Fresh(p)
        /\ instances' = [instances EXCEPT ![a] = p]
        /\ inst' = [inst EXCEPT ![p] = [NoProc EXCEPT !.alias = a, !.exited = FALSE,
                                                      !.leases = 1]]
        /\ Move(c, "launching", p)
        /\ UNCHANGED <<waiters, stopping, loadErrors, reap, shut>>

\* launchLocked fails before or at cmd.Start: binary, weights, port, fork.
LaunchFails(c) ==
    LET a == call[c].alias
    IN  /\ Proceeds(c) /\ instances[a] = None /\ Fits(a)
        /\ Fail(c)
        /\ UNCHANGED <<instances, inst, waiters, stopping, loadErrors, reap, shut>>

-----------------------------------------------------------------------------
(***************************************************************************)
(* awaitReady, run by the caller that launched.                            *)
(***************************************************************************)

\* waitForHealth ran out its 120 seconds: killInstance sends SIGKILL, and
\* `exited' follows when the process is reaped.
HealthFails(c) ==
    LET p == call[c].inst
    IN  /\ call[c].pc = "launching"
        /\ stopping' = IF inst[p].exited THEN stopping ELSE stopping \cup {p}
        /\ Move(c, "cleaning", p)
        /\ UNCHANGED <<instances, inst, waiters, loadErrors, reap, shut>>

\* Something answered 200 on the port: our child, or a squatter if it is dead.
HealthAnswers(c) ==
    LET p == call[c].inst
    IN  /\ call[c].pc = "launching"
        /\ IF inst[p].exited
           THEN /\ Move(c, "cleaning", call[c].inst)
                /\ UNCHANGED inst
           ELSE /\ Move(c, "publishing", call[c].inst)
                /\ inst' = [inst EXCEPT ![p].healthy = TRUE]
        /\ UNCHANGED <<instances, waiters, stopping, loadErrors, reap, shut>>

\* close(ready): whoever joined this launch may go on ...
Publish(c) ==
    /\ call[c].pc = "publishing"
    /\ inst' = [inst EXCEPT ![call[c].inst].ready = TRUE]
    /\ Move(c, "retiring", call[c].inst)
    /\ UNCHANGED <<instances, waiters, stopping, loadErrors, reap, shut>>

\* ... then the recorded failure is retired and Acquire returns the endpoint.
RetireFailure(c) ==
    /\ call[c].pc = "retiring"
    /\ loadErrors' = loadErrors \ {call[c].alias}
    /\ Move(c, "using", call[c].inst)
    /\ UNCHANGED <<instances, inst, waiters, stopping, reap, shut>>

\* removeInstance after a failed launch.
RemoveFailed(c) ==
    /\ call[c].pc = "cleaning"
    /\ Drop(call[c].alias, call[c].inst)
    /\ Move(c, "unblocking", call[c].inst)
    /\ UNCHANGED <<inst, stopping, loadErrors, reap, shut>>

\* close(ready) unblocks the joiners ...
Unblock(c) ==
    /\ call[c].pc = "unblocking"
    /\ inst' = [inst EXCEPT ![call[c].inst].ready = TRUE]
    /\ Move(c, "releasing", call[c].inst)
    /\ UNCHANGED <<instances, waiters, stopping, loadErrors, reap, shut>>

\* ... then the launch lease is returned and Acquire fails.
LaunchReturns(c) ==
    /\ call[c].pc = "releasing"
    /\ Release(call[c].inst)
    /\ Fail(c)
    /\ UNCHANGED <<instances, stopping, loadErrors, reap, shut>>

\* The turn ends (or the loader drops its lease at once).
Finish(c) ==
    /\ call[c].pc = "using"
    /\ Release(call[c].inst)
    /\ call' = [call EXCEPT ![c] = NoCall]
    /\ UNCHANGED <<instances, stopping, loadErrors, reap, shut>>

\* StartLoad's goroutine records why its Acquire failed.
RecordLoadError(c) ==
    /\ call[c].pc = "failed"
    /\ loadErrors' = loadErrors \cup {call[c].alias}
    /\ call' = [call EXCEPT ![c] = NoCall]
    /\ UNCHANGED <<instances, inst, waiters, stopping, reap, shut>>

-----------------------------------------------------------------------------
(***************************************************************************)
(* The reaper, unloads, StopAll, and the environment.                      *)
(***************************************************************************)

InLoop == {"start", "retry", "joining", "waiting", "evicting", "stopping"}

\* The client disconnects while its Acquire is still in the loop.
Cancel(c) ==
    /\ "cancel" \in Events
    /\ c \in Requests /\ call[c].pc \in InLoop /\ ~call[c].over
    /\ call' = [call EXCEPT ![c].over = TRUE]
    /\ UNCHANGED <<instances, inst, waiters, stopping, loadErrors, reap, shut>>

\* The admission deadline of a call passes.
Expire(c) ==
    /\ call[c].pc \in InLoop \ {"start"} /\ ~call[c].over
    /\ call' = [call EXCEPT ![c].over = TRUE]
    /\ UNCHANGED <<instances, inst, waiters, stopping, loadErrors, reap, shut>>

\* A server process dies: a crash, or its answer to SIGTERM.  Of a process group
\* it is the leader that was launched.
Exit(p) ==
    /\ ~inst[p].exited /\ ("crash" \in Events \/ p \in stopping)
    /\ inst' = [inst EXCEPT ![p].exited = TRUE]
    /\ UNCHANGED <<instances, call, waiters, stopping, loadErrors, reap, shut>>

\* StopInstance's grace is over: SIGKILL, and its caller goes on.
GraceEnds(p) ==
    /\ p \in stopping
    /\ stopping' = stopping \ {p}
    /\ inst' = [inst EXCEPT ![p].exited = TRUE]
    /\ reap' = IF reap.inst = p THEN [reap EXCEPT !.inst = None] ELSE reap
    /\ shut' = [shut EXCEPT !.insts = @ \ {p}]
    /\ UNCHANGED <<instances, call, waiters, loadErrors>>

\* ReapIdle, under the lock: the idle instances whose timeout has passed.  A
\* tick that ties with the closed reaperStop may still win the select.
ReapIdle(V) ==
    /\ "reap" \in Events
    /\ V # {} /\ reap.queue = {} /\ reap.inst = None /\ shut.phase # "stopped"
    /\ V \subseteq {a \in Resident : inst[instances[a]].leases = 0}
    /\ reap' = [reap EXCEPT !.queue = V]
    /\ UNCHANGED <<instances, inst, call, waiters, stopping, loadErrors, shut>>

\* ... then, unlocked, StopInstance for each of those aliases in turn.
ReapNext(a) ==
    LET p == instances[a]
    IN  /\ a \in reap.queue /\ reap.inst = None
        /\ IF p = None
           THEN UNCHANGED <<instances, waiters, stopping>>
           ELSE StopInstance(a)
        /\ reap' = [queue |-> reap.queue \ {a},
                    inst |-> IF p = None \/ inst[p].exited THEN None ELSE p]
        /\ UNCHANGED <<inst, call, loadErrors, shut>>

\* An operator unloads a model: POST /models/unload, or DELETE of an instance.
Unload(a) ==
    /\ "unload" \in Events /\ shut.phase = "serving"
    /\ StopInstance(a)
    /\ UNCHANGED <<inst, call, loadErrors, reap, shut>>

\* StopAll snapshots the aliases under the lock ...
StopAll ==
    /\ "stopall" \in Events /\ shut.phase = "serving"
    /\ shut' = [shut EXCEPT !.phase = "stopping",
                            !.queue = {a \in Aliases : instances[a] # None}]
    /\ UNCHANGED <<instances, inst, call, waiters, stopping, loadErrors, reap>>

\* ... stops each of them concurrently ...
StopAllNext(a) ==
    LET p == instances[a]
    IN  /\ a \in shut.queue
        /\ IF p = None
           THEN UNCHANGED <<instances, waiters, stopping>>
           ELSE StopInstance(a)
        /\ shut' = [shut EXCEPT !.queue = @ \ {a},
               !.insts = IF p = None \/ inst[p].exited THEN @ ELSE @ \cup {p}]
        /\ UNCHANGED <<inst, call, loadErrors, reap>>

\* ... and returns when the last StopInstance has: the program exits.
StopAllReturns ==
    /\ shut.phase = "stopping" /\ shut.queue = {} /\ shut.insts = {}
    /\ shut' = [shut EXCEPT !.phase = "stopped"]
    /\ UNCHANGED <<instances, inst, call, waiters, stopping, loadErrors, reap>>

\* After exit nothing is left to do.
Terminated == shut.phase = "stopped" /\ UNCHANGED vars

-----------------------------------------------------------------------------
AcquireStep(c) ==
    \/ GiveUp(c) \/ DropExited(c) \/ Reuse(c) \/ Join(c) \/ JoinReturns(c)
    \/ JoinGivesUp(c) \/ Evict(c) \/ EvictReturns(c) \/ AwaitIdle(c) \/ WakeUp(c)
    \/ LaunchFails(c) \/ HealthAnswers(c) \/ HealthFails(c) \/ Publish(c)
    \/ RemoveFailed(c) \/ Unblock(c) \/ LaunchReturns(c) \/ RetireFailure(c)
    \/ RecordLoadError(c)
    \/ \E v \in Aliases : ChooseVictim(c, v)
    \/ \E p \in Procs : Launch(c, p)

Next ==
    \/ \E c \in Callers : AcquireStep(c) \/ Finish(c) \/ Cancel(c) \/ Expire(c)
    \/ \E c \in Callers, a \in Aliases : Begin(c, a) \/ StartLoad(c, a)
    \/ \E p \in Procs : Exit(p) \/ GraceEnds(p)
    \/ \E V \in SUBSET Aliases : ReapIdle(V)
    \/ \E a \in Aliases : ReapNext(a) \/ Unload(a) \/ StopAllNext(a)
    \/ StopAll \/ StopAllReturns \/ Terminated

Spec == Init /\ [][Next]_vars

(***************************************************************************)
(* A goroutine that can run runs, the stop grace and the admission         *)
(* deadline are timers, waitForHealth is bounded.  Clients, crashes, the   *)
(* reaper's ticks and operators are under no obligation, but a loader      *)
(* returns its lease at once.                                              *)
(***************************************************************************)
Fairness ==
    /\ \A c \in Callers : WF_vars(AcquireStep(c)) /\ WF_vars(Expire(c))
    /\ \A c \in Loaders : WF_vars(Finish(c))
    /\ \A p \in Procs : WF_vars(GraceEnds(p))

FairSpec == Spec /\ Fairness

-----------------------------------------------------------------------------
(***************************************************************************)
(* Properties.                                                             *)
(***************************************************************************)

\* The instances in the map that are alive never exceed the instance cap nor,
\* by their estimates, the memory cap, whatever mix of launches, crashes,
\* evictions and reloads led here (fitsLocked and launchLocked share one
\* critical section).
CountHeld == MaxLoaded > 0 => Cardinality(Resident) <= MaxLoaded

MemoryHeld == MaxMemory > 0 => SumFunctionOnSet(Memory, Resident) <= MaxMemory

BudgetHeld == CountHeld /\ MemoryHeld

\* Every live process that was launched is either in the map, where the reaper,
\* StopAll and the budget can see it, or has a StopInstance that will kill it: no
\* wait, failed launch or replacement orphans a child (the comment in Acquire's
\* join case).  What a splash leader leaves behind when it exits is no process here.
NoOrphan ==
    \A p \in Procs : ~inst[p].exited =>
        instances[inst[p].alias] = p \/ p \in stopping

\* A caller between launchLocked and close(ready).
Launching == {"launching", "publishing", "cleaning", "unblocking"}

\* The caller has called leaseLocked on p and has not run its releaser yet.
Holds(c, p) ==
    /\ call[c].inst = p
    /\ call[c].pc \in Launching \cup {"retiring", "releasing", "using"}

Holders(p) == {c \in Callers : Holds(c, p)}

\* The lease count is the number of users: no path of Acquire leaks a lease,
\* which would pin the instance for ever, or returns one twice, which would
\* expose another caller's turn to eviction.
LeasesCounted ==
    \A p \in Procs : inst[p].leases = Cardinality(Holders(p))

\* A joiner waits on a launch that has resolved or whose owner is still on its
\* way to close(ready): nobody waits on an abandoned launch.
JoinersHaveOwner ==
    \A c \in Callers : call[c].pc = "joining" =>
        \/ inst[call[c].inst].ready
        \/ \E o \in Callers : /\ call[o].inst = call[c].inst
                              /\ call[o].pc \in Launching

\* A caller asleep on the current idleSignal channel really has nothing to do:
\* no room for its alias and nothing idle to evict.  The one exception is a
\* leased instance that crashed: the room it frees is announced only when its
\* last lease returns.
NoLostWakeup ==
    \A c \in waiters :
        \/ ~Fits(call[c].alias) /\ IdleVictims(call[c].alias) = {}
        \/ \E p \in Procs : inst[p].exited /\ inst[p].leases > 0

\* Nobody waits for what will not come: a joiner's launch has an owner, a
\* sleeper has nothing to do (Acquire's joins, and awaitIdle's broadcasts).
NobodyStranded == JoinersHaveOwner /\ NoLostWakeup

\* Every hold on the pool is given back and every wait on it has somebody to end
\* it: nothing is leaked that would wedge the manager.
NothingWedged == LeasesCounted /\ NobodyStranded

\* Acquire returns: every caller that enters the loop ends with a lease or an
\* error, whatever the others do (the admission deadline and the health check
\* bound every wait).
AcquireReturns ==
    \A c \in Callers :
        (call[c].pc = "start") ~> (call[c].pc \in {"using", "idle"})

\* The map implements the abstract pool, loads in progress included.
Status == [a \in Aliases |-> IF ~Running(a) THEN "absent"
                             ELSE IF inst[instances[a]].healthy THEN "ready"
                             ELSE "loading"]

Pool == INSTANCE ModelPool WITH status <- Status

\* Every step maps to a step of the pool: an alias starts loading only with
\* room for it, becomes ready once, and is never replaced without having left.
\* Under the code's fairness a load that starts also resolves: a client that
\* polls the catalog never sees "loading" for ever.
ImplementsPool == Pool!Spec

\* The inductive invariant behind NoOrphan: what each stage of a call and of a
\* launch knows about its instance.
CallOK ==
    \A c \in Callers :
        /\ call[c].pc # "idle" => call[c].alias \in Aliases
        /\ call[c].pc = "evicting" => call[c].victim \in Aliases
        /\ call[c].inst \in Procs <=>
               call[c].pc \in Launching \cup {"retiring", "releasing", "using",
                                            "joining", "stopping"}

OwnsLaunch(c) ==
    LET p == call[c].inst
    IN  /\ inst[p].alias = call[c].alias /\ ~inst[p].ready
        /\ inst[p].healthy <=> call[c].pc = "publishing"
        /\ call[c].pc \in {"cleaning", "unblocking"} =>
               inst[p].exited \/ p \in stopping
        /\ \A d \in Callers :
               call[d].pc \in Launching /\ call[d].inst = p => d = c

LaunchOK == \A c \in Callers : call[c].pc \in Launching => OwnsLaunch(c)

ProcOK ==
    \A p \in Procs : /\ ~inst[p].exited => inst[p].alias \in Aliases
                     /\ inst[p].ready =>
                         inst[p].healthy \/ inst[p].exited \/ p \in stopping

SlotOK ==
    \A a \in Aliases : instances[a] # None => inst[instances[a]].alias = a

IInv == TypeOK /\ CallOK /\ LaunchOK /\ ProcOK /\ SlotOK /\ NoOrphan

\* StopInstance, called for an eviction, never kills an instance that holds a
\* lease ("An instance with leases > 0 is mid-turn and must never be evicted").
EvictionSparesLeases ==
    [][\A c \in Callers : Evict(c) =>
           \A p \in stopping' \ stopping : inst[p].leases = 0]_vars

\* The same for the idle reaper ("the idle reaper and the LRU victim search
\* both skip it").
ReapSparesLeases ==
    [][\A a \in Aliases : ReapNext(a) =>
           \A p \in stopping' \ stopping : inst[p].leases = 0]_vars

\* "StopAll terminates every managed process": none is alive when it returns.
StopAllLeavesNone == [][StopAllReturns => \A p \in Procs : inst[p].exited]_vars

\* "A successful launch retires any recorded failure for this alias": none is
\* on record beside an instance whose launch has succeeded and still runs,
\* except while the launcher is about to retire it.
SuccessRetiresFailure ==
    \A a \in loadErrors : Running(a) /\ inst[instances[a]].healthy =>
        \E c \in Callers : /\ call[c].pc \in {"publishing", "retiring"}
                           /\ call[c].inst = instances[a]
=============================================================================
