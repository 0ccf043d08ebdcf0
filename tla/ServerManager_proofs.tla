------------------------ MODULE ServerManager_proofs ------------------------
(***************************************************************************)
(* Theorems about ServerManager for every set of aliases, callers and      *)
(* process records and every budget: it loses no process, implements the   *)
(* abstract pool, stays within its budget, and nothing in it is wedged.    *)
(***************************************************************************)
EXTENDS ServerManager, FiniteSetTheorems, TLAPS

\* A step of the specification is one of the actions or a stutter.
LEMMA StepCases ==
  ASSUME [Next]_vars
  PROVE  \/ \E c \in Callers :
              \/ GiveUp(c) \/ DropExited(c) \/ Reuse(c) \/ Join(c)
              \/ JoinReturns(c) \/ JoinGivesUp(c) \/ Evict(c) \/ EvictReturns(c)
              \/ AwaitIdle(c) \/ WakeUp(c) \/ LaunchFails(c) \/ HealthAnswers(c)
              \/ HealthFails(c) \/ Publish(c) \/ RetireFailure(c)
              \/ RemoveFailed(c) \/ Unblock(c) \/ LaunchReturns(c)
              \/ RecordLoadError(c) \/ Finish(c) \/ Cancel(c) \/ Expire(c)
              \/ \E a \in Aliases :
                    ChooseVictim(c, a) \/ Begin(c, a) \/ StartLoad(c, a)
              \/ \E p \in Procs : Launch(c, p)
         \/ \E p \in Procs : Exit(p) \/ GraceEnds(p)
         \/ \E V \in SUBSET Aliases : ReapIdle(V)
         \/ \E a \in Aliases : ReapNext(a) \/ Unload(a) \/ StopAllNext(a)
         \/ StopAll \/ StopAllReturns \/ UNCHANGED vars
  BY Zenon DEF Next, AcquireStep, Terminated

\* What a process may become, one field at a time.
LEMMA ProcUpdate ==
  ASSUME inst \in [Procs -> ProcRecords], NEW p \in Procs, NEW n \in Nat, NEW b \in BOOLEAN
  PROVE  /\ [inst EXCEPT ![p].exited = b] \in [Procs -> ProcRecords]
         /\ [inst EXCEPT ![p].healthy = b] \in [Procs -> ProcRecords]
         /\ [inst EXCEPT ![p].ready = b] \in [Procs -> ProcRecords]
         /\ [inst EXCEPT ![p].leases = n] \in [Procs -> ProcRecords]
  BY DEF ProcRecords

\* The calls are well typed and each stage has the data it needs.
CallBase == call \in [Callers -> CallRecords] /\ CallOK

\* Where a caller may go with Move.
LEMMA MoveOK ==
  ASSUME CallBase, NEW c \in Callers, NEW label \in Labels,
         NEW p \in Procs \cup {None}, Move(c, label, p),
         call[c].alias \in Aliases, label # "evicting",
         p \in Procs <=>
             label \in Launching \cup {"retiring", "releasing", "using", "joining",
                                    "stopping"}
  PROVE  CallBase'
  BY ConstantsAssumption DEF CallBase, CallRecords, CallOK, Move, Labels, Launching

\* A call that is over, or over but for its loader's record.
LEMMA FailOK ==
  ASSUME CallBase, NEW c \in Callers, call[c].alias \in Aliases, Fail(c)
  PROVE  CallBase'
  BY ConstantsAssumption DEF CallBase, CallRecords, CallOK, Fail, NoCall, Labels, Launching

\* A call that ends leaves the calls well formed.
LEMMA IdleOK ==
  ASSUME CallBase, NEW c \in Callers, call' = [call EXCEPT ![c] = NoCall]
  PROVE  CallBase'
  BY ConstantsAssumption DEF CallBase, CallRecords, CallOK, NoCall, Labels, Launching

\* Only the `over' flag changes.
LEMMA OverOK ==
  ASSUME CallBase, NEW c \in Callers, call' = [call EXCEPT ![c].over = TRUE]
  PROVE  CallBase'
<1>1. call' \in [Callers -> CallRecords]
  BY DEF CallBase, CallRecords
<1>2. \A d \in Callers : /\ call'[d].pc = call[d].pc /\ call'[d].alias = call[d].alias
                         /\ call'[d].inst = call[d].inst
                         /\ call'[d].victim = call[d].victim
  BY DEF CallBase, CallRecords
<1> QED
  BY <1>1, <1>2 DEF CallBase, CallOK

\* The slots, the waiters and the stop list stay well typed.
SlotBase == /\ instances \in [Aliases -> Procs \cup {None}]
            /\ waiters \in SUBSET Callers
            /\ stopping \in SUBSET Procs

\* Dropping an instance from the map leaves the slots well formed.
LEMMA DropOK ==
  ASSUME SlotBase, NEW a \in Aliases, NEW p, Drop(a, p), UNCHANGED stopping
  PROVE  SlotBase'
  BY DEF SlotBase, Drop

\* Stopping an alias leaves the slots well formed.
LEMMA StopInstanceOK ==
  ASSUME SlotBase, NEW a \in Aliases, StopInstance(a)
  PROVE  SlotBase'
  BY DEF SlotBase, Drop, StopInstance

\* The records of the reaper and of StopAll, and the load failures.
RestBase == /\ loadErrors \in SUBSET Aliases
            /\ reap \in [queue : SUBSET Aliases, inst : Procs \cup {None}]
            /\ shut \in [phase : {"serving", "stopping", "stopped"},
                         queue : SUBSET Aliases, insts : SUBSET Procs]

\* Types and CallOK, variable by variable: inductive together.
Base == SlotBase /\ inst \in [Procs -> ProcRecords] /\ CallBase /\ RestBase

\* Base is the type invariant and what each stage of a call knows of its instance.
LEMMA BaseParts == Base <=> TypeOK /\ CallOK
  BY DEF Base, TypeOK, SlotBase, CallBase, RestBase

\* Base holds at the start.
LEMMA InitBase == Init => Base
  BY ConstantsAssumption DEF Init, Base, SlotBase, CallBase, RestBase, CallOK,
     CallRecords, ProcRecords, NoCall, NoProc, Labels, Launching

\* Base is inductive.
LEMMA BaseStep ==
  ASSUME Base, [Next]_vars
  PROVE  Base'
<1> USE DEF Base
<1>1. ASSUME NEW c \in Callers, GiveUp(c) PROVE Base'
  BY <1>1, FailOK DEF GiveUp, CallBase, CallOK, SlotBase, RestBase
<1>2. ASSUME NEW c \in Callers, DropExited(c) PROVE Base'
  <2>0. call[c].alias \in Aliases
    BY <1>2 DEF DropExited, CallBase, CallOK, Launching, Proceeds
  <2>1. SlotBase'
    BY <1>2, <2>0, DropOK DEF DropExited
  <2>2. inst' \in [Procs -> ProcRecords]
    BY <1>2, <2>0 DEF DropExited
  <2>3. CallBase'
    BY <1>2, <2>0, MoveOK, ConstantsAssumption DEF DropExited, Labels, Launching
  <2>4. RestBase'
    BY <1>2, <2>0 DEF DropExited, RestBase
  <2> QED
    BY <2>1, <2>2, <2>3, <2>4
<1>3. ASSUME NEW c \in Callers, Reuse(c) PROVE Base'
  <2>0. call[c].alias \in Aliases
    BY <1>3 DEF Reuse, CallBase, CallOK, Launching, Proceeds
  <2>1. SlotBase'
    BY <1>3, <2>0 DEF Reuse, SlotBase
  <2>2. inst' \in [Procs -> ProcRecords]
    <3> DEFINE p == instances[call[c].alias]
    <3>1. p \in Procs
      BY <1>3, <2>0 DEF Reuse, SlotBase
    <3>2. inst[p].leases + 1 \in Nat
      BY <3>1 DEF ProcRecords
    <3>3. inst' = [inst EXCEPT ![p].leases = inst[p].leases + 1]
      BY <1>3, <3>1 DEF Reuse
    <3> QED
      BY <3>1, <3>2, <3>3, ProcUpdate
  <2>3. CallBase'
    BY <1>3, <2>0, MoveOK, ConstantsAssumption DEF Reuse, Labels, Launching, SlotBase
  <2>4. RestBase'
    BY <1>3, <2>0 DEF Reuse, RestBase
  <2> QED
    BY <2>1, <2>2, <2>3, <2>4
<1>4. ASSUME NEW c \in Callers, Join(c) PROVE Base'
  <2>0. call[c].alias \in Aliases
    BY <1>4 DEF Join, CallBase, CallOK, Launching, Proceeds
  <2>1. SlotBase'
    BY <1>4, <2>0 DEF Join, SlotBase
  <2>2. inst' \in [Procs -> ProcRecords]
    BY <1>4, <2>0 DEF Join
  <2>3. CallBase'
    BY <1>4, <2>0, MoveOK, ConstantsAssumption DEF Join, Labels, Launching, SlotBase
  <2>4. RestBase'
    BY <1>4, <2>0 DEF Join, RestBase
  <2> QED
    BY <2>1, <2>2, <2>3, <2>4
<1>5. ASSUME NEW c \in Callers, JoinReturns(c) PROVE Base'
  <2>0. call[c].alias \in Aliases
    BY <1>5 DEF JoinReturns, CallBase, CallOK, Launching
  <2>1. SlotBase'
    BY <1>5, <2>0, DropOK DEF JoinReturns, SlotBase
  <2>2. inst' \in [Procs -> ProcRecords]
    BY <1>5, <2>0 DEF JoinReturns
  <2>3. CallBase'
    BY <1>5, <2>0, MoveOK, ConstantsAssumption DEF JoinReturns, Labels, Launching
  <2>4. RestBase'
    BY <1>5, <2>0 DEF JoinReturns, RestBase
  <2> QED
    BY <2>1, <2>2, <2>3, <2>4
<1>6. ASSUME NEW c \in Callers, JoinGivesUp(c) PROVE Base'
  <2>0. call[c].alias \in Aliases
    BY <1>6 DEF JoinGivesUp, CallBase, CallOK, Launching
  <2>1. SlotBase'
    BY <1>6, <2>0 DEF JoinGivesUp, SlotBase
  <2>2. inst' \in [Procs -> ProcRecords]
    BY <1>6, <2>0 DEF JoinGivesUp
  <2>3. CallBase'
    BY <1>6, <2>0, MoveOK, ConstantsAssumption DEF JoinGivesUp, Labels, Launching
  <2>4. RestBase'
    BY <1>6, <2>0 DEF JoinGivesUp, RestBase
  <2> QED
    BY <2>1, <2>2, <2>3, <2>4
<1>7. ASSUME NEW c \in Callers, Evict(c) PROVE Base'
  <2>0. call[c].alias \in Aliases /\ call[c].victim \in Aliases
    BY <1>7 DEF Evict, CallBase, CallOK, Launching
  <2>1. SlotBase'
    BY <1>7, <2>0, StopInstanceOK DEF Evict, SlotBase
  <2>2. inst' \in [Procs -> ProcRecords]
    BY <1>7, <2>0 DEF Evict
  <2>3. CallBase'
    BY <1>7, <2>0, MoveOK, ConstantsAssumption DEF Evict, Labels, Launching, SlotBase
  <2>4. RestBase'
    BY <1>7, <2>0 DEF Evict, RestBase
  <2> QED
    BY <2>1, <2>2, <2>3, <2>4
<1>8. ASSUME NEW c \in Callers, EvictReturns(c) PROVE Base'
  <2>0. call[c].alias \in Aliases
    BY <1>8 DEF EvictReturns, CallBase, CallOK, Launching
  <2>1. SlotBase'
    BY <1>8, <2>0 DEF EvictReturns, SlotBase
  <2>2. inst' \in [Procs -> ProcRecords]
    BY <1>8, <2>0 DEF EvictReturns
  <2>3. CallBase'
    BY <1>8, <2>0, MoveOK, ConstantsAssumption DEF EvictReturns, Labels, Launching
  <2>4. RestBase'
    BY <1>8, <2>0 DEF EvictReturns, RestBase
  <2> QED
    BY <2>1, <2>2, <2>3, <2>4
<1>9. ASSUME NEW c \in Callers, AwaitIdle(c) PROVE Base'
  <2>0. call[c].alias \in Aliases
    BY <1>9 DEF AwaitIdle, CallBase, CallOK, Launching, Proceeds
  <2>1. SlotBase'
    BY <1>9, <2>0 DEF AwaitIdle, SlotBase
  <2>2. inst' \in [Procs -> ProcRecords]
    BY <1>9, <2>0 DEF AwaitIdle
  <2>3. CallBase'
    BY <1>9, <2>0, MoveOK, ConstantsAssumption DEF AwaitIdle, Labels, Launching
  <2>4. RestBase'
    BY <1>9, <2>0 DEF AwaitIdle, RestBase
  <2> QED
    BY <2>1, <2>2, <2>3, <2>4
<1>10. ASSUME NEW c \in Callers, WakeUp(c) PROVE Base'
  <2>0. call[c].alias \in Aliases
    BY <1>10 DEF WakeUp, CallBase, CallOK, Launching
  <2>1. SlotBase'
    BY <1>10, <2>0 DEF WakeUp, SlotBase
  <2>2. inst' \in [Procs -> ProcRecords]
    BY <1>10, <2>0 DEF WakeUp
  <2>3. CallBase'
    BY <1>10, <2>0, MoveOK, ConstantsAssumption DEF WakeUp, Labels, Launching
  <2>4. RestBase'
    BY <1>10, <2>0 DEF WakeUp, RestBase
  <2> QED
    BY <2>1, <2>2, <2>3, <2>4
<1>11. ASSUME NEW c \in Callers, LaunchFails(c) PROVE Base'
  <2>0. call[c].alias \in Aliases
    BY <1>11 DEF LaunchFails, CallBase, CallOK, Launching, Proceeds
  <2>1. SlotBase'
    BY <1>11, <2>0 DEF LaunchFails, SlotBase
  <2>2. inst' \in [Procs -> ProcRecords]
    BY <1>11, <2>0 DEF LaunchFails
  <2>3. CallBase'
    BY <1>11, <2>0, FailOK DEF LaunchFails
  <2>4. RestBase'
    BY <1>11, <2>0 DEF LaunchFails, RestBase
  <2> QED
    BY <2>1, <2>2, <2>3, <2>4
<1>12. ASSUME NEW c \in Callers, HealthAnswers(c) PROVE Base'
  <2>0. call[c].alias \in Aliases /\ call[c].inst \in Procs
    BY <1>12 DEF HealthAnswers, CallBase, CallOK, Launching
  <2>1. SlotBase'
    BY <1>12, <2>0 DEF HealthAnswers, SlotBase
  <2>2. inst' \in [Procs -> ProcRecords]
    BY <1>12, <2>0, ProcUpdate DEF HealthAnswers
  <2>3. CallBase'
    BY <1>12, <2>0, MoveOK, ConstantsAssumption DEF HealthAnswers, Labels, Launching
  <2>4. RestBase'
    BY <1>12, <2>0 DEF HealthAnswers, RestBase
  <2> QED
    BY <2>1, <2>2, <2>3, <2>4
<1>13. ASSUME NEW c \in Callers, HealthFails(c) PROVE Base'
  <2>0. call[c].alias \in Aliases /\ call[c].inst \in Procs
    BY <1>13 DEF HealthFails, CallBase, CallOK, Launching
  <2>1. SlotBase'
    BY <1>13, <2>0 DEF HealthFails, SlotBase
  <2>2. inst' \in [Procs -> ProcRecords]
    BY <1>13, <2>0 DEF HealthFails
  <2>3. CallBase'
    BY <1>13, <2>0, MoveOK, ConstantsAssumption DEF HealthFails, Labels, Launching
  <2>4. RestBase'
    BY <1>13, <2>0 DEF HealthFails, RestBase
  <2> QED
    BY <2>1, <2>2, <2>3, <2>4
<1>14. ASSUME NEW c \in Callers, Publish(c) PROVE Base'
  <2>0. call[c].alias \in Aliases /\ call[c].inst \in Procs
    BY <1>14 DEF Publish, CallBase, CallOK, Launching
  <2>1. SlotBase'
    BY <1>14, <2>0 DEF Publish, SlotBase
  <2>2. inst' \in [Procs -> ProcRecords]
    BY <1>14, <2>0, ProcUpdate DEF Publish
  <2>3. CallBase'
    BY <1>14, <2>0, MoveOK, ConstantsAssumption DEF Publish, Labels, Launching
  <2>4. RestBase'
    BY <1>14, <2>0 DEF Publish, RestBase
  <2> QED
    BY <2>1, <2>2, <2>3, <2>4
<1>15. ASSUME NEW c \in Callers, RemoveFailed(c) PROVE Base'
  <2>0. call[c].alias \in Aliases /\ call[c].inst \in Procs
    BY <1>15 DEF RemoveFailed, CallBase, CallOK, Launching
  <2>1. SlotBase'
    BY <1>15, <2>0, DropOK DEF RemoveFailed
  <2>2. inst' \in [Procs -> ProcRecords]
    BY <1>15, <2>0 DEF RemoveFailed
  <2>3. CallBase'
    BY <1>15, <2>0, MoveOK, ConstantsAssumption DEF RemoveFailed, Labels, Launching
  <2>4. RestBase'
    BY <1>15, <2>0 DEF RemoveFailed, RestBase
  <2> QED
    BY <2>1, <2>2, <2>3, <2>4
<1>16. ASSUME NEW c \in Callers, Unblock(c) PROVE Base'
  <2>0. call[c].alias \in Aliases /\ call[c].inst \in Procs
    BY <1>16 DEF Unblock, CallBase, CallOK, Launching
  <2>1. SlotBase'
    BY <1>16, <2>0 DEF Unblock, SlotBase
  <2>2. inst' \in [Procs -> ProcRecords]
    BY <1>16, <2>0, ProcUpdate DEF Unblock
  <2>3. CallBase'
    BY <1>16, <2>0, MoveOK, ConstantsAssumption DEF Unblock, Labels, Launching
  <2>4. RestBase'
    BY <1>16, <2>0 DEF Unblock, RestBase
  <2> QED
    BY <2>1, <2>2, <2>3, <2>4
<1>17. ASSUME NEW c \in Callers, RetireFailure(c) PROVE Base'
  <2>0. call[c].alias \in Aliases /\ call[c].inst \in Procs
    BY <1>17 DEF RetireFailure, CallBase, CallOK, Launching
  <2>1. SlotBase'
    BY <1>17, <2>0 DEF RetireFailure, SlotBase
  <2>2. inst' \in [Procs -> ProcRecords]
    BY <1>17, <2>0 DEF RetireFailure
  <2>3. CallBase'
    BY <1>17, <2>0, MoveOK, ConstantsAssumption DEF RetireFailure, Labels, Launching
  <2>4. RestBase'
    BY <1>17, <2>0 DEF RetireFailure, RestBase
  <2> QED
    BY <2>1, <2>2, <2>3, <2>4
<1>18. ASSUME NEW c \in Callers, LaunchReturns(c) PROVE Base'
  <2>0. call[c].alias \in Aliases /\ call[c].inst \in Procs
    BY <1>18 DEF LaunchReturns, CallBase, CallOK, Launching
  <2>1. SlotBase'
    BY <1>18, <2>0 DEF LaunchReturns, Release, SlotBase
  <2>2. inst' \in [Procs -> ProcRecords]
    <3> DEFINE p == call[c].inst
               n == IF inst[p].leases > 0 THEN inst[p].leases - 1 ELSE 0
    <3>1. n \in Nat
      BY <2>0 DEF ProcRecords
    <3>2. inst' = [inst EXCEPT ![p].leases = n]
      BY <1>18, <2>0 DEF LaunchReturns, Release
    <3> QED
      BY <2>0, <3>1, <3>2, ProcUpdate
  <2>3. CallBase'
    BY <1>18, <2>0, FailOK DEF LaunchReturns
  <2>4. RestBase'
    BY <1>18, <2>0 DEF LaunchReturns, RestBase
  <2> QED
    BY <2>1, <2>2, <2>3, <2>4
<1>19. ASSUME NEW c \in Callers, RecordLoadError(c) PROVE Base'
  <2>0. call[c].alias \in Aliases
    BY <1>19 DEF RecordLoadError, CallBase, CallOK, Launching
  <2>1. SlotBase'
    BY <1>19, <2>0 DEF RecordLoadError, SlotBase
  <2>2. inst' \in [Procs -> ProcRecords]
    BY <1>19, <2>0 DEF RecordLoadError
  <2>3. CallBase'
    BY <1>19, <2>0, IdleOK DEF RecordLoadError
  <2>4. RestBase'
    BY <1>19, <2>0 DEF RecordLoadError, RestBase
  <2> QED
    BY <2>1, <2>2, <2>3, <2>4
<1>20. ASSUME NEW c \in Callers, Finish(c) PROVE Base'
  <2>0. call[c].alias \in Aliases /\ call[c].inst \in Procs
    BY <1>20 DEF Finish, CallBase, CallOK, Launching
  <2>1. SlotBase'
    BY <1>20, <2>0 DEF Finish, Release, SlotBase
  <2>2. inst' \in [Procs -> ProcRecords]
    <3> DEFINE p == call[c].inst
               n == IF inst[p].leases > 0 THEN inst[p].leases - 1 ELSE 0
    <3>1. n \in Nat
      BY <2>0 DEF ProcRecords
    <3>2. inst' = [inst EXCEPT ![p].leases = n]
      BY <1>20, <2>0 DEF Finish, Release
    <3> QED
      BY <2>0, <3>1, <3>2, ProcUpdate
  <2>3. CallBase'
    BY <1>20, <2>0, IdleOK DEF Finish
  <2>4. RestBase'
    BY <1>20, <2>0 DEF Finish, RestBase
  <2> QED
    BY <2>1, <2>2, <2>3, <2>4
<1>21. ASSUME NEW c \in Callers, Cancel(c) PROVE Base'
  <2>1. SlotBase'
    BY <1>21 DEF Cancel, SlotBase
  <2>2. inst' \in [Procs -> ProcRecords]
    BY <1>21 DEF Cancel
  <2>3. CallBase'
    BY <1>21, OverOK DEF Cancel
  <2>4. RestBase'
    BY <1>21 DEF Cancel, RestBase
  <2> QED
    BY <2>1, <2>2, <2>3, <2>4
<1>22. ASSUME NEW c \in Callers, Expire(c) PROVE Base'
  <2>1. SlotBase'
    BY <1>22 DEF Expire, SlotBase
  <2>2. inst' \in [Procs -> ProcRecords]
    BY <1>22 DEF Expire
  <2>3. CallBase'
    BY <1>22, OverOK DEF Expire
  <2>4. RestBase'
    BY <1>22 DEF Expire, RestBase
  <2> QED
    BY <2>1, <2>2, <2>3, <2>4
<1>23. ASSUME NEW c \in Callers, NEW v \in Aliases, ChooseVictim(c, v) PROVE Base'
  <2>0. call[c].alias \in Aliases
    BY <1>23 DEF ChooseVictim, CallBase, CallOK, Launching, Proceeds
  <2>1. SlotBase'
    BY <1>23, <2>0 DEF ChooseVictim, SlotBase
  <2>2. inst' \in [Procs -> ProcRecords]
    BY <1>23, <2>0 DEF ChooseVictim
  <2>3. CallBase'
    BY <1>23, <2>0, ConstantsAssumption DEF ChooseVictim, CallBase, CallRecords, CallOK, Labels, Launching
  <2>4. RestBase'
    BY <1>23, <2>0 DEF ChooseVictim, RestBase
  <2> QED
    BY <2>1, <2>2, <2>3, <2>4
<1>24. ASSUME NEW c \in Callers, NEW a \in Aliases, Begin(c, a) PROVE Base'
  <2>1. SlotBase'
    BY <1>24 DEF Begin, SlotBase
  <2>2. inst' \in [Procs -> ProcRecords]
    BY <1>24 DEF Begin
  <2>3. CallBase'
    BY <1>24, ConstantsAssumption DEF Begin, NoCall, CallBase, CallRecords, CallOK, Labels, Launching
  <2>4. RestBase'
    BY <1>24 DEF Begin, RestBase
  <2> QED
    BY <2>1, <2>2, <2>3, <2>4
<1>25. ASSUME NEW c \in Callers, NEW a \in Aliases, StartLoad(c, a) PROVE Base'
  <2>1. SlotBase'
    BY <1>25 DEF StartLoad, SlotBase
  <2>2. inst' \in [Procs -> ProcRecords]
    BY <1>25 DEF StartLoad
  <2>3. CallBase'
    BY <1>25, ConstantsAssumption DEF StartLoad, NoCall, CallBase, CallRecords, CallOK, Labels, Launching
  <2>4. RestBase'
    BY <1>25 DEF StartLoad, RestBase
  <2> QED
    BY <2>1, <2>2, <2>3, <2>4
<1>26. ASSUME NEW c \in Callers, NEW p \in Procs, Launch(c, p) PROVE Base'
  <2>0. call[c].alias \in Aliases
    BY <1>26 DEF Launch, CallBase, CallOK, Launching, Proceeds
  <2>1. SlotBase'
    BY <1>26, <2>0 DEF Launch, SlotBase
  <2>2. inst' \in [Procs -> ProcRecords]
    BY <1>26, <2>0 DEF Launch, NoProc, ProcRecords
  <2>3. CallBase'
    BY <1>26, <2>0, MoveOK, ConstantsAssumption DEF Launch, Labels, Launching
  <2>4. RestBase'
    BY <1>26, <2>0 DEF Launch, RestBase
  <2> QED
    BY <2>1, <2>2, <2>3, <2>4
<1>27. ASSUME NEW p \in Procs, Exit(p) PROVE Base'
  <2>1. SlotBase'
    BY <1>27 DEF Exit, SlotBase
  <2>2. inst' \in [Procs -> ProcRecords]
    BY <1>27, ProcUpdate DEF Exit
  <2>3. CallBase'
    BY <1>27 DEF Exit, CallBase, CallOK
  <2>4. RestBase'
    BY <1>27 DEF Exit, RestBase
  <2> QED
    BY <2>1, <2>2, <2>3, <2>4
<1>28. ASSUME NEW p \in Procs, GraceEnds(p) PROVE Base'
  <2>1. SlotBase'
    BY <1>28 DEF GraceEnds, SlotBase
  <2>2. inst' \in [Procs -> ProcRecords]
    BY <1>28, ProcUpdate DEF GraceEnds
  <2>3. CallBase'
    BY <1>28 DEF GraceEnds, CallBase, CallOK
  <2>4. RestBase'
    BY <1>28 DEF GraceEnds, RestBase
  <2> QED
    BY <2>1, <2>2, <2>3, <2>4
<1>29. ASSUME NEW V \in SUBSET Aliases, ReapIdle(V) PROVE Base'
  <2>1. SlotBase'
    BY <1>29 DEF ReapIdle, SlotBase
  <2>2. inst' \in [Procs -> ProcRecords]
    BY <1>29 DEF ReapIdle
  <2>3. CallBase'
    BY <1>29 DEF ReapIdle, CallBase, CallOK
  <2>4. RestBase'
    BY <1>29 DEF ReapIdle, RestBase
  <2> QED
    BY <2>1, <2>2, <2>3, <2>4
<1>30. ASSUME NEW a \in Aliases, ReapNext(a) PROVE Base'
  <2>1. SlotBase'
    BY <1>30, StopInstanceOK DEF ReapNext, SlotBase
  <2>2. inst' \in [Procs -> ProcRecords]
    BY <1>30 DEF ReapNext
  <2>3. CallBase'
    BY <1>30 DEF ReapNext, CallBase, CallOK
  <2>4. RestBase'
    BY <1>30 DEF ReapNext, RestBase, SlotBase
  <2> QED
    BY <2>1, <2>2, <2>3, <2>4
<1>31. ASSUME NEW a \in Aliases, Unload(a) PROVE Base'
  <2>1. SlotBase'
    BY <1>31, StopInstanceOK DEF Unload, SlotBase
  <2>2. inst' \in [Procs -> ProcRecords]
    BY <1>31 DEF Unload
  <2>3. CallBase'
    BY <1>31 DEF Unload, CallBase, CallOK
  <2>4. RestBase'
    BY <1>31 DEF Unload, RestBase, SlotBase
  <2> QED
    BY <2>1, <2>2, <2>3, <2>4
<1>32. ASSUME NEW a \in Aliases, StopAllNext(a) PROVE Base'
  <2>1. SlotBase'
    BY <1>32, StopInstanceOK DEF StopAllNext, SlotBase
  <2>2. inst' \in [Procs -> ProcRecords]
    BY <1>32 DEF StopAllNext
  <2>3. CallBase'
    BY <1>32 DEF StopAllNext, CallBase, CallOK
  <2>4. RestBase'
    BY <1>32 DEF StopAllNext, RestBase, SlotBase
  <2> QED
    BY <2>1, <2>2, <2>3, <2>4
<1>33. ASSUME StopAll \/ StopAllReturns \/ UNCHANGED vars PROVE Base'
  BY <1>33 DEF StopAll, StopAllReturns, vars, SlotBase, CallBase, CallOK, RestBase
<1> QED
  BY ONLY StepCases, [Next]_vars, <1>1, <1>2, <1>3, <1>4, <1>5, <1>6, <1>7, <1>8, <1>9, <1>10, <1>11,
     <1>12, <1>13, <1>14, <1>15, <1>16, <1>17, <1>18, <1>19, <1>20,
     <1>21, <1>22, <1>23, <1>24, <1>25, <1>26, <1>27, <1>28, <1>29,
     <1>30, <1>31, <1>32, <1>33

\* Type correctness.
THEOREM TypeCorrect == Spec => []TypeOK
<1>1. Init => Base
  BY InitBase
<1>2. Base /\ [Next]_vars => Base'
  BY BaseStep
<1>3. Base => TypeOK
  BY BaseParts
<1> QED
  BY <1>1, <1>2, <1>3, PTL DEF Spec

-----------------------------------------------------------------------------
(***************************************************************************)
(* NoOrphan.  A slot is emptied only when its process is dead or is being  *)
(* stopped; JoinReturns and RemoveFailed empty one without looking, so the *)
(* invariant says why the process is dead there.                           *)
(***************************************************************************)
SafeInv == Base /\ LaunchOK /\ ProcOK /\ SlotOK /\ NoOrphan

\* SafeInv holds at the start.
LEMMA InitSafe == Init => SafeInv
<1> SUFFICES ASSUME Init PROVE SafeInv
  OBVIOUS
<1>1. Base
  BY InitBase
<1>2. LaunchOK /\ ProcOK /\ SlotOK /\ NoOrphan
  BY DEF Init, LaunchOK, OwnsLaunch, ProcOK, SlotOK, NoOrphan, NoCall, NoProc, Launching
<1> QED
  BY <1>1, <1>2 DEF SafeInv

\* Nothing about the processes changes but their leases, no launch advances,
\* and a slot that changes is emptied of a process that is dead or dying.
Calm ==
  /\ \A p \in Procs : /\ inst'[p].alias = inst[p].alias
                      /\ inst'[p].exited = inst[p].exited
                      /\ inst'[p].healthy = inst[p].healthy
                      /\ inst'[p].ready = inst[p].ready
  /\ \A c \in Callers : call'[c].pc \in Launching =>
         /\ call'[c].pc = call[c].pc
         /\ call'[c].inst = call[c].inst
         /\ call'[c].alias = call[c].alias
  /\ \A a \in Aliases : instances'[a] # instances[a] =>
         /\ instances'[a] = None
         /\ inst[instances[a]].exited \/ instances[a] \in stopping'
  /\ stopping \subseteq stopping'

\* A step that touches no process and starts no launch keeps SafeInv.
LEMMA CalmOK ==
  ASSUME SafeInv, Base', Calm
  PROVE  SafeInv'
<1> USE DEF SafeInv
<1>1. \A c \in Callers : call[c].pc \in Launching => call[c].inst \in Procs
  BY DEF Base, CallBase, CallOK
<1>2. LaunchOK'
  BY <1>1 DEF Calm, LaunchOK, OwnsLaunch
<1>3. ProcOK'
  BY DEF Calm, ProcOK
<1>4. SlotOK'
  BY DEF Calm, SlotOK, Base, SlotBase
<1>5. NoOrphan'
  BY DEF Calm, NoOrphan, ProcOK
<1> QED
  BY <1>2, <1>3, <1>4, <1>5

\* SafeInv is inductive.
LEMMA SafeStep ==
  ASSUME SafeInv, [Next]_vars
  PROVE  SafeInv'
<1> USE DEF SafeInv
<1>0. Base'
  BY BaseStep
<1>1. ASSUME NEW c \in Callers, GiveUp(c) PROVE SafeInv'
  <2>1. Calm
    BY <1>1 DEF Calm, GiveUp, Fail, NoCall, Base, CallBase, CallRecords, CallOK,
       SlotBase, ProcRecords, ProcOK, Launching, InLoop
  <2> QED
    BY <1>0, <2>1, CalmOK
<1>2. ASSUME NEW c \in Callers, DropExited(c) PROVE SafeInv'
  <2>1. Calm
    BY <1>2 DEF Calm, DropExited, Drop, Move, Base, CallBase, CallRecords, CallOK,
       SlotBase, ProcRecords, ProcOK, Launching, InLoop
  <2> QED
    BY <1>0, <2>1, CalmOK
<1>3. ASSUME NEW c \in Callers, Reuse(c) PROVE SafeInv'
  <2>1. Calm
    BY <1>3 DEF Calm, Reuse, Move, Base, CallBase, CallRecords, CallOK,
       SlotBase, ProcRecords, ProcOK, Launching, InLoop
  <2> QED
    BY <1>0, <2>1, CalmOK
<1>4. ASSUME NEW c \in Callers, Join(c) PROVE SafeInv'
  <2>1. Calm
    BY <1>4 DEF Calm, Join, Move, Base, CallBase, CallRecords, CallOK,
       SlotBase, ProcRecords, ProcOK, Launching, InLoop
  <2> QED
    BY <1>0, <2>1, CalmOK
<1>5. ASSUME NEW c \in Callers, JoinReturns(c) PROVE SafeInv'
  <2>1. Calm
    BY <1>5 DEF Calm, JoinReturns, Drop, Move, Base, CallBase, CallRecords, CallOK,
       SlotBase, ProcRecords, ProcOK, Launching, InLoop
  <2> QED
    BY <1>0, <2>1, CalmOK
<1>6. ASSUME NEW c \in Callers, JoinGivesUp(c) PROVE SafeInv'
  <2>1. Calm
    BY <1>6 DEF Calm, JoinGivesUp, Move, Base, CallBase, CallRecords, CallOK,
       SlotBase, ProcRecords, ProcOK, Launching, InLoop
  <2> QED
    BY <1>0, <2>1, CalmOK
<1>7. ASSUME NEW c \in Callers, Evict(c) PROVE SafeInv'
  <2>1. Calm
    BY <1>7 DEF Calm, Evict, StopInstance, Drop, Move, Base, CallBase, CallRecords, CallOK,
       SlotBase, ProcRecords, ProcOK, Launching, InLoop
  <2> QED
    BY <1>0, <2>1, CalmOK
<1>8. ASSUME NEW c \in Callers, EvictReturns(c) PROVE SafeInv'
  <2>1. Calm
    BY <1>8 DEF Calm, EvictReturns, Move, Base, CallBase, CallRecords, CallOK,
       SlotBase, ProcRecords, ProcOK, Launching, InLoop
  <2> QED
    BY <1>0, <2>1, CalmOK
<1>9. ASSUME NEW c \in Callers, AwaitIdle(c) PROVE SafeInv'
  <2>1. Calm
    BY <1>9 DEF Calm, AwaitIdle, Move, Base, CallBase, CallRecords, CallOK,
       SlotBase, ProcRecords, ProcOK, Launching, InLoop
  <2> QED
    BY <1>0, <2>1, CalmOK
<1>10. ASSUME NEW c \in Callers, WakeUp(c) PROVE SafeInv'
  <2>1. Calm
    BY <1>10 DEF Calm, WakeUp, Move, Base, CallBase, CallRecords, CallOK,
       SlotBase, ProcRecords, ProcOK, Launching, InLoop
  <2> QED
    BY <1>0, <2>1, CalmOK
<1>11. ASSUME NEW c \in Callers, LaunchFails(c) PROVE SafeInv'
  <2>1. Calm
    BY <1>11 DEF Calm, LaunchFails, Fail, NoCall, Base, CallBase, CallRecords, CallOK,
       SlotBase, ProcRecords, ProcOK, Launching, InLoop
  <2> QED
    BY <1>0, <2>1, CalmOK
<1>12. ASSUME NEW c \in Callers, RecordLoadError(c) PROVE SafeInv'
  <2>1. Calm
    BY <1>12 DEF Calm, RecordLoadError, NoCall, Base, CallBase, CallRecords, CallOK,
       SlotBase, ProcRecords, ProcOK, Launching, InLoop
  <2> QED
    BY <1>0, <2>1, CalmOK
<1>13. ASSUME NEW c \in Callers, Finish(c) PROVE SafeInv'
  <2>1. Calm
    BY <1>13 DEF Calm, Finish, Release, NoCall, Base, CallBase, CallRecords, CallOK,
       SlotBase, ProcRecords, ProcOK, Launching, InLoop
  <2> QED
    BY <1>0, <2>1, CalmOK
<1>14. ASSUME NEW c \in Callers, RetireFailure(c) PROVE SafeInv'
  <2>1. Calm
    BY <1>14 DEF Calm, RetireFailure, Move, Base, CallBase, CallRecords, CallOK,
       SlotBase, ProcRecords, ProcOK, Launching, InLoop
  <2> QED
    BY <1>0, <2>1, CalmOK
<1>15. ASSUME NEW c \in Callers, LaunchReturns(c) PROVE SafeInv'
  <2>1. Calm
    BY <1>15 DEF Calm, LaunchReturns, Release, Fail, NoCall, Base, CallBase, CallRecords, CallOK,
       SlotBase, ProcRecords, ProcOK, Launching, InLoop
  <2> QED
    BY <1>0, <2>1, CalmOK
<1>16. ASSUME NEW c \in Callers, Cancel(c) PROVE SafeInv'
  <2>1. Calm
    BY <1>16 DEF Calm, Cancel, Base, CallBase, CallRecords, CallOK,
       SlotBase, ProcRecords, ProcOK, Launching, InLoop
  <2> QED
    BY <1>0, <2>1, CalmOK
<1>17. ASSUME NEW c \in Callers, Expire(c) PROVE SafeInv'
  <2>1. Calm
    BY <1>17 DEF Calm, Expire, Base, CallBase, CallRecords, CallOK,
       SlotBase, ProcRecords, ProcOK, Launching, InLoop
  <2> QED
    BY <1>0, <2>1, CalmOK
<1>18. ASSUME NEW c \in Callers, NEW v \in Aliases, ChooseVictim(c, v) PROVE SafeInv'
  <2>1. Calm
    BY <1>18 DEF Calm, ChooseVictim, Base, CallBase, CallRecords, CallOK,
       SlotBase, ProcRecords, ProcOK, Launching, InLoop
  <2> QED
    BY <1>0, <2>1, CalmOK
<1>19. ASSUME NEW c \in Callers, NEW a \in Aliases, Begin(c, a) PROVE SafeInv'
  <2>1. Calm
    BY <1>19 DEF Calm, Begin, NoCall, Base, CallBase, CallRecords, CallOK,
       SlotBase, ProcRecords, ProcOK, Launching, InLoop
  <2> QED
    BY <1>0, <2>1, CalmOK
<1>20. ASSUME NEW c \in Callers, NEW a \in Aliases, StartLoad(c, a) PROVE SafeInv'
  <2>1. Calm
    BY <1>20 DEF Calm, StartLoad, NoCall, Base, CallBase, CallRecords, CallOK,
       SlotBase, ProcRecords, ProcOK, Launching, InLoop
  <2> QED
    BY <1>0, <2>1, CalmOK
<1>21. ASSUME NEW V \in SUBSET Aliases, ReapIdle(V) PROVE SafeInv'
  <2>1. Calm
    BY <1>21 DEF Calm, ReapIdle, Base, CallBase, CallRecords, CallOK,
       SlotBase, ProcRecords, ProcOK, Launching, InLoop
  <2> QED
    BY <1>0, <2>1, CalmOK
<1>22. ASSUME NEW a \in Aliases, ReapNext(a) PROVE SafeInv'
  <2>1. Calm
    BY <1>22 DEF Calm, ReapNext, StopInstance, Drop, Base, CallBase, CallRecords, CallOK,
       SlotBase, ProcRecords, ProcOK, Launching, InLoop
  <2> QED
    BY <1>0, <2>1, CalmOK
<1>23. ASSUME NEW a \in Aliases, Unload(a) PROVE SafeInv'
  <2>1. Calm
    BY <1>23 DEF Calm, Unload, StopInstance, Drop, Base, CallBase, CallRecords, CallOK,
       SlotBase, ProcRecords, ProcOK, Launching, InLoop
  <2> QED
    BY <1>0, <2>1, CalmOK
<1>24. ASSUME NEW a \in Aliases, StopAllNext(a) PROVE SafeInv'
  <2>1. Calm
    BY <1>24 DEF Calm, StopAllNext, StopInstance, Drop, Base, CallBase, CallRecords, CallOK,
       SlotBase, ProcRecords, ProcOK, Launching, InLoop
  <2> QED
    BY <1>0, <2>1, CalmOK
<1>25. ASSUME NEW c \in Callers, HealthFails(c) PROVE SafeInv'
  <2>1. LaunchOK'
    BY <1>25 DEF HealthFails, Move, LaunchOK, OwnsLaunch, ProcOK, Base, CallBase,
       CallRecords, CallOK, SlotBase, ProcRecords, Launching
  <2>2. ProcOK'
    BY <1>25 DEF HealthFails, Move, ProcOK, LaunchOK, OwnsLaunch, Base, CallBase,
       CallRecords, CallOK, SlotBase, ProcRecords, Launching
  <2>3. SlotOK'
    BY <1>25 DEF HealthFails, Move, SlotOK, LaunchOK, OwnsLaunch, ProcOK, Base, CallBase,
       CallRecords, CallOK, SlotBase, ProcRecords, Launching
  <2>4. NoOrphan'
    BY <1>25 DEF HealthFails, Move, NoOrphan, LaunchOK, OwnsLaunch, ProcOK, SlotOK, Base, CallBase,
       CallRecords, CallOK, SlotBase, ProcRecords, Launching
  <2> QED
    BY <1>0, <2>1, <2>2, <2>3, <2>4
<1>26. ASSUME NEW c \in Callers, HealthAnswers(c) PROVE SafeInv'
  <2>1. LaunchOK'
    <3> DEFINE p == call[c].inst
    <3>1. p \in Procs
      BY <1>26 DEF HealthAnswers, Base, CallBase, CallOK, Launching
    <3>2. CASE inst[p].exited
      BY <1>26, <3>1, <3>2 DEF HealthAnswers, Move, LaunchOK, OwnsLaunch, Base, CallBase,
         CallRecords, CallOK, Launching
    <3>3. CASE ~inst[p].exited
      <4>1. \A q \in Procs : /\ inst'[q].alias = inst[q].alias
                             /\ inst'[q].exited = inst[q].exited
                             /\ inst'[q].ready = inst[q].ready
                             /\ inst'[q].healthy = IF q = p THEN TRUE
                                                   ELSE inst[q].healthy
        <5>1. inst' = [inst EXCEPT ![p].healthy = TRUE]
          BY <1>26, <3>3 DEF HealthAnswers
        <5> QED
          BY <5>1, <3>1 DEF Base, ProcRecords
      <4>2. /\ call'[c].pc = "publishing" /\ call'[c].inst = p
            /\ call'[c].alias = call[c].alias
            /\ \A d \in Callers : d # c => call'[d] = call[d]
            /\ call[c].pc = "launching"
        BY <1>26, <3>3 DEF HealthAnswers, Move, Base, CallBase, CallRecords
      <4>3. \A d \in Callers : call[d].pc \in Launching => call[d].inst \in Procs
        BY DEF Base, CallBase, CallOK, Launching
      <4>4. UNCHANGED stopping
        BY <1>26 DEF HealthAnswers
      <4> QED
        <5>1. CASE \E d \in Callers : d # c /\ call[d].pc \in Launching /\ call[d].inst = p
          BY <4>2, <5>1 DEF LaunchOK, OwnsLaunch, Launching
        <5>2. CASE \A d \in Callers : d # c /\ call[d].pc \in Launching => call[d].inst # p
          <6>1. ASSUME NEW e \in Callers, e # c, call[e].pc \in Launching
                PROVE  UNCHANGED <<call[e], inst[call[e].inst]>>
            <7>1. call[e].inst \in Procs /\ call[e].inst # p
              BY <4>3, <5>2, <6>1
            <7>2. inst' = [inst EXCEPT ![p].healthy = TRUE]
              BY <1>26, <3>3 DEF HealthAnswers
            <7> QED
              BY <4>2, <6>1, <7>1, <7>2 DEF Base
          <6>2. OwnsLaunch(c)'
            <7>1. OwnsLaunch(c)
              BY <4>2 DEF LaunchOK, Launching
            <7>2. \A d \in Callers :
                     call'[d].pc \in Launching /\ call'[d].inst = p => d = c
              BY <4>2, <5>2
            <7>3. /\ inst'[p].alias = call[c].alias /\ ~inst'[p].ready
                  /\ inst'[p].healthy
              BY <3>1, <4>1, <7>1 DEF OwnsLaunch
            <7> QED
              BY <4>2, <7>2, <7>3 DEF OwnsLaunch, Launching
          <6>3. ASSUME NEW e \in Callers, e # c, call'[e].pc \in Launching
                PROVE  OwnsLaunch(e)'
            BY <4>2, <4>3, <4>4, <5>2, <6>1, <6>3 DEF LaunchOK, OwnsLaunch
          <6> QED
            BY <6>2, <6>3 DEF LaunchOK
        <5> QED
          BY <5>1, <5>2
    <3> QED
      BY <3>2, <3>3
  <2>2. ProcOK'
    BY <1>26 DEF HealthAnswers, Move, ProcOK, LaunchOK, OwnsLaunch, Base, CallBase,
       CallRecords, CallOK, SlotBase, ProcRecords, Launching
  <2>3. SlotOK'
    BY <1>26 DEF HealthAnswers, Move, SlotOK, LaunchOK, OwnsLaunch, ProcOK, Base, CallBase,
       CallRecords, CallOK, SlotBase, ProcRecords, Launching
  <2>4. NoOrphan'
    <3>1. \A q \in Procs : inst'[q].alias = inst[q].alias /\ inst'[q].exited = inst[q].exited
      BY <1>26 DEF HealthAnswers, Base, ProcRecords
    <3>2. UNCHANGED <<instances, stopping>>
      BY <1>26 DEF HealthAnswers
    <3> QED
      BY <3>1, <3>2 DEF NoOrphan
  <2> QED
    BY <1>0, <2>1, <2>2, <2>3, <2>4
<1>27. ASSUME NEW c \in Callers, Publish(c) PROVE SafeInv'
  <2>1. LaunchOK'
    BY <1>27 DEF Publish, Move, LaunchOK, OwnsLaunch, ProcOK, Base, CallBase,
       CallRecords, CallOK, SlotBase, ProcRecords, Launching
  <2>2. ProcOK'
    BY <1>27 DEF Publish, Move, ProcOK, LaunchOK, OwnsLaunch, Base, CallBase,
       CallRecords, CallOK, SlotBase, ProcRecords, Launching
  <2>3. SlotOK'
    BY <1>27 DEF Publish, Move, SlotOK, LaunchOK, OwnsLaunch, ProcOK, Base, CallBase,
       CallRecords, CallOK, SlotBase, ProcRecords, Launching
  <2>4. NoOrphan'
    BY <1>27 DEF Publish, Move, NoOrphan, LaunchOK, OwnsLaunch, ProcOK, SlotOK, Base, CallBase,
       CallRecords, CallOK, SlotBase, ProcRecords, Launching
  <2> QED
    BY <1>0, <2>1, <2>2, <2>3, <2>4
<1>28. ASSUME NEW c \in Callers, RemoveFailed(c) PROVE SafeInv'
  <2>1. LaunchOK'
    BY <1>28 DEF RemoveFailed, Move, Drop, LaunchOK, OwnsLaunch, ProcOK, Base, CallBase,
       CallRecords, CallOK, SlotBase, ProcRecords, Launching
  <2>2. ProcOK'
    BY <1>28 DEF RemoveFailed, Move, Drop, ProcOK, LaunchOK, OwnsLaunch, Base, CallBase,
       CallRecords, CallOK, SlotBase, ProcRecords, Launching
  <2>3. SlotOK'
    BY <1>28 DEF RemoveFailed, Move, Drop, SlotOK, LaunchOK, OwnsLaunch, ProcOK, Base, CallBase,
       CallRecords, CallOK, SlotBase, ProcRecords, Launching
  <2>4. NoOrphan'
    BY <1>28 DEF RemoveFailed, Move, Drop, NoOrphan, LaunchOK, OwnsLaunch, ProcOK, SlotOK, Base, CallBase,
       CallRecords, CallOK, SlotBase, ProcRecords, Launching
  <2> QED
    BY <1>0, <2>1, <2>2, <2>3, <2>4
<1>29. ASSUME NEW c \in Callers, Unblock(c) PROVE SafeInv'
  <2>1. LaunchOK'
    BY <1>29 DEF Unblock, Move, LaunchOK, OwnsLaunch, ProcOK, Base, CallBase,
       CallRecords, CallOK, SlotBase, ProcRecords, Launching
  <2>2. ProcOK'
    BY <1>29 DEF Unblock, Move, ProcOK, LaunchOK, OwnsLaunch, Base, CallBase,
       CallRecords, CallOK, SlotBase, ProcRecords, Launching
  <2>3. SlotOK'
    BY <1>29 DEF Unblock, Move, SlotOK, LaunchOK, OwnsLaunch, ProcOK, Base, CallBase,
       CallRecords, CallOK, SlotBase, ProcRecords, Launching
  <2>4. NoOrphan'
    BY <1>29 DEF Unblock, Move, NoOrphan, LaunchOK, OwnsLaunch, ProcOK, SlotOK, Base, CallBase,
       CallRecords, CallOK, SlotBase, ProcRecords, Launching
  <2> QED
    BY <1>0, <2>1, <2>2, <2>3, <2>4
<1>30. ASSUME NEW c \in Callers, NEW p \in Procs, Launch(c, p) PROVE SafeInv'
  <2>1. LaunchOK'
    BY <1>30 DEF Launch, Move, Fresh, NoProc, LaunchOK, OwnsLaunch, ProcOK, Base, CallBase,
       CallRecords, CallOK, SlotBase, ProcRecords, Launching
  <2>2. /\ call[c].alias \in Aliases
        /\ inst'[p].alias = call[c].alias
        /\ ~inst'[p].exited /\ ~inst'[p].ready
        /\ \A q \in Procs : q # p => inst'[q] = inst[q]
        /\ \A a \in Aliases :
               instances'[a] = IF a = call[c].alias THEN p ELSE instances[a]
        /\ instances[call[c].alias] = None
        /\ stopping' = stopping
    BY <1>30 DEF Launch, Proceeds, NoProc, Base, CallBase, CallOK, SlotBase, ProcRecords
  <2>3. ProcOK'
    BY <2>2 DEF ProcOK
  <2>4. SlotOK'
    BY <1>30 DEF Launch, Move, Fresh, NoProc, SlotOK, LaunchOK, OwnsLaunch, ProcOK, Base, CallBase,
       CallRecords, CallOK, SlotBase, ProcRecords, Launching
  <2>5. NoOrphan'
    BY <2>2, ConstantsAssumption DEF NoOrphan, ProcOK
  <2> QED
    BY <1>0, <2>1, <2>3, <2>4, <2>5
<1>31. ASSUME NEW p \in Procs, Exit(p) PROVE SafeInv'
  <2>1. LaunchOK'
    BY <1>31 DEF Exit, LaunchOK, OwnsLaunch, ProcOK, Base, CallBase,
       CallRecords, CallOK, SlotBase, ProcRecords, Launching
  <2>2. ProcOK'
    BY <1>31 DEF Exit, ProcOK, LaunchOK, OwnsLaunch, Base, CallBase,
       CallRecords, CallOK, SlotBase, ProcRecords, Launching
  <2>3. SlotOK'
    BY <1>31 DEF Exit, SlotOK, LaunchOK, OwnsLaunch, ProcOK, Base, CallBase,
       CallRecords, CallOK, SlotBase, ProcRecords, Launching
  <2>4. NoOrphan'
    BY <1>31 DEF Exit, NoOrphan, LaunchOK, OwnsLaunch, ProcOK, SlotOK, Base, CallBase,
       CallRecords, CallOK, SlotBase, ProcRecords, Launching
  <2> QED
    BY <1>0, <2>1, <2>2, <2>3, <2>4
<1>32. ASSUME NEW p \in Procs, GraceEnds(p) PROVE SafeInv'
  <2>1. LaunchOK'
    BY <1>32 DEF GraceEnds, LaunchOK, OwnsLaunch, ProcOK, Base, CallBase,
       CallRecords, CallOK, SlotBase, ProcRecords, Launching
  <2>2. ProcOK'
    BY <1>32 DEF GraceEnds, ProcOK, LaunchOK, OwnsLaunch, Base, CallBase,
       CallRecords, CallOK, SlotBase, ProcRecords, Launching
  <2>3. SlotOK'
    BY <1>32 DEF GraceEnds, SlotOK, LaunchOK, OwnsLaunch, ProcOK, Base, CallBase,
       CallRecords, CallOK, SlotBase, ProcRecords, Launching
  <2>4. NoOrphan'
    BY <1>32 DEF GraceEnds, NoOrphan, LaunchOK, OwnsLaunch, ProcOK, SlotOK, Base, CallBase,
       CallRecords, CallOK, SlotBase, ProcRecords, Launching
  <2> QED
    BY <1>0, <2>1, <2>2, <2>3, <2>4
<1>33. ASSUME StopAll \/ StopAllReturns \/ UNCHANGED vars PROVE SafeInv'
  <2>1. Calm
    BY <1>33 DEF Calm, StopAll, StopAllReturns, vars
  <2> QED
    BY <1>0, <2>1, CalmOK
<1> QED
  BY ONLY StepCases, [Next]_vars, <1>1, <1>2, <1>3, <1>4, <1>5, <1>6, <1>7, <1>8, <1>9, <1>10, <1>11,
     <1>12, <1>13, <1>14, <1>15, <1>16, <1>17, <1>18, <1>19, <1>20,
     <1>21, <1>22, <1>23, <1>24, <1>25, <1>26, <1>27, <1>28, <1>29,
     <1>30, <1>31, <1>32, <1>33

\* No live process is ever lost from the manager's sight.
THEOREM NoOrphans == Spec => []NoOrphan
<1>1. SafeInv => NoOrphan
  BY DEF SafeInv
<1> QED
  BY InitSafe, SafeStep, <1>1, PTL DEF Spec

-----------------------------------------------------------------------------
(***************************************************************************)
(* Sums over sets of aliases.  The fold of the community modules is an     *)
(* unspecified recursive function on each set; what is needed of it - it   *)
(* exists, the order of its picks does not matter, it grows with the set - *)
(* follows by induction on finite sets, in the form of a least             *)
(* counterexample.                                                         *)
(***************************************************************************)

\* The alias SumFunctionOnSet takes from a set first, and one pass of its fold.
Pick(S) == CHOOSE x \in S : TRUE

Fold(g, S) == g = [s \in SUBSET S |-> IF s = {} THEN 0
                                      ELSE Memory[Pick(s)] + g[s \ {Pick(s)}]]

\* The memory estimates of a set of aliases, added up.
Sum(S) == SumFunctionOnSet(Memory, S)

\* SumFunctionOnSet is such a fold, whichever one CHOOSE takes.
LEMMA SumIsFold == \A S : Sum(S) = (CHOOSE g : Fold(g, S))[S]
  BY DEF Sum, SumFunctionOnSet, FoldFunctionOnSet, MapThenFoldSet, Fold, Pick

\* Among sets of aliases, a family that is not empty has a member none of whose
\* strict subsets is in it: induction on finite sets.
LEMMA MinimalSet ==
  ASSUME NEW F \in SUBSET (SUBSET Aliases), F # {}
  PROVE  \E S \in F : \A T \in SUBSET S : T # S => T \notin F
<1>1. IsWellFoundedOn(StrictSubsetOrdering(Aliases), SUBSET Aliases)
  <2>1. IsWellFoundedOn(StrictSubsetOrdering(Aliases), FiniteSubsetsOf(Aliases))
    BY FS_StrictSubsetOrderingWellFounded
  <2>2. FiniteSubsetsOf(Aliases) = SUBSET Aliases
    BY FS_FiniteSubsetsOfFinite, ConstantsAssumption
  <2> QED
    BY <2>1, <2>2
<1>2. PICK S \in F : \A T \in F : <<T, S>> \notin StrictSubsetOrdering(Aliases)
  BY <1>1, WFMin
<1> QED
  BY <1>2 DEF StrictSubsetOrdering

\* The pick is a member.
LEMMA PickIn == \A S : S # {} => Pick(S) \in S
  BY DEF Pick

\* Two folds agree where both are defined.
LEMMA FoldsAgree ==
  ASSUME NEW A \in SUBSET Aliases, NEW B \in SUBSET Aliases, NEW g, NEW h,
         Fold(g, A), Fold(h, B)
  PROVE  \A s \in SUBSET (A \cap B) : g[s] = h[s]
<1> DEFINE Bad == {s \in SUBSET (A \cap B) : g[s] # h[s]}
<1>1. SUFFICES ASSUME Bad # {} PROVE FALSE
  OBVIOUS
<1>2. PICK s \in Bad : \A t \in SUBSET s : t # s => t \notin Bad
  BY <1>1, MinimalSet
<1>3. s # {}
  BY <1>2 DEF Fold
<1> DEFINE t == s \ {Pick(s)}
<1>4. t \in SUBSET s /\ t # s /\ t \in SUBSET (A \cap B)
  BY <1>2, <1>3, PickIn
<1>5. g[t] = h[t]
  BY <1>2, <1>4
<1>6. g[s] = Memory[Pick(s)] + g[t] /\ h[s] = Memory[Pick(s)] + h[t]
  BY <1>2, <1>3 DEF Fold
<1> QED
  BY <1>2, <1>5, <1>6

\* Every set of aliases has its fold.
LEMMA FoldExists == \A S \in SUBSET Aliases : \E g : Fold(g, S)
<1> DEFINE Bad == {S \in SUBSET Aliases : ~ \E g : Fold(g, S)}
<1>1. SUFFICES ASSUME Bad # {} PROVE FALSE
  OBVIOUS
<1>2. PICK S \in Bad : \A T \in SUBSET S : T # S => T \notin Bad
  BY <1>1, MinimalSet
<1> DEFINE g == [s \in SUBSET S |-> IF s = {} THEN 0
                                    ELSE Memory[Pick(s)] + Sum(s \ {Pick(s)})]
<1>3. ASSUME NEW s \in SUBSET S, s # {}
      PROVE  g[s \ {Pick(s)}] = Sum(s \ {Pick(s)})
  <2> DEFINE t == s \ {Pick(s)}
             u == t \ {Pick(t)}
  <2>1. t \in SUBSET S /\ t # S /\ t \in SUBSET Aliases
    BY <1>2, <1>3, PickIn
  <2>2. PICK G : Fold(G, t)
    BY <1>2, <2>1
  <2> DEFINE H == CHOOSE f : Fold(f, t)
  <2>3. Fold(H, t) /\ Sum(t) = H[t]
    BY <2>2, SumIsFold
  <2>4. CASE t = {}
    BY <2>1, <2>3, <2>4 DEF Fold
  <2>5. CASE t # {}
    <3>1. u \in SUBSET t /\ u # S /\ u \in SUBSET S /\ u \in SUBSET Aliases
      BY <2>1, <2>5, PickIn
    <3>2. PICK E : Fold(E, u)
      BY <1>2, <3>1
    <3> DEFINE K == CHOOSE f : Fold(f, u)
    <3>3. Fold(K, u) /\ Sum(u) = K[u]
      BY <3>2, SumIsFold
    <3>4. K[u] = H[u]
      BY <2>1, <2>3, <3>1, <3>3, FoldsAgree
    <3>5. H[t] = Memory[Pick(t)] + H[u]
      BY <2>3, <2>5 DEF Fold
    <3>6. g[t] = Memory[Pick(t)] + Sum(u)
      BY <2>1, <2>5
    <3> QED
      BY <2>3, <3>3, <3>4, <3>5, <3>6
  <2> QED
    BY <2>4, <2>5
<1>4. Fold(g, S)
  <2>1. \A s \in SUBSET S : g[s] = IF s = {} THEN 0
                                   ELSE Memory[Pick(s)] + g[s \ {Pick(s)}]
    BY <1>3
  <2> HIDE DEF g
  <2>2. g = [s \in SUBSET S |-> g[s]]
    BY DEF g
  <2> QED
    BY <2>1, <2>2 DEF Fold
<1> QED
  BY <1>2, <1>4

\* The sum of a set, one alias at a time.
LEMMA SumUnfolds ==
  /\ Sum({}) = 0
  /\ \A S \in SUBSET Aliases :
         S # {} => Sum(S) = Memory[Pick(S)] + Sum(S \ {Pick(S)})
<1>1. ASSUME NEW S \in SUBSET Aliases
      PROVE  /\ Fold(CHOOSE f : Fold(f, S), S)
             /\ Sum(S) = (CHOOSE f : Fold(f, S))[S]
  BY <1>1, FoldExists, SumIsFold
<1>2. Sum({}) = 0
  BY <1>1 DEF Fold
<1>3. ASSUME NEW S \in SUBSET Aliases, S # {}
      PROVE  Sum(S) = Memory[Pick(S)] + Sum(S \ {Pick(S)})
  <2> DEFINE T == S \ {Pick(S)}
             G == CHOOSE f : Fold(f, S)
             H == CHOOSE f : Fold(f, T)
  <2>1. Fold(G, S) /\ Sum(S) = G[S] /\ Fold(H, T) /\ Sum(T) = H[T]
    BY <1>1
  <2>2. G[S] = Memory[Pick(S)] + G[T]
    BY <1>3, <2>1 DEF Fold
  <2>3. G[T] = H[T]
    BY <2>1, FoldsAgree
  <2> QED
    BY <2>1, <2>2, <2>3
<1> QED
  BY <1>2, <1>3

\* A sum of estimates is a natural number.
LEMMA SumIsNat == \A S \in SUBSET Aliases : Sum(S) \in Nat
<1> DEFINE Bad == {S \in SUBSET Aliases : Sum(S) \notin Nat}
<1>1. SUFFICES ASSUME Bad # {} PROVE FALSE
  OBVIOUS
<1>2. PICK S \in Bad : \A T \in SUBSET S : T # S => T \notin Bad
  BY <1>1, MinimalSet
<1>3. S # {}
  <2>1. Sum({}) \in Nat
    BY SumUnfolds
  <2> QED
    BY <1>2, <2>1
<1>4. Pick(S) \in S /\ Sum(S \ {Pick(S)}) \in Nat
  BY <1>2, <1>3, PickIn
<1>5. Memory[Pick(S)] \in Nat
  BY <1>2, <1>4, ConstantsAssumption
<1> QED
  BY <1>2, <1>3, <1>4, <1>5, SumUnfolds

\* The order in which the fold picks does not matter.
LEMMA SumAdds ==
  \A S \in SUBSET Aliases : \A a \in S : Sum(S) = Memory[a] + Sum(S \ {a})
<1> DEFINE Bad == {S \in SUBSET Aliases :
                       ~ \A a \in S : Sum(S) = Memory[a] + Sum(S \ {a})}
<1>1. SUFFICES ASSUME Bad # {} PROVE FALSE
  OBVIOUS
<1>2. PICK S \in Bad : \A T \in SUBSET S : T # S => T \notin Bad
  BY <1>1, MinimalSet
<1>3. PICK a \in S : Sum(S) # Memory[a] + Sum(S \ {a})
  BY <1>2
<1> DEFINE b == Pick(S)
<1>4. b \in S /\ Sum(S) = Memory[b] + Sum(S \ {b})
  BY <1>2, <1>3, PickIn, SumUnfolds
<1>5. a # b
  BY <1>3, <1>4
<1>6. Sum(S \ {b}) = Memory[a] + Sum((S \ {b}) \ {a})
  BY <1>2, <1>3, <1>4, <1>5
<1>7. Sum(S \ {a}) = Memory[b] + Sum((S \ {a}) \ {b})
  BY <1>2, <1>3, <1>4, <1>5
<1>8. (S \ {b}) \ {a} = (S \ {a}) \ {b}
  OBVIOUS
<1>9. /\ Memory[a] \in Nat /\ Memory[b] \in Nat
      /\ Sum((S \ {a}) \ {b}) \in Nat
  BY <1>2, <1>3, <1>4, SumIsNat, ConstantsAssumption
<1> DEFINE rest == Sum((S \ {a}) \ {b})
<1>10. /\ Sum(S) = Memory[b] + (Memory[a] + rest)
       /\ Memory[a] + Sum(S \ {a}) = Memory[a] + (Memory[b] + rest)
  BY <1>4, <1>6, <1>7, <1>8
<1>11. Memory[b] + (Memory[a] + rest) = Memory[a] + (Memory[b] + rest)
  BY <1>9
<1> QED
  BY <1>3, <1>10, <1>11

\* Fewer aliases weigh no more.
LEMMA SumGrows == \A S \in SUBSET Aliases : \A T \in SUBSET S : Sum(T) <= Sum(S)
<1> DEFINE Bad == {S \in SUBSET Aliases : ~ \A T \in SUBSET S : Sum(T) <= Sum(S)}
<1>1. SUFFICES ASSUME Bad # {} PROVE FALSE
  OBVIOUS
<1>2. PICK S \in Bad : \A T \in SUBSET S : T # S => T \notin Bad
  BY <1>1, MinimalSet
<1>3. PICK T \in SUBSET S : ~(Sum(T) <= Sum(S))
  BY <1>2
<1>4. T # S
  BY <1>2, <1>3, SumIsNat
<1>5. PICK a \in S : a \notin T
  BY <1>4
<1>6. S \ {a} \notin Bad /\ T \in SUBSET (S \ {a})
  BY <1>2, <1>5
<1>7. Sum(T) <= Sum(S \ {a})
  BY <1>2, <1>6
<1>8. Sum(S) = Memory[a] + Sum(S \ {a})
  BY <1>2, <1>5, SumAdds
<1>9. /\ Memory[a] \in Nat /\ Sum(S \ {a}) \in Nat /\ Sum(T) \in Nat
  BY <1>2, <1>5, <1>3, SumIsNat, ConstantsAssumption
<1> QED
  BY <1>3, <1>7, <1>8, <1>9

-----------------------------------------------------------------------------
(***************************************************************************)
(* The refinement of ModelPool, and the budget that follows from it.       *)
(***************************************************************************)

\* What of a process the pool sees is its life and its health.
SameProcs == \A p \in Procs : /\ inst'[p].exited = inst[p].exited
                              /\ inst'[p].healthy = inst[p].healthy

\* A step that touches no slot and no process's life or health is a stutter.
LEMMA PoolStutter ==
  ASSUME Base, UNCHANGED instances, SameProcs
  PROVE  UNCHANGED Status
<1>1. \A a \in Aliases : instances[a] # None => instances[a] \in Procs
  BY DEF Base, SlotBase
<1>2. \A a \in Aliases : /\ Running(a)' = Running(a)
                         /\ Running(a) => inst'[instances[a]].healthy
                                              = inst[instances[a]].healthy
  BY <1>1 DEF Running, SameProcs
<1> QED
  BY <1>2 DEF Status

\* Drop empties one slot at most: the alias leaves the pool if it was running.
LEMMA PoolDrop ==
  ASSUME Base, Base', NEW a \in Aliases, NEW p, Drop(a, p), SameProcs
  PROVE  [Pool!Next]_Status
<1>1. \A b \in Aliases : instances[b] # None => instances[b] \in Procs
  BY DEF Base, SlotBase
<1>2. CASE UNCHANGED instances
  BY <1>2, PoolStutter
<1>3. CASE instances' = [instances EXCEPT ![a] = None]
  <2>1. \A b \in Aliases : b # a => instances'[b] = instances[b]
    BY <1>3
  <2>2. instances'[a] = None
    BY <1>3 DEF Base, SlotBase
  <2>3. ~Running(a)'
    BY <2>2 DEF Running
  <2>4. \A b \in Aliases \ {a} :
            /\ Running(b)' = Running(b)
            /\ Running(b) => inst'[instances'[b]].healthy = inst[instances[b]].healthy
    BY <1>1, <2>1 DEF Running, SameProcs
  <2>5. Status' = [Status EXCEPT ![a] = "absent"]
    BY <2>3, <2>4 DEF Status
  <2>6. CASE Running(a)
    <3>1. Status[a] # "absent"
      BY <2>6 DEF Status
    <3> QED
      BY <2>5, <3>1 DEF Pool!Next, Pool!Leave
  <2>7. CASE ~Running(a)
    <3>1. Status[a] = "absent"
      BY <2>7 DEF Status
    <3> QED
      BY <2>5, <3>1 DEF Status
  <2> QED
    BY <2>6, <2>7
<1> QED
  BY <1>2, <1>3 DEF Drop

\* A process that exits takes its alias out of the pool if it occupied the slot.
LEMMA PoolExit ==
  ASSUME Base, SlotOK, UNCHANGED instances, NEW p \in Procs,
         inst' = [inst EXCEPT ![p].exited = TRUE]
  PROVE  [Pool!Next]_Status
<1>1. \A b \in Aliases : instances[b] # None => instances[b] \in Procs
  BY DEF Base, SlotBase
<1>2. /\ inst'[p].exited
      /\ \A q \in Procs : /\ inst'[q].healthy = inst[q].healthy
                          /\ q # p => inst'[q].exited = inst[q].exited
  BY DEF Base, ProcRecords
<1>3. CASE \E a \in Aliases : instances[a] = p
  <2>1. PICK a \in Aliases : instances[a] = p
    BY <1>3
  <2>2. \A b \in Aliases \ {a} : instances[b] # p
    BY <2>1, ConstantsAssumption DEF SlotOK
  <2>3. ~Running(a)'
    BY <1>2, <2>1 DEF Running
  <2>4. \A b \in Aliases \ {a} :
            /\ Running(b)' = Running(b)
            /\ Running(b) => inst'[instances'[b]].healthy = inst[instances[b]].healthy
    BY <1>1, <1>2, <2>2 DEF Running
  <2>5. Status' = [Status EXCEPT ![a] = "absent"]
    BY <2>3, <2>4 DEF Status
  <2>6. CASE Running(a)
    <3>1. Status[a] # "absent"
      BY <2>6 DEF Status
    <3> QED
      BY <2>5, <3>1 DEF Pool!Next, Pool!Leave
  <2>7. CASE ~Running(a)
    <3>1. Status[a] = "absent"
      BY <2>7 DEF Status
    <3> QED
      BY <2>5, <3>1 DEF Status
  <2> QED
    BY <2>6, <2>7
<1>4. CASE \A a \in Aliases : instances[a] # p
  <2>1. \A b \in Aliases :
            /\ Running(b)' = Running(b)
            /\ Running(b) => inst'[instances'[b]].healthy = inst[instances[b]].healthy
    BY <1>1, <1>2, <1>4 DEF Running
  <2> QED
    BY <2>1 DEF Status
<1> QED
  BY <1>3, <1>4

\* The health check's answer makes the alias ready, once.
LEMMA PoolHealthy ==
  ASSUME SafeInv, NEW c \in Callers, HealthAnswers(c)
  PROVE  [Pool!Next]_Status
<1> DEFINE p == call[c].inst
<1>1. p \in Procs /\ call[c].alias \in Aliases /\ call[c].pc \in Launching
  BY DEF SafeInv, Base, CallBase, CallOK, Launching, HealthAnswers
<1>2. ~inst[p].healthy /\ inst[p].alias = call[c].alias
  BY <1>1 DEF SafeInv, LaunchOK, OwnsLaunch, HealthAnswers
<1>3. \A b \in Aliases : instances[b] # None => instances[b] \in Procs
  BY DEF SafeInv, Base, SlotBase
<1>4. UNCHANGED instances
  BY DEF HealthAnswers
<1>5. CASE inst[p].exited
  BY <1>4, <1>5, PoolStutter DEF HealthAnswers, SameProcs, SafeInv
<1>6. CASE ~inst[p].exited
  <2>1. /\ inst'[p].healthy
        /\ \A q \in Procs : /\ inst'[q].exited = inst[q].exited
                            /\ q # p => inst'[q].healthy = inst[q].healthy
    BY <1>1, <1>6 DEF HealthAnswers, SafeInv, Base, ProcRecords
  <2>2. CASE \E a \in Aliases : instances[a] = p
    <3>1. PICK a \in Aliases : instances[a] = p
      BY <2>2
    <3>2. \A b \in Aliases \ {a} : instances[b] # p
      BY <3>1, <1>1, ConstantsAssumption DEF SafeInv, SlotOK
    <3>3. Running(a) /\ Running(a)' /\ p # None
      BY <1>1, <1>4, <1>6, <2>1, <3>1, ConstantsAssumption DEF Running
    <3>4. \A b \in Aliases \ {a} :
              /\ Running(b)' = Running(b)
              /\ Running(b) => inst'[instances'[b]].healthy = inst[instances[b]].healthy
      BY <1>3, <1>4, <2>1, <3>2 DEF Running
    <3>5. Status[a] = "loading" /\ Status' = [Status EXCEPT ![a] = "ready"]
      BY <1>2, <1>4, <2>1, <3>1, <3>3, <3>4 DEF Status
    <3> QED
      BY <3>5 DEF Pool!Next, Pool!BecomeReady
  <2>3. CASE \A a \in Aliases : instances[a] # p
    <3>1. \A b \in Aliases :
              /\ Running(b)' = Running(b)
              /\ Running(b) => inst'[instances'[b]].healthy = inst[instances[b]].healthy
      BY <1>3, <1>4, <2>1, <2>3 DEF Running
    <3> QED
      BY <3>1 DEF Status
  <2> QED
    BY <2>2, <2>3
<1> QED
  BY <1>5, <1>6

\* The running aliases are those the pool has loaded.
LEMMA ResidentIsLoaded == Resident = Pool!Loaded
  BY DEF Resident, Pool!Loaded, Status

\* The pool's room and fitsLocked are the same thing for an alias that is absent.
LEMMA RoomIsFits ==
  ASSUME NEW a \in Aliases, ~Running(a)
  PROVE  Fits(a) <=> Pool!RoomFor(a, Pool!Loaded)
<1>1. Resident \ {a} = Pool!Loaded
  BY ResidentIsLoaded DEF Resident
<1>2. \A S : Pool!SumFunctionOnSet(Memory, S) = SumFunctionOnSet(Memory, S)
  BY DEF Pool!SumFunctionOnSet, Pool!FoldFunctionOnSet, Pool!MapThenFoldSet,
         SumFunctionOnSet, FoldFunctionOnSet, MapThenFoldSet
<1>3. \A S : Pool!Cardinality(S) = Cardinality(S)
  BY DEF Pool!Cardinality, Cardinality
<1> QED
  BY <1>1, <1>2, <1>3 DEF Fits, Pool!RoomFor

\* A launch is admitted by the pool: fitsLocked and launchLocked share one
\* critical section, and the process mapped is new.
LEMMA PoolLaunch ==
  ASSUME SafeInv, NEW c \in Callers, NEW p \in Procs, Launch(c, p)
  PROVE  \E a \in Aliases : Pool!Admit(a)
<1>1. PICK a \in Aliases : a = call[c].alias
  BY DEF SafeInv, Base, CallBase, CallOK, Launch, Proceeds
<1>2. instances[a] = None /\ p # None
  BY <1>1, ConstantsAssumption DEF Launch
<1>3. \A b \in Aliases : instances[b] # None => instances[b] \in Procs
  BY DEF SafeInv, Base, SlotBase
<1>4. /\ instances'[a] = p /\ ~inst'[p].exited /\ ~inst'[p].healthy
      /\ \A b \in Aliases \ {a} : instances'[b] = instances[b] /\ instances[b] # p
      /\ \A q \in Procs \ {p} : inst'[q] = inst[q]
  BY <1>1 DEF Launch, Fresh, NoProc, SafeInv, Base, SlotBase, ProcRecords
<1>5. ~Running(a) /\ Running(a)'
  BY <1>2, <1>4 DEF Running
<1>6. \A b \in Aliases \ {a} :
          /\ Running(b)' = Running(b)
          /\ Running(b) => inst'[instances'[b]].healthy = inst[instances[b]].healthy
  BY <1>3, <1>4 DEF Running
<1>7. Status[a] = "absent" /\ Status' = [Status EXCEPT ![a] = "loading"]
  BY <1>1, <1>4, <1>5, <1>6 DEF Status
<1>8. Pool!RoomFor(a, Pool!Loaded)
  BY <1>1, <1>5, RoomIsFits DEF Launch
<1> QED
  BY <1>1, <1>7, <1>8 DEF Pool!Admit

\* Every step is a step of the pool or a stutter.
LEMMA PoolStep ==
  ASSUME SafeInv, [Next]_vars
  PROVE  [Pool!Next]_Status
<1>1. Base /\ Base' /\ SlotOK
  BY SafeStep DEF SafeInv
<1>2. ASSUME NEW c \in Callers,
             \/ GiveUp(c) \/ Reuse(c) \/ Join(c) \/ JoinGivesUp(c) \/ EvictReturns(c)
             \/ AwaitIdle(c) \/ WakeUp(c) \/ LaunchFails(c) \/ HealthFails(c)
             \/ Publish(c) \/ RetireFailure(c) \/ Unblock(c) \/ LaunchReturns(c)
             \/ RecordLoadError(c) \/ Finish(c) \/ Cancel(c) \/ Expire(c)
             \/ \E a \in Aliases : ChooseVictim(c, a) \/ Begin(c, a) \/ StartLoad(c, a)
      PROVE  UNCHANGED Status
  <2>1. UNCHANGED instances
    BY <1>2 DEF GiveUp, Reuse, Join, JoinGivesUp, EvictReturns, AwaitIdle, WakeUp,
       LaunchFails, HealthFails, Publish, RetireFailure, Unblock, LaunchReturns,
       RecordLoadError, Finish, Cancel, Expire, ChooseVictim, Begin, StartLoad
  <2>2. SameProcs
    <3>1. CASE Reuse(c) \/ LaunchReturns(c) \/ Finish(c)
      BY <1>1, <3>1 DEF Reuse, LaunchReturns, Finish, Release, SameProcs, Base, ProcRecords
    <3>2. CASE Publish(c) \/ Unblock(c)
      BY <1>1, <3>2 DEF Publish, Unblock, SameProcs, Base, ProcRecords
    <3>3. CASE UNCHANGED inst
      BY <3>3 DEF SameProcs
    <3> QED
      BY <1>2, <3>1, <3>2, <3>3 DEF GiveUp, Join, JoinGivesUp, EvictReturns, AwaitIdle,
         WakeUp, LaunchFails, HealthFails, RetireFailure, RecordLoadError, Cancel,
         Expire, ChooseVictim, Begin, StartLoad
  <2> QED
    BY <1>1, <2>1, <2>2, PoolStutter
<1>3. ASSUME NEW c \in Callers, DropExited(c) \/ JoinReturns(c) \/ RemoveFailed(c)
      PROVE  [Pool!Next]_Status
  <2>1. PICK a \in Aliases : a = call[c].alias
    BY <1>1, <1>3 DEF Base, CallBase, CallOK, DropExited, Proceeds, JoinReturns,
       RemoveFailed
  <2>2. SameProcs
    BY <1>3 DEF DropExited, JoinReturns, RemoveFailed, SameProcs
  <2>3. UNCHANGED instances \/ \E p : Drop(a, p)
    BY <1>3, <2>1 DEF DropExited, JoinReturns, RemoveFailed
  <2> QED
    BY <1>1, <2>2, <2>3, PoolDrop, PoolStutter
<1>4. ASSUME NEW c \in Callers, Evict(c) PROVE [Pool!Next]_Status
  <2>1. PICK v \in Aliases : v = call[c].victim
    BY <1>1, <1>4 DEF Base, CallBase, CallOK, Evict
  <2>2. SameProcs
    BY <1>4 DEF Evict, SameProcs
  <2>3. UNCHANGED instances \/ \E p : Drop(v, p)
    BY <1>4, <2>1 DEF Evict, StopInstance
  <2> QED
    BY <1>1, <2>2, <2>3, PoolDrop, PoolStutter
<1>5. ASSUME NEW a \in Aliases, ReapNext(a) \/ Unload(a) \/ StopAllNext(a)
      PROVE  [Pool!Next]_Status
  <2>1. SameProcs
    BY <1>5 DEF ReapNext, Unload, StopAllNext, SameProcs
  <2>2. UNCHANGED instances \/ \E p : Drop(a, p)
    BY <1>5 DEF ReapNext, Unload, StopAllNext, StopInstance
  <2> QED
    BY <1>1, <2>1, <2>2, PoolDrop, PoolStutter
<1>6. ASSUME NEW p \in Procs, Exit(p) \/ GraceEnds(p) PROVE [Pool!Next]_Status
  BY <1>1, <1>6, PoolExit DEF Exit, GraceEnds
<1>7. ASSUME NEW V \in SUBSET Aliases,
             ReapIdle(V) \/ StopAll \/ StopAllReturns \/ UNCHANGED vars
      PROVE  UNCHANGED Status
  BY <1>1, <1>7, PoolStutter DEF ReapIdle, StopAll, StopAllReturns, vars, SameProcs
<1>8. ASSUME NEW c \in Callers, NEW p \in Procs, Launch(c, p) PROVE Pool!Next
  BY <1>8, PoolLaunch DEF Pool!Next
<1>9. ASSUME StopAll \/ StopAllReturns \/ UNCHANGED vars PROVE UNCHANGED Status
  BY <1>7, <1>9
<1> QED
  BY ONLY StepCases, SafeInv, [Next]_vars, PoolHealthy, <1>2, <1>3, <1>4, <1>5, <1>6, <1>7, <1>8, <1>9

\* The pool starts empty.
LEMMA PoolInit == Init => Pool!Init
  BY DEF Init, Pool!Init, Status, Running

\* The manager implements the abstract pool, step by step (what the map of
\* instances shows of an alias): an alias starts loading only with room for it,
\* becomes ready once, and is never replaced without having left.
THEOREM PoolImplemented == Spec => Pool!SafeSpec
  BY InitSafe, SafeStep, PoolInit, PoolStep, PTL DEF Spec, Pool!SafeSpec

\* The budget is a property of the pool: an admission checks it and nothing
\* else adds to what is loaded.
LEMMA PoolKeepsBudget ==
  ASSUME BudgetHeld, [Pool!Next]_Status
  PROVE  BudgetHeld'
<1>1. Resident \in SUBSET Aliases /\ IsFiniteSet(Resident) /\ Cardinality(Resident) \in Nat
  <2>1. Resident \in SUBSET Aliases
    BY DEF Resident
  <2>2. IsFiniteSet(Resident)
    BY <2>1, FS_Subset, ConstantsAssumption
  <2> QED
    BY <2>1, <2>2, FS_CardinalityType
<1>2. \A a \in Aliases : a \in Resident <=> Status[a] # "absent"
  BY DEF Resident, Status
<1>3. Resident' = {a \in Aliases : Status'[a] # "absent"}
  BY DEF Resident, Status
<1>4. CASE Resident' \in SUBSET Resident
  <2>1. Cardinality(Resident') <= Cardinality(Resident) /\ Cardinality(Resident') \in Nat
    BY <1>1, <1>4, FS_Subset, FS_CardinalityType
  <2>2. Sum(Resident') <= Sum(Resident) /\ Sum(Resident) \in Nat /\ Sum(Resident') \in Nat
    BY <1>1, <1>4, SumGrows, SumIsNat
  <2>3. MaxLoaded \in Nat /\ MaxMemory \in Nat
    BY ConstantsAssumption
  <2>4. CountHeld'
    BY <1>1, <2>1, <2>3 DEF BudgetHeld, CountHeld
  <2>5. MemoryHeld'
    BY <2>2, <2>3 DEF BudgetHeld, MemoryHeld, Sum
  <2> QED
    BY <2>4, <2>5 DEF BudgetHeld
<1>5. ASSUME NEW a \in Aliases, Pool!Admit(a) PROVE BudgetHeld'
  <2>1. a \notin Resident /\ Resident' = Resident \cup {a}
    BY <1>2, <1>3, <1>5 DEF Pool!Admit, Status, Resident
  <2>2. Fits(a) /\ Resident \ {a} = Resident
    <3>1. ~Running(a)
      BY <2>1 DEF Resident
    <3> QED
      BY <1>5, <2>1, <3>1, RoomIsFits DEF Pool!Admit
  <2>3. Cardinality(Resident') = Cardinality(Resident) + 1
    BY <1>1, <2>1, FS_AddElement
  <2>4. Sum(Resident') = Memory[a] + Sum(Resident)
    BY <1>1, <2>1, SumAdds
  <2>5. Sum(Resident) \in Nat /\ Memory[a] \in Nat
    BY <1>1, SumIsNat, ConstantsAssumption
  <2>6. CountHeld'
    BY <2>2, <2>3 DEF CountHeld, Fits
  <2>7. MemoryHeld'
    BY <2>2, <2>4, <2>5 DEF BudgetHeld, MemoryHeld, Fits, Sum
  <2> QED
    BY <2>6, <2>7 DEF BudgetHeld
<1>6. ASSUME NEW a \in Aliases, Pool!BecomeReady(a) \/ Pool!Leave(a)
      PROVE  Resident' \in SUBSET Resident
  BY <1>2, <1>3, <1>6 DEF Pool!BecomeReady, Pool!Leave, Status
<1>7. ASSUME UNCHANGED Status PROVE Resident' \in SUBSET Resident
  BY <1>2, <1>3, <1>7
<1> QED
  BY <1>4, <1>5, <1>6, <1>7 DEF Pool!Next

\* The budget holds when nothing runs.
LEMMA InitBudget == Init => BudgetHeld
<1>1. ASSUME Init PROVE Resident = {}
  BY <1>1 DEF Init, Resident, Running
<1>2. Sum({}) = 0 /\ Cardinality({}) = 0
  BY SumUnfolds, FS_EmptySet
<1> QED
  BY <1>1, <1>2, ConstantsAssumption DEF BudgetHeld, CountHeld, MemoryHeld, Sum

\* Neither cap is ever exceeded by the instances in the map that are alive.
THEOREM WithinBudget == Spec => []BudgetHeld
<1>1. SafeInv /\ BudgetHeld /\ [Next]_vars => (SafeInv /\ BudgetHeld)'
  BY SafeStep, PoolStep, PoolKeepsBudget
<1>2. Init => SafeInv /\ BudgetHeld
  BY InitSafe, InitBudget
<1> QED
  BY <1>1, <1>2, PTL DEF Spec

-----------------------------------------------------------------------------
(***************************************************************************)
(* Leases, launches and wake-ups.                                          *)
(***************************************************************************)

\* A caller that has launched p and has not yet closed its ready channel.
HasOwner(p) == \E o \in Callers : call[o].inst = p /\ call[o].pc \in Launching

\* Every live process is ready or has such a caller.
OwnerOK == \A p \in Procs : ~inst[p].exited => inst[p].ready \/ HasOwner(p)

\* Whoever is on the idleSignal channel is blocked on it.
WaitersOK == \A c \in waiters : call[c].pc = "waiting"

\* The stages of a call that holds a lease.
HoldLabels == Launching \cup {"retiring", "releasing", "using"}

\* The holders of an instance can be counted.
LEMMA HoldersFinite ==
  \A p : Holders(p) \in SUBSET Callers /\ IsFiniteSet(Holders(p))
<1>1. IsFiniteSet(Callers)
  BY ConstantsAssumption, FS_Union DEF Callers
<1>2. \A p : Holders(p) \in SUBSET Callers
  BY DEF Holders
<1> QED
  BY <1>1, <1>2, FS_Subset

\* Where Fail and the end of a call leave the caller.
LEMMA FailOut ==
  ASSUME call \in [Callers -> CallRecords], NEW c \in Callers,
         Fail(c) \/ call' = [call EXCEPT ![c] = NoCall]
  PROVE  /\ call'[c].pc \in {"idle", "failed"}
         /\ \A d \in Callers \ {c} : call'[d] = call[d]
<1>1. NoCall.pc = "idle"
  BY DEF NoCall
<1>2. [NoCall EXCEPT !.pc = "failed", !.alias = call[c].alias].pc = "failed"
  BY DEF NoCall
<1>3. PICK r : call' = [call EXCEPT ![c] = r] /\ r.pc \in {"idle", "failed"}
  BY <1>1, <1>2 DEF Fail
<1> QED
  BY <1>3

\* A step that moves no lease: the same callers hold the same instances.
LEMMA LeasesKept ==
  ASSUME LeasesCounted,
         \A p \in Procs : /\ inst'[p].leases = inst[p].leases
                          /\ \A d \in Callers : Holds(d, p)' <=> Holds(d, p)
  PROVE  LeasesCounted'
<1>1. \A p \in Procs : Holders(p)' = Holders(p)
  BY DEF Holders
<1> QED
  BY <1>1 DEF LeasesCounted

\* Caller c comes to hold p, and p has one lease more.
LEMMA LeaseTaken ==
  ASSUME LeasesCounted, NEW c \in Callers, NEW p \in Procs,
         \A q \in Procs : /\ inst'[q].leases = IF q = p THEN inst[q].leases + 1
                                               ELSE inst[q].leases
                          /\ \A d \in Callers :
                                Holds(d, q)' <=> Holds(d, q) \/ (d = c /\ q = p),
         \A q \in Procs : ~Holds(c, q)
  PROVE  LeasesCounted'
<1>1. ASSUME NEW q \in Procs PROVE Holders(q)' = IF q = p THEN Holders(q) \cup {c}
                                               ELSE Holders(q)
  BY DEF Holders
<1>2. c \notin Holders(p)
  BY DEF Holders
<1>3. Cardinality(Holders(p) \cup {c}) = Cardinality(Holders(p)) + 1
  BY <1>2, HoldersFinite, FS_AddElement
<1> QED
  BY <1>1, <1>3 DEF LeasesCounted

\* Caller c's hold on p ends, and p has one lease less.
LEMMA LeaseReturned ==
  ASSUME LeasesCounted, NEW c \in Callers, NEW p \in Procs, Holds(c, p),
         inst[p].leases \in Nat,
         \A q \in Procs :
            /\ inst'[q].leases = IF q # p THEN inst[q].leases
                                 ELSE IF inst[q].leases > 0 THEN inst[q].leases - 1 ELSE 0
            /\ \A d \in Callers : Holds(d, q)' <=> Holds(d, q) /\ d # c
  PROVE  LeasesCounted'
<1>1. ASSUME NEW q \in Procs PROVE Holders(q)' = IF q = p THEN Holders(q) \ {c}
                                               ELSE Holders(q)
  BY DEF Holders, Holds
<1>2. c \in Holders(p)
  BY DEF Holders
<1>3. Cardinality(Holders(p) \ {c}) = Cardinality(Holders(p)) - 1
  BY <1>2, HoldersFinite, FS_RemoveElement
<1>4. inst[p].leases > 0
  BY <1>2, HoldersFinite, FS_EmptySet DEF LeasesCounted
<1> QED
  BY <1>1, <1>3, <1>4 DEF LeasesCounted

\* Every step keeps the lease counts equal to the number of holders.
LEMMA LeaseStep ==
  ASSUME SafeInv, LeasesCounted, [Next]_vars
  PROVE  LeasesCounted'
<1>0. /\ Base /\ inst \in [Procs -> ProcRecords] /\ call \in [Callers -> CallRecords]
      /\ \A q \in Procs : inst[q].leases \in Nat
      /\ \A d \in Callers : call[d].pc \in HoldLabels => call[d].inst \in Procs
  BY DEF SafeInv, Base, CallBase, CallOK, HoldLabels, ProcRecords
<1>1. ASSUME NEW c \in Callers, Reuse(c) PROVE LeasesCounted'
  <2> DEFINE p == instances[call[c].alias]
  <2>1. p \in Procs
    BY <1>0, <1>1 DEF Reuse, Proceeds, Base, SlotBase, CallBase, CallOK
  <2>2. inst' = [inst EXCEPT ![p].leases = inst[p].leases + 1]
    BY <1>0, <1>1, <2>1 DEF Reuse
  <2>3. \A q \in Procs : inst'[q].leases = IF q = p THEN inst[q].leases + 1
                                           ELSE inst[q].leases
    BY <1>0, <2>1, <2>2 DEF ProcRecords
  <2>4. /\ call'[c].pc = "using" /\ call'[c].inst = p
        /\ \A d \in Callers \ {c} : call'[d] = call[d]
        /\ call[c].pc \notin HoldLabels
    BY <1>0, <1>1 DEF Reuse, Proceeds, Move, HoldLabels, Launching
  <2> HIDE DEF p
  <2>5. /\ \A q \in Procs, d \in Callers : Holds(d, q)' <=> Holds(d, q) \/ (d = c /\ q = p)
        /\ \A q \in Procs : ~Holds(c, q)
    BY <2>4 DEF Holds, HoldLabels
  <2> QED
    BY <2>1, <2>3, <2>5, LeaseTaken
<1>2. ASSUME NEW c \in Callers, NEW p \in Procs, Launch(c, p) PROVE LeasesCounted'
  <2>1. \A d \in Callers : ~Holds(d, p)
    BY <1>2 DEF Launch, Fresh, Holds
  <2>2. inst[p].leases = 0
    <3>1. Holders(p) = {}
      BY <2>1 DEF Holders
    <3> QED
      BY <3>1, FS_EmptySet DEF LeasesCounted
  <2>3. \A q \in Procs : inst'[q].leases = IF q = p THEN inst[q].leases + 1
                                           ELSE inst[q].leases
    BY <1>0, <1>2, <2>2 DEF Launch, NoProc, ProcRecords
  <2>4. /\ call'[c].pc = "launching" /\ call'[c].inst = p
        /\ \A d \in Callers \ {c} : call'[d] = call[d]
        /\ call[c].pc \notin HoldLabels
    BY <1>0, <1>2 DEF Launch, Proceeds, Move, HoldLabels, Launching
  <2>5. /\ \A q \in Procs, d \in Callers : Holds(d, q)' <=> Holds(d, q) \/ (d = c /\ q = p)
        /\ \A q \in Procs : ~Holds(c, q)
    BY <2>4 DEF Holds, HoldLabels, Launching
  <2> QED
    BY <2>3, <2>5, LeaseTaken
<1>3. ASSUME NEW c \in Callers, LaunchReturns(c) \/ Finish(c) PROVE LeasesCounted'
  <2>1. PICK p \in Procs : p = call[c].inst
    BY <1>0, <1>3 DEF LaunchReturns, Finish, HoldLabels
  <2>2. Holds(c, p)
    BY <1>3, <2>1 DEF LaunchReturns, Finish, Holds
  <2>3. \A q \in Procs :
           inst'[q].leases = IF q # p THEN inst[q].leases
                             ELSE IF inst[q].leases > 0 THEN inst[q].leases - 1 ELSE 0
    BY <1>0, <1>3, <2>1 DEF LaunchReturns, Finish, Release, ProcRecords
  <2>4. /\ call'[c].pc \notin HoldLabels
        /\ \A d \in Callers \ {c} : call'[d] = call[d]
    BY <1>0, <1>3, FailOut DEF LaunchReturns, Finish, HoldLabels, Launching
  <2>5. \A q \in Procs, d \in Callers : Holds(d, q)' <=> Holds(d, q) /\ d # c
    BY <2>4 DEF Holds, HoldLabels
  <2> QED
    BY <1>0, <2>2, <2>3, <2>5, LeaseReturned
<1>4. ASSUME NEW c \in Callers,
             \/ GiveUp(c) \/ DropExited(c) \/ Join(c) \/ JoinReturns(c) \/ JoinGivesUp(c)
             \/ Evict(c) \/ EvictReturns(c) \/ AwaitIdle(c) \/ WakeUp(c) \/ LaunchFails(c)
             \/ RecordLoadError(c) \/ Cancel(c) \/ Expire(c)
             \/ \E a \in Aliases : ChooseVictim(c, a) \/ Begin(c, a) \/ StartLoad(c, a)
      PROVE  LeasesCounted'
  <2>1. UNCHANGED inst
    BY <1>4 DEF GiveUp, DropExited, Join, JoinReturns, JoinGivesUp, Evict, EvictReturns,
       AwaitIdle, WakeUp, LaunchFails, RecordLoadError, Cancel, Expire, ChooseVictim,
       Begin, StartLoad
  <2>2. /\ call[c].pc \notin HoldLabels /\ call'[c].pc \notin HoldLabels
        /\ \A d \in Callers \ {c} : call'[d] = call[d]
    <3>1. CASE GiveUp(c) \/ LaunchFails(c) \/ RecordLoadError(c)
      BY <1>0, <3>1, FailOut DEF GiveUp, LaunchFails, RecordLoadError, Proceeds,
         HoldLabels, Launching
    <3>2. CASE \/ DropExited(c) \/ Join(c) \/ JoinReturns(c) \/ JoinGivesUp(c)
               \/ Evict(c) \/ EvictReturns(c) \/ AwaitIdle(c) \/ WakeUp(c)
      BY <1>0, <3>2 DEF DropExited, Join, JoinReturns, JoinGivesUp, Evict, EvictReturns,
         AwaitIdle, WakeUp, Move, Proceeds, HoldLabels, Launching
    <3>3. CASE Cancel(c) \/ Expire(c)
      BY <1>0, <3>3 DEF Cancel, Expire, InLoop, HoldLabels, Launching, CallRecords
    <3>4. ASSUME NEW a \in Aliases, ChooseVictim(c, a) \/ Begin(c, a) \/ StartLoad(c, a)
          PROVE  /\ call[c].pc \notin HoldLabels /\ call'[c].pc \notin HoldLabels
                 /\ \A d \in Callers \ {c} : call'[d] = call[d]
      <4>1. CASE ChooseVictim(c, a)
        BY <1>0, <4>1 DEF ChooseVictim, Proceeds, HoldLabels, Launching
      <4>2. CASE Begin(c, a)
        BY <1>0, <4>2 DEF Begin, NoCall, HoldLabels, Launching
      <4>3. CASE StartLoad(c, a)
        BY <1>0, <4>3 DEF StartLoad, NoCall, HoldLabels, Launching
      <4> QED
        BY <3>4, <4>1, <4>2, <4>3
    <3> QED
      BY <1>4, <3>1, <3>2, <3>3, <3>4
  <2>3. \A q \in Procs, d \in Callers : Holds(d, q)' <=> Holds(d, q)
    BY <2>2 DEF Holds, HoldLabels
  <2> QED
    BY <2>1, <2>3, LeasesKept
<1>5. ASSUME NEW c \in Callers,
             \/ HealthAnswers(c) \/ HealthFails(c) \/ Publish(c) \/ RetireFailure(c)
             \/ RemoveFailed(c) \/ Unblock(c)
      PROVE  LeasesCounted'
  <2>1. \A q \in Procs : inst'[q].leases = inst[q].leases
    BY <1>0, <1>5 DEF HealthAnswers, HealthFails, Publish, RetireFailure, RemoveFailed,
       Unblock, ProcRecords
  <2>2. /\ call[c].pc \in HoldLabels /\ call'[c].pc \in HoldLabels
        /\ call'[c].inst = call[c].inst
        /\ \A d \in Callers \ {c} : call'[d] = call[d]
    BY <1>0, <1>5 DEF HealthAnswers, HealthFails, Publish, RetireFailure, RemoveFailed,
       Unblock, Move, HoldLabels, Launching
  <2>3. \A q \in Procs, d \in Callers : Holds(d, q)' <=> Holds(d, q)
    BY <2>2 DEF Holds, HoldLabels
  <2> QED
    BY <2>1, <2>3, LeasesKept
<1>6. ASSUME UNCHANGED call, \A q \in Procs : inst'[q].leases = inst[q].leases
      PROVE  LeasesCounted'
  <2>1. \A q \in Procs, d \in Callers : Holds(d, q)' <=> Holds(d, q)
    BY <1>6 DEF Holds
  <2> QED
    BY <1>6, <2>1, LeasesKept
<1>7. ASSUME NEW p \in Procs, Exit(p) \/ GraceEnds(p) PROVE LeasesCounted'
  BY <1>0, <1>6, <1>7 DEF Exit, GraceEnds, ProcRecords
<1>8. ASSUME NEW a \in Aliases, ReapNext(a) \/ Unload(a) \/ StopAllNext(a)
      PROVE  LeasesCounted'
  BY <1>6, <1>8 DEF ReapNext, Unload, StopAllNext
<1>9. ASSUME NEW V \in SUBSET Aliases, ReapIdle(V) PROVE LeasesCounted'
  BY <1>6, <1>9 DEF ReapIdle
<1>10. ASSUME StopAll \/ StopAllReturns \/ UNCHANGED vars PROVE LeasesCounted'
  BY <1>6, <1>10 DEF StopAll, StopAllReturns, vars
<1> QED
  BY ONLY StepCases, [Next]_vars, <1>1, <1>2, <1>3, <1>4, <1>5, <1>7, <1>8, <1>9, <1>10

\* A step that starts no process, ends no launch and lets nobody join one.
LEMMA OwnersKept ==
  ASSUME OwnerOK, JoinersHaveOwner,
         \A c \in Callers : call[c].pc = "joining" => call[c].inst \in Procs,
         \A p \in Procs : /\ inst[p].exited => inst'[p].exited
                          /\ inst[p].ready => inst'[p].ready,
         \A c \in Callers :
            /\ call[c].pc \in Launching =>
                 /\ call'[c].inst = call[c].inst
                 /\ call'[c].pc \in Launching \/ inst'[call[c].inst].ready
            /\ call'[c].pc = "joining" =>
                 call[c].pc = "joining" /\ call'[c].inst = call[c].inst
  PROVE  OwnerOK' /\ JoinersHaveOwner'
<1>1. \A p \in Procs : inst[p].ready \/ HasOwner(p) => inst'[p].ready \/ HasOwner(p)'
  BY DEF HasOwner
<1>2. OwnerOK'
  BY <1>1 DEF OwnerOK
<1>3. JoinersHaveOwner'
  BY <1>1 DEF JoinersHaveOwner, HasOwner
<1> QED
  BY <1>2, <1>3

\* Every step leaves a live process ready or owned, and so every join.
LEMMA OwnerStep ==
  ASSUME SafeInv, OwnerOK, JoinersHaveOwner, [Next]_vars
  PROVE  OwnerOK' /\ JoinersHaveOwner'
<1>0. /\ Base /\ inst \in [Procs -> ProcRecords] /\ call \in [Callers -> CallRecords]
      /\ \A d \in Callers : call[d].pc \in Launching \cup {"joining"} => call[d].inst \in Procs
      /\ \A d \in Callers : call[d].pc = "joining" => call[d].inst \in Procs
  BY DEF SafeInv, Base, CallBase, CallOK
<1>1. ASSUME NEW c \in Callers, Join(c) PROVE OwnerOK' /\ JoinersHaveOwner'
  <2> DEFINE p == instances[call[c].alias]
  <2>1. p \in Procs /\ ~inst[p].exited
    BY <1>0, <1>1 DEF Join, Proceeds, Base, SlotBase, CallBase, CallOK
  <2>2. /\ call'[c].pc = "joining" /\ call'[c].inst = p
        /\ \A d \in Callers \ {c} : call'[d] = call[d]
        /\ call[c].pc \notin Launching
        /\ UNCHANGED inst
    BY <1>0, <1>1 DEF Join, Proceeds, Move, Launching
  <2> HIDE DEF p
  <2>3. \A q : HasOwner(q) => HasOwner(q)'
    BY <2>2 DEF HasOwner
  <2>4. inst[p].ready \/ HasOwner(p)
    BY <2>1 DEF OwnerOK
  <2>5. OwnerOK'
    BY <2>2, <2>3 DEF OwnerOK
  <2>6. JoinersHaveOwner'
    <3> SUFFICES ASSUME NEW d \in Callers, NEW q, call'[d].pc = "joining",
                        call'[d].inst = q
                 PROVE  inst'[q].ready \/ HasOwner(q)'
      BY DEF JoinersHaveOwner, HasOwner
    <3>1. CASE d = c
      BY <2>2, <2>3, <2>4, <3>1
    <3>2. CASE d # c
      <4>1. inst[q].ready \/ HasOwner(q)
        BY <2>2, <3>2 DEF JoinersHaveOwner, HasOwner
      <4> QED
        BY <2>2, <2>3, <4>1
    <3> QED
      BY <3>1, <3>2
  <2> QED
    BY <2>5, <2>6
<1>2. ASSUME NEW c \in Callers, NEW p \in Procs, Launch(c, p)
      PROVE  OwnerOK' /\ JoinersHaveOwner'
  <2>1. /\ call'[c].pc = "launching" /\ call'[c].inst = p
        /\ \A d \in Callers \ {c} : call'[d] = call[d]
        /\ call[c].pc \notin Launching
        /\ \A d \in Callers : call[d].inst # p
        /\ \A q \in Procs \ {p} : inst'[q] = inst[q]
    BY <1>0, <1>2 DEF Launch, Fresh, Proceeds, Move, Launching
  <2>2. HasOwner(p)'
    BY <2>1 DEF HasOwner, Launching
  <2>3. \A q : HasOwner(q) => HasOwner(q)'
    BY <2>1 DEF HasOwner
  <2>4. OwnerOK'
    BY <2>1, <2>2, <2>3 DEF OwnerOK
  <2>5. JoinersHaveOwner'
    <3> SUFFICES ASSUME NEW d \in Callers, NEW q, call'[d].pc = "joining",
                        call'[d].inst = q
                 PROVE  inst'[q].ready \/ HasOwner(q)'
      BY DEF JoinersHaveOwner, HasOwner
    <3>1. d # c /\ call'[d] = call[d] /\ call[d].inst \in Procs \ {p}
      BY <1>0, <2>1
    <3>2. inst[q].ready \/ HasOwner(q)
      BY <3>1 DEF JoinersHaveOwner, HasOwner
    <3> QED
      BY <2>1, <2>3, <3>1, <3>2
  <2> QED
    BY <2>4, <2>5
<1>3. ASSUME NEW c \in Callers, Publish(c) \/ Unblock(c)
      PROVE  OwnerOK' /\ JoinersHaveOwner'
  <2>1. call[c].inst \in Procs
    BY <1>0, <1>3 DEF Publish, Unblock, Launching
  <2>2. \A p \in Procs : /\ inst[p].exited => inst'[p].exited
                         /\ inst[p].ready => inst'[p].ready
    BY <1>0, <1>3, <2>1 DEF Publish, Unblock, ProcRecords
  <2>3. inst'[call[c].inst].ready
    BY <1>0, <1>3, <2>1 DEF Publish, Unblock, ProcRecords
  <2>4. /\ call'[c].inst = call[c].inst /\ call'[c].pc # "joining"
        /\ \A d \in Callers \ {c} : call'[d] = call[d]
    BY <1>0, <1>3 DEF Publish, Unblock, Move
  <2> QED
    BY <1>0, <2>2, <2>3, <2>4, OwnersKept
<1>4. ASSUME NEW c \in Callers,
             HealthAnswers(c) \/ HealthFails(c) \/ RemoveFailed(c)
      PROVE  OwnerOK' /\ JoinersHaveOwner'
  <2>1. call[c].inst \in Procs
    BY <1>0, <1>4 DEF HealthAnswers, HealthFails, RemoveFailed, Launching
  <2>2. \A p \in Procs : /\ inst[p].exited => inst'[p].exited
                         /\ inst[p].ready => inst'[p].ready
    BY <1>0, <1>4, <2>1 DEF HealthAnswers, HealthFails, RemoveFailed, ProcRecords
  <2>3. /\ call'[c].inst = call[c].inst /\ call'[c].pc \in Launching
        /\ \A d \in Callers \ {c} : call'[d] = call[d]
    BY <1>0, <1>4 DEF HealthAnswers, HealthFails, RemoveFailed, Move, Launching
  <2>4. call'[c].pc # "joining"
    BY <2>3 DEF Launching
  <2> QED
    BY <1>0, <2>2, <2>3, <2>4, OwnersKept
<1>5. ASSUME NEW c \in Callers,
             \/ GiveUp(c) \/ DropExited(c) \/ Reuse(c) \/ JoinReturns(c) \/ JoinGivesUp(c)
             \/ Evict(c) \/ EvictReturns(c) \/ AwaitIdle(c) \/ WakeUp(c) \/ LaunchFails(c)
             \/ RecordLoadError(c) \/ RetireFailure(c) \/ LaunchReturns(c) \/ Finish(c)
             \/ Cancel(c) \/ Expire(c)
             \/ \E a \in Aliases : ChooseVictim(c, a) \/ Begin(c, a) \/ StartLoad(c, a)
      PROVE  OwnerOK' /\ JoinersHaveOwner'
  <2>1. \A p \in Procs : inst'[p].exited = inst[p].exited /\ inst'[p].ready = inst[p].ready
    <3>1. CASE Reuse(c) \/ LaunchReturns(c) \/ Finish(c)
      BY <1>0, <3>1 DEF Reuse, LaunchReturns, Finish, Release, ProcRecords
    <3>2. CASE UNCHANGED inst
      BY <3>2
    <3> QED
      BY <1>5, <3>1, <3>2 DEF GiveUp, DropExited, JoinReturns, JoinGivesUp, Evict,
         EvictReturns, AwaitIdle, WakeUp, LaunchFails, RecordLoadError, RetireFailure,
         Cancel, Expire, ChooseVictim, Begin, StartLoad
  <2>2. /\ call[c].pc \notin Launching
        /\ call'[c].pc = "joining" => call[c].pc = "joining" /\ call'[c].inst = call[c].inst
        /\ \A d \in Callers \ {c} : call'[d] = call[d]
    <3>1. CASE \/ GiveUp(c) \/ LaunchFails(c) \/ RecordLoadError(c) \/ LaunchReturns(c)
               \/ Finish(c)
      BY <1>0, <3>1, FailOut DEF GiveUp, LaunchFails, RecordLoadError, LaunchReturns,
         Finish, Proceeds, Launching
    <3>2. CASE \/ DropExited(c) \/ Reuse(c) \/ JoinReturns(c) \/ JoinGivesUp(c)
               \/ Evict(c) \/ EvictReturns(c) \/ AwaitIdle(c) \/ WakeUp(c)
               \/ RetireFailure(c)
      BY <1>0, <3>2 DEF DropExited, Reuse, JoinReturns, JoinGivesUp, Evict, EvictReturns,
         AwaitIdle, WakeUp, RetireFailure, Move, Proceeds, Launching
    <3>3. CASE Cancel(c) \/ Expire(c)
      BY <1>0, <3>3 DEF Cancel, Expire, InLoop, Launching, CallRecords
    <3>4. ASSUME NEW a \in Aliases, ChooseVictim(c, a) \/ Begin(c, a) \/ StartLoad(c, a)
          PROVE  /\ call[c].pc \notin Launching /\ call'[c].pc # "joining"
                 /\ \A d \in Callers \ {c} : call'[d] = call[d]
      <4>1. CASE ChooseVictim(c, a)
        BY <1>0, <4>1 DEF ChooseVictim, Proceeds, Launching
      <4>2. CASE Begin(c, a)
        BY <1>0, <4>2 DEF Begin, NoCall, Launching
      <4>3. CASE StartLoad(c, a)
        BY <1>0, <4>3 DEF StartLoad, NoCall, Launching
      <4> QED
        BY <3>4, <4>1, <4>2, <4>3
    <3> QED
      BY <1>5, <3>1, <3>2, <3>3, <3>4
  <2> QED
    BY <1>0, <2>1, <2>2, OwnersKept
<1>6. ASSUME UNCHANGED call,
             \A p \in Procs : /\ inst[p].exited => inst'[p].exited
                              /\ inst[p].ready => inst'[p].ready
      PROVE  OwnerOK' /\ JoinersHaveOwner'
  BY <1>0, <1>6, OwnersKept
<1>7. ASSUME NEW p \in Procs, Exit(p) \/ GraceEnds(p) PROVE OwnerOK' /\ JoinersHaveOwner'
  <2>1. UNCHANGED call /\ inst' = [inst EXCEPT ![p].exited = TRUE]
    BY <1>7 DEF Exit, GraceEnds
  <2> QED
    BY <1>0, <1>6, <2>1 DEF ProcRecords
<1>8. ASSUME NEW a \in Aliases, ReapNext(a) \/ Unload(a) \/ StopAllNext(a)
      PROVE  OwnerOK' /\ JoinersHaveOwner'
  BY <1>6, <1>8 DEF ReapNext, Unload, StopAllNext
<1>9. ASSUME NEW V \in SUBSET Aliases, ReapIdle(V) PROVE OwnerOK' /\ JoinersHaveOwner'
  BY <1>6, <1>9 DEF ReapIdle
<1>10. ASSUME StopAll \/ StopAllReturns \/ UNCHANGED vars PROVE OwnerOK' /\ JoinersHaveOwner'
  BY <1>6, <1>10 DEF StopAll, StopAllReturns, vars
<1> QED
  BY ONLY StepCases, [Next]_vars, <1>1, <1>2, <1>3, <1>4, <1>5, <1>7, <1>8, <1>9, <1>10

\* A leased instance has crashed: the room it frees is not announced yet.
Crashed == \E p \in Procs : inst[p].exited /\ inst[p].leases > 0

\* There is no room for a and nothing idle to evict for it.
Tight(a) == ~Fits(a) /\ IdleVictims(a) = {}

\* What is tight stays so while nothing leaves the pool and nothing falls idle.
LEMMA TightKept ==
  ASSUME NEW a \in Aliases, Tight(a), Resident \ {a} \subseteq Resident',
         \A b \in Resident' \ {a} : inst'[instances'[b]].leases # 0
  PROVE  Tight(a)'
<1> DEFINE S == Resident \ {a}
           T == Resident' \ {a}
<1>1. S \in SUBSET T /\ T \in SUBSET Aliases
  BY DEF Resident
<1>2. IsFiniteSet(S) /\ IsFiniteSet(T) /\ Cardinality(S) <= Cardinality(T)
  BY <1>1, FS_Subset, ConstantsAssumption
<1>3. Cardinality(S) \in Nat /\ Cardinality(T) \in Nat
  BY <1>2, FS_CardinalityType
<1>4. Sum(S) <= Sum(T) /\ Sum(S) \in Nat /\ Sum(T) \in Nat
  BY <1>1, SumGrows, SumIsNat
<1>5. MaxLoaded \in Nat /\ MaxMemory \in Nat /\ Memory[a] \in Nat
  BY ConstantsAssumption
<1>6. Fits(a) <=> /\ MaxLoaded > 0 => Cardinality(S) + 1 <= MaxLoaded
                  /\ (MaxMemory > 0 /\ Memory[a] > 0) => Sum(S) + Memory[a] <= MaxMemory
  BY DEF Fits, Sum
<1>7. Fits(a)' <=> /\ MaxLoaded > 0 => Cardinality(T) + 1 <= MaxLoaded
                   /\ (MaxMemory > 0 /\ Memory[a] > 0) => Sum(T) + Memory[a] <= MaxMemory
  BY DEF Fits, Sum
<1> HIDE DEF S, T
<1>8. ~Fits(a)'
  BY <1>2, <1>3, <1>4, <1>5, <1>6, <1>7 DEF Tight
<1>9. IdleVictims(a)' = {}
  BY DEF IdleVictims
<1> QED
  BY <1>8, <1>9 DEF Tight

\* NoLostWakeup after a step, sleeper by sleeper.
LEMMA StillAsleep ==
  ASSUME \A c \in waiters' : \A a : call'[c].alias = a => Tight(a)' \/ Crashed'
  PROVE  NoLostWakeup'
  BY DEF NoLostWakeup, Tight, Crashed, Fits, IdleVictims

\* A step that touches no slot, ends no process and takes no last lease.
LEMMA SleepersKept ==
  ASSUME Base, WaitersOK, NoLostWakeup, waiters' \subseteq waiters,
         \A c \in waiters' : /\ call'[c].pc = "waiting"
                             /\ call'[c].alias = call[c].alias,
         UNCHANGED instances,
         \A p \in Procs : /\ inst'[p].exited = inst[p].exited
                          /\ inst[p].leases > 0 => inst'[p].leases > 0
  PROVE  WaitersOK' /\ NoLostWakeup'
<1>1. WaitersOK'
  BY DEF WaitersOK
<1>2. /\ \A b \in Aliases : instances[b] # None => instances[b] \in Procs
      /\ \A p \in Procs : inst[p].leases \in Nat
      /\ \A c \in waiters : c \in Callers /\ call[c].alias \in Aliases
  BY DEF Base, SlotBase, CallBase, CallOK, ProcRecords, WaitersOK
<1>3. Resident' = Resident /\ \A b \in Resident : instances[b] \in Procs
  BY <1>2 DEF Resident, Running
<1>4. ASSUME NEW a \in Aliases, Tight(a) PROVE Tight(a)'
  <2>1. \A b \in Resident \ {a} : inst[instances[b]].leases # 0
    BY <1>4 DEF Tight, IdleVictims
  <2>2. \A b \in Resident \ {a} : inst'[instances[b]].leases > 0
    BY <1>2, <1>3, <2>1
  <2>3. \A b \in Resident' \ {a} : inst'[instances'[b]].leases # 0
    BY <1>3, <2>2
  <2> QED
    BY <1>3, <1>4, <2>3, TightKept
<1>5. Crashed => Crashed'
  BY DEF Crashed
<1>6. ASSUME NEW c \in waiters', NEW a, call'[c].alias = a PROVE Tight(a)' \/ Crashed'
  <2>1. Tight(a) \/ Crashed
    BY <1>6 DEF NoLostWakeup, Tight, Crashed
  <2> QED
    BY <1>2, <1>4, <1>5, <1>6, <2>1
<1> QED
  BY <1>1, <1>6, StillAsleep

\* Nobody is left asleep by a step that frees a slot.
LEMMA Broadcast ==
  ASSUME waiters' = {}
  PROVE  WaitersOK' /\ NoLostWakeup'
  BY DEF WaitersOK, NoLostWakeup

\* A process that exits: an idle one would have been a victim, a leased one is
\* the exception the invariant makes.
LEMMA WakeExit ==
  ASSUME Base, WaitersOK, NoLostWakeup, NEW p \in Procs,
         UNCHANGED <<instances, call, waiters>>,
         inst' = [inst EXCEPT ![p].exited = TRUE]
  PROVE  WaitersOK' /\ NoLostWakeup'
<1>1. WaitersOK'
  BY DEF WaitersOK
<1>2. /\ \A b \in Aliases : instances[b] # None => instances[b] \in Procs
      /\ \A q \in Procs : inst[q].leases \in Nat
      /\ \A c \in waiters : c \in Callers /\ call[c].alias \in Aliases
  BY DEF Base, SlotBase, CallBase, CallOK, ProcRecords, WaitersOK
<1>3. /\ inst'[p].exited
      /\ \A q \in Procs : /\ inst'[q].leases = inst[q].leases
                          /\ q # p => inst'[q].exited = inst[q].exited
  BY DEF Base, ProcRecords
<1>4. Crashed => Crashed'
  BY <1>3 DEF Crashed
<1>5. CASE inst[p].leases > 0
  <2>1. Crashed'
    BY <1>3, <1>5 DEF Crashed
  <2> QED
    BY <1>1, <2>1, StillAsleep
<1>6. CASE inst[p].leases = 0
  <2>1. ASSUME NEW a \in Aliases, Tight(a) PROVE Tight(a)'
    <3>1. \A b \in Resident \ {a} : instances[b] \in Procs /\ inst[instances[b]].leases # 0
      BY <1>2, <2>1 DEF Tight, IdleVictims, Resident, Running
    <3>2. \A b \in Resident \ {a} : instances[b] # p
      BY <1>6, <3>1
    <3>3. Resident \ {a} \subseteq Resident'
      BY <1>3, <3>1, <3>2 DEF Resident, Running
    <3>4. Resident' \subseteq Resident
      BY <1>2, <1>3 DEF Resident, Running
    <3>5. \A b \in Resident' \ {a} : inst'[instances'[b]].leases # 0
      BY <1>3, <3>1, <3>4
    <3> QED
      BY <2>1, <3>3, <3>5, TightKept
  <2>2. ASSUME NEW c \in waiters', NEW a, call'[c].alias = a PROVE Tight(a)' \/ Crashed'
    <3>1. Tight(a) \/ Crashed
      BY <2>2 DEF NoLostWakeup, Tight, Crashed
    <3> QED
      BY <1>2, <1>4, <2>1, <2>2, <3>1
  <2> QED
    BY <1>1, <2>2, StillAsleep
<1> QED
  BY <1>2, <1>5, <1>6

\* A launch takes room and is leased: it gives a sleeper nothing.
LEMMA WakeLaunch ==
  ASSUME Base, LeasesCounted, WaitersOK, NoLostWakeup,
         NEW c \in Callers, NEW p \in Procs, Launch(c, p)
  PROVE  WaitersOK' /\ NoLostWakeup'
<1>1. PICK a \in Aliases : a = call[c].alias
  BY DEF Base, CallBase, CallOK, Launch, Proceeds
<1>2. /\ \A b \in Aliases : instances[b] # None => instances[b] \in Procs
      /\ \A q \in Procs : inst[q].leases \in Nat
      /\ \A d \in waiters : d \in Callers /\ call[d].alias \in Aliases
  BY DEF Base, SlotBase, CallBase, CallOK, ProcRecords, WaitersOK
<1>3. /\ UNCHANGED waiters
      /\ \A d \in waiters : d # c /\ call'[d] = call[d]
  BY <1>2 DEF Launch, Proceeds, Move, WaitersOK, Base, CallBase
<1>4. /\ instances'[a] = p /\ p # None /\ instances[a] = None
      /\ \A b \in Aliases \ {a} : instances'[b] = instances[b] /\ instances[b] # p
      /\ ~inst'[p].exited /\ inst'[p].leases = 1
      /\ \A q \in Procs \ {p} : inst'[q] = inst[q]
  BY <1>1, ConstantsAssumption DEF Launch, Fresh, NoProc, Base, SlotBase, ProcRecords
<1>5. inst[p].leases = 0
  <2>1. Holders(p) = {}
    BY DEF Launch, Fresh, Holders, Holds
  <2> QED
    BY <2>1, FS_EmptySet DEF LeasesCounted
<1>6. Crashed => Crashed'
  BY <1>4, <1>5 DEF Crashed
<1>7. Resident' = Resident \cup {a} /\ a \notin Resident
  BY <1>2, <1>4 DEF Resident, Running
<1>8. ASSUME NEW b \in Aliases, Tight(b) PROVE Tight(b)'
  <2>1. \A e \in Resident \ {b} : /\ instances[e] \in Procs \ {p}
                                  /\ inst[instances[e]].leases # 0
    BY <1>2, <1>4, <1>7, <1>8 DEF Tight, IdleVictims, Resident, Running
  <2>2. \A e \in Resident' \ {b} : inst'[instances'[e]].leases # 0
    BY <1>4, <1>7, <2>1 DEF Resident
  <2> QED
    BY <1>7, <1>8, <2>2, TightKept
<1>9. ASSUME NEW d \in waiters', NEW b, call'[d].alias = b PROVE Tight(b)' \/ Crashed'
  <2>1. call[d].alias = b /\ b \in Aliases
    BY <1>2, <1>3, <1>9
  <2>2. Tight(b) \/ Crashed
    BY <1>3, <1>9, <2>1 DEF NoLostWakeup, Tight, Crashed
  <2> QED
    BY <1>6, <1>8, <2>1, <2>2
<1>10. WaitersOK'
  BY <1>3 DEF WaitersOK
<1> QED
  BY <1>9, <1>10, StillAsleep

\* A caller goes to sleep only when there is nothing to do.
LEMMA WakeAwait ==
  ASSUME Base, WaitersOK, NoLostWakeup, NEW c \in Callers, AwaitIdle(c)
  PROVE  WaitersOK' /\ NoLostWakeup'
<1>1. PICK a \in Aliases : a = call[c].alias
  BY DEF Base, CallBase, CallOK, AwaitIdle, Proceeds
<1>2. /\ waiters' = waiters \cup {c}
      /\ call'[c].pc = "waiting" /\ call'[c].alias = a
      /\ \A d \in Callers \ {c} : call'[d] = call[d]
      /\ UNCHANGED <<instances, inst>> /\ waiters \subseteq Callers
  BY <1>1 DEF AwaitIdle, Move, Base, SlotBase, CallBase
<1>3. Tight(a)
  BY <1>1 DEF AwaitIdle, Tight
<1>4. \A b : Tight(b)' <=> Tight(b)
  BY <1>2 DEF Tight, Fits, IdleVictims, Resident, Running
<1>5. Crashed' <=> Crashed
  BY <1>2 DEF Crashed
<1>6. ASSUME NEW d \in waiters', NEW b, call'[d].alias = b PROVE Tight(b)' \/ Crashed'
  <2>1. CASE d = c
    BY <1>2, <1>3, <1>4, <1>6, <2>1
  <2>2. CASE d # c
    <3>1. Tight(b) \/ Crashed
      BY <1>2, <1>6, <2>2 DEF NoLostWakeup, Tight, Crashed
    <3> QED
      BY <1>4, <1>5, <3>1
  <2> QED
    BY <2>1, <2>2
<1>7. WaitersOK'
  BY <1>2 DEF WaitersOK
<1> QED
  BY <1>6, <1>7, StillAsleep

\* Every step wakes the sleepers it gives something to do.
LEMMA WakeStep ==
  ASSUME SafeInv, LeasesCounted, WaitersOK, NoLostWakeup, [Next]_vars
  PROVE  WaitersOK' /\ NoLostWakeup'
<1>0. /\ Base /\ inst \in [Procs -> ProcRecords] /\ call \in [Callers -> CallRecords]
      /\ \A q \in Procs : inst[q].leases \in Nat
      /\ waiters \subseteq Callers /\ \A d \in waiters : call[d].pc = "waiting"
  BY DEF SafeInv, Base, SlotBase, CallBase, ProcRecords, WaitersOK
<1>1. ASSUME waiters' \subseteq waiters, UNCHANGED instances,
             \A d \in waiters' : call'[d].pc = "waiting" /\ call'[d].alias = call[d].alias,
             \A p \in Procs : /\ inst'[p].exited = inst[p].exited
                              /\ inst[p].leases > 0 => inst'[p].leases > 0
      PROVE  WaitersOK' /\ NoLostWakeup'
  BY <1>0, <1>1, SleepersKept
<1>2. ASSUME UNCHANGED inst, UNCHANGED <<instances, waiters>> \/ \E a, p : Drop(a, p),
             \A d \in waiters : call'[d] = call[d]
      PROVE  WaitersOK' /\ NoLostWakeup'
  <2>1. CASE waiters' = {}
    BY <2>1, Broadcast
  <2>2. CASE UNCHANGED <<instances, waiters>>
    BY <1>0, <1>1, <1>2, <2>2
  <2> QED
    BY <1>2, <2>1, <2>2 DEF Drop
<1>3. ASSUME NEW c \in Callers,
             \/ GiveUp(c) \/ DropExited(c) \/ Join(c) \/ JoinReturns(c) \/ JoinGivesUp(c)
             \/ Evict(c) \/ EvictReturns(c) \/ LaunchFails(c) \/ HealthFails(c)
             \/ RetireFailure(c) \/ RemoveFailed(c) \/ RecordLoadError(c)
             \/ \E a \in Aliases : ChooseVictim(c, a) \/ Begin(c, a) \/ StartLoad(c, a)
      PROVE  WaitersOK' /\ NoLostWakeup'
  <2>1. UNCHANGED inst
    BY <1>3 DEF GiveUp, DropExited, Join, JoinReturns, JoinGivesUp, Evict, EvictReturns,
       LaunchFails, HealthFails, RetireFailure, RemoveFailed, RecordLoadError,
       ChooseVictim, Begin, StartLoad
  <2>2. UNCHANGED <<instances, waiters>> \/ \E a, p : Drop(a, p)
    BY <1>3 DEF GiveUp, DropExited, Join, JoinReturns, JoinGivesUp, Evict, EvictReturns,
       LaunchFails, HealthFails, RetireFailure, RemoveFailed, RecordLoadError,
       ChooseVictim, Begin, StartLoad, StopInstance
  <2>3. call[c].pc # "waiting"
    BY <1>3 DEF GiveUp, DropExited, Join, JoinReturns, JoinGivesUp, Evict, EvictReturns,
       LaunchFails, HealthFails, RetireFailure, RemoveFailed, RecordLoadError,
       ChooseVictim, Begin, StartLoad, Proceeds
  <2>4. \A d \in Callers \ {c} : call'[d] = call[d]
    BY <1>0, <1>3 DEF GiveUp, DropExited, Join, JoinReturns, JoinGivesUp, Evict,
       EvictReturns, LaunchFails, HealthFails, RetireFailure, RemoveFailed,
       RecordLoadError, ChooseVictim, Begin, StartLoad, Move, Fail
  <2> QED
    BY <1>0, <1>2, <2>1, <2>2, <2>3, <2>4
<1>4. ASSUME NEW c \in Callers,
             Reuse(c) \/ HealthAnswers(c) \/ Publish(c) \/ Unblock(c)
      PROVE  WaitersOK' /\ NoLostWakeup'
  <2>1. UNCHANGED <<instances, waiters>>
    BY <1>4 DEF Reuse, HealthAnswers, Publish, Unblock
  <2>2. /\ call[c].pc # "waiting"
        /\ \A d \in Callers \ {c} : call'[d] = call[d]
    BY <1>0, <1>4 DEF Reuse, HealthAnswers, Publish, Unblock, Proceeds, Move
  <2>3. \A p \in Procs : /\ inst'[p].exited = inst[p].exited
                         /\ inst[p].leases > 0 => inst'[p].leases > 0
    BY <1>0, <1>4 DEF Reuse, HealthAnswers, Publish, Unblock, ProcRecords
  <2> QED
    BY <1>0, <1>1, <2>1, <2>2, <2>3
<1>5. ASSUME NEW c \in Callers, LaunchReturns(c) \/ Finish(c)
      PROVE  WaitersOK' /\ NoLostWakeup'
  <2>1. PICK p \in Procs : p = call[c].inst
    BY <1>0, <1>5 DEF LaunchReturns, Finish, Base, CallBase, CallOK
  <2>2. CASE inst[p].leases <= 1
    BY <1>5, <2>1, <2>2, Broadcast DEF LaunchReturns, Finish, Release
  <2>3. CASE inst[p].leases > 1
    <3>1. UNCHANGED <<instances, waiters>>
      BY <1>0, <1>5, <2>1, <2>3 DEF LaunchReturns, Finish, Release
    <3>2. /\ call[c].pc # "waiting"
          /\ \A d \in Callers \ {c} : call'[d] = call[d]
      BY <1>0, <1>5, FailOut DEF LaunchReturns, Finish
    <3>3. \A q \in Procs : /\ inst'[q].exited = inst[q].exited
                           /\ inst[q].leases > 0 => inst'[q].leases > 0
      BY <1>0, <1>5, <2>1, <2>3 DEF LaunchReturns, Finish, Release, ProcRecords
    <3> QED
      BY <1>0, <1>1, <3>1, <3>2, <3>3
  <2> QED
    BY <1>0, <2>2, <2>3
<1>6. ASSUME NEW c \in Callers, WakeUp(c) PROVE WaitersOK' /\ NoLostWakeup'
  <2>1. waiters' = waiters \ {c} /\ UNCHANGED <<instances, inst>>
    BY <1>6 DEF WakeUp
  <2>2. \A d \in waiters' : call'[d] = call[d]
    BY <1>0, <1>6 DEF WakeUp, Move
  <2> QED
    BY <1>0, <1>1, <2>1, <2>2
<1>7. ASSUME NEW c \in Callers, Cancel(c) \/ Expire(c) PROVE WaitersOK' /\ NoLostWakeup'
  <2>1. UNCHANGED <<instances, inst, waiters>>
    BY <1>7 DEF Cancel, Expire
  <2>2. \A d \in Callers : call'[d].pc = call[d].pc /\ call'[d].alias = call[d].alias
    BY <1>0, <1>7 DEF Cancel, Expire, CallRecords
  <2> QED
    BY <1>0, <1>1, <2>1, <2>2
<1>8. ASSUME NEW a \in Aliases, ReapNext(a) \/ Unload(a) \/ StopAllNext(a)
      PROVE  WaitersOK' /\ NoLostWakeup'
  BY <1>2, <1>8 DEF ReapNext, Unload, StopAllNext, StopInstance
<1>9. ASSUME NEW p \in Procs, Exit(p) \/ GraceEnds(p) PROVE WaitersOK' /\ NoLostWakeup'
  BY <1>0, <1>9, WakeExit DEF Exit, GraceEnds
<1>10. ASSUME NEW c \in Callers, NEW p \in Procs, Launch(c, p)
       PROVE  WaitersOK' /\ NoLostWakeup'
  BY <1>0, <1>10, WakeLaunch
<1>11. ASSUME NEW c \in Callers, AwaitIdle(c) PROVE WaitersOK' /\ NoLostWakeup'
  BY <1>0, <1>11, WakeAwait
<1>12. ASSUME NEW V \in SUBSET Aliases, ReapIdle(V) PROVE WaitersOK' /\ NoLostWakeup'
  BY <1>2, <1>12 DEF ReapIdle
<1>13. ASSUME StopAll \/ StopAllReturns \/ UNCHANGED vars
       PROVE  WaitersOK' /\ NoLostWakeup'
  BY <1>2, <1>13 DEF StopAll, StopAllReturns, vars
<1> QED
  BY ONLY StepCases, [Next]_vars, <1>3, <1>4, <1>5, <1>6, <1>7, <1>8, <1>9, <1>10, <1>11,
     <1>12, <1>13

\* The inductive invariant behind NothingWedged.
WedgeInv == LeasesCounted /\ OwnerOK /\ JoinersHaveOwner /\ WaitersOK /\ NoLostWakeup

\* At the start there are no callers and no processes.
LEMMA InitWedge == Init => WedgeInv
<1> SUFFICES ASSUME Init PROVE WedgeInv
  OBVIOUS
<1>1. /\ \A p \in Procs : inst[p].exited /\ inst[p].leases = 0
      /\ \A c \in Callers : call[c].pc = "idle"
      /\ waiters = {}
  BY DEF Init, NoProc, NoCall
<1>2. \A p \in Procs : Holders(p) = {}
  BY <1>1 DEF Holders, Holds, Launching
<1>3. LeasesCounted
  BY <1>1, <1>2, FS_EmptySet DEF LeasesCounted
<1> QED
  BY <1>1, <1>3 DEF WedgeInv, OwnerOK, JoinersHaveOwner, WaitersOK, NoLostWakeup

\* Every hold on the pool is given back and every wait on it has somebody to
\* end it, for any number of callers and processes.
THEOREM NothingIsWedged == Spec => []NothingWedged
<1>1. SafeInv /\ WedgeInv /\ [Next]_vars => (SafeInv /\ WedgeInv)'
  BY SafeStep, LeaseStep, OwnerStep, WakeStep DEF WedgeInv
<1>2. SafeInv /\ WedgeInv => NothingWedged
  BY DEF WedgeInv, NothingWedged, NobodyStranded
<1>3. Init => SafeInv /\ WedgeInv
  BY InitSafe, InitWedge
<1> QED
  BY <1>1, <1>2, <1>3, PTL DEF Spec
=============================================================================
