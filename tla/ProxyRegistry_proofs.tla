----------------------- MODULE ProxyRegistry_proofs -----------------------
(***************************************************************************)
(* Single flight, monotone results and sound answers of ProxyRegistry, for *)
(* any callers, endpoints and TTL.  The invariant IInv ties each entry of  *)
(* inflight to the one task that put it there; the tasks of a call are     *)
(* exactly those of its endpoints, so beginning or answering a call        *)
(* disturbs no probe.  Sound adds what a task knows at each label: whom it *)
(* waits on, how old its result is, what it leaves behind when done.       *)
(***************************************************************************)
EXTENDS ProxyRegistry, TLAPS

TaskRecords == [pc : Labels, on : Callers \cup {None}, result : Results]

CallRecords == [wants : SUBSET Endpoints, began : 0 .. MaxNow, over : BOOLEAN]

\* A probe of an endpoint is at one of these labels.
Flying == {"fetching", "storing", "leaving"}

\* SingleFlight, task by task.
Unique ==
    /\ \A e \in Endpoints : e \in inflight <=>
           \E c \in Callers : task[<<c, e>>].pc \in Flying
    /\ \A e \in Endpoints : \A c, d \in Callers :
           task[<<c, e>>].pc \in Flying /\ task[<<d, e>>].pc \in Flying => c = d

\* The two statements of single flight agree.
LEMMA UniqueIsSingleFlight == Unique <=> SingleFlight
  BY DEF Unique, SingleFlight, Probing, Flying

\* The initial state satisfies the invariant.
LEMMA InitInv == Init => IInv
  <1> SUFFICES ASSUME Init PROVE IInv
    OBVIOUS
  <1> USE ConstantsAssumption
  <1>1. TypeOK
    BY DEF Init, TypeOK, NoResult, Results, NoTask, At, NoCall, Labels
  <1>2. \A c \in Callers, e \in Endpoints : task[<<c, e>>].pc = "none"
    BY DEF Init, Tasks, NoTask, At
  <1>3. Unique
    BY <1>2 DEF Unique, Flying, Init
  <1>4. Dated
    BY DEF Init, Dated, NoResult, NoTask, At, Tasks
  <1>5. Spans
    BY <1>2 DEF Init, Spans, NoCall
  <1> QED
    BY <1>1, <1>3, <1>4, <1>5, UniqueIsSingleFlight DEF IInv

\* One task moves to another label of the same kind, and the rest stays: the
\* frame of most steps of a task.
LEMMA TaskMoves ==
    ASSUME IInv, NEW c \in Callers, NEW e \in Endpoints,
           NEW r \in TaskRecords,
           task' = [task EXCEPT ![<<c, e>>] = r],
           task[<<c, e>>].pc # "none", r.pc # "none", r.pc # "storing",
           task[<<c, e>>].pc \in Flying <=> r.pc \in Flying,
           UNCHANGED <<now, status, inflight, call>>
    PROVE  IInv'
  <1> USE DEF Tasks
  <1>1. task \in [Tasks -> TaskRecords]
    BY DEF IInv, TypeOK, TaskRecords
  <1>2. task' \in [Tasks -> TaskRecords]
    BY <1>1
  <1>3. TypeOK'
    BY <1>2 DEF IInv, TypeOK, TaskRecords
  <1>4. \A d \in Callers, f \in Endpoints :
            task'[<<d, f>>] = IF d = c /\ f = e THEN r ELSE task[<<d, f>>]
    BY <1>1
  <1>5. Unique'
    <2>1. \A d \in Callers, f \in Endpoints :
              task'[<<d, f>>].pc \in Flying <=> task[<<d, f>>].pc \in Flying
      BY <1>4
    <2> QED
      BY <2>1, UniqueIsSingleFlight DEF IInv, Unique
  <1>6. Dated'
    <2>1. \A t \in Tasks : task'[t] = task[t] \/ task'[t] = r
      BY <1>1
    <2> QED
      BY <2>1 DEF IInv, Dated
  <1>7. Spans'
    <2>1. \A d \in Callers, f \in Endpoints :
              task'[<<d, f>>].pc = "none" <=> task[<<d, f>>].pc = "none"
      BY <1>4
    <2> QED
      BY <2>1 DEF IInv, Spans
  <1> QED
    BY <1>3, <1>5, <1>6, <1>7, UniqueIsSingleFlight DEF IInv, Unique, SingleFlight, Probing, Flying

\* Every step of a task preserves the invariant.
LEMMA TaskInv ==
    ASSUME IInv, NEW c \in Callers, NEW e \in Endpoints, TaskStep(c, e)
    PROVE  IInv'
  <1> USE ConstantsAssumption
  <1> DEFINE t == task[<<c, e>>]
  <1>0. /\ t \in TaskRecords /\ t.result \in Results
        /\ now \in 0 .. MaxNow
    BY DEF IInv, TypeOK, Tasks, TaskRecords
  <1>1. \A label \in Labels : At(label) \in TaskRecords /\ At(label).pc = label
    <2>1. NoResult \in Results
      BY DEF NoResult, Results
    <2> QED
      BY <2>1 DEF At, TaskRecords
  <1>2. CASE Check(c, e)
    BY <1>1, <1>2, TaskMoves DEF Check, Goto, Flying, Labels
  <1>3. CASE Wait(c, e)
    <2>1. \E d \in Callers : task[<<d, e>>].pc \in Flying
      BY <1>3, UniqueIsSingleFlight DEF Wait, IInv, Unique
    <2>2. Owner(e) \in Callers
      BY <2>1 DEF Owner, Flying
    <2>3. [pc |-> "waiting", on |-> Owner(e), result |-> NoResult] \in TaskRecords
      BY <2>2 DEF TaskRecords, Labels, NoResult, Results
    <2> QED
      BY <1>3, <2>3, TaskMoves DEF Wait, Flying
  <1>4. CASE GiveUp(c, e)
    BY <1>1, <1>4, TaskMoves DEF GiveUp, Goto, Flying, Labels
  <1>5. CASE Probe(c, e)
    <2> DEFINE r == At("fetching")
    <2>1. r \in TaskRecords /\ r.pc = "fetching"
      BY <1>1 DEF Labels
    <2>2. /\ task' = [task EXCEPT ![<<c, e>>] = r]
          /\ t.pc = "enter" /\ e \notin inflight /\ inflight' = inflight \cup {e}
          /\ UNCHANGED <<now, status, call>>
      BY <1>5 DEF Probe, Goto
    <2>3. task \in [Tasks -> TaskRecords]
      BY DEF IInv, TypeOK, TaskRecords
    <2>4. \A d \in Callers, f \in Endpoints :
              task'[<<d, f>>] = IF d = c /\ f = e THEN r ELSE task[<<d, f>>]
      BY <2>2, <2>3 DEF Tasks
    <2> HIDE DEF r
    <2>5. TypeOK'
      BY <2>1, <2>2, <2>3 DEF IInv, TypeOK, TaskRecords, Tasks
    <2>6. Unique'
      <3>1. \A d \in Callers : task[<<d, e>>].pc \notin Flying
        BY <2>2, UniqueIsSingleFlight DEF IInv, Unique
      <3>2. \A d \in Callers, f \in Endpoints : f # e =>
                (task'[<<d, f>>].pc \in Flying <=> task[<<d, f>>].pc \in Flying)
        BY <2>4
      <3>3. \A d \in Callers : task'[<<d, e>>].pc \in Flying <=> d = c
        BY <2>1, <2>4, <3>1 DEF Flying
      <3>4. \A f \in Endpoints :
                f \in inflight' <=> \E d \in Callers : task'[<<d, f>>].pc \in Flying
        BY <2>2, <3>2, <3>3, UniqueIsSingleFlight DEF IInv, Unique
      <3>5. \A f \in Endpoints : \A d, x \in Callers :
                task'[<<d, f>>].pc \in Flying /\ task'[<<x, f>>].pc \in Flying => d = x
        BY <3>2, <3>3, UniqueIsSingleFlight DEF IInv, Unique
      <3> QED
        BY <3>4, <3>5 DEF Unique
    <2>7. Dated'
      <3>1. \A x \in Tasks : task'[x] = task[x] \/ task'[x] = r
        BY <2>2, <2>3
      <3> QED
        BY <2>1, <2>2, <3>1 DEF IInv, Dated
    <2>8. Spans'
      <3>1. \A d \in Callers, f \in Endpoints :
                task'[<<d, f>>].pc = "none" <=> task[<<d, f>>].pc = "none"
        BY <2>1, <2>2, <2>4
      <3> QED
        BY <2>2, <3>1 DEF IInv, Spans
    <2> QED
      BY <2>5, <2>6, <2>7, <2>8, UniqueIsSingleFlight DEF IInv, Unique, SingleFlight, Probing, Flying
  <1>6. ASSUME NEW ok \in Outcomes(c, e), Fetched(c, e, ok) PROVE IInv'
    <2> DEFINE r == [pc |-> "storing", on |-> None,
                     result |-> [known |-> TRUE, online |-> ok, checked |-> now]]
    <2>1. ok \in BOOLEAN
      BY <1>6 DEF Outcomes
    <2>2. /\ r \in TaskRecords /\ r.pc = "storing" /\ r.result.known
          /\ r.result.checked = now
      BY <1>0, <2>1 DEF TaskRecords, Labels, Results
    <2>3. /\ task' = [task EXCEPT ![<<c, e>>] = r] /\ t.pc = "fetching"
          /\ UNCHANGED <<now, status, inflight, call>>
      BY <1>6 DEF Fetched
    <2>4. task \in [Tasks -> TaskRecords]
      BY DEF IInv, TypeOK, TaskRecords
    <2>5. \A d \in Callers, f \in Endpoints :
              task'[<<d, f>>] = IF d = c /\ f = e THEN r ELSE task[<<d, f>>]
      BY <2>3, <2>4 DEF Tasks
    <2> HIDE DEF r
    <2>6. TypeOK'
      BY <2>2, <2>3, <2>4 DEF IInv, TypeOK, TaskRecords, Tasks
    <2>7. Unique'
      <3>1. r.pc \in Flying /\ t.pc \in Flying
        BY <2>2, <2>3 DEF Flying
      <3>2. \A d \in Callers, f \in Endpoints :
                task'[<<d, f>>].pc \in Flying <=> task[<<d, f>>].pc \in Flying
        BY <2>5, <3>1
      <3> QED
        BY <2>3, <3>2, UniqueIsSingleFlight DEF IInv, Unique
    <2>8. Dated'
      <3>1. \A x \in Tasks : task'[x] = task[x] \/ (x = <<c, e>> /\ task'[x] = r)
        BY <2>3, <2>4
      <3>2. \A f \in Endpoints : status[f].checked <= now
        BY DEF IInv, Dated
      <3>3. \A x \in Tasks : task'[x].pc = "storing" =>
                /\ task'[x].result.known /\ task'[x].result.checked <= now
                /\ task'[x].result.checked >= status[x[2]].checked
        <4> TAKE x \in Tasks
        <4>1. CASE task'[x] = task[x]
          BY <4>1 DEF IInv, Dated
        <4>2. CASE x = <<c, e>> /\ task'[x] = r
          <5>1. x[2] = e
            BY <4>2
          <5>2. status[e].checked <= now
            BY <3>2
          <5>3. status[e].checked \in 0 .. MaxNow
            BY DEF IInv, TypeOK, Results
          <5> QED
            BY <1>0, <2>2, <4>2, <5>1, <5>2, <5>3
        <4> QED
          BY <3>1, <4>1, <4>2
      <3> QED
        BY <2>3, <3>2, <3>3 DEF Dated
    <2>9. Spans'
      <3>0. r.pc # "none" /\ t.pc # "none"
        BY <2>2, <2>3
      <3>1. \A d \in Callers, f \in Endpoints :
                task'[<<d, f>>].pc = "none" <=> task[<<d, f>>].pc = "none"
        BY <2>5, <3>0
      <3> QED
        BY <2>3, <3>1 DEF IInv, Spans
    <2> QED
      BY <2>6, <2>7, <2>8, <2>9, UniqueIsSingleFlight DEF IInv, Unique, SingleFlight, Probing, Flying
  <1>7. CASE Store(c, e)
    <2> DEFINE r == [pc |-> "leaving", on |-> None, result |-> t.result]
    <2>1. r \in TaskRecords /\ r.pc = "leaving"
      BY <1>0 DEF TaskRecords, Labels
    <2>2. /\ task' = [task EXCEPT ![<<c, e>>] = r] /\ t.pc = "storing"
          /\ status' = [status EXCEPT ![e] = t.result]
          /\ UNCHANGED <<now, inflight, call>>
      BY <1>7 DEF Store, Advance
    <2>3. task \in [Tasks -> TaskRecords] /\ status \in [Endpoints -> Results]
      BY DEF IInv, TypeOK, TaskRecords
    <2>4. \A d \in Callers, f \in Endpoints :
              task'[<<d, f>>] = IF d = c /\ f = e THEN r ELSE task[<<d, f>>]
      BY <2>2, <2>3 DEF Tasks
    <2> HIDE DEF r
    <2>5. TypeOK'
      BY <1>0, <2>1, <2>2, <2>3 DEF IInv, TypeOK, TaskRecords, Tasks
    <2>6. Unique'
      BY <2>1, <2>2, <2>4, UniqueIsSingleFlight DEF IInv, Unique, Flying
    <2>7. Dated'
      <3>1. \A f \in Endpoints : status'[f] = IF f = e THEN t.result ELSE status[f]
        BY <2>2, <2>3
      <3>2. \A d \in Callers, f \in Endpoints :
                task'[<<d, f>>].pc = "storing" =>
                    f # e /\ task'[<<d, f>>] = task[<<d, f>>]
        BY <2>1, <2>2, <2>4, UniqueIsSingleFlight DEF IInv, Unique, Flying
      <3>3. t.result.checked <= now
        BY <2>2 DEF IInv, Dated, Tasks
      <3>4. \A f \in Endpoints : status'[f].checked <= now'
        BY <2>2, <3>1, <3>3 DEF IInv, Dated
      <3>5. \A x \in Tasks : task'[x].pc = "storing" =>
                /\ task'[x].result.known /\ task'[x].result.checked <= now'
                /\ task'[x].result.checked >= status'[x[2]].checked
        BY <2>2, <3>1, <3>2 DEF IInv, Dated, Tasks
      <3> QED
        BY <3>4, <3>5 DEF Dated
    <2>8. Spans'
      <3>1. \A d \in Callers, f \in Endpoints :
                task'[<<d, f>>].pc = "none" <=> task[<<d, f>>].pc = "none"
        BY <2>1, <2>2, <2>4
      <3> QED
        BY <2>2, <3>1 DEF IInv, Spans
    <2> QED
      BY <2>5, <2>6, <2>7, <2>8, UniqueIsSingleFlight DEF IInv, Unique, SingleFlight, Probing, Flying
  <1>8. CASE Leave(c, e)
    <2> DEFINE r == [pc |-> "closing", on |-> None, result |-> t.result]
    <2>1. r \in TaskRecords /\ r.pc = "closing"
      BY <1>0 DEF TaskRecords, Labels
    <2>2. /\ task' = [task EXCEPT ![<<c, e>>] = r] /\ t.pc = "leaving"
          /\ inflight' = inflight \ {e}
          /\ UNCHANGED <<now, status, call>>
      BY <1>8 DEF Leave, Advance
    <2>3. task \in [Tasks -> TaskRecords]
      BY DEF IInv, TypeOK, TaskRecords
    <2>4. \A d \in Callers, f \in Endpoints :
              task'[<<d, f>>] = IF d = c /\ f = e THEN r ELSE task[<<d, f>>]
      BY <2>2, <2>3 DEF Tasks
    <2> HIDE DEF r
    <2>5. TypeOK'
      BY <2>1, <2>2, <2>3 DEF IInv, TypeOK, TaskRecords, Tasks
    <2>6. Unique'
      <3>1. \A d \in Callers : task[<<d, e>>].pc \in Flying => d = c
        BY <2>2, UniqueIsSingleFlight DEF IInv, Unique, Flying
      <3>2. \A d \in Callers, f \in Endpoints : f # e =>
                (task'[<<d, f>>].pc \in Flying <=> task[<<d, f>>].pc \in Flying)
        BY <2>4
      <3>3. \A d \in Callers : task'[<<d, e>>].pc \notin Flying
        BY <2>1, <2>4, <3>1 DEF Flying
      <3> QED
        BY <2>2, <3>2, <3>3, UniqueIsSingleFlight DEF IInv, Unique
    <2>7. Dated'
      <3>1. \A x \in Tasks : task'[x] = task[x] \/ task'[x] = r
        BY <2>2, <2>3
      <3> QED
        BY <2>1, <2>2, <3>1 DEF IInv, Dated
    <2>8. Spans'
      <3>1. \A d \in Callers, f \in Endpoints :
                task'[<<d, f>>].pc = "none" <=> task[<<d, f>>].pc = "none"
        BY <2>1, <2>2, <2>4
      <3> QED
        BY <2>2, <3>1 DEF IInv, Spans
    <2> QED
      BY <2>5, <2>6, <2>7, <2>8, UniqueIsSingleFlight DEF IInv, Unique, SingleFlight, Probing, Flying
  <1>9. CASE Close(c, e)
    <2> DEFINE r == At("done")
    <2>1. r \in TaskRecords /\ r.pc = "done"
      BY <1>1 DEF Labels
    <2>2. /\ task' = [x \in Tasks |->
                 IF x = <<c, e>> \/ (x[2] = e /\ task[x].pc = "waiting" /\ task[x].on = c)
                 THEN r ELSE task[x]]
          /\ t.pc = "closing"
          /\ UNCHANGED <<now, status, inflight, call>>
      BY <1>9 DEF Close
    <2>3. task \in [Tasks -> TaskRecords]
      BY DEF IInv, TypeOK, TaskRecords
    <2> HIDE DEF r
    <2>4. \A x \in Tasks : \/ task'[x] = task[x]
                           \/ task[x].pc \in {"closing", "waiting"} /\ task'[x] = r
      BY <2>2, <2>3
    <2>5. TypeOK'
      <3>1. task' \in [Tasks -> TaskRecords]
        BY <2>1, <2>2, <2>3
      <3> QED
        BY <2>2, <3>1 DEF IInv, TypeOK, TaskRecords
    <2>6. \A d \in Callers, f \in Endpoints :
              /\ task'[<<d, f>>].pc \in Flying <=> task[<<d, f>>].pc \in Flying
              /\ task'[<<d, f>>].pc # "none" <=> task[<<d, f>>].pc # "none"
      BY <2>1, <2>4 DEF Flying, Tasks
    <2>7. Unique'
      BY <2>2, <2>6, UniqueIsSingleFlight DEF IInv, Unique
    <2>8. Dated'
      BY <2>1, <2>2, <2>4 DEF IInv, Dated
    <2>9. Spans'
      BY <2>2, <2>6 DEF IInv, Spans
    <2> QED
      BY <2>5, <2>7, <2>8, <2>9, UniqueIsSingleFlight DEF IInv, Unique, SingleFlight, Probing, Flying
  <1> QED
    BY <1>2, <1>3, <1>4, <1>5, <1>6, <1>7, <1>8, <1>9 DEF TaskStep

\* A call that begins or is answered touches no probe.
LEMMA CallInv ==
    ASSUME IInv, NEW c \in Callers,
           \/ \E wants \in SUBSET Endpoints : Begin(c, wants)
           \/ Answer(c) \/ Cancel(c)
    PROVE  IInv'
  <1> USE ConstantsAssumption
  <1>0. /\ task \in [Tasks -> TaskRecords] /\ call \in [Callers -> CallRecords]
        /\ now \in 0 .. MaxNow
    BY DEF IInv, TypeOK, TaskRecords, CallRecords
  <1>1. NoTask \in TaskRecords /\ At("check") \in TaskRecords
    <2>1. NoResult \in Results
      BY DEF NoResult, Results
    <2> QED
      BY <2>1 DEF NoTask, At, TaskRecords, Labels
  <1>2. ASSUME NEW wants \in SUBSET Endpoints, Begin(c, wants) PROVE IInv'
    <2> DEFINE r == At("check")
    <2>1. r.pc = "check"
      BY DEF At
    <2>2. /\ task' = [x \in Tasks |-> IF x[1] = c /\ x[2] \in wants THEN r ELSE task[x]]
          /\ call' = [call EXCEPT ![c] = [wants |-> wants, began |-> now, over |-> FALSE]]
          /\ call[c].wants = {} /\ UNCHANGED <<now, status, inflight>>
      BY <1>2 DEF Begin
    <2> HIDE DEF r
    <2>3. \A d \in Callers, f \in Endpoints :
              task'[<<d, f>>] = IF d = c /\ f \in wants THEN r ELSE task[<<d, f>>]
      BY <2>2 DEF Tasks
    <2>4. \A f \in Endpoints : task[<<c, f>>].pc = "none"
      BY <2>2 DEF IInv, Spans
    <2>5. TypeOK'
      <3>1. task' \in [Tasks -> TaskRecords]
        BY <1>0, <1>1, <2>2 DEF r
      <3>2. call' \in [Callers -> CallRecords]
        BY <1>0, <2>2 DEF CallRecords
      <3> QED
        BY <2>2, <3>1, <3>2 DEF IInv, TypeOK, TaskRecords, CallRecords
    <2>6. \A d \in Callers, f \in Endpoints :
              task'[<<d, f>>].pc \in Flying <=> task[<<d, f>>].pc \in Flying
      BY <2>1, <2>3, <2>4 DEF Flying
    <2>7. Unique'
      BY <2>2, <2>6, UniqueIsSingleFlight DEF IInv, Unique
    <2>8. Dated'
      <3>1. \A x \in Tasks : task'[x] = task[x] \/ task'[x] = r
        BY <2>2
      <3> QED
        BY <2>1, <2>2, <3>1 DEF IInv, Dated
    <2>9. Spans'
      <3>1. call'[c].wants = wants /\ \A d \in Callers \ {c} : call'[d] = call[d]
        BY <1>0, <2>2
      <3>2. \A f \in Endpoints : task'[<<c, f>>].pc # "none" <=> f \in wants
        BY <2>1, <2>3, <2>4
      <3>3. \A d \in Callers \ {c}, f \in Endpoints : task'[<<d, f>>] = task[<<d, f>>]
        BY <2>3
      <3> QED
        BY <3>1, <3>2, <3>3 DEF IInv, Spans
    <2> QED
      BY <2>5, <2>7, <2>8, <2>9, UniqueIsSingleFlight DEF IInv, Unique, SingleFlight, Probing, Flying
  <1>3. CASE Answer(c)
    <2>1. /\ task' = [x \in Tasks |-> IF x[1] = c THEN NoTask ELSE task[x]]
          /\ call' = [call EXCEPT ![c] = NoCall]
          /\ UNCHANGED <<now, status, inflight>>
      BY <1>3 DEF Answer
    <2>2. NoTask.pc = "none" /\ NoCall.wants = {} /\ NoCall \in CallRecords
      BY DEF NoTask, At, NoCall, CallRecords
    <2>3. \A d \in Callers, f \in Endpoints :
              task'[<<d, f>>] = IF d = c THEN NoTask ELSE task[<<d, f>>]
      BY <2>1 DEF Tasks
    <2>4. \A f \in Endpoints : task[<<c, f>>].pc \in {"none", "done"}
      BY <1>3 DEF Answer, Ready, IInv, Spans
    <2>5. TypeOK'
      <3>1. task' \in [Tasks -> TaskRecords]
        BY <1>0, <1>1, <2>1
      <3>2. call' \in [Callers -> CallRecords]
        BY <1>0, <2>1, <2>2
      <3> QED
        BY <2>1, <3>1, <3>2 DEF IInv, TypeOK, TaskRecords, CallRecords
    <2>6. \A d \in Callers, f \in Endpoints :
              task'[<<d, f>>].pc \in Flying <=> task[<<d, f>>].pc \in Flying
      BY <2>2, <2>3, <2>4 DEF Flying
    <2>7. Unique'
      BY <2>1, <2>6, UniqueIsSingleFlight DEF IInv, Unique
    <2>8. Dated'
      <3>1. \A x \in Tasks : task'[x] = task[x] \/ task'[x] = NoTask
        BY <2>1
      <3> QED
        BY <2>1, <2>2, <3>1 DEF IInv, Dated
    <2>9. Spans'
      <3>1. call'[c].wants = {} /\ \A d \in Callers \ {c} : call'[d] = call[d]
        BY <1>0, <2>1, <2>2
      <3> QED
        BY <2>2, <2>3, <3>1 DEF IInv, Spans
    <2> QED
      BY <2>5, <2>7, <2>8, <2>9, UniqueIsSingleFlight DEF IInv, Unique, SingleFlight, Probing, Flying
  <1>4. CASE Cancel(c)
    <2>1. /\ call' = [call EXCEPT ![c].over = TRUE]
          /\ UNCHANGED <<now, status, inflight, task>>
      BY <1>4 DEF Cancel
    <2>2. /\ call' \in [Callers -> CallRecords]
          /\ \A d \in Callers : call'[d].wants = call[d].wants
      BY <1>0, <2>1 DEF CallRecords
    <2>3. TypeOK'
      BY <2>1, <2>2 DEF IInv, TypeOK, CallRecords
    <2>4. SingleFlight' /\ Dated'
      BY <2>1 DEF IInv, SingleFlight, Probing, Dated
    <2>5. Spans'
      BY <2>1, <2>2 DEF IInv, Spans
    <2> QED
      BY <2>3, <2>4, <2>5 DEF IInv
  <1> QED
    BY <1>2, <1>3, <1>4

\* The clock only moves forward.
LEMMA TickInv == ASSUME IInv, Tick PROVE IInv'
  <1> USE ConstantsAssumption
  <1>1. /\ now' = now + 1 /\ now' \in 0 .. MaxNow
        /\ UNCHANGED <<status, inflight, task, call>>
    BY DEF Tick, IInv, TypeOK
  <1>2. TypeOK'
    BY <1>1 DEF IInv, TypeOK
  <1>3. SingleFlight' /\ Spans'
    BY <1>1 DEF IInv, SingleFlight, Probing, Spans
  <1>4. Dated'
    <2>1. \A e \in Endpoints : status[e].checked \in Nat
      BY DEF IInv, TypeOK, Results
    <2>2. \A t \in Tasks : task[t].result.checked \in Nat
      <3>1. \A t \in Tasks : task[t] \in TaskRecords
        BY DEF IInv, TypeOK, TaskRecords
      <3>2. \A r \in Results : r.checked \in Nat
        BY DEF Results
      <3> QED
        BY <3>1, <3>2 DEF TaskRecords
    <2>3. now \in Nat
      BY DEF IInv, TypeOK
    <2> QED
      BY <1>1, <2>1, <2>2, <2>3 DEF IInv, Dated
  <1> QED
    BY <1>2, <1>3, <1>4 DEF IInv

\* Every step preserves the invariant.
LEMMA StepInv == ASSUME IInv, Next PROVE IInv'
  <1>1. ASSUME NEW c \in Callers, NEW e \in Endpoints, LookupModel(c, e) PROVE IInv'
    BY <1>1, CallInv DEF LookupModel
  <1>2. ASSUME NEW c \in Callers, Snapshot(c) PROVE IInv'
    BY <1>2, CallInv DEF Snapshot
  <1> QED
    BY <1>1, <1>2, TaskInv, CallInv, TickInv DEF Next

\* The invariant holds in every reachable state.
THEOREM Invariance == Spec => []IInv
  <1>1. IInv /\ UNCHANGED vars => IInv'
    BY DEF IInv, TypeOK, SingleFlight, Probing, Dated, Spans, vars
  <1> QED
    BY <1>1, InitInv, StepInv, PTL DEF Spec

\* One endpoint never has two probes in flight, and r.inflight says which do.
THEOREM OneProbe == Spec => []SingleFlight
  BY Invariance, PTL DEF IInv

\* The labels of a probe from the fetch to the close of its channel, and of one
\* whose result is in hand.
Landed == {"storing", "leaving", "closing"}
Underway == {"fetching"} \cup Landed

\* What a task knows: a waiter's owner has yet to close its channel; a result in
\* hand is no older than its call and still within the TTL, and once recorded is
\* never undone; a task that is done leaves a good answer behind.
TaskSound(c, e) ==
    LET t == task[<<c, e>>]
    IN  /\ t.pc = "waiting" =>
               t.on \in Callers /\ task[<<t.on, e>>].pc \in Underway
        /\ t.pc \in Landed =>
               /\ call[c].began <= t.result.checked
               /\ now < t.result.checked + TTL
               /\ e \in Reliable => t.result.online
        /\ t.pc \in {"leaving", "closing"} =>
               status[e].known /\ t.result.checked <= status[e].checked
        /\ t.pc = "done" /\ ~call[c].over =>
               status[e].known /\ call[c].began < status[e].checked + TTL

\* The inductive invariant behind AnswersSound, with IInv.
Sound == /\ \A c \in Callers : call[c].began <= now
         /\ \A c \in Callers, e \in Endpoints : TaskSound(c, e)
         /\ NoPoison

\* What is recorded for an endpoint only gets newer.
Newer == \A e \in Endpoints : status[e].known =>
             status'[e].known /\ status'[e].checked >= status[e].checked

\* Times are naturals, tasks and calls are records: what the arithmetic of the
\* proofs below needs of the type invariant.
LEMMA NatTimes ==
  ASSUME IInv
  PROVE  /\ now \in Nat /\ TTL \in Nat \ {0}
         /\ \A e \in Endpoints : status[e].checked \in Nat
         /\ \A c \in Callers, e \in Endpoints : task[<<c, e>>].result.checked \in Nat
         /\ \A c \in Callers : call[c].began \in Nat
         /\ task \in [Tasks -> TaskRecords] /\ call \in [Callers -> CallRecords]
<1>1. task \in [Tasks -> TaskRecords] /\ call \in [Callers -> CallRecords]
  BY DEF IInv, TypeOK, TaskRecords, CallRecords
<1>2. \A r \in Results : r.checked \in Nat
  BY DEF Results
<1>3. \A c \in Callers, e \in Endpoints : task[<<c, e>>].result \in Results
  BY <1>1 DEF Tasks, TaskRecords
<1>4. \A c \in Callers : call[c].began \in Nat
  BY <1>1 DEF CallRecords
<1> QED
  BY <1>1, <1>2, <1>3, <1>4, ConstantsAssumption DEF IInv, TypeOK

\* The task of c for e becomes r, and no other task moves: what is left to show
\* is what the task itself must know.
LEMMA SoundMove ==
  ASSUME IInv, IInv', Sound, Newer, NoPoison',
         NEW c \in Callers, NEW e \in Endpoints, NEW r,
         task' = [task EXCEPT ![<<c, e>>] = r], UNCHANGED <<now, call>>,
         task[<<c, e>>].pc \in Underway => r.pc \in Underway,
         r.pc = "waiting" => r.on \in Callers /\ task'[<<r.on, e>>].pc \in Underway,
         r.pc \in Landed => /\ call[c].began <= r.result.checked
                            /\ now < r.result.checked + TTL
                            /\ e \in Reliable => r.result.online,
         r.pc \in {"leaving", "closing"} =>
             status'[e].known /\ r.result.checked <= status'[e].checked,
         r.pc = "done" /\ ~call[c].over =>
             status'[e].known /\ call[c].began < status'[e].checked + TTL
  PROVE  Sound'
<1>1. \A d \in Callers, f \in Endpoints :
          task'[<<d, f>>] = IF d = c /\ f = e THEN r ELSE task[<<d, f>>]
  BY NatTimes DEF Tasks
<1>2. ASSUME NEW d \in Callers, NEW f \in Endpoints PROVE TaskSound(d, f)'
  <2>1. CASE d = c /\ f = e
    BY <1>1, <2>1 DEF TaskSound
  <2>2. CASE ~(d = c /\ f = e)
    <3>1. task'[<<d, f>>] = task[<<d, f>>]
      BY <1>1, <2>2
    <3>2. \A x \in Callers : task[<<x, f>>].pc \in Underway => task'[<<x, f>>].pc \in Underway
      BY <1>1
    <3>3. /\ status[f].checked \in Nat /\ status'[f].checked \in Nat
          /\ call[d].began \in Nat /\ task[<<d, f>>].result.checked \in Nat /\ TTL \in Nat
          /\ now \in Nat
      BY NatTimes DEF IInv, TypeOK, Results
    <3>4. status[f].known => status'[f].known /\ status'[f].checked >= status[f].checked
      BY DEF Newer
    <3>5. TaskSound(d, f)
      BY DEF Sound
    <3> QED
      BY <3>1, <3>2, <3>3, <3>4, <3>5 DEF TaskSound
  <2> QED
    BY <2>1, <2>2
<1> QED
  BY <1>2 DEF Sound

\* Every step only makes the record newer.
LEMMA StepNewer == ASSUME IInv, [Next]_vars PROVE Newer
  <1>0. \A e \in Endpoints : status[e].checked \in Nat
    BY NatTimes
  <1>1. ASSUME UNCHANGED status PROVE Newer
    BY <1>0, <1>1 DEF Newer
  <1>2. ASSUME NEW c \in Callers, NEW e \in Endpoints, Store(c, e) PROVE Newer
    <2>1. /\ status' = [status EXCEPT ![e] = task[<<c, e>>].result]
          /\ task[<<c, e>>].pc = "storing" /\ status \in [Endpoints -> Results]
      BY <1>2 DEF Store, IInv, TypeOK
    <2>2. /\ task[<<c, e>>].result.known
          /\ task[<<c, e>>].result.checked >= status[e].checked
      BY <2>1 DEF IInv, Dated, Tasks
    <2> QED
      BY <1>0, <2>1, <2>2 DEF Newer
  <1>3. ASSUME NEW c \in Callers, NEW e \in Endpoints, TaskStep(c, e) PROVE Newer
    <2>1. CASE Store(c, e)
      BY <1>2, <2>1
    <2>2. CASE ~Store(c, e)
      <3>1. UNCHANGED status
        BY <1>3, <2>2 DEF TaskStep, Check, Wait, Probe, GiveUp, Fetched, Leave, Close
      <3> QED
        BY <1>1, <3>1
    <2> QED
      BY <2>1, <2>2
  <1>4. ASSUME NEW c \in Callers,
               \/ \E e \in Endpoints : LookupModel(c, e)
               \/ Snapshot(c) \/ Answer(c) \/ Cancel(c)
        PROVE  UNCHANGED status
    BY <1>4 DEF LookupModel, Snapshot, Begin, Answer, Cancel
  <1>5. Tick => UNCHANGED status
    BY DEF Tick
  <1> QED
    BY <1>1, <1>3, <1>4, <1>5 DEF Next, vars

\* The result recorded for an endpoint is never replaced by an older one.
THEOREM Monotone == Spec => NeverOlder
  <1>1. IInv /\ [Next]_vars => [Newer]_vars
    BY StepNewer
  <1> QED
    BY <1>1, Invariance, PTL DEF Spec, NeverOlder, Newer

\* Every step of a task leaves each task with a sound answer, or on the way to
\* one.
LEMMA SoundTask ==
  ASSUME IInv, IInv', Sound, Newer, NEW c \in Callers, NEW e \in Endpoints, TaskStep(c, e)
  PROVE  Sound'
<1> DEFINE t == task[<<c, e>>]
<1>0. /\ now \in Nat /\ TTL \in Nat \ {0} /\ call[c].began \in Nat
      /\ call[c].began <= now /\ t.result.checked \in Nat /\ status[e].checked \in Nat
      /\ TaskSound(c, e) /\ NoPoison
  BY NatTimes DEF Sound
<1>1. ASSUME UNCHANGED status PROVE NoPoison'
  BY <1>0, <1>1 DEF NoPoison
<1>2. CASE Check(c, e)
  <2>1. /\ task' = [task EXCEPT ![<<c, e>>] = At(IF Fresh(e) THEN "done" ELSE "enter")]
        /\ t.pc = "check" /\ UNCHANGED <<now, status, inflight, call>>
    BY <1>2 DEF Check, Goto
  <2>2. Fresh(e) => status[e].known /\ call[c].began < status[e].checked + TTL
    BY <1>0 DEF Fresh
  <2> QED
    BY <1>1, <2>1, <2>2, SoundMove DEF At, Underway, Landed
<1>3. CASE Wait(c, e)
  <2>1. \E d \in Callers : task[<<d, e>>].pc \in Flying
    BY <1>3, UniqueIsSingleFlight DEF Wait, IInv, Unique
  <2>2. PICK o \in Callers : o = Owner(e) /\ task[<<o, e>>].pc \in Flying
    BY <2>1 DEF Owner, Flying
  <2>3. /\ task' = [task EXCEPT ![<<c, e>>] =
                       [pc |-> "waiting", on |-> o, result |-> NoResult]]
        /\ t.pc = "enter" /\ UNCHANGED <<now, status, inflight, call>>
    BY <1>3, <2>2 DEF Wait
  <2>4. o # c /\ task'[<<o, e>>].pc \in Underway
    BY <2>2, <2>3, NatTimes DEF Flying, Underway, Landed, Tasks
  <2> QED
    BY <1>1, <2>3, <2>4, SoundMove DEF Underway, Landed
<1>4. CASE Probe(c, e)
  BY <1>1, <1>4, SoundMove DEF Probe, Goto, At, Underway, Landed
<1>5. CASE GiveUp(c, e)
  BY <1>1, <1>5, SoundMove DEF GiveUp, Goto, At, Underway, Landed
<1>6. ASSUME NEW ok \in Outcomes(c, e), Fetched(c, e, ok) PROVE Sound'
  <2>1. /\ task' = [task EXCEPT ![<<c, e>>] =
               [pc |-> "storing", on |-> None,
                result |-> [known |-> TRUE, online |-> ok, checked |-> now]]]
        /\ UNCHANGED <<now, status, inflight, call>>
    BY <1>6 DEF Fetched
  <2>2. e \in Reliable => ok
    BY <1>6 DEF Outcomes
  <2>3. call[c].began <= now /\ now < now + TTL
    BY <1>0
  <2> QED
    BY <1>1, <2>1, <2>2, <2>3, SoundMove DEF Underway, Landed
<1>7. CASE Store(c, e)
  <2>1. PICK r : r = [pc |-> "leaving", on |-> None, result |-> t.result]
    OBVIOUS
  <2>2. r.pc = "leaving" /\ r.result = t.result
    BY <2>1
  <2>3. /\ status' = [status EXCEPT ![e] = t.result] /\ status \in [Endpoints -> Results]
        /\ task' = [task EXCEPT ![<<c, e>>] = r]
        /\ t.pc = "storing" /\ UNCHANGED <<now, inflight, call>>
    BY <1>7, <2>1 DEF Store, Advance, IInv, TypeOK
  <2>4. t.result.known
    BY <2>3 DEF IInv, Dated, Tasks
  <2>5. /\ call[c].began <= r.result.checked /\ now < r.result.checked + TTL
        /\ e \in Reliable => r.result.online
    BY <1>0, <2>2, <2>3 DEF TaskSound, Landed
  <2>6. status'[e] = r.result
    BY <2>2, <2>3
  <2>7. status'[e].known /\ r.result.checked <= status'[e].checked
    BY <1>0, <2>2, <2>4, <2>6
  <2>8. NoPoison'
    BY <1>0, <2>2, <2>3, <2>5, ConstantsAssumption DEF NoPoison
  <2>9. /\ r.pc \in Underway /\ r.pc # "waiting" /\ r.pc # "done"
        /\ UNCHANGED <<now, call>>
    BY <2>2, <2>3 DEF Underway, Landed
  <2> HIDE DEF t
  <2> QED
    BY <2>3, <2>5, <2>7, <2>8, <2>9, SoundMove
<1>8. CASE Leave(c, e)
  <2>1. /\ task' = [task EXCEPT ![<<c, e>>] =
                       [pc |-> "closing", on |-> None, result |-> t.result]]
        /\ t.pc = "leaving" /\ UNCHANGED <<now, status, call>>
    BY <1>8 DEF Leave, Advance
  <2>2. /\ call[c].began <= t.result.checked /\ now < t.result.checked + TTL
        /\ e \in Reliable => t.result.online
        /\ status[e].known /\ t.result.checked <= status[e].checked
    BY <1>0, <2>1 DEF TaskSound, Landed
  <2> QED
    BY <1>1, <2>1, <2>2, SoundMove DEF Underway, Landed
<1>9. CASE Close(c, e)
  <2>1. /\ task' = [x \in Tasks |->
               IF x = <<c, e>> \/ (x[2] = e /\ task[x].pc = "waiting" /\ task[x].on = c)
               THEN At("done") ELSE task[x]]
        /\ t.pc = "closing" /\ UNCHANGED <<now, status, inflight, call>>
    BY <1>9 DEF Close
  <2>2. /\ status[e].known /\ t.result.checked <= status[e].checked
        /\ now < t.result.checked + TTL
    BY <1>0, <2>1 DEF TaskSound, Landed
  <2>3. ASSUME NEW d \in Callers, NEW f \in Endpoints PROVE TaskSound(d, f)'
    <3>1. TaskSound(d, f) /\ call[d].began <= now /\ call[d].began \in Nat
      BY NatTimes DEF Sound
    <3>2. task'[<<d, f>>] = IF \/ d = c /\ f = e
                               \/ f = e /\ task[<<d, f>>].pc = "waiting" /\ task[<<d, f>>].on = c
                            THEN At("done") ELSE task[<<d, f>>]
      BY <2>1 DEF Tasks
    <3>3. CASE task'[<<d, f>>] = At("done") /\ f = e
      <4>1. call[d].began < status[f].checked + TTL /\ status[f].known
        BY <1>0, <2>2, <3>1, <3>3
      <4>2. task'[<<d, f>>].pc = "done"
        BY <3>3 DEF At
      <4>3. call' = call /\ status' = status
        BY <2>1
      <4> QED
        BY <4>1, <4>2, <4>3 DEF TaskSound, Landed
    <3>4. CASE /\ task'[<<d, f>>] = task[<<d, f>>]
               /\ ~(d = c /\ f = e)
               /\ ~(f = e /\ task[<<d, f>>].pc = "waiting" /\ task[<<d, f>>].on = c)
      <4>1. ASSUME task[<<d, f>>].pc = "waiting"
            PROVE  /\ task[<<d, f>>].on \in Callers
                   /\ task'[<<task[<<d, f>>].on, f>>].pc \in Underway
        <5>1. PICK o \in Callers : o = task[<<d, f>>].on /\ task[<<o, f>>].pc \in Underway
          BY <3>1, <4>1 DEF TaskSound
        <5>2. ~(o = c /\ f = e)
          BY <3>4, <4>1, <5>1
        <5>3. task'[<<o, f>>] = task[<<o, f>>]
          BY <2>1, <5>1, <5>2 DEF Tasks, Underway, Landed
        <5> QED
          BY <5>1, <5>3
      <4> QED
        BY <2>1, <3>1, <3>4, <4>1 DEF TaskSound
    <3> QED
      BY <3>2, <3>3, <3>4
  <2> QED
    BY <1>1, <2>1, <2>3 DEF Sound
<1> QED
  BY <1>2, <1>3, <1>4, <1>5, <1>6, <1>7, <1>8, <1>9 DEF TaskStep

\* A call that begins, is answered or is cancelled leaves the probes alone, and
\* the clock stops short of the TTL of a result in hand.
LEMMA SoundRest ==
  ASSUME IInv, Sound, Tick \/ \E c \in Callers :
             \/ \E wants \in SUBSET Endpoints : Begin(c, wants)
             \/ Answer(c) \/ Cancel(c)
  PROVE  Sound'
<1>0. /\ \A d \in Callers, f \in Endpoints : TaskSound(d, f)
      /\ \A d \in Callers : call[d].began <= now /\ NoPoison
  BY DEF Sound
<1>1. ASSUME NEW c \in Callers, NEW wants \in SUBSET Endpoints, Begin(c, wants) PROVE Sound'
  <2>1. /\ \A d \in Callers, f \in Endpoints :
               task'[<<d, f>>] = IF d = c /\ f \in wants THEN At("check") ELSE task[<<d, f>>]
        /\ call'[c].began = now
        /\ \A d \in Callers \ {c} : call'[d] = call[d]
        /\ UNCHANGED <<now, status>>
    BY <1>1, NatTimes DEF Begin, Tasks
  <2>2. \A f \in Endpoints : task[<<c, f>>].pc = "none"
    BY <1>1 DEF Begin, IInv, Spans
  <2>3. \A f \in Endpoints : task'[<<c, f>>].pc \in {"none", "check"}
    BY <2>1, <2>2 DEF At
  <2>4. \A d \in Callers, f \in Endpoints :
            task[<<d, f>>].pc \in Underway => d # c /\ task'[<<d, f>>] = task[<<d, f>>]
    BY <2>1, <2>2 DEF Underway, Landed
  <2>5. ASSUME NEW d \in Callers, NEW f \in Endpoints PROVE TaskSound(d, f)'
    <3>1. CASE d = c
      BY <2>3, <3>1 DEF TaskSound, Landed
    <3>2. CASE d # c
      <4>1. task'[<<d, f>>] = task[<<d, f>>] /\ call'[d] = call[d]
        BY <2>1, <3>2
      <4> QED
        BY <1>0, <2>1, <2>4, <4>1 DEF TaskSound
    <3> QED
      BY <3>1, <3>2
  <2>6. \A d \in Callers : call'[d].began <= now'
    BY <1>0, <2>1, NatTimes
  <2> QED
    BY <1>0, <2>1, <2>5, <2>6 DEF Sound, NoPoison
<1>2. ASSUME NEW c \in Callers, Answer(c) PROVE Sound'
  <2>1. /\ \A d \in Callers, f \in Endpoints :
               task'[<<d, f>>] = IF d = c THEN NoTask ELSE task[<<d, f>>]
        /\ call'[c].began = 0
        /\ \A d \in Callers \ {c} : call'[d] = call[d]
        /\ UNCHANGED <<now, status>>
    BY <1>2, NatTimes DEF Answer, NoCall, Tasks
  <2>2. \A f \in Endpoints : task[<<c, f>>].pc \in {"none", "done"}
    BY <1>2 DEF Answer, Ready, IInv, Spans
  <2>3. \A d \in Callers, f \in Endpoints :
            task[<<d, f>>].pc \in Underway => d # c /\ task'[<<d, f>>] = task[<<d, f>>]
    BY <2>1, <2>2 DEF Underway, Landed
  <2>4. ASSUME NEW d \in Callers, NEW f \in Endpoints PROVE TaskSound(d, f)'
    <3>1. CASE d = c
      BY <2>1, <3>1 DEF TaskSound, Landed, NoTask, At
    <3>2. CASE d # c
      <4>1. task'[<<d, f>>] = task[<<d, f>>] /\ call'[d] = call[d]
        BY <2>1, <3>2
      <4> QED
        BY <1>0, <2>1, <2>3, <4>1 DEF TaskSound
    <3> QED
      BY <3>1, <3>2
  <2>5. \A d \in Callers : call'[d].began <= now'
    BY <1>0, <2>1, NatTimes
  <2> QED
    BY <1>0, <2>1, <2>4, <2>5 DEF Sound, NoPoison
<1>3. ASSUME NEW c \in Callers, Cancel(c) PROVE Sound'
  <2>1. /\ \A d \in Callers : /\ call'[d].began = call[d].began
                              /\ call[d].over => call'[d].over
        /\ UNCHANGED <<now, status, task>>
    BY <1>3, NatTimes DEF Cancel, CallRecords
  <2> QED
    BY <1>0, <2>1 DEF Sound, TaskSound, NoPoison
<1>4. ASSUME Tick PROVE Sound'
  <2>1. now' = now + 1 /\ UNCHANGED <<status, task, call>> /\ now \in Nat
    BY <1>4, NatTimes DEF Tick
  <2>2. \A d \in Callers, f \in Endpoints : task[<<d, f>>].pc \in Landed =>
            now' < task[<<d, f>>].result.checked + TTL
    BY <1>4 DEF Tick, Tasks, Landed
  <2>3. \A d \in Callers, f \in Endpoints : TaskSound(d, f)'
    BY <1>0, <2>1, <2>2 DEF TaskSound
  <2>4. \A d \in Callers : call'[d].began <= now'
    BY <1>0, <2>1, NatTimes
  <2> QED
    BY <1>0, <2>1, <2>3, <2>4 DEF Sound, NoPoison
<1> QED
  BY <1>1, <1>2, <1>3, <1>4

\* Nothing is asked and nothing is known at first.
LEMMA InitSound == Init => Sound
<1> SUFFICES ASSUME Init PROVE Sound
  OBVIOUS
<1>1. \A c \in Callers, e \in Endpoints : task[<<c, e>>].pc = "none"
  BY DEF Init, Tasks, NoTask, At
<1>2. \A c \in Callers, e \in Endpoints : TaskSound(c, e)
  BY <1>1 DEF TaskSound, Landed
<1>3. (\A c \in Callers : call[c].began <= now) /\ NoPoison
  BY ConstantsAssumption DEF Init, NoCall, NoResult, NoPoison
<1> QED
  BY <1>2, <1>3 DEF Sound

\* Every step preserves the invariant.
LEMMA SoundStep == ASSUME IInv, Sound, [Next]_vars PROVE Sound'
  <1>1. CASE UNCHANGED vars
    BY <1>1 DEF vars, Sound, TaskSound, NoPoison
  <1>2. CASE Next
    <2>1. IInv' /\ Newer
      BY <1>2, StepInv, StepNewer
    <2>2. ASSUME NEW c \in Callers, NEW e \in Endpoints, LookupModel(c, e) PROVE Sound'
      BY <2>2, SoundRest DEF LookupModel
    <2>3. ASSUME NEW c \in Callers, Snapshot(c) PROVE Sound'
      BY <2>3, SoundRest DEF Snapshot
    <2> QED
      BY <1>2, <2>1, <2>2, <2>3, SoundTask, SoundRest DEF Next
  <1> QED
    BY <1>1, <1>2

\* What a caller is told is neither older than the TTL nor another caller's doing.
THEOREM SoundAnswers == Spec => []AnswersSound
  <1>1. IInv /\ Sound => AnswersSound
    <2> SUFFICES ASSUME IInv, Sound PROVE FreshAnswer
      BY DEF Sound, AnswersSound
    <2> SUFFICES ASSUME NEW c \in Callers, Ready(c), ~call[c].over, NEW e \in call[c].wants
                 PROVE  status[e].known /\ call[c].began < status[e].checked + TTL
      BY DEF FreshAnswer
    <2>1. e \in Endpoints
      BY NatTimes DEF CallRecords
    <2> QED
      BY <2>1 DEF Sound, TaskSound, Ready
  <1>2. IInv /\ Sound /\ [Next]_vars => Sound'
    BY SoundStep
  <1> QED
    BY <1>1, <1>2, InitSound, Invariance, PTL DEF Spec
=============================================================================
