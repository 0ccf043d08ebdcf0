----------------------------- MODULE ModelPool -----------------------------
(***************************************************************************)
(* What a ServerManager promises about the set of managed models, without  *)
(* saying how: every alias is absent, loading or ready, a load starts only *)
(* while the instance and memory budgets allow it, and every load that     *)
(* starts is resolved one way or the other.                                *)
(*                                                                         *)
(* ServerManager.tla implements this specification; `status' is what       *)
(* ModelCatalog and ListInstances report of an alias.                      *)
(***************************************************************************)
EXTENDS Naturals, FiniteSets, Functions

CONSTANTS
    Aliases,    \* the configured model aliases
    MaxLoaded,  \* the cap on loaded instances, 0 when there is none
    MaxMemory,  \* the memory cap, 0 when there is none
    Memory      \* Memory[a]: the size estimate of a, 0 when unknown

VARIABLE status \* status[a] \in {"absent", "loading", "ready"}

StatusOK == status \in [Aliases -> {"absent", "loading", "ready"}]

Loaded == {a \in Aliases : status[a] # "absent"}

\* Is there room for a beside the aliases in S?
RoomFor(a, S) ==
    /\ MaxLoaded > 0 => Cardinality(S) + 1 <= MaxLoaded
    /\ (MaxMemory > 0 /\ Memory[a] > 0) =>
           SumFunctionOnSet(Memory, S) + Memory[a] <= MaxMemory

Init == status = [a \in Aliases |-> "absent"]

Admit(a) ==
    /\ status[a] = "absent"
    /\ RoomFor(a, Loaded)
    /\ status' = [status EXCEPT ![a] = "loading"]

BecomeReady(a) ==
    /\ status[a] = "loading"
    /\ status' = [status EXCEPT ![a] = "ready"]

Leave(a) ==
    /\ status[a] # "absent"
    /\ status' = [status EXCEPT ![a] = "absent"]

Next == \E a \in Aliases : Admit(a) \/ BecomeReady(a) \/ Leave(a)

\* A load in progress is resolved: the server becomes ready or is gone.
Resolve(a) == status[a] = "loading" /\ (BecomeReady(a) \/ Leave(a))

SafeSpec == Init /\ [][Next]_status

Spec == SafeSpec /\ \A a \in Aliases : WF_status(Resolve(a))
=============================================================================
