-------------------------- MODULE MCServerManager --------------------------
(***************************************************************************)
(* Small instances of ServerManager.  The aliases differ in size: under   *)
(* the memory cap a2 does not fit beside a1.                               *)
(***************************************************************************)
EXTENDS ServerManager, TLC

CONSTANTS a1, a2

MCMemory == (a1 :> 2 @@ a2 :> 3)

\* A record that nothing points at is garbage: Launch overwrites all of it, so
\* states that differ only there are the same state.
MCView ==
    <<instances, [p \in Procs |-> IF Fresh(p) THEN NoProc ELSE inst[p]],
      call, waiters, stopping, loadErrors, reap, shut>>

Symmetry == Permutations(Procs) \cup Permutations(Requests)
=============================================================================
