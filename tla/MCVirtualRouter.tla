-------------------------- MODULE MCVirtualRouter --------------------------
(***************************************************************************)
(* A small instance of VirtualRouter: v1 falls back from an endpoint to    *)
(* another one, v2 from the first endpoint to a managed alias.             *)
(***************************************************************************)
EXTENDS VirtualRouter, TLC

CONSTANTS v1, v2, big, small, local, e1, e2

MCDeclared == [v \in Virtuals |-> IF v = v1 THEN <<big, small>> ELSE <<local, small>>]

MCKeys == Virtuals \X Conversations

MCEndpoint == (big :> e1 @@ small :> e2 @@ local :> None)

\* The header is read by no property of this run.
MCView == <<entries, now, served, [r \in Requests |-> [req[r] EXCEPT !.header = None]]>>

Symmetry == Permutations(Requests)
=============================================================================
