-------------------------- MODULE MCProxyRegistry --------------------------
(***************************************************************************)
(* Small instances of ProxyRegistry.  Endpoint 1 may go up and down,       *)
(* endpoint 2, when there is one, is always up.                            *)
(***************************************************************************)
EXTENDS ProxyRegistry, TLC

Symmetry == Permutations(Callers)
=============================================================================
