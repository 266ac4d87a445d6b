----------------------------- MODULE MCRpcSync -----------------------------
(* TLC instances of RpcSync. *)
EXTENDS RpcSync, TLC

\* Tasks are interchangeable.
Symmetry == Permutations(Tasks)
=============================================================================
