------------------------------ MODULE MCInvoke ------------------------------
(* Invoke for TLC: calls are interchangeable. *)
EXTENDS Invoke, TLC

Symm == Permutations(Calls)
=============================================================================
