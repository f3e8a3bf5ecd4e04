----------------------------- MODULE MCKvStore -----------------------------
(* KvStore for TLC: values and payloads are interchangeable. *)
EXTENDS KvStore, TLC

AllNamed == {Indexes}            \* runtime endpoints and commands name every index

Symm == Permutations(Values) \cup Permutations(Payloads)
=============================================================================
