----------------------------- MODULE MCRegistry -----------------------------
(* RegistryFile for TLC: two deployments of one SOR that want one path. *)
EXTENDS RegistryFile, TLC

OneScope  == [i \in DepIds |-> "sor"]
OneLabel  == [i \in DepIds |-> "v1"]
Digest    == [i \in DepIds |-> i]

Public    == [digest |-> 1, pass |-> TRUE, exposure |-> TRUE, ontology |-> FALSE, override |-> TRUE]
Failing   == [digest |-> 1, pass |-> FALSE, exposure |-> TRUE, ontology |-> TRUE, override |-> FALSE]
Some      == {Public, Failing}

HookOne   == [d \in Deliveries |-> 1]
PathOf    == [i \in DepIds |-> "/p"]
SpaceOf   == [i \in DepIds |-> "ns"]

Symm == Permutations(Users) \cup Permutations(AliasNames)
=============================================================================
