----------------------------- MODULE MCPgStore -----------------------------
(* PgStore for TLC: one workload for all handler threads. *)
EXTENDS PgStore, TLC

CONSTANTS v1, v2, k1, p1, m1

Row1(v) == [x \in Indexes |-> v]

Creates(id, v, k) ==
    [kind |-> "create",
     op |-> [id |-> id, data |-> Row1(v), key |-> k, named |-> Indexes, ret |-> 0]]

(* Two values raced for, under one idempotency key or none; an update that   *)
(* moves a record to the other value; a delete; appends to both logs.        *)
AllRequests ==
    {Creates(NoId, v1, k1), Creates(NoId, v2, k1), Creates(2, v2, NoKey),
     [kind |-> "update", op |-> [id |-> 1, patch |-> Row1(v2), named |-> Indexes]],
     [kind |-> "delete", op |-> 1],
     [kind |-> "event", op |-> p1], [kind |-> "evidence", op |-> p1],
     [kind |-> "migration", op |-> m1]}

Symm == Permutations(Clients)
=============================================================================
