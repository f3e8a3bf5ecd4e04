---------------------------- MODULE RegistryFile ----------------------------
(***************************************************************************)
(* The registry file and its users: CLI commands (run_deployments,         *)
(* run_aliases, run_webhook) and threads of the HTTP runtime               *)
(* (registry_set_alias, registry_promote, registry_rollback).  Each loads  *)
(* the whole registry, applies one operation and writes the whole registry *)
(* back, without a lock; fs::write truncates the file before it writes.    *)
(***************************************************************************)
EXTENDS Registry

CONSTANTS
    Users,
    MaxReports,  \* bound: reports of a deployment
    MaxOps       \* bound: operations, over all users

ASSUME OpsAssumption == MaxOps \in Nat

VARIABLES
    file,        \* the registry as last written; empty while truncated
    torn,        \* the file is truncated or holds a mixture: load fails
    pc,          \* per user: "idle", "truncate" or "write"
    buf,         \* the registry the user is about to write
    mixed,       \* users whose open file another user wrote to
    ops          \* operations begun

vars == <<file, torn, pc, buf, mixed, ops>>

TypeOK ==
    /\ file \in Registries /\ torn \in BOOLEAN
    /\ pc \in [Users -> {"idle", "truncate", "write"}]
    /\ buf \in [Users -> Registries]
    /\ mixed \subseteq {u \in Users : pc[u] = "write"}
    /\ ops \in 0 .. MaxOps

Init ==
    /\ file = EmptyRegistry /\ torn = FALSE
    /\ pc = [u \in Users |-> "idle"]
    /\ buf = [u \in Users |-> EmptyRegistry]
    /\ mixed = {} /\ ops = 0

-----------------------------------------------------------------------------
(* load, then one operation in memory; a refusal is answered and nothing    *)
(* is saved.                                                                *)
Apply(u, result) ==
    /\ pc[u] = "idle" /\ ~torn /\ result.ok
    /\ ops < MaxOps /\ ops' = ops + 1
    /\ buf' = [buf EXCEPT ![u] = result.reg]
    /\ pc' = [pc EXCEPT ![u] = "truncate"]
    /\ UNCHANGED <<file, torn, mixed>>

Create(u) ==
    \E r \in CreateRequests :
        Len(file.deps[r.id]) < MaxEntries /\ Apply(u, CreateDeployment(file, r))

GhcrPublished(u) ==
    \E d \in Deliveries :
        Len(file.deps[HookId[d]]) < MaxEntries /\ Apply(u, Webhook(file, d))

Validate(u) == \E i \in DepIds : Apply(u, ValidateDeployment(file, i))

Activate(u) == \E i \in DepIds : Apply(u, ActivatePrivate(file, i))

Report(u) ==
    \E i \in DepIds, report \in Reports :
        /\ Len(file.reports[i]) < MaxReports
        /\ Apply(u, RecordValidationReport(file, i, report))

Promote(u) ==
    \E i \in DepIds : \/ Apply(u, PromotePrivate(file, i))
                      \/ Apply(u, PromotePublic(file, i))

PromoteTo(u) ==
    \E i \in DepIds, a \in AliasNames, public \in BOOLEAN :
        Apply(u, PromoteAlias(file, i, a, public))

MoveAlias(u) ==
    \E s \in Scopes, a \in AliasNames, i \in DepIds :
        \/ Apply(u, SetAlias(file, s, a, i))
        \/ Apply(u, RollbackAlias(file, s, a, i))

RetireSome(u) ==
    \/ \E i \in DepIds : Apply(u, Retire(file, i))
    \/ \E s \in Scopes, keep \in 0 .. 1 : Apply(u, RetireOld(file, s, keep))

(* save: open and truncate, then write.  A user that finds its file written *)
(* by another since it truncated it may leave a mixture of the two.         *)
Truncate(u) ==
    /\ pc[u] = "truncate"
    /\ file' = EmptyRegistry /\ torn' = TRUE
    /\ mixed' = {}
    /\ pc' = [pc EXCEPT ![u] = "write"]
    /\ UNCHANGED <<buf, ops>>

Writers == {u \in Users : pc[u] = "write"}

Write(u) ==
    /\ pc[u] = "write"
    /\ \/ file' = buf[u] /\ torn' = FALSE
       \/ u \in mixed /\ file' = EmptyRegistry /\ torn' = TRUE
    /\ mixed' = Writers \ {u}
    /\ pc' = [pc EXCEPT ![u] = "idle"]
    /\ buf' = [buf EXCEPT ![u] = EmptyRegistry]
    /\ UNCHANGED ops

(* The process dies, or the write fails, part of it done.                   *)
Abandon(u) ==
    /\ pc[u] # "idle"
    /\ mixed' = IF pc[u] = "write" THEN Writers \ {u} ELSE mixed
    /\ IF pc[u] = "write" THEN file' = EmptyRegistry /\ torn' = TRUE
       ELSE UNCHANGED <<file, torn>>
    /\ pc' = [pc EXCEPT ![u] = "idle"]
    /\ buf' = [buf EXCEPT ![u] = EmptyRegistry]
    /\ UNCHANGED ops

Next ==
    \E u \in Users :
        \/ Create(u) \/ GhcrPublished(u) \/ Validate(u) \/ Activate(u) \/ Report(u)
        \/ Promote(u) \/ PromoteTo(u) \/ MoveAlias(u) \/ RetireSome(u)
        \/ Truncate(u) \/ Write(u) \/ Abandon(u)

Spec == Init /\ [][Next]_vars

-----------------------------------------------------------------------------
(* docs/deployments.md, public promotion: a deployment is public only after *)
(* a promotion that is in the audit trail, and the report that was its      *)
(* latest at that time is for its digest and passed, with exposure allowed  *)
(* and the ontology gates passed or overridden.  A report that fails later, *)
(* or one of another writer, does not undo a promotion, and a report older  *)
(* than a failed one never allows it; lost updates or not.                  *)
PublicGated == Gated(file)

(* resolve_alias: an alias names a deployment of its own tenant and SOR     *)
(* that was validated or activated, never one that is pending or retired.   *)
AliasResolves == Resolves(file)

(* check_base_path_conflict: two deployments that are not retired share a   *)
(* base path only when one of them was retired before (and revived since).  *)
PathsExclusiveUntilRevived ==
    \A i, j \in DepIds : Clash(file, i, j) => i \in file.retired \/ j \in file.retired

(* ghcr_webhook.rs: a delivery is recorded as processed only with the       *)
(* deployment it announces.                                                 *)
DeliveredMeansCreated == \A d \in file.deliveries : Exists(file, HookId[d])

=============================================================================
