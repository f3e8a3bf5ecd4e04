------------------------------ MODULE Registry ------------------------------
(***************************************************************************)
(* The deployment registry of deployment.rs as functions of its value: an  *)
(* operation maps a registry and a request to [ok |-> answered with        *)
(* success, reg |-> the registry after it].  Callers save the registry     *)
(* only after a success, so a refusal leaves it as it was.                 *)
(*                                                                         *)
(* A deployment id is the number of an artifact deployed for a tenant, SOR *)
(* and API label (deployment_id derives it from these and the digest); the *)
(* order of the numbers is the order of the ids.  Entries that share an id *)
(* are kept in a sequence, oldest first, as the stable sort leaves them,   *)
(* and `deployment` and `update_deployment` find the first.                *)
(***************************************************************************)
EXTENDS Integers, Sequences, FiniteSets

CONSTANTS
    DepIds,                    \* deployment ids, numbers
    Scopes, ScopeOf,           \* tenant and SOR name, of each id
    LabelOf, DigestOf,         \* API label and pack digest of each id
    Paths, Spaces,             \* base paths (normalised), state namespaces
    Modes,                     \* state modes that are asked for
    AliasNames,
    NoTarget,                  \* the alias is not set
    Reports,                   \* validation reports that may be recorded
    Deliveries, HookId,        \* webhook deliveries, and what each announces
    HookPath, HookSpace,       \* path and namespace derived for a webhook's deployment
    MaxEntries                 \* bound: entries sharing an id

ASSUME DeploymentAssumption ==
    /\ DepIds \subseteq Nat /\ IsFiniteSet(DepIds) /\ NoTarget \notin DepIds
    /\ ScopeOf \in [DepIds -> Scopes]
    /\ HookId \in [Deliveries -> DepIds]
    /\ HookPath \in [DepIds -> Paths] /\ HookSpace \in [DepIds -> Spaces]
    /\ Modes \subseteq {"isolated", "shared_compatible", "shared_requires_migration"}
    /\ "shared_compatible" \in Modes
    /\ MaxEntries \in Nat

(* Installed, validating, failed and failed_public_promotion are statuses   *)
(* that no operation assigns.                                               *)
Statuses == {"pending", "validated", "active_private", "active_public",
             "retired", "rolled_back"}
Routable == {"validated", "active_private", "active_public"}
Active   == {"active_private", "active_public"}

Entry == [path : Paths, space : Spaces, mode : Modes,
          status : Statuses, vis : {"private", "public"}]

(* Internal visibility is told apart from private by nothing here.  Of the  *)
(* audit trail, the promotions to public are kept: the id, and how many     *)
(* reports it had by then (history, which tells the report that was last).  *)
(* `retired` is history: the ids that were retired at some time.            *)
Registries ==
    [deps       : [DepIds -> Seq(Entry)],
     aliases    : [Scopes -> [AliasNames -> DepIds \cup {NoTarget}]],
     reports    : [DepIds -> Seq(Reports)],
     audits     : SUBSET (DepIds \X Nat),
     deliveries : SUBSET Deliveries,
     retired    : SUBSET DepIds]

EmptyRegistry ==
    [deps       |-> [i \in DepIds |-> << >>],
     aliases    |-> [s \in Scopes |-> [a \in AliasNames |-> NoTarget]],
     reports    |-> [i \in DepIds |-> << >>],
     audits     |-> {},
     deliveries |-> {},
     retired    |-> {}]

Done(reg)    == [ok |-> TRUE, reg |-> reg]
Refused(reg) == [ok |-> FALSE, reg |-> reg]

Exists(reg, i)       == reg.deps[i] # << >>
First(reg, i)        == reg.deps[i][1]
Unretired(reg, i, n) == n \in DOMAIN reg.deps[i] /\ reg.deps[i][n].status # "retired"

-----------------------------------------------------------------------------
CreateRequests ==
    [id : DepIds, path : Paths, space : Spaces, mode : Modes, vis : {"private", "public"},
     prod : BOOLEAN, anyApi : BOOLEAN, anySpace : BOOLEAN]

(* check_api_version_conflict                                               *)
ApiConflict(reg, r) ==
    /\ ~r.anyApi
    /\ \E i \in DepIds : \E n \in DOMAIN reg.deps[i] :
          /\ Unretired(reg, i, n)
          /\ ScopeOf[i] = ScopeOf[r.id] /\ LabelOf[i] = LabelOf[r.id]
          /\ DigestOf[i] # DigestOf[r.id]

(* Slip: only a deployment that is active holds its path.                   *)
PathConflictActive(reg, r) ==
    \E i \in DepIds \ {r.id} : \E n \in DOMAIN reg.deps[i] :
        reg.deps[i][n].status \in Active /\ reg.deps[i][n].path = r.path

(* check_base_path_conflict                                                 *)
PathConflict(reg, r) ==
    \E i \in DepIds \ {r.id} : \E n \in DOMAIN reg.deps[i] :
        Unretired(reg, i, n) /\ reg.deps[i][n].path = r.path

(* check_state_namespace_conflict                                           *)
SpaceConflict(reg, r) ==
    /\ ~r.anySpace /\ r.mode # "shared_compatible"
    /\ \E i \in DepIds \ {r.id} : \E n \in DOMAIN reg.deps[i] :
          /\ Unretired(reg, i, n)
          /\ reg.deps[i][n].space = r.space
          /\ reg.deps[i][n].mode # "shared_compatible"

(* create_deployment, and the refusal of public visibility in its caller.   *)
CreateRefused(reg, r) ==
    \/ r.vis = "public"
    \/ \E n \in DOMAIN reg.deps[r.id] : Unretired(reg, r.id, n)
    \/ r.mode = "isolated" /\ r.prod
    \/ ApiConflict(reg, r) \/ PathConflict(reg, r) \/ SpaceConflict(reg, r)

NewEntry(r) ==
    [path |-> r.path, space |-> r.space, mode |-> r.mode, status |-> "pending", vis |-> r.vis]

CreateDeployment(reg, r) ==
    IF CreateRefused(reg, r) THEN Refused(reg)
    ELSE Done([reg EXCEPT !.deps[r.id] = Append(@, NewEntry(r))])

(* handle_ghcr_published_webhook: a delivery is recorded with the           *)
(* deployment it created, or not at all.  Its other refusals (disabled,     *)
(* unsigned, not allowed, digest mismatch) leave the registry alone.        *)
HookRequest(d) ==
    [id |-> HookId[d], path |-> HookPath[HookId[d]], space |-> HookSpace[HookId[d]],
     mode |-> "shared_compatible", vis |-> "private", prod |-> FALSE,
     anyApi |-> FALSE, anySpace |-> FALSE]

(* Slip: the delivery is recorded although its deployment was refused.      *)
WebhookRecordsFirst(reg, d) ==
    IF d \in reg.deliveries THEN Refused(reg)
    ELSE Done([CreateDeployment(reg, HookRequest(d)).reg EXCEPT !.deliveries = @ \cup {d}])

Webhook(reg, d) ==
    IF d \in reg.deliveries \/ CreateRefused(reg, HookRequest(d)) THEN Refused(reg)
    ELSE Done([CreateDeployment(reg, HookRequest(d)).reg EXCEPT !.deliveries = @ \cup {d}])

-----------------------------------------------------------------------------
(* update_deployment: the first entry of the id.                            *)
UpdateDeployment(reg, i, entry) == [reg EXCEPT !.deps[i] = [@ EXCEPT ![1] = entry]]

UpdateStatus(reg, i, status) ==
    UpdateDeployment(reg, i, [First(reg, i) EXCEPT !.status = status])

ValidateDeployment(reg, i) ==
    IF Exists(reg, i) THEN Done(UpdateStatus(reg, i, "validated")) ELSE Refused(reg)

ActivatePrivate(reg, i) ==
    IF Exists(reg, i) THEN Done(UpdateStatus(reg, i, "active_private")) ELSE Refused(reg)

RecordValidationReport(reg, i, report) ==
    IF Exists(reg, i) THEN Done([reg EXCEPT !.reports[i] = Append(@, report)])
    ELSE Refused(reg)

(* validation_gate, of one report.                                          *)
PrivateOk(i, report) == report.digest = DigestOf[i] /\ report.pass
PublicOk(i, report)  ==
    PrivateOk(i, report) /\ report.exposure /\ (report.ontology \/ report.override)

(* Slip: the first report decides, not the last.                            *)
EarliestReport(reg, i) == reg.reports[i][1]

(* latest_validation_report                                                 *)
Latest(reg, i) == reg.reports[i][Len(reg.reports[i])]

PrivateGate(reg, i) == reg.reports[i] # << >> /\ PrivateOk(i, Latest(reg, i))

PublicGate(reg, i)  == reg.reports[i] # << >> /\ PublicOk(i, Latest(reg, i))

Audited(reg, i) == [reg EXCEPT !.audits = @ \cup {<<i, Len(reg.reports[i])>>}]

(* Neither promotion looks at the status the deployment has.                *)
PromotePrivate(reg, i) ==
    IF Exists(reg, i) /\ PrivateGate(reg, i)
    THEN Done(UpdateStatus(reg, i, "active_private"))
    ELSE Refused(reg)

PromotePublic(reg, i) ==
    IF Exists(reg, i) /\ PublicGate(reg, i)
    THEN LET public == [First(reg, i) EXCEPT !.status = "active_public", !.vis = "public"]
         IN  Done(Audited(UpdateDeployment(reg, i, public), i))
    ELSE Refused(reg)

-----------------------------------------------------------------------------
SetAlias(reg, s, a, i) ==
    IF Exists(reg, i) /\ ScopeOf[i] = s /\ First(reg, i).status \in Routable
    THEN Done([reg EXCEPT !.aliases[s][a] = i])
    ELSE Refused(reg)

PromoteAlias(reg, i, a, public) ==
    LET promoted == IF public THEN PromotePublic(reg, i) ELSE PromotePrivate(reg, i)
        aliased  == SetAlias(promoted.reg, ScopeOf[i], a, i)
    IN  IF promoted.ok /\ aliased.ok
        THEN aliased
        ELSE Refused(reg)

(* rollback_alias: what the alias names now is marked before the alias is   *)
(* moved; other aliases that name it are left alone.                        *)
RollbackAlias(reg, s, a, to) ==
    LET old    == reg.aliases[s][a]
        marked == IF old \notin {NoTarget, to} THEN UpdateStatus(reg, old, "rolled_back") ELSE reg
        moved  == SetAlias(marked, s, a, to)
    IN  IF Exists(reg, to) /\ ScopeOf[to] = s /\ moved.ok
        THEN moved
        ELSE Refused(reg)

RetiredEntries(reg, i) == [reg.deps[i] EXCEPT ![1] = [First(reg, i) EXCEPT !.status = "retired"]]

(* Slip: the aliases of a retired deployment stay.                          *)
RetireAllKeepAliases(reg, ids) ==
    [reg EXCEPT !.deps = [i \in DepIds |-> IF i \in ids THEN RetiredEntries(reg, i) ELSE @[i]],
                !.retired = @ \cup ids]

(* retire, of every id in `ids`: aliases that name them are dropped.        *)
RetireAll(reg, ids) ==
    [reg EXCEPT !.deps = [i \in DepIds |-> IF i \in ids THEN RetiredEntries(reg, i) ELSE @[i]],
                !.aliases = [s \in Scopes |-> [a \in AliasNames |->
                                IF @[s][a] \in ids THEN NoTarget ELSE @[s][a]]],
                !.retired = @ \cup ids]

Retire(reg, i) == IF Exists(reg, i) THEN Done(RetireAll(reg, {i})) ELSE Refused(reg)

(* retire_old: of the scope's active deployments, all but the `keep` with   *)
(* the largest ids.  Only a first entry is ever active.                     *)
ActiveIds(reg, s) ==
    {i \in DepIds : ScopeOf[i] = s /\ Exists(reg, i) /\ First(reg, i).status \in Active}

RetireOld(reg, s, keep) ==
    Done(RetireAll(reg, {i \in ActiveIds(reg, s) :
                            Cardinality({j \in ActiveIds(reg, s) : j > i}) >= keep}))

-----------------------------------------------------------------------------
(* What is true of a registry that the operations have made.                *)

(* A public deployment was promoted, with an audit event, and each such     *)
(* promotion on the report that was then the deployment's latest.           *)
Gated(reg) ==
    /\ \A i \in DepIds : \A n \in DOMAIN reg.deps[i] :
          (reg.deps[i][n].status = "active_public" \/ reg.deps[i][n].vis = "public") =>
              \E promoted \in reg.audits : promoted[1] = i
    /\ \A promoted \in reg.audits :
          LET i == promoted[1]
              k == promoted[2]
          IN  k \in DOMAIN reg.reports[i] /\ PublicOk(i, reg.reports[i][k])

(* resolve_alias finds a deployment of the scope that was made routable.    *)
Resolves(reg) ==
    \A s \in Scopes, a \in AliasNames :
        LET i == reg.aliases[s][a]
        IN  i # NoTarget =>
              /\ Exists(reg, i) /\ ScopeOf[i] = s
              /\ First(reg, i).status \in Routable \cup {"rolled_back"}

(* The pairs of deployments, neither retired, that share a base path.       *)
Clash(reg, i, j) ==
    \E n \in DOMAIN reg.deps[i], m \in DOMAIN reg.deps[j] :
        /\ i # j /\ Unretired(reg, i, n) /\ Unretired(reg, j, m)
        /\ reg.deps[i][n].path = reg.deps[j][m].path

=============================================================================
