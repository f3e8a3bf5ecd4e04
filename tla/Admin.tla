-------------------------------- MODULE Admin -------------------------------
(***************************************************************************)
(* Admin requests to a process that serves: each passes the observers and  *)
(* the hooks of extensions, changes the runtime snapshot under its lock,   *)
(* and passes the hooks again.  A process loads its first configuration    *)
(* before any request comes, and loses everything when it ends (Node).     *)
(***************************************************************************)
EXTENDS RuntimeSnapshot

CONSTANTS
    Configs,    \* runtime-config documents there may be
    AdminOps,   \* admin requests
    Conns,      \* connections with an admin request
    MaxAdmin    \* bound: admin requests to one process

Bindings == [closed : BOOLEAN, loaded : BOOLEAN]
RevNos   == Nat \ {0}

(* What serde accepts of a document and of a request.                       *)
ASSUME AdminAssumption ==
    /\ MaxAdmin \in Nat
    /\ \A c \in Configs :
          /\ c.blocks \in Seq([dep : Deps, bundle : Bundles, id : RevNos, w : Nat])
          /\ c.surfaces \in Seq([id : Surfaces, path : Paths])
          /\ c.hooks \in [pre : Seq(Bindings), post : Seq(Bindings), obs : Seq(Bindings)]
    /\ \A op \in AdminOps :
          /\ op.k \in {"stage", "warm", "traffic", "drain", "deactivate"} => op.d \in Deps
          /\ op.k = "stage"   => op.bundle \in Bundles /\ op.r \in RevNos
          /\ op.k = "traffic" => op.entries \in Seq([id : RevNos, w : Nat])
          /\ op.k = "surface" => op.s \in Surfaces /\ op.path \in Paths \cup {NoPath}
          /\ op.k = "config"  => op.config \in Configs

VARIABLES
    snap,       \* the runtime snapshot
    hooks,      \* the bindings BoundControlHook and BoundObserverHook hold
    req,        \* connection -> an admin request
    out,        \* revisions taken out of service since the last configuration
    admins      \* requests to this process so far

adminVars == <<snap, hooks, req, out, admins>>

NoHooks == [pre |-> << >>, post |-> << >>, obs |-> << >>]
IdleReq == [stage |-> "idle"]

AdminInit ==
    /\ snap = EmptySnap /\ hooks = NoHooks /\ req = [q \in Conns |-> IdleReq]
    /\ out = {} /\ admins = 0

(* load_initial_runtime_config: with no document the snapshot is empty.     *)
FirstConfig(present, config) ==
    IF present THEN ApplyConfig(EmptySnap, config) ELSE Changed(EmptySnap)

(* bind_runtime_extensions: the hooks are those of the first configuration  *)
(* for the life of the process.                                             *)
Load(present, config) ==
    /\ admins = 0
    /\ snap' = FirstConfig(present, config).snap
    /\ hooks' = IF present THEN config.hooks ELSE NoHooks
    /\ UNCHANGED <<req, out, admins>>

(* The process ends.                                                        *)
Unload ==
    /\ snap' = EmptySnap /\ hooks' = NoHooks /\ req' = [q \in Conns |-> IdleReq]
    /\ out' = {} /\ admins' = 0

-----------------------------------------------------------------------------
(* What must stop a request: a denial, or a failure of an extension that    *)
(* is bound to fail closed.                                                 *)
MustStop(bindings, o) ==
    \E i \in DOMAIN bindings : o[i] = "deny" \/ (o[i] = "error" /\ bindings[i].closed)

(* Slip: an error of an extension never stops a request.                    *)
StopsOnDeny(binding, outcome) == outcome = "deny"

Stops(binding, outcome) == outcome = "deny" \/ (outcome = "error" /\ binding.closed)

(* What an adapter may answer; one that is not loaded is an error.          *)
Outcomes(bindings) ==
    {o \in [DOMAIN bindings -> {"allow", "patch", "deny", "error"}] :
        \A i \in DOMAIN bindings : bindings[i].loaded \/ o[i] = "error"}

(* BoundControlHook::run: the bindings in order until one stops the         *)
(* request; the patches of the others are merged.                           *)
RunHooks(bindings, o) ==
    LET stop == {i \in DOMAIN bindings : Stops(bindings[i], o[i])}
    IN  IF stop # {} THEN o[CHOOSE i \in stop : \A j \in stop : i <= j]
        ELSE IF \E i \in DOMAIN bindings : o[i] = "patch" THEN "patch" ELSE "allow"

(* BoundObserverHook::notify                                                *)
Observed(bindings, o) == \A i \in DOMAIN bindings : o[i] # "error" \/ ~bindings[i].closed

(* handle_generic_admin_request_inner; 400 stands for 404 and 501 too.      *)
ApplyOp(n, op) ==
    CASE op.k = "stage"      -> Stage(n, op.d, op.bundle, op.r)
      [] op.k = "config"     -> ApplyConfig(n, op.config)
      [] op.k = "surface"    -> RegisterSurface(n, op.s, op.path)
      [] op.k = "warm"       -> Warm(n, op.d)
      [] op.k = "traffic"    -> SetTraffic(n, op.d, op.entries)
      [] op.k = "drain"      -> Drain(n, op.d, op.r)
      [] op.k = "deactivate" -> Deactivate(n, op.d)
      [] op.k = "malformed"  -> Refused(n)
      [] op.k = "mount"      -> IF \E s \in Surfaces : n.surf[s] = op.path THEN Changed(n) ELSE Refused(n)
      [] OTHER               -> Changed(n)

(* Revisions a request takes out of service, and puts back by configuration.*)
OutAfter(n, op) ==
    CASE op.k = "drain"      -> out \cup {<<op.d, op.r>>}
      [] op.k = "deactivate" ->
            out \cup {<<op.d, n.deps[op.d].revs[i].id>> :
                        i \in {j \in DOMAIN n.deps[op.d].revs : n.deps[op.d].revs[j].life = "ready"}}
      [] op.k = "config"     -> {}
      [] OTHER               -> out

Served == [k |-> "served"]   \* the request is not needed any more

Done(q, status) == req' = [req EXCEPT ![q] = [@ EXCEPT !.stage = "done", !.status = status]]

(* handle_generic_admin_request: the observer first.                        *)
Arrive(q, op) ==
    /\ req[q] = IdleReq /\ admins < MaxAdmin
    /\ admins' = admins + 1
    /\ \E o \in Outcomes(hooks.obs) :
          req' = [req EXCEPT ![q] =
                    [stage |-> IF Observed(hooks.obs, o) THEN "pre" ELSE "done",
                     op |-> op, stopped |-> FALSE, applied |-> FALSE, status |-> 500]]
    /\ UNCHANGED <<snap, hooks, out>>

(* pre_admin: a patch puts another body in place of the one that came.      *)
PreAdmin(q) ==
    /\ req[q].stage = "pre"
    /\ \E o \in Outcomes(hooks.pre) :
          LET seen == [req EXCEPT ![q].stopped = MustStop(hooks.pre, o)]
              d    == RunHooks(hooks.pre, o)
          IN  CASE d = "allow" -> req' = [seen EXCEPT ![q].stage = "apply"]
                [] d = "patch" -> \E op \in {a \in AdminOps : a.k = req[q].op.k} :
                                     req' = [seen EXCEPT ![q].stage = "apply", ![q].op = op]
                [] OTHER       -> req' = [seen EXCEPT ![q].stage = "done", ![q].status = 403]
    /\ UNCHANGED <<snap, hooks, out, admins>>

(* One lock: the request changes the snapshot, or is refused.               *)
ApplyAdmin(q) ==
    /\ req[q].stage = "apply"
    /\ LET r == ApplyOp(snap, req[q].op)
       IN  /\ snap' = r.snap
           /\ out' = IF r.ok THEN OutAfter(snap, req[q].op) ELSE out
           /\ req' = [req EXCEPT ![q].stage = "post", ![q].op = Served, ![q].applied = r.ok,
                                 ![q].status = IF r.ok THEN 200 ELSE 400]
    /\ UNCHANGED <<hooks, admins>>

(* post_admin, which sees the answer and can only change that.              *)
PostAdmin(q) ==
    /\ req[q].stage = "post"
    /\ \E o \in Outcomes(hooks.post) :
          LET d == RunHooks(hooks.post, o)
          IN  req' = [req EXCEPT ![q].stage = IF d = "error" THEN "done" ELSE "observe",
                                 ![q].status = IF d \in {"error", "deny"} THEN 403 ELSE @]
    /\ UNCHANGED <<snap, hooks, out, admins>>

(* The terminal event: its failure is the answer.                           *)
ObserveAdmin(q) ==
    /\ req[q].stage = "observe"
    /\ \E o \in Outcomes(hooks.obs) :
          Done(q, IF Observed(hooks.obs, o) THEN req[q].status ELSE 500)
    /\ UNCHANGED <<snap, hooks, out, admins>>

Reply(q) ==
    /\ req[q].stage = "done"
    /\ req' = [req EXCEPT ![q] = IdleReq]
    /\ UNCHANGED <<snap, hooks, out, admins>>

-----------------------------------------------------------------------------
Admin(q) == \/ \E op \in AdminOps : Arrive(q, op)
            \/ PreAdmin(q) \/ ApplyAdmin(q) \/ PostAdmin(q) \/ ObserveAdmin(q) \/ Reply(q)

AdminNext ==
    \/ \E present \in BOOLEAN, config \in Configs : Load(present, config)
    \/ Unload
    \/ \E q \in Conns : Admin(q)

AdminSpec == AdminInit /\ [][AdminNext]_adminVars

-----------------------------------------------------------------------------
(* The requests of a full round of the selector are shared out by weight:   *)
(* every selectable revision gets as many as its weight, a revision that is *)
(* not selectable none, and one is always found when there is any           *)
(* (select_revision, set_traffic, apply_runtime_config); no two surfaces    *)
(* share a path and no two revisions an id.                                 *)
SnapshotSound ==
    \A d \in Deps :
       LET revs  == snap.deps[d].revs
           total == Sums(Shares(revs))[Len(revs)]
           Got(r) == Cardinality({s \in 0..(total - 1) : SelectRevision(snap, d, s) = r.id})
       IN  /\ NoRepeat(revs) /\ SumOf(revs) <= Full
           /\ \A i \in DOMAIN revs :
                 Got(revs[i]) = IF revs[i].life = "ready" THEN revs[i].w ELSE 0
           /\ \A s, t \in Surfaces : snap.surf[s] = snap.surf[t] => s = t \/ snap.surf[s] = NoPath

(* A revision that was drained, or was ready when its deployment was        *)
(* deactivated, gets no request again until a runtime configuration is      *)
(* applied, whatever is staged, warmed or given traffic meanwhile by        *)
(* operators who read an older listing (drain, deactivate, set_traffic).    *)
DrainedStaysOut ==
    \A x \in out : \A s \in 0..(Full - 1) : SelectRevision(snap, x[1], s) # x[2]

(* What an operator is told: 200 means the request was carried out, 400     *)
(* that it was not, and a request an extension had to stop beforehand was   *)
(* refused without effect.  403 or 500 for a request that was carried out   *)
(* comes only from an extension that runs afterwards                        *)
(* (handle_generic_admin_request, BoundControlHook::run).                   *)
AdminTruth ==
    \A q \in Conns : req[q].stage = "done" =>
       LET r == req[q]
       IN  /\ r.status = 200 => r.applied
           /\ r.status = 400 => ~r.applied
           /\ r.stopped => ~r.applied /\ r.status = 403
           /\ r.status \in {403, 500} /\ r.applied =>
                 hooks.post # << >> \/ \E i \in DOMAIN hooks.obs : hooks.obs[i].closed

=============================================================================
