------------------------------- MODULE Invoke -------------------------------
(***************************************************************************)
(* SorxRuntime::invoke (runtime.rs) for the record operations: the calls   *)
(* of several request threads go through the gates, the policy, the        *)
(* provider, the event sink and the audit sink, step by step, on a shared  *)
(* canonical store whose operations are atomic (PgStore).                  *)
(*                                                                         *)
(* The audit sink, the observers and the control hooks are trait objects:  *)
(* any of them may fail.  A crash ends every running call and the sink's   *)
(* queue; the store survives it.                                           *)
(***************************************************************************)
EXTENDS KvOps, EventSink

CONSTANTS
    Calls,      \* invocations; a client's retry is another call
    Targets,    \* ids that updates, deletes and reads name
    FailOpen,   \* observer_fail_open
    MaxCrashes  \* bound: process crashes

ASSUME InvokeAssumption ==
    Targets \subseteq Ids /\ FailOpen \in BOOLEAN /\ MaxCrashes \in Nat

VARIABLES
    db,       \* the canonical store
    pc,       \* where each call is
    req,      \* its request, after the patches of pre_call
    res,      \* the EndpointResult it is going to return; "unknown" for the
              \* provider error that says the COMMIT may have been applied
    ans,      \* what its caller got
    trail,    \* the audit events it emitted, in order
    commits,  \* history: record changes, with the call that made them
    handed,   \* history: envelopes that publish_business_event was called for
    crashes

vars == <<db, pc, req, res, ans, trail, commits, handed, crashes, sinkVars>>

Requests ==
    [kind : {"create"},
     op : [id : {NoId}, data : Data, key : Keys \cup {NoKey}, named : {Indexes}, ret : {0}]]
    \cup [kind : {"update"}, op : [id : Targets, patch : Data, named : {Indexes}]]
    \cup [kind : {"delete", "get"}, op : [id : Targets]]

NoRequest == [kind |-> "none"]

Executed == {"created", "ok", "not_found", "deleted"}   \* EndpointStatus of a provider result
Results  == [status : Executed \cup {"none", "denied", "approval_required", "unknown"},
             rec : Record \cup {NoRecord}]
NoResult == [status |-> "none", rec |-> NoRecord]
Answers  == Executed \cup {"none", "denied", "approval_required", "error", "lost"}

(* "sorx.endpoint.invoked", "...failed"; "...completed" by its decision     *)
(* ("denied", "approval_required", "executed"); "sorx.policy.decided" and   *)
(* "sorx.approval.requested" by theirs; "sorx.provider.operation.*".        *)
AuditEvents ==
    {"invoked", "failed", "denied", "approval_required", "executed",
     "policy_execute", "policy_approval", "policy_deny",
     "approval_approved", "approval_denied", "approval_pending",
     "op_started", "op_completed", "publish_failed"}

Places ==
    {"idle", "gates", "refused", "pre_call", "pre_denied", "policy", "approval", "closing",
     "start", "operate", "publish", "complete", "failing", "post_call", "finish", "done"}

(* An envelope: the record's id and version, version 0 for a deletion.      *)
Envelopes == [call : Calls, what : {"create", "update", "delete"}, id : Ids, ver : Nat]

TypeOK ==
    /\ db \in Keyspace
    /\ pc \in [Calls -> Places]
    /\ req \in [Calls -> Requests \cup {NoRequest}]
    /\ res \in [Calls -> Results]
    /\ ans \in [Calls -> Answers]
    /\ trail \in [Calls -> Seq(AuditEvents)]
    /\ commits \subseteq Envelopes
    /\ handed \subseteq Envelopes
    /\ crashes \in 0 .. MaxCrashes
    /\ queue \in Seq(Envelopes) /\ Len(queue) <= Capacity
    /\ publisher \in Publishers
    /\ delivered \in Seq(Envelopes)

Init ==
    /\ db = EmptyKeyspace
    /\ pc = [c \in Calls |-> "idle"]
    /\ req = [c \in Calls |-> NoRequest]
    /\ res = [c \in Calls |-> NoResult]
    /\ ans = [c \in Calls |-> "none"]
    /\ trail = [c \in Calls |-> << >>]
    /\ commits = {}
    /\ handed = {}
    /\ crashes = 0
    /\ SinkInit

-----------------------------------------------------------------------------
storeVars == <<db, commits, handed, crashes, sinkVars>>

(* A `?` outside the provider closure: the error is the answer.             *)
Abort(c) ==
    /\ pc' = [pc EXCEPT ![c] = "done"]
    /\ ans' = [ans EXCEPT ![c] = "error"]
    /\ UNCHANGED <<trail, res>>

(* self.audit(...)? : emit `e` and go on to `next` with answer `a`, or fail *)
(* as Abort does.                                                           *)
Emit(c, e, next, a) ==
    \/ /\ trail' = [trail EXCEPT ![c] = Append(@, e)]
       /\ pc' = [pc EXCEPT ![c] = next]
       /\ ans' = [ans EXCEPT ![c] = a]
       /\ UNCHANGED res
    \/ Abort(c)

(* self.observe(...)? : only an observer that fails closed ends the call.   *)
ObserverBlocks(c) == ~FailOpen /\ Abort(c)

(* The status is settled without a provider result.                         *)
Settle(c, status, next) ==
    /\ res' = [res EXCEPT ![c].status = status]
    /\ pc' = [pc EXCEPT ![c] = next]
    /\ UNCHANGED <<ans, trail>>

Receive(c) ==
    /\ pc[c] = "idle"
    /\ req' \in {[req EXCEPT ![c] = r] : r \in Requests}
    /\ Emit(c, "invoked", "gates", "none")
    /\ UNCHANGED storeVars

(* Roles or policies of the endpoint or of its record deny the caller.      *)
AuthorizationDenial(c) == Settle(c, "denied", "closing")

(* operation_mismatch, view_read_only and validate_input refuse the call;   *)
(* authorization_denial denies it.                                          *)
Gates(c) ==
    /\ pc[c] = "gates"
    /\ \/ pc' = [pc EXCEPT ![c] = "refused"] /\ UNCHANGED <<res, ans, trail>>
       \/ AuthorizationDenial(c)
       \/ pc' = [pc EXCEPT ![c] = "pre_call"] /\ UNCHANGED <<res, ans, trail>>
    /\ UNCHANGED <<req, storeVars>>

Refused(c) ==
    /\ pc[c] = "refused"
    /\ Emit(c, "failed", "done", "error")
    /\ UNCHANGED <<req, storeVars>>

(* A patch of pre_call rewrites the input: neither the operation nor the    *)
(* idempotency key is part of it.                                           *)
SameCall(r, q) ==
    /\ r.kind = q.kind
    /\ q.kind = "create" => r.op.key = q.op.key

(* observe started, then the pre_call hook: an error, a denial, or leave    *)
(* with the input patched or as it was.                                     *)
PreCall(c) ==
    /\ pc[c] = "pre_call"
    /\ \/ (ObserverBlocks(c) \/ Abort(c)) /\ UNCHANGED req
       \/ Settle(c, "denied", "pre_denied") /\ UNCHANGED req
       \/ /\ \E r \in {q \in Requests : SameCall(q, req[c])} : req' = [req EXCEPT ![c] = r]
          /\ pc' = [pc EXCEPT ![c] = "policy"]
          /\ UNCHANGED <<res, ans, trail>>
    /\ UNCHANGED storeVars

PreDenied(c) ==
    /\ pc[c] = "pre_denied"
    /\ ObserverBlocks(c) \/ Emit(c, "denied", "done", "denied")
    /\ UNCHANGED <<req, storeVars>>

(* PolicyEngine::decide: the mode of the endpoint's risk, and whether its   *)
(* metadata asks for approval.                                              *)
PolicyDecision(mode, required) ==
    CASE mode = "deny" -> "policy_deny"
      [] mode = "require_approval" \/ required -> "policy_approval"
      [] OTHER -> "policy_execute"

AfterPolicy == [policy_execute |-> "start", policy_approval |-> "approval", policy_deny |-> "closing"]

Policy(c) ==
    /\ pc[c] = "policy"
    /\ \E mode \in {"auto", "require_approval", "deny"}, required \in BOOLEAN :
        LET d == PolicyDecision(mode, required)
        IN  \/ /\ trail' = [trail EXCEPT ![c] = Append(@, d)]
               /\ pc' = [pc EXCEPT ![c] = AfterPolicy[d]]
               /\ res' = IF d = "policy_deny" THEN [res EXCEPT ![c].status = "denied"] ELSE res
               /\ UNCHANGED ans
            \/ Abort(c)
    /\ UNCHANGED <<req, storeVars>>

(* What the broker's status leads to: the next place and the result.        *)
AfterApproval ==
    [approval_approved |-> <<"start", "none">>,
     approval_denied   |-> <<"closing", "denied">>,
     approval_pending  |-> <<"closing", "approval_required">>]

(* The broker decides, or fails; its decision is audited.                   *)
Approval(c) ==
    /\ pc[c] = "approval"
    /\ \/ Abort(c)
       \/ \E d \in DOMAIN AfterApproval :
            /\ trail' = [trail EXCEPT ![c] = Append(@, d)]
            /\ pc' = [pc EXCEPT ![c] = AfterApproval[d][1]]
            /\ res' = [res EXCEPT ![c].status = AfterApproval[d][2]]
            /\ UNCHANGED ans
    /\ UNCHANGED <<req, storeVars>>

Closing(c) ==
    /\ pc[c] = "closing"
    /\ Emit(c, res[c].status, "done", res[c].status)
    /\ UNCHANGED <<req, storeVars>>

-----------------------------------------------------------------------------
(* The provider closure: an error in it goes to "failing", not to the       *)
(* caller at once.                                                          *)
FailTo(c) ==
    /\ pc' = [pc EXCEPT ![c] = "failing"]
    /\ UNCHANGED <<res, ans, trail>>

(* Slip: the result of the audit before the operation is ignored.           *)
StartUnaudited(c) ==
    /\ pc[c] = "start"
    /\ \/ trail' = [trail EXCEPT ![c] = Append(@, "op_started")]
       \/ UNCHANGED trail
    /\ pc' = [pc EXCEPT ![c] = "operate"]
    /\ UNCHANGED <<req, res, ans, storeVars>>

(* The binding and the provider are resolved, and the start is audited.     *)
Start(c) ==
    /\ pc[c] = "start"
    /\ \/ FailTo(c)
       \/ /\ trail' = [trail EXCEPT ![c] = Append(@, "op_started")]
          /\ pc' = [pc EXCEPT ![c] = "operate"]
          /\ UNCHANGED <<res, ans>>
    /\ UNCHANGED <<req, storeVars>>

(* Slip: the idempotency key is not passed to the store.                    *)
PerformUnkeyed(r) ==
    CASE r.kind = "create" -> Create(db, [r.op EXCEPT !.key = NoKey])
      [] r.kind = "update" -> Update(db, r.op)
      [] r.kind = "delete" -> Delete(db, r.op.id)
      [] r.kind = "get"    -> [res |-> [code |-> "ok"], db |-> db]

(* The one provider call of each operation.                                 *)
Perform(r) ==
    CASE r.kind = "create" -> Create(db, r.op)
      [] r.kind = "update" -> Update(db, r.op)
      [] r.kind = "delete" -> Delete(db, r.op.id)
      [] r.kind = "get"    -> [res |-> [code |-> "ok"], db |-> db]

(* EndpointResult of a provider answer.                                     *)
ResultOf(r, p) ==
    CASE r.kind = "create" -> [status |-> "created", rec |-> p.rec]
      [] r.kind = "update" -> [status |-> "ok", rec |-> p.rec]
      [] r.kind = "delete" -> [status |-> IF p.deleted THEN "deleted" ELSE "not_found", rec |-> NoRecord]
      [] r.kind = "get"    -> [status |-> IF Live(db, r.op.id) THEN "ok" ELSE "not_found",
                               rec |-> NoRecord]

(* The envelope of a result: publish_entity_event's arguments.              *)
Envelope(c, r, result) ==
    [call |-> c, what |-> r.kind,
     id   |-> IF r.kind = "delete" THEN r.op.id ELSE result.rec.id,
     ver  |-> result.rec.ver]

(* A record operation that is announced: every create, a replayed one too,  *)
(* every update, and a delete that found its record.                        *)
Announced(r, result) == r.kind \in {"create", "update"} \/ result.status = "deleted"

(* Slip: deletions are not announced.                                       *)
AfterOperateSilent(r, result) ==
    IF Announced(r, result) /\ r.kind # "delete" THEN "publish" ELSE "complete"

AfterOperate(r, result) == IF Announced(r, result) THEN "publish" ELSE "complete"

(* The provider refuses the operation or fails, with nothing written; or it *)
(* is done and answered; or it is done, and the answer to its COMMIT lost   *)
(* (PgStore, CommitLost).                                                   *)
Operate(c) ==
    /\ pc[c] = "operate"
    /\ req[c].kind = "create" => AutoIdInBound(db)
    /\ LET p == Perform(req[c])
           result == ResultOf(req[c], p.res)
       IN  \/ FailTo(c) /\ UNCHANGED <<db, commits>>
           \/ /\ p.res.code = "ok"
              /\ db' = p.db
              /\ commits' = IF p.db.ents = db.ents THEN commits
                            ELSE commits \cup {Envelope(c, req[c], result)}
              /\ \/ /\ res' = [res EXCEPT ![c] = result]
                    /\ pc' = [pc EXCEPT ![c] = AfterOperate(req[c], result)]
                    /\ UNCHANGED <<ans, trail>>
                 \/ Settle(c, "unknown", "failing")
    /\ UNCHANGED <<req, handed, crashes, sinkVars>>

(* publish_business_event: an envelope that cannot be built is logged and   *)
(* audited, and the result of that audit is ignored.                        *)
PublishEvent(c) ==
    /\ pc[c] = "publish"
    /\ LET e == Envelope(c, req[c], res[c])
       IN  /\ handed' = handed \cup {e}
           /\ \/ Publish(e) /\ UNCHANGED trail
              \/ /\ trail' \in {trail, [trail EXCEPT ![c] = Append(@, "publish_failed")]}
                 /\ UNCHANGED sinkVars
    /\ pc' = [pc EXCEPT ![c] = "complete"]
    /\ UNCHANGED <<db, req, res, ans, commits, crashes>>

(* Slip: the result of the audit after the operation is ignored.            *)
CompleteUnaudited(c) ==
    /\ pc[c] = "complete"
    /\ \/ trail' = [trail EXCEPT ![c] = Append(@, "op_completed")]
       \/ UNCHANGED trail
    /\ pc' = [pc EXCEPT ![c] = "post_call"]
    /\ UNCHANGED <<req, res, ans, storeVars>>

(* The end of the operation is audited; if that fails the operation, which  *)
(* is done, counts as failed.                                               *)
Complete(c) ==
    /\ pc[c] = "complete"
    /\ \/ FailTo(c)
       \/ /\ trail' = [trail EXCEPT ![c] = Append(@, "op_completed")]
          /\ pc' = [pc EXCEPT ![c] = "post_call"]
          /\ UNCHANGED <<res, ans>>
    /\ UNCHANGED <<req, storeVars>>

(* observe failed, audit failed, and the provider's error is the answer.    *)
Failing(c) ==
    /\ pc[c] = "failing"
    /\ ObserverBlocks(c) \/ Emit(c, "failed", "done", "error")
    /\ UNCHANGED <<req, storeVars>>

(* The post_call hook: an error ends the call; a denial replaces the        *)
(* result, and only the result: the operation stays done.                   *)
PostCall(c) ==
    /\ pc[c] = "post_call"
    /\ \/ Abort(c)
       \/ pc' = [pc EXCEPT ![c] = "finish"] /\ UNCHANGED <<res, ans, trail>>
       \/ Settle(c, "denied", "finish")
    /\ UNCHANGED <<req, storeVars>>

(* Slip: a denial by post_call is audited as one.                           *)
FinishSaysDenied(c) ==
    /\ pc[c] = "finish"
    /\ Emit(c, IF res[c].status = "denied" THEN "denied" ELSE "executed", "done", res[c].status)
    /\ UNCHANGED <<req, storeVars>>

(* observe completed or denied; the audit says "executed" either way.       *)
Finish(c) ==
    /\ pc[c] = "finish"
    /\ ObserverBlocks(c) \/ Emit(c, "executed", "done", res[c].status)
    /\ UNCHANGED <<req, storeVars>>

(* The process dies: every running call is lost, and the sink's queue.      *)
Crash ==
    /\ crashes < MaxCrashes
    /\ crashes' = crashes + 1
    /\ LET running == {c \in Calls : pc[c] \notin {"idle", "done"}}
       IN  /\ pc'  = [c \in Calls |-> IF c \in running THEN "done" ELSE pc[c]]
           /\ ans' = [c \in Calls |-> IF c \in running THEN "lost" ELSE ans[c]]
    /\ SinkRestart
    /\ UNCHANGED <<db, req, res, trail, commits, handed>>

Call(c) ==
    \/ Receive(c) \/ Gates(c) \/ Refused(c) \/ PreCall(c) \/ PreDenied(c)
    \/ Policy(c) \/ Approval(c) \/ Closing(c)
    \/ Start(c) \/ Operate(c) \/ PublishEvent(c) \/ Complete(c) \/ Failing(c)
    \/ PostCall(c) \/ Finish(c)

Sink == SinkStep /\ UNCHANGED <<db, pc, req, res, ans, trail, commits, handed, crashes>>

Next == (\E c \in Calls : Call(c)) \/ Sink \/ Crash

Spec == Init /\ [][Next]_vars

-----------------------------------------------------------------------------
Wrote(c)      == \E x \in commits : x.call = c
Has(s, e)     == \E i \in DOMAIN s : s[i] = e
InTrail(c, e) == Has(trail[c], e)

(* runtime.rs, invoke: the audit fails closed.  No record is changed before *)
(* the sink has taken the invocation, a decision that allows it and the     *)
(* start of the operation, whatever fails around it.                        *)
AuditedBeforeWrite ==
    \A c \in Calls : Wrote(c) =>
        /\ InTrail(c, "invoked")
        /\ InTrail(c, "policy_execute") \/ InTrail(c, "approval_approved")
        /\ InTrail(c, "op_started")

(* runtime.rs, the early returns of invoke: a call that the audit calls     *)
(* denied or waiting for approval, or that its caller is told so of without *)
(* an "executed" in the audit, has changed nothing and announced nothing.   *)
DenialLeavesNothing ==
    \A c \in Calls :
        \/ InTrail(c, "denied") \/ InTrail(c, "approval_required")
        \/ ans[c] \in {"denied", "approval_required"} /\ ~InTrail(c, "executed")
        => ~Wrote(c) /\ \A e \in handed : e.call # c

GrantedTrails ==
    {<<"invoked">> \o g \o <<"op_started">> \o p \o <<"op_completed", "executed">> :
        g \in {<<"policy_execute">>, <<"policy_approval", "approval_approved">>},
        p \in {<< >>, <<"publish_failed">>}}

DeniedTrails ==
    {<<"invoked", "denied">>, <<"invoked", "policy_deny", "denied">>,
     <<"invoked", "policy_approval", "approval_denied", "denied">>,
     <<"invoked", "policy_approval", "approval_pending", "approval_required">>}

(* runtime.rs, invoke (docs/observability.md, the event sequence): a caller *)
(* who gets a result can be told from the audit alone: the documented       *)
(* sequence when the provider ran, a denial's sequence when it did not.     *)
DocumentedTrail ==
    \A c \in Calls :
        /\ ans[c] \in Executed => trail[c] \in GrantedTrails
        /\ ans[c] = "denied" => trail[c] \in GrantedTrails \cup DeniedTrails
        /\ ans[c] = "approval_required" => trail[c] \in DeniedTrails

(* runtime.rs, publish_entity_event: the event comes before the audits and  *)
(* hooks that may still fail the call, so a call that changed a record and  *)
(* was answered at all, with an error too, has announced it, unless the     *)
(* store itself could not tell; and so has every create answered with a     *)
(* record, a replay included.                                               *)
WriteAnnounced ==
    \A c \in Calls :
        /\ ans[c] \in Answers \ {"none", "lost"}
        /\ (Wrote(c) /\ res[c].status # "unknown") \/ ans[c] = "created"
        => \E e \in handed : e.call = c

(* runtime.rs and nats_events.rs: an event that reaches the broker tells of *)
(* a change the store committed, and at most once per call, whatever        *)
(* crashed or was dropped.                                                  *)
DeliveredTruth ==
    /\ \A i \in DOMAIN delivered : \E x \in commits :
            /\ x.what = delivered[i].what
            /\ x.id = delivered[i].id /\ x.ver = delivered[i].ver
    /\ \A i, j \in DOMAIN delivered :
            i # j => delivered[i].call # delivered[j].call

CreatedUnder(k) ==
    {x.id : x \in {y \in commits : y.what = "create" /\ req[y.call].op.key = k}}

(* runtime.rs, Create with an idempotency key: however often a client       *)
(* sends the key again, after an error, a denial or a crash that hid the    *)
(* first answer, one record is created and every answer names it.           *)
KeyedCreateOnce ==
    \A k \in Keys :
        /\ Cardinality(CreatedUnder(k)) <= 1
        /\ \A c \in Calls :
            ans[c] = "created" /\ req[c].op.key = k => res[c].rec.id \in CreatedUnder(k)

=============================================================================
