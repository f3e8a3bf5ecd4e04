---------------------------- MODULE InvokeProofs ----------------------------
(***************************************************************************)
(* What invoke promises, for any number of calls, any requests, any        *)
(* capacity of the event channel and any failures.                         *)
(*                                                                         *)
(* No call writes unaudited or under a denial: the audit trail is tied to  *)
(* the place a call has reached (IInv); the store plays no part in that.   *)
(* The rest needs what the store answers (KvOpsProofs): the exact trail at *)
(* every place (Story), what a call that has operated has announced        *)
(* (Announcing), what the channel and the broker hold (SinkInv) and what   *)
(* is stored under an idempotency key (Answering, KeyInv).                 *)
(***************************************************************************)
EXTENDS Invoke, KvOpsProofs, SequenceTheorems

Inside   == Places \ {"idle", "done"}
Granted  == {"start", "operate", "publish", "complete", "failing", "post_call", "finish"}
Started  == {"operate", "publish", "complete", "post_call", "finish"}
Effects  == {"publish", "complete", "failing", "post_call", "finish", "done"}

HandedBy(c) == \E e \in handed : e.call = c
Allowed(c)  == InTrail(c, "policy_execute") \/ InTrail(c, "approval_approved")
Rejected(c) == InTrail(c, "denied") \/ InTrail(c, "approval_required")

Shape ==
    /\ pc \in [Calls -> Places]
    /\ ans = [c \in Calls |-> ans[c]]
    /\ DOMAIN res = Calls
    /\ trail \in [Calls -> Seq(AuditEvents)]
    /\ \A c \in Calls : pc[c] = "closing" => res[c].status \in {"denied", "approval_required"}

(* What the trail holds at each place, and where effects are possible.      *)
Progress(c) ==
    /\ pc[c] \in Inside => InTrail(c, "invoked")
    /\ pc[c] \in Granted => Allowed(c)
    /\ pc[c] \in Started => InTrail(c, "op_started")
    /\ Wrote(c) \/ HandedBy(c) =>
        /\ pc[c] \in Effects
        /\ InTrail(c, "invoked") /\ Allowed(c) /\ InTrail(c, "op_started")
    /\ pc[c] # "done" => ~Rejected(c) /\ ans[c] = "none"
    /\ Rejected(c) => ~Wrote(c) /\ ~HandedBy(c)
    /\ ans[c] \in {"denied", "approval_required"} /\ ~InTrail(c, "executed")
        => ~Wrote(c) /\ ~HandedBy(c)

IInv == Shape /\ \A c \in Calls : Progress(c)

(* The moves that keep Progress: without an event, and with event e and     *)
(* answer a.                                                                *)
MoveOk(from, to) ==
    /\ from \in Inside /\ to \in Inside
    /\ to \in Granted => from \in Granted
    /\ to \in Started => from \in Started
    /\ from \in Effects => to \in Effects

EmitOk(from, e, to, a) ==
    /\ e \in AuditEvents /\ to \in Places
    /\ from # "done"
    /\ from \in Inside \/ e = "invoked"
    /\ from \in Effects => to \in Effects
    /\ to \in Granted => from \in Granted \/ e \in {"policy_execute", "approval_approved"}
    /\ to \in Started => from \in Started \/ e = "op_started"
    /\ to # "done" => a = "none" /\ e \notin {"denied", "approval_required"}
    /\ e \in {"denied", "approval_required"} => from \notin Effects
    /\ a \in {"denied", "approval_required"} => e = "executed" \/ from \notin Effects

-----------------------------------------------------------------------------
(* An appended event joins the trail; the earlier ones stay.                *)
LEMMA HasAppend ==
    ASSUME NEW S, NEW s \in Seq(S), NEW e \in S
    PROVE  /\ Append(s, e) \in Seq(S)
           /\ \A x : Has(Append(s, e), x) <=> Has(s, x) \/ x = e
<1>1. Append(s, e) \in Seq(S)
  OBVIOUS
<1>2. /\ DOMAIN s = 1 .. Len(s)
      /\ DOMAIN Append(s, e) = 1 .. Len(s) + 1
      /\ Len(s) \in Nat
      /\ \A i \in 1 .. Len(s) : Append(s, e)[i] = s[i]
      /\ Append(s, e)[Len(s) + 1] = e
  OBVIOUS
<1>3. ASSUME NEW x PROVE Has(Append(s, e), x) <=> Has(s, x) \/ x = e
  BY <1>2 DEF Has
<1> QED BY <1>1, <1>3

(* A step that moves one call and adds no effect of another one preserves   *)
(* the invariant if it does so for that call.                               *)
LEMMA Local ==
    ASSUME IInv, NEW c \in Calls, Shape', Progress(c)',
           \A d \in Calls \ {c} :
               /\ pc'[d] = pc[d] /\ ans'[d] = ans[d] /\ trail'[d] = trail[d]
               /\ Wrote(d)' => Wrote(d)
               /\ HandedBy(d)' => HandedBy(d)
    PROVE  IInv'
<1>1. ASSUME NEW d \in Calls \ {c} PROVE Progress(d)'
  BY <1>1 DEF IInv, Progress, InTrail, Allowed, Rejected
<1> QED BY <1>1 DEF IInv

(* The same for a step without effects.                                     *)
LEMMA Quiet ==
    ASSUME IInv, NEW c \in Calls, Shape', Progress(c)',
           UNCHANGED <<commits, handed>>,
           \A d \in Calls \ {c} :
               pc'[d] = pc[d] /\ ans'[d] = ans[d] /\ trail'[d] = trail[d]
    PROVE  IInv'
<1>1. \A d \in Calls : (Wrote(d)' <=> Wrote(d)) /\ (HandedBy(d)' <=> HandedBy(d))
  BY DEF Wrote, HandedBy
<1> QED BY <1>1, Local

LEMMA AbortInv ==
    ASSUME IInv, NEW c \in Calls, Abort(c), UNCHANGED <<commits, handed>>
    PROVE  IInv'
<1>1. Shape'
  BY DEF IInv, Shape, Abort, Places
<1>2. pc'[c] = "done" /\ ans'[c] = "error" /\ trail' = trail
  BY DEF IInv, Shape, Abort
<1>3. Progress(c)'
  BY <1>2 DEF IInv, Progress, InTrail, Allowed, Rejected, Wrote, HandedBy,
     Inside, Granted, Started, Effects
<1>4. \A d \in Calls \ {c} : pc'[d] = pc[d] /\ ans'[d] = ans[d] /\ trail'[d] = trail[d]
  BY DEF IInv, Shape, Abort
<1> QED BY <1>1, <1>3, <1>4, Quiet

(* A call moves to another place and appends nothing.                       *)
LEMMA MoveInv ==
    ASSUME IInv, NEW c \in Calls, NEW p, MoveOk(pc[c], p),
           pc' = [pc EXCEPT ![c] = p], UNCHANGED <<ans, trail, commits, handed>>,
           DOMAIN res' = Calls,
           \A d \in Calls \ {c} : res'[d] = res[d],
           p = "closing" => res'[c].status \in {"denied", "approval_required"}
    PROVE  IInv'
<1>1. Shape'
  BY DEF IInv, Shape, MoveOk, Inside
<1>2. pc'[c] = p /\ ans'[c] = ans[c] /\ trail'[c] = trail[c]
  BY DEF IInv, Shape
<1>3. Progress(c)'
  BY <1>2 DEF IInv, Progress, InTrail, Allowed, Rejected, Wrote, HandedBy, Inside, MoveOk
<1>4. \A d \in Calls \ {c} : pc'[d] = pc[d] /\ ans'[d] = ans[d] /\ trail'[d] = trail[d]
  BY DEF IInv, Shape
<1> QED BY <1>1, <1>3, <1>4, Quiet

(* A call appends an event and moves on.                                    *)
LEMMA AppendInv ==
    ASSUME IInv, NEW c \in Calls, NEW e, NEW p, NEW a, EmitOk(pc[c], e, p, a),
           trail' = [trail EXCEPT ![c] = Append(@, e)],
           pc' = [pc EXCEPT ![c] = p],
           ans' = [ans EXCEPT ![c] = a],
           UNCHANGED <<commits, handed>>,
           DOMAIN res' = Calls,
           \A d \in Calls \ {c} : res'[d] = res[d],
           p = "closing" => res'[c].status \in {"denied", "approval_required"}
    PROVE  IInv'
<1>1. trail[c] \in Seq(AuditEvents) /\ e \in AuditEvents
  BY DEF IInv, Shape, EmitOk
<1>2. /\ pc'[c] = p /\ ans'[c] = a
      /\ trail'[c] = Append(trail[c], e)
  BY DEF IInv, Shape
<1>3. /\ trail'[c] \in Seq(AuditEvents)
      /\ \A x : InTrail(c, x)' <=> InTrail(c, x) \/ x = e
  BY <1>1, <1>2, HasAppend DEF InTrail
<1>4. Shape'
  BY <1>3 DEF IInv, Shape, EmitOk
<1>5. Progress(c)'
  BY <1>2, <1>3 DEF IInv, Progress, Allowed, Rejected, Wrote, HandedBy, Effects, EmitOk
<1>6. \A d \in Calls \ {c} : pc'[d] = pc[d] /\ ans'[d] = ans[d] /\ trail'[d] = trail[d]
  BY DEF IInv, Shape
<1> QED BY <1>4, <1>5, <1>6, Quiet

(* self.audit(...)? outside the provider closure.                           *)
LEMMA EmitInv ==
    ASSUME IInv, NEW c \in Calls, NEW e, NEW p, NEW a, EmitOk(pc[c], e, p, a),
           Emit(c, e, p, a), p # "closing", UNCHANGED <<commits, handed>>
    PROVE  IInv'
<1>1. CASE Abort(c)
  BY <1>1, AbortInv
<1>2. CASE ~Abort(c)
  BY <1>2, AppendInv DEF Emit, IInv, Shape
<1> QED BY <1>1, <1>2

LEMMA InitInv == Init => IInv
  BY DEF Init, IInv, Shape, Progress, InTrail, Has, Allowed, Rejected, Wrote, HandedBy,
     Places, AuditEvents, Inside, Granted, Started, Effects, NoResult

-----------------------------------------------------------------------------
(* The gates before the provider: no call has an effect yet.                *)
LEMMA BeforeInv ==
    ASSUME IInv, NEW c \in Calls,
           \/ Receive(c) \/ Gates(c) \/ Refused(c) \/ PreCall(c) \/ PreDenied(c)
           \/ Policy(c) \/ Approval(c) \/ Closing(c)
    PROVE  IInv'
<1>a. /\ MoveOk("gates", "refused") /\ MoveOk("gates", "closing") /\ MoveOk("gates", "pre_call")
      /\ MoveOk("pre_call", "pre_denied") /\ MoveOk("pre_call", "policy")
  BY DEF MoveOk, Places, Inside, Granted, Started, Effects
<1>b. /\ EmitOk("idle", "invoked", "gates", "none")
      /\ EmitOk("refused", "failed", "done", "error")
      /\ EmitOk("pre_denied", "denied", "done", "denied")
      /\ EmitOk("closing", "denied", "done", "denied")
      /\ EmitOk("closing", "approval_required", "done", "approval_required")
  BY DEF EmitOk, Places, AuditEvents, Inside, Granted, Started, Effects
<1>c. /\ EmitOk("policy", "policy_execute", "start", "none")
      /\ EmitOk("policy", "policy_approval", "approval", "none")
      /\ EmitOk("policy", "policy_deny", "closing", "none")
      /\ EmitOk("approval", "approval_approved", "start", "none")
      /\ EmitOk("approval", "approval_denied", "closing", "none")
      /\ EmitOk("approval", "approval_pending", "closing", "none")
  BY DEF EmitOk, Places, AuditEvents, Inside, Granted, Started, Effects
<1>d. DOMAIN res = Calls /\ pc \in [Calls -> Places] /\ ans = [x \in Calls |-> ans[x]]
  BY DEF IInv, Shape
<1>1. CASE Receive(c)
  BY <1>1, <1>b, EmitInv DEF Receive, storeVars
<1>2. CASE Gates(c)
  <2>1. CASE Settle(c, "denied", "closing")
    <3>1. res'[c].status = "denied" /\ DOMAIN res' = Calls
          /\ \A d \in Calls \ {c} : res'[d] = res[d]
      BY <2>1, <1>d DEF Settle
    <3>2. /\ pc[c] = "gates" /\ pc' = [pc EXCEPT ![c] = "closing"]
          /\ UNCHANGED <<ans, trail, commits, handed>>
      BY <1>2, <2>1 DEF Gates, Settle, storeVars
    <3> QED BY <1>a, <3>1, <3>2, MoveInv
  <2>2. CASE ~Settle(c, "denied", "closing")
    BY <1>2, <1>a, <1>d, <2>2, MoveInv DEF Gates, AuthorizationDenial, storeVars
  <2> QED BY <2>1, <2>2
<1>3. CASE Refused(c)
  BY <1>3, <1>b, EmitInv DEF Refused, storeVars
<1>4. CASE PreCall(c)
  <2>1. CASE ObserverBlocks(c) \/ Abort(c)
    BY <1>4, <2>1, AbortInv DEF PreCall, ObserverBlocks, storeVars
  <2>0. pc[c] = "pre_call" /\ UNCHANGED <<commits, handed>>
    BY <1>4 DEF PreCall, storeVars
  <2>2. CASE Settle(c, "denied", "pre_denied")
    <3>1. DOMAIN res' = Calls /\ \A d \in Calls \ {c} : res'[d] = res[d]
      BY <2>2, <1>d DEF Settle
    <3>2. pc' = [pc EXCEPT ![c] = "pre_denied"] /\ UNCHANGED <<ans, trail>>
      BY <2>2 DEF Settle
    <3> QED BY <1>a, <2>0, <3>1, <3>2, MoveInv
  <2>3. CASE pc' = [pc EXCEPT ![c] = "policy"] /\ UNCHANGED <<res, ans, trail>>
    BY <1>a, <1>d, <2>0, <2>3, MoveInv
  <2> QED BY <1>4, <2>1, <2>2, <2>3 DEF PreCall
<1>5. CASE PreDenied(c)
  BY <1>5, <1>b, AbortInv, EmitInv DEF PreDenied, ObserverBlocks, storeVars
<1>6. CASE Policy(c)
  <2>1. CASE Abort(c)
    BY <1>6, <2>1, AbortInv DEF Policy, storeVars
  <2>2. ASSUME NEW d \in {"policy_execute", "policy_approval", "policy_deny"},
               trail' = [trail EXCEPT ![c] = Append(@, d)],
               pc' = [pc EXCEPT ![c] = AfterPolicy[d]],
               res' = IF d = "policy_deny" THEN [res EXCEPT ![c].status = "denied"] ELSE res,
               UNCHANGED ans
        PROVE  IInv'
    <3>1. UNCHANGED <<commits, handed>> /\ pc[c] = "policy"
      BY <1>6 DEF Policy, storeVars
    <3>2. ans' = [ans EXCEPT ![c] = "none"]
      BY <1>d, <2>2, <3>1 DEF IInv, Progress
    <3>3. DOMAIN res' = Calls /\ \A x \in Calls \ {c} : res'[x] = res[x]
      BY <1>d, <2>2
    <3>4. CASE d = "policy_execute"
      <4>1. AfterPolicy[d] = "start"
        BY <3>4 DEF AfterPolicy
      <4>2. EmitOk(pc[c], d, AfterPolicy[d], "none") /\ AfterPolicy[d] # "closing"
        BY <1>c, <3>1, <3>4, <4>1
      <4> QED BY <2>2, <3>1, <3>2, <3>3, <4>2, AppendInv, ZenonT(60)
    <3>5. CASE d = "policy_approval"
      <4>1. AfterPolicy[d] = "approval"
        BY <3>5 DEF AfterPolicy
      <4>2. EmitOk(pc[c], d, AfterPolicy[d], "none") /\ AfterPolicy[d] # "closing"
        BY <1>c, <3>1, <3>5, <4>1
      <4> QED BY <2>2, <3>1, <3>2, <3>3, <4>2, AppendInv, ZenonT(60)
    <3>6. CASE d = "policy_deny"
      <4>1. AfterPolicy[d] = "closing"
        BY <3>6 DEF AfterPolicy
      <4>2. res'[c].status = "denied"
        BY <1>d, <2>2, <3>6
      <4>3. EmitOk(pc[c], d, AfterPolicy[d], "none")
        BY <1>c, <3>1, <3>6, <4>1
      <4> QED BY <2>2, <3>1, <3>2, <3>3, <4>2, <4>3, AppendInv, ZenonT(60)
    <3> QED BY <2>2, <3>4, <3>5, <3>6
  <2>3. PICK mode \in {"auto", "require_approval", "deny"}, required \in BOOLEAN :
            LET d == PolicyDecision(mode, required)
            IN  \/ /\ trail' = [trail EXCEPT ![c] = Append(@, d)]
                   /\ pc' = [pc EXCEPT ![c] = AfterPolicy[d]]
                   /\ res' = IF d = "policy_deny" THEN [res EXCEPT ![c].status = "denied"] ELSE res
                   /\ UNCHANGED ans
                \/ Abort(c)
    BY <1>6 DEF Policy
  <2>4. PolicyDecision(mode, required) \in {"policy_execute", "policy_approval", "policy_deny"}
    BY DEF PolicyDecision
  <2> QED BY <2>1, <2>2, <2>3, <2>4
<1>7. CASE Approval(c)
  <2>1. CASE Abort(c)
    BY <1>7, <2>1, AbortInv DEF Approval, storeVars
  <2>2. ASSUME NEW d \in DOMAIN AfterApproval,
               trail' = [trail EXCEPT ![c] = Append(@, d)],
               pc' = [pc EXCEPT ![c] = AfterApproval[d][1]],
               res' = [res EXCEPT ![c].status = AfterApproval[d][2]],
               UNCHANGED ans
        PROVE  IInv'
    <3>1. UNCHANGED <<commits, handed>> /\ pc[c] = "approval"
      BY <1>7 DEF Approval, storeVars
    <3>2. ans' = [ans EXCEPT ![c] = "none"]
      BY <1>d, <2>2, <3>1 DEF IInv, Progress
    <3>3. /\ DOMAIN res' = Calls /\ \A x \in Calls \ {c} : res'[x] = res[x]
          /\ res'[c].status = AfterApproval[d][2]
      BY <1>d, <2>2
    <3>4. \/ d = "approval_approved" /\ AfterApproval[d] = <<"start", "none">>
          \/ d = "approval_denied" /\ AfterApproval[d] = <<"closing", "denied">>
          \/ d = "approval_pending" /\ AfterApproval[d] = <<"closing", "approval_required">>
      BY <2>2 DEF AfterApproval
    <3>5. \/ d = "approval_approved" /\ AfterApproval[d][1] = "start"
          \/ /\ d \in {"approval_denied", "approval_pending"} /\ AfterApproval[d][1] = "closing"
             /\ AfterApproval[d][2] \in {"denied", "approval_required"}
      BY <3>4
    <3>6. EmitOk(pc[c], d, AfterApproval[d][1], "none")
      BY <1>c, <3>1, <3>5
    <3>7. AfterApproval[d][1] = "closing" => res'[c].status \in {"denied", "approval_required"}
      BY <3>3, <3>5
    <3> QED BY <2>2, <3>1, <3>2, <3>3, <3>6, <3>7, AppendInv, ZenonT(60)
  <2> QED BY <1>7, <2>1, <2>2 DEF Approval
<1>8. CASE Closing(c)
  <2>1. res[c].status \in {"denied", "approval_required"}
    BY <1>8 DEF Closing, IInv, Shape
  <2>2. EmitOk(pc[c], res[c].status, "done", res[c].status)
    BY <1>8, <1>b, <2>1 DEF Closing
  <2> QED BY <1>8, <2>2, EmitInv DEF Closing, storeVars
<1> QED BY <1>1, <1>2, <1>3, <1>4, <1>5, <1>6, <1>7, <1>8

(* From the provider on: every effect is behind the audited start.          *)
LEMMA ProviderInv ==
    ASSUME IInv, NEW c \in Calls,
           \/ Start(c) \/ Operate(c) \/ PublishEvent(c) \/ Complete(c) \/ Failing(c)
           \/ PostCall(c) \/ Finish(c)
    PROVE  IInv'
<1>a. /\ MoveOk("start", "failing") /\ MoveOk("operate", "failing")
      /\ MoveOk("complete", "failing") /\ MoveOk("post_call", "finish")
  BY DEF MoveOk, Places, Inside, Granted, Started, Effects
<1>b. /\ EmitOk("start", "op_started", "operate", "none")
      /\ EmitOk("complete", "op_completed", "post_call", "none")
      /\ EmitOk("failing", "failed", "done", "error")
      /\ \A a : EmitOk("finish", "executed", "done", a)
  BY DEF EmitOk, Places, AuditEvents, Inside, Granted, Started, Effects
<1>d. /\ DOMAIN res = Calls /\ pc \in [Calls -> Places] /\ ans = [x \in Calls |-> ans[x]]
      /\ trail[c] \in Seq(AuditEvents)
  BY DEF IInv, Shape
<1>e. ans[c] = "none" /\ [ans EXCEPT ![c] = "none"] = ans
  BY <1>d DEF IInv, Progress, Start, Operate, PublishEvent, Complete, Failing, PostCall, Finish
<1>1. CASE Start(c)
  <2>1. CASE FailTo(c)
    BY <1>1, <1>a, <1>d, <2>1, MoveInv DEF Start, FailTo, storeVars
  <2>2. CASE ~FailTo(c)
    BY <1>1, <1>b, <1>d, <1>e, <2>2, AppendInv DEF Start, storeVars
  <2> QED BY <2>1, <2>2
<1>2. CASE Operate(c)
  <2> DEFINE p == Perform(req[c])
             result == ResultOf(req[c], p.res)
  <2>1. CASE FailTo(c) /\ UNCHANGED commits
    BY <1>2, <1>a, <1>d, <2>1, MoveInv DEF Operate, FailTo
  <2>2. ASSUME NEW next \in {"publish", "complete", "failing"},
               commits' = IF p.db.ents = db.ents THEN commits
                          ELSE commits \cup {Envelope(c, req[c], result)},
               DOMAIN res' = Calls,
               \A d \in Calls \ {c} : res'[d] = res[d],
               pc' = [pc EXCEPT ![c] = next],
               UNCHANGED <<ans, trail>>
        PROVE  IInv'
    <3>2. pc[c] = "operate" /\ UNCHANGED handed
      BY <1>2 DEF Operate
    <3>3. Shape'
      BY <2>2 DEF IInv, Shape, Places
    <3>4. pc'[c] = next /\ \A d \in Calls \ {c} : pc'[d] = pc[d]
      BY <2>2 DEF IInv, Shape
    <3>5. Envelope(c, req[c], result).call = c
      BY DEF Envelope
    <3>6. \A d \in Calls \ {c} : (Wrote(d)' => Wrote(d)) /\ (HandedBy(d)' => HandedBy(d))
      BY <2>2, <3>2, <3>5 DEF Wrote, HandedBy
    <3>7. Progress(c)'
      BY <1>e, <2>2, <3>2, <3>4 DEF IInv, Progress, InTrail, Allowed, Rejected, HandedBy,
         Places, Inside, Granted, Started, Effects
    <3> QED BY <2>2, <3>3, <3>4, <3>6, <3>7, Local
  <2>3. CASE /\ commits' = IF p.db.ents = db.ents THEN commits
                           ELSE commits \cup {Envelope(c, req[c], result)}
             /\ res' = [res EXCEPT ![c] = result]
             /\ pc' = [pc EXCEPT ![c] = AfterOperate(req[c], result)]
             /\ UNCHANGED <<ans, trail>>
    <3>1. AfterOperate(req[c], result) \in {"publish", "complete"}
      BY DEF AfterOperate
    <3> QED BY <1>d, <2>2, <2>3, <3>1
  <2>4. CASE /\ commits' = IF p.db.ents = db.ents THEN commits
                           ELSE commits \cup {Envelope(c, req[c], result)}
             /\ Settle(c, "unknown", "failing")
    <3>1. /\ DOMAIN res' = Calls /\ \A d \in Calls \ {c} : res'[d] = res[d]
          /\ pc' = [pc EXCEPT ![c] = "failing"] /\ UNCHANGED <<ans, trail>>
      BY <1>d, <2>4 DEF Settle
    <3> QED BY <2>2, <2>4, <3>1
  <2> QED BY <1>2, <2>1, <2>3, <2>4 DEF Operate
<1>3. CASE PublishEvent(c)
  <2>1. pc[c] = "publish" /\ pc' = [pc EXCEPT ![c] = "complete"]
        /\ UNCHANGED <<res, ans, commits>>
    BY <1>3 DEF PublishEvent
  <2>2. PICK e : e.call = c /\ handed' = handed \cup {e}
    BY <1>3 DEF PublishEvent, Envelope
  <2>3. trail' = trail \/ trail' = [trail EXCEPT ![c] = Append(@, "publish_failed")]
    BY <1>3 DEF PublishEvent
  <2>4. /\ trail'[c] \in Seq(AuditEvents)
        /\ \A x : InTrail(c, x) => InTrail(c, x)'
        /\ \A x : InTrail(c, x)' => InTrail(c, x) \/ x = "publish_failed"
    <3>1. CASE trail' = trail
      BY <1>d, <3>1 DEF InTrail
    <3>2. CASE trail' = [trail EXCEPT ![c] = Append(@, "publish_failed")]
      <4>1. trail'[c] = Append(trail[c], "publish_failed") /\ "publish_failed" \in AuditEvents
        BY <3>2 DEF IInv, Shape, AuditEvents
      <4> QED BY <1>d, <4>1, HasAppend DEF InTrail
    <3> QED BY <2>3, <3>1, <3>2
  <2>5. /\ pc'[c] = "complete" /\ ans'[c] = "none"
        /\ \A d \in Calls \ {c} : pc'[d] = pc[d] /\ trail'[d] = trail[d] /\ ans'[d] = ans[d]
    BY <1>e, <2>1, <2>3 DEF IInv, Shape
  <2>6. Shape'
    <3>1. trail' \in [Calls -> Seq(AuditEvents)]
      BY <2>3, <2>4 DEF IInv, Shape
    <3> QED BY <2>1, <3>1 DEF IInv, Shape, Places
  <2>7. Progress(c)'
    BY <2>1, <2>4, <2>5 DEF IInv, Progress, Allowed, Rejected, Wrote,
       Places, Inside, Granted, Started, Effects
  <2>8. \A d \in Calls \ {c} : (Wrote(d)' => Wrote(d)) /\ (HandedBy(d)' => HandedBy(d))
    BY <2>1, <2>2 DEF Wrote, HandedBy
  <2> QED BY <2>5, <2>6, <2>7, <2>8, Local
<1>4. CASE Complete(c)
  <2>1. CASE FailTo(c)
    BY <1>4, <1>a, <1>d, <2>1, MoveInv DEF Complete, FailTo, storeVars
  <2>2. CASE ~FailTo(c)
    BY <1>4, <1>b, <1>d, <1>e, <2>2, AppendInv DEF Complete, storeVars
  <2> QED BY <2>1, <2>2
<1>5. CASE Failing(c)
  BY <1>5, <1>b, AbortInv, EmitInv DEF Failing, ObserverBlocks, storeVars
<1>6. CASE PostCall(c)
  <2>1. CASE Abort(c)
    BY <1>6, <2>1, AbortInv DEF PostCall, storeVars
  <2>2. CASE ~Abort(c)
    <3>1. DOMAIN res' = Calls /\ \A d \in Calls \ {c} : res'[d] = res[d]
      BY <1>6, <1>d, <2>2 DEF PostCall, Settle
    <3> QED BY <1>6, <1>a, <2>2, <3>1, MoveInv DEF PostCall, Settle, storeVars
  <2> QED BY <2>1, <2>2
<1>7. CASE Finish(c)
  BY <1>7, <1>b, AbortInv, EmitInv DEF Finish, ObserverBlocks, storeVars
<1> QED BY <1>1, <1>2, <1>3, <1>4, <1>5, <1>6, <1>7

LEMMA CrashInv == IInv /\ Crash => IInv'
<1> SUFFICES ASSUME IInv, Crash PROVE IInv'
  OBVIOUS
<1>1. UNCHANGED <<res, trail, commits, handed>>
  BY DEF Crash
<1>2. \A c \in Calls : \/ pc'[c] = pc[c] /\ ans'[c] = ans[c]
                       \/ pc'[c] = "done" /\ ans'[c] = "lost"
  BY DEF Crash
<1>3. pc' \in [Calls -> Places] /\ ans' = [c \in Calls |-> ans'[c]]
  BY DEF Crash, IInv, Shape, Places
<1>4. Shape'
  BY <1>1, <1>2, <1>3 DEF IInv, Shape
<1>5. ASSUME NEW c \in Calls PROVE Progress(c)'
  BY <1>1, <1>2 DEF IInv, Progress, InTrail, Allowed, Rejected, Wrote, HandedBy,
     Inside, Granted, Started, Effects
<1> QED BY <1>4, <1>5 DEF IInv

LEMMA StepInv == IInv /\ [Next]_vars => IInv'
<1> SUFFICES ASSUME IInv, [Next]_vars PROVE IInv'
  OBVIOUS
<1>1. ASSUME NEW c \in Calls, Call(c) PROVE IInv'
  BY <1>1, BeforeInv, ProviderInv DEF Call
<1>2. CASE Sink \/ UNCHANGED vars
  BY <1>2 DEF Sink, vars, IInv, Shape, Progress, InTrail, Allowed, Rejected, Wrote, HandedBy
<1>3. CASE Crash
  BY <1>3, CrashInv
<1> QED BY <1>1, <1>2, <1>3 DEF Next

-----------------------------------------------------------------------------
(* runtime.rs, invoke: with any number of calls, providers that fail or     *)
(* not, and any failure of sinks, hooks and observers, no record is changed *)
(* before its invocation, its decision and its start are in the audit.      *)
THEOREM AuditSafe == Spec => []AuditedBeforeWrite
<1>1. IInv => AuditedBeforeWrite
  BY DEF IInv, Progress, AuditedBeforeWrite, Allowed
<1> QED BY InitInv, StepInv, <1>1, PTL DEF Spec

(* runtime.rs, invoke: a denied call, or one that waits for approval, has   *)
(* changed nothing and announced nothing unless the audit says "executed".  *)
THEOREM DenialSafe == Spec => []DenialLeavesNothing
<1>1. IInv => DenialLeavesNothing
  BY DEF IInv, Progress, DenialLeavesNothing, Rejected, HandedBy
<1> QED BY InitInv, StepInv, <1>1, PTL DEF Spec

-----------------------------------------------------------------------------
(* The trail at each place, to the letter.                                  *)
After(S, e) == {Append(t, e) : t \in S}

Opened    == {<<"invoked", "policy_execute">>,
              <<"invoked", "policy_approval", "approval_approved">>}
Begun     == After(Opened, "op_started")
Published == Begun \cup After(Begun, "publish_failed")
Closed    == After(Published, "op_completed")

Story(c) ==
    /\ pc[c] = "idle" => trail[c] = << >>
    /\ pc[c] \in {"gates", "refused", "pre_call", "pre_denied", "policy"} => trail[c] = <<"invoked">>
    /\ pc[c] = "approval" => trail[c] = <<"invoked", "policy_approval">>
    /\ pc[c] = "closing" => Append(trail[c], res[c].status) \in DeniedTrails
    /\ pc[c] = "start" => trail[c] \in Opened
    /\ pc[c] \in {"operate", "publish"} => trail[c] \in Begun
    /\ pc[c] = "complete" => trail[c] \in Published
    /\ pc[c] \in {"post_call", "finish"} => trail[c] \in Closed
    /\ pc[c] \in {"publish", "complete", "post_call"} => res[c].status \in Executed
    /\ pc[c] = "finish" => res[c].status \in Executed \cup {"denied"}
    /\ ans[c] \in Executed => trail[c] \in GrantedTrails
    /\ ans[c] = "denied" => trail[c] \in GrantedTrails \cup DeniedTrails
    /\ ans[c] = "approval_required" => trail[c] \in DeniedTrails

(* What a call that has operated has announced.                             *)
Announcing(c) ==
    /\ pc[c] = "publish" => ~HandedBy(c)
    /\ pc[c] \in {"complete", "post_call", "finish"} /\ (Wrote(c) \/ res[c].status = "created")
          => HandedBy(c)
    /\ pc[c] = "failing" /\ Wrote(c) => HandedBy(c) \/ res[c].status = "unknown"
    /\ /\ pc[c] = "done" /\ ans[c] # "lost"
       /\ (Wrote(c) /\ res[c].status # "unknown") \/ ans[c] = "created"
       => HandedBy(c)

(* The store committed what an envelope says.                               *)
Told(e) == \E x \in commits : x.what = e.what /\ x.id = e.id /\ x.ver = e.ver

(* The channel and the broker hold what calls have handed over, once each.  *)
Once(s) == \A i, j \in DOMAIN s : i # j => s[i].call # s[j].call

SinkInv ==
    /\ \A i \in DOMAIN queue : Told(queue[i]) /\ HandedBy(queue[i].call)
    /\ \A i \in DOMAIN delivered : Told(delivered[i]) /\ HandedBy(delivered[i].call)
    /\ Once(queue) /\ Once(delivered)
    /\ \A i \in DOMAIN queue, j \in DOMAIN delivered : queue[i].call # delivered[j].call

(* A create answered, or about to be, with a record under a key has the     *)
(* record stored under it.                                                  *)
Answering(c) ==
    /\ pc[c] = "publish" => Told(Envelope(c, req[c], res[c]))
    /\ /\ res[c].status = "created"
       /\ pc[c] \in {"publish", "complete", "post_call", "finish"} \/ ans[c] = "created"
       => /\ req[c].kind = "create"
          /\ req[c].op.key \in Keys => res[c].rec = db.idem[req[c].op.key] /\ res[c].rec # NoRecord
    /\ ans[c] = "created" => res[c].status = "created"

KeyInv ==
    /\ \A x \in commits : x.what = "create" =>
          /\ req[x.call].kind = "create"
          /\ req[x.call].op.key \in Keys =>
                db.idem[req[x.call].op.key] # NoRecord /\ db.idem[req[x.call].op.key].id = x.id
    /\ \A k \in Keys : db.idem[k] # NoRecord =>
          \E x \in commits : /\ x.what = "create" /\ req[x.call].op.key = k
                             /\ x.id = db.idem[k].id /\ x.ver = db.idem[k].ver

EffectInv ==
    /\ \A c \in Calls : Story(c) /\ Announcing(c) /\ Answering(c)
    /\ SinkInv /\ KeyInv

-----------------------------------------------------------------------------
(* What the provider's answer to an operation comes with.                   *)
LEMMA RequestOps ==
    ASSUME NEW r \in Requests
    PROVE  /\ r.kind \in {"create", "update", "delete", "get"}
           /\ r.kind = "create" => r.op \in CreateOps({Indexes}) /\ r.op.id = NoId /\ r.op.ret = 0
           /\ r.kind = "update" => r.op \in UpdateOps({Indexes})
           /\ r.kind \in {"delete", "get"} => r.op.id \in Ids
BY InvokeAssumption DEF Requests, CreateOps, UpdateOps

Result(r) == ResultOf(r, Perform(r).res)

(* The operation changes no record and no stored answer.                    *)
ChangesNothing(r) ==
    /\ Perform(r).db.ents = db.ents /\ Perform(r).db.idem = db.idem
    /\ \/ /\ r.kind = "create" /\ r.op.key \in Keys
          /\ db.idem[r.op.key] \in Record /\ db.idem[r.op.key] # NoRecord
          /\ Result(r) = [status |-> "created", rec |-> db.idem[r.op.key]]
       \/ r.kind = "delete" /\ Result(r) = [status |-> "not_found", rec |-> NoRecord]
       \/ r.kind = "get" /\ Result(r).status \in {"ok", "not_found"} /\ Result(r).rec = NoRecord

(* It inserts the record it answers with, and keeps the answer under the    *)
(* key.                                                                     *)
InsertsRecord(r) ==
    /\ r.kind = "create" /\ Result(r).status = "created" /\ Result(r).rec \in Record
    /\ Perform(r).db.ents # db.ents
    /\ r.op.key \in Keys => db.idem[r.op.key] = NoRecord
    /\ Perform(r).db.idem = [k \in Keys |-> IF k = r.op.key THEN Result(r).rec ELSE db.idem[k]]

(* It changes or removes a record.                                          *)
WritesRecord(r) ==
    /\ \/ r.kind = "update" /\ Result(r).status = "ok" /\ Result(r).rec \in Record
       \/ r.kind = "delete" /\ Result(r).status = "deleted" /\ Result(r).rec = NoRecord
    /\ Perform(r).db.ents # db.ents /\ Perform(r).db.idem = db.idem

LEMMA Operations ==
    ASSUME db \in Keyspace, NEW r \in Requests, r.kind = "create" => AutoIdInBound(db),
           Perform(r).res.code = "ok"
    PROVE  /\ Perform(r).db \in Keyspace
           /\ ChangesNothing(r) \/ InsertsRecord(r) \/ WritesRecord(r)
<1>1. CASE r.kind = "create"
  <2> DEFINE op == r.op
  <2>1. Perform(r) = Create(db, op) /\ Result(r) = [status |-> "created", rec |-> Create(db, op).res.rec]
    BY <1>1 DEF Perform, Result, ResultOf
  <2>2. /\ op \in CreateOps({Indexes}) /\ op.id = NoId /\ op.ret = 0
        /\ {Indexes} \in SUBSET SUBSET Indexes
    BY <1>1, RequestOps
  <2>3. op.ret \notin Indexes /\ op.key \in Keys \cup {NoKey}
    BY <2>2, BoundsAssumption DEF Indexes, CreateOps
  <2>4. Create(db, op).db \in Keyspace
    BY <1>1, <2>2, CreateType
  <2>5. Replays(db, op) \/ Inserts(db, op)
    <3>1. Replays(db, op) \/ Returns(db, op) \/ Inserts(db, op)
      BY <1>1, <2>1, <2>2, CreateAnswers
    <3> QED  BY <2>3, <3>1 DEF Returns
  <2>6. CASE Replays(db, op)
    <3>1. Create(db, op).db.ents = db.ents /\ Create(db, op).db.idem = db.idem
      BY <2>6 DEF Replays, Keyspace
    <3> QED  BY <1>1, <2>1, <2>4, <2>6, <3>1 DEF ChangesNothing, Replays, IdemHit
  <2>7. CASE Inserts(db, op)
    <3> DEFINE id == CreateId(db, op)
               new == [id |-> id, ver |-> 1, data |-> op.data]
    <3>1. id \in Ids /\ ~Live(db, id)
      BY <1>1, <2>2, AutoId DEF CreateId
    <3>2. /\ Create(db, op).db.ents = [db.ents EXCEPT ![id] = [ver |-> 1, data |-> op.data]]
          /\ Create(db, op).db.idem = [k \in Keys |-> IF k = op.key THEN new ELSE db.idem[k]]
      BY <2>7, <3>1 DEF Inserts, CreateWrites, Keyspace
    <3> HIDE DEF id
    <3>3. Create(db, op).db.ents # db.ents
      BY <3>1, <3>2 DEF Live, Keyspace, Row
    <3>4. op.key \in Keys => db.idem[op.key] = NoRecord
      BY <2>7 DEF Inserts, IdemHit
    <3> QED  BY <1>1, <2>1, <2>4, <2>7, <3>2, <3>3, <3>4 DEF InsertsRecord, Inserts, id
  <2> QED  BY <2>5, <2>6, <2>7
<1>2. CASE r.kind = "update"
  <2> DEFINE op  == r.op
             new == Patched(db, op)
             ver == db.ents[op.id].ver + 1
  <2>1. op \in UpdateOps({Indexes}) /\ op.id \in Ids
    BY <1>2, RequestOps DEF UpdateOps
  <2>2. Perform(r) = Update(db, op) /\ Result(r) = [status |-> "ok", rec |-> Update(db, op).res.rec]
    BY <1>2 DEF Perform, Result, ResultOf
  <2>3. Update(db, op).db \in Keyspace
    BY <2>1, UpdateType
  <2>4. /\ Update(db, op).res.rec = [id |-> op.id, ver |-> ver, data |-> new]
        /\ Update(db, op).db.ents = [db.ents EXCEPT ![op.id] = [ver |-> ver, data |-> new]]
        /\ Update(db, op).db.idem = db.idem
    BY <2>1, <2>2 DEF Update, Ok, Fail, Keyspace
  <2>5. db.ents[op.id] \in Row /\ new \in Data /\ ver \in Nat /\ ver # db.ents[op.id].ver
    BY <2>1 DEF Keyspace, Row, Patched, Data, UpdateOps
  <2> HIDE DEF new, ver
  <2>6. [id |-> op.id, ver |-> ver, data |-> new] \in Record
    BY <2>1, <2>5 DEF Record
  <2>7. Update(db, op).db.ents # db.ents
    BY <2>1, <2>4, <2>5 DEF Keyspace
  <2> QED  BY <1>2, <2>2, <2>3, <2>4, <2>6, <2>7 DEF WritesRecord
<1>3. CASE r.kind = "delete"
  <2>1. r.op.id \in Ids
    BY <1>3, RequestOps
  <2>2. /\ Perform(r) = Delete(db, r.op.id)
        /\ Result(r) = [status |-> IF Delete(db, r.op.id).res.deleted THEN "deleted" ELSE "not_found",
                        rec |-> NoRecord]
    BY <1>3 DEF Perform, Result, ResultOf
  <2>3. Delete(db, r.op.id).db \in Keyspace
    BY <2>1, DeleteType
  <2>4. CASE Live(db, r.op.id)
    <3>1. /\ Delete(db, r.op.id).db.ents = [db.ents EXCEPT ![r.op.id] = NoRow]
          /\ Delete(db, r.op.id).db.idem = db.idem
          /\ Delete(db, r.op.id).res.deleted = TRUE
      BY <2>4 DEF Delete, Keyspace
    <3>2. Delete(db, r.op.id).db.ents # db.ents
      BY <2>1, <2>4, <3>1 DEF Live, NoRow, Keyspace
    <3> QED  BY <1>3, <2>2, <2>3, <3>1, <3>2 DEF WritesRecord
  <2>5. CASE ~Live(db, r.op.id)
    <3>1. Delete(db, r.op.id).db = db /\ Delete(db, r.op.id).res.deleted = FALSE
      BY <2>5 DEF Delete
    <3> QED  BY <1>3, <2>2, <2>3, <3>1 DEF ChangesNothing
  <2> QED  BY <2>4, <2>5
<1>4. CASE r.kind = "get"
  <2>1. Perform(r).db = db /\ Result(r).status \in {"ok", "not_found"} /\ Result(r).rec = NoRecord
    BY <1>4 DEF Perform, Result, ResultOf
  <2> QED  BY <1>4, <2>1 DEF ChangesNothing
<1> QED  BY <1>1, <1>2, <1>3, <1>4, RequestOps

-----------------------------------------------------------------------------
(* Every request but that of an idle call is one the runtime was sent.      *)
Asked == \A c \in Calls : pc[c] # "idle" => req[c] \in Requests

Statuses == Executed \cup {"none", "denied", "approval_required", "unknown"}

LEMMA SetStatus ==
    ASSUME NEW f \in [Calls -> Results], NEW c \in Calls, NEW s \in Statuses
    PROVE  /\ [f EXCEPT ![c].status = s] \in [Calls -> Results]
           /\ [f EXCEPT ![c].status = s][c].status = s
           /\ [f EXCEPT ![c].status = s][c].rec = f[c].rec
           /\ \A d \in Calls \ {c} : [f EXCEPT ![c].status = s][d] = f[d]
<1>1. f[c] \in Results
  OBVIOUS
<1>2. [f[c] EXCEPT !.status = s] = [status |-> s, rec |-> f[c].rec]
  BY <1>1 DEF Results
<1>3. [status |-> s, rec |-> f[c].rec] \in Results
  BY <1>1 DEF Results, Statuses
<1>4. [f EXCEPT ![c].status = s] = [f EXCEPT ![c] = [status |-> s, rec |-> f[c].rec]]
  BY <1>2
<1> DEFINE n == [status |-> s, rec |-> f[c].rec]
<1>5. n \in Results /\ n.status = s /\ n.rec = f[c].rec
  BY <1>3
<1> HIDE DEF n
<1>6. /\ [f EXCEPT ![c] = n] \in [Calls -> Results]
      /\ [f EXCEPT ![c] = n][c] = n
      /\ \A d \in Calls \ {c} : [f EXCEPT ![c] = n][d] = f[d]
  BY <1>5
<1>7. [f EXCEPT ![c].status = s] = [f EXCEPT ![c] = n]
  BY <1>4 DEF n
<1> QED  BY <1>5, <1>6, <1>7

(* What one step of a call may do to the calls' own variables: the request  *)
(* is set while nothing has happened, the result by a status or by the      *)
(* provider, the trail grows by at most one event.                          *)
OwnTypes ==
    /\ pc \in [Calls -> Places]
    /\ req \in [Calls -> Requests \cup {NoRequest}]
    /\ res \in [Calls -> Results]
    /\ ans \in [Calls -> Answers]
    /\ trail \in [Calls -> Seq(AuditEvents)]

LEMMA AppendTrail ==
    ASSUME NEW t \in [Calls -> Seq(AuditEvents)], NEW c \in Calls, NEW e \in AuditEvents
    PROVE  /\ [t EXCEPT ![c] = Append(@, e)] \in [Calls -> Seq(AuditEvents)]
           /\ [t EXCEPT ![c] = Append(@, e)][c] = Append(t[c], e)
           /\ \A d \in Calls \ {c} : [t EXCEPT ![c] = Append(@, e)][d] = t[d]
<1>1. Append(t[c], e) \in Seq(AuditEvents)
  OBVIOUS
<1> DEFINE n == Append(t[c], e)
<1>2. n \in Seq(AuditEvents)
  BY <1>1
<1> HIDE DEF n
<1>3. /\ [t EXCEPT ![c] = n] \in [Calls -> Seq(AuditEvents)]
      /\ [t EXCEPT ![c] = n][c] = n
      /\ \A d \in Calls \ {c} : [t EXCEPT ![c] = n][d] = t[d]
  BY <1>2
<1> QED  BY <1>3 DEF n

LEMMA EmitTypes ==
    ASSUME OwnTypes, NEW c \in Calls, NEW e \in AuditEvents, NEW p \in Places, NEW a \in Answers,
           Emit(c, e, p, a), req' \in [Calls -> Requests \cup {NoRequest}]
    PROVE  OwnTypes'
<1>1. CASE Abort(c)
  BY <1>1 DEF OwnTypes, Abort, Places, Answers
<1>2. CASE ~Abort(c)
  <2>1. trail' \in [Calls -> Seq(AuditEvents)]
    <3>1. trail' = [trail EXCEPT ![c] = Append(@, e)]
      BY <1>2 DEF Emit
    <3> QED  BY <3>1, AppendTrail DEF OwnTypes
  <2> QED  BY <1>2, <2>1 DEF OwnTypes, Emit
<1> QED  BY <1>1, <1>2

LEMMA SettleTypes ==
    ASSUME OwnTypes, NEW c \in Calls, NEW s \in Statuses, NEW p \in Places,
           Settle(c, s, p), req' = req
    PROVE  OwnTypes'
<1>1. res' \in [Calls -> Results]
  BY SetStatus DEF OwnTypes, Settle
<1> QED  BY <1>1 DEF OwnTypes, Settle

LEMMA BeforeTypes ==
    ASSUME OwnTypes, Asked, IInv, NEW c \in Calls,
           \/ Receive(c) \/ Gates(c) \/ Refused(c) \/ PreCall(c) \/ PreDenied(c)
           \/ Policy(c) \/ Approval(c) \/ Closing(c)
    PROVE  OwnTypes'
<1> USE DEF Places, Answers, AuditEvents, Statuses
<1>0. ASSUME Abort(c), req' \in [Calls -> Requests \cup {NoRequest}] PROVE OwnTypes'
  BY <1>0 DEF OwnTypes, Abort
<1>1. CASE Receive(c)
  <2>1. req' \in [Calls -> Requests \cup {NoRequest}]
    BY <1>1 DEF Receive, OwnTypes
  <2> QED  BY <1>1, <2>1, EmitTypes DEF Receive
<1>2. CASE Gates(c)
  <2>1. CASE Settle(c, "denied", "closing")
    BY <1>2, <2>1, SettleTypes DEF Gates
  <2>2. CASE ~Settle(c, "denied", "closing")
    BY <1>2, <2>2 DEF Gates, AuthorizationDenial, OwnTypes
  <2> QED  BY <2>1, <2>2
<1>3. CASE Refused(c)
  BY <1>3, EmitTypes DEF Refused, OwnTypes
<1>4. CASE PreCall(c)
  <2>1. CASE (ObserverBlocks(c) \/ Abort(c)) /\ UNCHANGED req
    BY <1>0, <2>1 DEF ObserverBlocks, OwnTypes
  <2>2. CASE Settle(c, "denied", "pre_denied") /\ UNCHANGED req
    BY <2>2, SettleTypes
  <2>3. CASE /\ \E r \in {q \in Requests : SameCall(q, req[c])} : req' = [req EXCEPT ![c] = r]
             /\ pc' = [pc EXCEPT ![c] = "policy"]
             /\ UNCHANGED <<res, ans, trail>>
    BY <2>3 DEF OwnTypes
  <2> QED  BY <1>4, <2>1, <2>2, <2>3 DEF PreCall
<1>5. CASE PreDenied(c)
  BY <1>0, <1>5, EmitTypes DEF PreDenied, ObserverBlocks, OwnTypes
<1>6. CASE Policy(c)
  <2>1. CASE Abort(c)
    BY <1>0, <1>6, <2>1 DEF Policy, OwnTypes
  <2>2. ASSUME NEW d \in {"policy_execute", "policy_approval", "policy_deny"},
               trail' = [trail EXCEPT ![c] = Append(@, d)],
               pc' = [pc EXCEPT ![c] = AfterPolicy[d]],
               res' = IF d = "policy_deny" THEN [res EXCEPT ![c].status = "denied"] ELSE res,
               UNCHANGED ans
        PROVE  OwnTypes'
    <3>1. d \in AuditEvents /\ AfterPolicy[d] \in Places
      BY DEF AfterPolicy
    <3>2. trail' \in [Calls -> Seq(AuditEvents)]
      BY <2>2, <3>1, AppendTrail DEF OwnTypes
    <3>3. res' \in [Calls -> Results]
      BY <2>2, SetStatus DEF OwnTypes
    <3>4. req' = req
      BY <1>6 DEF Policy
    <3> QED  BY <2>2, <3>1, <3>2, <3>3, <3>4 DEF OwnTypes
  <2>3. \A mode \in {"auto", "require_approval", "deny"}, required \in BOOLEAN :
            PolicyDecision(mode, required) \in {"policy_execute", "policy_approval", "policy_deny"}
    BY DEF PolicyDecision
  <2> QED  BY <1>6, <2>1, <2>2, <2>3 DEF Policy
<1>7. CASE Approval(c)
  <2>1. CASE Abort(c)
    BY <1>0, <1>7, <2>1 DEF Approval, OwnTypes
  <2>2. ASSUME NEW d \in DOMAIN AfterApproval,
               trail' = [trail EXCEPT ![c] = Append(@, d)],
               pc' = [pc EXCEPT ![c] = AfterApproval[d][1]],
               res' = [res EXCEPT ![c].status = AfterApproval[d][2]],
               UNCHANGED ans
        PROVE  OwnTypes'
    <3>1. \/ d = "approval_approved" /\ AfterApproval[d] = <<"start", "none">>
          \/ d = "approval_denied" /\ AfterApproval[d] = <<"closing", "denied">>
          \/ d = "approval_pending" /\ AfterApproval[d] = <<"closing", "approval_required">>
      BY <2>2 DEF AfterApproval
    <3>2. d \in AuditEvents /\ AfterApproval[d][1] \in Places /\ AfterApproval[d][2] \in Statuses
      BY <3>1
    <3>3. trail' \in [Calls -> Seq(AuditEvents)]
      BY <2>2, <3>2, AppendTrail DEF OwnTypes
    <3>4. res' \in [Calls -> Results]
      <4> DEFINE st == AfterApproval[d][2]
      <4>1. st \in Statuses /\ res' = [res EXCEPT ![c].status = st] /\ res \in [Calls -> Results]
        BY <2>2, <3>2 DEF OwnTypes
      <4> HIDE DEF st
      <4> QED  BY <4>1, SetStatus
    <3>5. req' = req
      BY <1>7 DEF Approval
    <3> QED  BY <2>2, <3>2, <3>3, <3>4, <3>5 DEF OwnTypes
  <2> QED  BY <1>7, <2>1, <2>2 DEF Approval
<1>8. CASE Closing(c)
  <2>1. res[c].status \in {"denied", "approval_required"}
    BY <1>8 DEF Closing, IInv, Shape
  <2>2. Emit(c, res[c].status, "done", res[c].status) /\ req' \in [Calls -> Requests \cup {NoRequest}]
    BY <1>8 DEF Closing, OwnTypes
  <2>3. res[c].status \in AuditEvents /\ res[c].status \in Answers /\ "done" \in Places
    BY <2>1 DEF Answers, Places
  <2> QED  BY <2>2, <2>3, EmitTypes
<1> QED BY <1>1, <1>2, <1>3, <1>4, <1>5, <1>6, <1>7, <1>8

LEMMA ProviderTypes ==
    ASSUME db \in Keyspace, OwnTypes, Asked, NEW c \in Calls, Story(c),
           \/ Start(c) \/ Operate(c) \/ PublishEvent(c) \/ Complete(c) \/ Failing(c)
           \/ PostCall(c) \/ Finish(c)
    PROVE  OwnTypes'
<1> USE DEF Places, AuditEvents, Statuses
<1>0. ASSUME Abort(c), UNCHANGED req PROVE OwnTypes'
  BY <1>0 DEF OwnTypes, Abort, Answers
<1>1. ASSUME FailTo(c), UNCHANGED req PROVE OwnTypes'
  BY <1>1 DEF OwnTypes, FailTo
<1>2. ASSUME NEW e \in AuditEvents, NEW p \in Places, trail' = [trail EXCEPT ![c] = Append(@, e)],
             pc' = [pc EXCEPT ![c] = p], UNCHANGED <<req, res, ans>>
      PROVE  OwnTypes'
  <2>1. trail' \in [Calls -> Seq(AuditEvents)]
    BY <1>2, AppendTrail DEF OwnTypes
  <2> QED  BY <1>2, <2>1 DEF OwnTypes
<1>3. CASE Start(c)
  BY <1>1, <1>2, <1>3 DEF Start
<1>4. CASE Operate(c)
  <2>0. pc[c] = "operate" /\ req' = req
    BY <1>4 DEF Operate
  <2>1. CASE FailTo(c)
    BY <1>1, <2>0, <2>1
  <2>2. CASE Settle(c, "unknown", "failing")
    BY <2>0, <2>2, SettleTypes
  <2>3. CASE /\ Perform(req[c]).res.code = "ok"
             /\ res' = [res EXCEPT ![c] = Result(req[c])]
             /\ pc' = [pc EXCEPT ![c] = AfterOperate(req[c], Result(req[c]))]
             /\ UNCHANGED <<ans, trail>>
    <3>1. AfterOperate(req[c], Result(req[c])) \in Places
      BY DEF AfterOperate
    <3>2. req[c] \in Requests /\ (req[c].kind = "create" => AutoIdInBound(db))
      BY <1>4, <2>0 DEF Asked, Operate
    <3>3. ChangesNothing(req[c]) \/ InsertsRecord(req[c]) \/ WritesRecord(req[c])
      BY <2>3, <3>2, Operations
    <3>4. Result(req[c]) \in Results
      <4>1. /\ Result(req[c]).status \in Executed /\ Result(req[c]).rec \in Record \cup {NoRecord}
        BY <3>3 DEF ChangesNothing, InsertsRecord, WritesRecord, Executed
      <4>2. Result(req[c]) = [status |-> Result(req[c]).status, rec |-> Result(req[c]).rec]
        BY <3>2, RequestOps DEF Result, ResultOf
      <4> QED  BY <4>1, <4>2 DEF Results
    <3> QED  BY <2>0, <2>3, <3>1, <3>4 DEF OwnTypes
  <2> QED  BY <1>4, <2>1, <2>2, <2>3 DEF Operate, Result
<1>5. CASE PublishEvent(c)
  <2>1. CASE trail' = trail
    BY <1>5, <2>1 DEF PublishEvent, OwnTypes
  <2>2. CASE trail' = [trail EXCEPT ![c] = Append(@, "publish_failed")]
    BY <1>2, <1>5, <2>2 DEF PublishEvent
  <2> QED  BY <1>5, <2>1, <2>2 DEF PublishEvent
<1>6. CASE Complete(c)
  BY <1>1, <1>2, <1>6 DEF Complete
<1>7. CASE Failing(c)
  BY <1>0, <1>7, EmitTypes DEF Failing, ObserverBlocks, OwnTypes, Answers
<1>8. CASE PostCall(c)
  <2>1. CASE Abort(c)
    BY <1>0, <1>8, <2>1 DEF PostCall
  <2>2. CASE Settle(c, "denied", "finish")
    BY <1>8, <2>2, SettleTypes DEF PostCall
  <2>3. CASE pc' = [pc EXCEPT ![c] = "finish"] /\ UNCHANGED <<res, ans, trail>>
    BY <1>8, <2>3 DEF PostCall, OwnTypes
  <2> QED  BY <1>8, <2>1, <2>2, <2>3 DEF PostCall
<1>9. CASE Finish(c)
  <2>1. res[c].status \in Answers
    BY <1>9 DEF Finish, Story, Answers
  <2>2. req' \in [Calls -> Requests \cup {NoRequest}] /\ "executed" \in AuditEvents /\ "done" \in Places
    BY <1>0, <1>9 DEF Finish, OwnTypes, Places
  <2>3. CASE Emit(c, "executed", "done", res[c].status)
    BY <1>0, <2>1, <2>2, <2>3, EmitTypes
  <2>4. CASE ObserverBlocks(c)
    BY <1>0, <1>9, <2>4 DEF Finish, ObserverBlocks, OwnTypes
  <2> QED  BY <1>9, <2>3, <2>4 DEF Finish
<1> QED  BY <1>3, <1>4, <1>5, <1>6, <1>7, <1>8, <1>9

-----------------------------------------------------------------------------
(* Appending to explicit sequences.                                         *)
LEMMA Ends ==
    \A s \in Seq(AuditEvents), a, b \in AuditEvents :
        /\ s \o << >> = s
        /\ s \o <<a>> = Append(s, a)
        /\ s \o <<a, b>> = Append(Append(s, a), b)
<1> SUFFICES ASSUME NEW s \in Seq(AuditEvents), NEW a \in AuditEvents, NEW b \in AuditEvents
             PROVE  /\ s \o << >> = s
                    /\ s \o <<a>> = Append(s, a)
                    /\ s \o <<a, b>> = Append(Append(s, a), b)
  BY Zenon
<1>1. s \o << >> = s /\ s \o <<a>> = Append(s, a)
  BY ConcatEmptySeq, AppendIsConcat
<1>2. s \o <<a, b>> = Append(Append(s, a), b)
  <2>1. Len(<<a, b>>) = 2 /\ <<a, b>> \in Seq(AuditEvents) /\ <<a, b>>[1] = a /\ <<a, b>>[2] = b
    OBVIOUS
  <2>2. s \o <<a, b>> \in Seq(AuditEvents) /\ Len(s \o <<a, b>>) = Len(s) + 2
    BY <2>1
  <2>3. Append(Append(s, a), b) \in Seq(AuditEvents) /\ Len(Append(Append(s, a), b)) = Len(s) + 2
    OBVIOUS
  <2>4. \A i \in 1 .. Len(s) + 2 : (s \o <<a, b>>)[i] = Append(Append(s, a), b)[i]
    BY <2>1
  <2> QED  BY <2>2, <2>3, <2>4, SeqEqual
<1> QED  BY <1>1, <1>2, Zenon

LEMMA Tuples ==
    /\ \A a \in AuditEvents : Append(<< >>, a) = <<a>>
    /\ \A a, b \in AuditEvents : Append(<<a>>, b) = <<a, b>>
    /\ \A a, b, c \in AuditEvents : Append(<<a, b>>, c) = <<a, b, c>>
    /\ \A a, b, c, d \in AuditEvents : Append(<<a, b, c>>, d) = <<a, b, c, d>>
<1>1. ASSUME NEW S, NEW a \in S PROVE Append(<< >>, a) = <<a>>
  BY SeqEqual
<1>2. ASSUME NEW S, NEW a \in S, NEW b \in S PROVE Append(<<a>>, b) = <<a, b>>
  <2>1. <<a>> \in Seq(S) /\ Len(<<a>>) = 1
    OBVIOUS
  <2>2. Append(<<a>>, b) \in Seq(S) /\ Len(Append(<<a>>, b)) = 2
    BY <2>1
  <2>3. <<a, b>> \in Seq(S) /\ Len(<<a, b>>) = 2
    OBVIOUS
  <2>4. \A i \in 1 .. 2 : Append(<<a>>, b)[i] = <<a, b>>[i]
    BY <2>1
  <2> QED  BY <2>2, <2>3, <2>4, SeqEqual
<1>3. ASSUME NEW S, NEW a \in S, NEW b \in S, NEW c \in S
      PROVE  Append(<<a, b>>, c) = <<a, b, c>>
  <2>1. <<a, b>> \in Seq(S) /\ Len(<<a, b>>) = 2
    OBVIOUS
  <2>2. Append(<<a, b>>, c) \in Seq(S) /\ Len(Append(<<a, b>>, c)) = 3
    BY <2>1
  <2>3. <<a, b, c>> \in Seq(S) /\ Len(<<a, b, c>>) = 3
    OBVIOUS
  <2>4. \A i \in 1 .. 3 : Append(<<a, b>>, c)[i] = <<a, b, c>>[i]
    BY <2>1
  <2> QED  BY <2>2, <2>3, <2>4, SeqEqual
<1>4. ASSUME NEW S, NEW a \in S, NEW b \in S, NEW c \in S, NEW d \in S
      PROVE  Append(<<a, b, c>>, d) = <<a, b, c, d>>
  <2>1. <<a, b, c>> \in Seq(S) /\ Len(<<a, b, c>>) = 3
    OBVIOUS
  <2>2. Append(<<a, b, c>>, d) \in Seq(S) /\ Len(Append(<<a, b, c>>, d)) = 4
    BY <2>1
  <2>3. <<a, b, c, d>> \in Seq(S) /\ Len(<<a, b, c, d>>) = 4
    OBVIOUS
  <2>4. \A i \in 1 .. 4 : Append(<<a, b, c>>, d)[i] = <<a, b, c, d>>[i]
    BY <2>1
  <2> QED  BY <2>2, <2>3, <2>4, SeqEqual
<1> QED  BY <1>1, <1>2, <1>3, <1>4, SMT

(* The sequences of the audit, event by event.                              *)
LEMMA Sequel ==
    /\ Append(<< >>, "invoked") = <<"invoked">>
    /\ Append(<<"invoked">>, "denied") \in DeniedTrails
    /\ Append(<<"invoked">>, "policy_execute") \in Opened
    /\ Append(<<"invoked">>, "policy_approval") = <<"invoked", "policy_approval">>
    /\ Append(Append(<<"invoked">>, "policy_deny"), "denied") \in DeniedTrails
    /\ Append(<<"invoked", "policy_approval">>, "approval_approved") \in Opened
    /\ Append(Append(<<"invoked", "policy_approval">>, "approval_denied"), "denied") \in DeniedTrails
    /\ Append(Append(<<"invoked", "policy_approval">>, "approval_pending"), "approval_required")
         \in DeniedTrails
<1>1. /\ "invoked" \in AuditEvents
      /\ "denied" \in AuditEvents
      /\ "approval_required" \in AuditEvents
      /\ "policy_execute" \in AuditEvents
      /\ "policy_approval" \in AuditEvents
      /\ "policy_deny" \in AuditEvents
      /\ "approval_approved" \in AuditEvents
      /\ "approval_denied" \in AuditEvents
      /\ "approval_pending" \in AuditEvents
  BY DEF AuditEvents
<1>2. /\ Append(<< >>, "invoked") = <<"invoked">>
      /\ Append(<<"invoked">>, "denied") = <<"invoked", "denied">>
      /\ Append(<<"invoked">>, "policy_execute") = <<"invoked", "policy_execute">>
      /\ Append(<<"invoked">>, "policy_approval") = <<"invoked", "policy_approval">>
      /\ Append(<<"invoked">>, "policy_deny") = <<"invoked", "policy_deny">>
  BY <1>1, Tuples, Zenon
<1>3. Append(<<"invoked", "policy_deny">>, "denied")
        = <<"invoked", "policy_deny", "denied">>
  <2>1. /\ "invoked" \in AuditEvents
        /\ "policy_deny" \in AuditEvents
        /\ "denied" \in AuditEvents
    BY <1>1
  <2> QED  BY <2>1, Tuples, Zenon
<1>4. Append(<<"invoked", "policy_approval">>, "approval_approved")
        = <<"invoked", "policy_approval", "approval_approved">>
  <2>1. /\ "invoked" \in AuditEvents
        /\ "policy_approval" \in AuditEvents
        /\ "approval_approved" \in AuditEvents
    BY <1>1
  <2> QED  BY <2>1, Tuples, Zenon
<1>5. Append(<<"invoked", "policy_approval">>, "approval_denied")
        = <<"invoked", "policy_approval", "approval_denied">>
  <2>1. /\ "invoked" \in AuditEvents
        /\ "policy_approval" \in AuditEvents
        /\ "approval_denied" \in AuditEvents
    BY <1>1
  <2> QED  BY <2>1, Tuples, Zenon
<1>6. Append(<<"invoked", "policy_approval", "approval_denied">>, "denied")
        = <<"invoked", "policy_approval", "approval_denied", "denied">>
  <2>1. /\ "invoked" \in AuditEvents
        /\ "policy_approval" \in AuditEvents
        /\ "approval_denied" \in AuditEvents
        /\ "denied" \in AuditEvents
    BY <1>1
  <2> QED  BY <2>1, Tuples, SMT
<1>7. Append(<<"invoked", "policy_approval">>, "approval_pending")
        = <<"invoked", "policy_approval", "approval_pending">>
  <2>1. /\ "invoked" \in AuditEvents
        /\ "policy_approval" \in AuditEvents
        /\ "approval_pending" \in AuditEvents
    BY <1>1
  <2> QED  BY <2>1, Tuples, Zenon
<1>8. Append(<<"invoked", "policy_approval", "approval_pending">>, "approval_required")
        = <<"invoked", "policy_approval", "approval_pending", "approval_required">>
  <2>1. /\ "invoked" \in AuditEvents
        /\ "policy_approval" \in AuditEvents
        /\ "approval_pending" \in AuditEvents
        /\ "approval_required" \in AuditEvents
    BY <1>1
  <2> QED  BY <2>1, Tuples, SMT
<1> QED  BY <1>2, <1>3, <1>4, <1>5, <1>6, <1>7, <1>8, Zenon DEF DeniedTrails, Opened

LEMMA LastEvent == \A t \in Closed : Append(t, "executed") \in GrantedTrails
<1> DEFINE G == {<<"policy_execute">>, <<"policy_approval", "approval_approved">>}
           P == {<< >>, <<"publish_failed">>}
<1>0. /\ "invoked" \in AuditEvents
      /\ "policy_execute" \in AuditEvents
      /\ "policy_approval" \in AuditEvents
      /\ "approval_approved" \in AuditEvents
      /\ "op_started" \in AuditEvents
      /\ "publish_failed" \in AuditEvents
      /\ "op_completed" \in AuditEvents
      /\ "executed" \in AuditEvents
  BY DEF AuditEvents
<1>1. ASSUME NEW o \in Opened
      PROVE  o \in Seq(AuditEvents) /\ \E g \in G : o = <<"invoked">> \o g
  <2>1. /\ <<"invoked">> \o <<"policy_execute">> = <<"invoked", "policy_execute">>
        /\ <<"invoked">> \o <<"policy_approval", "approval_approved">>
              = <<"invoked", "policy_approval", "approval_approved">>
    <3>1. <<"invoked">> \in Seq(AuditEvents)
      BY <1>0
    <3>2. /\ <<"invoked">> \o <<"policy_execute">> = Append(<<"invoked">>, "policy_execute")
          /\ <<"invoked">> \o <<"policy_approval", "approval_approved">>
                = Append(Append(<<"invoked">>, "policy_approval"), "approval_approved")
      BY <1>0, <3>1, Ends, Zenon
    <3>3. /\ Append(<<"invoked">>, "policy_execute") = <<"invoked", "policy_execute">>
          /\ Append(<<"invoked">>, "policy_approval") = <<"invoked", "policy_approval">>
      BY <1>0, Tuples, Zenon
    <3>4. Append(<<"invoked", "policy_approval">>, "approval_approved")
            = <<"invoked", "policy_approval", "approval_approved">>
      <4>1. /\ "invoked" \in AuditEvents /\ "policy_approval" \in AuditEvents
            /\ "approval_approved" \in AuditEvents
        BY <1>0
      <4> QED  BY <4>1, Tuples, Zenon
    <3> QED  BY <3>2, <3>3, <3>4, Zenon
  <2>2. /\ <<"invoked", "policy_execute">> \in Seq(AuditEvents)
        /\ <<"invoked", "policy_approval", "approval_approved">> \in Seq(AuditEvents)
    BY <1>0
  <2> QED  BY <2>1, <2>2, Zenon DEF Opened
<1>2. ASSUME NEW u \in Published
      PROVE  /\ u \in Seq(AuditEvents)
             /\ \E g \in G, p \in P : u = <<"invoked">> \o g \o <<"op_started">> \o p
  <2>1. PICK o \in Opened : u \in {Append(o, "op_started"), Append(Append(o, "op_started"), "publish_failed")}
    BY DEF Published, Begun, After
  <2>2. PICK g \in G : o = <<"invoked">> \o g
    BY <1>1
  <2>3. Append(o, "op_started") \in Seq(AuditEvents)
    BY <1>0, <1>1
  <2>4. /\ Append(o, "op_started") = o \o <<"op_started">>
        /\ \A b \in Seq(AuditEvents) : b \o << >> = b
        /\ \A b \in Seq(AuditEvents) : b \o <<"publish_failed">> = Append(b, "publish_failed")
    BY <1>0, <1>1, Ends
  <2>5. u \in Seq(AuditEvents)
    <3>1. Append(Append(o, "op_started"), "publish_failed") \in Seq(AuditEvents)
      BY <1>0, <2>3
    <3> QED  BY <2>1, <2>3, <3>1, Zenon
  <2> HIDE DEF G
  <2>6. \E p \in P : u = o \o <<"op_started">> \o p
    BY <2>1, <2>3, <2>4, Zenon
  <2> QED  BY <2>2, <2>5, <2>6, Zenon
<1>3. ASSUME NEW t \in Closed PROVE Append(t, "executed") \in GrantedTrails
  <2>1. PICK u \in Published : t = Append(u, "op_completed")
    BY DEF Closed, After
  <2>2. Append(t, "executed") = u \o <<"op_completed", "executed">>
    BY <1>0, <1>2, <2>1, Ends
  <2>3. PICK g \in G, p \in P : u = <<"invoked">> \o g \o <<"op_started">> \o p
    BY <1>2
  <2> DEFINE T(h, q) == <<"invoked">> \o h \o <<"op_started">> \o q \o <<"op_completed", "executed">>
  <2>4. T(g, p) \in GrantedTrails
    <3>1. GrantedTrails = {T(h, q) : h \in G, q \in P}
      BY DEF GrantedTrails
    <3> HIDE DEF T, G, P
    <3> QED  BY <3>1
  <2> QED  BY <2>2, <2>3, <2>4, Zenon
<1> QED  BY <1>3

-----------------------------------------------------------------------------
(* A call that moves leaves the other ones where they are.                  *)
Still(d) ==
    /\ pc'[d] = pc[d] /\ req'[d] = req[d] /\ res'[d] = res[d]
    /\ ans'[d] = ans[d] /\ trail'[d] = trail[d]

LEMMA OthersStay ==
    ASSUME OwnTypes, NEW c \in Calls, Call(c), NEW d \in Calls \ {c}
    PROVE  Still(d)
<1> USE DEF OwnTypes, Still, Abort, Emit, Settle, ObserverBlocks, FailTo
<1>1. CASE Receive(c)
  BY <1>1 DEF Receive
<1>2. CASE Gates(c)
  BY <1>2 DEF Gates, AuthorizationDenial
<1>3. CASE Refused(c)
  BY <1>3 DEF Refused
<1>4. CASE PreCall(c)
  BY <1>4 DEF PreCall
<1>5. CASE PreDenied(c)
  BY <1>5 DEF PreDenied
<1>6. CASE Policy(c)
  BY <1>6 DEF Policy
<1>7. CASE Approval(c)
  BY <1>7 DEF Approval
<1>8. CASE Closing(c)
  BY <1>8 DEF Closing
<1>9. CASE Start(c)
  BY <1>9 DEF Start
<1>10. CASE Operate(c)
  BY <1>10 DEF Operate
<1>11. CASE PublishEvent(c)
  BY <1>11 DEF PublishEvent
<1>12. CASE Complete(c)
  BY <1>12 DEF Complete
<1>13. CASE Failing(c)
  BY <1>13 DEF Failing
<1>14. CASE PostCall(c)
  BY <1>14 DEF PostCall
<1>15. CASE Finish(c)
  BY <1>15 DEF Finish
<1> QED  BY <1>1, <1>2, <1>3, <1>4, <1>5, <1>6, <1>7, <1>8, <1>9, <1>10, <1>11, <1>12, <1>13,
            <1>14, <1>15 DEF Call

(* A call that fails outside the provider has an error for an answer.       *)
LEMMA AbortStory ==
    ASSUME OwnTypes, NEW c \in Calls, Abort(c)
    PROVE  Story(c)'
<1>1. pc'[c] = "done" /\ ans'[c] = "error"
  BY DEF OwnTypes, Abort
<1> QED  BY <1>1 DEF Story, Executed

(* The audit takes an event: where the call is then, with what trail.       *)
LEMMA EmitStory ==
    ASSUME OwnTypes, NEW c \in Calls, NEW e \in AuditEvents, NEW p, NEW a, Emit(c, e, p, a),
           pc[c] # "done",
           /\ pc'[c] = p /\ ans'[c] = a /\ trail'[c] = Append(trail[c], e) /\ res' = res => Story(c)'
    PROVE  Story(c)'
<1>1. CASE Abort(c)
  BY <1>1, AbortStory
<1>2. CASE ~Abort(c)
  <2>1. trail' = [trail EXCEPT ![c] = Append(@, e)]
    BY <1>2 DEF Emit
  <2>2. trail'[c] = Append(trail[c], e)
    BY <2>1, AppendTrail DEF OwnTypes
  <2>3. pc'[c] = p /\ ans'[c] = a /\ res' = res
    BY <1>2 DEF Emit, OwnTypes
  <2> QED  BY <2>2, <2>3
<1> QED  BY <1>1, <1>2

LEMMA SettleStory ==
    ASSUME OwnTypes, NEW c \in Calls, NEW s \in Statuses, NEW p, Settle(c, s, p)
    PROVE  /\ pc'[c] = p /\ ans'[c] = ans[c] /\ trail'[c] = trail[c]
           /\ res'[c].status = s /\ res'[c].rec = res[c].rec
<1>1. res' = [res EXCEPT ![c].status = s]
  BY DEF Settle
<1>2. res'[c].status = s /\ res'[c].rec = res[c].rec
  BY <1>1, SetStatus DEF OwnTypes
<1> QED  BY <1>2 DEF Settle, OwnTypes

LEMMA BeforeStory ==
    ASSUME OwnTypes, NEW c \in Calls, Progress(c), Story(c), IInv,
           \/ Receive(c) \/ Gates(c) \/ Refused(c) \/ PreCall(c) \/ PreDenied(c)
           \/ Policy(c) \/ Approval(c) \/ Closing(c)
    PROVE  Story(c)'
<1> USE DEF AuditEvents
<1>0. pc[c] # "done" /\ ans[c] = "none"
  BY DEF Receive, Gates, Refused, PreCall, PreDenied, Policy, Approval, Closing, Progress
<1>m. ASSUME NEW p \in {"refused", "pre_call", "policy", "pre_denied"}, pc'[c] = p, trail'[c] = trail[c],
             ans'[c] = ans[c], pc[c] \in {"gates", "pre_call"}
      PROVE  Story(c)'
  BY <1>0, <1>m DEF Story, Executed
<1>1. CASE Receive(c)
  <2>1. Emit(c, "invoked", "gates", "none") /\ trail[c] = << >>
    BY <1>1 DEF Receive, Story
  <2>2. /\ pc'[c] = "gates" /\ ans'[c] = "none" /\ trail'[c] = Append(trail[c], "invoked")
        => Story(c)'
    BY <2>1, Sequel DEF Story, Executed
  <2> QED  BY <1>0, <2>1, <2>2, EmitStory
<1>2. CASE Gates(c)
  <2>1. CASE Settle(c, "denied", "closing")
    <3>1. /\ pc'[c] = "closing" /\ ans'[c] = ans[c] /\ trail'[c] = trail[c]
          /\ res'[c].status = "denied"
      BY <2>1, SettleStory DEF Statuses
    <3>2. trail[c] = <<"invoked">>
      BY <1>2 DEF Gates, Story
    <3> QED  BY <1>0, <3>1, <3>2, Sequel DEF Story, Executed
  <2>2. CASE ~Settle(c, "denied", "closing")
    BY <1>2, <1>m, <2>2 DEF Gates, AuthorizationDenial, OwnTypes
  <2> QED  BY <2>1, <2>2
<1>3. CASE Refused(c)
  <2>1. ans'[c] = "error" /\ pc'[c] = "done" => Story(c)'
    BY DEF Story, Executed
  <2> QED  BY <1>0, <1>3, <2>1, EmitStory DEF Refused
<1>4. CASE PreCall(c)
  <2>1. CASE ObserverBlocks(c) \/ Abort(c)
    BY <2>1, AbortStory DEF ObserverBlocks
  <2>2. CASE Settle(c, "denied", "pre_denied")
    BY <1>4, <1>m, <2>2 DEF PreCall, Settle, OwnTypes
  <2>3. CASE pc' = [pc EXCEPT ![c] = "policy"] /\ UNCHANGED <<res, ans, trail>>
    BY <1>4, <1>m, <2>3 DEF PreCall, OwnTypes
  <2> QED  BY <1>4, <2>1, <2>2, <2>3 DEF PreCall
<1>5. CASE PreDenied(c)
  <2>1. CASE ObserverBlocks(c)
    BY <2>1, AbortStory DEF ObserverBlocks
  <2>2. CASE Emit(c, "denied", "done", "denied")
    <3>1. trail[c] = <<"invoked">>
      BY <1>5 DEF PreDenied, Story
    <3>2. /\ pc'[c] = "done" /\ ans'[c] = "denied" /\ trail'[c] = Append(trail[c], "denied")
          => Story(c)'
      BY <3>1, Sequel DEF Story, Executed
    <3> QED  BY <1>0, <2>2, <3>2, EmitStory
  <2> QED  BY <1>5, <2>1, <2>2 DEF PreDenied
<1>6. CASE Policy(c)
  <2>0. trail[c] = <<"invoked">>
    BY <1>6 DEF Policy, Story
  <2>1. CASE Abort(c)
    BY <2>1, AbortStory
  <2>2. ASSUME NEW d \in {"policy_execute", "policy_approval", "policy_deny"},
               trail' = [trail EXCEPT ![c] = Append(@, d)],
               pc' = [pc EXCEPT ![c] = AfterPolicy[d]],
               res' = IF d = "policy_deny" THEN [res EXCEPT ![c].status = "denied"] ELSE res,
               UNCHANGED ans
        PROVE  Story(c)'
    <3>1. trail'[c] = Append(<<"invoked">>, d) /\ pc'[c] = AfterPolicy[d] /\ ans'[c] = "none"
      BY <1>0, <2>0, <2>2, AppendTrail DEF OwnTypes
    <3>2. CASE d = "policy_execute"
      BY <3>1, <3>2, Sequel DEF Story, Executed, AfterPolicy
    <3>3. CASE d = "policy_approval"
      BY <3>1, <3>3, Sequel DEF Story, Executed, AfterPolicy
    <3>4. CASE d = "policy_deny"
      <4>1. res'[c].status = "denied"
        BY <2>2, <3>4, SetStatus DEF OwnTypes, Statuses
      <4> QED  BY <3>1, <3>4, <4>1, Sequel DEF Story, Executed, AfterPolicy
    <3> QED  BY <3>2, <3>3, <3>4
  <2>3. \A mode \in {"auto", "require_approval", "deny"}, required \in BOOLEAN :
            PolicyDecision(mode, required) \in {"policy_execute", "policy_approval", "policy_deny"}
    BY DEF PolicyDecision
  <2> QED  BY <1>6, <2>1, <2>2, <2>3 DEF Policy
<1>7. CASE Approval(c)
  <2>0. trail[c] = <<"invoked", "policy_approval">>
    BY <1>7 DEF Approval, Story
  <2>1. CASE Abort(c)
    BY <2>1, AbortStory
  <2>2. ASSUME NEW d \in DOMAIN AfterApproval,
               trail' = [trail EXCEPT ![c] = Append(@, d)],
               pc' = [pc EXCEPT ![c] = AfterApproval[d][1]],
               res' = [res EXCEPT ![c].status = AfterApproval[d][2]],
               UNCHANGED ans
        PROVE  Story(c)'
    <3>1. \/ d = "approval_approved" /\ AfterApproval[d] = <<"start", "none">>
          \/ d = "approval_denied" /\ AfterApproval[d] = <<"closing", "denied">>
          \/ d = "approval_pending" /\ AfterApproval[d] = <<"closing", "approval_required">>
      BY <2>2 DEF AfterApproval
    <3>2. \/ d = "approval_approved" /\ AfterApproval[d][1] = "start" /\ AfterApproval[d][2] = "none"
          \/ d = "approval_denied" /\ AfterApproval[d][1] = "closing" /\ AfterApproval[d][2] = "denied"
          \/ /\ d = "approval_pending" /\ AfterApproval[d][1] = "closing"
             /\ AfterApproval[d][2] = "approval_required"
      BY <3>1
    <3>3. AfterApproval[d][2] \in Statuses /\ d \in AuditEvents
      BY <3>2 DEF Statuses
    <3>4. /\ trail'[c] = Append(<<"invoked", "policy_approval">>, d)
          /\ pc'[c] = AfterApproval[d][1] /\ ans'[c] = "none"
          /\ res'[c].status = AfterApproval[d][2]
      BY <1>0, <2>0, <2>2, <3>3, AppendTrail, SetStatus DEF OwnTypes
    <3> QED  BY <3>2, <3>4, Sequel DEF Story, Executed
  <2> QED  BY <1>7, <2>1, <2>2 DEF Approval
<1>8. CASE Closing(c)
  <2>1. res[c].status \in {"denied", "approval_required"} /\ Append(trail[c], res[c].status) \in DeniedTrails
    BY <1>8 DEF Closing, IInv, Shape, Story
  <2>2. /\ pc'[c] = "done" /\ ans'[c] = res[c].status /\ trail'[c] = Append(trail[c], res[c].status)
        => Story(c)'
    BY <2>1 DEF Story, Executed
  <2> QED  BY <1>0, <1>8, <2>1, <2>2, EmitStory DEF Closing
<1> QED BY <1>1, <1>2, <1>3, <1>4, <1>5, <1>6, <1>7, <1>8

LEMMA ProviderStory ==
    ASSUME db \in Keyspace, OwnTypes, Asked, NEW c \in Calls, Progress(c), Story(c),
           \/ Start(c) \/ Operate(c) \/ PublishEvent(c) \/ Complete(c) \/ Failing(c)
           \/ PostCall(c) \/ Finish(c)
    PROVE  Story(c)'
<1> USE DEF AuditEvents
<1>0. pc[c] # "done" /\ ans[c] = "none"
  BY DEF Start, Operate, PublishEvent, Complete, Failing, PostCall, Finish, Progress
<1>f. ASSUME pc'[c] = "failing", ans'[c] = ans[c] PROVE Story(c)'
  BY <1>0, <1>f DEF Story, Executed
<1>g. ASSUME FailTo(c) PROVE Story(c)'
  BY <1>f, <1>g DEF FailTo, OwnTypes
<1>e. ASSUME NEW e \in AuditEvents, trail' = [trail EXCEPT ![c] = Append(@, e)]
      PROVE  trail'[c] = Append(trail[c], e)
  BY <1>e, AppendTrail DEF OwnTypes
<1>1. CASE Start(c)
  <2>1. CASE FailTo(c)
    BY <1>g, <2>1
  <2>2. CASE ~FailTo(c)
    <3>1. /\ trail'[c] = Append(trail[c], "op_started") /\ pc'[c] = "operate" /\ ans'[c] = ans[c]
          /\ trail[c] \in Opened
      BY <1>1, <1>e, <2>2 DEF Start, Story, OwnTypes
    <3>2. trail'[c] \in Begun
      BY <3>1 DEF Begun, After
    <3> QED  BY <1>0, <3>1, <3>2 DEF Story, Executed
  <2> QED  BY <2>1, <2>2
<1>2. CASE Operate(c)
  <2>0. pc[c] = "operate" /\ trail[c] \in Begun
    BY <1>2 DEF Operate, Story
  <2>1. CASE FailTo(c)
    BY <1>g, <2>1
  <2>2. CASE Settle(c, "unknown", "failing")
    BY <1>f, <2>2, SettleStory DEF Statuses
  <2>3. CASE /\ Perform(req[c]).res.code = "ok"
             /\ res' = [res EXCEPT ![c] = Result(req[c])]
             /\ pc' = [pc EXCEPT ![c] = AfterOperate(req[c], Result(req[c]))]
             /\ UNCHANGED <<ans, trail>>
    <3>1. req[c] \in Requests /\ (req[c].kind = "create" => AutoIdInBound(db))
      BY <1>2, <2>0 DEF Asked, Operate
    <3>2. Result(req[c]).status \in Executed
      <4>1. ChangesNothing(req[c]) \/ InsertsRecord(req[c]) \/ WritesRecord(req[c])
        BY <2>3, <3>1, Operations
      <4> QED  BY <4>1 DEF ChangesNothing, InsertsRecord, WritesRecord, Executed
    <3>3. /\ pc'[c] \in {"publish", "complete"} /\ trail'[c] = trail[c] /\ ans'[c] = ans[c]
          /\ res'[c].status \in Executed
      BY <2>3, <3>2 DEF AfterOperate, OwnTypes
    <3> QED  BY <1>0, <2>0, <3>3 DEF Story, Executed, Published
  <2> QED  BY <1>2, <2>1, <2>2, <2>3 DEF Operate, Result
<1>3. CASE PublishEvent(c)
  <2>1. /\ trail[c] \in Begun /\ pc'[c] = "complete" /\ ans'[c] = ans[c] /\ res' = res
        /\ res[c].status \in Executed
    BY <1>3 DEF PublishEvent, Story, OwnTypes
  <2>2. trail'[c] \in Published
    <3>1. CASE trail' = trail
      BY <2>1, <3>1 DEF Published
    <3>2. CASE trail' = [trail EXCEPT ![c] = Append(@, "publish_failed")]
      BY <1>e, <2>1, <3>2 DEF Published, After
    <3> QED  BY <1>3, <3>1, <3>2 DEF PublishEvent
  <2> QED  BY <1>0, <2>1, <2>2 DEF Story, Executed
<1>4. CASE Complete(c)
  <2>1. CASE FailTo(c)
    BY <1>g, <2>1
  <2>2. CASE ~FailTo(c)
    <3>1. /\ trail'[c] = Append(trail[c], "op_completed") /\ pc'[c] = "post_call" /\ ans'[c] = ans[c]
          /\ trail[c] \in Published /\ res' = res /\ res[c].status \in Executed
      BY <1>4, <1>e, <2>2 DEF Complete, Story, OwnTypes
    <3>2. trail'[c] \in Closed
      BY <3>1 DEF Closed, After
    <3> QED  BY <1>0, <3>1, <3>2 DEF Story, Executed
  <2> QED  BY <2>1, <2>2
<1>5. CASE Failing(c)
  <2>1. ans'[c] = "error" /\ pc'[c] = "done" => Story(c)'
    BY DEF Story, Executed
  <2>2. CASE ObserverBlocks(c)
    BY <2>2, AbortStory DEF ObserverBlocks
  <2>3. CASE Emit(c, "failed", "done", "error")
    BY <1>0, <2>1, <2>3, EmitStory
  <2> QED  BY <1>5, <2>2, <2>3 DEF Failing
<1>6. CASE PostCall(c)
  <2>0. pc[c] = "post_call" /\ trail[c] \in Closed /\ res[c].status \in Executed
    BY <1>6 DEF PostCall, Story
  <2>1. CASE Abort(c)
    BY <2>1, AbortStory
  <2>2. CASE Settle(c, "denied", "finish")
    <3>1. /\ pc'[c] = "finish" /\ ans'[c] = ans[c] /\ trail'[c] = trail[c] /\ res'[c].status = "denied"
      BY <2>2, SettleStory DEF Statuses
    <3> QED  BY <1>0, <2>0, <3>1 DEF Story, Executed
  <2>3. CASE pc' = [pc EXCEPT ![c] = "finish"] /\ UNCHANGED <<res, ans, trail>>
    <3>1. pc'[c] = "finish"
      BY <2>3 DEF OwnTypes
    <3> QED  BY <1>0, <2>0, <2>3, <3>1 DEF Story, Executed
  <2> QED  BY <1>6, <2>1, <2>2, <2>3 DEF PostCall
<1>7. CASE Finish(c)
  <2>0. trail[c] \in Closed /\ res[c].status \in Executed \cup {"denied"}
    BY <1>7 DEF Finish, Story
  <2>1. CASE ObserverBlocks(c)
    BY <2>1, AbortStory DEF ObserverBlocks
  <2>2. CASE Emit(c, "executed", "done", res[c].status)
    <3>1. /\ pc'[c] = "done" /\ ans'[c] = res[c].status /\ trail'[c] = Append(trail[c], "executed")
          => Story(c)'
      BY <2>0, LastEvent DEF Story, Executed
    <3> QED  BY <1>0, <2>2, <3>1, EmitStory
  <2> QED  BY <1>7, <2>1, <2>2 DEF Finish
<1> QED  BY <1>1, <1>2, <1>3, <1>4, <1>5, <1>6, <1>7

(* Calls that stand still, and calls that a crash ends.                     *)
LEMMA StillStory ==
    ASSUME NEW d \in Calls, Story(d), pc'[d] = pc[d], res'[d] = res[d], ans'[d] = ans[d],
           trail'[d] = trail[d]
    PROVE  Story(d)'
BY DEF Story

LEMMA CrashOwn ==
    ASSUME Crash, NEW d \in Calls
    PROVE  /\ UNCHANGED <<req, res, trail>>
           /\ \/ pc'[d] = pc[d] /\ ans'[d] = ans[d]
              \/ pc[d] # "idle" /\ pc'[d] = "done" /\ ans'[d] = "lost"
BY DEF Crash

LEMMA StepStory ==
    ASSUME db \in Keyspace, OwnTypes, Asked, IInv, \A c \in Calls : Story(c), [Next]_vars
    PROVE  OwnTypes' /\ Asked' /\ \A c \in Calls : Story(c)'
<1>1. ASSUME NEW c \in Calls, Call(c) PROVE OwnTypes' /\ Asked' /\ \A d \in Calls : Story(d)'
  <2>1. OwnTypes'
    BY <1>1, BeforeTypes, ProviderTypes DEF Call
  <2>2. Story(c)' /\ Progress(c)
    BY <1>1, BeforeStory, ProviderStory DEF Call, IInv
  <2>3. \A d \in Calls \ {c} : Still(d)
    BY <1>1, OthersStay
  <2>4. \A d \in Calls \ {c} : Story(d)'
    BY <2>3, StillStory DEF Still
  <2>5. req'[c] \in Requests
    <3>1. CASE Receive(c)
      BY <3>1 DEF Receive, OwnTypes
    <3>2. CASE PreCall(c)
      BY <3>2 DEF PreCall, OwnTypes, Asked
    <3>3. CASE ~Receive(c) /\ ~PreCall(c)
      <4>1. req' = req /\ pc[c] # "idle"
        BY <1>1, <3>3 DEF Call, Gates, Refused, PreDenied, Policy, Approval, Closing, Start, Operate,
           PublishEvent, Complete, Failing, PostCall, Finish
      <4> QED  BY <4>1 DEF Asked
    <3> QED  BY <3>1, <3>2, <3>3
  <2> QED  BY <2>1, <2>2, <2>3, <2>4, <2>5 DEF Asked, Still
<1>2. CASE Crash
  <2>1. OwnTypes'
    BY <1>2 DEF Crash, OwnTypes, Places, Answers
  <2>2. Asked'
    BY <1>2, CrashOwn DEF Asked
  <2>3. ASSUME NEW d \in Calls PROVE Story(d)'
    <3>1. /\ UNCHANGED <<req, res, trail>>
          /\ \/ pc'[d] = pc[d] /\ ans'[d] = ans[d]
             \/ pc'[d] = "done" /\ ans'[d] = "lost"
      BY <1>2, CrashOwn
    <3>2. CASE pc'[d] = pc[d] /\ ans'[d] = ans[d]
      BY <3>1, <3>2, StillStory
    <3>3. CASE pc'[d] = "done" /\ ans'[d] = "lost"
      BY <3>3 DEF Story, Executed
    <3> QED  BY <3>1, <3>2, <3>3
  <2> QED  BY <2>1, <2>2, <2>3
<1>3. CASE Sink \/ UNCHANGED vars
  <2>1. UNCHANGED <<pc, req, res, ans, trail>>
    BY <1>3 DEF Sink, vars
  <2> QED  BY <2>1, StillStory DEF OwnTypes, Asked
<1> QED  BY <1>1, <1>2, <1>3 DEF Next

-----------------------------------------------------------------------------
(* What an operation that is done leaves: the place, the result and the     *)
(* commit that go with each of its outcomes.                                *)
Sent(c) == Envelope(c, req[c], Result(req[c]))

LEMMA OperateOutcome ==
    ASSUME db \in Keyspace, OwnTypes, Asked, NEW c \in Calls, Operate(c)
    PROVE  /\ pc[c] = "operate" /\ req[c] \in Requests
           /\ UNCHANGED <<req, ans, trail, handed, crashes, sinkVars>>
           /\ db' \in Keyspace
           /\ \/ pc'[c] = "failing" /\ db' = db /\ commits' = commits
              \/ /\ \/ pc'[c] = AfterOperate(req[c], Result(req[c])) /\ res'[c] = Result(req[c])
                    \/ pc'[c] = "failing" /\ res'[c].status = "unknown"
                 /\ db' = Perform(req[c]).db
                 /\ \/ ChangesNothing(req[c]) /\ commits' = commits
                    \/ InsertsRecord(req[c]) /\ commits' = commits \cup {Sent(c)}
                    \/ WritesRecord(req[c]) /\ commits' = commits \cup {Sent(c)}
<1>0. pc[c] = "operate" /\ UNCHANGED <<req, ans, trail, handed, crashes, sinkVars>>
  BY DEF Operate, FailTo, Settle
<1>1. req[c] \in Requests /\ (req[c].kind = "create" => AutoIdInBound(db))
  BY <1>0 DEF Asked, Operate
<1>2. CASE FailTo(c) /\ UNCHANGED <<db, commits>>
  BY <1>0, <1>1, <1>2 DEF FailTo, OwnTypes
<1>3. CASE /\ Perform(req[c]).res.code = "ok"
           /\ db' = Perform(req[c]).db
           /\ commits' = IF Perform(req[c]).db.ents = db.ents THEN commits ELSE commits \cup {Sent(c)}
           /\ \/ /\ res' = [res EXCEPT ![c] = Result(req[c])]
                 /\ pc' = [pc EXCEPT ![c] = AfterOperate(req[c], Result(req[c]))]
              \/ Settle(c, "unknown", "failing")
  <2>1. /\ db' \in Keyspace
        /\ ChangesNothing(req[c]) \/ InsertsRecord(req[c]) \/ WritesRecord(req[c])
    BY <1>1, <1>3, Operations
  <2>2. \/ ChangesNothing(req[c]) /\ commits' = commits
        \/ InsertsRecord(req[c]) /\ commits' = commits \cup {Sent(c)}
        \/ WritesRecord(req[c]) /\ commits' = commits \cup {Sent(c)}
    BY <1>3, <2>1 DEF ChangesNothing, InsertsRecord, WritesRecord
  <2>3. \/ pc'[c] = AfterOperate(req[c], Result(req[c])) /\ res'[c] = Result(req[c])
        \/ pc'[c] = "failing" /\ res'[c].status = "unknown"
    <3>1. CASE Settle(c, "unknown", "failing")
      BY <3>1, SettleStory DEF Statuses
    <3>2. CASE /\ res' = [res EXCEPT ![c] = Result(req[c])]
               /\ pc' = [pc EXCEPT ![c] = AfterOperate(req[c], Result(req[c]))]
      BY <3>2 DEF OwnTypes
    <3> QED  BY <1>3, <3>1, <3>2
  <2> QED  BY <1>0, <1>1, <1>3, <2>1, <2>2, <2>3
<1> QED  BY <1>2, <1>3 DEF Operate, Result, Sent

(* Only Operate and PublishEvent have effects; the other steps of a call    *)
(* leave the store, the commits and the sink alone.                         *)
LEMMA NoEffect ==
    ASSUME NEW c \in Calls, Call(c), ~Operate(c), ~PublishEvent(c)
    PROVE  UNCHANGED storeVars
BY DEF Call, Receive, Gates, Refused, PreCall, PreDenied, Policy, Approval, Closing, Start,
   Complete, Failing, PostCall, Finish

(* Where a step of a call without effects leads.  Before the provider it    *)
(* keeps clear of the places behind it; after it, the request is settled    *)
(* and the result changes only by a denial.                                 *)
QuietBefore(c) ==
    /\ pc[c] \notin Effects
    /\ pc'[c] \notin {"publish", "complete", "post_call", "finish"}
    /\ ans'[c] # "created"

QuietAfter(c) ==
    /\ req'[c] = req[c]
    /\ \/ /\ pc[c] \in {"failing", "post_call", "finish"} /\ pc'[c] = "done"
          /\ ans'[c] = "error" /\ res'[c] = res[c]
       \/ pc[c] = "complete" /\ pc'[c] \in {"failing", "post_call"} /\ res'[c] = res[c]
              /\ ans'[c] = ans[c]
       \/ /\ pc[c] = "post_call" /\ pc'[c] = "finish" /\ ans'[c] = ans[c]
          /\ res'[c] = res[c] \/ res'[c].status = "denied"
       \/ pc[c] = "finish" /\ pc'[c] = "done" /\ res'[c] = res[c] /\ ans'[c] = res[c].status

LEMMA QuietMove ==
    ASSUME OwnTypes, IInv, NEW c \in Calls, Call(c), ~Operate(c), ~PublishEvent(c)
    PROVE  ans[c] = "none" /\ pc[c] # "publish" /\ (QuietBefore(c) \/ QuietAfter(c))
<1>0. ans[c] = "none" /\ pc[c] # "publish"
  BY DEF Call, Receive, Gates, Refused, PreCall, PreDenied, Policy, Approval, Closing, Start, Operate,
     PublishEvent, Complete, Failing, PostCall, Finish, IInv, Progress
<1>a. ASSUME Abort(c) PROVE pc'[c] = "done" /\ ans'[c] = "error" /\ res'[c] = res[c]
  BY <1>a DEF Abort, OwnTypes
<1>b. ASSUME NEW e, NEW p, NEW a, Emit(c, e, p, a)
      PROVE  /\ res'[c] = res[c]
             /\ \/ pc'[c] = p /\ ans'[c] = a
                \/ pc'[c] = "done" /\ ans'[c] = "error"
  <2>1. CASE Abort(c)
    BY <1>a, <2>1
  <2>2. CASE ~Abort(c)
    <3>1. pc' = [pc EXCEPT ![c] = p] /\ ans' = [ans EXCEPT ![c] = a] /\ res' = res
      BY <1>b, <2>2 DEF Emit
    <3> QED  BY <3>1 DEF OwnTypes
  <2> QED  BY <2>1, <2>2
<1>c. ASSUME FailTo(c) PROVE pc'[c] = "failing" /\ ans'[c] = ans[c] /\ res'[c] = res[c]
  BY <1>c DEF FailTo, OwnTypes
<1>1. CASE Receive(c) \/ Refused(c) \/ PreDenied(c)
  BY <1>0, <1>a, <1>b, <1>1 DEF Receive, Refused, PreDenied, ObserverBlocks, QuietBefore, Effects
<1>2. CASE Gates(c)
  BY <1>0, <1>2 DEF Gates, AuthorizationDenial, OwnTypes, Settle, QuietBefore, Effects
<1>3. CASE PreCall(c)
  BY <1>0, <1>a, <1>3 DEF PreCall, ObserverBlocks, OwnTypes, Settle, QuietBefore, Effects
<1>4. CASE Policy(c)
  <2>1. \A mode \in {"auto", "require_approval", "deny"}, required \in BOOLEAN :
            AfterPolicy[PolicyDecision(mode, required)] \in {"start", "approval", "closing"}
    BY DEF PolicyDecision, AfterPolicy
  <2> QED  BY <1>0, <1>a, <1>4, <2>1 DEF Policy, OwnTypes, QuietBefore, Effects
<1>5. CASE Approval(c)
  <2>1. \A d \in DOMAIN AfterApproval : AfterApproval[d][1] \in {"start", "closing"}
    BY DEF AfterApproval
  <2> QED  BY <1>0, <1>a, <1>5, <2>1 DEF Approval, OwnTypes, QuietBefore, Effects
<1>6. CASE Closing(c)
  <2>1. res[c].status \in {"denied", "approval_required"}
    BY <1>6 DEF Closing, IInv, Shape
  <2> QED  BY <1>0, <1>b, <1>6, <2>1 DEF Closing, QuietBefore, Effects
<1>7. CASE Start(c)
  BY <1>0, <1>c, <1>7 DEF Start, OwnTypes, QuietBefore, Effects
<1>8. CASE Complete(c)
  BY <1>0, <1>c, <1>8 DEF Complete, OwnTypes, QuietAfter
<1>9. CASE Failing(c)
  BY <1>0, <1>a, <1>b, <1>9 DEF Failing, ObserverBlocks, QuietAfter
<1>10. CASE PostCall(c)
  <2>1. CASE Abort(c)
    BY <1>0, <1>a, <1>10, <2>1 DEF PostCall, QuietAfter
  <2>2. CASE Settle(c, "denied", "finish")
    <3>1. pc'[c] = "finish" /\ ans'[c] = ans[c] /\ res'[c].status = "denied"
      BY <2>2, SettleStory DEF Statuses
    <3> QED  BY <1>0, <1>10, <3>1 DEF PostCall, QuietAfter
  <2>3. CASE pc' = [pc EXCEPT ![c] = "finish"] /\ UNCHANGED <<res, ans, trail>>
    BY <1>0, <1>10, <2>3 DEF PostCall, QuietAfter, OwnTypes
  <2> QED  BY <1>10, <2>1, <2>2, <2>3 DEF PostCall
<1>11. CASE Finish(c)
  BY <1>0, <1>a, <1>b, <1>11 DEF Finish, ObserverBlocks, QuietAfter
<1> QED  BY <1>1, <1>2, <1>3, <1>4, <1>5, <1>6, <1>7, <1>8, <1>9, <1>10, <1>11 DEF Call

(* What a call has announced, and what it is about to answer, survive its   *)
(* own steps without effects.                                               *)
LEMMA QuietCall ==
    ASSUME OwnTypes, IInv, NEW c \in Calls, Story(c), Announcing(c), Answering(c),
           Call(c), ~Operate(c), ~PublishEvent(c)
    PROVE  Announcing(c)' /\ Answering(c)'
<1>0. UNCHANGED <<db, commits, handed>>
  BY NoEffect DEF storeVars
<1>1. Wrote(c)' = Wrote(c) /\ HandedBy(c)' = HandedBy(c)
  BY <1>0 DEF Wrote, HandedBy
<1>2. ans[c] = "none" /\ pc[c] # "publish" /\ (QuietBefore(c) \/ QuietAfter(c))
  BY QuietMove
<1>3. CASE QuietBefore(c)
  <2>1. ~Wrote(c) /\ ~HandedBy(c)
    BY <1>3 DEF IInv, Progress, QuietBefore
  <2> QED  BY <1>1, <1>3, <2>1 DEF QuietBefore, Announcing, Answering
<1>4. CASE QuietAfter(c)
  <2>1. Announcing(c)'
    BY <1>1, <1>2, <1>4 DEF QuietAfter, Announcing
  <2>2. Answering(c)'
    BY <1>0, <1>2, <1>4 DEF QuietAfter, Answering
  <2> QED  BY <2>1, <2>2
<1> QED  BY <1>2, <1>3, <1>4

(* The same for a call that stands still while others commit and announce.  *)
LEMMA StillEffects ==
    ASSUME NEW d \in Calls, Still(d), Announcing(d), Answering(d),
           Wrote(d)' = Wrote(d), HandedBy(d)' = HandedBy(d), commits \subseteq commits',
           \A k \in Keys : db.idem[k] # NoRecord => db'.idem[k] = db.idem[k]
    PROVE  Announcing(d)' /\ Answering(d)'
<1>1. Announcing(d)'
  BY DEF Still, Announcing
<1>2. Answering(d)'
  <2>1. Told(Envelope(d, req[d], res[d])) => Told(Envelope(d, req[d], res[d]))'
    BY DEF Still, Told, Envelope
  <2> QED  BY <2>1 DEF Still, Answering
<1> QED  BY <1>1, <1>2

-----------------------------------------------------------------------------
(* The rest of the types: the store, the histories and the sink.            *)
SinkTypes ==
    /\ queue \in Seq(Envelopes) /\ Len(queue) <= Capacity
    /\ publisher \in Publishers
    /\ delivered \in Seq(Envelopes)

EffectTypes ==
    /\ db \in Keyspace
    /\ commits \subseteq Envelopes
    /\ handed \subseteq Envelopes
    /\ crashes \in 0 .. MaxCrashes

LEMMA NoRecordId == NoRecord \notin Record /\ NoRecord.ver = 0
BY BoundsAssumption DEF NoRecord, Record, Ids, NoId

(* An envelope is made of the call, the kind of the request and the result. *)
LEMMA SentFields ==
    ASSUME NEW c \in Calls, NEW r \in Requests, InsertsRecord(r) \/ WritesRecord(r)
    PROVE  /\ Envelope(c, r, Result(r)) \in Envelopes
           /\ Envelope(c, r, Result(r)).call = c
           /\ Envelope(c, r, Result(r)).what = r.kind
           /\ InsertsRecord(r) => /\ Envelope(c, r, Result(r)).id = Result(r).rec.id
                                  /\ Envelope(c, r, Result(r)).ver = Result(r).rec.ver
<1> DEFINE e == Envelope(c, r, Result(r))
<1>1. /\ e = [call |-> c, what |-> r.kind,
              id |-> IF r.kind = "delete" THEN r.op.id ELSE Result(r).rec.id, ver |-> Result(r).rec.ver]
  BY DEF Envelope
<1>2. r.kind \in {"create", "update", "delete"}
  BY DEF InsertsRecord, WritesRecord
<1>3. Result(r).rec.ver \in Nat /\ (r.kind # "delete" => Result(r).rec.id \in Ids)
  BY NoRecordId DEF InsertsRecord, WritesRecord, Record
<1>4. r.kind = "delete" => r.op.id \in Ids
  BY RequestOps
<1>5. e \in Envelopes
  BY <1>1, <1>2, <1>3, <1>4 DEF Envelopes
<1> QED  BY <1>1, <1>5 DEF InsertsRecord

(* An operation that is done: the types, the calls' obligations and the     *)
(* answers kept under the keys.                                             *)
LEMMA OperateTypes ==
    ASSUME EffectTypes, SinkTypes, OwnTypes, Asked, NEW c \in Calls, Operate(c)
    PROVE  EffectTypes' /\ SinkTypes'
<1>1. /\ db' \in Keyspace /\ req[c] \in Requests
      /\ UNCHANGED <<handed, crashes, sinkVars>>
      /\ \/ commits' = commits
         \/ InsertsRecord(req[c]) /\ commits' = commits \cup {Sent(c)}
         \/ WritesRecord(req[c]) /\ commits' = commits \cup {Sent(c)}
  BY OperateOutcome DEF EffectTypes
<1>2. commits' \subseteq Envelopes
  BY <1>1, SentFields DEF EffectTypes, Sent
<1> QED  BY <1>1, <1>2 DEF EffectTypes, SinkTypes, sinkVars

(* The answers stored under keys only grow.                                 *)
LEMMA OperateIdem ==
    ASSUME EffectTypes, OwnTypes, Asked, NEW c \in Calls, Operate(c)
    PROVE  \A k \in Keys : db.idem[k] # NoRecord => db'.idem[k] = db.idem[k]
<1>1. \/ db' = db
      \/ db' = Perform(req[c]).db /\ ChangesNothing(req[c])
      \/ db' = Perform(req[c]).db /\ InsertsRecord(req[c])
      \/ db' = Perform(req[c]).db /\ WritesRecord(req[c])
  BY OperateOutcome DEF EffectTypes
<1> QED  BY <1>1 DEF ChangesNothing, InsertsRecord, WritesRecord

LEMMA OperateCall ==
    ASSUME EffectTypes, OwnTypes, Asked, IInv, KeyInv, NEW c \in Calls, Operate(c)
    PROVE  Announcing(c)' /\ Answering(c)'
<1> DEFINE r == req[c]
<1>0. /\ pc[c] = "operate" /\ r \in Requests /\ UNCHANGED <<req, ans, handed>>
      /\ \/ pc'[c] = "failing" /\ db' = db /\ commits' = commits
         \/ /\ \/ pc'[c] = AfterOperate(r, Result(r)) /\ res'[c] = Result(r)
               \/ pc'[c] = "failing" /\ res'[c].status = "unknown"
            /\ db' = Perform(r).db
            /\ \/ ChangesNothing(r) /\ commits' = commits
               \/ InsertsRecord(r) /\ commits' = commits \cup {Sent(c)}
               \/ WritesRecord(r) /\ commits' = commits \cup {Sent(c)}
  BY OperateOutcome DEF EffectTypes
<1>1. ~Wrote(c) /\ ~HandedBy(c) /\ ans[c] = "none"
  BY <1>0 DEF IInv, Progress, Effects
<1>2. ~HandedBy(c)' /\ ans'[c] = "none"
  BY <1>0, <1>1 DEF HandedBy
<1>3. CASE pc'[c] = "failing" /\ db' = db /\ commits' = commits
  <2>1. ~Wrote(c)'
    BY <1>1, <1>3 DEF Wrote
  <2> QED  BY <1>2, <1>3, <2>1 DEF Announcing, Answering
<1>4. CASE pc'[c] = "failing" /\ res'[c].status = "unknown"
  BY <1>2, <1>4 DEF Announcing, Answering
<1>5. CASE /\ pc'[c] = AfterOperate(r, Result(r)) /\ res'[c] = Result(r)
           /\ db' = Perform(r).db /\ ChangesNothing(r) /\ commits' = commits
  <2>1. ~Wrote(c)'
    BY <1>1, <1>5 DEF Wrote
  <2>2. CASE r.kind = "create"
    <3>1. /\ pc'[c] = "publish" /\ res'[c] = [status |-> "created", rec |-> db.idem[r.op.key]]
          /\ r.op.key \in Keys /\ db.idem[r.op.key] # NoRecord /\ db'.idem = db.idem
      BY <1>5, <2>2 DEF AfterOperate, Announced, ChangesNothing
    <3>2. PICK x \in commits : /\ x.what = "create"
                               /\ x.id = db.idem[r.op.key].id /\ x.ver = db.idem[r.op.key].ver
      BY <3>1 DEF KeyInv
    <3>3. Told(Envelope(c, req[c], res[c]))'
      BY <1>0, <1>5, <2>2, <3>1, <3>2, SMTT(60) DEF Told, Envelope
    <3> QED  BY <1>0, <1>2, <2>1, <2>2, <3>1, <3>3 DEF Announcing, Answering
  <2>3. CASE r.kind # "create"
    <3>1. pc'[c] = "complete" /\ res'[c].status # "created"
      BY <1>5, <2>3 DEF AfterOperate, Announced, ChangesNothing
    <3> QED  BY <1>2, <2>1, <3>1 DEF Announcing, Answering
  <2> QED  BY <2>2, <2>3
<1>6. CASE /\ pc'[c] = AfterOperate(r, Result(r)) /\ res'[c] = Result(r)
           /\ db' = Perform(r).db /\ (InsertsRecord(r) \/ WritesRecord(r))
           /\ commits' = commits \cup {Sent(c)}
  <2>1. pc'[c] = "publish"
    BY <1>6 DEF AfterOperate, Announced, InsertsRecord, WritesRecord
  <2>2. Told(Envelope(c, req[c], res[c]))'
    BY <1>0, <1>6 DEF Told, Envelope, Sent
  <2>3. res'[c].status = "created" =>
           /\ r.kind = "create"
           /\ r.op.key \in Keys => res'[c].rec = db'.idem[r.op.key] /\ res'[c].rec # NoRecord
    BY <1>6, NoRecordId DEF InsertsRecord, WritesRecord
  <2> QED  BY <1>0, <1>2, <2>1, <2>2, <2>3 DEF Announcing, Answering
<1> QED  BY <1>0, <1>3, <1>4, <1>5, <1>6

LEMMA OperateKeys ==
    ASSUME EffectTypes, OwnTypes, Asked, KeyInv, NEW c \in Calls, Operate(c)
    PROVE  KeyInv'
<1> DEFINE r == req[c]
<1>0. /\ r \in Requests /\ UNCHANGED req
      /\ \/ db' = db /\ commits' = commits
         \/ /\ db' = Perform(r).db
            /\ \/ ChangesNothing(r) /\ commits' = commits
               \/ InsertsRecord(r) /\ commits' = commits \cup {Sent(c)}
               \/ WritesRecord(r) /\ commits' = commits \cup {Sent(c)}
  BY OperateOutcome DEF EffectTypes
<1>1. CASE db'.idem = db.idem /\ commits' = commits
  BY <1>0, <1>1 DEF KeyInv
<1>2. CASE db' = Perform(r).db /\ InsertsRecord(r) /\ commits' = commits \cup {Sent(c)}
  <2>1. /\ Sent(c).call = c /\ Sent(c).what = "create"
        /\ Sent(c).id = Result(r).rec.id /\ Sent(c).ver = Result(r).rec.ver
    BY <1>0, <1>2, SentFields DEF Sent, InsertsRecord
  <2>2. /\ r.kind = "create" /\ Result(r).rec # NoRecord
        /\ db'.idem = [k \in Keys |-> IF k = r.op.key THEN Result(r).rec ELSE db.idem[k]]
        /\ r.op.key \in Keys => db.idem[r.op.key] = NoRecord
    BY <1>2, NoRecordId DEF InsertsRecord
  <2>3. ASSUME NEW x \in commits', x.what = "create"
        PROVE  /\ req[x.call].kind = "create"
               /\ req[x.call].op.key \in Keys =>
                    db'.idem[req[x.call].op.key] # NoRecord /\ db'.idem[req[x.call].op.key].id = x.id
    BY <1>2, <2>1, <2>2, <2>3, SMTT(60) DEF KeyInv
  <2>4. ASSUME NEW k \in Keys, db'.idem[k] # NoRecord
        PROVE  \E x \in commits' : /\ x.what = "create" /\ req[x.call].op.key = k
                                   /\ x.id = db'.idem[k].id /\ x.ver = db'.idem[k].ver
    <3>1. CASE k = r.op.key
      <4>1. db'.idem[k] = Result(r).rec /\ Sent(c) \in commits' /\ req[Sent(c).call].op.key = k
        BY <1>2, <2>1, <2>2, <3>1
      <4> QED  BY <2>1, <4>1
    <3>2. CASE k # r.op.key
      BY <1>2, <2>2, <2>4, <3>2 DEF KeyInv
    <3> QED  BY <3>1, <3>2
  <2> QED  BY <1>0, <2>3, <2>4 DEF KeyInv
<1>3. CASE db' = Perform(r).db /\ WritesRecord(r) /\ commits' = commits \cup {Sent(c)}
  <2>1. Sent(c).what # "create" /\ db'.idem = db.idem
    BY <1>0, <1>3, SentFields DEF Sent, WritesRecord
  <2> QED  BY <1>0, <1>3, <2>1 DEF KeyInv
<1> QED  BY <1>0, <1>1, <1>2, <1>3 DEF ChangesNothing

-----------------------------------------------------------------------------
(* The sink.  An envelope that is put into the channel is of a call that    *)
(* has handed nothing over before.                                          *)
LEMMA AppendOnce ==
    ASSUME NEW s \in Seq(Envelopes), NEW e \in Envelopes, Once(s),
           \A i \in DOMAIN s : s[i].call # e.call
    PROVE  /\ Append(s, e) \in Seq(Envelopes) /\ Len(Append(s, e)) = Len(s) + 1
           /\ Once(Append(s, e))
           /\ \A i \in DOMAIN Append(s, e) :
                 Append(s, e)[i] = e \/ (i \in DOMAIN s /\ Append(s, e)[i] = s[i])
<1>1. /\ Append(s, e) \in Seq(Envelopes) /\ Len(Append(s, e)) = Len(s) + 1
      /\ DOMAIN s = 1 .. Len(s) /\ DOMAIN Append(s, e) = 1 .. Len(s) + 1 /\ Len(s) \in Nat
      /\ \A i \in 1 .. Len(s) : Append(s, e)[i] = s[i]
      /\ Append(s, e)[Len(s) + 1] = e
  OBVIOUS
<1>2. \A i \in 1 .. Len(s) + 1 : i \in 1 .. Len(s) \/ i = Len(s) + 1
  BY <1>1
<1>3. Once(Append(s, e))
  BY <1>1, <1>2 DEF Once
<1> QED  BY <1>1, <1>2, <1>3

LEMMA TailOnce ==
    ASSUME NEW s \in Seq(Envelopes), s # << >>, Once(s)
    PROVE  /\ Tail(s) \in Seq(Envelopes) /\ Len(Tail(s)) <= Len(s) /\ Once(Tail(s))
           /\ Head(s) = s[1] /\ 1 \in DOMAIN s
           /\ \A i \in DOMAIN Tail(s) :
                 i + 1 \in DOMAIN s /\ Tail(s)[i] = s[i + 1] /\ Tail(s)[i].call # Head(s).call
<1>1. /\ Tail(s) \in Seq(Envelopes) /\ Len(s) \in Nat \ {0} /\ Len(Tail(s)) = Len(s) - 1
      /\ DOMAIN s = 1 .. Len(s) /\ DOMAIN Tail(s) = 1 .. Len(s) - 1
      /\ Head(s) = s[1]
      /\ \A i \in 1 .. Len(s) - 1 : Tail(s)[i] = s[i + 1]
  BY HeadTailProperties
<1>2. \A i \in 1 .. Len(s) - 1 : i + 1 \in 1 .. Len(s) /\ i + 1 # 1
  BY <1>1
<1>3. Once(Tail(s))
  <2>1. ASSUME NEW i \in 1 .. Len(s) - 1, NEW j \in 1 .. Len(s) - 1, i # j
        PROVE  Tail(s)[i].call # Tail(s)[j].call
    <3>1. i + 1 \in DOMAIN s /\ j + 1 \in DOMAIN s /\ i + 1 # j + 1
      BY <1>1, <1>2, <2>1
    <3> QED  BY <1>1, <3>1 DEF Once
  <2> QED  BY <1>1, <2>1 DEF Once
<1>4. 1 \in DOMAIN s /\ Len(Tail(s)) <= Len(s)
  BY <1>1
<1>5. \A i \in 1 .. Len(s) - 1 : Tail(s)[i].call # Head(s).call
  BY <1>1, <1>2, <1>4 DEF Once
<1> QED  BY <1>1, <1>2, <1>3, <1>4, <1>5

(* More commits and announcements leave what is in the sink true.           *)
LEMMA SinkKept ==
    ASSUME SinkInv, UNCHANGED <<queue, delivered>>, commits \subseteq commits', handed \subseteq handed'
    PROVE  SinkInv'
<1>1. \A e : Told(e) => Told(e)'
  BY DEF Told
<1>2. \A d : HandedBy(d) => HandedBy(d)'
  BY DEF HandedBy
<1> QED  BY <1>1, <1>2 DEF SinkInv, Once

LEMMA PublishSink ==
    ASSUME EffectTypes, SinkTypes, SinkInv, NEW c \in Calls, Announcing(c), Answering(c),
           PublishEvent(c)
    PROVE  EffectTypes' /\ SinkTypes' /\ SinkInv'
<1> DEFINE e == Envelope(c, req[c], res[c])
<1>1. /\ pc[c] = "publish" /\ handed' = handed \cup {e}
      /\ UNCHANGED <<db, commits, crashes>>
      /\ Publish(e) \/ UNCHANGED sinkVars
  BY DEF PublishEvent
<1>2. Told(e) /\ ~HandedBy(c)
  BY <1>1 DEF Announcing, Answering
<1>3. e \in Envelopes /\ e.call = c
  <2>1. e = [call |-> c, what |-> e.what, id |-> e.id, ver |-> e.ver]
    BY DEF Envelope
  <2>2. PICK x \in commits : x.what = e.what /\ x.id = e.id /\ x.ver = e.ver
    BY <1>2 DEF Told
  <2> HIDE DEF e
  <2>3. e.what \in {"create", "update", "delete"} /\ e.id \in Ids /\ e.ver \in Nat
    BY <2>2 DEF EffectTypes, Envelopes
  <2> QED  BY <2>1, <2>3 DEF Envelopes
<1> HIDE DEF e
<1>4. EffectTypes'
  BY <1>1, <1>3 DEF EffectTypes
<1>5. CASE UNCHANGED <<queue, delivered, publisher>>
  <2>1. SinkInv'
    BY <1>1, <1>5, SinkKept
  <2> QED  BY <1>4, <1>5, <2>1 DEF SinkTypes
<1>6. CASE /\ publisher # "stopped" /\ Len(queue) < Capacity
           /\ queue' = Append(queue, e) /\ UNCHANGED <<publisher, delivered>>
  <2>1. /\ \A i \in DOMAIN queue : queue[i].call # c
        /\ \A i \in DOMAIN delivered : delivered[i].call # c
    BY <1>2 DEF SinkInv
  <2>2. /\ queue' \in Seq(Envelopes) /\ Len(queue') = Len(queue) + 1 /\ Once(queue')
        /\ \A i \in DOMAIN queue' : queue'[i] = e \/ (i \in DOMAIN queue /\ queue'[i] = queue[i])
    BY <1>3, <1>6, <2>1, AppendOnce DEF SinkTypes, SinkInv
  <2>3. SinkTypes'
    BY <1>6, <2>2, CapacityAssumption DEF SinkTypes
  <2>4. HandedBy(c)' /\ \A d : HandedBy(d) => HandedBy(d)'
    BY <1>1, <1>3 DEF HandedBy
  <2>5. \A x : Told(x)' = Told(x)
    BY <1>1 DEF Told
  <2>6. (\A i \in DOMAIN queue : Told(queue[i]) /\ HandedBy(queue[i].call))'
    BY <1>2, <1>3, <2>2, <2>4, <2>5 DEF SinkInv
  <2>7. (\A i \in DOMAIN delivered : Told(delivered[i]) /\ HandedBy(delivered[i].call))'
    BY <1>6, <2>4, <2>5 DEF SinkInv
  <2>8. Once(queue)' /\ Once(delivered)'
    BY <1>6, <2>2 DEF SinkInv, Once
  <2>9. \A i \in DOMAIN queue', j \in DOMAIN delivered' : queue'[i].call # delivered'[j].call
    BY <1>3, <1>6, <2>1, <2>2 DEF SinkInv
  <2> QED  BY <1>4, <2>3, <2>6, <2>7, <2>8, <2>9 DEF SinkInv
<1> QED  BY <1>1, <1>5, <1>6 DEF Publish, sinkVars

LEMMA SinkSteps ==
    ASSUME SinkTypes, SinkInv, SinkStep \/ SinkRestart, UNCHANGED <<commits, handed>>
    PROVE  SinkTypes' /\ SinkInv'
<1>0. (\A x : Told(x)' = Told(x)) /\ (\A d : HandedBy(d)' = HandedBy(d))
  BY DEF Told, HandedBy
<1>1. CASE Connected
  BY <1>1, SinkKept DEF Connected, SinkTypes, Publishers
<1>2. CASE ConnectFails \/ SinkRestart
  <2>1. queue' = << >> /\ delivered' = delivered /\ publisher' \in Publishers
    BY <1>2 DEF ConnectFails, SinkRestart, Publishers
  <2>2. SinkTypes' /\ DOMAIN queue' = {}
    BY <2>1, CapacityAssumption DEF SinkTypes
  <2> QED  BY <1>0, <2>1, <2>2 DEF SinkInv, Once
<1>3. CASE Forward
  <2>1. /\ queue # << >> /\ queue' = Tail(queue) /\ publisher' = publisher
        /\ delivered' = delivered \/ delivered' = Append(delivered, Head(queue))
    BY <1>3 DEF Forward
  <2>2. /\ queue' \in Seq(Envelopes) /\ Len(queue') <= Len(queue) /\ Once(queue')
        /\ Head(queue) = queue[1] /\ 1 \in DOMAIN queue
        /\ \A i \in DOMAIN queue' : /\ i + 1 \in DOMAIN queue /\ queue'[i] = queue[i + 1]
                                    /\ queue'[i].call # Head(queue).call
    BY <2>1, TailOnce DEF SinkTypes, SinkInv
  <2>3. queue' \in Seq(Envelopes) /\ Len(queue') <= Capacity
    BY <2>2, CapacityAssumption DEF SinkTypes
  <2>4. \A i \in DOMAIN queue' : Told(queue'[i]) /\ HandedBy(queue'[i].call)
    BY <2>2 DEF SinkInv
  <2>5. CASE delivered' = delivered
    BY <1>0, <2>1, <2>2, <2>3, <2>4, <2>5 DEF SinkTypes, SinkInv, Once
  <2>6. CASE delivered' = Append(delivered, Head(queue))
    <3>1. /\ Head(queue) \in Envelopes /\ Told(Head(queue)) /\ HandedBy(Head(queue).call)
          /\ \A i \in DOMAIN delivered : delivered[i].call # Head(queue).call
      <4>1. queue[1] \in Envelopes
        BY <2>2 DEF SinkTypes
      <4> QED  BY <2>2, <4>1 DEF SinkInv
    <3>2. /\ delivered' \in Seq(Envelopes) /\ Once(delivered')
          /\ \A i \in DOMAIN delivered' :
                \/ delivered'[i] = Head(queue)
                \/ i \in DOMAIN delivered /\ delivered'[i] = delivered[i]
      BY <2>6, <3>1, AppendOnce DEF SinkTypes, SinkInv
    <3>3. \A i \in DOMAIN delivered' : Told(delivered'[i]) /\ HandedBy(delivered'[i].call)
      BY <3>1, <3>2 DEF SinkInv
    <3>4. \A i \in DOMAIN queue', j \in DOMAIN delivered' : queue'[i].call # delivered'[j].call
      BY <2>2, <3>2 DEF SinkInv
    <3>5. SinkTypes'
      BY <2>1, <2>3, <3>2 DEF SinkTypes
    <3>6. Once(queue)' /\ Once(delivered)'
      BY <2>2, <3>2 DEF Once
    <3> QED  BY <1>0, <2>4, <3>3, <3>4, <3>5, <3>6 DEF SinkInv
  <2> QED  BY <2>1, <2>5, <2>6
<1> QED  BY <1>1, <1>2, <1>3 DEF SinkStep

-----------------------------------------------------------------------------
(* All of it together: every state of a run.                                *)
FullInv ==
    /\ OwnTypes /\ EffectTypes /\ SinkTypes
    /\ Asked /\ IInv /\ EffectInv

LEMMA InitFull == Init => FullInv
<1> SUFFICES ASSUME Init PROVE FullInv
  OBVIOUS
<1>1. IInv
  BY InitInv
<1>2. OwnTypes
  BY DEF Init, OwnTypes, Places, Results, NoResult, Answers
<1>3. EffectTypes
  BY EmptyType, InvokeAssumption DEF Init, EffectTypes
<1>4. SinkTypes /\ SinkInv
  <2>1. queue = << >> /\ delivered = << >> /\ publisher \in Publishers
    BY DEF Init, SinkInit, Publishers
  <2>2. SinkTypes /\ DOMAIN queue = {} /\ DOMAIN delivered = {}
    BY <2>1, CapacityAssumption DEF SinkTypes
  <2> QED  BY <2>2 DEF SinkInv, Once
<1>5. KeyInv
  BY DEF Init, KeyInv, EmptyKeyspace
<1>6. ASSUME NEW c \in Calls PROVE Story(c) /\ Announcing(c) /\ Answering(c)
  BY DEF Init, Story, Announcing, Answering, NoResult, Executed
<1>7. Asked
  BY DEF Init, Asked
<1> QED  BY <1>1, <1>2, <1>3, <1>4, <1>5, <1>6, <1>7 DEF FullInv, EffectInv

(* A request changes only while its call has no effects.                    *)
LEMMA KeysKept ==
    ASSUME EffectTypes, KeyInv, UNCHANGED <<db, commits>>,
           \A d \in Calls : Wrote(d) => req'[d] = req[d]
    PROVE  KeyInv'
<1>1. \A x \in commits : req'[x.call] = req[x.call]
  BY DEF EffectTypes, Envelopes, Wrote
<1> QED  BY <1>1 DEF KeyInv

LEMMA CallFull ==
    ASSUME FullInv, NEW c \in Calls, Call(c)
    PROVE  EffectTypes' /\ SinkTypes' /\ SinkInv' /\ KeyInv'
           /\ \A d \in Calls : Announcing(d)' /\ Answering(d)'
<1> USE DEF FullInv, EffectInv
<1>0. \A d \in Calls \ {c} : Still(d)
  BY OthersStay
<1>1. CASE Operate(c)
  <2>1. EffectTypes' /\ SinkTypes'
    BY <1>1, OperateTypes
  <2>2. /\ UNCHANGED <<handed, queue, publisher, delivered>>
        /\ commits' = commits \/ commits' = commits \cup {Sent(c)}
    BY <1>1, OperateOutcome DEF EffectTypes, sinkVars
  <2>3. Sent(c).call = c
    BY DEF Sent, Envelope
  <2>4. \A d \in Calls \ {c} : Wrote(d)' = Wrote(d) /\ HandedBy(d)' = HandedBy(d)
    BY <2>2, <2>3 DEF Wrote, HandedBy
  <2>5. Announcing(c)' /\ Answering(c)'
    BY <1>1, OperateCall
  <2>6. \A k \in Keys : db.idem[k] # NoRecord => db'.idem[k] = db.idem[k]
    BY <1>1, OperateIdem
  <2>7. ASSUME NEW d \in Calls \ {c} PROVE Announcing(d)' /\ Answering(d)'
    BY <1>0, <2>2, <2>4, <2>6, StillEffects
  <2>8. KeyInv'
    BY <1>1, OperateKeys
  <2>9. SinkInv'
    BY <2>2, SinkKept
  <2> QED  BY <2>1, <2>5, <2>7, <2>8, <2>9
<1>2. CASE PublishEvent(c)
  <2>1. EffectTypes' /\ SinkTypes' /\ SinkInv'
    BY <1>2, PublishSink
  <2>2. /\ UNCHANGED <<db, commits, req, res, ans>> /\ pc[c] = "publish" /\ pc'[c] = "complete"
        /\ handed' = handed \cup {Envelope(c, req[c], res[c])}
    BY <1>2 DEF PublishEvent, OwnTypes
  <2>3. Envelope(c, req[c], res[c]).call = c
    BY DEF Envelope
  <2>4. HandedBy(c)' /\ \A d \in Calls \ {c} : Wrote(d)' = Wrote(d) /\ HandedBy(d)' = HandedBy(d)
    BY <2>2, <2>3 DEF Wrote, HandedBy
  <2>5. Announcing(c)' /\ Answering(c)'
    BY <2>2, <2>4 DEF Announcing, Answering
  <2>6. ASSUME NEW d \in Calls \ {c} PROVE Announcing(d)' /\ Answering(d)'
    BY <1>0, <2>2, <2>4, StillEffects
  <2>7. KeyInv'
    BY <2>2, KeysKept
  <2> QED  BY <2>1, <2>5, <2>6, <2>7
<1>3. CASE ~Operate(c) /\ ~PublishEvent(c)
  <2>1. UNCHANGED <<db, commits, handed, crashes, queue, publisher, delivered>>
    BY <1>3, NoEffect DEF storeVars, sinkVars
  <2>2. EffectTypes' /\ SinkTypes' /\ SinkInv'
    BY <2>1, SinkKept DEF EffectTypes, SinkTypes
  <2>3. Announcing(c)' /\ Answering(c)'
    BY <1>3, QuietCall
  <2>4. \A d \in Calls \ {c} : Wrote(d)' = Wrote(d) /\ HandedBy(d)' = HandedBy(d)
    BY <2>1 DEF Wrote, HandedBy
  <2>5. ASSUME NEW d \in Calls \ {c} PROVE Announcing(d)' /\ Answering(d)'
    BY <1>0, <2>1, <2>4, StillEffects
  <2>6. \A d \in Calls : Wrote(d) => req'[d] = req[d]
    <3>1. Wrote(c) => pc[c] \in Effects
      BY DEF IInv, Progress
    <3>2. QuietBefore(c) \/ QuietAfter(c)
      BY <1>3, QuietMove
    <3> QED  BY <1>0, <3>1, <3>2 DEF Still, QuietBefore, QuietAfter
  <2>7. KeyInv'
    BY <2>1, <2>6, KeysKept
  <2> QED  BY <2>2, <2>3, <2>5, <2>7
<1> QED  BY <1>1, <1>2, <1>3

LEMMA CrashFull ==
    ASSUME FullInv, Crash
    PROVE  EffectTypes' /\ SinkTypes' /\ SinkInv' /\ KeyInv'
           /\ \A d \in Calls : Announcing(d)' /\ Answering(d)'
<1> USE DEF FullInv, EffectInv
<1>1. UNCHANGED <<db, req, res, trail, commits, handed>> /\ SinkRestart /\ crashes' \in 0 .. MaxCrashes
  BY InvokeAssumption DEF Crash, EffectTypes
<1>2. EffectTypes' /\ SinkTypes' /\ SinkInv'
  BY <1>1, SinkSteps DEF EffectTypes
<1>3. KeyInv'
  BY <1>1, KeysKept
<1>4. ASSUME NEW d \in Calls PROVE Announcing(d)' /\ Answering(d)'
  <2>1. Wrote(d)' = Wrote(d) /\ HandedBy(d)' = HandedBy(d)
    BY <1>1 DEF Wrote, HandedBy
  <2>2. CASE pc'[d] = pc[d] /\ ans'[d] = ans[d]
    BY <1>1, <2>1, <2>2, StillEffects DEF Still
  <2>3. CASE pc'[d] = "done" /\ ans'[d] = "lost"
    BY <2>3 DEF Announcing, Answering
  <2> QED  BY <2>2, <2>3, CrashOwn
<1> QED  BY <1>2, <1>3, <1>4

LEMMA StepFull == FullInv /\ [Next]_vars => FullInv'
<1> SUFFICES ASSUME FullInv, [Next]_vars PROVE FullInv'
  OBVIOUS
<1>1. IInv'
  BY StepInv DEF FullInv
<1>2. OwnTypes' /\ Asked' /\ \A c \in Calls : Story(c)'
  BY StepStory DEF FullInv, EffectInv, EffectTypes
<1>3. EffectTypes' /\ SinkTypes' /\ SinkInv' /\ KeyInv'
      /\ \A d \in Calls : Announcing(d)' /\ Answering(d)'
  <2>1. CASE \E c \in Calls : Call(c)
    BY <2>1, CallFull
  <2>2. CASE Crash
    BY <2>2, CrashFull
  <2>3. CASE Sink \/ UNCHANGED vars
    <3> USE DEF FullInv, EffectInv
    <3>1. UNCHANGED <<db, pc, req, res, ans, trail, commits, handed, crashes>>
      BY <2>3 DEF Sink, vars
    <3>2. SinkTypes' /\ SinkInv'
      <4>1. CASE SinkStep
        BY <3>1, <4>1, SinkSteps
      <4>2. CASE UNCHANGED <<queue, publisher, delivered>>
        BY <3>1, <4>2, SinkKept DEF SinkTypes
      <4> QED  BY <2>3, <4>1, <4>2 DEF Sink, vars, sinkVars
    <3>3. KeyInv' /\ EffectTypes'
      BY <3>1, KeysKept DEF EffectTypes
    <3>4. ASSUME NEW d \in Calls PROVE Announcing(d)' /\ Answering(d)'
      <4>1. Wrote(d)' = Wrote(d) /\ HandedBy(d)' = HandedBy(d)
        BY <3>1 DEF Wrote, HandedBy
      <4> QED  BY <3>1, <4>1, StillEffects DEF Still
    <3> QED  BY <3>2, <3>3, <3>4
  <2> QED  BY <2>1, <2>2, <2>3 DEF Next
<1> QED  BY <1>1, <1>2, <1>3 DEF FullInv, EffectInv

LEMMA FullInvariant == Spec => []FullInv
BY InitFull, StepFull, PTL DEF Spec

(* Every variable keeps its type.                                           *)
THEOREM TypeCorrect == Spec => []TypeOK
<1>1. FullInv => TypeOK
  BY DEF FullInv, OwnTypes, EffectTypes, SinkTypes, TypeOK
<1> QED  BY FullInvariant, <1>1, PTL

(* runtime.rs, invoke: whatever fails, a caller who gets a result can be    *)
(* told from the audit alone, event by event and in order.                  *)
THEOREM TrailSafe == Spec => []DocumentedTrail
<1>1. FullInv => DocumentedTrail
  BY DEF FullInv, EffectInv, Story, DocumentedTrail
<1> QED  BY FullInvariant, <1>1, PTL

(* runtime.rs, publish_entity_event: a call that changed a record and was   *)
(* answered has announced it, and so has every create answered with a       *)
(* record.                                                                  *)
THEOREM AnnouncedSafe == Spec => []WriteAnnounced
<1>1. FullInv => WriteAnnounced
  <2> SUFFICES ASSUME FullInv, NEW c \in Calls,
                      ans[c] \in Answers \ {"none", "lost"},
                      (Wrote(c) /\ res[c].status # "unknown") \/ ans[c] = "created"
               PROVE  HandedBy(c)
    BY DEF WriteAnnounced, HandedBy
  <2>1. pc[c] = "done"
    BY DEF FullInv, IInv, Progress
  <2> QED  BY <2>1 DEF FullInv, EffectInv, Announcing
<1> QED  BY FullInvariant, <1>1, PTL

(* nats_events.rs: for every capacity of the channel and any crashes, what  *)
(* reaches the broker tells of a committed change, at most once per call.   *)
THEOREM DeliveredSafe == Spec => []DeliveredTruth
<1>1. FullInv => DeliveredTruth
  BY DEF FullInv, EffectInv, SinkInv, Told, Once, DeliveredTruth
<1> QED  BY FullInvariant, <1>1, PTL

(* runtime.rs, Create with an idempotency key: any number of calls with one *)
(* key create one record, and every answer names it.                        *)
THEOREM KeyedSafe == Spec => []KeyedCreateOnce
<1>1. FullInv => KeyedCreateOnce
  <2> SUFFICES ASSUME FullInv, NEW k \in Keys
               PROVE  /\ Cardinality(CreatedUnder(k)) <= 1
                      /\ \A c \in Calls :
                            ans[c] = "created" /\ req[c].op.key = k => res[c].rec.id \in CreatedUnder(k)
    BY DEF KeyedCreateOnce
  <2> USE DEF FullInv, EffectInv
  <2>1. CreatedUnder(k) \subseteq {db.idem[k].id}
    BY DEF KeyInv, CreatedUnder
  <2>2. CreatedUnder(k) = {} \/ CreatedUnder(k) = {db.idem[k].id}
    BY <2>1
  <2>3. Cardinality(CreatedUnder(k)) <= 1
    <3>1. Cardinality({}) = 0 /\ Cardinality({db.idem[k].id}) = 1
      BY FS_EmptySet, FS_Singleton
    <3> QED  BY <2>2, <3>1
  <2>4. ASSUME NEW c \in Calls, ans[c] = "created", req[c].op.key = k
        PROVE  res[c].rec.id \in CreatedUnder(k)
    <3>1. res[c].rec = db.idem[k] /\ res[c].rec # NoRecord
      BY <2>4 DEF Answering
    <3>2. PICK x \in commits : x.what = "create" /\ req[x.call].op.key = k /\ x.id = db.idem[k].id
      BY <3>1 DEF KeyInv
    <3> QED  BY <3>1, <3>2 DEF CreatedUnder
  <2> QED  BY <2>3, <2>4
<1> QED  BY FullInvariant, <1>1, PTL

=============================================================================
