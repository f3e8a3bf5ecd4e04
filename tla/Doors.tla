------------------------------- MODULE Doors -------------------------------
(***************************************************************************)
(* The ways into the runtime: the HTTP routes of http_runtime.rs that      *)
(* invoke an endpoint or append an event, the MCP route, and the two       *)
(* caches they ask before they do: the roles the admin service grants      *)
(* (admin_roles.rs) and the keys a token issuer publishes (mcp_auth.rs).   *)
(*                                                                         *)
(* A door is the sequence of its stages.  A check names what may be wrong  *)
(* with a request (a flaw) and the status that answers it; the stages      *)
(* between checks are the ones other threads can come between.             *)
(***************************************************************************)
EXTENDS Integers, SequencesExt

Check(flaw, status) == [do |-> "check", flaw |-> flaw, status |-> status]
Wait(do)            == [do |-> do, flaw |-> "none", status |-> 0]
Roles  == Wait("roles")       \* compute_effective_roles
Claim  == Wait("claim")       \* resolve_manager_context, manager_submit_roles
Verify == Wait("verify")      \* verify_token
Invoke == Wait("invoke")      \* SorxRuntime::invoke
Append1 == Wait("append")     \* CanonicalStore::append_event

Secret    == Check("secret", 401)
Caller    == <<Check("tenant", 400), Check("caller", 400)>>
NoRoute   == Check("route", 404)
NotJson   == Check("json", 400)
NoAction1 == Check("action", 404)
Contract  == <<Check("no_hash", 400), Check("hash_format", 400), Check("hash", 409)>>
BadSchema == Check("schema", 400)
NoTarget  == Check("target", 404)
NoKey     == Check("key", 400)
DryRun    == Check("dry_run", 200)
NoCapability == Check("capability", 400)
NoEndpoint   == Check("endpoint", 404)

(* POST /v1/sorx/events; decide_authorization with no policies never denies *)
EventsDoor ==
    <<Secret>> \o Caller \o
    <<Roles, NotJson, Check("event_type", 400), Check("metadata", 400), Check("store", 500), Append1>>

(* The routes of the pack's endpoints                                       *)
EndpointDoor == <<Secret, NoRoute>> \o Caller \o <<Roles, NotJson, Invoke>>

(* POST /v1/sorx/business-actions/<id>/versions/<version>/...               *)
ActionDoor ==
    <<Secret, NoAction1, NotJson, Check("action_ref", 409)>> \o Contract \o
    <<BadSchema, NoTarget, NoKey, Check("provider", 503), DryRun>> \o Caller \o <<Roles, Invoke>>

(* The capability route, for a capability that names a business action ...  *)
CapabilityDoor == <<Secret, NotJson, NoCapability, NoTarget, BadSchema, NoKey, DryRun, Roles, Invoke>>

(* ... and for one that names an endpoint.                                  *)
AgentDoor == <<Secret, NotJson, NoCapability, NoEndpoint, DryRun, Roles, Invoke>>

(* POST /v1/sorx/manager/submit: an endpoint, or an action of the model that *)
(* goes to the store; the roles are the caller's own claim.                 *)
SubmitDoor == <<Secret>> \o Caller \o <<NotJson, Claim, Check("endpoint_id", 400), Invoke>>

(* verify_token, before and after the keys are asked for.                   *)
TokenRead    == <<Check("token", 401), Check("kid", 401), Check("claims", 401), Check("issuer", 401)>>
TokenClaims  == <<Check("expired", 401), Check("audience", 401), Check("subject", 401)>>
NoTenant     == Check("tenant", 403)
NotRpc       == Check("parse", -32700)

(* dispatch of mcp_jsonrpc.rs; its errors come with status 200.             *)
Dispatch ==
    <<Check("initialize", 200), Check("list", 200), Check("method", -32601), Check("name", -32602),
      Check("tool", -32602), Invoke>>

(* POST /v1/sorx/mcp                                                        *)
McpDoor == TokenRead \o <<Verify>> \o TokenClaims \o <<NoTenant, NotRpc>> \o Dispatch

Doors == [events |-> EventsDoor, endpoint |-> EndpointDoor, action |-> ActionDoor,
          capability |-> CapabilityDoor, agent |-> AgentDoor, submit |-> SubmitDoor, mcp |-> McpDoor]

(* The first stage from the i-th on that stops the request or that it has   *)
(* to wait at.                                                              *)
StopAt(door, i, flaws) ==
    CHOOSE j \in i..Len(door) :
        /\ door[j].do # "check" \/ door[j].flaw \in flaws
        /\ \A k \in i..(j - 1) : door[k].do = "check" /\ door[k].flaw \notin flaws

-----------------------------------------------------------------------------
(* AdminRolesOverlay.  An entry is [at, map]; NoEntry is none.              *)

NoEntry == [at |-> -1, map |-> {}]

RolesHit(entry, now, ttl) == entry # NoEntry /\ now - entry.at < ttl

(* Slip: the entry is stamped when the answer is stored.                    *)
FreshEntryLate(asked, stored, map) == [at |-> stored, map |-> map]

(* The entry that tenant_map stores: stamped when the caller asked.         *)
FreshEntry(asked, stored, map) == [at |-> asked, map |-> map]

(* compute_effective_roles, from what roles_for found.                      *)
EffectiveRoles(found) == IF found = {} THEN {"local"} ELSE found

(* The caller's header, and the body's roles where a door takes them.       *)
AssertedRoles(header, body) ==
    IF body # {} THEN body ELSE IF header # {} THEN header ELSE {"local"}

-----------------------------------------------------------------------------
(* UreqJwks: one slot for all issuers.                                      *)

NoSlot == [issuer |-> "none", at |-> -1, keys |-> {}]

KeysHit(slot, issuer, now, ttl) == slot.issuer = issuer /\ now - slot.at < ttl

(* The JWK by kid, and the signature.                                       *)
Signed(token, keys) ==
    \E k \in keys : k.kid = token.key.kid /\ k = token.key

-----------------------------------------------------------------------------
(* The event bridge (sorx-event-bridge).                                    *)

(* Slip: an invocation that failed is logged and not answered.              *)
BuildResponseOk(outcome, rec) ==
    IF outcome \in {"error", "panic"} THEN [sent |-> FALSE, ok |-> FALSE, error |-> "none", rec |-> rec]
    ELSE [sent |-> TRUE, ok |-> outcome = "done", error |-> "none", rec |-> rec]

(* build_response and outcome_from_result                                   *)
BuildResponse(outcome, rec) ==
    [sent  |-> TRUE, ok |-> outcome = "done",
     error |-> IF outcome \in {"error", "panic"} THEN "invoke_failed" ELSE "none",
     rec   |-> rec]

=============================================================================
