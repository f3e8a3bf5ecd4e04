------------------------------- MODULE Access -------------------------------
(***************************************************************************)
(* Requests on their way through the doors, while time passes, the admin   *)
(* service grants other roles and token issuers rotate their keys.  Many   *)
(* threads share the two caches; a thread reads a cache, asks the service  *)
(* and stores the answer in three steps.                                   *)
(***************************************************************************)
EXTENDS Doors

CONSTANTS
    Slots, Asked,    \* requests in flight; the requests there are
    RoleNames,       \* roles the admin service may grant
    Issuers, Keys,   \* token issuers, the keys [iss, kid] they may publish
    TTL, MaxNow      \* time a cached answer may be used; bound: the clock

ASSUME AccessAssumption ==
    /\ TTL \in Nat \ {0} /\ MaxNow \in Nat
    /\ \A k \in Keys : k.iss \in Issuers
    /\ \A a \in Asked : a.door \in DOMAIN Doors

VARIABLES
    now,         \* the clock
    overlay,     \* the roles overlay is configured
    granted,     \* history: the roles the admin service grants the caller, by time
    published,   \* history: the keys the issuers publish, by time
    entry, slot, \* the two caches
    reqs         \* Slots -> request

doorVars == <<now, overlay, granted, published, entry, slot, reqs>>

Free == [pc |-> "free", ask |-> [door |-> "none"], i |-> 0, t0 |-> 0, got |-> {}, src |-> "none",
         roles |-> {}, res |-> 0]

(* The next stage of a request that passed its i-th: the checks in between  *)
(* are about the request alone.                                             *)
Onward(r, i) ==
    LET door == Doors[r.ask.door]
        j    == StopAt(door, i, r.ask.flaws)
    IN  IF door[j].do = "check" THEN [r EXCEPT !.pc = "done", !.i = j, !.res = door[j].status]
        ELSE [r EXCEPT !.pc = door[j].do, !.i = j]

WithRoles(r, roles, src) == Onward([r EXCEPT !.roles = roles, !.src = src], r.i + 1)

Accept(s, a) ==
    /\ reqs[s].pc = "free"
    /\ reqs' = [reqs EXCEPT ![s] = Onward([Free EXCEPT !.ask = a], 1)]
    /\ UNCHANGED <<now, overlay, granted, published, entry, slot>>

(* roles_for and the cache lookup of tenant_map, under the lock.            *)
LookupRoles(s) ==
    LET r == reqs[s]
    IN  /\ r.pc = "roles"
        /\ reqs' = [reqs EXCEPT ![s] =
                IF ~overlay THEN WithRoles(r, AssertedRoles(r.ask.header, r.ask.body), "asserted")
                ELSE IF ~r.ask.email THEN WithRoles(r, {"local"}, "none")
                ELSE IF RolesHit(entry, now, TTL)
                THEN WithRoles([r EXCEPT !.t0 = now], EffectiveRoles(entry.map), "overlay")
                ELSE [r EXCEPT !.pc = "asking", !.t0 = now]]
        /\ UNCHANGED <<now, overlay, granted, published, entry, slot>>

(* The manager's submit asks neither the cache nor the service.             *)
ClaimRoles(s) ==
    LET r == reqs[s]
    IN  /\ r.pc = "claim"
        /\ reqs' = [reqs EXCEPT ![s] = WithRoles(r, AssertedRoles(r.ask.header, r.ask.body), "asserted")]
        /\ UNCHANGED <<now, overlay, granted, published, entry, slot>>

(* The service answers, or the request to it fails or times out.            *)
ServiceAnswers(s) ==
    /\ reqs[s].pc = "asking"
    /\ reqs' = [reqs EXCEPT ![s].pc = "told", ![s].got = granted[now + 1]]
    /\ UNCHANGED <<now, overlay, granted, published, entry, slot>>

ServiceFails(s) ==
    LET r == reqs[s]
    IN  /\ r.pc = "asking"
        /\ reqs' = [reqs EXCEPT ![s] =
                IF entry # NoEntry THEN WithRoles(r, EffectiveRoles(entry.map), "stale")
                ELSE WithRoles(r, {"local"}, "none")]
        /\ UNCHANGED <<now, overlay, granted, published, entry, slot>>

(* The answer is stored under the time of the lookup.                       *)
StoreRoles(s) ==
    LET r == reqs[s]
    IN  /\ r.pc = "told"
        /\ entry' = FreshEntry(r.t0, now, r.got)
        /\ reqs' = [reqs EXCEPT ![s] = WithRoles(r, EffectiveRoles(r.got), "overlay")]
        /\ UNCHANGED <<now, overlay, granted, published, slot>>

Unauthorized(r) == [r EXCEPT !.pc = "done", !.res = 401]

(* What verify_token does with the issuer's keys, at time t.                *)
Verified(r, keys) ==
    IF Signed(r.ask.token, keys) THEN WithRoles(r, r.ask.token.roles, "claims") ELSE Unauthorized(r)

LookupKeys(s) ==
    LET r == reqs[s]
    IN  /\ r.pc = "verify"
        /\ reqs' = [reqs EXCEPT ![s] =
                IF KeysHit(slot, r.ask.token.iss, now, TTL) THEN Verified([r EXCEPT !.t0 = now], slot.keys)
                ELSE [r EXCEPT !.pc = "fetching", !.t0 = now]]
        /\ UNCHANGED <<now, overlay, granted, published, entry, slot>>

IssuerAnswers(s) ==
    /\ reqs[s].pc = "fetching"
    /\ reqs' = [reqs EXCEPT ![s].pc = "fetched",
                            ![s].got = {k \in published[now + 1] : k.iss = reqs[s].ask.token.iss}]
    /\ UNCHANGED <<now, overlay, granted, published, entry, slot>>

IssuerFails(s) ==
    /\ reqs[s].pc = "fetching"
    /\ reqs' = [reqs EXCEPT ![s] = Unauthorized(@)]
    /\ UNCHANGED <<now, overlay, granted, published, entry, slot>>

StoreKeys(s) ==
    LET r == reqs[s]
    IN  /\ r.pc = "fetched"
        /\ slot' = [issuer |-> r.ask.token.iss, at |-> now, keys |-> r.got]
        /\ reqs' = [reqs EXCEPT ![s] = Verified(r, r.got)]
        /\ UNCHANGED <<now, overlay, granted, published, entry>>

(* The runtime serves callers with role r; events take any.                 *)
InvokeRequest(s) ==
    LET r == reqs[s]
    IN  /\ r.pc \in {"invoke", "append"}
        /\ reqs' = [reqs EXCEPT ![s].pc = "done",
                                ![s].res = IF r.pc = "append" \/ "r" \in r.roles THEN 200 ELSE 403]
        /\ UNCHANGED <<now, overlay, granted, published, entry, slot>>

(* Time passes; the service may grant other roles and issuers other keys.   *)
Tick(grants, kid) ==
    /\ now < MaxNow
    /\ now' = now + 1
    /\ granted' = Append(granted, grants)
    /\ published' = Append(published, {k \in Keys : k.kid = kid})
    /\ UNCHANGED <<overlay, entry, slot, reqs>>

-----------------------------------------------------------------------------
(* asked, grants and kids say which requests come, which roles the service  *)
(* may grant the caller and which keys of an issuer are current.            *)
DoorInit(overlays, grants) ==
    /\ now = 0 /\ entry = NoEntry /\ slot = NoSlot
    /\ overlay \in overlays
    /\ granted \in {<<g>> : g \in grants}
    /\ published = <<{k \in Keys : k.kid = 1}>>
    /\ reqs = [s \in Slots |-> Free]

DoorNext(asked, grants, kids) ==
    \/ \E s \in Slots : \/ \E a \in asked : Accept(s, a)
                        \/ LookupRoles(s) \/ ClaimRoles(s) \/ ServiceAnswers(s) \/ ServiceFails(s)
                        \/ StoreRoles(s) \/ LookupKeys(s) \/ IssuerAnswers(s) \/ IssuerFails(s)
                        \/ StoreKeys(s) \/ InvokeRequest(s)
    \/ \E g \in grants, kid \in kids : Tick(g, kid)

(* All requests, any roles and any rotation of the keys.                    *)
DoorSpec ==
    /\ DoorInit(BOOLEAN, SUBSET RoleNames)
    /\ [][DoorNext(Asked, SUBSET RoleNames, {k.kid : k \in Keys})]_doorVars

-----------------------------------------------------------------------------
(* Who is served with role r was granted it.  With the overlay, and unless  *)
(* the service could not be reached, the grant stood less than TTL before   *)
(* the caches were asked (admin_roles.rs keeps the answer of a slow request *)
(* under the time it was made).  What a caller says of itself counts        *)
(* without the overlay and, with it, at one door: the manager's submit,     *)
(* which http_runtime.rs:1279-1282 (every HTTP entry point runs through the *)
(* same overlay check) leaves out.                                          *)
(* A token is accepted for a key its own issuer published, although all     *)
(* issuers share one cache slot (mcp_auth.rs).                              *)
TrustFresh ==
    \A s \in Slots :
        LET r == reqs[s]
        IN  r.pc = "done" /\ r.res = 200 /\ Doors[r.ask.door][r.i].do = "invoke" =>
            /\ r.src # "none" /\ (r.src = "asserted" => ~overlay \/ r.ask.door = "submit")
            /\ r.src = "overlay" => \E t \in 0..now : t > r.t0 - TTL /\ "r" \in granted[t + 1]
            /\ r.src = "stale"   => \E t \in 0..now : "r" \in granted[t + 1]
            /\ r.src = "claims"  => /\ r.ask.token.key.iss = r.ask.token.iss
                                    /\ \E t \in 0..now : r.ask.token.key \in published[t + 1]

=============================================================================
