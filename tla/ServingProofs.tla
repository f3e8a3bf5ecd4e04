--------------------------- MODULE ServingProofs ----------------------------
(***************************************************************************)
(* What a serving process promises, for any number of requests: a door     *)
(* lets nobody in on roles that were not granted, or not lately, or on a   *)
(* key its issuer never published (Access); a revision gets the requests   *)
(* of its weight and none once it is drained, and an operator is told what *)
(* happened (Admin); a graph command prints what the definition of paths   *)
(* and neighbours says, over any graph (GraphCommands); a card offers      *)
(* nothing that the runtime forbids to its reader (Cards).                 *)
(*                                                                         *)
(* DoorInv says of each cache when its content was asked for, and of each  *)
(* request what it knows at its stage; AdminInv says that the snapshot     *)
(* keeps its ids apart and its weights below the total, that what was      *)
(* taken out of service is still there and out, and what a request's       *)
(* answer says at each stage of the pipeline; GraphInv that what a command *)
(* holds is what the ontology it read gives, and none of it denied.        *)
(* CardsInv says that what an open card offers is allowed to its roles,    *)
(* because it comes from an endpoint or a record they may change.          *)
(***************************************************************************)
EXTENDS Access, Admin, GraphCommands, Cards, FiniteSetTheorems, WellFoundedInduction, TLAPS

(* A non-empty set of naturals has a least element.                         *)
LEMMA LeastExists ==
    ASSUME NEW S, S \subseteq Nat, S # {}
    PROVE  \E n \in S : \A m \in S : n <= m
<1> DEFINE R == OpToRel(<, Nat)
<1>1. \E n \in S : \A m \in S : ~(<<m, n>> \in R)
  BY NatLessThanWellFounded, WFMin, Zenon
<1>2. \A m, n \in Nat : m < n => <<m, n>> \in R
  BY DEF OpToRel
<1> HIDE DEF R
<1>3. PICK n \in S : \A m \in S : ~(<<m, n>> \in R)
  BY <1>1
<1>4. \A m \in S : ~(m < n)
  BY <1>2, <1>3, Zenon
<1>5. \A m \in S : n <= m
  BY <1>4
<1> QED  BY <1>3, <1>5

(* What follows from one number to the next up to n: a set of numbers that  *)
(* has 0 and with m - 1 also m has them all.                                *)
LEMMA UpTo ==
    ASSUME NEW n \in Nat, NEW S, 0 \in S, \A m \in 1 .. n : m - 1 \in S => m \in S
    PROVE  0 .. n \subseteq S
<1> DEFINE Bad == {m \in 0 .. n : m \notin S}
<1> SUFFICES ASSUME Bad # {} PROVE FALSE
  OBVIOUS
<1>1. Bad \subseteq Nat
  OBVIOUS
<1>2. PICK m \in Bad : \A l \in Bad : m <= l
  BY <1>1, LeastExists
<1>3. m \in 1 .. n /\ m - 1 \in 0 .. n /\ ~(m <= m - 1) /\ m \notin S
  BY <1>2
<1>4. m - 1 \in S
  BY <1>2, <1>3
<1> QED  BY <1>3, <1>4

-----------------------------------------------------------------------------
(* The shape of a door.                                                     *)

Flaws == {"none", "secret", "tenant", "caller", "route", "json", "action", "no_hash", "hash_format",
          "hash", "schema", "target", "key", "dry_run", "capability", "endpoint", "event_type",
          "metadata", "store", "endpoint_id", "action_ref", "provider", "token", "kid", "claims", "issuer",
          "expired", "audience", "subject", "parse", "initialize", "list", "method", "name", "tool"}
Dos == {"check", "roles", "claim", "verify", "invoke", "append"}
Stages == [do : Dos, flaw : Flaws, status : Int]

Asking(stage) == stage.do \in {"roles", "claim", "verify"}
NoAsk(part)  == \A i \in DOMAIN part : ~Asking(part[i])
OneAsk(part) == \A i, j \in DOMAIN part : Asking(part[i]) /\ Asking(part[j]) => i = j
Unclaimed(part) == \A i \in DOMAIN part : part[i].do # "claim"
Ends(part) == Len(part) > 0 /\ part[Len(part)].do \in {"invoke", "append"}

(* Doors are put together from parts, and keep their shape.                  *)
LEMMA Joined ==
    ASSUME NEW p \in Seq(Stages), NEW q \in Seq(Stages)
    PROVE  /\ p \o q \in Seq(Stages)
           /\ NoAsk(p) /\ NoAsk(q) => NoAsk(p \o q)
           /\ NoAsk(p) /\ OneAsk(q) => OneAsk(p \o q)
           /\ OneAsk(p) /\ NoAsk(q) => OneAsk(p \o q)
           /\ Unclaimed(p) /\ Unclaimed(q) => Unclaimed(p \o q)
           /\ Ends(q) => Ends(p \o q)
<1>1. /\ p \o q \in Seq(Stages) /\ Len(p \o q) = Len(p) + Len(q)
      /\ \A i \in 1 .. Len(p) : (p \o q)[i] = p[i]
      /\ \A i \in (Len(p) + 1) .. (Len(p) + Len(q)) : (p \o q)[i] = q[i - Len(p)]
  OBVIOUS
<1>2. DOMAIN p = 1 .. Len(p) /\ DOMAIN q = 1 .. Len(q) /\ DOMAIN (p \o q) = 1 .. (Len(p) + Len(q))
      /\ Len(p) \in Nat /\ Len(q) \in Nat
  BY <1>1
<1> DEFINE pq == p \o q
<1>3. \A i \in DOMAIN pq : \/ i \in DOMAIN p /\ pq[i] = p[i]
                           \/ i - Len(p) \in DOMAIN q /\ pq[i] = q[i - Len(p)]
  BY <1>1, <1>2
<1>4. \A i, j \in DOMAIN pq : i - Len(p) = j - Len(p) => i = j
  BY <1>2
<1> HIDE DEF pq
<1>5. NoAsk(p) /\ NoAsk(q) => NoAsk(pq)
  BY <1>3, Zenon DEF NoAsk
<1>6. NoAsk(p) /\ OneAsk(q) => OneAsk(pq)
  BY <1>3, <1>4, Zenon DEF NoAsk, OneAsk
<1>7. OneAsk(p) /\ NoAsk(q) => OneAsk(pq)
  BY <1>3, Zenon DEF NoAsk, OneAsk
<1>8. Ends(q) => Ends(pq)
  BY <1>1, <1>2 DEF Ends, pq
<1>9. Unclaimed(p) /\ Unclaimed(q) => Unclaimed(pq)
  BY <1>3, Zenon DEF Unclaimed
<1> QED  BY <1>1, <1>5, <1>6, <1>7, <1>8, <1>9 DEF pq

(* Every door asks an outside service at most once, and ends with the work.  *)
LEMMA DoorShape ==
    ASSUME NEW d \in DOMAIN Doors
    PROVE  Doors[d] \in Seq(Stages) /\ OneAsk(Doors[d]) /\ Ends(Doors[d])
<1> DEFINE Good(door) == door \in Seq(Stages) /\ OneAsk(door) /\ Ends(door)
           Plain(part) == part \in Seq(Stages) /\ NoAsk(part)
<1> USE DEF Check, Wait, Roles, Claim, Verify, Invoke, Append1, Secret, NoRoute, NotJson, NoAction1, BadSchema,
            NoTarget, NoKey, DryRun, NoCapability, NoEndpoint, NoTenant, NotRpc, Stages, Dos, Flaws, Asking
<1>1. Plain(Caller) /\ Plain(Contract) /\ Plain(<<Secret>>) /\ Plain(<<Secret, NoRoute>>)
  BY DEF Caller, Contract, NoAsk
<1>2. Plain(<<Secret, NoAction1, NotJson, Check("action_ref", 409)>>)
  BY DEF NoAsk
<1>3. Plain(<<BadSchema, NoTarget, NoKey, Check("provider", 503), DryRun>>)
  BY DEF NoAsk
<1>4. Plain(TokenRead) /\ Plain(TokenClaims) /\ Plain(<<NoTenant, NotRpc>>)
  BY DEF NoAsk, TokenRead, TokenClaims
<1>5. Plain(Dispatch) /\ Ends(Dispatch)
  BY DEF NoAsk, Dispatch, Ends
<1>6. Good(<<Roles, NotJson, Check("event_type", 400), Check("metadata", 400), Check("store", 500), Append1>>)
  BY DEF OneAsk, Ends
<1>7. Good(<<Roles, NotJson, Invoke>>) /\ Good(<<Roles, Invoke>>)
      /\ Good(<<NotJson, Claim, Check("endpoint_id", 400), Invoke>>)
      /\ <<Verify>> \in Seq(Stages) /\ OneAsk(<<Verify>>)
  BY DEF OneAsk, NoAsk, Ends
<1>8. Good(CapabilityDoor)
  BY DEF CapabilityDoor, OneAsk, Ends
<1>9. Good(AgentDoor)
  BY DEF AgentDoor, OneAsk, Ends
<1>10. \A p, q : Plain(p) /\ Plain(q) => Plain(p \o q)
  BY Joined, ZenonT(40)
<1>11. \A p, q : Plain(p) /\ Good(q) => Good(p \o q)
  BY Joined, ZenonT(40)
<1>12. Good(McpDoor)
  <2> DEFINE One(part) == part \in Seq(Stages) /\ OneAsk(part)
  <2>1. \A p, q : Plain(p) /\ One(q) => One(p \o q)
    BY Joined, ZenonT(40)
  <2>2. \A p, q : One(p) /\ Plain(q) => One(p \o q)
    BY Joined, ZenonT(40)
  <2>3. \A p, q : One(p) /\ Plain(q) /\ Ends(q) => Good(p \o q)
    BY Joined, ZenonT(40)
  <2>4. One(<<Verify>>)
    BY <1>7
  <2> HIDE DEF Good, Plain, One, Check, Wait, Verify, NoTenant, NotRpc
  <2> QED  BY <1>4, <1>5, <2>1, <2>2, <2>3, <2>4, Zenon DEF McpDoor
<1> HIDE DEF Good, Plain, Check, Wait, Roles, Claim, Invoke, Append1, Secret, NoRoute, NotJson, NoAction1,
             BadSchema, NoTarget, NoKey, DryRun
<1>13. Good(EventsDoor)
  <2>1. Plain(<<Secret>> \o Caller)
    BY <1>1, <1>10, Zenon
  <2> DEFINE p == <<Secret>> \o Caller
             q == <<Roles, NotJson, Check("event_type", 400), Check("metadata", 400), Check("store", 500), Append1>>
  <2>2. Plain(p) /\ Good(q)
    BY <1>6, <2>1
  <2>3. EventsDoor = p \o q
    BY DEF EventsDoor
  <2> HIDE DEF p, q
  <2> QED  BY <1>11, <2>2, <2>3, Zenon
<1>14. Good(EndpointDoor) /\ Good(ActionDoor)
  <2> DEFINE a == <<Secret, NoAction1, NotJson, Check("action_ref", 409)>>
             b == <<BadSchema, NoTarget, NoKey, Check("provider", 503), DryRun>>
             c == <<Secret, NoRoute>>
             p == <<Roles, NotJson, Invoke>>
             q == <<Roles, Invoke>>
  <2>1. /\ Plain(a) /\ Plain(b) /\ Plain(c) /\ Plain(Contract) /\ Plain(Caller)
        /\ Good(p) /\ Good(q)
    BY <1>1, <1>2, <1>3, <1>7, Zenon
  <2>2. EndpointDoor = c \o Caller \o p /\ ActionDoor = a \o Contract \o b \o Caller \o q
    BY Zenon DEF EndpointDoor, ActionDoor
  <2> HIDE DEF a, b, c, p, q
  <2>3. Plain(c \o Caller) /\ Plain(a \o Contract)
    BY <1>10, <2>1, Zenon
  <2>4. Plain(a \o Contract \o b)
    BY <1>10, <2>1, <2>3, Zenon
  <2>5. Plain(a \o Contract \o b \o Caller)
    BY <1>10, <2>1, <2>4, Zenon
  <2>6. Good(c \o Caller \o p) /\ Good(a \o Contract \o b \o Caller \o q)
    BY <1>11, <2>1, <2>3, <2>5, Zenon
  <2> QED  BY <2>2, <2>6, Zenon
<1>18. Good(SubmitDoor)
  <2> DEFINE p == <<Secret>> \o Caller
             q == <<NotJson, Claim, Check("endpoint_id", 400), Invoke>>
  <2>1. Plain(p) /\ Good(q)
    BY <1>1, <1>7, <1>10, Zenon
  <2>2. SubmitDoor = p \o q
    BY DEF SubmitDoor
  <2> HIDE DEF p, q
  <2> QED  BY <1>11, <2>1, <2>2, Zenon
<1>15. d \in {"events", "endpoint", "action", "capability", "agent", "submit", "mcp"}
  BY DEF Doors
<1>16. /\ Doors["events"] = EventsDoor /\ Doors["endpoint"] = EndpointDoor /\ Doors["action"] = ActionDoor
       /\ Doors["capability"] = CapabilityDoor /\ Doors["agent"] = AgentDoor /\ Doors["mcp"] = McpDoor
       /\ Doors["submit"] = SubmitDoor
  BY DEF Doors
<1>17. Good(Doors[d])
  BY <1>8, <1>9, <1>12, <1>13, <1>14, <1>15, <1>16, <1>18, Zenon
<1> QED  BY <1>17 DEF Good

(* Only the manager's submit takes the caller's word.                       *)
LEMMA ClaimDoor ==
    ASSUME NEW d \in DOMAIN Doors, d # "submit"
    PROVE  Unclaimed(Doors[d])
<1> DEFINE Plain(part) == part \in Seq(Stages) /\ Unclaimed(part)
           a == <<Secret, NoAction1, NotJson, Check("action_ref", 409)>>
           b == <<BadSchema, NoTarget, NoKey, Check("provider", 503), DryRun>>
           c == <<Secret, NoRoute>>
           e == <<Roles, NotJson, Check("event_type", 400), Check("metadata", 400), Check("store", 500), Append1>>
           p == <<Roles, NotJson, Invoke>>
           q == <<Roles, Invoke>>
           s == <<Secret>>
           t == <<NoTenant, NotRpc>>
           v == <<Verify>>
<1>1. /\ Plain(a) /\ Plain(b) /\ Plain(c) /\ Plain(e) /\ Plain(p) /\ Plain(q) /\ Plain(s) /\ Plain(t)
      /\ Plain(v) /\ Plain(Caller) /\ Plain(Contract) /\ Plain(TokenRead) /\ Plain(TokenClaims)
      /\ Plain(Dispatch) /\ Plain(CapabilityDoor) /\ Plain(AgentDoor)
  <2> USE DEF Check, Wait, Roles, Verify, Invoke, Append1, Secret, NoRoute, NotJson, NoAction1, BadSchema,
              NoTarget, NoKey, DryRun, NoCapability, NoEndpoint, NoTenant, NotRpc, Stages, Dos, Flaws,
              Unclaimed
  <2>1. Plain(a) /\ Plain(b) /\ Plain(c) /\ Plain(e)
    OBVIOUS
  <2>2. Plain(p) /\ Plain(q) /\ Plain(s) /\ Plain(t) /\ Plain(v)
    OBVIOUS
  <2>3. Plain(Caller) /\ Plain(Contract) /\ Plain(TokenRead) /\ Plain(TokenClaims)
    BY DEF Caller, Contract, TokenRead, TokenClaims
  <2>4. Plain(Dispatch)
    BY DEF Dispatch
  <2>5. Plain(CapabilityDoor) /\ Plain(AgentDoor)
    BY DEF CapabilityDoor, AgentDoor
  <2> QED  BY <2>1, <2>2, <2>3, <2>4, <2>5
<1>2. \A x, y : Plain(x) /\ Plain(y) => Plain(x \o y)
  BY Joined, ZenonT(40)
<1>3. /\ EventsDoor = s \o Caller \o e /\ EndpointDoor = c \o Caller \o p
      /\ ActionDoor = a \o Contract \o b \o Caller \o q
      /\ McpDoor = TokenRead \o v \o TokenClaims \o t \o Dispatch
  BY Zenon DEF EventsDoor, EndpointDoor, ActionDoor, McpDoor
<1> HIDE DEF Plain, a, b, c, e, p, q, s, t, v
<1>4. Plain(EventsDoor) /\ Plain(EndpointDoor)
  <2>1. Plain(s \o Caller) /\ Plain(c \o Caller)
    BY <1>1, <1>2, Zenon
  <2> QED  BY <1>1, <1>2, <1>3, <2>1, Zenon
<1>5. Plain(ActionDoor)
  <2>1. Plain(a \o Contract)
    BY <1>1, <1>2, Zenon
  <2>2. Plain(a \o Contract \o b)
    BY <1>1, <1>2, <2>1, Zenon
  <2>3. Plain(a \o Contract \o b \o Caller)
    BY <1>1, <1>2, <2>2, Zenon
  <2> QED  BY <1>1, <1>2, <1>3, <2>3, Zenon
<1>6. Plain(McpDoor)
  <2>1. Plain(TokenRead \o v)
    BY <1>1, <1>2, Zenon
  <2>2. Plain(TokenRead \o v \o TokenClaims)
    BY <1>1, <1>2, <2>1, Zenon
  <2>3. Plain(TokenRead \o v \o TokenClaims \o t)
    BY <1>1, <1>2, <2>2, Zenon
  <2> QED  BY <1>1, <1>2, <1>3, <2>3, Zenon
<1>7. /\ Doors["events"] = EventsDoor /\ Doors["endpoint"] = EndpointDoor /\ Doors["action"] = ActionDoor
      /\ Doors["capability"] = CapabilityDoor /\ Doors["agent"] = AgentDoor /\ Doors["mcp"] = McpDoor
  BY DEF Doors
<1>8. d \in {"events", "endpoint", "action", "capability", "agent", "mcp"}
  BY DEF Doors
<1>9. Plain(Doors[d])
  BY <1>1, <1>4, <1>5, <1>6, <1>7, <1>8, Zenon
<1> QED  BY <1>9 DEF Plain

(* StopAt finds a stage: the last one is not a check.                       *)
LEMMA Stopped ==
    ASSUME NEW d \in DOMAIN Doors, NEW i \in 1 .. Len(Doors[d]), NEW flaws
    PROVE  StopAt(Doors[d], i, flaws) \in i .. Len(Doors[d])
<1> DEFINE door == Doors[d]
           n == Len(door)
           Halts(j) == door[j].do # "check" \/ door[j].flaw \in flaws
           S == {j \in i .. n : Halts(j)}
<1>1. n \in Nat /\ door[n].do # "check"
  BY DoorShape DEF Ends
<1>2. S \subseteq Nat /\ n \in S
  BY <1>1
<1>3. PICK j \in S : \A m \in S : j <= m
  BY <1>2, LeastExists
<1>4. \A k \in i .. (j - 1) : ~Halts(k)
  BY <1>1, <1>3
<1>5. \E l \in i .. n : Halts(l) /\ \A k \in i .. (l - 1) : ~Halts(k)
  BY <1>3, <1>4
<1>6. StopAt(door, i, flaws) = CHOOSE l \in i .. n :
                                  Halts(l) /\ \A k \in i .. (l - 1) : door[k].do = "check" /\ door[k].flaw \notin flaws
  BY DEF StopAt
<1> QED  BY <1>5, <1>6

-----------------------------------------------------------------------------
(* What the proof keeps of the caches and of every request.                 *)

Pcs  == {"free", "roles", "claim", "asking", "told", "verify", "fetching", "fetched", "invoke", "append", "done"}
Srcs == {"none", "asserted", "overlay", "stale", "claims"}
NoAsked   == [door |-> "none"]
RolesSeen == {"local"} \cup RoleNames \cup UNION {a.header \cup a.body \cup a.token.roles : a \in Asked}
Requests  == [pc : Pcs, ask : Asked \cup {NoAsked}, i : Nat, t0 : Nat, got : SUBSET (RoleNames \cup Keys),
              src : Srcs, roles : SUBSET RolesSeen, res : Int]

DoorTypes ==
    /\ now \in Nat /\ overlay \in BOOLEAN
    /\ granted \in Seq(SUBSET RoleNames) /\ Len(granted) = now + 1
    /\ published \in Seq(SUBSET Keys) /\ Len(published) = now + 1
    /\ entry \in [at : Int, map : SUBSET RoleNames]
    /\ slot \in [issuer : {"none"} \cup {a.token.iss : a \in Asked}, at : Int, keys : SUBSET Keys]
    /\ reqs \in [Slots -> Requests]

(* roles were what the service granted at some time since `since`.          *)
GrantedSince(roles, since) == \E t \in 0 .. now : t >= since /\ roles = granted[t + 1]

(* The issuer has published all these keys.                                 *)
PublishedBy(keys, iss) == \A k \in keys : k.iss = iss /\ \E t \in 0 .. now : k \in published[t + 1]

(* Role r, from this source and asked for at this time, may be relied on.   *)
Trusted(ask, src, since) ==
    /\ src # "none" /\ (src = "asserted" => ~overlay \/ ask.door = "submit")
    /\ src = "overlay" => \E t \in 0 .. now : t > since - TTL /\ "r" \in granted[t + 1]
    /\ src = "stale"   => \E t \in 0 .. now : "r" \in granted[t + 1]
    /\ src = "claims"  => /\ ask.token.key.iss = ask.token.iss
                          /\ \E t \in 0 .. now : ask.token.key \in published[t + 1]

(* The stage a request waits at, and what it has been told there.           *)
WaitsAt(r) == CASE r.pc \in {"asking", "told"}      -> "roles"
                [] r.pc \in {"fetching", "fetched"} -> "verify"
                [] OTHER -> r.pc
Placed(r) ==
    /\ r.pc = "free" \/ r.ask \in Asked
    /\ r.t0 \in 0 .. now
    /\ r.pc \notin {"free", "done"} => /\ r.i \in 1 .. Len(Doors[r.ask.door])
                                       /\ Doors[r.ask.door][r.i].do = WaitsAt(r)
    /\ r.pc \notin {"invoke", "append", "done"} => r.roles = {}

Sound(r) ==
    /\ r.pc = "told" => GrantedSince(r.got, r.t0)
    /\ r.pc = "fetched" => PublishedBy(r.got, r.ask.token.iss)
    /\ "r" \in r.roles => Trusted(r.ask, r.src, r.t0)
    /\ r.pc = "done" /\ r.res = 200 /\ Doors[r.ask.door][r.i].do = "invoke" => "r" \in r.roles

CachesSound ==
    /\ entry # NoEntry => GrantedSince(entry.map, entry.at)
    /\ PublishedBy(slot.keys, slot.issuer)

DoorInv ==
    /\ DoorTypes /\ CachesSound
    /\ \A s \in Slots : Placed(reqs[s]) /\ Sound(reqs[s])

(* A request goes on from its i-th stage: it is at a later one, with what   *)
(* it had.                                                                  *)
LEMMA OnwardFacts ==
    ASSUME NEW r \in Requests, r.ask \in Asked, NEW i \in 1 .. Len(Doors[r.ask.door])
    PROVE  LET q == Onward(r, i)
           IN  /\ q \in Requests
               /\ q.ask = r.ask /\ q.t0 = r.t0 /\ q.got = r.got /\ q.src = r.src /\ q.roles = r.roles
               /\ q.i \in i .. Len(Doors[r.ask.door])
               /\ \/ q.pc = "done" /\ Doors[r.ask.door][q.i].do = "check"
                  \/ q.pc = Doors[r.ask.door][q.i].do /\ q.pc \in {"roles", "claim", "verify", "invoke", "append"}
<1> DEFINE door == Doors[r.ask.door]
           j == StopAt(door, i, r.ask.flaws)
<1>1. r.ask.door \in DOMAIN Doors
  BY AccessAssumption
<1>2. j \in i .. Len(door) /\ door \in Seq(Stages)
  BY <1>1, Stopped, DoorShape
<1>3. j \in Nat /\ j \in 1 .. Len(door)
  BY <1>2
<1>4. door[j] \in Stages
  BY <1>2, <1>3
<1>5. door[j].do \in Dos /\ door[j].status \in Int
  BY <1>4 DEF Stages
<1>6. Onward(r, i) = IF door[j].do = "check" THEN [r EXCEPT !.pc = "done", !.i = j, !.res = door[j].status]
                     ELSE [r EXCEPT !.pc = door[j].do, !.i = j]
  BY DEF Onward
<1> HIDE DEF j, door
<1>7. CASE door[j].do = "check"
  <2>1. Onward(r, i) = [r EXCEPT !.pc = "done", !.i = j, !.res = door[j].status]
    BY <1>6, <1>7
  <2> QED  BY <2>1, <1>2, <1>3, <1>5, <1>7 DEF Requests, Pcs, door
<1>8. CASE door[j].do # "check"
  <2>1. Onward(r, i) = [r EXCEPT !.pc = door[j].do, !.i = j]
    BY <1>6, <1>8
  <2> QED  BY <2>1, <1>2, <1>3, <1>5, <1>8 DEF Requests, Pcs, Dos, door
<1> QED  BY <1>7, <1>8

(* The same behind the stage that asks for roles or a key: it is the only   *)
(* one.                                                                     *)
LEMMA WithRolesFacts ==
    ASSUME NEW r \in Requests, r.ask \in Asked, r.i \in 1 .. Len(Doors[r.ask.door]),
           Doors[r.ask.door][r.i].do \in {"roles", "claim", "verify"},
           NEW roles \in SUBSET RolesSeen, NEW src \in Srcs
    PROVE  LET q == WithRoles(r, roles, src)
           IN  /\ q \in Requests
               /\ q.ask = r.ask /\ q.t0 = r.t0 /\ q.got = r.got /\ q.src = src /\ q.roles = roles
               /\ q.i \in 1 .. Len(Doors[r.ask.door])
               /\ \/ q.pc = "done" /\ Doors[r.ask.door][q.i].do = "check"
                  \/ q.pc = Doors[r.ask.door][q.i].do /\ q.pc \in {"invoke", "append"}
<1> DEFINE door == Doors[r.ask.door]
           p == [r EXCEPT !.roles = roles, !.src = src]
<1>1. r.ask.door \in DOMAIN Doors
  BY AccessAssumption
<1>2. door \in Seq(Stages) /\ OneAsk(door) /\ Ends(door)
  BY <1>1, DoorShape
<1>3. p \in Requests /\ p.ask = r.ask /\ p.t0 = r.t0 /\ p.got = r.got /\ p.src = src /\ p.roles = roles
  BY DEF Requests
<1>4. r.i # Len(door) /\ DOMAIN door = 1 .. Len(door) /\ Len(door) \in Nat
  BY <1>2 DEF Ends
<1>5. r.i + 1 \in 1 .. Len(door)
  BY <1>4
<1> HIDE DEF p
<1>6. Onward(p, r.i + 1).i \in (r.i + 1) .. Len(door)
  BY <1>3, <1>5, OnwardFacts
<1>7. ~Asking(door[Onward(p, r.i + 1).i])
  BY <1>2, <1>4, <1>6 DEF OneAsk, Asking
<1>8. WithRoles(r, roles, src) = Onward(p, r.i + 1)
  BY DEF WithRoles, p
<1> DEFINE q == Onward(p, r.i + 1)
<1>9. /\ q \in Requests
      /\ q.ask = p.ask /\ q.t0 = p.t0 /\ q.got = p.got /\ q.src = p.src /\ q.roles = p.roles
      /\ \/ q.pc = "done" /\ door[q.i].do = "check"
         \/ q.pc = door[q.i].do /\ q.pc \in {"roles", "claim", "verify", "invoke", "append"}
  <2>1. p.ask \in Asked /\ r.i + 1 \in 1 .. Len(Doors[p.ask.door])
    BY <1>3, <1>5
  <2>2. /\ q \in Requests
        /\ q.ask = p.ask /\ q.t0 = p.t0 /\ q.got = p.got /\ q.src = p.src /\ q.roles = p.roles
        /\ \/ q.pc = "done" /\ Doors[p.ask.door][q.i].do = "check"
           \/ /\ q.pc = Doors[p.ask.door][q.i].do
              /\ q.pc \in {"roles", "claim", "verify", "invoke", "append"}
    BY <1>3, <2>1, OnwardFacts, Zenon
  <2> HIDE DEF q
  <2> QED  BY <1>3, <2>2
<1>10. q.i \in 1 .. Len(door) /\ ~Asking(door[q.i])
  BY <1>4, <1>6, <1>7
<1>11. WithRoles(r, roles, src) = q
  BY <1>8
<1> HIDE DEF q
<1> QED  BY <1>3, <1>9, <1>10, <1>11 DEF Asking

(* A request that has its roles is sound when they may be relied on.        *)
LEMMA WithRolesSound ==
    ASSUME NEW r \in Requests, Placed(r),
           r.pc \in {"roles", "claim", "asking", "told", "verify", "fetching", "fetched"},
           NEW roles \in SUBSET RolesSeen, NEW src \in Srcs,
           "r" \in roles => Trusted(r.ask, src, r.t0)
    PROVE  /\ WithRoles(r, roles, src) \in Requests
           /\ Placed(WithRoles(r, roles, src)) /\ Sound(WithRoles(r, roles, src))
<1> DEFINE q == WithRoles(r, roles, src)
<1>1. /\ r.ask \in Asked /\ r.i \in 1 .. Len(Doors[r.ask.door])
      /\ Doors[r.ask.door][r.i].do \in {"roles", "claim", "verify"}
  BY DEF Placed, WaitsAt
<1>2. /\ q \in Requests
      /\ q.ask = r.ask /\ q.t0 = r.t0 /\ q.got = r.got /\ q.src = src /\ q.roles = roles
      /\ q.i \in 1 .. Len(Doors[r.ask.door])
      /\ \/ q.pc = "done" /\ Doors[r.ask.door][q.i].do = "check"
         \/ q.pc = Doors[r.ask.door][q.i].do /\ q.pc \in {"invoke", "append"}
  BY <1>1, WithRolesFacts, Zenon
<1> HIDE DEF q
<1>3. Placed(q)
  BY <1>1, <1>2 DEF Placed, WaitsAt
<1>4. Sound(q)
  BY <1>1, <1>2 DEF Sound
<1> QED  BY <1>2, <1>3, <1>4 DEF q

(* One request moves on, the clock and the services stand still.            *)
LEMMA RequestMoves ==
    ASSUME DoorInv, NEW s \in Slots, NEW q \in Requests, Placed(q), Sound(q),
           reqs' = [reqs EXCEPT ![s] = q], UNCHANGED <<now, overlay, granted, published>>,
           entry' \in [at : Int, map : SUBSET RoleNames],
           slot' \in [issuer : {"none"} \cup {a.token.iss : a \in Asked}, at : Int, keys : SUBSET Keys],
           CachesSound'
    PROVE  DoorInv'
<1>1. DoorTypes'
  BY DEF DoorInv, DoorTypes
<1>2. ASSUME NEW x \in Slots PROVE (Placed(reqs[x]) /\ Sound(reqs[x]))'
  <2>1. reqs'[x] = IF x = s THEN q ELSE reqs[x]
    BY DEF DoorInv, DoorTypes
  <2>2. Placed(reqs'[x]) /\ Sound(reqs'[x])
    BY <2>1 DEF DoorInv
  <2> QED  BY <2>2 DEF Placed, WaitsAt, Sound, Trusted, GrantedSince, PublishedBy
<1> QED  BY <1>1, <1>2 DEF DoorInv

(* The same when the caches stay as they are.                               *)
LEMMA RequestMovesOnly ==
    ASSUME DoorInv, NEW s \in Slots, NEW q \in Requests, Placed(q), Sound(q),
           reqs' = [reqs EXCEPT ![s] = q], UNCHANGED <<now, overlay, granted, published, entry, slot>>
    PROVE  DoorInv'
<1>1. CachesSound'
  BY DEF DoorInv, CachesSound, GrantedSince, PublishedBy
<1>2. /\ entry' \in [at : Int, map : SUBSET RoleNames]
      /\ slot' \in [issuer : {"none"} \cup {a.token.iss : a \in Asked}, at : Int, keys : SUBSET Keys]
  BY DEF DoorInv, DoorTypes
<1> QED  BY <1>1, <1>2, RequestMoves

-----------------------------------------------------------------------------
(* The server starts with empty caches.                                      *)
LEMMA DoorStarts == DoorInit(BOOLEAN, SUBSET RoleNames) => DoorInv
<1> SUFFICES ASSUME DoorInit(BOOLEAN, SUBSET RoleNames) PROVE DoorInv
  OBVIOUS
<1>1. Free \in Requests
  BY DEF Free, Requests, Pcs, Srcs, NoAsked
<1>2. DoorTypes
  <2>1. {k \in Keys : k.kid = 1} \in SUBSET Keys
    OBVIOUS
  <2> HIDE DEF Free
  <2>2. now \in Nat /\ overlay \in BOOLEAN /\ reqs \in [Slots -> Requests]
    BY <1>1 DEF DoorInit
  <2>3. granted \in Seq(SUBSET RoleNames) /\ Len(granted) = now + 1
    <3>1. PICK g \in SUBSET RoleNames : granted = <<g>>
      BY DEF DoorInit
    <3>2. now = 0
      BY DEF DoorInit
    <3> QED  BY <3>1, <3>2
  <2>4. published \in Seq(SUBSET Keys) /\ Len(published) = now + 1
    BY <2>1 DEF DoorInit
  <2>5. /\ entry \in [at : Int, map : SUBSET RoleNames]
        /\ slot \in [issuer : {"none"} \cup {a.token.iss : a \in Asked}, at : Int, keys : SUBSET Keys]
    BY DEF DoorInit, NoEntry, NoSlot
  <2> QED  BY <2>2, <2>3, <2>4, <2>5 DEF DoorTypes
<1>3. CachesSound
  BY DEF DoorInit, CachesSound, PublishedBy, NoSlot
<1>4. \A s \in Slots : Placed(reqs[s]) /\ Sound(reqs[s])
  BY <1>2 DEF DoorTypes, DoorInit, Free, Placed, Sound, WaitsAt
<1> QED  BY <1>2, <1>3, <1>4 DEF DoorInv

(* Roles that are effective, and the ones a caller asserts, are role names  *)
(* the model knows; r is among them only when it was found or asserted.     *)
LEMMA RolesFound ==
    ASSUME NEW found \in SUBSET RoleNames
    PROVE  EffectiveRoles(found) \in SUBSET RolesSeen /\ ("r" \in EffectiveRoles(found) => "r" \in found)
BY DEF EffectiveRoles, RolesSeen

(* A request comes to a door.                                                *)
LEMMA AcceptSafe ==
    ASSUME DoorInv, NEW s \in Slots, NEW a \in Asked, Accept(s, a)
    PROVE  DoorInv'
<1> DEFINE p == [Free EXCEPT !.ask = a]
           q == Onward(p, 1)
<1>1. p \in Requests /\ p.ask = a /\ p.roles = {} /\ p.t0 = 0 /\ 0 \in 0 .. now
  <2>1. p \in Requests /\ p.ask = a /\ p.roles = {} /\ p.t0 = 0
    BY DEF Free, Requests, Pcs, Srcs
  <2>2. 0 \in 0 .. now
    BY DEF DoorInv, DoorTypes
  <2> QED  BY <2>1, <2>2
<1>2. a.door \in DOMAIN Doors
  BY AccessAssumption
<1>3. 1 \in 1 .. Len(Doors[a.door])
  BY <1>2, DoorShape DEF Ends
<1> HIDE DEF p
<1>4. p.ask \in Asked /\ 1 \in 1 .. Len(Doors[p.ask.door])
  BY <1>1, <1>3
<1>5. /\ q \in Requests /\ q.ask = p.ask /\ q.roles = p.roles /\ q.t0 = p.t0
      /\ q.i \in 1 .. Len(Doors[p.ask.door])
      /\ \/ q.pc = "done" /\ Doors[p.ask.door][q.i].do = "check"
         \/ q.pc = Doors[p.ask.door][q.i].do /\ q.pc \in {"roles", "claim", "verify", "invoke", "append"}
  BY <1>1, <1>4, OnwardFacts, Zenon
<1>6. reqs' = [reqs EXCEPT ![s] = q] /\ UNCHANGED <<now, overlay, granted, published, entry, slot>>
  BY DEF Accept, p
<1> HIDE DEF q
<1>7. Placed(q) /\ Sound(q)
  BY <1>1, <1>5 DEF Placed, Sound, WaitsAt
<1> QED  BY <1>5, <1>6, <1>7, RequestMovesOnly

(* A thread reads the roles cache.                                           *)
LEMMA LookupRolesSafe ==
    ASSUME DoorInv, NEW s \in Slots, LookupRoles(s)
    PROVE  DoorInv'
<1> DEFINE r == reqs[s]
           p == [r EXCEPT !.t0 = now]
<1>1. r \in Requests /\ Placed(r) /\ Sound(r) /\ r.pc = "roles"
  BY DEF DoorInv, DoorTypes, LookupRoles
<1>2. r.ask \in Asked /\ UNCHANGED <<now, overlay, granted, published, entry, slot>>
  BY <1>1 DEF Placed, LookupRoles
<1>3. CASE ~overlay
  <2> DEFINE roles == AssertedRoles(r.ask.header, r.ask.body)
  <2>1. roles \in SUBSET RolesSeen
    BY <1>2 DEF AssertedRoles, RolesSeen
  <2>2. Trusted(r.ask, "asserted", r.t0)
    BY <1>3 DEF Trusted
  <2>3. reqs' = [reqs EXCEPT ![s] = WithRoles(r, roles, "asserted")]
    BY <1>3 DEF LookupRoles
  <2> HIDE DEF roles, r
  <2>4. /\ WithRoles(r, roles, "asserted") \in Requests
        /\ Placed(WithRoles(r, roles, "asserted")) /\ Sound(WithRoles(r, roles, "asserted"))
    BY <1>1, <2>1, <2>2, WithRolesSound DEF Srcs
  <2> QED  BY <1>2, <2>3, <2>4, RequestMovesOnly
<1>4. CASE overlay /\ ~r.ask.email
  <2>1. {"local"} \in SUBSET RolesSeen /\ "r" \notin {"local"}
    BY DEF RolesSeen
  <2>2. reqs' = [reqs EXCEPT ![s] = WithRoles(r, {"local"}, "none")]
    BY <1>4 DEF LookupRoles
  <2> HIDE DEF r
  <2>3. /\ WithRoles(r, {"local"}, "none") \in Requests
        /\ Placed(WithRoles(r, {"local"}, "none")) /\ Sound(WithRoles(r, {"local"}, "none"))
    BY <1>1, <2>1, WithRolesSound DEF Srcs
  <2> QED  BY <1>2, <2>2, <2>3, RequestMovesOnly
<1>5. now \in Nat /\ p \in Requests /\ p.pc = r.pc /\ p.ask = r.ask /\ p.t0 = now /\ p.i = r.i /\ p.roles = r.roles
  BY <1>1 DEF DoorInv, DoorTypes, Requests
<1>6. Placed(p)
  BY <1>1, <1>5 DEF Placed, WaitsAt
<1>7. CASE overlay /\ r.ask.email /\ RolesHit(entry, now, TTL)
  <2> DEFINE roles == EffectiveRoles(entry.map)
  <2>1. entry.map \in SUBSET RoleNames /\ entry.at \in Int
    BY DEF DoorInv, DoorTypes
  <2>2. roles \in SUBSET RolesSeen /\ ("r" \in roles => "r" \in entry.map)
    BY <2>1, RolesFound
  <2>3. PICK t \in 0 .. now : t >= entry.at /\ entry.map = granted[t + 1]
    BY <1>7 DEF RolesHit, DoorInv, CachesSound, GrantedSince
  <2>4. t > now - TTL
    BY <1>5, <1>7, <2>1, <2>3, AccessAssumption DEF RolesHit
  <2>5. "r" \in roles => Trusted(p.ask, "overlay", p.t0)
    BY <1>5, <2>2, <2>3, <2>4 DEF Trusted
  <2>6. reqs' = [reqs EXCEPT ![s] = WithRoles(p, roles, "overlay")]
    BY <1>7 DEF LookupRoles
  <2> HIDE DEF roles, p, r
  <2>7. /\ WithRoles(p, roles, "overlay") \in Requests
        /\ Placed(WithRoles(p, roles, "overlay")) /\ Sound(WithRoles(p, roles, "overlay"))
    BY <1>1, <1>5, <1>6, <2>2, <2>5, WithRolesSound DEF Srcs
  <2> QED  BY <1>2, <2>6, <2>7, RequestMovesOnly
<1>8. CASE overlay /\ r.ask.email /\ ~RolesHit(entry, now, TTL)
  <2> DEFINE q == [r EXCEPT !.pc = "asking", !.t0 = now]
  <2>1. q \in Requests /\ q.pc = "asking" /\ q.ask = r.ask /\ q.i = r.i /\ q.roles = r.roles /\ q.t0 = now
    BY <1>1, <1>5 DEF Requests, Pcs
  <2>2. Placed(q) /\ Sound(q)
    BY <1>1, <1>5, <2>1 DEF Placed, Sound, WaitsAt
  <2>3. reqs' = [reqs EXCEPT ![s] = q]
    BY <1>8 DEF LookupRoles
  <2> HIDE DEF q
  <2> QED  BY <1>2, <2>1, <2>2, <2>3, RequestMovesOnly
<1> QED  BY <1>3, <1>4, <1>7, <1>8 DEF DoorInv, DoorTypes

(* The manager's submit takes the caller's word.                            *)
LEMMA ClaimRolesSafe ==
    ASSUME DoorInv, NEW s \in Slots, ClaimRoles(s)
    PROVE  DoorInv'
<1> DEFINE r == reqs[s]
           roles == AssertedRoles(r.ask.header, r.ask.body)
<1>1. r \in Requests /\ Placed(r) /\ Sound(r) /\ r.pc = "claim"
  BY DEF DoorInv, DoorTypes, ClaimRoles
<1>2. r.ask \in Asked /\ UNCHANGED <<now, overlay, granted, published, entry, slot>>
  BY <1>1 DEF Placed, ClaimRoles
<1>3. r.ask.door = "submit"
  <2>1. r.ask.door \in DOMAIN Doors
    BY <1>2, AccessAssumption
  <2>2. r.i \in DOMAIN Doors[r.ask.door] /\ Doors[r.ask.door][r.i].do = "claim"
    BY <1>1, <2>1, DoorShape DEF Placed, WaitsAt
  <2> QED  BY <2>1, <2>2, ClaimDoor DEF Unclaimed
<1>4. roles \in SUBSET RolesSeen
  BY <1>2 DEF AssertedRoles, RolesSeen
<1>5. Trusted(r.ask, "asserted", r.t0)
  BY <1>3 DEF Trusted
<1>6. reqs' = [reqs EXCEPT ![s] = WithRoles(r, roles, "asserted")]
  BY DEF ClaimRoles
<1> HIDE DEF roles, r
<1>7. /\ WithRoles(r, roles, "asserted") \in Requests
      /\ Placed(WithRoles(r, roles, "asserted")) /\ Sound(WithRoles(r, roles, "asserted"))
  BY <1>1, <1>4, <1>5, WithRolesSound DEF Srcs
<1> QED  BY <1>2, <1>6, <1>7, RequestMovesOnly

(* The admin service answers, or does not.                                   *)
LEMMA ServiceSafe ==
    ASSUME DoorInv, NEW s \in Slots, ServiceAnswers(s) \/ ServiceFails(s)
    PROVE  DoorInv'
<1> DEFINE r == reqs[s]
<1>1. r \in Requests /\ Placed(r) /\ Sound(r) /\ r.pc = "asking"
  BY DEF DoorInv, DoorTypes, ServiceAnswers, ServiceFails
<1>2. r.ask \in Asked /\ UNCHANGED <<now, overlay, granted, published, entry, slot>>
  BY <1>1 DEF Placed, ServiceAnswers, ServiceFails
<1>3. CASE ServiceAnswers(s)
  <2> DEFINE g == granted[now + 1]
             q == [r EXCEPT !.pc = "told", !.got = g]
  <2>1. g \in SUBSET RoleNames /\ now \in 0 .. now /\ now \in Nat
    BY DEF DoorInv, DoorTypes
  <2>2. reqs' = [reqs EXCEPT ![s] = q]
    BY <1>3 DEF ServiceAnswers
  <2> HIDE DEF r
  <2>3. /\ q \in Requests /\ q.pc = "told" /\ q.ask = r.ask /\ q.i = r.i /\ q.roles = r.roles
        /\ q.t0 = r.t0 /\ q.src = r.src /\ q.got = g
    BY <1>1, <2>1 DEF Requests, Pcs
  <2> HIDE DEF q
  <2>4. Placed(q)
    BY <1>1, <2>3 DEF Placed, WaitsAt
  <2>5. GrantedSince(q.got, q.t0)
    BY <1>1, <2>1, <2>3 DEF GrantedSince, Placed
  <2>6. Sound(q)
    BY <1>1, <2>3, <2>5 DEF Placed, Sound
  <2> QED  BY <1>2, <2>2, <2>3, <2>4, <2>6, RequestMovesOnly
<1>4. CASE ServiceFails(s) /\ entry # NoEntry
  <2> DEFINE roles == EffectiveRoles(entry.map)
  <2>1. entry.map \in SUBSET RoleNames
    BY DEF DoorInv, DoorTypes
  <2>2. roles \in SUBSET RolesSeen /\ ("r" \in roles => "r" \in entry.map)
    BY <2>1, RolesFound
  <2>3. "r" \in roles => Trusted(r.ask, "stale", r.t0)
    BY <1>4, <2>2 DEF Trusted, DoorInv, CachesSound, GrantedSince
  <2>4. reqs' = [reqs EXCEPT ![s] = WithRoles(r, roles, "stale")]
    BY <1>4 DEF ServiceFails
  <2> HIDE DEF roles, r
  <2>5. /\ WithRoles(r, roles, "stale") \in Requests
        /\ Placed(WithRoles(r, roles, "stale")) /\ Sound(WithRoles(r, roles, "stale"))
    BY <1>1, <2>2, <2>3, WithRolesSound DEF Srcs
  <2> QED  BY <1>2, <2>4, <2>5, RequestMovesOnly
<1>5. CASE ServiceFails(s) /\ entry = NoEntry
  <2>1. {"local"} \in SUBSET RolesSeen /\ "r" \notin {"local"}
    BY DEF RolesSeen
  <2>2. reqs' = [reqs EXCEPT ![s] = WithRoles(r, {"local"}, "none")]
    BY <1>5 DEF ServiceFails
  <2> HIDE DEF r
  <2>3. /\ WithRoles(r, {"local"}, "none") \in Requests
        /\ Placed(WithRoles(r, {"local"}, "none")) /\ Sound(WithRoles(r, {"local"}, "none"))
    BY <1>1, <2>1, WithRolesSound DEF Srcs
  <2> QED  BY <1>2, <2>2, <2>3, RequestMovesOnly
<1> QED  BY <1>3, <1>4, <1>5

(* A thread puts the answer into the roles cache.                            *)
LEMMA StoreRolesSafe ==
    ASSUME DoorInv, NEW s \in Slots, StoreRoles(s)
    PROVE  DoorInv'
<1> DEFINE r == reqs[s]
           roles == EffectiveRoles(r.got)
<1>1. r \in Requests /\ Placed(r) /\ Sound(r) /\ r.pc = "told"
  BY DEF DoorInv, DoorTypes, StoreRoles
<1>2. r.ask \in Asked /\ UNCHANGED <<now, overlay, granted, published, slot>>
  BY <1>1 DEF Placed, StoreRoles
<1>3. entry' = [at |-> r.t0, map |-> r.got] /\ reqs' = [reqs EXCEPT ![s] = WithRoles(r, roles, "overlay")]
  BY DEF StoreRoles, FreshEntry
<1> HIDE DEF r
<1>4. PICK t \in 0 .. now : t >= r.t0 /\ r.got = granted[t + 1]
  BY <1>1 DEF Sound, GrantedSince
<1>5. r.t0 \in Nat /\ now \in Nat /\ r.got \in SUBSET RoleNames
  BY <1>1, <1>4 DEF DoorInv, DoorTypes, Requests
<1>6. roles \in SUBSET RolesSeen /\ ("r" \in roles => "r" \in r.got)
  BY <1>5, RolesFound
<1>7. t > r.t0 - TTL
  BY <1>4, <1>5, AccessAssumption
<1>8. "r" \in roles => Trusted(r.ask, "overlay", r.t0)
  BY <1>4, <1>6, <1>7 DEF Trusted
<1> HIDE DEF roles
<1>9. /\ WithRoles(r, roles, "overlay") \in Requests
      /\ Placed(WithRoles(r, roles, "overlay")) /\ Sound(WithRoles(r, roles, "overlay"))
  BY <1>1, <1>6, <1>8, WithRolesSound DEF Srcs
<1>10. /\ entry' \in [at : Int, map : SUBSET RoleNames]
       /\ slot' \in [issuer : {"none"} \cup {a.token.iss : a \in Asked}, at : Int, keys : SUBSET Keys]
  BY <1>2, <1>3, <1>5 DEF DoorInv, DoorTypes
<1>11. CachesSound'
  BY <1>2, <1>3, <1>4 DEF DoorInv, CachesSound, GrantedSince, PublishedBy
<1> QED  BY <1>2, <1>3, <1>9, <1>10, <1>11, RequestMoves

(* A request that is refused keeps what it knows.                           *)
LEMMA Ended ==
    ASSUME NEW r \in Requests
    PROVE  LET q == [r EXCEPT !.pc = "done", !.res = 401]
           IN  /\ q \in Requests /\ q.pc = "done" /\ q.res = 401
               /\ q.ask = r.ask /\ q.i = r.i /\ q.roles = r.roles /\ q.t0 = r.t0
<1>1. ASSUME NEW x \in Int
      PROVE  LET q == [r EXCEPT !.pc = "done", !.res = x]
             IN  /\ q \in Requests /\ q.pc = "done" /\ q.res = x
                 /\ q.ask = r.ask /\ q.i = r.i /\ q.roles = r.roles /\ q.t0 = r.t0
  <2> DEFINE q == [r EXCEPT !.pc = "done", !.res = x]
  <2>1. q \in Requests
    BY DEF Requests, Pcs
  <2>2. q.pc = "done" /\ q.res = x
    BY DEF Requests
  <2>3. q.ask = r.ask /\ q.i = r.i /\ q.roles = r.roles /\ q.t0 = r.t0
    BY DEF Requests
  <2> QED  BY <2>1, <2>2, <2>3, Zenon
<1>2. 401 \in Int
  OBVIOUS
<1> QED  BY <1>1, <1>2, Zenon

(* A token is verified with keys of its issuer, or refused.                 *)
LEMMA VerifiedSound ==
    ASSUME NEW r \in Requests, Placed(r), r.pc \in {"verify", "fetching", "fetched"}, NEW keys,
           PublishedBy(keys, r.ask.token.iss)
    PROVE  Verified(r, keys) \in Requests /\ Placed(Verified(r, keys)) /\ Sound(Verified(r, keys))
<1>1. CASE Signed(r.ask.token, keys)
  <2> DEFINE roles == r.ask.token.roles
  <2>1. r.ask \in Asked
    BY DEF Placed
  <2>2. roles \in SUBSET RolesSeen
    BY <2>1 DEF RolesSeen
  <2>3. Trusted(r.ask, "claims", r.t0)
    BY <1>1 DEF Signed, Trusted, PublishedBy
  <2>4. Verified(r, keys) = WithRoles(r, roles, "claims")
    BY <1>1 DEF Verified
  <2> HIDE DEF roles
  <2> QED  BY <2>2, <2>3, <2>4, WithRolesSound DEF Srcs
<1>2. CASE ~Signed(r.ask.token, keys)
  <2> DEFINE q == [r EXCEPT !.pc = "done", !.res = 401]
  <2>1. Verified(r, keys) = q
    BY <1>2 DEF Verified, Unauthorized
  <2>2. /\ q \in Requests /\ q.pc = "done" /\ q.res = 401
        /\ q.ask = r.ask /\ q.i = r.i /\ q.roles = r.roles /\ q.t0 = r.t0
    BY Ended, Zenon
  <2> HIDE DEF q
  <2>3. Placed(q) /\ Sound(q)
    BY <2>2 DEF Placed, Sound, WaitsAt
  <2> QED  BY <2>1, <2>2, <2>3
<1> QED  BY <1>1, <1>2

(* A token is verified against the keys of its issuer.                       *)
LEMMA KeysSafe ==
    ASSUME DoorInv, NEW s \in Slots, LookupKeys(s) \/ IssuerAnswers(s) \/ IssuerFails(s) \/ StoreKeys(s)
    PROVE  DoorInv'
<1> DEFINE r == reqs[s]
           p == [r EXCEPT !.t0 = now]
<1>1. r \in Requests /\ Placed(r) /\ Sound(r) /\ r.pc \in {"verify", "fetching", "fetched"}
  BY DEF DoorInv, DoorTypes, LookupKeys, IssuerAnswers, IssuerFails, StoreKeys
<1>2. r.ask \in Asked /\ r.roles = {} /\ now \in Nat
  BY <1>1 DEF Placed, DoorInv, DoorTypes
<1>3. CASE LookupKeys(s) /\ KeysHit(slot, r.ask.token.iss, now, TTL)
  <2>1. /\ reqs' = [reqs EXCEPT ![s] = Verified(p, slot.keys)]
        /\ UNCHANGED <<now, overlay, granted, published, entry, slot>>
    BY <1>3 DEF LookupKeys
  <2>2. p \in Requests /\ p.pc = r.pc /\ p.ask = r.ask /\ p.i = r.i /\ p.roles = r.roles /\ p.t0 = now
    BY <1>1, <1>2 DEF Requests
  <2>3. PublishedBy(slot.keys, r.ask.token.iss)
    BY <1>3 DEF KeysHit, DoorInv, CachesSound
  <2> HIDE DEF p, r
  <2>4. Placed(p)
    BY <1>1, <1>2, <2>2 DEF Placed, WaitsAt
  <2>5. Verified(p, slot.keys) \in Requests /\ Placed(Verified(p, slot.keys)) /\ Sound(Verified(p, slot.keys))
    BY <1>1, <2>2, <2>3, <2>4, VerifiedSound
  <2> QED  BY <2>1, <2>5, RequestMovesOnly
<1>4. CASE LookupKeys(s) /\ ~KeysHit(slot, r.ask.token.iss, now, TTL)
  <2> DEFINE q == [r EXCEPT !.pc = "fetching", !.t0 = now]
  <2>1. reqs' = [reqs EXCEPT ![s] = q] /\ UNCHANGED <<now, overlay, granted, published, entry, slot>>
    BY <1>4 DEF LookupKeys
  <2>2. q \in Requests /\ q.pc = "fetching" /\ q.ask = r.ask /\ q.i = r.i /\ q.roles = r.roles /\ q.t0 = now
    BY <1>1, <1>2 DEF Requests, Pcs
  <2>3. r.pc = "verify"
    BY <1>4 DEF LookupKeys
  <2> HIDE DEF q, r
  <2>4. Placed(q) /\ Sound(q)
    BY <1>1, <1>2, <2>2, <2>3 DEF Placed, Sound, WaitsAt
  <2> QED  BY <2>1, <2>2, <2>4, RequestMovesOnly
<1>5. CASE IssuerAnswers(s)
  <2> DEFINE g == {k \in published[now + 1] : k.iss = r.ask.token.iss}
             q == [r EXCEPT !.pc = "fetched", !.got = g]
  <2>1. reqs' = [reqs EXCEPT ![s] = q] /\ UNCHANGED <<now, overlay, granted, published, entry, slot>>
    BY <1>5 DEF IssuerAnswers
  <2>2. published[now + 1] \in SUBSET Keys
    BY DEF DoorInv, DoorTypes
  <2>3. g \in SUBSET (RoleNames \cup Keys) /\ PublishedBy(g, r.ask.token.iss)
    BY <1>2, <2>2 DEF PublishedBy
  <2>4. r.pc = "fetching"
    BY <1>5 DEF IssuerAnswers
  <2> HIDE DEF g, r
  <2>5. q \in Requests /\ q.pc = "fetched" /\ q.ask = r.ask /\ q.i = r.i /\ q.roles = r.roles
        /\ q.got = g /\ q.t0 = r.t0
    BY <1>1, <2>3 DEF Requests, Pcs
  <2> HIDE DEF q
  <2>6. Placed(q) /\ Sound(q)
    BY <1>1, <1>2, <2>3, <2>4, <2>5 DEF Placed, Sound, WaitsAt
  <2> QED  BY <2>1, <2>5, <2>6, RequestMovesOnly
<1>6. CASE IssuerFails(s)
  <2> DEFINE q == [r EXCEPT !.pc = "done", !.res = 401]
  <2>1. reqs' = [reqs EXCEPT ![s] = q] /\ UNCHANGED <<now, overlay, granted, published, entry, slot>>
    BY <1>6 DEF IssuerFails, Unauthorized
  <2> HIDE DEF r
  <2>2. q \in Requests /\ q.pc = "done" /\ q.res = 401 /\ q.ask = r.ask /\ q.roles = r.roles /\ q.t0 = r.t0
    <3>1. r \in Requests
      BY <1>1
    <3>2. /\ q \in Requests /\ q.pc = "done" /\ q.res = 401
          /\ q.ask = r.ask /\ q.i = r.i /\ q.roles = r.roles /\ q.t0 = r.t0
      BY <3>1, Ended, Zenon
    <3> QED  BY <3>2, Zenon
  <2> HIDE DEF q
  <2>3. Placed(q) /\ Sound(q)
    BY <1>1, <1>2, <2>2 DEF Placed, Sound, WaitsAt
  <2> QED  BY <2>1, <2>2, <2>3, RequestMovesOnly
<1>7. CASE StoreKeys(s)
  <2>1. /\ reqs' = [reqs EXCEPT ![s] = Verified(r, r.got)]
        /\ slot' = [issuer |-> r.ask.token.iss, at |-> now, keys |-> r.got]
        /\ UNCHANGED <<now, overlay, granted, published, entry>> /\ r.pc = "fetched"
    BY <1>7 DEF StoreKeys
  <2> HIDE DEF r
  <2>2. PublishedBy(r.got, r.ask.token.iss)
    BY <1>1, <2>1 DEF Sound
  <2>3. Verified(r, r.got) \in Requests /\ Placed(Verified(r, r.got)) /\ Sound(Verified(r, r.got))
    BY <1>1, <2>2, VerifiedSound
  <2>4. r.got \in SUBSET Keys
    BY <2>2 DEF PublishedBy, DoorInv, DoorTypes
  <2>5. /\ entry' \in [at : Int, map : SUBSET RoleNames]
        /\ slot' \in [issuer : {"none"} \cup {a.token.iss : a \in Asked}, at : Int, keys : SUBSET Keys]
    BY <1>2, <2>1, <2>4 DEF DoorInv, DoorTypes
  <2>6. CachesSound'
    BY <2>1, <2>2 DEF DoorInv, CachesSound, GrantedSince, PublishedBy
  <2> QED  BY <2>1, <2>3, <2>5, <2>6, RequestMoves
<1> QED  BY <1>3, <1>4, <1>5, <1>6, <1>7

(* The work is done, or refused for the roles.                               *)
LEMMA InvokeSafe ==
    ASSUME DoorInv, NEW s \in Slots, InvokeRequest(s)
    PROVE  DoorInv'
<1> DEFINE r == reqs[s]
           res == IF r.pc = "append" \/ "r" \in r.roles THEN 200 ELSE 403
           q == [r EXCEPT !.pc = "done", !.res = res]
<1>1. r \in Requests /\ Placed(r) /\ Sound(r) /\ r.pc \in {"invoke", "append"}
  BY DEF DoorInv, DoorTypes, InvokeRequest
<1>2. reqs' = [reqs EXCEPT ![s] = q] /\ UNCHANGED <<now, overlay, granted, published, entry, slot>>
  BY ZenonT(40) DEF InvokeRequest
<1>3. res \in Int /\ (res = 200 => r.pc = "append" \/ "r" \in r.roles)
  <2>1. 200 \in Int /\ 403 \in Int /\ 200 # 403
    OBVIOUS
  <2> QED  BY <2>1
<1> HIDE DEF r, res
<1>4. /\ q \in Requests /\ q.pc = "done" /\ q.res = res /\ q.ask = r.ask /\ q.i = r.i /\ q.roles = r.roles
      /\ q.t0 = r.t0 /\ q.src = r.src
  BY <1>1, <1>3 DEF Requests, Pcs
<1> HIDE DEF q
<1>5. Placed(q)
  BY <1>1, <1>4 DEF Placed, WaitsAt
<1>6. Doors[r.ask.door][r.i].do = r.pc
  BY <1>1 DEF Placed, WaitsAt
<1>7. Sound(q)
  BY <1>1, <1>3, <1>4, <1>6 DEF Sound
<1> QED  BY <1>2, <1>4, <1>5, <1>7, RequestMovesOnly

(* Time passes: what was granted and published stays on record.             *)
LEMMA TickSafe ==
    ASSUME DoorInv, NEW grants \in SUBSET RoleNames, NEW kid, Tick(grants, kid)
    PROVE  DoorInv'
<1> DEFINE keys == {k \in Keys : k.kid = kid}
<1>1. now' = now + 1 /\ now \in Nat /\ UNCHANGED <<overlay, entry, slot, reqs>>
  BY DEF Tick, DoorInv, DoorTypes
<1>2. granted' = Append(granted, grants) /\ published' = Append(published, keys) /\ keys \in SUBSET Keys
  BY DEF Tick
<1> HIDE DEF keys
<1>3. /\ granted' \in Seq(SUBSET RoleNames) /\ Len(granted') = now' + 1
      /\ \A t \in 0 .. now : granted'[t + 1] = granted[t + 1]
  BY <1>1, <1>2 DEF DoorInv, DoorTypes
<1>4. /\ published' \in Seq(SUBSET Keys) /\ Len(published') = now' + 1
      /\ \A t \in 0 .. now : published'[t + 1] = published[t + 1]
  BY <1>1, <1>2 DEF DoorInv, DoorTypes
<1>5. \A t \in 0 .. now : t \in 0 .. now'
  BY <1>1
<1>6. \A S, since : GrantedSince(S, since) => GrantedSince(S, since)'
  BY <1>3, <1>5, Zenon DEF GrantedSince
<1>7. \A S, iss : PublishedBy(S, iss) => PublishedBy(S, iss)'
  BY <1>4, <1>5, Zenon DEF PublishedBy
<1>8. \A ask, src, since : Trusted(ask, src, since) => Trusted(ask, src, since)'
  BY <1>1, <1>3, <1>4, <1>5 DEF Trusted
<1>9. DoorTypes'
  BY <1>1, <1>3, <1>4 DEF DoorInv, DoorTypes
<1>10. CachesSound'
  BY <1>1, <1>6, <1>7 DEF DoorInv, CachesSound
<1>11. ASSUME NEW s \in Slots PROVE (Placed(reqs[s]) /\ Sound(reqs[s]))'
  <2>1. Placed(reqs[s]) /\ Sound(reqs[s]) /\ reqs'[s] = reqs[s]
    BY <1>1 DEF DoorInv
  <2>2. Placed(reqs[s])'
    BY <1>1, <1>5, <2>1 DEF Placed, WaitsAt
  <2>3. Sound(reqs[s])'
    BY <1>6, <1>7, <1>8, <2>1 DEF Sound
  <2> QED  BY <2>2, <2>3
<1> QED  BY <1>9, <1>10, <1>11 DEF DoorInv

(* Every step keeps the caches and the requests sound.                       *)
LEMMA DoorSteps ==
    DoorInv /\ [DoorNext(Asked, SUBSET RoleNames, {k.kid : k \in Keys})]_doorVars => DoorInv'
<1> SUFFICES ASSUME DoorInv, [DoorNext(Asked, SUBSET RoleNames, {k.kid : k \in Keys})]_doorVars
             PROVE  DoorInv'
  OBVIOUS
<1>1. CASE UNCHANGED doorVars
  BY <1>1 DEF doorVars, DoorInv, DoorTypes, CachesSound, Placed, WaitsAt, Sound, Trusted, GrantedSince, PublishedBy
<1>2. ASSUME NEW s \in Slots, NEW a \in Asked, Accept(s, a) PROVE DoorInv'
  BY <1>2, AcceptSafe
<1>3. ASSUME NEW s \in Slots,
             \/ LookupRoles(s) \/ ClaimRoles(s) \/ ServiceAnswers(s) \/ ServiceFails(s) \/ StoreRoles(s) \/ LookupKeys(s)
             \/ IssuerAnswers(s) \/ IssuerFails(s) \/ StoreKeys(s) \/ InvokeRequest(s)
      PROVE  DoorInv'
  BY <1>3, LookupRolesSafe, ClaimRolesSafe, ServiceSafe, StoreRolesSafe, KeysSafe, InvokeSafe, Zenon
<1>4. ASSUME NEW g \in SUBSET RoleNames, NEW kid \in {k.kid : k \in Keys}, Tick(g, kid) PROVE DoorInv'
  BY <1>4, TickSafe
<1> QED  BY <1>1, <1>2, <1>3, <1>4, Zenon DEF DoorNext

(* Who is served with a role was granted it, for every set of requests,     *)
(* doors used, roles, issuers and keys, whatever the interleaving of cache  *)
(* lookups, answers, stores and rotations.                                  *)
THEOREM AccessFresh == DoorSpec => []TrustFresh
<1>1. DoorInv => TrustFresh
  <2> SUFFICES ASSUME DoorInv, NEW s \in Slots,
                      reqs[s].pc = "done", reqs[s].res = 200, Doors[reqs[s].ask.door][reqs[s].i].do = "invoke"
               PROVE  Trusted(reqs[s].ask, reqs[s].src, reqs[s].t0)
    BY DEF TrustFresh, Trusted
  <2> QED  BY DEF DoorInv, Sound
<1> QED  BY <1>1, DoorStarts, DoorSteps, PTL DEF DoorSpec

-----------------------------------------------------------------------------
(* A non-empty set of numbers up to n has a greatest element.               *)
LEMMA GreatestExists ==
    ASSUME NEW n \in Nat, NEW S, S \subseteq 1 .. n, S # {}
    PROVE  \E i \in S : \A j \in S : j <= i
<1> DEFINE R == {n - i : i \in S}
<1>1. R \subseteq Nat /\ R # {}
  <2>1. \A i \in S : n - i \in Nat
    BY SMT
  <2> QED  BY <2>1, Zenon
<1> HIDE DEF R
<1>2. PICK m \in R : \A l \in R : m <= l
  BY <1>1, LeastExists
<1>3. PICK i \in S : m = n - i
  BY DEF R
<1>4. \A j \in S : n - j \in R
  BY DEF R
<1>5. \A j \in S : n - i <= n - j
  BY <1>2, <1>3, <1>4
<1>6. \A j \in S : j <= i
  BY <1>5
<1> QED  BY <1>6

(* There is a number of every rank in a finite set.                         *)
LEMMA Ranked ==
    ASSUME NEW S, S \subseteq Nat, IsFiniteSet(S), NEW n \in 1 .. Cardinality(S)
    PROVE  \E i \in S : Cardinality({j \in S : j < i}) = n - 1
<1> DEFINE Below(i) == {j \in S : j < i}
           C == Cardinality(S)
           Good(m) == \E i \in S : Cardinality(Below(i)) = m - 1
           Bad == {m \in 1 .. C : ~Good(m)}
<1>1. C \in Nat
  BY FS_CardinalityType
<1>2. \A i \in S : IsFiniteSet(Below(i))
  <2>1. \A i \in S : Below(i) \subseteq S
    OBVIOUS
  <2> QED  BY <2>1, FS_Subset
<1>0. \A i \in S : i \in Int
  OBVIOUS
<1>3. SUFFICES ASSUME Bad # {} PROVE FALSE
  BY Zenon
<1>4. Bad \subseteq Nat
  <2>1. \A m \in 1 .. C : m \in Nat
    BY <1>1
  <2> QED  BY <2>1, Zenon
<1>5. PICK m \in Bad : \A l \in Bad : m <= l
  BY <1>3, <1>4, LeastExists
<1>6. m \in 1 .. C /\ ~Good(m)
  BY <1>5, Zenon
<1>7. CASE m = 1
  <2>1. S # {}
    BY <1>1, <1>6, FS_EmptySet
  <2>2. PICK i \in S : \A l \in S : i <= l
    BY <2>1, LeastExists
  <2>3. Below(i) = {}
    <3>1. \A j \in S : ~(j < i)
      BY <1>0, <2>2
    <3> QED  BY <3>1, Zenon
  <2>4. Cardinality(Below(i)) = 0
    BY <2>3, FS_EmptySet
  <2> QED  BY <1>6, <1>7, <2>4
<1>8. CASE m # 1
  <2>1. m - 1 \in 1 .. C /\ ~(m <= m - 1)
    BY <1>1, <1>6, <1>8
  <2>2. Good(m - 1)
    BY <1>5, <2>1
  <2>3. PICK i \in S : Cardinality(Below(i)) = (m - 1) - 1
    BY <2>2
  <2> DEFINE B == Below(i) \cup {i}
             T == {j \in S : i < j}
  <2>4. i \notin Below(i) /\ IsFiniteSet(Below(i))
    BY <1>2
  <2>5. Cardinality(B) = Cardinality(Below(i)) + 1
    BY <2>4, FS_AddElement
  <2>6. Cardinality(B) = m - 1
    BY <1>6, <2>3, <2>5
  <2>7. T # {}
    <3> SUFFICES ASSUME T = {} PROVE FALSE
      OBVIOUS
    <3>0. \A j \in S : j < i \/ j = i
      <4>1. \A j \in S : ~(i < j)
        BY Zenon
      <4> QED  BY <1>0, <4>1
    <3>1. S = B
      BY <3>0, Zenon
    <3>2. C = m - 1
      BY <2>6, <3>1
    <3> HIDE DEF C
    <3> QED  BY <1>1, <1>6, <3>2
  <2>8. PICK t \in T : \A l \in T : t <= l
    <3>1. T \subseteq Nat
      OBVIOUS
    <3> QED  BY <2>7, <3>1, LeastExists
  <2>9. Below(t) = B
    <3>1. t \in S /\ i < t
      BY Zenon
    <3>2. \A j \in S : i < j => t <= j
      BY <2>8, Zenon
    <3>3. \A j \in S : (j < t) <=> (j < i \/ j = i)
      BY <1>0, <3>1, <3>2
    <3> QED  BY <3>1, <3>3, Zenon
  <2>10. t \in S /\ Cardinality(Below(t)) = m - 1
    BY <2>6, <2>9
  <2> QED  BY <1>6, <2>10
<1> QED  BY <1>7, <1>8


(* InOrder lists every member of the set once.                              *)
LEMMA InOrderFacts ==
    ASSUME NEW S, S \subseteq Nat, IsFiniteSet(S)
    PROVE  /\ Cardinality(S) \in Nat /\ DOMAIN InOrder(S) = 1 .. Cardinality(S)
           /\ \A n \in 1 .. Cardinality(S) : InOrder(S)[n] \in S
           /\ \A n, m \in 1 .. Cardinality(S) : InOrder(S)[n] = InOrder(S)[m] => n = m
           /\ \A i \in S : \E n \in 1 .. Cardinality(S) : InOrder(S)[n] = i
<1> DEFINE C == Cardinality(S)
           Below(i) == {j \in S : j < i}
           Rank(i) == Cardinality(Below(i))
           at == InOrder(S)
<1>1. C \in Nat
  BY FS_CardinalityType
<1>2. at = [n \in 1 .. C |-> CHOOSE i \in S : Rank(i) = n - 1]
  BY DEF InOrder
<1>3. \A n \in 1 .. C : \E i \in S : Rank(i) = n - 1
  BY Ranked
<1>4. \A i \in S : IsFiniteSet(Below(i)) /\ Rank(i) \in Nat /\ Rank(i) < C
  <2> SUFFICES ASSUME NEW i \in S PROVE IsFiniteSet(Below(i)) /\ Rank(i) \in Nat /\ Rank(i) < C
    OBVIOUS
  <2>1. Below(i) \in SUBSET S /\ Below(i) # S
    OBVIOUS
  <2> HIDE DEF Below
  <2>2. IsFiniteSet(Below(i)) /\ Rank(i) <= C /\ Rank(i) # C
    BY <2>1, FS_Subset
  <2>3. Rank(i) \in Nat
    BY <2>2, FS_CardinalityType
  <2> QED  BY <1>1, <2>2, <2>3
<1>5. \A i, j \in S : i < j => Rank(i) < Rank(j)
  <2> SUFFICES ASSUME NEW i \in S, NEW j \in S, i < j PROVE Rank(i) < Rank(j)
    OBVIOUS
  <2>1. Below(i) \in SUBSET Below(j) /\ Below(i) # Below(j)
    <3>1. (\A k \in S : k < i => k < j) /\ ~(i < i)
      OBVIOUS
    <3> QED  BY <3>1, Zenon
  <2>2. IsFiniteSet(Below(j)) /\ Rank(i) \in Nat /\ Rank(j) \in Nat
    BY <1>4
  <2> HIDE DEF Below
  <2>3. Rank(i) <= Rank(j) /\ Rank(i) # Rank(j)
    BY <2>1, <2>2, FS_Subset
  <2> QED  BY <2>2, <2>3
<1> HIDE DEF C, Below, Rank, at
<1>0. \A i \in S : Rank(i) \in Nat /\ Rank(i) < C
  BY <1>4
<1>6. \A i, j \in S : Rank(i) = Rank(j) => i = j
  <2> SUFFICES ASSUME NEW i \in S, NEW j \in S, Rank(i) = Rank(j) PROVE i = j
    OBVIOUS
  <2>1. ~(i < j) /\ ~(j < i)
    BY <1>0, <1>5
  <2> QED  BY <2>1
<1>7. \A n \in 1 .. C : at[n] \in S /\ Rank(at[n]) = n - 1
  BY <1>2, <1>3
<1>8. \A n, m \in 1 .. C : at[n] = at[m] => n = m
  BY <1>1, <1>7
<1>9. ASSUME NEW i \in S PROVE \E n \in 1 .. C : at[n] = i
  <2>1. Rank(i) + 1 \in 1 .. C /\ (Rank(i) + 1) - 1 = Rank(i)
    BY <1>0, <1>1
  <2>2. at[Rank(i) + 1] \in S /\ Rank(at[Rank(i) + 1]) = Rank(i)
    BY <1>7, <2>1
  <2>3. at[Rank(i) + 1] = i
    BY <1>6, <2>2
  <2> QED  BY <2>1, <2>3
<1>10. DOMAIN at = 1 .. C
  BY <1>2
<1> QED  BY <1>1, <1>7, <1>8, <1>9, <1>10 DEF C, at

-----------------------------------------------------------------------------
(* Sums of weights.                                                         *)

Weights(n) == [1 .. n -> Nat]

(* sum holds the sums of the first i weights, for i up to m.                *)
SumsUpTo(sum, ws, m) == sum = [i \in 0 .. m |-> IF i = 0 THEN 0 ELSE sum[i - 1] + ws[i]]

(* The recursive function of Sums is defined.                                *)
LEMMA SumsExist ==
    ASSUME NEW n \in Nat, NEW ws \in Weights(n)
    PROVE  \E sum \in [0 .. n -> Nat] : SumsUpTo(sum, ws, n)
<1> DEFINE Good(m) == \E sum \in [0 .. m -> Nat] : SumsUpTo(sum, ws, m)
           Bad == {m \in 0 .. n : ~Good(m)}
<1> SUFFICES ASSUME ~Good(n) PROVE FALSE
  OBVIOUS
<1>1. Bad \subseteq Nat /\ n \in Bad
  OBVIOUS
<1>2. PICK m \in Bad : \A l \in Bad : m <= l
  BY <1>1, LeastExists
<1>3. m \in 0 .. n /\ ~Good(m)
  BY <1>2
<1>4. Good(0)
  <2> DEFINE zero == [i \in 0 .. 0 |-> 0]
  <2>1. zero \in [0 .. 0 -> Nat]
    OBVIOUS
  <2>2. SumsUpTo(zero, ws, 0)
    BY DEF SumsUpTo
  <2> QED  BY <2>1, <2>2
<1>5. m # 0
  BY <1>3, <1>4
<1>6. m - 1 \in 0 .. n /\ ~(m <= m - 1)
  BY <1>3, <1>5
<1>7. Good(m - 1)
  BY <1>2, <1>6
<1>8. PICK sum \in [0 .. (m - 1) -> Nat] : SumsUpTo(sum, ws, m - 1)
  BY <1>7
<1> DEFINE next == [i \in 0 .. m |-> IF i = m THEN sum[m - 1] + ws[m] ELSE sum[i]]
<1>9. sum[m - 1] + ws[m] \in Nat
  BY <1>3, <1>5, <1>8 DEF Weights
<1>10. next \in [0 .. m -> Nat]
  BY <1>3, <1>9
<1>11. SumsUpTo(next, ws, m)
  <2>1. ASSUME NEW i \in 0 .. m PROVE next[i] = IF i = 0 THEN 0 ELSE next[i - 1] + ws[i]
    <3>1. CASE i = m
      BY <1>3, <1>5, <3>1
    <3>2. CASE i # m
      <4>1. i \in 0 .. (m - 1) /\ (i # 0 => i - 1 \in 0 .. m /\ i - 1 # m)
        BY <1>3, <3>2
      <4>2. sum[i] = IF i = 0 THEN 0 ELSE sum[i - 1] + ws[i]
        BY <1>8, <4>1 DEF SumsUpTo
      <4> QED  BY <3>2, <4>1, <4>2
    <3> QED  BY <3>1, <3>2
  <2>2. next = [i \in 0 .. m |-> next[i]]
    OBVIOUS
  <2> HIDE DEF next
  <2>3. [i \in 0 .. m |-> next[i]] = [i \in 0 .. m |-> IF i = 0 THEN 0 ELSE next[i - 1] + ws[i]]
    BY <2>1
  <2> QED  BY <2>2, <2>3 DEF SumsUpTo
<1> QED  BY <1>3, <1>10, <1>11

(* Sums(ws) starts with 0 and adds one weight at a time.                    *)
LEMMA SumsDef ==
    ASSUME NEW n \in Nat, NEW ws \in Weights(n)
    PROVE  /\ Sums(ws) \in [0 .. n -> Nat] /\ Sums(ws)[0] = 0
           /\ \A i \in 1 .. n : Sums(ws)[i] = Sums(ws)[i - 1] + ws[i]
<1>1. Len(ws) = n
  BY DEF Weights
<1>2. Sums(ws) = CHOOSE sum : SumsUpTo(sum, ws, n)
  BY <1>1 DEF Sums, SumsUpTo
<1>3. SumsUpTo(Sums(ws), ws, n)
  BY <1>2, SumsExist
<1>4. PICK sum \in [0 .. n -> Nat] : SumsUpTo(sum, ws, n)
  BY SumsExist
<1> DEFINE all == Sums(ws)
           Bad == {i \in 0 .. n : all[i] # sum[i]}
<1>5. \A i \in 0 .. n : all[i] = IF i = 0 THEN 0 ELSE all[i - 1] + ws[i]
  BY <1>3 DEF SumsUpTo
<1>6. \A i \in 0 .. n : sum[i] = IF i = 0 THEN 0 ELSE sum[i - 1] + ws[i]
  BY <1>4 DEF SumsUpTo
<1>7. all = [i \in 0 .. n |-> all[i]]
  BY <1>3 DEF SumsUpTo
<1> HIDE DEF all
<1>8. Bad = {}
  <2> SUFFICES ASSUME Bad # {} PROVE FALSE
    OBVIOUS
  <2>1. Bad \subseteq Nat
    OBVIOUS
  <2>2. PICK i \in Bad : \A l \in Bad : i <= l
    BY <2>1, LeastExists
  <2>3. i \in 0 .. n /\ all[i] # sum[i]
    BY <2>2
  <2>4. i # 0
    BY <1>5, <1>6, <2>3
  <2>5. i - 1 \in 0 .. n /\ ~(i <= i - 1)
    BY <2>3, <2>4
  <2>6. all[i - 1] = sum[i - 1]
    BY <2>2, <2>5
  <2> QED  BY <1>5, <1>6, <2>3, <2>4, <2>6
<1>9. \A i \in 0 .. n : all[i] = sum[i]
  BY <1>8
<1>10. all \in [0 .. n -> Nat]
  BY <1>4, <1>7, <1>9
<1>11. all[0] = 0 /\ \A i \in 1 .. n : all[i] = all[i - 1] + ws[i]
  BY <1>5
<1> QED  BY <1>10, <1>11 DEF all

(* The sums grow with the number of weights.                                *)
LEMMA SumsGrow ==
    ASSUME NEW n \in Nat, NEW ws \in Weights(n)
    PROVE  \A i, j \in 0 .. n : i <= j => Sums(ws)[i] <= Sums(ws)[j]
<1> SUFFICES ASSUME NEW i \in 0 .. n PROVE \A j \in 0 .. n : i <= j => Sums(ws)[i] <= Sums(ws)[j]
  OBVIOUS
<1> DEFINE all == Sums(ws)
           Bad == {j \in 0 .. n : i <= j /\ ~(all[i] <= all[j])}
<1>1. all \in [0 .. n -> Nat] /\ all[0] = 0 /\ \A j \in 1 .. n : all[j] = all[j - 1] + ws[j]
  BY SumsDef
<1> HIDE DEF all
<1>2. Bad = {}
  <2> SUFFICES ASSUME Bad # {} PROVE FALSE
    OBVIOUS
  <2>1. Bad \subseteq Nat
    OBVIOUS
  <2>2. PICK j \in Bad : \A l \in Bad : j <= l
    BY <2>1, LeastExists
  <2>3. j \in 0 .. n /\ i <= j /\ ~(all[i] <= all[j])
    BY <2>2
  <2>4. j # i
    BY <1>1, <2>3
  <2>5. j - 1 \in 0 .. n /\ j \in 1 .. n /\ i <= j - 1 /\ ~(j <= j - 1)
    BY <2>3, <2>4
  <2>6. all[i] <= all[j - 1]
    BY <2>2, <2>5
  <2>7. all[j] = all[j - 1] + ws[j] /\ ws[j] \in Nat
    BY <1>1, <2>5 DEF Weights
  <2> QED  BY <1>1, <2>3, <2>5, <2>6, <2>7
<1>3. \A j \in 0 .. n : i <= j => all[i] <= all[j]
  BY <1>2
<1> QED  BY <1>3 DEF all

(* A weight that is taken out is missing from the total.                    *)
LEMMA SumsWithout ==
    ASSUME NEW n \in Nat, NEW ws \in Weights(n), NEW k \in 1 .. n
    PROVE  /\ [ws EXCEPT ![k] = 0] \in Weights(n)
           /\ Sums(ws)[n] = Sums([ws EXCEPT ![k] = 0])[n] + ws[k]
<1> DEFINE vs == [ws EXCEPT ![k] = 0]
           all == Sums(ws)
           rest == Sums(vs)
           Extra(i) == IF k <= i THEN ws[k] ELSE 0
           Bad == {i \in 0 .. n : all[i] # rest[i] + Extra(i)}
<1>1. vs \in Weights(n) /\ vs[k] = 0 /\ (\A i \in 1 .. n : i # k => vs[i] = ws[i]) /\ ws[k] \in Nat
  BY DEF Weights
<1> HIDE DEF vs
<1>2. all \in [0 .. n -> Nat] /\ all[0] = 0 /\ \A j \in 1 .. n : all[j] = all[j - 1] + ws[j]
  BY SumsDef
<1>3. rest \in [0 .. n -> Nat] /\ rest[0] = 0 /\ \A j \in 1 .. n : rest[j] = rest[j - 1] + vs[j]
  BY <1>1, SumsDef
<1> HIDE DEF all, rest
<1>4. Bad = {}
  <2> SUFFICES ASSUME Bad # {} PROVE FALSE
    OBVIOUS
  <2>1. Bad \subseteq Nat
    OBVIOUS
  <2>2. PICK j \in Bad : \A l \in Bad : j <= l
    BY <2>1, LeastExists
  <2>3. j \in 0 .. n /\ all[j] # rest[j] + Extra(j)
    BY <2>2
  <2>4. j # 0
    BY <1>2, <1>3, <2>3
  <2>5. j - 1 \in 0 .. n /\ j \in 1 .. n /\ ~(j <= j - 1)
    BY <2>3, <2>4
  <2>6. all[j - 1] = rest[j - 1] + Extra(j - 1)
    BY <2>2, <2>5
  <2>7. all[j] = all[j - 1] + ws[j] /\ rest[j] = rest[j - 1] + vs[j] /\ ws[j] \in Nat /\ vs[j] \in Nat
    BY <1>1, <1>2, <1>3, <2>5 DEF Weights
  <2>8. all[j] \in Nat /\ rest[j] \in Nat /\ all[j - 1] \in Nat /\ rest[j - 1] \in Nat
    BY <1>2, <1>3, <2>5
  <2>9. CASE j = k
    <3>1. Extra(j) = ws[k] /\ Extra(j - 1) = 0
      BY <2>5, <2>9
    <3> QED  BY <1>1, <2>3, <2>6, <2>7, <2>8, <2>9, <3>1
  <2>10. CASE j # k
    <3>1. Extra(j) = Extra(j - 1) /\ vs[j] = ws[j] /\ Extra(j) \in Nat
      BY <1>1, <2>5, <2>10
    <3> HIDE DEF Extra
    <3> QED  BY <2>3, <2>6, <2>7, <2>8, <3>1
  <2> QED  BY <2>9, <2>10
<1>5. all[n] = rest[n] + Extra(n) /\ Extra(n) = ws[k]
  BY <1>4
<1> QED  BY <1>1, <1>5 DEF all, rest, vs

(* Weights that go, each to a place of its own, where there is at least as  *)
(* much, are not more in total.                                             *)
Fits(ws, m, vs, n, f) ==
    /\ \A i \in 1 .. m : ws[i] > 0 => f[i] \in 1 .. n /\ ws[i] <= vs[f[i]]
    /\ \A i, j \in 1 .. m : ws[i] > 0 /\ ws[j] > 0 /\ f[i] = f[j] => i = j

(* Weights that fit one to one below other weights sum to no more.           *)
LEMMA SumsFit ==
    ASSUME NEW m \in Nat, NEW ws \in Weights(m), NEW n \in Nat, NEW f
    PROVE  \A vs \in Weights(n) : Fits(ws, m, vs, n, f) => Sums(ws)[m] <= Sums(vs)[n]
<1> DEFINE all == Sums(ws)
           Good(l) == \A vs \in Weights(n) : Fits(ws, l, vs, n, f) => all[l] <= Sums(vs)[n]
           Bad == {l \in 0 .. m : ~Good(l)}
<1> SUFFICES ASSUME ~Good(m) PROVE FALSE
  OBVIOUS
<1>1. all \in [0 .. m -> Nat] /\ all[0] = 0 /\ \A j \in 1 .. m : all[j] = all[j - 1] + ws[j]
  BY SumsDef
<1>2. \A vs \in Weights(n) : Sums(vs)[n] \in Nat
  BY SumsDef
<1> HIDE DEF all
<1>3. Bad \subseteq Nat /\ m \in Bad
  OBVIOUS
<1>4. PICK l \in Bad : \A x \in Bad : l <= x
  BY <1>3, LeastExists
<1>5. l \in 0 .. m /\ ~Good(l)
  BY <1>4
<1>6. l # 0
  BY <1>1, <1>2, <1>5
<1>7. l - 1 \in 0 .. m /\ l \in 1 .. m /\ ~(l <= l - 1) /\ \A i \in 1 .. (l - 1) : i \in 1 .. l /\ i # l
  BY <1>5, <1>6
<1>8. Good(l - 1)
  BY <1>4, <1>7
<1>9. PICK vs \in Weights(n) : Fits(ws, l, vs, n, f) /\ ~(all[l] <= Sums(vs)[n])
  BY <1>5
<1>10. all[l] = all[l - 1] + ws[l] /\ ws[l] \in Nat /\ all[l - 1] \in Nat
  BY <1>1, <1>7 DEF Weights
<1>11. CASE ws[l] = 0
  <2>1. Fits(ws, l - 1, vs, n, f)
    BY <1>7, <1>9, Zenon DEF Fits
  <2>2. all[l - 1] <= Sums(vs)[n]
    BY <1>8, <2>1
  <2> QED  BY <1>2, <1>9, <1>10, <1>11, <2>2
<1>12. CASE ws[l] > 0
  <2> DEFINE us == [vs EXCEPT ![f[l]] = 0]
  <2>1. f[l] \in 1 .. n /\ ws[l] <= vs[f[l]]
    BY <1>7, <1>9, <1>12 DEF Fits
  <2>2. us \in Weights(n) /\ Sums(vs)[n] = Sums(us)[n] + vs[f[l]]
    BY <2>1, SumsWithout
  <2>3. \A i \in 1 .. n : i # f[l] => us[i] = vs[i]
    BY DEF Weights
  <2> HIDE DEF us
  <2>4. \A i \in 1 .. (l - 1) : ws[i] > 0 => f[i] # f[l]
    BY <1>7, <1>9, <1>12 DEF Fits
  <2>5. Fits(ws, l - 1, us, n, f)
    BY <1>7, <1>9, <2>3, <2>4 DEF Fits
  <2>6. all[l - 1] <= Sums(us)[n]
    BY <1>8, <2>2, <2>5
  <2>7. vs[f[l]] \in Nat /\ Sums(us)[n] \in Nat
    BY <1>2, <2>1, <2>2 DEF Weights
  <2> QED  BY <1>9, <1>10, <2>1, <2>2, <2>6, <2>7
<1> QED  BY <1>10, <1>11, <1>12

-----------------------------------------------------------------------------
(* What the proof keeps of the snapshot.                                    *)

Revs        == [id : RevNos, life : Lifecycles, w : Nat]
Deployments == [bundle : Bundles \cup {NoBundle}, revs : Seq(Revs)]
Snaps       == [deps : [Deps -> Deployments], surf : [Surfaces -> Paths \cup {NoPath}]]

InBounds(revs) == NoRepeat(revs) /\ SumOf(revs) <= Full
Apart(surf)    == \A s, t \in Surfaces : surf[s] = surf[t] => s = t \/ surf[s] = NoPath
SnapOk(n)      == n \in Snaps /\ (\A d \in Deps : InBounds(n.deps[d].revs)) /\ Apart(n.surf)

OutOfService == {"draining", "inactive"}

(* The revision is there, and not in service.                               *)
KeptOut(n, d, id) ==
    /\ id \in RevIds(n.deps[d])
    /\ \A i \in DOMAIN n.deps[d].revs : n.deps[d].revs[i].id = id => n.deps[d].revs[i].life \in OutOfService

(* Entries with a weight.                                                   *)
Weighed(a) == DOMAIN a = 1 .. Len(a) /\ Len(a) \in Nat /\ \A i \in 1 .. Len(a) : a[i].w \in Nat

(* A sequence of records with a weight is one of entries.                    *)
LEMMA WeighedSeq ==
    ASSUME NEW A, \A x \in A : x.w \in Nat, NEW a \in Seq(A)
    PROVE  Weighed(a)
BY DEF Weighed

(* The sum of entries.                                                       *)
LEMMA SumOfFacts ==
    ASSUME NEW a, Weighed(a)
    PROVE  SumOf(a) \in Nat /\ (Len(a) = 0 => SumOf(a) = 0)
<1> DEFINE ws == [i \in DOMAIN a |-> a[i].w]
           n == Len(a)
<1>1. n \in Nat /\ ws \in Weights(n)
  BY DEF Weighed, Weights
<1>2. SumOf(a) = Sums(ws)[n]
  BY DEF SumOf
<1> HIDE DEF ws, n
<1>3. Sums(ws) \in [0 .. n -> Nat] /\ Sums(ws)[0] = 0
  BY <1>1, SumsDef
<1> QED  BY <1>1, <1>2, <1>3 DEF n

(* Entries that find their weights in others do not weigh more.             *)
LEMMA SumOfFits ==
    ASSUME NEW a, Weighed(a), NEW b, Weighed(b), NEW f,
           \A i \in DOMAIN a : a[i].w > 0 => f[i] \in DOMAIN b /\ a[i].w <= b[f[i]].w,
           \A i, j \in DOMAIN a : a[i].w > 0 /\ a[j].w > 0 /\ f[i] = f[j] => i = j
    PROVE  SumOf(a) <= SumOf(b)
<1> DEFINE ws == [i \in DOMAIN a |-> a[i].w]
           vs == [i \in DOMAIN b |-> b[i].w]
           m == Len(a)
           n == Len(b)
<1>1. m \in Nat /\ ws \in Weights(m) /\ n \in Nat /\ vs \in Weights(n)
  BY DEF Weighed, Weights
<1>2. Fits(ws, m, vs, n, f)
  BY DEF Fits, Weighed
<1>3. SumOf(a) = Sums(ws)[m] /\ SumOf(b) = Sums(vs)[n]
  BY DEF SumOf
<1> HIDE DEF ws, vs, m, n
<1> QED  BY <1>1, <1>2, <1>3, SumsFit

(* Revisions that stay at their places and get no more weight.              *)
LEMMA InPlace ==
    ASSUME NEW revs \in Seq(Revs), InBounds(revs), NEW new \in Seq(Revs), DOMAIN new = DOMAIN revs,
           \A i \in DOMAIN revs : new[i].id = revs[i].id /\ new[i].w <= revs[i].w
    PROVE  InBounds(new)
<1> DEFINE f == [i \in DOMAIN revs |-> i]
<1>1. \A x \in Revs : x.w \in Nat
  BY DEF Revs
<1>2. Weighed(revs) /\ Weighed(new)
  BY <1>1, WeighedSeq
<1>3. \A i \in DOMAIN new : new[i].w > 0 => f[i] \in DOMAIN revs /\ new[i].w <= revs[f[i]].w
  OBVIOUS
<1>4. \A i, j \in DOMAIN new : new[i].w > 0 /\ new[j].w > 0 /\ f[i] = f[j] => i = j
  OBVIOUS
<1> HIDE DEF f
<1>5. SumOf(new) <= SumOf(revs)
  BY <1>2, <1>3, <1>4, SumOfFits
<1>6. SumOf(new) \in Nat /\ SumOf(revs) \in Nat
  BY <1>2, SumOfFacts
<1>7. NoRepeat(new)
  BY DEF InBounds, NoRepeat
<1> QED  BY <1>5, <1>6, <1>7, SnapshotAssumption DEF InBounds

(* One deployment gets other revisions.                                     *)
LEMMA WithRevsFacts ==
    ASSUME NEW n, SnapOk(n), NEW d \in Deps, NEW new \in Seq(Revs), InBounds(new)
    PROVE  LET r == WithRevs(n, d, new)
           IN  /\ r.ok = TRUE /\ SnapOk(r.snap) /\ r.snap.deps[d].revs = new
               /\ \A e \in Deps \ {d} : r.snap.deps[e] = n.deps[e]
<1> DEFINE m == [n EXCEPT !.deps[d].revs = new]
<1>1. WithRevs(n, d, new).ok = TRUE /\ WithRevs(n, d, new).snap = m
  BY DEF WithRevs, Changed
<1>2. n \in Snaps /\ n.deps \in [Deps -> Deployments] /\ n.deps[d] \in Deployments
  BY DEF SnapOk, Snaps
<1>3. m.deps = [n.deps EXCEPT ![d] = [n.deps[d] EXCEPT !.revs = new]] /\ m.surf = n.surf
  BY <1>2 DEF Snaps
<1>4. [n.deps[d] EXCEPT !.revs = new] \in Deployments /\ [n.deps[d] EXCEPT !.revs = new].revs = new
  BY <1>2 DEF Deployments
<1>5. m = [deps |-> m.deps, surf |-> n.surf]
  BY <1>2 DEF Snaps
<1> HIDE DEF m
<1>6. /\ m.deps \in [Deps -> Deployments] /\ m.deps[d].revs = new
      /\ \A e \in Deps \ {d} : m.deps[e] = n.deps[e]
  BY <1>2, <1>3, <1>4
<1>7. m \in Snaps
  BY <1>2, <1>5, <1>6 DEF Snaps
<1>8. \A e \in Deps : InBounds(m.deps[e].revs)
  BY <1>6 DEF SnapOk
<1>9. Apart(m.surf)
  BY <1>3 DEF SnapOk
<1> QED  BY <1>1, <1>6, <1>7, <1>8, <1>9 DEF SnapOk

(* A request leaves a sound snapshot and puts no revision into service that *)
(* is out of it.                                                            *)
Carries(n, r) ==
    /\ r.ok \in BOOLEAN /\ SnapOk(r.snap)
    /\ \A d \in Deps : \A id \in RevNos : KeptOut(n, d, id) => KeptOut(r.snap, d, id)

(* No revision is lost or comes back into service.                          *)
NoneBack(old, new) ==
    /\ \A i \in DOMAIN old : \E j \in DOMAIN new : new[j].id = old[i].id
    /\ \A j \in DOMAIN new : \/ new[j].life \in OutOfService
                             \/ \A i \in DOMAIN old : old[i].id = new[j].id => old[i].life \notin OutOfService

(* A change of one deployment carries the others.                            *)
LEMMA CarriesOne ==
    ASSUME NEW n, NEW d \in Deps, NEW m,
           \A e \in Deps \ {d} : m.deps[e] = n.deps[e],
           NoneBack(n.deps[d].revs, m.deps[d].revs)
    PROVE  \A e \in Deps : \A id \in RevNos : KeptOut(n, e, id) => KeptOut(m, e, id)
<1> SUFFICES ASSUME NEW e \in Deps, NEW id \in RevNos, KeptOut(n, e, id) PROVE KeptOut(m, e, id)
  OBVIOUS
<1>1. CASE e # d
  BY <1>1 DEF KeptOut, RevIds
<1>2. CASE e = d
  <2>1. PICK i \in DOMAIN n.deps[d].revs : n.deps[d].revs[i].id = id
    BY <1>2 DEF KeptOut, RevIds
  <2>2. n.deps[d].revs[i].life \in OutOfService
    BY <1>2, <2>1 DEF KeptOut
  <2>3. id \in RevIds(m.deps[d])
    BY <2>1 DEF NoneBack, RevIds
  <2>4. ASSUME NEW j \in DOMAIN m.deps[d].revs, m.deps[d].revs[j].id = id
        PROVE  m.deps[d].revs[j].life \in OutOfService
    BY <2>1, <2>2, <2>4 DEF NoneBack
  <2> QED  BY <1>2, <2>3, <2>4 DEF KeptOut
<1> QED  BY <1>1, <1>2

(* A refused request changes nothing.                                        *)
LEMMA RefusedCarries ==
    ASSUME NEW n, SnapOk(n)
    PROVE  Carries(n, Refused(n)) /\ Carries(n, Changed(n)) /\ Refused(n).ok = FALSE
BY DEF Refused, Changed, Carries

(* Operations that leave every revision at its place.                       *)
LEMMA InPlaceCarries ==
    ASSUME NEW n, SnapOk(n), NEW d \in Deps, NEW new \in Seq(Revs), InBounds(new),
           DOMAIN new = DOMAIN n.deps[d].revs,
           \A i \in DOMAIN new : /\ new[i].id = n.deps[d].revs[i].id
                                 /\ n.deps[d].revs[i].life \in OutOfService => new[i].life \in OutOfService
    PROVE  Carries(n, WithRevs(n, d, new)) /\ WithRevs(n, d, new).snap.deps[d].revs = new
<1> DEFINE r == WithRevs(n, d, new)
<1>1. /\ r.ok = TRUE /\ SnapOk(r.snap) /\ r.snap.deps[d].revs = new
      /\ \A e \in Deps \ {d} : r.snap.deps[e] = n.deps[e]
  BY WithRevsFacts, ZenonT(40)
<1>2. NoRepeat(n.deps[d].revs)
  BY DEF SnapOk, InBounds
<1>3. NoneBack(n.deps[d].revs, new)
  BY <1>2 DEF NoneBack, NoRepeat
<1> HIDE DEF r
<1> DEFINE m == r.snap
<1>4. NoneBack(n.deps[d].revs, m.deps[d].revs) /\ \A e \in Deps \ {d} : m.deps[e] = n.deps[e]
  BY <1>1, <1>3
<1> HIDE DEF m
<1>5. \A e \in Deps : \A id \in RevNos : KeptOut(n, e, id) => KeptOut(m, e, id)
  BY <1>4, CarriesOne
<1>6. Carries(n, r)
  BY <1>1, <1>5 DEF Carries, m
<1> QED  BY <1>1, <1>6 DEF r

(* A function from an interval to revisions is a vector of them.             *)
LEMMA SeqOfRevs ==
    ASSUME NEW m \in Nat, NEW new \in [1 .. m -> Revs]
    PROVE  new \in Seq(Revs)
OBVIOUS

(* The vector of a deployment of a sound snapshot.                           *)
LEMMA DepFacts ==
    ASSUME NEW n, SnapOk(n), NEW d \in Deps
    PROVE  LET revs == n.deps[d].revs
           IN  /\ revs \in Seq(Revs) /\ InBounds(revs) /\ Len(revs) \in Nat /\ DOMAIN revs = 1 .. Len(revs)
               /\ \A i \in DOMAIN revs : revs[i] \in Revs
BY DEF SnapOk, Snaps, Deployments

(* A revision without its weight.                                           *)
LEMMA Weightless ==
    ASSUME NEW x \in Revs, NEW l \in Lifecycles
    PROVE  LET y == [x EXCEPT !.life = l, !.w = 0]
               z == [x EXCEPT !.w = 0, !.life = l]
           IN  /\ y \in Revs /\ y.id = x.id /\ y.w = 0 /\ y.life = l /\ y.w <= x.w
               /\ z \in Revs /\ z.id = x.id /\ z.w = 0 /\ z.life = l /\ z.w <= x.w
<1> DEFINE y == [x EXCEPT !.life = l, !.w = 0]
           z == [x EXCEPT !.w = 0, !.life = l]
<1>1. y \in Revs /\ z \in Revs
  BY DEF Revs
<1>2. y.id = x.id /\ y.w = 0 /\ y.life = l
  BY DEF Revs
<1>3. z.id = x.id /\ z.w = 0 /\ z.life = l
  BY DEF Revs
<1>4. 0 <= x.w
  BY DEF Revs
<1> HIDE DEF y, z
<1>5. y.w <= x.w /\ z.w <= x.w
  BY <1>2, <1>3, <1>4
<1> QED  BY <1>1, <1>2, <1>3, <1>5 DEF y, z

(* drain: the revision is out of service afterwards.                        *)
LEMMA DrainCarries ==
    ASSUME NEW n, SnapOk(n), NEW d \in Deps, NEW id
    PROVE  Carries(n, Drain(n, d, id)) /\ (Drain(n, d, id).ok => KeptOut(Drain(n, d, id).snap, d, id) /\ id \in RevNos)
<1> DEFINE revs == n.deps[d].revs
           New(i) == IF revs[i].id = id THEN [revs[i] EXCEPT !.life = "draining", !.w = 0] ELSE revs[i]
           new == [i \in DOMAIN revs |-> New(i)]
           r == Drain(n, d, id)
<1>1. CASE ~Known(n, d) \/ id \notin RevIds(n.deps[d])
  <2>1. r = Refused(n)
    BY <1>1 DEF Drain
  <2> QED  BY <2>1, RefusedCarries
<1>2. CASE Known(n, d) /\ id \in RevIds(n.deps[d])
  <2>1. r = WithRevs(n, d, new)
    BY <1>2 DEF Drain
  <2>2. /\ revs \in Seq(Revs) /\ InBounds(revs) /\ Len(revs) \in Nat /\ DOMAIN revs = 1 .. Len(revs)
        /\ \A i \in DOMAIN revs : revs[i] \in Revs
    BY DepFacts
  <2>3. \A i \in DOMAIN revs : /\ New(i) \in Revs /\ New(i).id = revs[i].id /\ New(i).w <= revs[i].w
                               /\ revs[i].life \in OutOfService => New(i).life \in OutOfService
                               /\ revs[i].id = id => New(i).life \in OutOfService
    <3> SUFFICES ASSUME NEW x \in Revs
                 PROVE  LET y == IF x.id = id THEN [x EXCEPT !.life = "draining", !.w = 0] ELSE x
                        IN  /\ y \in Revs /\ y.id = x.id /\ y.w <= x.w
                            /\ x.life \in OutOfService => y.life \in OutOfService
                            /\ x.id = id => y.life \in OutOfService
      BY <2>2
    <3>1. CASE x.id = id
      <4>1. "draining" \in Lifecycles /\ "draining" \in OutOfService
        BY DEF Lifecycles, OutOfService
      <4> DEFINE y == [x EXCEPT !.life = "draining", !.w = 0]
      <4>2. y \in Revs /\ y.id = x.id /\ y.life = "draining" /\ y.w <= x.w
        BY <4>1, Weightless, Zenon
      <4> HIDE DEF y
      <4>3. /\ y \in Revs /\ y.id = x.id /\ y.w <= x.w
            /\ x.life \in OutOfService => y.life \in OutOfService
            /\ x.id = id => y.life \in OutOfService
        BY <4>1, <4>2
      <4> QED  BY <3>1, <4>3 DEF y
    <3>2. CASE x.id # id
      BY <3>2 DEF Revs
    <3> QED  BY <3>1, <3>2
  <2> HIDE DEF New
  <2>4. /\ DOMAIN new = DOMAIN revs /\ new \in Seq(Revs)
        /\ \A i \in DOMAIN revs : /\ new[i].id = revs[i].id /\ new[i].w <= revs[i].w
                                  /\ revs[i].life \in OutOfService => new[i].life \in OutOfService
                                  /\ revs[i].id = id => new[i].life \in OutOfService
    BY <2>2, <2>3
  <2> HIDE DEF new
  <2>5. InBounds(new)
    BY <2>2, <2>4, InPlace
  <2>6. Carries(n, r) /\ r.snap.deps[d].revs = new
    BY <2>1, <2>4, <2>5, InPlaceCarries
  <2>7. PICK i \in DOMAIN revs : revs[i].id = id
    BY <1>2 DEF RevIds
  <2>8. id \in RevNos
    BY <2>2, <2>7 DEF Revs
  <2>9. KeptOut(r.snap, d, id)
    <3>1. id \in RevIds(r.snap.deps[d])
      BY <2>4, <2>6, <2>7 DEF RevIds
    <3> QED  BY <2>4, <2>6, <3>1 DEF KeptOut
  <2> QED  BY <2>6, <2>8, <2>9
<1> QED  BY <1>1, <1>2

(* deactivate: what was ready is out of service afterwards.                 *)
LEMMA DeactivateCarries ==
    ASSUME NEW n, SnapOk(n), NEW d \in Deps
    PROVE  /\ Carries(n, Deactivate(n, d))
           /\ Deactivate(n, d).ok =>
                \A i \in DOMAIN n.deps[d].revs : n.deps[d].revs[i].life = "ready" =>
                    /\ n.deps[d].revs[i].id \in RevNos
                    /\ KeptOut(Deactivate(n, d).snap, d, n.deps[d].revs[i].id)
<1> DEFINE revs == n.deps[d].revs
           New(i) == [revs[i] EXCEPT !.w = 0, !.life = IF revs[i].life = "ready" THEN "inactive" ELSE @]
           new == [i \in DOMAIN revs |-> New(i)]
           r == Deactivate(n, d)
<1>1. CASE ~Known(n, d)
  <2>1. r = Refused(n)
    BY <1>1 DEF Deactivate
  <2> QED  BY <2>1, RefusedCarries
<1>2. CASE Known(n, d)
  <2>1. r = WithRevs(n, d, new)
    BY <1>2 DEF Deactivate
  <2>2. /\ revs \in Seq(Revs) /\ InBounds(revs) /\ Len(revs) \in Nat /\ DOMAIN revs = 1 .. Len(revs)
        /\ \A i \in DOMAIN revs : revs[i] \in Revs
    BY DepFacts
  <2>3. \A i \in DOMAIN revs : /\ New(i) \in Revs /\ New(i).id = revs[i].id /\ New(i).w <= revs[i].w
                               /\ revs[i].life \in OutOfService => New(i).life \in OutOfService
                               /\ revs[i].life = "ready" => New(i).life \in OutOfService
    <3> SUFFICES ASSUME NEW x \in Revs
                 PROVE  LET y == [x EXCEPT !.w = 0, !.life = IF x.life = "ready" THEN "inactive" ELSE @]
                        IN  /\ y \in Revs /\ y.id = x.id /\ y.w <= x.w
                            /\ x.life \in OutOfService => y.life \in OutOfService
                            /\ x.life = "ready" => y.life \in OutOfService
      BY <2>2
    <3> DEFINE l == IF x.life = "ready" THEN "inactive" ELSE x.life
               y == [x EXCEPT !.w = 0, !.life = l]
    <3>1. l \in Lifecycles /\ (l \in OutOfService \/ (l = x.life /\ x.life # "ready"))
      BY DEF Revs, Lifecycles, OutOfService
    <3> HIDE DEF l
    <3>2. y \in Revs /\ y.id = x.id /\ y.life = l /\ y.w <= x.w
      BY <3>1, Weightless, Zenon
    <3> HIDE DEF y
    <3>3. /\ y \in Revs /\ y.id = x.id /\ y.w <= x.w
          /\ x.life \in OutOfService => y.life \in OutOfService
          /\ x.life = "ready" => y.life \in OutOfService
      BY <3>1, <3>2
    <3> QED  BY <3>3 DEF y, l
  <2> HIDE DEF New
  <2>4. /\ DOMAIN new = DOMAIN revs /\ new \in Seq(Revs)
        /\ \A i \in DOMAIN revs : /\ new[i].id = revs[i].id /\ new[i].w <= revs[i].w
                                  /\ revs[i].life \in OutOfService => new[i].life \in OutOfService
                                  /\ revs[i].life = "ready" => new[i].life \in OutOfService
    BY <2>2, <2>3
  <2> HIDE DEF new
  <2>5. InBounds(new)
    BY <2>2, <2>4, InPlace
  <2>6. Carries(n, r) /\ r.snap.deps[d].revs = new
    BY <2>1, <2>4, <2>5, InPlaceCarries
  <2>7. ASSUME NEW i \in DOMAIN revs, revs[i].life = "ready"
        PROVE  revs[i].id \in RevNos /\ KeptOut(r.snap, d, revs[i].id)
    <3>1. revs[i].id \in RevNos
      BY <2>2 DEF Revs
    <3>2. revs[i].id \in RevIds(r.snap.deps[d])
      BY <2>4, <2>6 DEF RevIds
    <3>3. \A j \in DOMAIN new : new[j].id = revs[i].id => j = i
      BY <2>2, <2>4 DEF InBounds, NoRepeat
    <3> QED  BY <2>4, <2>6, <2>7, <3>1, <3>2, <3>3 DEF KeptOut
  <2> QED  BY <2>6, <2>7
<1> QED  BY <1>1, <1>2

(* warm: only a revision that was never out of service gets ready.          *)
LEMMA WarmCarries ==
    ASSUME NEW n, SnapOk(n), NEW d \in Deps
    PROVE  Carries(n, Warm(n, d))
<1> DEFINE revs == n.deps[d].revs
           fits == {i \in DOMAIN revs : Warmable(revs[i])}
           last == CHOOSE i \in fits : \A j \in fits : j <= i
           new  == [revs EXCEPT ![last].life = "ready"]
           r == Warm(n, d)
<1>1. CASE ~Known(n, d) \/ fits = {}
  <2>1. r = Refused(n)
    BY <1>1 DEF Warm
  <2> QED  BY <2>1, RefusedCarries
<1>2. CASE Known(n, d) /\ fits # {}
  <2>1. r = WithRevs(n, d, new)
    BY <1>2 DEF Warm
  <2>2. /\ revs \in Seq(Revs) /\ InBounds(revs) /\ Len(revs) \in Nat /\ DOMAIN revs = 1 .. Len(revs)
        /\ \A i \in DOMAIN revs : revs[i] \in Revs
    BY DepFacts
  <2>3. fits \subseteq 1 .. Len(revs)
    BY <2>2
  <2>4. last \in fits
    <3>1. \E i \in fits : \A j \in fits : j <= i
      BY <1>2, <2>2, <2>3, GreatestExists
    <3> HIDE DEF fits
    <3> QED  BY <3>1
  <2> HIDE DEF last
  <2>5. last \in DOMAIN revs /\ revs[last].life \notin OutOfService
    BY <2>4 DEF Warmable, OutOfService
  <2>6. new = [revs EXCEPT ![last] = [revs[last] EXCEPT !.life = "ready"]]
    BY <2>2, <2>5
  <2> DEFINE one == [revs[last] EXCEPT !.life = "ready"]
  <2>7. one \in Revs /\ one.id = revs[last].id /\ one.w = revs[last].w /\ one.w \in Nat
    BY <2>2, <2>5 DEF Revs, Lifecycles
  <2>8. \A i \in DOMAIN revs : revs[i].w \in Nat
    BY <2>2 DEF Revs
  <2> HIDE DEF one
  <2>9. /\ DOMAIN new = DOMAIN revs /\ new \in Seq(Revs)
        /\ \A i \in DOMAIN revs : new[i] = IF i = last THEN one ELSE revs[i]
    BY <2>2, <2>5, <2>6, <2>7 DEF one
  <2> HIDE DEF new
  <2>10. \A i \in DOMAIN revs : /\ new[i].id = revs[i].id /\ new[i].w <= revs[i].w
                                /\ revs[i].life \in OutOfService => new[i].life \in OutOfService
    BY <2>5, <2>7, <2>8, <2>9
  <2>11. InBounds(new)
    BY <2>2, <2>9, <2>10, InPlace
  <2> QED  BY <2>1, <2>9, <2>10, <2>11, InPlaceCarries
<1> QED  BY <1>1, <1>2

(* PlaceOf finds an id that is there.                                       *)
LEMMA PlaceFound ==
    ASSUME NEW entries, NEW id, \E j \in DOMAIN entries : entries[j].id = id
    PROVE  PlaceOf(entries, id) \in DOMAIN entries /\ entries[PlaceOf(entries, id)].id = id
BY DEF PlaceOf

Entries == [id : RevNos, w : Nat]

(* set_traffic: the weights are those of the entries.                       *)
LEMMA TrafficCarries ==
    ASSUME NEW n, SnapOk(n), NEW d \in Deps, NEW entries \in Seq(Entries)
    PROVE  Carries(n, SetTraffic(n, d, entries))
<1> DEFINE revs == n.deps[d].revs
           Entered(id) == \E j \in DOMAIN entries : entries[j].id = id
           w(id) == IF Entered(id) THEN entries[PlaceOf(entries, id)].w ELSE 0
           New(i) == [revs[i] EXCEPT !.w = w(revs[i].id)]
           new == [i \in DOMAIN revs |-> New(i)]
           f == [i \in DOMAIN revs |-> PlaceOf(entries, revs[i].id)]
           bad == \/ ~TrafficValid(entries) \/ ~Known(n, d)
                  \/ \E i \in DOMAIN entries : entries[i].id \notin RevIds(n.deps[d])
           r == SetTraffic(n, d, entries)
<1>1. CASE bad
  <2>1. r = Refused(n)
    BY <1>1 DEF SetTraffic
  <2> QED  BY <2>1, RefusedCarries
<1>2. CASE ~bad
  <2>1. r = WithRevs(n, d, new) /\ TrafficValid(entries)
    BY <1>2 DEF SetTraffic
  <2>2. /\ revs \in Seq(Revs) /\ InBounds(revs) /\ Len(revs) \in Nat /\ DOMAIN revs = 1 .. Len(revs)
        /\ \A i \in DOMAIN revs : revs[i] \in Revs
    BY DepFacts
  <2>3. /\ Len(entries) \in Nat /\ DOMAIN entries = 1 .. Len(entries)
        /\ \A j \in DOMAIN entries : entries[j].w \in Nat
    <3>1. \A j \in DOMAIN entries : entries[j] \in Entries
      OBVIOUS
    <3>2. \A x \in Entries : x.w \in Nat
      BY DEF Entries
    <3> QED  BY <3>1, <3>2
  <2>4. \A id : Entered(id) => PlaceOf(entries, id) \in DOMAIN entries /\ entries[PlaceOf(entries, id)].id = id
    BY PlaceFound
  <2>5. \A id : w(id) \in Nat /\ (w(id) > 0 => Entered(id) /\ w(id) = entries[PlaceOf(entries, id)].w)
    BY <2>3, <2>4
  <2> HIDE DEF w, Entered
  <2>6. \A i \in DOMAIN revs : New(i) \in Revs /\ New(i).id = revs[i].id /\ New(i).life = revs[i].life
                               /\ New(i).w = w(revs[i].id)
    <3> SUFFICES ASSUME NEW x \in Revs, NEW v \in Nat
                 PROVE  LET y == [x EXCEPT !.w = v]
                        IN  y \in Revs /\ y.id = x.id /\ y.life = x.life /\ y.w = v
      BY <2>2, <2>5
    <3> QED  BY DEF Revs
  <2> HIDE DEF New
  <2>7. /\ DOMAIN new = DOMAIN revs /\ new \in Seq(Revs)
        /\ \A i \in DOMAIN new : new[i].id = revs[i].id /\ new[i].life = revs[i].life /\ new[i].w = w(revs[i].id)
    BY <2>2, <2>6
  <2>8. \A i \in DOMAIN revs : f[i] = PlaceOf(entries, revs[i].id)
    OBVIOUS
  <2> HIDE DEF new, f
  <2>9. Weighed(new) /\ Weighed(entries)
    <3>1. (\A x \in Revs : x.w \in Nat) /\ (\A x \in Entries : x.w \in Nat)
      BY DEF Revs, Entries
    <3> QED  BY <2>7, <3>1, WeighedSeq
  <2>10. \A i \in DOMAIN new : new[i].w > 0 => /\ f[i] \in DOMAIN entries /\ new[i].w <= entries[f[i]].w
                                               /\ entries[f[i]].id = revs[i].id
    BY <2>3, <2>4, <2>5, <2>7, <2>8
  <2>11. \A i, j \in DOMAIN new : new[i].w > 0 /\ new[j].w > 0 /\ f[i] = f[j] => i = j
    <3>1. \A i, j \in DOMAIN new : revs[i].id = revs[j].id => i = j
      BY <2>2, <2>7 DEF InBounds, NoRepeat
    <3> HIDE DEF revs
    <3> QED  BY <2>10, <3>1, Zenon
  <2>12. SumOf(new) <= SumOf(entries)
    BY <2>9, <2>10, <2>11, SumOfFits
  <2>13. SumOf(entries) = Full
    BY <2>1 DEF TrafficValid
  <2>14. InBounds(new)
    BY <2>2, <2>7, <2>12, <2>13 DEF InBounds, NoRepeat
  <2> QED  BY <2>1, <2>7, <2>14, InPlaceCarries
<1> QED  BY <1>1, <1>2

(* register_surface                                                         *)
LEMMA SurfaceCarries ==
    ASSUME NEW n, SnapOk(n), NEW s \in Surfaces, NEW path \in Paths \cup {NoPath}
    PROVE  Carries(n, RegisterSurface(n, s, path))
<1> DEFINE m == [n EXCEPT !.surf[s] = path]
           bad == path = NoPath \/ \E o \in Surfaces \ {s} : n.surf[o] = path
           r == RegisterSurface(n, s, path)
<1>1. CASE bad
  <2>1. r = Refused(n)
    BY <1>1 DEF RegisterSurface
  <2> QED  BY <2>1, RefusedCarries
<1>2. CASE ~bad
  <2>1. r.ok = TRUE /\ r.snap = m
    BY <1>2 DEF RegisterSurface, Changed
  <2>2. n \in Snaps /\ n.surf \in [Surfaces -> Paths \cup {NoPath}]
    BY DEF SnapOk, Snaps
  <2>3. m.deps = n.deps /\ m.surf = [n.surf EXCEPT ![s] = path] /\ m = [deps |-> n.deps, surf |-> m.surf]
    BY <2>2 DEF Snaps
  <2> HIDE DEF m
  <2>4. m.surf \in [Surfaces -> Paths \cup {NoPath}]
        /\ \A t \in Surfaces : m.surf[t] = IF t = s THEN path ELSE n.surf[t]
    BY <2>2, <2>3
  <2>5. m \in Snaps
    BY <2>2, <2>3, <2>4 DEF Snaps
  <2>6. Apart(m.surf)
    BY <1>2, <2>4 DEF SnapOk, Apart
  <2>7. SnapOk(m)
    BY <2>3, <2>5, <2>6 DEF SnapOk
  <2> QED  BY <2>1, <2>3, <2>7, ZenonT(40) DEF Carries, KeptOut, RevIds
<1> QED  BY <1>1, <1>2

(* A deployment has finitely many revisions.                                 *)
LEMMA RevIdsFinite ==
    ASSUME NEW n, SnapOk(n), NEW d \in Deps
    PROVE  IsFiniteSet(RevIds(n.deps[d])) /\ RevIds(n.deps[d]) \subseteq RevNos
<1> DEFINE revs == n.deps[d].revs
           D == DOMAIN revs
           f == [i \in D |-> revs[i].id]
           T == RevIds(n.deps[d])
<1>1. /\ Len(revs) \in Nat /\ D = 1 .. Len(revs) /\ \A i \in D : revs[i] \in Revs
  BY DepFacts
<1>2. f \in Surjection(D, T)
  BY DEF Surjection, RevIds
<1>3. IsFiniteSet(D)
  <2>1. 1 \in Int /\ Len(revs) \in Int
    BY <1>1
  <2>2. IsFiniteSet(1 .. Len(revs))
    BY <2>1, FS_Interval, Zenon
  <2> HIDE DEF D
  <2> QED  BY <1>1, <2>2, Zenon
<1>4. T \subseteq RevNos
  BY <1>1 DEF RevIds, Revs
<1> HIDE DEF D, f, T
<1>5. IsFiniteSet(T)
  BY <1>2, <1>3, FS_Surjection
<1> QED  BY <1>4, <1>5 DEF T

(* stage: a revision without weight, then all in the order of their ids.    *)
LEMMA StageCarries ==
    ASSUME NEW n, SnapOk(n), NEW d \in Deps, NEW bundle \in Bundles, NEW id \in RevNos
    PROVE  Carries(n, Stage(n, d, bundle, id))
<1> DEFINE dep == n.deps[d]
           revs == dep.revs
           S == RevIds(dep) \cup {id}
           ids == InOrder(S)
           Rev(x) == IF x = id THEN [id |-> id, life |-> "staged", w |-> 0] ELSE revs[PlaceOf(revs, x)]
           new == [k \in DOMAIN ids |-> Rev(ids[k])]
           m == [n EXCEPT !.deps[d] = [bundle |-> bundle, revs |-> new]]
           f == [k \in DOMAIN ids |-> PlaceOf(revs, ids[k])]
           bad == (Known(n, d) /\ dep.bundle # bundle) \/ id \in RevIds(dep)
           r == Stage(n, d, bundle, id)
<1>1. CASE bad
  <2>1. r = Refused(n)
    BY <1>1 DEF Stage
  <2> QED  BY <2>1, RefusedCarries
<1>2. CASE ~bad
  <2>1. r.ok = TRUE /\ r.snap = m
    BY <1>2 DEF Stage, Changed
  <2>2. /\ revs \in Seq(Revs) /\ InBounds(revs) /\ Len(revs) \in Nat /\ DOMAIN revs = 1 .. Len(revs)
        /\ \A i \in DOMAIN revs : revs[i] \in Revs
    BY DepFacts
  <2>3. IsFiniteSet(S) /\ S \subseteq Nat /\ S \subseteq RevNos
    <3>1. IsFiniteSet(RevIds(dep)) /\ RevIds(dep) \subseteq RevNos
      BY RevIdsFinite
    <3>2. IsFiniteSet(S)
      BY <3>1, FS_AddElement
    <3>3. RevNos \subseteq Nat
      BY DEF RevNos
    <3> QED  BY <3>1, <3>2, <3>3
  <2> DEFINE c == Cardinality(S)
  <2>4. /\ c \in Nat /\ DOMAIN ids = 1 .. c
        /\ \A k \in 1 .. c : ids[k] \in S
        /\ \A k, l \in 1 .. c : ids[k] = ids[l] => k = l
        /\ \A x \in S : \E k \in 1 .. c : ids[k] = x
    BY <2>3, InOrderFacts, ZenonT(40)
  <2>5. \A x \in S : x # id => \E j \in DOMAIN revs : revs[j].id = x
    BY DEF RevIds
  <2>6. \A x \in S : x # id => PlaceOf(revs, x) \in DOMAIN revs /\ revs[PlaceOf(revs, x)].id = x
    BY <2>5, PlaceFound
  <2>7. [id |-> id, life |-> "staged", w |-> 0] \in Revs
    BY DEF Revs, Lifecycles
  <2>8. \A x \in S : /\ Rev(x) \in Revs /\ Rev(x).id = x
                     /\ Rev(x).w > 0 => x # id
                     /\ x # id => Rev(x) = revs[PlaceOf(revs, x)]
    BY <2>2, <2>6, <2>7
  <2>9. id \notin RevIds(dep)
    BY <1>2
  <2> HIDE DEF S, ids, Rev, c
  <2>10. new \in [1 .. c -> Revs] /\ \A k \in 1 .. c : new[k] = Rev(ids[k])
    BY <2>4, <2>8
  <2>11. new \in Seq(Revs) /\ Len(new) = c /\ DOMAIN new = 1 .. c
    BY <2>4, <2>10
  <2>12. \A k \in 1 .. c : f[k] = PlaceOf(revs, ids[k])
    BY <2>4
  <2> HIDE DEF new, f
  <2>13. NoRepeat(new)
    BY <2>4, <2>8, <2>10, <2>11 DEF NoRepeat
  <2>14. SumOf(new) <= SumOf(revs)
    <3>1. \A x \in Revs : x.w \in Nat
      BY DEF Revs
    <3>2. Weighed(new) /\ Weighed(revs)
      BY <2>2, <2>11, <3>1, WeighedSeq
    <3>3. \A k \in DOMAIN new : new[k].w > 0 =>
             ids[k] # id /\ f[k] \in DOMAIN revs /\ new[k] = revs[f[k]] /\ revs[f[k]].id = ids[k]
      BY <2>4, <2>6, <2>8, <2>10, <2>11, <2>12
    <3>4. \A k \in DOMAIN new : new[k].w > 0 => f[k] \in DOMAIN revs /\ new[k].w <= revs[f[k]].w
      BY <2>2, <3>1, <3>3
    <3>5. \A k, l \in DOMAIN new : new[k].w > 0 /\ new[l].w > 0 /\ f[k] = f[l] => k = l
      <4>1. \A k, l \in DOMAIN new : ids[k] = ids[l] => k = l
        BY <2>4, <2>11
      <4>2. \A k \in DOMAIN new : new[k].w > 0 => revs[f[k]].id = ids[k]
        BY <3>3
      <4> HIDE DEF revs
      <4> QED  BY <4>1, <4>2, Zenon
    <3> QED  BY <3>2, <3>4, <3>5, SumOfFits
  <2>15. InBounds(new)
    <3>1. \A x \in Revs : x.w \in Nat
      BY DEF Revs
    <3>2. SumOf(new) \in Nat /\ SumOf(revs) \in Nat
      BY <2>2, <2>11, <3>1, WeighedSeq, SumOfFacts
    <3> QED  BY <2>2, <2>13, <2>14, <3>2, SnapshotAssumption DEF InBounds
  <2>16. n \in Snaps /\ n.deps \in [Deps -> Deployments]
    BY DEF SnapOk, Snaps
  <2> DEFINE one == [bundle |-> bundle, revs |-> new]
  <2>17. one \in Deployments /\ one.revs = new
    BY <2>11 DEF Deployments
  <2> HIDE DEF one
  <2>18. m.deps = [n.deps EXCEPT ![d] = one] /\ m.surf = n.surf /\ m = [deps |-> m.deps, surf |-> n.surf]
    BY <2>16 DEF Snaps, one
  <2> HIDE DEF m
  <2>19. m.deps \in [Deps -> Deployments] /\ m.deps[d] = one /\ \A e \in Deps \ {d} : m.deps[e] = n.deps[e]
    BY <2>16, <2>17, <2>18
  <2>20. m \in Snaps
    BY <2>16, <2>18, <2>19 DEF Snaps
  <2>21. SnapOk(m)
    BY <2>15, <2>17, <2>18, <2>19, <2>20 DEF SnapOk
  <2>22. NoneBack(revs, new)
    <3>1. ASSUME NEW i \in DOMAIN revs PROVE \E j \in DOMAIN new : new[j].id = revs[i].id
      <4>1. revs[i].id \in S
        BY DEF S, RevIds
      <4> QED  BY <2>4, <2>8, <2>10, <2>11, <4>1
    <3>2. ASSUME NEW j \in DOMAIN new, NEW i \in DOMAIN revs, revs[i].id = new[j].id
          PROVE  new[j] = revs[i]
      <4>1. ids[j] \in S /\ new[j] = Rev(ids[j]) /\ revs[i].id = ids[j]
        BY <2>4, <2>8, <2>10, <2>11, <3>2
      <4>2. ids[j] # id
        BY <2>9, <4>1 DEF RevIds
      <4>3. PlaceOf(revs, ids[j]) = i
        BY <2>2, <2>6, <4>1, <4>2 DEF InBounds, NoRepeat
      <4> QED  BY <2>8, <4>1, <4>2, <4>3
    <3> QED  BY <3>1, <3>2 DEF NoneBack
  <2>23. NoneBack(n.deps[d].revs, m.deps[d].revs)
    BY <2>17, <2>19, <2>22
  <2>24. \A e \in Deps : \A x \in RevNos : KeptOut(n, e, x) => KeptOut(m, e, x)
    BY <2>19, <2>23, CarriesOne
  <2> QED  BY <2>1, <2>21, <2>24 DEF Carries
<1> QED  BY <1>1, <1>2

(* The blocks of a deployment, in the order of the document.                *)
Blocks == [dep : Deps, bundle : Bundles, id : RevNos, w : Nat]
Mounts == [id : Surfaces, path : Paths]

(* The blocks of a deployment are some of those of the document.             *)
LEMMA BlocksType ==
    ASSUME NEW config \in Configs, NEW d \in Deps
    PROVE  BlocksOf(config, d) \in Seq(Blocks)
<1> DEFINE blocks == config.blocks
           S == {i \in DOMAIN blocks : blocks[i].dep = d}
           at == InOrder(S)
           c == Cardinality(S)
<1>1. blocks \in Seq(Blocks)
  BY AdminAssumption DEF Blocks
<1>2. DOMAIN blocks = 1 .. Len(blocks) /\ Len(blocks) \in Nat /\ \A i \in DOMAIN blocks : blocks[i] \in Blocks
  BY <1>1
<1>3. S \subseteq Nat /\ IsFiniteSet(S)
  <2>1. IsFiniteSet(1 .. Len(blocks))
    BY <1>2, FS_Interval
  <2>2. S \in SUBSET (1 .. Len(blocks))
    BY <1>2
  <2>3. IsFiniteSet(S)
    BY <2>1, <2>2, FS_Subset
  <2> QED  BY <1>2, <2>2, <2>3
<1>4. c \in Nat /\ DOMAIN at = 1 .. c /\ \A k \in 1 .. c : at[k] \in S
  BY <1>3, InOrderFacts
<1> HIDE DEF at, c
<1>5. BlocksOf(config, d) = [k \in 1 .. c |-> blocks[at[k]]]
  BY <1>4 DEF BlocksOf, at
<1>6. [k \in 1 .. c |-> blocks[at[k]]] \in [1 .. c -> Blocks]
  BY <1>2, <1>4
<1> QED  BY <1>4, <1>5, <1>6

(* apply_runtime_config: a document that is accepted leaves a sound         *)
(* snapshot.                                                                *)
LEMMA ConfigSound ==
    ASSUME NEW n, SnapOk(n), NEW config \in Configs
    PROVE  /\ ApplyConfig(n, config).ok \in BOOLEAN /\ SnapOk(ApplyConfig(n, config).snap)
           /\ ApplyConfig(n, config).ok = FALSE => ApplyConfig(n, config).snap = n
<1> DEFINE surfaces == config.surfaces
           At(s) == {i \in DOMAIN surfaces : surfaces[i].id = s}
           Surf(s) == IF At(s) = {} THEN NoPath ELSE surfaces[Max(At(s))].path
           bs(d) == BlocksOf(config, d)
           New(d) == [i \in DOMAIN bs(d) |-> [id |-> bs(d)[i].id, life |-> "ready", w |-> bs(d)[i].w]]
           Dep(d) == IF bs(d) = << >> THEN NoDep ELSE [bundle |-> bs(d)[1].bundle, revs |-> New(d)]
           m == [deps |-> [d \in Deps |-> Dep(d)], surf |-> [s \in Surfaces |-> Surf(s)]]
<1>1. CASE ~ConfigValid(config)
  <2>1. ApplyConfig(n, config) = Refused(n)
    BY <1>1 DEF ApplyConfig
  <2> QED  BY <2>1 DEF Refused
<1>2. CASE ConfigValid(config)
  <2>1. ApplyConfig(n, config).ok = TRUE /\ ApplyConfig(n, config).snap = m
    BY <1>2 DEF ApplyConfig, Changed
  <2>2. ASSUME NEW d \in Deps PROVE Dep(d) \in Deployments /\ InBounds(Dep(d).revs)
    <3>1. bs(d) \in Seq(Blocks)
      BY BlocksType
    <3> HIDE DEF bs
    <3>2. CASE bs(d) = << >>
      <4>1. Dep(d) = NoDep
        BY <3>2
      <4>2. NoDep \in Deployments /\ NoDep.revs = << >>
        BY DEF NoDep, Deployments
      <4>3. Weighed(<< >>)
        BY DEF Weighed
      <4>4. SumOf(<< >>) = 0
        BY <4>3, SumOfFacts
      <4>5. InBounds(<< >>)
        BY <4>4, SnapshotAssumption DEF InBounds, NoRepeat
      <4> QED  BY <4>1, <4>2, <4>5
    <3>3. CASE bs(d) # << >>
      <4> DEFINE b == bs(d)
                 c == Len(b)
                 new == New(d)
      <4>1. TrafficValid(b)
        BY <1>2, <3>3 DEF ConfigValid, bs
      <4>2. c \in Nat /\ c # 0 /\ DOMAIN b = 1 .. c /\ \A i \in 1 .. c : b[i] \in Blocks
        BY <3>1, <3>3
      <4>3. \A x \in Blocks : [id |-> x.id, life |-> "ready", w |-> x.w] \in Revs /\ x.bundle \in Bundles
        BY DEF Blocks, Revs, Lifecycles
      <4>4. 1 \in 1 .. c
        BY <4>2
      <4>5. new = [i \in 1 .. c |-> [id |-> b[i].id, life |-> "ready", w |-> b[i].w]]
        BY <4>2
      <4>6. Dep(d) = [bundle |-> b[1].bundle, revs |-> new]
        BY <3>3
      <4> HIDE DEF b, c, new, New
      <4>7. /\ new \in [1 .. c -> Revs]
            /\ \A i \in 1 .. c : new[i].id = b[i].id /\ new[i].w = b[i].w
        BY <4>2, <4>3, <4>5
      <4>8. new \in Seq(Revs) /\ DOMAIN new = 1 .. c /\ Len(new) = c
        BY <4>2, <4>7
      <4>9. [i \in DOMAIN new |-> new[i].w] = [i \in DOMAIN b |-> b[i].w]
        BY <4>2, <4>7, <4>8
      <4>10. SumOf(new) = SumOf(b)
        BY <4>8, <4>9 DEF SumOf, c
      <4>11. InBounds(new)
        BY <4>1, <4>2, <4>7, <4>8, <4>10, SnapshotAssumption DEF InBounds, TrafficValid, NoRepeat
      <4>12. Dep(d) \in Deployments /\ Dep(d).revs = new
        <5> DEFINE u == b[1].bundle
        <5>1. u \in Bundles
          BY <4>2, <4>3, <4>4
        <5> HIDE DEF u
        <5>2. [bundle |-> u, revs |-> new] \in Deployments /\ [bundle |-> u, revs |-> new].revs = new
          BY <4>8, <5>1 DEF Deployments
        <5> HIDE DEF Dep
        <5> QED  BY <4>6, <5>2 DEF u
      <4> QED  BY <4>11, <4>12
    <3> QED  BY <3>2, <3>3
  <2>3. surfaces \in Seq(Mounts)
    BY AdminAssumption DEF Mounts
  <2>4. /\ DOMAIN surfaces = 1 .. Len(surfaces) /\ Len(surfaces) \in Nat
        /\ \A i \in DOMAIN surfaces : surfaces[i].path \in Paths
    <3>1. DOMAIN surfaces = 1 .. Len(surfaces) /\ Len(surfaces) \in Nat
      BY <2>3
    <3>2. \A i \in DOMAIN surfaces : surfaces[i] \in Mounts
      BY <2>3
    <3> QED  BY <3>1, <3>2 DEF Mounts
  <2>5. \A s \in Surfaces : At(s) # {} => Max(At(s)) \in DOMAIN surfaces /\ surfaces[Max(At(s))].id = s
    <3> SUFFICES ASSUME NEW s \in Surfaces, At(s) # {} PROVE Max(At(s)) \in At(s)
      OBVIOUS
    <3>1. At(s) \subseteq 1 .. Len(surfaces) /\ At(s) \subseteq Int
      BY <2>4
    <3> HIDE DEF At
    <3>2. PICK i \in At(s) : \A j \in At(s) : j <= i
      BY <2>4, <3>1, GreatestExists
    <3>3. \A j \in At(s) : i >= j
      BY <3>1, <3>2
    <3> QED  BY <3>3 DEF Max
  <2> HIDE DEF At
  <2>6. \A s \in Surfaces : Surf(s) \in Paths \cup {NoPath}
    BY <2>4, <2>5
  <2>7. \A s, t \in Surfaces : Surf(s) = Surf(t) => s = t \/ Surf(s) = NoPath
    <3> SUFFICES ASSUME NEW s \in Surfaces, NEW t \in Surfaces, Surf(s) = Surf(t), Surf(s) # NoPath PROVE s = t
      OBVIOUS
    <3>1. At(s) # {} /\ At(t) # {}
      OBVIOUS
    <3>2. surfaces[Max(At(s))].path = surfaces[Max(At(t))].path
      BY <3>1
    <3>3. Max(At(s)) = Max(At(t))
      BY <1>2, <2>5, <3>1, <3>2 DEF ConfigValid
    <3> QED  BY <2>5, <3>1, <3>3
  <2> HIDE DEF Dep, Surf
  <2>8. /\ m \in Snaps /\ (\A d \in Deps : m.deps[d] = Dep(d)) /\ (\A s \in Surfaces : m.surf[s] = Surf(s))
    BY <2>2, <2>6 DEF Snaps
  <2> HIDE DEF m
  <2>9. SnapOk(m)
    BY <2>2, <2>7, <2>8 DEF SnapOk, Apart
  <2> QED  BY <2>1, <2>9
<1> QED  BY <1>1, <1>2

(* A process without a configuration.                                        *)
LEMMA EmptySound == SnapOk(EmptySnap)
<1>1. Weighed(<< >>)
  BY DEF Weighed
<1>2. SumOf(<< >>) = 0
  BY <1>1, SumOfFacts
<1>3. InBounds(<< >>)
  BY <1>2, SnapshotAssumption DEF InBounds, NoRepeat
<1>4. NoDep \in Deployments /\ NoDep.revs = << >>
  BY DEF NoDep, Deployments
<1>5. EmptySnap \in Snaps /\ (\A d \in Deps : EmptySnap.deps[d] = NoDep) /\ \A s \in Surfaces : EmptySnap.surf[s] = NoPath
  BY <1>4 DEF EmptySnap, Snaps
<1> QED  BY <1>3, <1>4, <1>5 DEF SnapOk, Apart

(* The revisions of o are out of service.                                   *)
OutOk(n, o) == \A x \in o : x[1] \in Deps /\ x[2] \in RevNos /\ KeptOut(n, x[1], x[2])

(* A revision that is out of service stays out.                              *)
LEMMA OutCarried ==
    ASSUME NEW n, NEW r, Carries(n, r), NEW o, OutOk(n, o)
    PROVE  OutOk(r.snap, o)
BY DEF Carries, OutOk

(* Every admin request leaves a sound snapshot, and out of service what     *)
(* OutAfter says.                                                           *)
LEMMA ApplySound ==
    ASSUME NEW n, SnapOk(n), OutOk(n, out), NEW op \in AdminOps
    PROVE  LET r == ApplyOp(n, op)
           IN  /\ r.ok \in BOOLEAN /\ SnapOk(r.snap)
               /\ OutOk(r.snap, IF r.ok THEN OutAfter(n, op) ELSE out)
<1> DEFINE r == ApplyOp(n, op)
<1> SUFFICES /\ r.ok \in BOOLEAN /\ SnapOk(r.snap)
             /\ OutOk(r.snap, out) \/ r.ok = TRUE
             /\ r.ok = TRUE => OutOk(r.snap, OutAfter(n, op))
  OBVIOUS
<1>0. ASSUME Carries(n, r) PROVE r.ok \in BOOLEAN /\ SnapOk(r.snap) /\ OutOk(r.snap, out)
  BY <1>0, OutCarried DEF Carries
<1>1. CASE op.k = "config"
  <2>1. op.config \in Configs /\ r = ApplyConfig(n, op.config) /\ OutAfter(n, op) = {}
    BY <1>1, AdminAssumption DEF ApplyOp, OutAfter
  <2>2. r.ok \in BOOLEAN /\ SnapOk(r.snap) /\ (r.ok = FALSE => r.snap = n)
    BY <2>1, ConfigSound
  <2> QED  BY <2>1, <2>2 DEF OutOk
<1>2. CASE op.k = "drain"
  <2>1. op.d \in Deps /\ r = Drain(n, op.d, op.r) /\ OutAfter(n, op) = out \cup {<<op.d, op.r>>}
    BY <1>2, AdminAssumption DEF ApplyOp, OutAfter
  <2>2. Carries(n, r) /\ (r.ok => KeptOut(r.snap, op.d, op.r) /\ op.r \in RevNos)
    BY <2>1, DrainCarries
  <2> HIDE DEF r
  <2>3. r.ok = TRUE => OutOk(r.snap, out \cup {<<op.d, op.r>>})
    BY <1>0, <2>1, <2>2 DEF OutOk
  <2> QED  BY <1>0, <2>1, <2>2, <2>3
<1>3. CASE op.k = "deactivate"
  <2> DEFINE revs == n.deps[op.d].revs
             more == {<<op.d, revs[i].id>> : i \in {j \in DOMAIN revs : revs[j].life = "ready"}}
  <2>1. op.d \in Deps /\ r = Deactivate(n, op.d) /\ OutAfter(n, op) = out \cup more
    BY <1>3, AdminAssumption DEF ApplyOp, OutAfter
  <2>2. /\ Carries(n, r)
        /\ r.ok => \A i \in DOMAIN revs : revs[i].life = "ready" =>
                      revs[i].id \in RevNos /\ KeptOut(r.snap, op.d, revs[i].id)
    BY <2>1, DeactivateCarries
  <2> HIDE DEF r
  <2>3. r.ok = TRUE => OutOk(r.snap, more)
    BY <2>1, <2>2 DEF OutOk
  <2>4. r.ok = TRUE => OutOk(r.snap, out \cup more)
    BY <1>0, <2>2, <2>3 DEF OutOk
  <2> QED  BY <1>0, <2>1, <2>2, <2>4
<1>4. CASE op.k \notin {"config", "drain", "deactivate"}
  <2>1. OutAfter(n, op) = out
    BY <1>4 DEF OutAfter
  <2>2. Carries(n, r)
    <3>1. CASE op.k = "stage"
      BY <3>1, AdminAssumption, StageCarries DEF ApplyOp
    <3>2. CASE op.k = "surface"
      BY <3>2, AdminAssumption, SurfaceCarries DEF ApplyOp
    <3>3. CASE op.k = "warm"
      BY <3>3, AdminAssumption, WarmCarries DEF ApplyOp
    <3>4. CASE op.k = "traffic"
      BY <3>4, AdminAssumption, TrafficCarries DEF ApplyOp, Entries
    <3>5. CASE op.k \notin {"stage", "surface", "warm", "traffic"}
      <4>1. r = Refused(n) \/ r = Changed(n)
        BY <1>4, <3>5 DEF ApplyOp
      <4> QED  BY <4>1, RefusedCarries
    <3> QED  BY <3>1, <3>2, <3>3, <3>4, <3>5
  <2> QED  BY <1>0, <2>1, <2>2
<1> QED  BY <1>1, <1>2, <1>3, <1>4

-----------------------------------------------------------------------------
(* The selector.                                                            *)

(* select_revision answers with a revision that is in service, or with none.*)
LEMMA SelectsReady ==
    ASSUME NEW n, SnapOk(n), NEW d \in Deps, NEW s
    PROVE  \/ SelectRevision(n, d, s) = 0
           \/ \E i \in Selectable(n.deps[d].revs) : SelectRevision(n, d, s) = n.deps[d].revs[i].id
<1> DEFINE revs == n.deps[d].revs
           sums == Sums(Shares(revs))
           hit == {i \in Selectable(revs) : Hits((s % sums[Len(revs)]) - sums[i - 1], revs[i].w)}
<1>1. SelectRevision(n, d, s) = IF Selectable(revs) = {} \/ hit = {} THEN 0 ELSE revs[Min(hit)].id
  BY DEF SelectRevision
<1>2. DOMAIN revs = 1 .. Len(revs) /\ Len(revs) \in Nat
  BY DepFacts
<1>3. hit \subseteq Nat /\ hit \subseteq Selectable(revs)
  BY <1>2 DEF Selectable
<1> HIDE DEF hit
<1>4. hit # {} => Min(hit) \in hit
  BY <1>3, LeastExists DEF Min
<1> QED  BY <1>1, <1>3, <1>4

(* A selector below the total meets the revision whose share of the total   *)
(* it falls into.                                                           *)
LEMMA SelectsShare ==
    ASSUME NEW n, SnapOk(n), NEW d \in Deps
    PROVE  LET revs == n.deps[d].revs
               sums == Sums(Shares(revs))
               total == sums[Len(revs)]
           IN  \A s \in 0 .. (total - 1) : \A i \in DOMAIN revs :
                  (SelectRevision(n, d, s) = revs[i].id) <=> (sums[i - 1] <= s /\ s < sums[i])
<1> DEFINE revs == n.deps[d].revs
           c == Len(revs)
           ws == Shares(revs)
           sums == Sums(ws)
           total == sums[c]
<1>1. c \in Nat /\ DOMAIN revs = 1 .. c /\ (\A i \in 1 .. c : revs[i] \in Revs) /\ InBounds(revs)
  BY DepFacts
<1>2. ws \in Weights(c)
  <2>1. \A i \in 1 .. c : revs[i].w \in Nat
    BY <1>1 DEF Revs
  <2> QED  BY <1>1, <2>1 DEF Shares, Weights
<1>3. \A i \in 1 .. c : ws[i] = IF i \in Selectable(revs) THEN revs[i].w ELSE 0
  BY <1>1 DEF Shares
<1>4. \A i \in Selectable(revs) : i \in 1 .. c /\ revs[i].w > 0 /\ revs[i].w \in Nat
  BY <1>1 DEF Selectable, Revs
<1> HIDE DEF ws
<1>5. sums \in [0 .. c -> Nat] /\ sums[0] = 0 /\ \A i \in 1 .. c : sums[i] = sums[i - 1] + ws[i]
  BY <1>1, <1>2, SumsDef
<1>6. \A i, j \in 0 .. c : i <= j => sums[i] <= sums[j]
  BY <1>1, <1>2, SumsGrow
<1>7. SUFFICES ASSUME NEW s \in 0 .. (total - 1), NEW i \in 1 .. c
               PROVE  (SelectRevision(n, d, s) = revs[i].id) <=> (sums[i - 1] <= s /\ s < sums[i])
  BY <1>1 DEF ws
<1> HIDE DEF sums
<1>8. total \in Nat /\ c \in 0 .. c
  <2>1. c \in 0 .. c
    BY <1>1
  <2> HIDE DEF c
  <2> QED  BY <1>5, <2>1
<1>9. s % total = s
  BY <1>8
<1> DEFINE hit == {j \in Selectable(revs) : Hits((s % total) - sums[j - 1], revs[j].w)}
<1>10. SelectRevision(n, d, s) = IF Selectable(revs) = {} \/ hit = {} THEN 0 ELSE revs[Min(hit)].id
  BY DEF SelectRevision, sums, ws
<1>11. \A j \in Selectable(revs) : j \in hit <=> s < sums[j]
  <2> SUFFICES ASSUME NEW j \in Selectable(revs) PROVE Hits(s - sums[j - 1], revs[j].w) <=> s < sums[j]
    BY <1>9, SMTT(40)
  <2>1. j \in 1 .. c /\ j - 1 \in 0 .. c /\ j \in 0 .. c
    BY <1>1, <1>4
  <2>2. sums[j] = sums[j - 1] + revs[j].w /\ sums[j - 1] \in Nat /\ revs[j].w \in Nat
    BY <1>3, <1>4, <1>5, <2>1
  <2> QED  BY <2>2 DEF Hits
<1> DEFINE Past == {j \in 1 .. c : s < sums[j]}
<1>12. Past \subseteq Nat /\ Past # {}
  <2>1. s < sums[c]
    BY <1>8
  <2>2. c # 0
    BY <1>5, <1>8, <2>1
  <2> QED  BY <1>1, <2>1, <2>2, SMTT(40)
<1>13. PICK p \in Past : \A j \in Past : p <= j
  BY <1>12, LeastExists
<1>14. p \in 1 .. c /\ s < sums[p] /\ p - 1 \in 0 .. c
  BY <1>1, <1>13
<1>15. sums[p - 1] <= s
  <2>1. CASE p = 1
    BY <1>5, <1>8, <2>1
  <2>2. CASE p # 1
    <3>1. p - 1 \in 1 .. c /\ ~(p <= p - 1)
      BY <1>14, <2>2
    <3>2. ~(s < sums[p - 1])
      BY <1>13, <3>1
    <3>3. sums[p - 1] \in Nat
      BY <1>5, <1>14
    <3> QED  BY <1>8, <3>2, <3>3
  <2> QED  BY <2>1, <2>2
<1>16. p \in Selectable(revs)
  <2>1. sums[p] = sums[p - 1] + ws[p] /\ sums[p] \in Nat /\ sums[p - 1] \in Nat
    BY <1>5, <1>14, SMTT(40)
  <2>2. ws[p] # 0
    BY <1>8, <1>14, <1>15, <2>1
  <2> QED  BY <1>3, <1>14, <2>2
<1>17. p \in hit /\ \A j \in hit : p <= j
  <2>1. p \in hit
    BY <1>11, <1>14, <1>16
  <2>2. \A j \in hit : j \in Past
    BY <1>4, <1>11
  <2> QED  BY <1>13, <2>1, <2>2
<1> HIDE DEF hit, Past
<1>18. Min(hit) = p
  <2>1. \A j \in hit : j \in Int
    BY <1>1 DEF hit, Selectable
  <2>2. \A x \in hit : (\A y \in hit : x =< y) => x = p
    BY <1>17, <2>1
  <2> QED  BY <1>17, <2>2 DEF Min
<1>19. SelectRevision(n, d, s) = revs[p].id
  BY <1>10, <1>16, <1>17, <1>18
<1>20. (revs[p].id = revs[i].id) <=> p = i
  BY <1>1, <1>14 DEF InBounds, NoRepeat
<1>21. p = i <=> (sums[i - 1] <= s /\ s < sums[i])
  <2>1. ASSUME sums[i - 1] <= s, s < sums[i] PROVE p = i
    <3>1. p <= i
      BY <1>13, <2>1 DEF Past
    <3>2. ~(p < i)
      <4> SUFFICES ASSUME p < i PROVE FALSE
        OBVIOUS
      <4>1. p \in 0 .. c /\ i - 1 \in 0 .. c /\ p <= i - 1
        BY <1>1, <1>14
      <4>2. sums[p] <= sums[i - 1]
        BY <1>6, <4>1
      <4>3. sums[p] \in Nat /\ sums[i - 1] \in Nat
        BY <1>5, <4>1
      <4> QED  BY <1>8, <1>14, <2>1, <4>2, <4>3
    <3> QED  BY <1>1, <1>14, <3>1, <3>2
  <2> QED  BY <1>14, <1>15, <2>1
<1> QED  BY <1>19, <1>20, <1>21

(* In a full round every revision gets its share, when it is in service.    *)
LEMMA SharesExact ==
    ASSUME NEW n, SnapOk(n), NEW d \in Deps, NEW i \in DOMAIN n.deps[d].revs
    PROVE  LET revs == n.deps[d].revs
               total == Sums(Shares(revs))[Len(revs)]
           IN  Cardinality({s \in 0 .. (total - 1) : SelectRevision(n, d, s) = revs[i].id})
                 = IF revs[i].life = "ready" THEN revs[i].w ELSE 0
<1> DEFINE revs == n.deps[d].revs
           c == Len(revs)
           ws == Shares(revs)
           sums == Sums(ws)
           total == sums[c]
           G == {s \in 0 .. (total - 1) : SelectRevision(n, d, s) = revs[i].id}
           w == IF revs[i].life = "ready" THEN revs[i].w ELSE 0
<1>1. c \in Nat /\ DOMAIN revs = 1 .. c /\ \A j \in 1 .. c : revs[j] \in Revs
  BY DepFacts
<1>2. ws \in Weights(c)
  <2>1. \A j \in 1 .. c : revs[j].w \in Nat
    BY <1>1 DEF Revs
  <2> QED  BY <1>1, <2>1 DEF Shares, Weights
<1>3. i \in 1 .. c /\ ws[i] = w /\ w \in Nat
  BY <1>1 DEF Shares, Selectable, Revs
<1>4. \A s \in 0 .. (total - 1) : (SelectRevision(n, d, s) = revs[i].id) <=> (sums[i - 1] <= s /\ s < sums[i])
  BY SelectsShare
<1> HIDE DEF ws, w
<1>5. sums \in [0 .. c -> Nat] /\ sums[i] = sums[i - 1] + ws[i]
  BY <1>1, <1>2, <1>3, SumsDef
<1>6. sums[i] <= sums[c]
  BY <1>1, <1>2, <1>3, SumsGrow
<1> HIDE DEF sums
<1> DEFINE a == sums[i - 1]
           b == sums[i] - 1
<1>7. a \in Nat /\ sums[i] \in Nat /\ total \in Nat /\ b \in Int /\ b - a + 1 = w /\ b < total
  <2>1. i \in 0 .. c /\ i - 1 \in 0 .. c /\ c \in 0 .. c
    BY <1>1, <1>3
  <2> HIDE DEF c
  <2>2. sums[i - 1] \in Nat /\ sums[i] \in Nat /\ sums[c] \in Nat
    BY <1>5, <2>1
  <2> QED  BY <1>3, <1>5, <1>6, <2>2, SMTT(40)
<1> HIDE DEF c
<1>8. \A s : s \in G <=> s \in a .. b
  <2>1. \A s \in a .. b : s \in 0 .. (total - 1) /\ sums[i - 1] <= s /\ s < sums[i]
    BY <1>7
  <2>2. \A s \in 0 .. (total - 1) : sums[i - 1] <= s /\ s < sums[i] => s \in a .. b
    BY <1>7
  <2> HIDE DEF a, b
  <2> QED  BY <1>4, <2>1, <2>2, Zenon
<1> HIDE DEF a, b, G
<1>9. G = a .. b
  BY <1>8, Zenon
<1>10. Cardinality(G) = w
  <2>1. a \in Int /\ b \in Int
    BY <1>7
  <2>2. Cardinality(a .. b) = IF a > b THEN 0 ELSE b - a + 1
    BY <2>1, FS_Interval
  <2> QED  BY <1>3, <1>7, <1>9, <2>1, <2>2
<1> QED  BY <1>10 DEF G, w, sums, ws, c

-----------------------------------------------------------------------------
(* Requests and the extensions they pass.                                   *)

Answers == {"allow", "patch", "deny", "error"}

(* A request that goes on past the hooks was stopped by none, and one that  *)
(* does not was stopped by a binding.                                       *)
LEMMA HookFacts ==
    ASSUME NEW bindings \in Seq(Bindings), NEW o \in Outcomes(bindings)
    PROVE  /\ RunHooks(bindings, o) \in Answers
           /\ RunHooks(bindings, o) \in {"allow", "patch"} => ~MustStop(bindings, o)
           /\ RunHooks(bindings, o) \in {"deny", "error"} => bindings # << >>
<1> DEFINE stop == {i \in DOMAIN bindings : Stops(bindings[i], o[i])}
           first == CHOOSE i \in stop : \A j \in stop : i <= j
<1>1. RunHooks(bindings, o) =
        IF stop # {} THEN o[first]
        ELSE IF \E i \in DOMAIN bindings : o[i] = "patch" THEN "patch" ELSE "allow"
  BY DEF RunHooks
<1>2. stop \subseteq Nat
  OBVIOUS
<1>3. MustStop(bindings, o) => stop # {}
  BY DEF MustStop, Stops
<1>4. CASE stop = {}
  BY <1>1, <1>3, <1>4 DEF Answers
<1>5. CASE stop # {}
  <2>1. \E i \in stop : \A j \in stop : i <= j
    BY <1>2, <1>5, LeastExists
  <2>2. first \in stop
    <3> HIDE DEF stop
    <3> QED  BY <2>1
  <2>3. first \in DOMAIN bindings /\ Stops(bindings[first], o[first])
    BY <2>2
  <2>4. o[first] \in {"deny", "error"}
    BY <2>3 DEF Stops
  <2>5. bindings # << >>
    BY <2>3
  <2> QED  BY <1>1, <1>5, <2>4, <2>5 DEF Answers
<1> QED  BY <1>4, <1>5

Works == {"pre", "apply", "post", "observe", "done"}
Asks == [stage : Works, op : AdminOps \cup {Served}, stopped : BOOLEAN, applied : BOOLEAN, status : Nat]
HookSets == [pre : Seq(Bindings), post : Seq(Bindings), obs : Seq(Bindings)]

(* What is known of a request at its stage.                                 *)
Honest(r) ==
    /\ r.stage \in {"pre", "apply"} => r.op \in AdminOps /\ r.stopped = FALSE /\ r.applied = FALSE
    /\ r.stage \in {"post", "observe"} =>
          /\ r.stopped = FALSE /\ r.status \in {200, 400, 403}
          /\ r.status = 200 => r.applied = TRUE
          /\ r.status = 400 => r.applied = FALSE
          /\ r.status = 403 => hooks.post # << >>
    /\ r.stage = "done" =>
          /\ r.status = 200 => r.applied = TRUE
          /\ r.status = 400 => r.applied = FALSE
          /\ r.stopped = TRUE => r.applied = FALSE /\ r.status = 403
          /\ r.status \in {403, 500} /\ r.applied = TRUE =>
                hooks.post # << >> \/ \E i \in DOMAIN hooks.obs : hooks.obs[i].closed

AdminInv ==
    /\ SnapOk(snap) /\ OutOk(snap, out) /\ hooks \in HookSets /\ admins \in Nat
    /\ req \in [Conns -> Asks \cup {IdleReq}]
    /\ \A q \in Conns : Honest(req[q])
    /\ admins = 0 => out = {} /\ \A q \in Conns : req[q] = IdleReq

(* A connection without a request is told from one with a request.           *)
LEMMA IdleFacts == IdleReq.stage = "idle" /\ \A r \in Asks : r.stage \in Works /\ r # IdleReq
BY DEF IdleReq, Asks, Works

(* One request moves on, and nothing else of the process changes.           *)
LEMMA AdminMoves ==
    ASSUME AdminInv, NEW q \in Conns, NEW new \in Asks \cup {IdleReq}, Honest(new),
           req' = [req EXCEPT ![q] = new], hooks' = hooks,
           SnapOk(snap'), OutOk(snap', out'), admins' \in Nat, admins' # 0
    PROVE  AdminInv'
<1>1. req' \in [Conns -> Asks \cup {IdleReq}]
  BY DEF AdminInv
<1>2. ASSUME NEW p \in Conns PROVE Honest(req[p])'
  <2>1. req'[p] = IF p = q THEN new ELSE req[p]
    BY DEF AdminInv
  <2>2. Honest(req'[p])
    BY <2>1 DEF AdminInv
  <2> QED  BY <2>2 DEF Honest
<1>3. (SnapOk(snap) /\ OutOk(snap, out))'
  BY DEF SnapOk, OutOk, Snaps, Apart
<1> QED  BY <1>1, <1>2, <1>3 DEF AdminInv

(* A request comes.                                                          *)
LEMMA ArriveSafe ==
    ASSUME AdminInv, NEW q \in Conns, NEW op \in AdminOps, Arrive(q, op)
    PROVE  AdminInv'
<1>1. PICK o \in Outcomes(hooks.obs) :
        req' = [req EXCEPT ![q] =
                    [stage |-> IF Observed(hooks.obs, o) THEN "pre" ELSE "done",
                     op |-> op, stopped |-> FALSE, applied |-> FALSE, status |-> 500]]
  BY DEF Arrive
<1> DEFINE st == IF Observed(hooks.obs, o) THEN "pre" ELSE "done"
           new == [stage |-> st, op |-> op, stopped |-> FALSE, applied |-> FALSE, status |-> 500]
<1>2. req' = [req EXCEPT ![q] = new]
  BY <1>1
<1>3. st \in {"pre", "done"} /\ 500 \in Nat
  OBVIOUS
<1> HIDE DEF st
<1>4. new \in Asks /\ new.stage = st /\ new.op = op /\ new.stopped = FALSE /\ new.applied = FALSE /\ new.status = 500
  BY <1>3 DEF Asks, Works
<1> HIDE DEF new
<1>5. Honest(new)
  BY <1>3, <1>4 DEF Honest
<1>6. admins' = admins + 1 /\ UNCHANGED <<snap, hooks, out>> /\ admins' \in Nat /\ admins' # 0
  BY DEF Arrive, AdminInv
<1>7. SnapOk(snap') /\ OutOk(snap', out')
  BY <1>6 DEF AdminInv
<1> QED  BY <1>2, <1>4, <1>5, <1>6, <1>7, AdminMoves

(* A request on its way is one of Asks, and the process has had requests.   *)
LEMMA OnItsWay ==
    ASSUME AdminInv, NEW q \in Conns, req[q].stage # "idle"
    PROVE  req[q] \in Asks /\ Honest(req[q]) /\ admins # 0 /\ admins \in Nat
BY IdleFacts DEF AdminInv

(* The hooks before a request let it go on, change it or stop it.            *)
LEMMA PreSafe ==
    ASSUME AdminInv, NEW q \in Conns, PreAdmin(q)
    PROVE  AdminInv'
<1> DEFINE r == req[q]
<1>1. r.stage = "pre" /\ UNCHANGED <<snap, hooks, out, admins>>
  BY DEF PreAdmin
<1>2. r \in Asks /\ Honest(r) /\ admins # 0 /\ admins \in Nat
  BY <1>1, OnItsWay
<1>3. r.op \in AdminOps /\ r.stopped = FALSE /\ r.applied = FALSE
  BY <1>1, <1>2 DEF Honest
<1>4. PICK o \in Outcomes(hooks.pre) :
        LET seen == [req EXCEPT ![q].stopped = MustStop(hooks.pre, o)]
            d    == RunHooks(hooks.pre, o)
        IN  CASE d = "allow" -> req' = [seen EXCEPT ![q].stage = "apply"]
              [] d = "patch" -> \E op \in {a \in AdminOps : a.k = req[q].op.k} :
                                   req' = [seen EXCEPT ![q].stage = "apply", ![q].op = op]
              [] OTHER       -> req' = [seen EXCEPT ![q].stage = "done", ![q].status = 403]
  BY DEF PreAdmin
<1> DEFINE must == MustStop(hooks.pre, o)
           d == RunHooks(hooks.pre, o)
           s == [r EXCEPT !.stopped = must]
<1>5. hooks.pre \in Seq(Bindings)
  BY DEF AdminInv, HookSets
<1>6. d \in Answers /\ (d \in {"allow", "patch"} => must = FALSE) /\ must \in BOOLEAN
  <2>1. must \in BOOLEAN
    BY DEF MustStop
  <2> QED  BY <1>5, <2>1, HookFacts
<1> HIDE DEF must, d
<1>7. req \in [Conns -> Asks \cup {IdleReq}] /\ SnapOk(snap') /\ OutOk(snap', out')
  BY <1>1 DEF AdminInv
<1>8. \/ d = "allow" /\ req' = [req EXCEPT ![q] = [s EXCEPT !.stage = "apply"]]
      \/ d = "patch" /\ \E op \in AdminOps : req' = [req EXCEPT ![q] = [s EXCEPT !.stage = "apply", !.op = op]]
      \/ d \notin {"allow", "patch"} /\ req' = [req EXCEPT ![q] = [s EXCEPT !.stage = "done", !.status = 403]]
  <2> DEFINE was == [req EXCEPT ![q].stopped = must]
             seen == [req EXCEPT ![q] = s]
  <2>1. /\ d = "allow" => req' = [was EXCEPT ![q].stage = "apply"]
        /\ d = "patch" => \E op \in AdminOps : req' = [was EXCEPT ![q].stage = "apply", ![q].op = op]
        /\ d # "allow" /\ d # "patch" => req' = [was EXCEPT ![q].stage = "done", ![q].status = 403]
    <3> HIDE DEF was
    <3>1. (CASE d = "allow" -> req' = [was EXCEPT ![q].stage = "apply"]
             [] d = "patch" -> \E op \in {x \in AdminOps : x.k = req[q].op.k} :
                                 req' = [was EXCEPT ![q].stage = "apply", ![q].op = op]
             [] OTHER       -> req' = [was EXCEPT ![q].stage = "done", ![q].status = 403])
      BY <1>4, Zenon DEF d, must, was
    <3> QED  BY <3>1
  <2>2. was = seen
    BY <1>7
  <2>3. s \in Asks
    BY <1>2, <1>6 DEF Asks
  <2>4. seen \in [Conns -> Asks \cup {IdleReq}] /\ seen[q] = s /\ \A x : [seen EXCEPT ![q] = x] = [req EXCEPT ![q] = x]
    BY <1>7, <2>3
  <2> HIDE DEF was, seen, s
  <2>5. [seen EXCEPT ![q].stage = "apply"] = [req EXCEPT ![q] = [s EXCEPT !.stage = "apply"]]
    BY <2>4
  <2>6. \A op \in AdminOps : [seen EXCEPT ![q].stage = "apply", ![q].op = op] = [req EXCEPT ![q] = [s EXCEPT !.stage = "apply", !.op = op]]
    BY <2>4
  <2>7. \A x : [seen EXCEPT ![q].stage = "done", ![q].status = x] = [req EXCEPT ![q] = [s EXCEPT !.stage = "done", !.status = x]]
    BY <2>4
  <2>8. CASE d = "allow"
    BY <2>1, <2>2, <2>5, <2>8
  <2>9. CASE d = "patch"
    <3>1. PICK op \in AdminOps : req' = [seen EXCEPT ![q].stage = "apply", ![q].op = op]
      BY <2>1, <2>2, <2>9, Zenon
    <3>2. req' = [req EXCEPT ![q] = [s EXCEPT !.stage = "apply", !.op = op]]
      BY <2>6, <3>1, Zenon
    <3> QED  BY <2>9, <3>2, Zenon
  <2>10. CASE d # "allow" /\ d # "patch"
    BY <2>1, <2>2, <2>7, <2>10, ZenonT(40)
  <2> QED  BY <2>8, <2>9, <2>10
<1>9. s \in Asks /\ s.stopped = must /\ s.op = r.op /\ s.applied = FALSE
  BY <1>2, <1>3, <1>6 DEF Asks
<1> HIDE DEF s
<1>10. CASE d = "allow" /\ req' = [req EXCEPT ![q] = [s EXCEPT !.stage = "apply"]]
  <2> DEFINE new == [s EXCEPT !.stage = "apply"]
  <2>1. new \in Asks /\ new.stage = "apply" /\ new.op \in AdminOps /\ new.stopped = FALSE /\ new.applied = FALSE
    BY <1>3, <1>6, <1>9, <1>10 DEF Asks, Works
  <2>2. req' = [req EXCEPT ![q] = new]
    BY <1>10
  <2> HIDE DEF new
  <2>3. Honest(new)
    BY <2>1 DEF Honest
  <2> QED  BY <1>1, <1>2, <1>7, <2>1, <2>2, <2>3, AdminMoves
<1>11. CASE d = "patch" /\ \E op \in AdminOps : req' = [req EXCEPT ![q] = [s EXCEPT !.stage = "apply", !.op = op]]
  <2>0. PICK op \in AdminOps : req' = [req EXCEPT ![q] = [s EXCEPT !.stage = "apply", !.op = op]]
    BY <1>11
  <2> DEFINE new == [s EXCEPT !.stage = "apply", !.op = op]
  <2>1. new \in Asks /\ new.stage = "apply" /\ new.op \in AdminOps /\ new.stopped = FALSE /\ new.applied = FALSE
    BY <1>3, <1>6, <1>9, <1>11 DEF Asks, Works
  <2>2. req' = [req EXCEPT ![q] = new]
    BY <2>0
  <2> HIDE DEF new
  <2>3. Honest(new)
    BY <2>1 DEF Honest
  <2> QED  BY <1>1, <1>2, <1>7, <2>1, <2>2, <2>3, AdminMoves
<1>12. CASE d \notin {"allow", "patch"} /\ req' = [req EXCEPT ![q] = [s EXCEPT !.stage = "done", !.status = 403]]
  <2> DEFINE new == [s EXCEPT !.stage = "done", !.status = 403]
  <2>0. 403 \in Nat
    OBVIOUS
  <2>1. new \in Asks /\ new.stage = "done" /\ new.applied = FALSE /\ new.status = 403
    BY <1>9, <2>0, ZenonT(40) DEF Asks, Works
  <2>2. req' = [req EXCEPT ![q] = new]
    BY <1>12
  <2> HIDE DEF new
  <2>3. Honest(new)
    BY <2>1 DEF Honest
  <2> QED  BY <1>1, <1>2, <1>7, <2>1, <2>2, <2>3, AdminMoves
<1> QED  BY <1>8, <1>10, <1>11, <1>12

(* The request changes the snapshot, or is refused.                         *)
LEMMA ApplySafe ==
    ASSUME AdminInv, NEW q \in Conns, ApplyAdmin(q)
    PROVE  AdminInv'
<1> DEFINE r == req[q]
           a == ApplyOp(snap, r.op)
           st == IF a.ok THEN 200 ELSE 400
           new == [r EXCEPT !.stage = "post", !.op = Served, !.applied = a.ok, !.status = st]
<1>1. /\ r.stage = "apply" /\ hooks' = hooks /\ admins' = admins
      /\ snap' = a.snap /\ out' = IF a.ok THEN OutAfter(snap, r.op) ELSE out
  BY DEF ApplyAdmin
<1>2. r \in Asks /\ Honest(r) /\ admins # 0 /\ admins \in Nat
  BY <1>1, OnItsWay
<1>3. r.op \in AdminOps /\ r.stopped = FALSE
  BY <1>1, <1>2 DEF Honest
<1>4. a.ok \in BOOLEAN /\ SnapOk(a.snap) /\ OutOk(a.snap, IF a.ok THEN OutAfter(snap, r.op) ELSE out)
  BY <1>3, ApplySound DEF AdminInv
<1>5. SnapOk(snap') /\ OutOk(snap', out')
  BY <1>1, <1>4
<1>6. req' = [req EXCEPT ![q].stage = "post", ![q].op = Served, ![q].applied = a.ok, ![q].status = st]
  BY DEF ApplyAdmin
<1>7. st \in Nat /\ ((st = 200 /\ a.ok = TRUE) \/ (st = 400 /\ a.ok = FALSE))
  <2>1. 200 \in Nat /\ 400 \in Nat
    OBVIOUS
  <2>2. CASE a.ok = TRUE
    <3>1. st = 200
      BY <2>2, Zenon
    <3> HIDE DEF st, a
    <3> QED  BY <2>1, <2>2, <3>1
  <2>3. CASE a.ok = FALSE
    <3>1. st = 400
      BY <2>3, Zenon
    <3> HIDE DEF st, a
    <3> QED  BY <2>1, <2>3, <3>1
  <2> QED  BY <1>4, <2>2, <2>3
<1> HIDE DEF a, st
<1>8. req' = [req EXCEPT ![q] = new]
  BY <1>6 DEF AdminInv
<1>9. new \in Asks /\ new.stage = "post" /\ new.stopped = FALSE /\ new.applied = a.ok /\ new.status = st
  BY <1>2, <1>3, <1>4, <1>7 DEF Asks, Works
<1> HIDE DEF new
<1>10. Honest(new)
  BY <1>7, <1>9 DEF Honest
<1> QED  BY <1>1, <1>2, <1>5, <1>8, <1>9, <1>10, AdminMoves

(* The hooks after the request can only change the answer.                  *)
LEMMA PostSafe ==
    ASSUME AdminInv, NEW q \in Conns, PostAdmin(q)
    PROVE  AdminInv'
<1> DEFINE r == req[q]
<1>1. r.stage = "post" /\ UNCHANGED <<snap, hooks, out, admins>>
  BY DEF PostAdmin
<1>2. r \in Asks /\ Honest(r) /\ admins # 0 /\ admins \in Nat
  BY <1>1, OnItsWay
<1>3. SnapOk(snap') /\ OutOk(snap', out') /\ hooks.post \in Seq(Bindings)
  BY <1>1 DEF AdminInv, HookSets
<1>4. PICK o \in Outcomes(hooks.post) :
        LET d == RunHooks(hooks.post, o)
        IN  req' = [req EXCEPT ![q].stage = IF d = "error" THEN "done" ELSE "observe",
                               ![q].status = IF d \in {"error", "deny"} THEN 403 ELSE @]
  BY DEF PostAdmin
<1> DEFINE d == RunHooks(hooks.post, o)
           sg == IF d = "error" THEN "done" ELSE "observe"
           st == IF d \in {"error", "deny"} THEN 403 ELSE r.status
           new == [r EXCEPT !.stage = sg, !.status = st]
<1>5. req' = [req EXCEPT ![q].stage = sg, ![q].status = st]
  BY <1>4
<1>6. d \in {"deny", "error"} => hooks.post # << >>
  BY <1>3, HookFacts
<1> HIDE DEF d
<1>7. /\ sg \in {"observe", "done"} /\ st \in Nat
      /\ (st = r.status /\ sg = "observe") \/ (st = 403 /\ hooks.post # << >>)
  <2>1. 403 \in Nat /\ r.status \in Nat
    BY <1>2 DEF Asks
  <2>2. CASE d \in {"error", "deny"}
    <3>1. st = 403
      BY <2>2, Zenon
    <3> HIDE DEF st
    <3> QED  BY <1>6, <2>1, <2>2, <3>1
  <2>3. CASE d \notin {"error", "deny"}
    <3>1. st = r.status
      BY <2>3, Zenon
    <3>2. sg = "observe"
      BY <2>3
    <3> HIDE DEF st
    <3> QED  BY <2>1, <3>1, <3>2
  <2> QED  BY <2>2, <2>3
<1> HIDE DEF sg, st
<1>8. req' = [req EXCEPT ![q] = new]
  BY <1>5 DEF AdminInv
<1>9. new \in Asks /\ new.stage = sg /\ new.stopped = r.stopped /\ new.applied = r.applied /\ new.status = st
  BY <1>2, <1>7 DEF Asks, Works
<1> HIDE DEF new
<1>10. Honest(new)
  BY <1>1, <1>2, <1>7, <1>9 DEF Honest
<1> QED  BY <1>1, <1>2, <1>3, <1>8, <1>9, <1>10, AdminMoves

(* The observer's failure is the answer.                                    *)
LEMMA ObserveSafe ==
    ASSUME AdminInv, NEW q \in Conns, ObserveAdmin(q)
    PROVE  AdminInv'
<1> DEFINE r == req[q]
<1>1. r.stage = "observe" /\ UNCHANGED <<snap, hooks, out, admins>>
  BY DEF ObserveAdmin
<1>2. r \in Asks /\ Honest(r) /\ admins # 0 /\ admins \in Nat
  BY <1>1, OnItsWay
<1>3. SnapOk(snap') /\ OutOk(snap', out')
  BY <1>1 DEF AdminInv
<1>4. PICK o \in Outcomes(hooks.obs) : Done(q, IF Observed(hooks.obs, o) THEN req[q].status ELSE 500)
  BY DEF ObserveAdmin
<1> DEFINE st == IF Observed(hooks.obs, o) THEN r.status ELSE 500
           new == [r EXCEPT !.stage = "done", !.status = st]
<1>5. st \in Nat /\ (st = r.status \/ (st = 500 /\ \E i \in DOMAIN hooks.obs : hooks.obs[i].closed))
  <2>1. 500 \in Nat /\ r.status \in Nat
    BY <1>2 DEF Asks
  <2>2. Observed(hooks.obs, o) \/ \E i \in DOMAIN hooks.obs : hooks.obs[i].closed
    BY DEF Observed
  <2>3. st = r.status \/ (~Observed(hooks.obs, o) /\ st = 500)
    BY Zenon
  <2> HIDE DEF r, st
  <2> QED  BY <2>1, <2>2, <2>3
<1>6. req' = [req EXCEPT ![q] = new]
  BY <1>4 DEF Done
<1> HIDE DEF st
<1>7. new \in Asks /\ new.stage = "done" /\ new.stopped = r.stopped /\ new.applied = r.applied /\ new.status = st
  BY <1>2, <1>5 DEF Asks, Works
<1> HIDE DEF new
<1>8. Honest(new)
  BY <1>1, <1>2, <1>5, <1>7 DEF Honest
<1> QED  BY <1>1, <1>2, <1>3, <1>6, <1>7, <1>8, AdminMoves

(* The answer goes out.                                                      *)
LEMMA ReplySafe ==
    ASSUME AdminInv, NEW q \in Conns, Reply(q)
    PROVE  AdminInv'
<1>1. req[q].stage = "done" /\ UNCHANGED <<snap, hooks, out, admins>> /\ req' = [req EXCEPT ![q] = IdleReq]
  BY DEF Reply
<1>2. admins # 0 /\ admins \in Nat
  BY <1>1, OnItsWay
<1>3. SnapOk(snap') /\ OutOk(snap', out')
  BY <1>1 DEF AdminInv
<1>4. Honest(IdleReq)
  BY IdleFacts DEF Honest
<1> QED  BY <1>1, <1>2, <1>3, <1>4, AdminMoves

(* A process without requests: what holds whatever configuration it has.    *)
LEMMA FreshSafe ==
    ASSUME SnapOk(snap'), hooks' \in HookSets, out' = {}, admins' = 0, req' = [q \in Conns |-> IdleReq]
    PROVE  AdminInv'
<1>1. \A q \in Conns : req'[q] = IdleReq
  OBVIOUS
<1>2. \A q \in Conns : Honest(req[q])'
  BY <1>1, IdleFacts DEF Honest
<1>3. req' \in [Conns -> Asks \cup {IdleReq}]
  OBVIOUS
<1>4. (SnapOk(snap) /\ OutOk(snap, out))'
  BY DEF SnapOk, OutOk, Snaps, Apart
<1> QED  BY <1>1, <1>2, <1>3, <1>4 DEF AdminInv

(* A process without extensions.                                             *)
LEMMA NoHooksFacts == NoHooks \in HookSets
<1>1. << >> \in Seq(Bindings)
  OBVIOUS
<1> QED  BY <1>1 DEF NoHooks, HookSets

(* The first configuration.                                                  *)
LEMMA LoadSafe ==
    ASSUME AdminInv, NEW present \in BOOLEAN, NEW config \in Configs, Load(present, config)
    PROVE  AdminInv'
<1> DEFINE first == FirstConfig(present, config)
<1>1. SnapOk(first.snap)
  <2>1. CASE present
    BY <2>1, EmptySound, ConfigSound DEF FirstConfig
  <2>2. CASE ~present
    BY <2>2, EmptySound DEF FirstConfig, Changed
  <2> QED  BY <2>1, <2>2
<1> HIDE DEF first
<1>2. /\ admins = 0 /\ snap' = first.snap /\ UNCHANGED <<req, out, admins>>
      /\ hooks' = IF present THEN config.hooks ELSE NoHooks
  BY DEF Load, first
<1>3. config.hooks \in HookSets
  BY AdminAssumption DEF HookSets
<1>4. hooks' \in HookSets
  BY <1>2, <1>3, NoHooksFacts
<1>5. out' = {} /\ admins' = 0 /\ req' = [q \in Conns |-> IdleReq]
  BY <1>2 DEF AdminInv
<1> QED  BY <1>1, <1>2, <1>4, <1>5, FreshSafe

(* The process ends.                                                         *)
LEMMA UnloadSafe == AdminInv /\ Unload => AdminInv'
<1> SUFFICES ASSUME Unload PROVE AdminInv'
  OBVIOUS
<1>1. snap' = EmptySnap /\ hooks' = NoHooks /\ out' = {} /\ admins' = 0 /\ req' = [q \in Conns |-> IdleReq]
  BY DEF Unload
<1> QED  BY <1>1, EmptySound, NoHooksFacts, FreshSafe

(* A process starts with an empty snapshot.                                  *)
LEMMA AdminStarts == AdminInit => AdminInv
<1> SUFFICES ASSUME AdminInit PROVE AdminInv
  OBVIOUS
<1>1. snap = EmptySnap /\ hooks = NoHooks /\ out = {} /\ admins = 0 /\ req = [q \in Conns |-> IdleReq]
  BY DEF AdminInit
<1>2. \A q \in Conns : req[q] = IdleReq
  BY <1>1
<1>3. \A q \in Conns : Honest(req[q])
  BY <1>2, IdleFacts DEF Honest
<1>4. req \in [Conns -> Asks \cup {IdleReq}]
  BY <1>1
<1> QED  BY <1>1, <1>2, <1>3, <1>4, EmptySound, NoHooksFacts DEF AdminInv, OutOk

(* Every step keeps the snapshot sound and every request honest.             *)
LEMMA AdminSteps == AdminInv /\ [AdminNext]_adminVars => AdminInv'
<1> SUFFICES ASSUME AdminInv, [AdminNext]_adminVars PROVE AdminInv'
  OBVIOUS
<1>1. ASSUME NEW present \in BOOLEAN, NEW config \in Configs, Load(present, config) PROVE AdminInv'
  BY <1>1, LoadSafe
<1>2. CASE Unload
  BY <1>2, UnloadSafe
<1>3. ASSUME NEW q \in Conns, Admin(q) PROVE AdminInv'
  <2>1. ASSUME NEW op \in AdminOps, Arrive(q, op) PROVE AdminInv'
    BY <2>1, ArriveSafe
  <2>2. CASE PreAdmin(q)
    BY <2>2, PreSafe
  <2>3. CASE ApplyAdmin(q)
    BY <2>3, ApplySafe
  <2>4. CASE PostAdmin(q)
    BY <2>4, PostSafe
  <2>5. CASE ObserveAdmin(q)
    BY <2>5, ObserveSafe
  <2>6. CASE Reply(q)
    BY <2>6, ReplySafe
  <2> QED  BY <1>3, <2>1, <2>2, <2>3, <2>4, <2>5, <2>6 DEF Admin
<1>4. CASE UNCHANGED adminVars
  <2>1. UNCHANGED <<snap, hooks, req, out, admins>>
    BY <1>4 DEF adminVars
  <2> QED  BY <2>1 DEF AdminInv, SnapOk, OutOk, Snaps, Apart, Honest
<1> QED  BY <1>1, <1>2, <1>3, <1>4 DEF AdminNext

-----------------------------------------------------------------------------
(* An operator is told the truth: 200 only of a request that was carried    *)
(* out, 400 only of one that was not, and one that an extension had to stop *)
(* beforehand is refused without effect (handle_generic_admin_request,      *)
(* BoundControlHook::run), for any number of connections and any bindings.  *)
THEOREM AdminHonest == AdminSpec => []AdminTruth
<1>1. AdminInv => AdminTruth
  <2> SUFFICES ASSUME AdminInv, NEW q \in Conns, req[q].stage = "done"
               PROVE  /\ req[q].status = 200 => req[q].applied
                      /\ req[q].status = 400 => ~req[q].applied
                      /\ req[q].stopped => ~req[q].applied /\ req[q].status = 403
                      /\ req[q].status \in {403, 500} /\ req[q].applied =>
                            hooks.post # << >> \/ \E i \in DOMAIN hooks.obs : hooks.obs[i].closed
    BY DEF AdminTruth
  <2> DEFINE r == req[q]
  <2>1. r \in Asks /\ Honest(r)
    BY OnItsWay
  <2>2. r.stopped \in BOOLEAN /\ r.applied \in BOOLEAN
    BY <2>1 DEF Asks
  <2>3. /\ r.status = 200 => r.applied = TRUE
        /\ r.status = 400 => r.applied = FALSE
        /\ r.stopped = TRUE => r.applied = FALSE /\ r.status = 403
        /\ r.status \in {403, 500} /\ r.applied = TRUE =>
              hooks.post # << >> \/ \E i \in DOMAIN hooks.obs : hooks.obs[i].closed
    BY <2>1 DEF Honest
  <2> HIDE DEF r
  <2>4. /\ r.status = 200 => r.applied
        /\ r.status = 400 => ~r.applied
        /\ r.stopped => ~r.applied /\ r.status = 403
        /\ r.status \in {403, 500} /\ r.applied =>
              hooks.post # << >> \/ \E i \in DOMAIN hooks.obs : hooks.obs[i].closed
    BY <2>2, <2>3
  <2> QED  BY <2>4 DEF r
<1> QED  BY <1>1, AdminStarts, AdminSteps, PTL DEF AdminSpec

(* A drained or deactivated revision is not selected again until a runtime  *)
(* configuration is applied, however staging, warming and traffic requests  *)
(* interleave (drain, deactivate, warm, set_traffic, select_revision).      *)
THEOREM DrainedOut == AdminSpec => []DrainedStaysOut
<1>1. AdminInv => DrainedStaysOut
  <2> SUFFICES ASSUME AdminInv, NEW x \in out, NEW s \in 0 .. (Full - 1)
               PROVE  SelectRevision(snap, x[1], s) # x[2]
    BY DEF DrainedStaysOut
  <2> DEFINE d == x[1]
             revs == snap.deps[d].revs
  <2>1. d \in Deps /\ x[2] \in RevNos /\ KeptOut(snap, d, x[2]) /\ SnapOk(snap)
    BY DEF AdminInv, OutOk
  <2>2. x[2] # 0
    BY <2>1 DEF RevNos
  <2>3. \/ SelectRevision(snap, d, s) = 0
        \/ \E i \in Selectable(revs) : SelectRevision(snap, d, s) = revs[i].id
    BY <2>1, SelectsReady
  <2>4. \A i \in Selectable(revs) : i \in DOMAIN revs /\ revs[i].life = "ready"
    BY DEF Selectable
  <2>5. \A i \in DOMAIN revs : revs[i].id = x[2] => revs[i].life \in {"draining", "inactive"}
    BY <2>1 DEF KeptOut, OutOfService
  <2> QED  BY <2>2, <2>3, <2>4, <2>5
<1> QED  BY <1>1, AdminStarts, AdminSteps, PTL DEF AdminSpec

(* In a full round of the selector every revision in service gets exactly   *)
(* its weight, for any weights, any deployments and any order of requests   *)
(* (select_revision, set_traffic, apply_runtime_config).                    *)
THEOREM SharesKept == AdminSpec => []SnapshotSound
<1>1. AdminInv => SnapshotSound
  <2> SUFFICES ASSUME AdminInv, NEW d \in Deps
               PROVE  LET revs  == snap.deps[d].revs
                          total == Sums(Shares(revs))[Len(revs)]
                          Got(r) == Cardinality({s \in 0..(total - 1) : SelectRevision(snap, d, s) = r.id})
                      IN  /\ NoRepeat(revs) /\ SumOf(revs) <= Full
                          /\ \A i \in DOMAIN revs :
                                Got(revs[i]) = IF revs[i].life = "ready" THEN revs[i].w ELSE 0
                          /\ \A s, t \in Surfaces : snap.surf[s] = snap.surf[t] => s = t \/ snap.surf[s] = NoPath
    BY DEF SnapshotSound
  <2>1. SnapOk(snap)
    BY DEF AdminInv
  <2>2. NoRepeat(snap.deps[d].revs) /\ SumOf(snap.deps[d].revs) <= Full
    BY <2>1 DEF SnapOk, InBounds
  <2>3. \A s, t \in Surfaces : snap.surf[s] = snap.surf[t] => s = t \/ snap.surf[s] = NoPath
    BY <2>1, Zenon DEF SnapOk, Apart
  <2>4. \A i \in DOMAIN snap.deps[d].revs :
          LET revs == snap.deps[d].revs
              total == Sums(Shares(revs))[Len(revs)]
          IN  Cardinality({s \in 0 .. (total - 1) : SelectRevision(snap, d, s) = revs[i].id})
                = IF revs[i].life = "ready" THEN revs[i].w ELSE 0
    BY <2>1, SharesExact
  <2> QED  BY <2>2, <2>3, <2>4
<1> QED  BY <1>1, AdminStarts, AdminSteps, PTL DEF AdminSpec

-----------------------------------------------------------------------------
(* The paths of an ontology.                                                *)

(* Chains of n relationships with no concept twice that meet the target at  *)
(* their end or not at all.                                                 *)
SimpleWalks(edges, from, target, n) ==
    {p \in [1 .. n -> edges] :
        /\ n # 0 => p[1].from = from
        /\ \A i \in 1 .. (n - 1) : p[i].to = p[i + 1].from /\ p[i].to # target
        /\ \A i \in 1 .. n : p[i].to # from
        /\ \A i, j \in 1 .. n : i < j => p[i].to # p[j].to}

(* A chain with a relationship more, and a chain with one less.             *)
With(p, e) == Append(p, e)

LEMMA Appended ==
    ASSUME NEW edges, NEW n \in Nat, NEW p \in [1 .. n -> edges], NEW e \in edges
    PROVE  /\ With(p, e) \in [1 .. (n + 1) -> edges] /\ With(p, e)[n + 1] = e
           /\ \A i \in 1 .. n : With(p, e)[i] = p[i]
           /\ Len(p) = n /\ DOMAIN p = 1 .. n
<1>1. p \in Seq(edges) /\ Len(p) = n /\ DOMAIN p = 1 .. n
  OBVIOUS
<1> DEFINE q == With(p, e)
<1>2. q \in Seq(edges) /\ Len(q) = Len(p) + 1
  BY <1>1 DEF With
<1>3. q[Len(p) + 1] = e /\ \A i \in 1 .. Len(p) : q[i] = p[i]
  BY <1>1 DEF With
<1> HIDE DEF q
<1>4. Len(q) = n + 1 /\ q \in [1 .. (n + 1) -> edges]
  BY <1>1, <1>2
<1>5. q[n + 1] = e /\ \A i \in 1 .. n : q[i] = p[i]
  BY <1>1, <1>3
<1> QED  BY <1>1, <1>4, <1>5 DEF q

LEMMA Shortened ==
    ASSUME NEW edges, NEW n \in Nat, NEW q \in [1 .. (n + 1) -> edges]
    PROVE  \E p \in [1 .. n -> edges] : q = With(p, q[n + 1])
<1> DEFINE p == [i \in 1 .. n |-> q[i]]
           e == q[n + 1]
           r == With(p, e)
<1>1. p \in [1 .. n -> edges] /\ \A i \in 1 .. n : q[i] = p[i]
  OBVIOUS
<1>2. e \in edges
  OBVIOUS
<1> HIDE DEF p
<1>3. r \in [1 .. (n + 1) -> edges] /\ r[n + 1] = q[n + 1] /\ \A i \in 1 .. n : r[i] = p[i]
  <2> HIDE DEF e
  <2>1. /\ With(p, e) \in [1 .. (n + 1) -> edges] /\ With(p, e)[n + 1] = e
        /\ \A i \in 1 .. n : With(p, e)[i] = p[i]
        /\ Len(p) = n /\ DOMAIN p = 1 .. n
    BY <1>1, <1>2, Appended
  <2> QED  BY <2>1 DEF e
<1>4. \A i \in 1 .. (n + 1) : q[i] = r[i]
  BY <1>1, <1>3
<1> HIDE DEF r
<1>5. q = r
  BY <1>3, <1>4
<1> QED  BY <1>1, <1>5 DEF r

LEMMA ExtendedSimple ==
    ASSUME NEW edges, NEW from, NEW target, NEW n \in Nat
    PROVE  Extended(edges, from, target, SimpleWalks(edges, from, target, n))
             = SimpleWalks(edges, from, target, n + 1)
<1> DEFINE S == SimpleWalks(edges, from, target, n)
           T == SimpleWalks(edges, from, target, n + 1)
<1>1. ASSUME NEW p \in [1 .. n -> edges], NEW e \in edges
      PROVE  With(p, e) \in T <=>
                /\ p \in S
                /\ p = << >> \/ PathEnd(from, p) # target
                /\ e.from = PathEnd(from, p)
                /\ e.to \notin Visited(from, p)
  <2> DEFINE q == With(p, e)
  <2>1. /\ q \in [1 .. (n + 1) -> edges] /\ q[n + 1] = e /\ \A i \in 1 .. n : q[i] = p[i]
        /\ Len(p) = n /\ DOMAIN p = 1 .. n
    BY Appended
  <2> HIDE DEF q
  <2>2. p = << >> <=> n = 0
    BY <2>1
  <2>3. e.to \notin Visited(from, p) <=> e.to # from /\ \A i \in 1 .. n : p[i].to # e.to
    BY <2>1 DEF Visited
  <2>4. PathEnd(from, p) = IF n = 0 THEN from ELSE p[n].to
    BY <2>1, <2>2 DEF PathEnd
  <2>5. p \in S <=>
          /\ n # 0 => p[1].from = from
          /\ \A i \in 1 .. (n - 1) : p[i].to = p[i + 1].from /\ p[i].to # target
          /\ \A i \in 1 .. n : p[i].to # from
          /\ \A i, j \in 1 .. n : i < j => p[i].to # p[j].to
    BY DEF SimpleWalks
  <2>6. q \in T <=>
          /\ q[1].from = from
          /\ \A i \in 1 .. n : q[i].to = q[i + 1].from /\ q[i].to # target
          /\ \A i \in 1 .. (n + 1) : q[i].to # from
          /\ \A i, j \in 1 .. (n + 1) : i < j => q[i].to # q[j].to
    BY <2>1 DEF SimpleWalks
  <2>7. CASE n = 0
    BY <2>1, <2>2, <2>3, <2>4, <2>5, <2>6, <2>7 DEF q
  <2>8. CASE n # 0
    <3>1. n \in 1 .. n /\ 1 \in 1 .. n /\ q[1] = p[1] /\ q[n] = p[n]
      BY <2>1, <2>8
    <3>2. (\A i \in 1 .. n : q[i].to = q[i + 1].from /\ q[i].to # target) <=>
            /\ \A i \in 1 .. (n - 1) : p[i].to = p[i + 1].from /\ p[i].to # target
            /\ p[n].to = e.from /\ p[n].to # target
      <4>1. \A i \in 1 .. (n - 1) : i \in 1 .. n /\ i + 1 \in 1 .. n
        OBVIOUS
      <4>2. \A i \in 1 .. n : i \in 1 .. (n - 1) \/ (i = n /\ i + 1 = n + 1)
        OBVIOUS
      <4> QED  BY <2>1, <3>1, <4>1, <4>2
    <3>3. (\A i \in 1 .. (n + 1) : q[i].to # from) <=> e.to # from /\ \A i \in 1 .. n : p[i].to # from
      BY <2>1
    <3>4. (\A i, j \in 1 .. (n + 1) : i < j => q[i].to # q[j].to) <=>
            /\ \A i, j \in 1 .. n : i < j => p[i].to # p[j].to
            /\ \A i \in 1 .. n : p[i].to # e.to
      BY <2>1
    <3> QED  BY <2>2, <2>3, <2>4, <2>5, <2>6, <2>8, <3>1, <3>2, <3>3, <3>4 DEF q
  <2> QED  BY <2>7, <2>8
<1>2. S \subseteq [1 .. n -> edges] /\ T \subseteq [1 .. (n + 1) -> edges]
  BY DEF SimpleWalks
<1> HIDE DEF S, T
<1>3. ASSUME NEW q \in Extended(edges, from, target, S) PROVE q \in T
  <2>1. PICK pe \in S \X edges :
            /\ q = With(pe[1], pe[2])
            /\ pe[1] = << >> \/ PathEnd(from, pe[1]) # target
            /\ pe[2].from = PathEnd(from, pe[1]) /\ pe[2].to \notin Visited(from, pe[1])
    BY Zenon DEF Extended, With
  <2>2. pe[1] \in S /\ pe[1] \in [1 .. n -> edges] /\ pe[2] \in edges
    BY <1>2
  <2> QED  BY <1>1, <2>1, <2>2, Zenon
<1>4. ASSUME NEW q \in T PROVE q \in Extended(edges, from, target, S)
  <2>1. q \in [1 .. (n + 1) -> edges] /\ q[n + 1] \in edges
    BY <1>2
  <2>2. PICK p \in [1 .. n -> edges] : q = With(p, q[n + 1])
    BY <2>1, Shortened
  <2> DEFINE e == q[n + 1]
  <2>3. e \in edges /\ q = With(p, e)
    BY <2>1, <2>2
  <2> HIDE DEF e
  <2>4. /\ p \in S
        /\ p = << >> \/ PathEnd(from, p) # target
        /\ e.from = PathEnd(from, p)
        /\ e.to \notin Visited(from, p)
    BY <1>1, <2>3, Zenon
  <2>5. <<p, e>> \in S \X edges /\ <<p, e>>[1] = p /\ <<p, e>>[2] = e
    BY <2>3, <2>4
  <2> QED  BY <2>3, <2>4, <2>5, Zenon DEF Extended, With
<1> QED  BY <1>3, <1>4 DEF S, T

LEMMA WalksAre ==
    ASSUME NEW edges, NEW from, NEW target, NEW depth \in Nat
    PROVE  \A n \in 0 .. depth : Walks(edges, from, target, depth)[n] = SimpleWalks(edges, from, target, n)
<1> DEFINE D == SUBSET UNION {[1 .. n -> edges] : n \in 0 .. depth}
           Body(walks) == [n \in 0 .. depth |->
                IF n = 0 THEN {<< >>} ELSE Extended(edges, from, target, walks[n - 1])]
           walks == Walks(edges, from, target, depth)
           simple == [n \in 0 .. depth |-> SimpleWalks(edges, from, target, n)]
<1>1. SimpleWalks(edges, from, target, 0) = {<< >>}
  <2>1. \A p : p \in [1 .. 0 -> edges] <=> p = << >>
    <3>1. << >> \in [1 .. 0 -> edges]
      OBVIOUS
    <3>2. ASSUME NEW p \in [1 .. 0 -> edges] PROVE p = << >>
      <4>1. p \in Seq(edges) /\ Len(p) = 0
        OBVIOUS
      <4> QED  BY <4>1
    <3> QED  BY <3>1, <3>2
  <2>2. \A p : p \in SimpleWalks(edges, from, target, 0) <=> p \in [1 .. 0 -> edges]
    BY DEF SimpleWalks
  <2> QED  BY <2>1, <2>2
<1>2. simple = Body(simple)
  <2>1. ASSUME NEW n \in 0 .. depth, n # 0
        PROVE  SimpleWalks(edges, from, target, n) = Extended(edges, from, target, simple[n - 1])
    <3>1. n \in Nat \ {0} /\ n - 1 \in 0 .. depth
      BY <2>1
    <3>2. simple[n - 1] = SimpleWalks(edges, from, target, n - 1)
      BY <3>1
    <3>3. n - 1 \in Nat /\ (n - 1) + 1 = n
      BY <3>1
    <3>4. SimpleWalks(edges, from, target, (n - 1) + 1)
            = Extended(edges, from, target, SimpleWalks(edges, from, target, n - 1))
      BY <3>3, ExtendedSimple, Zenon
    <3> QED  BY <3>2, <3>3, <3>4, Zenon
  <2> QED  BY <1>1, <2>1
<1>3. walks = CHOOSE g : g = Body(g)
  BY DEF Walks
<1>4. walks = Body(walks)
  BY <1>2, <1>3, Zenon
<1> HIDE DEF walks
<1>5. walks[0] = {<< >>} /\ \A n \in 1 .. depth : walks[n] = Extended(edges, from, target, walks[n - 1])
  <2>1. \A n \in 0 .. depth :
            walks[n] = IF n = 0 THEN {<< >>} ELSE Extended(edges, from, target, walks[n - 1])
    BY <1>4, Zenon
  <2> QED  BY <2>1
<1> DEFINE S == {n \in 0 .. depth : walks[n] = SimpleWalks(edges, from, target, n)}
<1>6. 0 \in S
  <2>1. 0 \in 0 .. depth
    OBVIOUS
  <2> QED  BY <1>1, <1>5, <2>1, Zenon
<1>7. ASSUME NEW m \in 1 .. depth, m - 1 \in S PROVE m \in S
  <2>1. walks[m] = Extended(edges, from, target, SimpleWalks(edges, from, target, m - 1))
    BY <1>5, <1>7
  <2>2. m - 1 \in Nat /\ (m - 1) + 1 = m
    OBVIOUS
  <2>3. SimpleWalks(edges, from, target, (m - 1) + 1)
          = Extended(edges, from, target, SimpleWalks(edges, from, target, m - 1))
    BY <2>2, ExtendedSimple, Zenon
  <2>4. m \in 0 .. depth
    OBVIOUS
  <2> QED  BY <2>1, <2>2, <2>3, <2>4, Zenon
<1> HIDE DEF S
<1>8. 0 .. depth \subseteq S
  BY <1>6, <1>7, UpTo
<1> QED  BY <1>8 DEF S, walks

LEMMA PathsExact ==
    ASSUME NEW o, NEW from, NEW to, NEW depth \in Nat
    PROVE  FindTypePaths(o, from, to, depth) = RefPaths(o, from, to, depth)
<1> DEFINE edges == Edges(o)
<1>1. \A n \in 1 .. depth : Walks(edges, from, to, depth)[n] = SimpleWalks(edges, from, to, n)
  BY WalksAre
<1> HIDE DEF edges
<1>2. ASSUME NEW n \in 1 .. depth, NEW p \in [1 .. n -> edges]
      PROVE  p \in SimpleWalks(edges, from, to, n) /\ PathEnd(from, p) = to <=>
                /\ p[1].from = from /\ p[Len(p)].to = to
                /\ \A i \in 1 .. (Len(p) - 1) : p[i].to = p[i + 1].from
                /\ \A i, j \in 1 .. Len(p) : (i < j => p[i].to # p[j].to) /\ p[i].to # from
  <2>1. Len(p) = n /\ p # << >> /\ n \in 1 .. n /\ n # 0
    OBVIOUS
  <2>2. PathEnd(from, p) = p[n].to
    BY <2>1 DEF PathEnd
  <2>3. \A i \in 1 .. (n - 1) : i \in 1 .. n /\ i < n
    OBVIOUS
  <2> QED  BY <2>1, <2>2, <2>3 DEF SimpleWalks
<1>3. \A n : SimpleWalks(edges, from, to, n) \subseteq [1 .. n -> edges]
  BY DEF SimpleWalks
<1>4. FindTypePaths(o, from, to, depth) =
        {p \in UNION {SimpleWalks(edges, from, to, n) : n \in 1 .. depth} : PathEnd(from, p) = to}
  BY <1>1 DEF FindTypePaths, edges
<1>5. ASSUME NEW p PROVE p \in FindTypePaths(o, from, to, depth) <=> p \in RefPaths(o, from, to, depth)
  <2>1. p \in FindTypePaths(o, from, to, depth) <=>
            \E n \in 1 .. depth : p \in [1 .. n -> edges] /\ p \in SimpleWalks(edges, from, to, n) /\ PathEnd(from, p) = to
    BY <1>3, <1>4
  <2>2. p \in RefPaths(o, from, to, depth) <=>
            \E n \in 1 .. depth :
                /\ p \in [1 .. n -> edges]
                /\ p[1].from = from /\ p[Len(p)].to = to
                /\ \A i \in 1 .. (Len(p) - 1) : p[i].to = p[i + 1].from
                /\ \A i, j \in 1 .. Len(p) : (i < j => p[i].to # p[j].to) /\ p[i].to # from
    BY DEF RefPaths, edges
  <2> QED  BY <1>2, <2>1, <2>2, Zenon
<1> QED  BY <1>5, Zenon
-----------------------------------------------------------------------------
(* The neighbours of a concept.                                             *)

Joins(edges, a, b) == \E e \in edges : {a, b} = {e.from, e.to}

(* Chains of concepts from one of them, of n relationships or fewer, and    *)
(* where they end.                                                          *)
Chains(concepts, edges, from, n) ==
    {w \in UNION {[1 .. k -> concepts] : k \in 1 .. (n + 1)} :
        w[1] = from /\ \A i \in 1 .. (Len(w) - 1) : Joins(edges, w[i], w[i + 1])}
Reached(concepts, edges, from, n) == {w[Len(w)] : w \in Chains(concepts, edges, from, n)}

(* A chain of k concepts to c.                                              *)
ChainTo(concepts, edges, from, k, c) ==
    \E w \in [1 .. k -> concepts] :
        /\ w[1] = from /\ w[k] = c
        /\ \A i \in 1 .. (k - 1) : Joins(edges, w[i], w[i + 1])

LEMMA ReachedIs ==
    ASSUME NEW concepts, NEW edges, NEW from, NEW n \in Nat, NEW c
    PROVE  c \in Reached(concepts, edges, from, n)
             <=> \E k \in 1 .. (n + 1) : ChainTo(concepts, edges, from, k, c)
<1>1. \A k \in 1 .. (n + 1) : \A w \in [1 .. k -> concepts] : Len(w) = k
  OBVIOUS
<1>2. c \in Reached(concepts, edges, from, n) <=>
        \E w \in UNION {[1 .. k -> concepts] : k \in 1 .. (n + 1)} :
            /\ c = w[Len(w)] /\ w[1] = from
            /\ \A i \in 1 .. (Len(w) - 1) : Joins(edges, w[i], w[i + 1])
  BY Zenon DEF Reached, Chains
<1>3. c \in Reached(concepts, edges, from, n) <=>
        \E k \in 1 .. (n + 1) : \E w \in [1 .. k -> concepts] :
            /\ c = w[Len(w)] /\ w[1] = from
            /\ \A i \in 1 .. (Len(w) - 1) : Joins(edges, w[i], w[i + 1])
  BY <1>2, Zenon
<1>4. ASSUME NEW k \in 1 .. (n + 1), NEW w \in [1 .. k -> concepts]
      PROVE  (/\ c = w[Len(w)] /\ w[1] = from
              /\ \A i \in 1 .. (Len(w) - 1) : Joins(edges, w[i], w[i + 1]))
             <=> (/\ w[1] = from /\ w[k] = c
                  /\ \A i \in 1 .. (k - 1) : Joins(edges, w[i], w[i + 1]))
  BY <1>1
<1> QED  BY <1>3, <1>4, Zenon DEF ChainTo

LEMMA ReachedFirst ==
    ASSUME NEW concepts, NEW edges, NEW from \in concepts
    PROVE  Reached(concepts, edges, from, 0) = {from}
<1>1. ASSUME NEW c \in Reached(concepts, edges, from, 0) PROVE c = from
  <2>1. PICK k \in 1 .. (0 + 1) : ChainTo(concepts, edges, from, k, c)
    BY ReachedIs
  <2>2. ChainTo(concepts, edges, from, 1, c)
    BY <2>1
  <2> QED  BY <2>2, Zenon DEF ChainTo
<1>2. from \in Reached(concepts, edges, from, 0)
  <2> DEFINE w == [i \in 1 .. 1 |-> from]
  <2>1. w \in [1 .. 1 -> concepts] /\ w[1] = from
    OBVIOUS
  <2>2. 1 \in 1 .. (0 + 1) /\ \A i \in 1 .. (1 - 1) : FALSE
    OBVIOUS
  <2> HIDE DEF w
  <2>3. ChainTo(concepts, edges, from, 1, from)
    BY <2>1, <2>2, Zenon DEF ChainTo
  <2> QED  BY <2>2, <2>3, ReachedIs
<1> QED  BY <1>1, <1>2

Fitting(concepts, edges) == \A e \in edges : e.from \in concepts /\ e.to \in concepts

LEMMA ReachedMore ==
    ASSUME NEW concepts, NEW edges, NEW from, NEW n \in Nat
    PROVE  Reached(concepts, edges, from, n) \subseteq Reached(concepts, edges, from, n + 1)
<1> SUFFICES ASSUME NEW c \in Reached(concepts, edges, from, n)
             PROVE  c \in Reached(concepts, edges, from, n + 1)
  OBVIOUS
<1>1. PICK k \in 1 .. (n + 1) : ChainTo(concepts, edges, from, k, c)
  BY ReachedIs
<1>2. k \in 1 .. ((n + 1) + 1) /\ n + 1 \in Nat
  OBVIOUS
<1> QED  BY <1>1, <1>2, ReachedIs

LEMMA ReachedStep ==
    ASSUME NEW concepts, NEW edges, NEW from \in concepts, NEW n \in Nat, Fitting(concepts, edges)
    PROVE  Reached(concepts, edges, from, n + 1)
             = Reached(concepts, edges, from, n) \cup Touched(edges, Reached(concepts, edges, from, n))
<1> DEFINE R == Reached(concepts, edges, from, n)
           Q == Reached(concepts, edges, from, n + 1)
<1>1. ASSUME NEW c \in Q, c \notin R PROVE c \in Touched(edges, R)
  <2>1. n + 1 \in Nat
    OBVIOUS
  <2>0. PICK k \in 1 .. ((n + 1) + 1) : ChainTo(concepts, edges, from, k, c)
    BY <2>1, ReachedIs
  <2>2. PICK w \in [1 .. k -> concepts] :
            /\ w[1] = from /\ w[k] = c
            /\ \A i \in 1 .. (k - 1) : Joins(edges, w[i], w[i + 1])
    BY <2>0, Zenon DEF ChainTo
  <2>3. k \notin 1 .. (n + 1)
    BY <1>1, <2>0, ReachedIs
  <2>4. k = n + 2 /\ n + 1 \in 1 .. (n + 1) /\ k - 1 = n + 1 /\ (n + 1) + 1 = k
    BY <2>3
  <2> DEFINE v == [i \in 1 .. (n + 1) |-> w[i]]
             a == w[n + 1]
  <2>5. /\ v \in [1 .. (n + 1) -> concepts] /\ v[1] = from /\ v[n + 1] = a
        /\ \A i \in 1 .. ((n + 1) - 1) : v[i] = w[i] /\ v[i + 1] = w[i + 1] /\ i \in 1 .. (k - 1)
    BY <2>2, <2>4
  <2>6. \A i \in 1 .. ((n + 1) - 1) : Joins(edges, v[i], v[i + 1])
    BY <2>2, <2>5, Zenon
  <2>7. Joins(edges, a, c)
    <3>1. Joins(edges, w[n + 1], w[(n + 1) + 1])
      BY <2>2, <2>4, Zenon
    <3> QED  BY <2>2, <2>4, <3>1, Zenon
  <2> HIDE DEF v, a
  <2>8. a \in R
    <3>1. ChainTo(concepts, edges, from, n + 1, a)
      BY <2>5, <2>6, Zenon DEF ChainTo
    <3> QED  BY <2>4, <3>1, ReachedIs
  <2>9. PICK e \in edges : {a, c} = {e.from, e.to}
    BY <2>7 DEF Joins
  <2> HIDE DEF R
  <2>10. e \in Touching(edges, R) /\ c \in {e.from, e.to}
    BY <2>8, <2>9 DEF Touching
  <2> QED  BY <2>10, Zenon DEF Touched
<1>2. R \subseteq Q
  BY ReachedMore
<1>3. ASSUME NEW c \in Touched(edges, R) PROVE c \in Q
  <2>1. PICK e \in Touching(edges, R) : c \in {e.from, e.to}
    BY Zenon DEF Touched
  <2>2. e \in edges /\ \E a \in R : a \in {e.from, e.to}
    <3> HIDE DEF R
    <3> QED  BY <2>1 DEF Touching
  <2>3. PICK a \in R : a \in {e.from, e.to}
    BY <2>2
  <2>4. CASE c = a
    BY <1>2, <2>4
  <2>5. CASE c # a
    <3>1. {a, c} = {e.from, e.to} /\ c \in concepts
      BY <2>1, <2>2, <2>3, <2>5 DEF Fitting
    <3>2. Joins(edges, a, c)
      BY <2>2, <3>1, Zenon DEF Joins
    <3>0. PICK k \in 1 .. (n + 1) : ChainTo(concepts, edges, from, k, a)
      BY <2>3, ReachedIs
    <3>3. PICK w \in [1 .. k -> concepts] :
                /\ w[1] = from /\ w[k] = a
                /\ \A i \in 1 .. (k - 1) : Joins(edges, w[i], w[i + 1])
      BY <3>0, Zenon DEF ChainTo
    <3> DEFINE v == [i \in 1 .. (k + 1) |-> IF i = k + 1 THEN c ELSE w[i]]
    <3>4. /\ v \in [1 .. (k + 1) -> concepts] /\ v[1] = from /\ v[k + 1] = c
          /\ \A i \in 1 .. k : v[i] = w[i]
      BY <3>1, <3>3
    <3> HIDE DEF v
    <3>5. ASSUME NEW i \in 1 .. ((k + 1) - 1) PROVE Joins(edges, v[i], v[i + 1])
      <4>1. CASE i = k
        <5>1. v[i] = a /\ v[i + 1] = c
          BY <3>3, <3>4, <4>1
        <5> QED  BY <3>2, <5>1, Zenon
      <4>2. CASE i # k
        <5>1. i \in 1 .. (k - 1) /\ v[i] = w[i] /\ v[i + 1] = w[i + 1]
          BY <3>4, <4>2
        <5> QED  BY <3>3, <5>1, Zenon
      <4> QED  BY <4>1, <4>2
    <3>6. k + 1 \in 1 .. ((n + 1) + 1) /\ n + 1 \in Nat
      OBVIOUS
    <3>7. ChainTo(concepts, edges, from, k + 1, c)
      BY <3>4, <3>5, Zenon DEF ChainTo
    <3> QED  BY <3>6, <3>7, ReachedIs
  <2> QED  BY <2>4, <2>5
<1> HIDE DEF R, Q
<1>4. Q = R \cup Touched(edges, R)
  BY <1>1, <1>2, <1>3
<1> QED  BY <1>4 DEF R, Q
(* What the rounds have seen is what is reached, and what is new in one is  *)
(* what was not reached before.                                             *)
LEMMA RoundsAre ==
    ASSUME NEW concepts, NEW edges, NEW from \in concepts, Fitting(concepts, edges), NEW depth \in Nat
    PROVE  \A n \in 0 .. depth : Rounds(edges, from, depth)[n] =
                [seen |-> Reached(concepts, edges, from, n),
                 new  |-> IF n = 0 THEN {from}
                          ELSE Reached(concepts, edges, from, n) \ Reached(concepts, edges, from, n - 1)]
<1> DEFINE R(n) == Reached(concepts, edges, from, n)
           New(n) == IF n = 0 THEN {from} ELSE R(n) \ R(n - 1)
           Step(last) == LET next == Touched(edges, last.new)
                         IN  [seen |-> last.seen \cup next, new |-> next \ last.seen]
           Body(f) == [n \in 0 .. depth |-> IF n = 0 THEN [seen |-> {from}, new |-> {from}]
                                            ELSE Step(f[n - 1])]
           Is(n) == [seen |-> R(n), new |-> New(n)]
           all == [n \in 0 .. depth |-> Is(n)]
           rounds == Rounds(edges, from, depth)
<1>1. R(0) = {from}
  BY ReachedFirst
<1>2. \A n \in Nat : R(n + 1) = R(n) \cup Touched(edges, R(n))
  BY ReachedStep
<1>3. \A A, B : Touched(edges, A \cup B) = Touched(edges, A) \cup Touched(edges, B)
  <2>1. \A A, B : Touching(edges, A \cup B) = Touching(edges, A) \cup Touching(edges, B)
    BY DEF Touching
  <2> QED  BY <2>1 DEF Touched
<1>4. ASSUME NEW n \in Nat PROVE Step(Is(n)) = Is(n + 1)
  <2> HIDE DEF R
  <2>1. Is(n).seen = R(n) /\ Is(n).new = New(n) /\ n + 1 # 0 /\ (n + 1) - 1 = n
    OBVIOUS
  <2>2. R(n) \cup Touched(edges, New(n)) = R(n + 1)
    <3>1. CASE n = 0
      <4>1. New(n) = R(n)
        BY <1>1, <3>1
      <4> QED  BY <1>2, <4>1
    <3>2. CASE n # 0
      <4>1. n - 1 \in Nat /\ (n - 1) + 1 = n
        BY <3>2
      <4>2. R(n) = R(n - 1) \cup Touched(edges, R(n - 1))
        BY <1>2, <4>1
      <4>3. New(n) = R(n) \ R(n - 1)
        BY <3>2
      <4>4. R(n) = R(n - 1) \cup New(n)
        <5> HIDE DEF New
        <5> QED  BY <4>2, <4>3
      <4>5. Touched(edges, R(n)) = Touched(edges, R(n - 1)) \cup Touched(edges, New(n))
        <5> DEFINE A == R(n - 1)
                   B == New(n)
        <5> HIDE DEF A, B
        <5>1. Touched(edges, A \cup B) = Touched(edges, A) \cup Touched(edges, B)
          BY <1>3
        <5> QED  BY <4>4, <5>1, Zenon DEF A, B
      <4>6. R(n + 1) = R(n) \cup Touched(edges, R(n))
        BY <1>2
      <4> HIDE DEF New
      <4> QED  BY <4>2, <4>5, <4>6
    <3> QED  BY <3>1, <3>2
  <2>3. New(n + 1) = R(n + 1) \ R(n)
    BY <2>1
  <2> HIDE DEF New, Is
  <2>4. Step(Is(n)) = [seen |-> R(n) \cup Touched(edges, New(n)), new |-> Touched(edges, New(n)) \ R(n)]
    BY <2>1, Zenon
  <2>5. Touched(edges, New(n)) \ R(n) = New(n + 1)
    BY <2>2, <2>3
  <2> HIDE DEF Step
  <2>6. Step(Is(n)) = [seen |-> R(n + 1), new |-> New(n + 1)]
    BY <2>2, <2>4, <2>5, Zenon
  <2> QED  BY <2>6, Zenon DEF Is
<1>5. Is(0) = [seen |-> {from}, new |-> {from}]
  BY <1>1
<1>6. ASSUME NEW n \in 0 .. depth, n # 0 PROVE n - 1 \in 0 .. depth /\ n - 1 \in Nat /\ (n - 1) + 1 = n
  BY <1>6
<1> HIDE DEF Is, Step
<1>7. all = Body(all)
  <2>1. ASSUME NEW n \in 0 .. depth, n # 0 PROVE Is(n) = Step(all[n - 1])
    <3>1. n - 1 \in 0 .. depth /\ n - 1 \in Nat /\ (n - 1) + 1 = n
      BY <1>6, <2>1
    <3>2. all[n - 1] = Is(n - 1)
      BY <3>1
    <3>3. Step(Is(n - 1)) = Is((n - 1) + 1)
      BY <1>4, <3>1
    <3> QED  BY <3>1, <3>2, <3>3
  <2>2. \A n \in 0 .. depth :
            Is(n) = IF n = 0 THEN [seen |-> {from}, new |-> {from}] ELSE Step(all[n - 1])
    BY <1>5, <2>1
  <2> HIDE DEF all
  <2>3. Body(all) = [n \in 0 .. depth |-> Is(n)]
    BY <2>2, Zenon
  <2> QED  BY <2>3 DEF all
<1>8. rounds = CHOOSE f : f = Body(f)
  BY Zenon DEF Rounds, Step
<1>9. rounds = Body(rounds)
  BY <1>7, <1>8, Zenon
<1> HIDE DEF rounds, all
<1>10. \A n \in 0 .. depth :
         rounds[n] = IF n = 0 THEN [seen |-> {from}, new |-> {from}] ELSE Step(rounds[n - 1])
  BY <1>9, Zenon
<1> DEFINE S == {n \in 0 .. depth : rounds[n] = Is(n)}
<1>11. 0 \in S
  <2>1. 0 \in 0 .. depth
    OBVIOUS
  <2>2. rounds[0] = [seen |-> {from}, new |-> {from}]
    BY <1>10, <2>1
  <2> QED  BY <1>5, <2>1, <2>2, Zenon
<1>12. ASSUME NEW m \in 1 .. depth, m - 1 \in S PROVE m \in S
  <2>1. m \in 0 .. depth /\ m # 0
    OBVIOUS
  <2>2. rounds[m - 1] = Is(m - 1) /\ m - 1 \in Nat /\ (m - 1) + 1 = m
    BY <1>12
  <2>3. rounds[m] = Step(Is(m - 1))
    BY <1>10, <2>1, <2>2
  <2>4. Step(Is(m - 1)) = Is((m - 1) + 1)
    BY <1>4, <2>2
  <2>5. rounds[m] = Is(m)
    BY <2>2, <2>3, <2>4
  <2> QED  BY <2>1, <2>5, Zenon
<1> HIDE DEF S
<1>13. 0 .. depth \subseteq S
  BY <1>11, <1>12, UpTo
<1>14. \A n \in 0 .. depth : rounds[n] = Is(n)
  BY <1>13 DEF S
<1> QED  BY <1>14, Zenon DEF rounds, Is
LEMMA NeighborsExact ==
    ASSUME NEW o, NEW from \in o.concepts, Fitting(o.concepts, Edges(o)), NEW depth \in Nat
    PROVE  Neighbors(o, from, depth) = RefNeighbors(o, from, depth)
<1> DEFINE edges == Edges(o)
           R(n) == Reached(o.concepts, edges, from, n)
           New(n) == IF n = 0 THEN {from} ELSE R(n) \ R(n - 1)
<1>1. \A n \in 0 .. depth : Rounds(edges, from, depth)[n].new = New(n)
  <2>1. \A n \in 0 .. depth : Rounds(edges, from, depth)[n] = [seen |-> R(n), new |-> New(n)]
    BY RoundsAre
  <2>2. ASSUME NEW n \in 0 .. depth PROVE Rounds(edges, from, depth)[n].new = New(n)
    <3> DEFINE a == Rounds(edges, from, depth)[n]
               r == R(n)
               b == New(n)
    <3>1. a = [seen |-> r, new |-> b]
      BY <2>1
    <3> HIDE DEF a, r, b
    <3>2. a.new = b
      BY <3>1
    <3> QED  BY <3>2 DEF a, b
  <2> QED  BY <2>2
<1>2. R(0) = {from}
  BY ReachedFirst
<1> HIDE DEF R
<1> DEFINE S == {n \in Nat : R(n) = UNION {New(i) : i \in 0 .. n}}
<1>3. 0 \in S
  <2>1. \A i : i \in 0 .. 0 <=> i = 0
    OBVIOUS
  <2>2. {New(i) : i \in 0 .. 0} = {New(0)}
    <3> HIDE DEF New
    <3> QED  BY <2>1
  <2>3. New(0) = R(0)
    BY <1>2
  <2> HIDE DEF New
  <2>4. R(0) = UNION {New(i) : i \in 0 .. 0}
    BY <2>2, <2>3
  <2> QED  BY <2>4
<1>4. ASSUME NEW m \in 1 .. depth, m - 1 \in S PROVE m \in S
  <2>1. R(m - 1) = UNION {New(i) : i \in 0 .. (m - 1)}
    BY <1>4
  <2>2. New(m) = R(m) \ R(m - 1) /\ R(m - 1) \subseteq R(m)
    <3>1. m - 1 \in Nat /\ (m - 1) + 1 = m
      OBVIOUS
    <3>2. R(m - 1) \subseteq R((m - 1) + 1)
      BY <3>1, ReachedMore, Zenon DEF R
    <3> QED  BY <3>1, <3>2
  <2>3. \A i : i \in 0 .. m <=> i \in 0 .. (m - 1) \/ i = m
    OBVIOUS
  <2> HIDE DEF New
  <2>4. R(m) = R(m - 1) \cup New(m)
    BY <2>2
  <2>5. R(m) = UNION {New(i) : i \in 0 .. m}
    BY <2>1, <2>3, <2>4, Zenon
  <2>6. m \in Nat
    OBVIOUS
  <2> QED  BY <2>5, <2>6, Zenon
<1> HIDE DEF S, New
<1>5. 0 .. depth \subseteq S
  BY <1>3, <1>4, UpTo
<1>6. ASSUME NEW e, depth # 0
      PROVE  e \in Neighbors(o, from, depth) <=> e \in edges /\ {e.from, e.to} \cap R(depth - 1) # {}
  <2>1. depth - 1 \in 0 .. depth /\ \A n \in 0 .. (depth - 1) : n \in 0 .. depth
    BY <1>6
  <2>2. R(depth - 1) = UNION {New(i) : i \in 0 .. (depth - 1)}
    BY <1>5, <2>1 DEF S
  <2>3. e \in Neighbors(o, from, depth) <=> \E n \in 0 .. (depth - 1) : e \in Touching(edges, New(n))
    BY <1>1, <2>1, Zenon DEF Neighbors
  <2>4. \A n : e \in Touching(edges, New(n)) <=> e \in edges /\ {e.from, e.to} \cap New(n) # {}
    BY DEF Touching
  <2>5. ASSUME NEW X
        PROVE  {e.from, e.to} \cap X # {} <=> e.from \in X \/ e.to \in X
    OBVIOUS
  <2>6. \A c : c \in R(depth - 1) <=> \E n \in 0 .. (depth - 1) : c \in New(n)
    BY <2>2, Zenon
  <2> HIDE DEF edges, R
  <2>7. e \in Neighbors(o, from, depth) <=>
            e \in edges /\ \E n \in 0 .. (depth - 1) : e.from \in New(n) \/ e.to \in New(n)
    BY <2>3, <2>4, <2>5, Zenon
  <2> QED  BY <2>5, <2>6, <2>7, Zenon
<1>7. ASSUME NEW e, depth # 0
      PROVE  e \in RefNeighbors(o, from, depth) <=> e \in edges /\ {e.from, e.to} \cap R(depth - 1) # {}
  <2>1. (depth - 1) + 1 = depth /\ depth - 1 \in Nat
    BY <1>7
  <2>2. e \in RefNeighbors(o, from, depth) <=>
            e \in edges /\ \E w \in Chains(o.concepts, edges, from, depth - 1) : w[Len(w)] \in {e.from, e.to}
    <3>1. Chains(o.concepts, edges, from, depth - 1) =
            {w \in UNION {[1 .. k -> o.concepts] : k \in 1 .. depth} :
                w[1] = from /\ \A i \in 1 .. (Len(w) - 1) : Joins(edges, w[i], w[i + 1])}
      BY <2>1, Zenon DEF Chains
    <3> QED  BY <3>1, Zenon DEF RefNeighbors, Joins
  <2>3. \A c : c \in R(depth - 1) <=>
            \E w \in Chains(o.concepts, edges, from, depth - 1) : w[Len(w)] = c
    BY Zenon DEF R, Reached
  <2> HIDE DEF edges
  <2>4. {e.from, e.to} \cap R(depth - 1) # {} <=> e.from \in R(depth - 1) \/ e.to \in R(depth - 1)
    OBVIOUS
  <2> QED  BY <2>2, <2>3, <2>4, Zenon
<1>8. CASE depth = 0
  <2>1. Neighbors(o, from, depth) = {}
    BY <1>8 DEF Neighbors
  <2>2. UNION {[1 .. n -> o.concepts] : n \in 1 .. depth} = {}
    BY <1>8
  <2>3. RefNeighbors(o, from, depth) = {}
    BY <2>2, Zenon DEF RefNeighbors
  <2> QED  BY <2>1, <2>3
<1>9. CASE depth # 0
  <2>1. \A e : e \in Neighbors(o, from, depth) <=> e \in RefNeighbors(o, from, depth)
    BY <1>6, <1>7, <1>9, Zenon
  <2> QED  BY <2>1, Zenon
<1> QED  BY <1>8, <1>9

(* The relationships on a path within the depth are within the scope.       *)
LEMMA PathsInScope ==
    ASSUME NEW o, NEW from \in o.concepts, Fitting(o.concepts, Edges(o)), NEW depth \in Nat, NEW to,
           NEW p \in RefPaths(o, from, to, depth), NEW i \in DOMAIN p
    PROVE  p[i] \in RefNeighbors(o, from, depth)
<1> DEFINE edges == Edges(o)
<1>0. /\ p \in UNION {[1 .. n -> edges] : n \in 1 .. depth}
      /\ p[1].from = from /\ \A j \in 1 .. (Len(p) - 1) : p[j].to = p[j + 1].from
  BY Zenon DEF RefPaths
<1>1. PICK n \in 1 .. depth : p \in [1 .. n -> edges]
  BY <1>0, Zenon
<1> HIDE DEF edges
<1>2. Len(p) = n /\ DOMAIN p = 1 .. n
  BY <1>1
<1>3. p[1].from = from /\ \A j \in 1 .. (n - 1) : p[j].to = p[j + 1].from
  BY <1>0, <1>2
<1>4. \A j \in 1 .. n : p[j] \in edges /\ p[j].from \in o.concepts /\ p[j].to \in o.concepts
  BY <1>1 DEF Fitting, edges
<1> DEFINE w == [j \in 1 .. i |-> p[j].from]
<1>5. i \in 1 .. n /\ i \in 1 .. depth
  BY <1>2
<1>6. w \in [1 .. i -> o.concepts] /\ Len(w) = i /\ w[1] = from /\ w[i] = p[i].from
  BY <1>3, <1>4, <1>5
<1>7. ASSUME NEW j \in 1 .. (Len(w) - 1) PROVE Joins(edges, w[j], w[j + 1])
  <2>1. j \in 1 .. (n - 1) /\ j \in 1 .. i /\ j + 1 \in 1 .. i /\ j \in 1 .. n
    BY <1>5, <1>6
  <2>2. w[j] = p[j].from /\ w[j + 1] = p[j + 1].from
    BY <2>1
  <2>3. w[j + 1] = p[j].to
    BY <1>3, <2>1, <2>2
  <2> HIDE DEF w
  <2>4. {w[j], w[j + 1]} = {p[j].from, p[j].to} /\ p[j] \in edges
    BY <1>4, <2>1, <2>2, <2>3, Zenon
  <2> QED  BY <2>4, Zenon DEF Joins
<1> HIDE DEF w
<1>8. /\ w \in UNION {[1 .. k -> o.concepts] : k \in 1 .. depth} /\ w[1] = from
      /\ \A j \in 1 .. (Len(w) - 1) : Joins(edges, w[j], w[j + 1])
      /\ w[Len(w)] \in {p[i].from, p[i].to} /\ p[i] \in edges
  BY <1>4, <1>5, <1>6, <1>7, Zenon
<1> QED  BY <1>8, Zenon DEF RefNeighbors, Joins, edges
-----------------------------------------------------------------------------
(* Graph commands.                                                          *)

Output(o, a) == IF a.cmd = "evidence" THEN EvidenceQuery(o, a) ELSE Resolve(o, a)

LEMMA OutputExact ==
    ASSUME NEW o, NEW a \in GraphAsks, NEW r, r = Output(o, a), r.status = "ok"
    PROVE  /\ a.cmd \in {"paths", "explain"} => r.paths = RefPaths(o, a.from, a.to, a.depth)
           /\ a.cmd \in {"neighbors", "evidence"} => r.rels = RefNeighbors(o, a.from, a.depth)
           /\ a.cmd = "evidence" =>
                /\ r.paths = UNION {RefPaths(o, a.from, c, a.depth) : c \in o.concepts \ {a.from}}
                /\ EdgesOn(r.paths) \subseteq r.rels
                /\ TraversalAllowed(o, IdsOf(r.rels))
<1>1. a.depth \in Nat /\ a.cmd \in GraphCmds
  BY GraphAssumption
<1>2. \A to : FindTypePaths(o, a.from, to, a.depth) = RefPaths(o, a.from, to, a.depth)
  BY <1>1, PathsExact
<1>3. GraphFits(o) => Fitting(o.concepts, Edges(o))
  BY DEF GraphFits, Fitting
<1>4. GraphFits(o) /\ a.from \in o.concepts =>
        Neighbors(o, a.from, a.depth) = RefNeighbors(o, a.from, a.depth)
  BY <1>1, <1>3, NeighborsExact
<1>5. CASE a.cmd = "evidence"
  <2>1. r = EvidenceQuery(o, a)
    BY <1>5 DEF Output
  <2> DEFINE rels  == Neighbors(o, a.from, a.depth)
             paths == UNION {FindTypePaths(o, a.from, c, a.depth) : c \in o.concepts \ {a.from}}
  <2>2. /\ GraphFits(o) /\ a.from \in o.concepts /\ TraversalAllowed(o, IdsOf(rels))
        /\ r = Found("ok", paths, rels)
    <3> HIDE DEF rels, paths
    <3>1. r = IF a.provider # "bound" THEN Found(a.provider, {}, {})
              ELSE IF ~GraphFits(o) \/ a.from \notin o.concepts THEN Found("pack", {}, {})
              ELSE IF DecideEvidence(o) # "allow" \/ ~TraversalAllowed(o, IdsOf(rels)) THEN Found("policy", {}, {})
              ELSE Found("ok", paths, rels)
      BY <2>1, Zenon DEF EvidenceQuery, rels, paths
    <3>2. a.provider # "ok"
      BY <1>5, GraphAssumption
    <3>3. \A st, P, R : Found(st, P, R).status = st
      BY DEF Found
    <3>4. CASE a.provider # "bound"
      <4> DEFINE given == a.provider
      <4>0. r = Found(given, {}, {})
        BY <3>1, <3>4
      <4> HIDE DEF given
      <4>1. r.status = given
        BY <3>3, <4>0, Zenon
      <4> QED  BY <3>2, <4>1 DEF given
    <3>5. CASE a.provider = "bound" /\ (~GraphFits(o) \/ a.from \notin o.concepts)
      <4>1. r.status = "pack"
        BY <3>1, <3>3, <3>5, Zenon
      <4> QED  BY <4>1
    <3>6. CASE /\ a.provider = "bound" /\ GraphFits(o) /\ a.from \in o.concepts
               /\ DecideEvidence(o) # "allow" \/ ~TraversalAllowed(o, IdsOf(rels))
      <4>1. r.status = "policy"
        BY <3>1, <3>3, <3>6, Zenon
      <4> QED  BY <4>1
    <3>7. CASE /\ a.provider = "bound" /\ GraphFits(o) /\ a.from \in o.concepts
               /\ DecideEvidence(o) = "allow" /\ TraversalAllowed(o, IdsOf(rels))
      BY <3>1, <3>7, Zenon
    <3> QED  BY <3>4, <3>5, <3>6, <3>7, Zenon
  <2>3. r.paths = paths /\ r.rels = rels
    <3> HIDE DEF rels, paths
    <3> QED  BY <2>2 DEF Found
  <2>4. rels = RefNeighbors(o, a.from, a.depth)
    BY <1>4, <2>2
  <2>5. paths = UNION {RefPaths(o, a.from, c, a.depth) : c \in o.concepts \ {a.from}}
    BY <1>2
  <2>6. EdgesOn(paths) \subseteq RefNeighbors(o, a.from, a.depth)
    <3> SUFFICES ASSUME NEW e \in EdgesOn(paths) PROVE e \in RefNeighbors(o, a.from, a.depth)
      OBVIOUS
    <3>1. PICK p \in paths : e \in Range(p)
      BY Zenon DEF EdgesOn
    <3>2. PICK i \in DOMAIN p : e = p[i]
      BY <3>1, Zenon DEF Range
    <3>3. PICK c : p \in RefPaths(o, a.from, c, a.depth)
      BY <2>5, <3>1, Zenon
    <3> QED  BY <1>1, <1>3, <2>2, <3>2, <3>3, PathsInScope
  <2> HIDE DEF rels, paths
  <2> QED  BY <1>5, <2>2, <2>3, <2>4, <2>5, <2>6
<1>6. CASE a.cmd # "evidence"
  <2>1. r = Resolve(o, a)
    BY <1>6, Zenon DEF Output
  <2>2. CASE ~GraphFits(o)
    BY <2>1, <2>2 DEF Resolve, Found
  <2>3. CASE GraphFits(o) /\ a.cmd \in {"paths", "explain"}
    <3> DEFINE paths == FindTypePaths(o, a.from, a.to, a.depth)
    <3>1. r = IF {a.from, a.to} \subseteq o.concepts THEN Found("ok", paths, {}) ELSE Found("pack", {}, {})
      BY <2>1, <2>3 DEF Resolve
    <3>2. paths = RefPaths(o, a.from, a.to, a.depth)
      BY <1>2
    <3> HIDE DEF paths
    <3> QED  BY <2>3, <3>1, <3>2 DEF Found
  <2>4. CASE GraphFits(o) /\ a.cmd = "neighbors"
    <3> DEFINE rels == Neighbors(o, a.from, a.depth)
    <3>1. r = IF a.from \in o.concepts THEN Found("ok", {}, rels) ELSE Found("pack", {}, {})
      BY <2>1, <2>4 DEF Resolve
    <3>2. a.from \in o.concepts => rels = RefNeighbors(o, a.from, a.depth)
      BY <1>4, <2>4
    <3> HIDE DEF rels
    <3> QED  BY <2>4, <3>1, <3>2 DEF Found
  <2>5. CASE a.cmd \in {"concepts", "relationships"}
    BY <2>5
  <2> QED  BY <1>1, <1>6, <2>2, <2>3, <2>4, <2>5 DEF GraphCmds
<1> QED  BY <1>5, <1>6

UsedIds(t) == IdsOf(t.out.rels \cup EdgesOn(t.out.paths))

(* What a command holds is what its ontology gives it; from the policy on   *)
(* it uses nothing that the policy it read denies.                          *)
GraphInv ==
    /\ disk \in Ontologies
    /\ tool = [pc |-> tool.pc, ask |-> tool.ask, graph |-> tool.graph, out |-> tool.out, denied |-> tool.denied]
    /\ tool.pc = "idle" => tool = NoTool
    /\ tool.pc \in {"enforce", "hash", "printed"} =>
          tool.ask \in GraphAsks /\ tool.out = Output(tool.graph, tool.ask) /\ tool.out.status = "ok"
    /\ tool.pc \in {"enforce", "hash"} => tool.ask.cmd # "evidence"
    /\ tool.pc = "enforce" => tool.denied = {}
    /\ tool.pc \in {"hash", "printed"} /\ tool.ask.cmd = "evidence" => tool.denied = tool.graph.deny
    /\ tool.pc \in {"hash", "printed"} /\ Enforced(tool.ask) /\ tool.ask.cmd # "evidence" =>
          UsedIds(tool) \cap tool.denied = {}

LEMMA GraphStarts == GraphInit(Ontologies) => GraphInv
BY DEF GraphInit, GraphInv, NoTool

LEMMA AllowedFree ==
    ASSUME NEW o, NEW ids, TraversalAllowed(o, ids)
    PROVE  ids \cap o.deny = {}
BY DEF TraversalAllowed, DecideRelationship

LEMMA LoadGraphSafe == GraphInv /\ LoadGraph => GraphInv'
<1> SUFFICES ASSUME GraphInv, LoadGraph PROVE GraphInv'
  OBVIOUS
<1>1. tool = NoTool /\ disk' = disk /\ disk \in Ontologies
  BY DEF GraphInv, LoadGraph
<1>2. PICK a \in GraphAsks :
        LET t   == [tool EXCEPT !.ask = a, !.graph = disk]
            res == IF a.cmd = "evidence" THEN EvidenceQuery(disk, a) ELSE Resolve(disk, a)
        IN  IF disk.kind # "graph" THEN tool' = [t EXCEPT !.pc = "failed", !.out.status = "pack"]
            ELSE tool' = [t EXCEPT !.out = res, !.denied = IF a.cmd = "evidence" THEN disk.deny ELSE {},
                                   !.pc = IF res.status # "ok" THEN "failed"
                                          ELSE IF a.cmd = "evidence" THEN "printed"
                                          ELSE IF Enforced(a) THEN "enforce" ELSE "hash"]
  BY Zenon DEF LoadGraph
<1> DEFINE res == Output(disk, a)
           none == [status |-> "none", paths |-> {}, rels |-> {}]
           deny == IF a.cmd = "evidence" THEN disk.deny ELSE {}
           pc == IF res.status # "ok" THEN "failed"
                 ELSE IF a.cmd = "evidence" THEN "printed"
                 ELSE IF Enforced(a) THEN "enforce" ELSE "hash"
<1>3. res = IF a.cmd = "evidence" THEN EvidenceQuery(disk, a) ELSE Resolve(disk, a)
  BY Zenon DEF Output
<1> HIDE DEF res
<1>4. CASE disk.kind # "graph"
  <2>1. tool' = [pc |-> "failed", ask |-> a, graph |-> disk, out |-> [none EXCEPT !.status = "pack"],
                 denied |-> {}]
    BY <1>1, <1>2, <1>4 DEF NoTool
  <2> HIDE DEF none
  <2> QED  BY <1>1, <2>1 DEF GraphInv
<1>5. CASE disk.kind = "graph"
  <2>1. tool' = [[tool EXCEPT !.ask = a, !.graph = disk] EXCEPT !.out = res, !.denied = deny, !.pc = pc]
    BY <1>2, <1>3, <1>5, Zenon
  <2>2. /\ res.status # "ok" => pc = "failed"
        /\ res.status = "ok" /\ a.cmd = "evidence" => pc = "printed"
        /\ res.status = "ok" /\ a.cmd # "evidence" /\ Enforced(a) => pc = "enforce"
        /\ res.status = "ok" /\ a.cmd # "evidence" /\ ~Enforced(a) => pc = "hash"
    BY Zenon
  <2> HIDE DEF pc
  <2>3. /\ pc # "idle"
        /\ pc \in {"enforce", "hash", "printed"} => res.status = "ok"
        /\ pc \in {"enforce", "hash"} => a.cmd # "evidence"
        /\ pc \in {"hash", "printed"} /\ Enforced(a) => a.cmd = "evidence"
    BY <2>2
  <2>4. /\ a.cmd = "evidence" => deny = disk.deny
        /\ a.cmd # "evidence" => deny = {}
    OBVIOUS
  <2> HIDE DEF deny
  <2>5. /\ tool'.ask = a /\ tool'.graph = disk /\ tool'.out = res /\ tool'.denied = deny /\ tool'.pc = pc
        /\ tool' = [pc |-> tool'.pc, ask |-> tool'.ask, graph |-> tool'.graph, out |-> tool'.out,
                    denied |-> tool'.denied]
    BY <1>1, <2>1 DEF NoTool
  <2>6. res = Output(tool'.graph, tool'.ask)
    BY <2>5, Zenon DEF res
  <2> QED  BY <1>1, <2>3, <2>4, <2>5, <2>6 DEF GraphInv
<1> QED  BY <1>4, <1>5

(* A step of a command that has read its graph: it goes on or fails.        *)
LEMMA GoneOn ==
    ASSUME GraphInv, disk' = disk, tool.pc \in {"enforce", "hash"}, NEW pc \in {"hash", "printed"}, NEW deny,
           tool' = [tool EXCEPT !.pc = pc, !.denied = deny],
           Enforced(tool.ask) => UsedIds(tool) \cap deny = {}
    PROVE  GraphInv'
<1>1. /\ tool'.pc = pc /\ tool'.ask = tool.ask /\ tool'.graph = tool.graph /\ tool'.out = tool.out
      /\ tool'.denied = deny
      /\ tool' = [pc |-> tool'.pc, ask |-> tool'.ask, graph |-> tool'.graph, out |-> tool'.out,
                  denied |-> tool'.denied]
  BY DEF GraphInv
<1>2. UsedIds(tool') = UsedIds(tool)
  BY <1>1 DEF UsedIds
<1>3. /\ tool.ask \in GraphAsks /\ tool.out = Output(tool.graph, tool.ask) /\ tool.out.status = "ok"
      /\ tool.ask.cmd # "evidence" /\ disk \in Ontologies
  BY DEF GraphInv
<1> QED  BY <1>1, <1>2, <1>3 DEF GraphInv, UsedIds

LEMMA Fails ==
    ASSUME GraphInv, disk' = disk, NEW status, ToolFails(status)
    PROVE  GraphInv'
<1>1. /\ tool'.pc = "failed"
      /\ tool' = [pc |-> tool'.pc, ask |-> tool'.ask, graph |-> tool'.graph, out |-> tool'.out,
                  denied |-> tool'.denied]
  BY DEF GraphInv, ToolFails
<1> QED  BY <1>1 DEF GraphInv

LEMMA EnforceSafe == GraphInv /\ Enforce => GraphInv'
<1> SUFFICES ASSUME GraphInv, Enforce PROVE GraphInv'
  OBVIOUS
<1>1. /\ tool.pc = "enforce" /\ disk' = disk /\ disk.kind \in {"none", "bad", "graph"}
      /\ tool = [pc |-> tool.pc, ask |-> tool.ask, graph |-> tool.graph, out |-> tool.out,
                 denied |-> tool.denied]
  BY GraphAssumption DEF GraphInv, Enforce
<1>2. CASE disk.kind = "bad"
  BY <1>1, <1>2, Fails DEF Enforce
<1>3. CASE disk.kind = "none"
  <2>1. tool' = [tool EXCEPT !.pc = "hash"]
    BY <1>3 DEF Enforce
  <2>2. tool' = [tool EXCEPT !.pc = "hash", !.denied = tool.denied]
    BY <1>1, <2>1
  <2>3. Enforced(tool.ask) => UsedIds(tool) \cap tool.denied = {}
    BY <1>1 DEF GraphInv
  <2> QED  BY <1>1, <2>2, <2>3, GoneOn
<1>4. CASE disk.kind = "graph" /\ TraversalAllowed(disk, UsedIds(tool))
  <2>1. tool' = [tool EXCEPT !.pc = "hash", !.denied = disk.deny]
    BY <1>4 DEF Enforce, UsedIds
  <2>2. UsedIds(tool) \cap disk.deny = {}
    BY <1>4, AllowedFree
  <2> QED  BY <1>1, <2>1, <2>2, GoneOn
<1>5. CASE disk.kind = "graph" /\ ~TraversalAllowed(disk, UsedIds(tool))
  BY <1>1, <1>5, Fails DEF Enforce, UsedIds
<1> QED  BY <1>1, <1>2, <1>3, <1>4, <1>5

LEMMA PrintSafe == GraphInv /\ PrintGraph => GraphInv'
<1> SUFFICES ASSUME GraphInv, PrintGraph PROVE GraphInv'
  OBVIOUS
<1>1. tool.pc = "hash" /\ disk' = disk
  BY DEF PrintGraph
<1>2. CASE disk.kind = "graph"
  <2>1. tool' = [tool EXCEPT !.pc = "printed", !.denied = tool.denied]
    BY <1>2 DEF PrintGraph, GraphInv
  <2>2. Enforced(tool.ask) => UsedIds(tool) \cap tool.denied = {}
    BY <1>1 DEF GraphInv
  <2> QED  BY <1>1, <2>1, <2>2, GoneOn
<1>3. CASE disk.kind # "graph"
  BY <1>1, <1>3, Fails DEF PrintGraph
<1> QED  BY <1>2, <1>3

LEMMA GraphSteps == GraphInv /\ [GraphNext]_graphVars => GraphInv'
<1> SUFFICES ASSUME GraphInv, [GraphNext]_graphVars PROVE GraphInv'
  OBVIOUS
<1>1. CASE UNCHANGED graphVars
  <2>1. disk' = disk /\ tool' = tool
    BY <1>1 DEF graphVars
  <2> QED  BY <2>1, Zenon DEF GraphInv, UsedIds
<1>2. CASE ReplacePack
  <2>1. disk' \in Ontologies /\ tool' = tool
    BY <1>2 DEF ReplacePack
  <2> QED  BY <2>1, Zenon DEF GraphInv, UsedIds
<1> QED  BY <1>1, <1>2, LoadGraphSafe, EnforceSafe, PrintSafe DEF GraphNext

(* Whatever ontologies the pack file holds and however it is replaced, a    *)
(* graph command prints the paths and relationships of the definition, and  *)
(* none that the policy it read denies.                                     *)
THEOREM GraphSafe == GraphSpec => []GraphExact
<1>1. GraphInv => GraphExact
  <2> SUFFICES ASSUME GraphInv, tool.pc = "printed" PROVE GraphExact
    BY DEF GraphExact
  <2> DEFINE o == tool.graph
             a == tool.ask
             r == tool.out
  <2>1. a \in GraphAsks /\ r = Output(o, a) /\ r.status = "ok"
    BY DEF GraphInv
  <2>2. /\ a.cmd = "evidence" => tool.denied = o.deny
        /\ Enforced(a) /\ a.cmd # "evidence" => IdsOf(r.rels \cup EdgesOn(r.paths)) \cap tool.denied = {}
    BY DEF GraphInv, UsedIds
  <2> HIDE DEF o, a, r
  <2>3. /\ a.cmd \in {"paths", "explain"} => r.paths = RefPaths(o, a.from, a.to, a.depth)
        /\ a.cmd \in {"neighbors", "evidence"} => r.rels = RefNeighbors(o, a.from, a.depth)
        /\ a.cmd = "evidence" =>
             /\ r.paths = UNION {RefPaths(o, a.from, c, a.depth) : c \in o.concepts \ {a.from}}
             /\ EdgesOn(r.paths) \subseteq r.rels
             /\ TraversalAllowed(o, IdsOf(r.rels))
    BY <2>1, OutputExact
  <2>4. a.cmd = "evidence" => IdsOf(r.rels \cup EdgesOn(r.paths)) \cap tool.denied = {}
    <3> SUFFICES ASSUME a.cmd = "evidence" PROVE IdsOf(r.rels \cup EdgesOn(r.paths)) \cap tool.denied = {}
      OBVIOUS
    <3>1. r.rels \cup EdgesOn(r.paths) = r.rels
      BY <2>3
    <3>2. IdsOf(r.rels) \cap o.deny = {}
      BY <2>3, AllowedFree
    <3> QED  BY <2>2, <3>1, <3>2
  <2> QED  BY <2>2, <2>3, <2>4, Zenon DEF GraphExact, o, a, r
<1> QED  BY <1>1, GraphStarts, GraphSteps, PTL DEF GraphSpec

-----------------------------------------------------------------------------
(* What a card may offer.                                                   *)

ModelOps == {"create", "update", "delete"}

(* An action of a view comes from an endpoint, or from a record of the      *)
(* model that the roles may change.                                         *)
FromEndpoint(p, a) == \E i \in DOMAIN p.endpoints, n \in Nat : a = EndpointAction(p.endpoints[i], n)
FromModel(p, roles, a) ==
    \E r \in Range(p.model), op \in ModelOps, n \in Nat :
        CanPerform(p, r, op, roles) /\ a = ModelAction(r, op, n)

Sourced(p, roles, v) ==
    /\ DOMAIN v = {"records", "nav", "actions"}
    /\ "none" \notin v.records
    /\ \A a \in v.actions : FromEndpoint(p, a) \/ FromModel(p, roles, a)

(* A submit of the action is forbidden by the control hook alone.           *)
NotForbidden(p, id, roles) ==
    \A c : c.action = id => \A pre : SubmitStatus(p, c, roles, pre) = 403 => pre = 403

(* Every action of the view that a card can show may be submitted.          *)
Shown(p, roles, v) ==
    /\ "none" \notin v.records
    /\ \A a \in v.actions : a.at \in Nat /\ (a.record # "none" => NotForbidden(p, a.id, roles))

(* The manager and the runtime read an endpoint's requirements alike.       *)
LEMMA EndpointAllowed ==
    ASSUME NEW p, PackFits(p), NEW roles, NEW i \in DOMAIN p.endpoints,
           p.endpoints[i].policy # "deny", Visible(p, p.endpoints[i], roles)
    PROVE  NotForbidden(p, <<"endpoint", p.endpoints[i].id>>, roles)
<1> DEFINE e == p.endpoints[i]
           id == <<"endpoint", e.id>>
<1>1. id # NoAction.id
  BY DEF NoAction
<1>2. ~IsModelAction(p, id)
  BY DEF IsModelAction, PackFits
<1>3. EndpointOf(p, id) = e
  <2>1. \A d : d \in Range(p.endpoints) <=> \E j \in DOMAIN p.endpoints : d = p.endpoints[j]
    BY DEF Range
  <2>2. \A d \in Range(p.endpoints) : <<"endpoint", d.id>> = id => d = e
    BY <2>1 DEF PackFits
  <2>3. e \in Range(p.endpoints)
    BY <2>1
  <2> HIDE DEF e
  <2> QED  BY <2>2, <2>3 DEF EndpointOf
<1>4. ~Denied(p, e, roles)
  <2> HIDE DEF e
  <2>1. RolesMatch(ParseAuth(e.auth), roles)
    BY Zenon DEF Visible, e
  <2>2. \A q : AuthorizationMatches(q, roles) <=> RolesMatch(q, roles)
    BY Zenon DEF AuthorizationMatches, RolesMatch
  <2>3. e.entity \in DOMAIN p.access /\ e.op # "command" =>
            RolesMatch(ParseAuth(p.access[e.entity][AccessOp(e.op)]), roles)
    BY Zenon DEF Visible, e
  <2> QED  BY <2>1, <2>2, <2>3, Zenon DEF Denied
<1> HIDE DEF e, id
<1>5. e.policy # "deny"
  BY DEF e
<1>6. ASSUME NEW c, c.action = id, NEW pre, SubmitStatus(p, c, roles, pre) = 403 PROVE pre = 403
  <2>1. SubmitStatus(p, c, roles, pre) =
            IF pre # 200 THEN pre ELSE IF e.policy = "approval" THEN 202 ELSE 200
    BY <1>1, <1>2, <1>3, <1>4, <1>5, <1>6 DEF SubmitStatus
  <2> QED  BY <1>6, <2>1
<1>7. NotForbidden(p, id, roles)
  BY <1>6, Zenon DEF NotForbidden
<1> QED  BY <1>7, Zenon DEF e, id

LEMMA ModelAllowed ==
    ASSUME NEW p, PackFits(p), NEW roles, NEW r \in Range(p.model), NEW op \in ModelOps,
           CanPerform(p, r, op, roles)
    PROVE  NotForbidden(p, <<r, op>>, roles)
<1> DEFINE id == <<r, op>>
<1>1. id # NoAction.id
  BY DEF NoAction
<1>2. IsModelAction(p, id)
  BY DEF IsModelAction, ModelOps
<1>3. id[1] = r /\ id[2] = op
  OBVIOUS
<1> HIDE DEF id
<1>4. ASSUME NEW c, NEW pre, c.action = id PROVE SubmitStatus(p, c, roles, pre) # 403
  BY <1>1, <1>2, <1>3, <1>4 DEF SubmitStatus
<1> QED  BY <1>4, Zenon DEF NotForbidden, id

LEMMA NothingAllowed ==
    ASSUME NEW p, NEW roles
    PROVE  NotForbidden(p, NoAction.id, roles)
BY DEF NotForbidden, SubmitStatus

-----------------------------------------------------------------------------
(* Where the actions of a view come from.                                   *)

LEMMA GenerateSourced ==
    ASSUME NEW p, NEW roles, NEW es \in Seq(Range(p.endpoints))
    PROVE  Sourced(p, roles, GenerateView(es))
<1> DEFINE acts == {i \in DOMAIN es : es[i].selector \/ es[i].entity # "none"}
           v == GenerateView(es)
<1>1. /\ DOMAIN v = {"records", "nav", "actions"}
      /\ v.records = {e.entity : e \in {e \in Range(es) : ~e.selector /\ e.entity # "none"}}
      /\ v.actions = {EndpointAction(es[i], i) : i \in acts}
  BY DEF GenerateView
<1>2. \A i \in acts : i \in Nat /\ \E j \in DOMAIN p.endpoints : es[i] = p.endpoints[j]
  BY DEF Range
<1> HIDE DEF v, acts
<1>3. "none" \notin v.records
  BY <1>1
<1>4. ASSUME NEW a \in v.actions PROVE FromEndpoint(p, a)
  <2>1. PICK i \in acts : a = EndpointAction(es[i], i)
    BY <1>1, <1>4
  <2>2. PICK j \in DOMAIN p.endpoints : es[i] = p.endpoints[j]
    BY <1>2
  <2>3. i \in Nat /\ a = EndpointAction(p.endpoints[j], i)
    BY <1>2, <2>1, <2>2
  <2> QED  BY <2>3, Zenon DEF FromEndpoint
<1> QED  BY <1>1, <1>3, <1>4, Zenon DEF Sourced, v

LEMMA ActionSourced ==
    ASSUME NEW p, NEW roles, NEW v, Sourced(p, roles, v), NEW r \in Range(p.model), NEW op \in ModelOps,
           NEW n \in Nat
    PROVE  Sourced(p, roles, WithAction(v, p, roles, r, op, n))
<1> DEFINE w == [v EXCEPT !.actions = @ \cup {ModelAction(r, op, n)}]
<1>1. CASE RecordAction(v, r, op) # NoAction \/ ~CanPerform(p, r, op, roles)
  BY <1>1, Zenon DEF WithAction
<1>2. CASE ~(RecordAction(v, r, op) # NoAction \/ ~CanPerform(p, r, op, roles))
  <2>1. WithAction(v, p, roles, r, op, n) = w
    BY <1>2, Zenon DEF WithAction
  <2>2. /\ DOMAIN w = {"records", "nav", "actions"}
        /\ w.records = v.records /\ w.actions = v.actions \cup {ModelAction(r, op, n)}
    BY DEF Sourced
  <2>3. FromModel(p, roles, ModelAction(r, op, n))
    BY <1>2, Zenon DEF FromModel
  <2> HIDE DEF w
  <2>4. Sourced(p, roles, w)
    BY <2>2, <2>3 DEF Sourced
  <2> QED  BY <2>1, <2>4
<1> QED  BY <1>1, <1>2

LEMMA ActionsSourced ==
    ASSUME NEW p, PackFits(p), NEW roles, NEW v, Sourced(p, roles, v), NEW k \in 1 .. Len(p.model)
    PROVE  Sourced(p, roles, WithActions(v, p, roles, k))
<1> DEFINE r == p.model[k]
           i == Len(p.endpoints) + 3 * k
           created == WithAction(v, p, roles, r, "create", i)
           updated == WithAction(created, p, roles, r, "update", i + 1)
<1>1. r \in Range(p.model)
  BY DEF PackFits, Range
<1>2. i \in Nat /\ i + 1 \in Nat /\ i + 2 \in Nat
  <2>1. Len(p.endpoints) \in Nat /\ k \in Nat
    BY DEF PackFits
  <2>2. ASSUME NEW x \in Nat, NEW y \in Nat
        PROVE  x + 3 * y \in Nat /\ (x + 3 * y) + 1 \in Nat /\ (x + 3 * y) + 2 \in Nat
    OBVIOUS
  <2> QED  BY <2>1, <2>2
<1>3. WithActions(v, p, roles, k) = WithAction(updated, p, roles, r, "delete", i + 2)
  BY DEF WithActions
<1>4. {"create", "update", "delete"} = ModelOps
  BY DEF ModelOps
<1> HIDE DEF r, i
<1>5. Sourced(p, roles, created)
  BY <1>1, <1>2, <1>4, ActionSourced
<1> HIDE DEF created
<1>6. Sourced(p, roles, updated)
  BY <1>1, <1>2, <1>4, <1>5, ActionSourced
<1> HIDE DEF updated
<1> QED  BY <1>1, <1>2, <1>3, <1>4, <1>6, ActionSourced

(* The views after each record of the model: a function of its own values.  *)
Applied(p, roles, base, views, n) ==
    views = [k \in 0 .. n |-> IF k = 0 THEN base ELSE WithActions(views[k - 1], p, roles, k)]

LEMMA AppliedExists ==
    ASSUME NEW p, NEW roles, NEW base, NEW n \in Nat
    PROVE  \E views : Applied(p, roles, base, views, n)
<1> DEFINE S == {m \in 0 .. n : \E views : Applied(p, roles, base, views, m)}
<1>1. 0 \in S
  <2> DEFINE one == [k \in 0 .. 0 |-> base]
  <2>1. one = [k \in 0 .. 0 |-> IF k = 0 THEN base ELSE WithActions(one[k - 1], p, roles, k)]
    OBVIOUS
  <2> HIDE DEF one
  <2>2. Applied(p, roles, base, one, 0)
    BY <2>1, Zenon DEF Applied
  <2> QED  BY <2>2
<1>2. ASSUME NEW m \in 1 .. n, m - 1 \in S PROVE m \in S
  <2>1. PICK g : Applied(p, roles, base, g, m - 1)
    BY <1>2
  <2> DEFINE h == [k \in 0 .. m |-> IF k = m THEN WithActions(g[m - 1], p, roles, m) ELSE g[k]]
  <2>2. \A k \in 0 .. (m - 1) : g[k] = IF k = 0 THEN base ELSE WithActions(g[k - 1], p, roles, k)
    BY <2>1, Zenon DEF Applied
  <2>3. ASSUME NEW k \in 0 .. m
        PROVE  h[k] = IF k = 0 THEN base ELSE WithActions(h[k - 1], p, roles, k)
    <3>1. CASE k = m
      <4>1. k # 0 /\ m - 1 \in 0 .. m /\ m - 1 # m
        BY <3>1
      <4>2. h[k] = WithActions(g[m - 1], p, roles, m) /\ h[m - 1] = g[m - 1]
        BY <3>1, <4>1
      <4> HIDE DEF h
      <4> QED  BY <3>1, <4>1, <4>2
    <3>2. CASE k # m
      <4>1. k \in 0 .. (m - 1) /\ h[k] = g[k]
        BY <3>2
      <4>2. k # 0 => k - 1 \in 0 .. m /\ k - 1 # m /\ h[k - 1] = g[k - 1]
        BY <3>2
      <4> HIDE DEF h
      <4> QED  BY <2>2, <4>1, <4>2
    <3> QED  BY <3>1, <3>2
  <2>4. h = [k \in 0 .. m |-> h[k]]
    OBVIOUS
  <2> HIDE DEF h
  <2>5. h = [k \in 0 .. m |-> IF k = 0 THEN base ELSE WithActions(h[k - 1], p, roles, k)]
    BY <2>3, <2>4
  <2>6. Applied(p, roles, base, h, m)
    BY <2>5, Zenon DEF Applied
  <2>7. m \in 0 .. n
    OBVIOUS
  <2> QED  BY <2>6, <2>7
<1> HIDE DEF S
<1>3. n \in S
  <2>1. n \in 0 .. n
    OBVIOUS
  <2> QED  BY <1>1, <1>2, <2>1, UpTo
<1> QED  BY <1>3 DEF S

LEMMA ApplySourced ==
    ASSUME NEW p, PackFits(p), NEW roles, NEW v, Sourced(p, roles, v)
    PROVE  Sourced(p, roles, ApplyModel(v, p, roles))
<1> DEFINE records == v.records \cup (InHierarchy(p) \cap Range(p.model))
           base == [v EXCEPT !.records = records, !.nav = @ \cup records]
           n == Len(p.model)
           Body(g) == [k \in 0 .. n |-> IF k = 0 THEN base ELSE WithActions(g[k - 1], p, roles, k)]
           views == CHOOSE g : g = Body(g)
<1>1. ApplyModel(v, p, roles) = IF p.hierarchy = << >> THEN v ELSE views[n]
  BY DEF ApplyModel
<1>2. Sourced(p, roles, base)
  <2>1. /\ DOMAIN base = {"records", "nav", "actions"}
        /\ base.records = records /\ base.actions = v.actions
    <3> HIDE DEF records
    <3> QED  BY DEF Sourced
  <2>2. "none" \notin records
    BY DEF PackFits, Sourced
  <2> HIDE DEF base, records
  <2> QED  BY <2>1, <2>2 DEF Sourced
<1>3. n \in Nat
  BY DEF PackFits
<1> HIDE DEF base, n
<1>4. \A k \in 0 .. n : views[k] = IF k = 0 THEN base ELSE WithActions(views[k - 1], p, roles, k)
  <2>1. PICK g : Applied(p, roles, base, g, n)
    BY <1>3, AppliedExists, Zenon
  <2>2. g = Body(g)
    BY <2>1, Zenon DEF Applied
  <2> HIDE DEF Body
  <2>3. views = Body(views)
    BY <2>2, Zenon
  <2> HIDE DEF views
  <2> QED  BY <2>3, Zenon DEF Body
<1> HIDE DEF views
<1> DEFINE S == {k \in 0 .. n : Sourced(p, roles, views[k])}
<1>5. 0 \in S
  BY <1>2, <1>3, <1>4
<1>6. ASSUME NEW k \in 1 .. n, k - 1 \in S PROVE k \in S
  <2>1. k \in 0 .. n /\ k # 0 /\ k \in 1 .. Len(p.model)
    BY <1>3 DEF n
  <2>2. Sourced(p, roles, views[k - 1])
    BY <1>6
  <2>3. views[k] = WithActions(views[k - 1], p, roles, k)
    BY <1>4, <2>1
  <2>4. Sourced(p, roles, WithActions(views[k - 1], p, roles, k))
    BY <2>1, <2>2, ActionsSourced, Zenon
  <2> QED  BY <2>1, <2>3, <2>4
<1> HIDE DEF S
<1>7. n \in S
  <2>1. n \in 0 .. n
    BY <1>3
  <2> QED  BY <1>3, <1>5, <1>6, <2>1, UpTo
<1>8. Sourced(p, roles, views[n])
  BY <1>7 DEF S
<1> QED  BY <1>1, <1>8, Zenon

-----------------------------------------------------------------------------
(* What is left of a view offers nothing that is forbidden.                 *)

LEMMA FilterShown ==
    ASSUME NEW p, PackFits(p), NEW roles, NEW v, Sourced(p, roles, v)
    PROVE  Shown(p, roles, FilterView(v, Policies(p, roles)))
<1> DEFINE hide == Policies(p, roles)
           w == FilterView(v, hide)
<1>1. /\ w.records = v.records \ hide.records
      /\ \A a \in w.actions : a \in v.actions /\ a.id \notin hide.actions /\ a.policy # "deny"
  BY DEF FilterView
<1>2. "none" \notin w.records
  BY <1>1 DEF Sourced
<1>3. ASSUME NEW i \in DOMAIN p.endpoints, p.endpoints[i].entity # "none",
             <<"endpoint", p.endpoints[i].id>> \notin hide.actions
      PROVE  Visible(p, p.endpoints[i], roles)
  <2>1. p.endpoints[i] \in Range(p.endpoints)
    BY DEF Range
  <2> QED  BY <1>3, <2>1 DEF Policies
<1> HIDE DEF w, hide
<1>4. ASSUME NEW a \in w.actions
      PROVE  a.at \in Nat /\ (a.record # "none" => NotForbidden(p, a.id, roles))
  <2>1. a \in v.actions /\ a.id \notin hide.actions /\ a.policy # "deny"
    BY <1>1, <1>4
  <2>2. CASE FromEndpoint(p, a)
    <3>1. PICK i \in DOMAIN p.endpoints : \E n \in Nat : a = EndpointAction(p.endpoints[i], n)
      BY <2>2 DEF FromEndpoint
    <3>2. PICK n \in Nat : a = EndpointAction(p.endpoints[i], n)
      BY <3>1
    <3>3. /\ a.at = n /\ a.id = <<"endpoint", p.endpoints[i].id>>
          /\ a.record = p.endpoints[i].entity /\ a.policy = p.endpoints[i].policy
      BY <3>2 DEF EndpointAction
    <3>4. a.record # "none" => NotForbidden(p, a.id, roles)
      BY <1>3, <2>1, <3>3, EndpointAllowed
    <3> QED  BY <3>3, <3>4
  <2>3. CASE FromModel(p, roles, a)
    <3>1. PICK r \in Range(p.model) : \E op \in ModelOps, n \in Nat :
                CanPerform(p, r, op, roles) /\ a = ModelAction(r, op, n)
      BY <2>3 DEF FromModel
    <3>2. PICK op \in ModelOps : \E n \in Nat : CanPerform(p, r, op, roles) /\ a = ModelAction(r, op, n)
      BY <3>1
    <3>3. PICK n \in Nat : CanPerform(p, r, op, roles) /\ a = ModelAction(r, op, n)
      BY <3>2
    <3>4. a.at = n /\ a.id = <<r, op>>
      BY <3>3 DEF ModelAction
    <3> QED  BY <3>3, <3>4, ModelAllowed
  <2> QED  BY <2>1, <2>2, <2>3 DEF Sourced
<1> QED  BY <1>2, <1>4, Zenon DEF Shown, w, hide

LEMMA ManagerShown ==
    ASSUME NEW p, PackFits(p), NEW roles
    PROVE  Shown(p, roles, ManagerView(p, roles))
<1> DEFINE v == ApplyModel(GenerateView(p.endpoints), p, roles)
           w == ApplyHierarchy(v, p)
<1>1. Sourced(p, roles, v)
  <2>1. p.endpoints \in Seq(Range(p.endpoints))
    BY DEF PackFits
  <2> QED  BY <2>1, GenerateSourced, ApplySourced
<1> HIDE DEF v
<1>2. /\ DOMAIN w = {"records", "nav", "actions"}
      /\ w.records = v.records /\ w.actions = v.actions
  BY <1>1 DEF Sourced, ApplyHierarchy
<1> HIDE DEF w
<1>3. Sourced(p, roles, w)
  BY <1>1, <1>2 DEF Sourced
<1> QED  BY <1>3, FilterShown, Zenon DEF ManagerView, w, v

LEMMA ScopedShown ==
    ASSUME NEW p, PackFits(p), NEW roles, NEW i \in DOMAIN p.endpoints
    PROVE  Shown(p, roles, ScopedView(p, p.endpoints[i], roles))
<1>1. <<p.endpoints[i]>> \in Seq(Range(p.endpoints))
  BY DEF Range
<1> QED  BY <1>1, GenerateSourced, ApplySourced, FilterShown DEF ScopedView

(* The first action that fits is one of the view, or there is none.         *)
LEMMA FirstAllowed ==
    ASSUME NEW p, NEW roles, NEW v, Shown(p, roles, v), NEW records, "none" \notin records, NEW ops
    PROVE  NotForbidden(p, FirstAction(v, records, ops).id, roles)
<1> DEFINE found == {a \in v.actions : a.record \in records /\ a.marks \cap ops # {}}
           first == CHOOSE a \in found : \A b \in found : a.at <= b.at
           places == {a.at : a \in found}
<1>1. FirstAction(v, records, ops) = IF found = {} THEN NoAction ELSE first
  BY Zenon DEF FirstAction
<1>2. CASE found = {}
  BY <1>1, <1>2, NothingAllowed
<1>3. CASE found # {}
  <2>1. \A a \in found : a.at \in Nat /\ NotForbidden(p, a.id, roles)
    BY DEF Shown
  <2> HIDE DEF found
  <2>2. places \subseteq Nat /\ places # {}
    BY <1>3, <2>1
  <2>3. PICK n \in places : \A m \in places : n <= m
    BY <2>2, LeastExists
  <2>4. \E a \in found : \A b \in found : a.at <= b.at
    BY <2>3
  <2>5. first \in found
    BY <2>4, Zenon
  <2> HIDE DEF first
  <2> QED  BY <1>1, <1>3, <2>1, <2>5
<1> QED  BY <1>2, <1>3

(* Each card's submit is allowed to the roles it was rendered for.          *)
LEMMA CreateAllowed ==
    ASSUME NEW p, PackFits(p), NEW rs, NEW roles, NEW r, NEW ctx, CreateCard(p, rs, roles, r, ctx).status = 200
    PROVE  NotForbidden(p, CreateCard(p, rs, roles, r, ctx).card.action, roles)
<1> DEFINE view   == ManagerView(p, roles)
           forms  == {i \in DOMAIN p.endpoints :
                        LET e == p.endpoints[i] IN e.entity = r /\ CreateForm(e) /\ ~e.selector}
           scoped == IF forms = {} THEN view ELSE ScopedView(p, p.endpoints[Least(forms)], roles)
           act    == CreateAction(scoped, r).id
           card   == [NoCard EXCEPT !.kind = "create", !.record = r, !.inputs = CreateInputs(p, r), !.action = act]
           refused == \/ r \notin view.records \/ r \notin scoped.records
                      \/ forms = {} /\ RecordAction(view, r, "create") = NoAction
<1>1. CreateCard(p, rs, roles, r, ctx) =
        IF refused THEN [status |-> 404, card |-> NoCard]
        ELSE [status |-> 200, card |-> WithParent(card, p, rs, ctx)]
  BY Zenon DEF CreateCard
<1>2. Shown(p, roles, scoped)
  <2>1. CASE forms = {}
    BY <2>1, ManagerShown
  <2>2. CASE forms # {}
    <3>1. forms \subseteq Nat
      BY DEF PackFits
    <3>2. \E x \in forms : \A y \in forms : x <= y
      BY <2>2, <3>1, LeastExists
    <3>3. Least(forms) \in forms
      BY <3>2, Zenon DEF Least
    <3> DEFINE i == Least(forms)
    <3>4. i \in DOMAIN p.endpoints
      BY <3>3
    <3>5. scoped = ScopedView(p, p.endpoints[i], roles)
      BY <2>2, Zenon
    <3> HIDE DEF scoped, i
    <3> QED  BY <3>4, <3>5, ScopedShown
  <2> QED  BY <2>1, <2>2
<1> HIDE DEF scoped
<1>3. ~refused
  BY <1>1
<1>4. r # "none"
  <2>1. r \in scoped.records
    BY <1>3
  <2> QED  BY <1>2, <2>1 DEF Shown
<1>5. NotForbidden(p, act, roles)
  <2>1. NotForbidden(p, FirstAction(scoped, {r}, {"create"}).id, roles)
    BY <1>2, <1>4, FirstAllowed
  <2> QED  BY <2>1, Zenon DEF CreateAction
<1> HIDE DEF act
<1>6. WithParent(card, p, rs, ctx).action = act
  <2>1. card.action = act /\ "action" \in DOMAIN card
    BY DEF NoCard
  <2> HIDE DEF card
  <2> DEFINE path  == HierarchyPath(p, ctx.record, card.record)
             input == <<[field |-> path[1].field, v |-> ParentValue(p, rs, ctx.record, ctx.id)]>>
  <2>2. WithParent(card, p, rs, ctx) =
          IF ctx = NoParent \/ path = << >> THEN card
          ELSE [card EXCEPT !.input = input, !.inputs = card.inputs \ {path[1].field}, !.parent = ctx]
    BY DEF WithParent
  <2> HIDE DEF path, input
  <2> QED  BY <2>1, <2>2
<1> HIDE DEF card, refused
<1>7. CreateCard(p, rs, roles, r, ctx).card = WithParent(card, p, rs, ctx)
  BY <1>1, <1>3
<1> QED  BY <1>5, <1>6, <1>7

LEMMA RecordActionAllowed ==
    ASSUME NEW p, PackFits(p), NEW roles, NEW r \in ManagerView(p, roles).records
    PROVE  /\ NotForbidden(p, UpdateAction(ManagerView(p, roles), r).id, roles)
           /\ NotForbidden(p, RecordAction(ManagerView(p, roles), r, "delete").id, roles)
<1> DEFINE view == ManagerView(p, roles)
<1>1. Shown(p, roles, view)
  BY ManagerShown
<1> HIDE DEF view
<1>2. "none" \notin {r, "Record"}
  BY <1>1 DEF Shown, view
<1>3. \A ops : NotForbidden(p, FirstAction(view, {r, "Record"}, ops).id, roles)
  BY <1>1, <1>2, FirstAllowed
<1> QED  BY <1>3, Zenon DEF UpdateAction, RecordAction, view

LEMMA DetailAllowed ==
    ASSUME NEW p, PackFits(p), NEW rs, NEW roles, NEW r, NEW id, DetailCard(p, rs, roles, r, id).status = 200
    PROVE  NotForbidden(p, DetailCard(p, rs, roles, r, id).card.action, roles)
<1> DEFINE view   == ManagerView(p, roles)
           found  == {row \in rs[r] : row.id = id}
           act    == UpdateAction(view, r)
           inputs == IF act = NoAction THEN {} ELSE UpdateInputs(p, r, (CHOOSE row \in found : TRUE).data)
           card   == [NoCard EXCEPT !.kind = "update", !.record = r, !.id = id, !.action = act.id, !.inputs = inputs]
<1>1. DetailCard(p, rs, roles, r, id) =
        IF r \notin view.records \/ found = {} THEN [status |-> 404, card |-> NoCard]
        ELSE [status |-> 200, card |-> card]
  BY DEF DetailCard
<1> HIDE DEF inputs, act, found
<1>2. card.action = act.id
  BY DEF NoCard
<1> HIDE DEF card
<1>3. r \in view.records /\ DetailCard(p, rs, roles, r, id).card = card
  BY <1>1
<1> QED  BY <1>2, <1>3, RecordActionAllowed DEF act

LEMMA DeleteAllowed ==
    ASSUME NEW p, PackFits(p), NEW rs, NEW roles, NEW r, NEW id, DeleteCard(p, rs, roles, r, id).status = 200
    PROVE  NotForbidden(p, DeleteCard(p, rs, roles, r, id).card.action, roles)
<1> DEFINE view  == ManagerView(p, roles)
           act   == RecordAction(view, r, "delete")
           found == {row \in rs[r] : row.id = id /\ BusinessId(p, r, row.data) # 0}
           bid   == IF found = {} THEN id ELSE BusinessId(p, r, (CHOOSE row \in found : TRUE).data)
           target == IF act.record = "Record" THEN bid ELSE id
           card  == [NoCard EXCEPT !.kind = "delete", !.record = r, !.id = id, !.action = act.id, !.target = target]
<1>1. DeleteCard(p, rs, roles, r, id) =
        IF r \notin view.records THEN [status |-> 404, card |-> NoCard]
        ELSE IF act = NoAction THEN [status |-> 403, card |-> NoCard]
        ELSE [status |-> 200, card |-> card]
  BY DEF DeleteCard
<1> HIDE DEF target, act
<1>2. card.action = act.id
  BY DEF NoCard
<1> HIDE DEF card
<1>3. r \in view.records /\ DeleteCard(p, rs, roles, r, id).card = card
  BY <1>1
<1> QED  BY <1>2, <1>3, RecordActionAllowed DEF act

-----------------------------------------------------------------------------
(* The cards people look at.                                                *)

CardsInv ==
    /\ \E st \in Starts : pack = st.pack
    /\ cards = [u \in Users |-> cards[u]]
    /\ \A u \in Users : /\ cards[u].answer = 403 => cards[u].denied
                       /\ NotForbidden(pack, cards[u].card.action, cards[u].roles)

LEMMA CardsStart == CardsInit(Starts) => CardsInv
<1> SUFFICES ASSUME CardsInit(Starts) PROVE CardsInv
  OBVIOUS
<1>1. \E st \in Starts : pack = st.pack
  BY DEF CardsInit
<1>2. cards = [u \in Users |-> Away]
  BY DEF CardsInit
<1>3. Away.answer # 403 /\ Away.card.action = NoAction.id
  BY DEF Away, NoCard
<1> HIDE DEF Away
<1>4. \A u \in Users : cards[u] = Away
  BY <1>2
<1>5. NotForbidden(pack, Away.card.action, Away.roles)
  BY <1>3, NothingAllowed
<1> QED  BY <1>1, <1>2, <1>3, <1>4, <1>5 DEF CardsInv

LEMMA OpenedSafe ==
    ASSUME CardsInv, NEW u \in Users, NEW answer, NEW roles, NEW parent, Opened(u, answer, roles, parent),
           answer.status = 200 => NotForbidden(pack, answer.card.action, roles)
    PROVE  CardsInv'
<1> DEFINE new == [Away EXCEPT !.card = answer.card, !.roles = roles, !.parent = parent]
<1>1. cards' = [cards EXCEPT ![u] = new] /\ pack' = pack /\ answer.status = 200
  BY DEF Opened
<1>2. new.answer # 403 /\ NotForbidden(pack, new.card.action, new.roles)
  <2>1. new.answer = 0 /\ new.card = answer.card /\ new.roles = roles
    BY DEF Away
  <2> QED  BY <1>1, <2>1
<1> HIDE DEF new
<1>3. /\ \A t \in Users : cards'[t] = IF t = u THEN new ELSE cards[t]
      /\ cards' = [t \in Users |-> cards'[t]]
  BY <1>1 DEF CardsInv
<1> QED  BY <1>1, <1>2, <1>3 DEF CardsInv

LEMMA AnsweredSafe ==
    ASSUME CardsInv, NEW u \in Users, NEW status, NEW hook, Answered(u, status, hook), pack' = pack,
           status = 403 => 403 \in {hook.pre, hook.post}
    PROVE  CardsInv'
<1> DEFINE new == [Away EXCEPT !.answer = status, !.denied = 403 \in {hook.pre, hook.post}]
<1>1. cards' = [cards EXCEPT ![u] = new]
  BY DEF Answered
<1>2. (new.answer = 403 => new.denied) /\ new.card.action = NoAction.id
  BY DEF Away, NoCard
<1> HIDE DEF new
<1>3. /\ \A t \in Users : cards'[t] = IF t = u THEN new ELSE cards[t]
      /\ cards' = [t \in Users |-> cards'[t]]
  BY <1>1 DEF CardsInv
<1>4. NotForbidden(pack, new.card.action, new.roles)
  BY <1>2, NothingAllowed
<1> QED  BY <1>2, <1>3, <1>4 DEF CardsInv

LEMMA SubmitSafe ==
    ASSUME CardsInv, NEW u \in Users, Submit(u)
    PROVE  CardsInv'
<1> DEFINE st(hook) == SubmitStatus(pack, cards[u].card, cards[u].roles, hook.pre)
<1>1. PICK hook \in HooksOf(pack, cards[u].card) :
            \/ Answered(u, st(hook), hook) \/ Answered(u, hook.post, hook) \/ Answered(u, 400, Silent)
  BY DEF Submit
<1>2. pack' = pack
  BY Zenon DEF Submit
<1>3. st(hook) = 403 => hook.pre = 403
  <2>1. NotForbidden(pack, cards[u].card.action, cards[u].roles)
    BY Zenon DEF CardsInv
  <2>2. \A pre : SubmitStatus(pack, cards[u].card, cards[u].roles, pre) = 403 => pre = 403
    BY <2>1, Zenon DEF NotForbidden
  <2> QED  BY <2>2
<1> HIDE DEF st
<1> QED  BY <1>1, <1>2, <1>3, AnsweredSafe

LEMMA CardsSteps == CardsInv /\ [CardsNext]_managerVars => CardsInv'
<1> SUFFICES ASSUME CardsInv, [CardsNext]_managerVars PROVE CardsInv'
  OBVIOUS
<1>1. PackFits(pack)
  BY CardsAssumption DEF CardsInv
<1>2. ASSUME NEW u \in Users, NEW r, NEW ctx, NEW roles, OpenCreate(u, r, ctx, roles) PROVE CardsInv'
  BY <1>1, <1>2, CreateAllowed, OpenedSafe DEF OpenCreate
<1>3. ASSUME NEW u \in Users, NEW r, NEW id, NEW roles, OpenDetail(u, r, id, roles) PROVE CardsInv'
  BY <1>1, <1>3, DetailAllowed, OpenedSafe DEF OpenDetail
<1>4. ASSUME NEW u \in Users, NEW r, NEW id, NEW roles, OpenDelete(u, r, id, roles) PROVE CardsInv'
  BY <1>1, <1>4, DeleteAllowed, OpenedSafe DEF OpenDelete
<1>5. ASSUME pack' = pack, cards' = cards PROVE CardsInv'
  BY <1>5, ZenonT(60) DEF CardsInv
<1>6. CASE CardsNext
  <2>1. CASE \E u \in {u \in Users : cards[u].card = NoCard}, r \in DOMAIN rows, roles \in RoleSets :
                \/ OpenCreate(u, r, NoParent, roles)
                \/ \E p \in DOMAIN rows, id \in RowIds :
                       RowOf(p, id) # {} /\ OpenCreate(u, r, [record |-> p, id |-> id], roles)
                \/ \E id \in RowIds : OpenDetail(u, r, id, roles)
                \/ \E id \in RowIds : RowOf(r, id) # {} /\ OpenDelete(u, r, id, roles)
    BY <1>2, <1>3, <1>4, <2>1, Zenon
  <2>2. CASE \E u \in Users : Submit(u)
    BY <2>2, SubmitSafe
  <2>3. CASE \E r \in DOMAIN rows, id \in RowIds :
                \/ \E f \in Range(pack.own), v \in Given : ForeignUpdate(r, id, f, v)
                \/ ForeignDelete(r, id)
    BY <1>5, <2>3 DEF ForeignUpdate, ForeignDelete
  <2> QED  BY <1>6, <2>1, <2>2, <2>3, Zenon DEF CardsNext
<1>7. CASE UNCHANGED managerVars
  BY <1>5, <1>7 DEF managerVars
<1> QED  BY <1>6, <1>7

(* No card offers what the runtime then forbids, for any pack, any roles    *)
(* and any number of people (manager_view, manager_submit_response).        *)
THEOREM CardsSafe == CardsSpec => []OfferedAccepted
<1>1. CardsInv => OfferedAccepted
  BY DEF CardsInv, OfferedAccepted
<1> QED  BY <1>1, CardsStart, CardsSteps, PTL DEF CardsSpec

=============================================================================
