--------------------------- MODULE RegistryProofs ---------------------------
(***************************************************************************)
(* What every registry on disk satisfies, for every set of deployments,    *)
(* aliases and users, however their loads and saves interleave.            *)
(***************************************************************************)
EXTENDS RegistryFile, TLAPS

(* The invariant of a registry value.  What is retired is marked, which is  *)
(* what PathsExclusiveUntilRevived needs when a retired entry is revived.   *)
Exclusive(reg) ==
    \A i, j \in DepIds : Clash(reg, i, j) => i \in reg.retired \/ j \in reg.retired
Marked(reg) ==
    \A i \in DepIds : \A n \in DOMAIN reg.deps[i] :
        reg.deps[i][n].status = "retired" => i \in reg.retired
Recorded(reg) == \A d \in reg.deliveries : Exists(reg, HookId[d])

RegInv(reg) ==
    /\ reg \in Registries
    /\ Gated(reg) /\ Resolves(reg) /\ Exclusive(reg) /\ Marked(reg) /\ Recorded(reg)

LEMMA SeqFacts ==
    ASSUME NEW S, NEW q \in Seq(S)
    PROVE  /\ Len(q) \in Nat /\ DOMAIN q = 1 .. Len(q)
           /\ \A k \in DOMAIN q : q[k] \in S
           /\ q # << >> => 1 \in DOMAIN q
OBVIOUS

LEMMA SetFirst ==
    ASSUME NEW S, NEW q \in Seq(S), q # << >>, NEW e \in S
    PROVE  /\ [q EXCEPT ![1] = e] \in Seq(S)
           /\ DOMAIN [q EXCEPT ![1] = e] = DOMAIN q
           /\ [q EXCEPT ![1] = e] # << >>
           /\ [q EXCEPT ![1] = e][1] = e
           /\ \A k \in DOMAIN q : k # 1 => [q EXCEPT ![1] = e][k] = q[k]
OBVIOUS

LEMMA AppendFacts ==
    ASSUME NEW S, NEW q \in Seq(S), NEW e \in S
    PROVE  /\ Append(q, e) \in Seq(S)
           /\ Append(q, e) # << >>
           /\ \A k \in DOMAIN q : k \in DOMAIN Append(q, e) /\ Append(q, e)[k] = q[k]
           /\ \A k \in DOMAIN Append(q, e) : k \in DOMAIN q \/ Append(q, e)[k] = e
OBVIOUS

LEMMA EmptyInv == RegInv(EmptyRegistry)
<1>1. EmptyRegistry \in Registries
  BY DEF EmptyRegistry, Registries
<1>2. \A i \in DepIds : DOMAIN EmptyRegistry.deps[i] = {}
  BY DEF EmptyRegistry
<1>3. Gated(EmptyRegistry) /\ Exclusive(EmptyRegistry) /\ Marked(EmptyRegistry)
  <2>1. EmptyRegistry.audits = {}
    BY DEF EmptyRegistry
  <2> QED  BY <2>1, <1>2 DEF Gated, Exclusive, Clash, Marked
<1>4. Resolves(EmptyRegistry) /\ Recorded(EmptyRegistry)
  BY DEF EmptyRegistry, Resolves, Recorded
<1> QED  BY <1>1, <1>3, <1>4 DEF RegInv

-----------------------------------------------------------------------------
(* The fields of a registry, and that the parts of one may be replaced.     *)
LEMMA Parts ==
    ASSUME NEW reg \in Registries
    PROVE  /\ reg.deps \in [DepIds -> Seq(Entry)]
           /\ reg.aliases \in [Scopes -> [AliasNames -> DepIds \cup {NoTarget}]]
           /\ reg.reports \in [DepIds -> Seq(Reports)]
           /\ reg.audits \subseteq DepIds \X Nat
           /\ reg.deliveries \subseteq Deliveries
           /\ reg.retired \subseteq DepIds
BY DEF Registries

(* update_deployment: nothing but the first entry of the id changes.        *)
LEMMA UpdateFacts ==
    ASSUME NEW reg \in Registries, NEW i \in DepIds, Exists(reg, i), NEW e \in Entry,
           NEW new, new = UpdateDeployment(reg, i, e)
    PROVE  /\ new \in Registries
           /\ \A j \in DepIds : DOMAIN new.deps[j] = DOMAIN reg.deps[j]
           /\ \A j \in DepIds : Exists(reg, j) => Exists(new, j)
           /\ \A j \in DepIds : \A n \in DOMAIN reg.deps[j] :
                 ~(j = i /\ n = 1) => new.deps[j][n] = reg.deps[j][n]
           /\ new.deps[i][1] = e /\ 1 \in DOMAIN reg.deps[i]
           /\ new.aliases = reg.aliases /\ new.reports = reg.reports
           /\ new.audits = reg.audits /\ new.deliveries = reg.deliveries
           /\ new.retired = reg.retired
<1> DEFINE q == [reg.deps[i] EXCEPT ![1] = e]
<1>1. reg.deps \in [DepIds -> Seq(Entry)] /\ reg.deps[i] # << >>
  BY Parts DEF Exists
<1>2. /\ q \in Seq(Entry) /\ DOMAIN q = DOMAIN reg.deps[i] /\ q # << >> /\ q[1] = e
      /\ \A k \in DOMAIN reg.deps[i] : k # 1 => q[k] = reg.deps[i][k]
  BY <1>1, SetFirst
<1>3. 1 \in DOMAIN reg.deps[i]
  BY <1>1, SeqFacts
<1>4. /\ new.deps = [reg.deps EXCEPT ![i] = q]
      /\ new.aliases = reg.aliases /\ new.reports = reg.reports
      /\ new.audits = reg.audits /\ new.deliveries = reg.deliveries
      /\ new.retired = reg.retired
  BY DEF UpdateDeployment, Registries
<1> HIDE DEF q
<1>5. new \in Registries
  <2>1. [reg.deps EXCEPT ![i] = q] \in [DepIds -> Seq(Entry)]
    BY <1>1, <1>2
  <2>2. new = [reg EXCEPT !.deps = [reg.deps EXCEPT ![i] = q]]
    BY DEF UpdateDeployment, q
  <2> QED  BY <2>1, <2>2 DEF Registries
<1>6. new.deps[i] = q /\ \A j \in DepIds : j # i => new.deps[j] = reg.deps[j]
  BY <1>1, <1>4
<1> QED  BY <1>2, <1>3, <1>4, <1>5, <1>6 DEF Exists

WithAudits(reg, au) == [reg EXCEPT !.audits = au]

(* The parts of Gated: the trail has a promotion of i, and every promotion  *)
(* in it was made on a report that allows it.                               *)
InTrail(au, i)  == \E promoted \in au : promoted[1] = i
Passed(reg, au) ==
    \A promoted \in au :
        LET i == promoted[1]
            k == promoted[2]
        IN  k \in DOMAIN reg.reports[i] /\ PublicOk(i, reg.reports[i][k])

(* A first entry may move to any routable status or to rolled_back, under   *)
(* the same path, and become public with its report and audit event there.  *)
LEMMA UpdateKeeps ==
    ASSUME NEW reg, RegInv(reg), NEW i \in DepIds, Exists(reg, i), NEW e \in Entry,
           e.path = First(reg, i).path,
           e.status \in Routable \cup {"rolled_back"},
           NEW au \in SUBSET (DepIds \X Nat),
           reg.audits \subseteq au, Passed(reg, au),
           (e.status = "active_public" \/ e.vis = "public") => InTrail(au, i),
           NEW new, new = WithAudits(UpdateDeployment(reg, i, e), au)
    PROVE  RegInv(new) /\ Exists(new, i) /\ First(new, i) = e /\ new.aliases = reg.aliases
<1> DEFINE u == UpdateDeployment(reg, i, e)
<1>1. reg \in Registries
  BY DEF RegInv
<1>2. /\ u \in Registries
      /\ \A j \in DepIds : DOMAIN u.deps[j] = DOMAIN reg.deps[j]
      /\ \A j \in DepIds : Exists(reg, j) => Exists(u, j)
      /\ \A j \in DepIds : \A n \in DOMAIN reg.deps[j] :
            ~(j = i /\ n = 1) => u.deps[j][n] = reg.deps[j][n]
      /\ u.deps[i][1] = e /\ 1 \in DOMAIN reg.deps[i]
      /\ u.aliases = reg.aliases /\ u.reports = reg.reports
      /\ u.audits = reg.audits /\ u.deliveries = reg.deliveries
      /\ u.retired = reg.retired
  BY <1>1, UpdateFacts
<1> HIDE DEF u
<1>3. /\ new \in Registries /\ new.audits = au
      /\ new.deps = u.deps /\ new.aliases = u.aliases /\ new.reports = u.reports
      /\ new.deliveries = u.deliveries /\ new.retired = u.retired
  <2>1. new = [u EXCEPT !.audits = au]
    BY DEF u, WithAudits
  <2> QED  BY <2>1, <1>2 DEF Registries
<1>4. \A j \in DepIds : \A n \in DOMAIN reg.deps[j] :
         /\ new.deps[j][n].path = reg.deps[j][n].path
         /\ Unretired(new, j, n) => Unretired(reg, j, n) \/ (j = i /\ n = 1)
  BY <1>2, <1>3 DEF First, Unretired
<1>5. Gated(new)
  <2>1. Passed(new, au)
    BY <1>2, <1>3 DEF Passed
  <2>2. ASSUME NEW j \in DepIds, NEW n \in DOMAIN reg.deps[j],
               new.deps[j][n].status = "active_public" \/ new.deps[j][n].vis = "public"
        PROVE  InTrail(au, j)
    <3>1. CASE j = i /\ n = 1
      BY <3>1, <2>2, <1>2, <1>3
    <3>2. CASE ~(j = i /\ n = 1)
      <4>1. new.deps[j][n] = reg.deps[j][n]
        BY <3>2, <1>2, <1>3
      <4>2. InTrail(reg.audits, j)
        BY <4>1, <2>2 DEF RegInv, Gated, InTrail
      <4> QED  BY <4>2 DEF InTrail
    <3> QED  BY <3>1, <3>2
  <2> QED  BY <2>1, <2>2, <1>2, <1>3 DEF Gated, Passed, InTrail
<1>6. Resolves(new)
  <2> SUFFICES ASSUME NEW s \in Scopes, NEW a \in AliasNames, new.aliases[s][a] # NoTarget
               PROVE  LET j == new.aliases[s][a]
                      IN  /\ Exists(new, j) /\ ScopeOf[j] = s
                          /\ First(new, j).status \in Routable \cup {"rolled_back"}
    BY DEF Resolves
  <2> DEFINE j == reg.aliases[s][a]
  <2>1. j \in DepIds /\ new.aliases[s][a] = j
    BY <1>1, <1>2, <1>3, Parts
  <2>2. Exists(reg, j) /\ ScopeOf[j] = s /\ First(reg, j).status \in Routable \cup {"rolled_back"}
    BY <2>1 DEF RegInv, Resolves
  <2>3. 1 \in DOMAIN reg.deps[j] /\ Exists(new, j)
    BY <1>1, <1>2, <1>3, <2>1, <2>2, Parts, SeqFacts DEF Exists
  <2>4. First(new, j).status \in Routable \cup {"rolled_back"}
    BY <1>2, <1>3, <2>1, <2>2, <2>3 DEF First
  <2> QED  BY <2>1, <2>2, <2>3, <2>4
<1>7. Marked(new)
  BY <1>2, <1>3 DEF RegInv, Marked, Routable
<1>8. Exclusive(new)
  <2> SUFFICES ASSUME NEW j \in DepIds, NEW k \in DepIds, Clash(new, j, k)
               PROVE  j \in reg.retired \/ k \in reg.retired
    BY <1>2, <1>3 DEF Exclusive
  <2>1. PICK n \in DOMAIN reg.deps[j], m \in DOMAIN reg.deps[k] :
           /\ j # k /\ Unretired(new, j, n) /\ Unretired(new, k, m)
           /\ new.deps[j][n].path = new.deps[k][m].path
    BY <1>2, <1>3 DEF Clash
  <2>2. reg.deps[j][n].path = reg.deps[k][m].path
    BY <2>1, <1>4
  <2>3. CASE Unretired(reg, j, n) /\ Unretired(reg, k, m)
    BY <2>1, <2>2, <2>3 DEF RegInv, Exclusive, Clash
  <2>4. CASE ~Unretired(reg, j, n)
    BY <2>4, <2>1 DEF RegInv, Marked, Unretired
  <2>5. CASE ~Unretired(reg, k, m)
    BY <2>5, <2>1 DEF RegInv, Marked, Unretired
  <2> QED  BY <2>3, <2>4, <2>5
<1>9. Recorded(new)
  <2> HookId \in [Deliveries -> DepIds] /\ reg.deliveries \subseteq Deliveries
    BY DeploymentAssumption, <1>1, Parts
  <2> QED  BY <1>2, <1>3 DEF RegInv, Recorded, Exists
<1> QED  BY <1>2, <1>3, <1>5, <1>6, <1>7, <1>8, <1>9 DEF RegInv, Exists, First

LEMMA FirstType ==
    ASSUME NEW reg \in Registries, NEW i \in DepIds, Exists(reg, i)
    PROVE  First(reg, i) \in Entry /\ 1 \in DOMAIN reg.deps[i]
<1>1. reg.deps[i] \in Seq(Entry) /\ reg.deps[i] # << >>
  BY Parts DEF Exists
<1> QED  BY <1>1, SeqFacts DEF First

(* The entry of a first deployment, as a status change leaves it.           *)
LEMMA FirstFacts ==
    ASSUME NEW reg \in Registries, NEW i \in DepIds, Exists(reg, i), NEW st \in Statuses,
           NEW e, e = [First(reg, i) EXCEPT !.status = st]
    PROVE  /\ First(reg, i) \in Entry /\ e \in Entry /\ 1 \in DOMAIN reg.deps[i]
           /\ e.path = First(reg, i).path /\ e.vis = First(reg, i).vis /\ e.status = st
<1>1. First(reg, i) \in Entry /\ 1 \in DOMAIN reg.deps[i]
  BY FirstType
<1> QED  BY <1>1 DEF Entry

LEMMA StatusKeeps ==
    ASSUME NEW reg, RegInv(reg), NEW i \in DepIds, Exists(reg, i),
           NEW st \in {"validated", "active_private", "rolled_back"},
           NEW au \in SUBSET (DepIds \X Nat),
           reg.audits \subseteq au, Passed(reg, au),
           NEW new, new = WithAudits(UpdateStatus(reg, i, st), au)
    PROVE  RegInv(new) /\ Exists(new, i) /\ First(new, i).status = st /\ new.aliases = reg.aliases
<1> DEFINE e == [First(reg, i) EXCEPT !.status = st]
<1>1. reg \in Registries /\ st \in Statuses
  BY DEF RegInv, Statuses
<1>2. /\ First(reg, i) \in Entry /\ e \in Entry /\ 1 \in DOMAIN reg.deps[i]
      /\ e.path = First(reg, i).path /\ e.vis = First(reg, i).vis /\ e.status = st
  BY <1>1, FirstFacts
<1>3. e.vis = "public" => InTrail(au, i)
  <2>1. e.vis = "public" => InTrail(reg.audits, i)
    BY <1>2 DEF RegInv, Gated, First, InTrail
  <2> QED  BY <2>1 DEF InTrail
<1>4. new = WithAudits(UpdateDeployment(reg, i, e), au)
  BY DEF UpdateStatus
<1> HIDE DEF e
<1>5. e.status \in Routable \cup {"rolled_back"} /\ e.status # "active_public"
  BY <1>2 DEF Routable
<1> QED  BY <1>2, <1>3, <1>4, <1>5, UpdateKeeps

-----------------------------------------------------------------------------
(* Each operation that succeeds keeps the invariant.                        *)
Keeps(reg, result) == result.ok => RegInv(result.reg)

LEMMA AuditsSame ==
    ASSUME NEW reg \in Registries
    PROVE  WithAudits(reg, reg.audits) = reg
BY DEF WithAudits, Registries

LEMMA StatusOnly ==
    ASSUME NEW reg, RegInv(reg), NEW i \in DepIds, Exists(reg, i),
           NEW st \in {"validated", "active_private", "rolled_back"}
    PROVE  /\ RegInv(UpdateStatus(reg, i, st)) /\ Exists(UpdateStatus(reg, i, st), i)
           /\ First(UpdateStatus(reg, i, st), i).status = st
           /\ UpdateStatus(reg, i, st).aliases = reg.aliases
<1> DEFINE e == [First(reg, i) EXCEPT !.status = st]
           u == UpdateStatus(reg, i, st)
<1>1. reg \in Registries /\ st \in Statuses
  BY DEF RegInv, Statuses
<1>2. e \in Entry
  BY <1>1, FirstFacts
<1>3. u = UpdateDeployment(reg, i, e)
  BY DEF UpdateStatus
<1>4. u \in Registries /\ u.audits = reg.audits
  BY <1>1, <1>2, <1>3, UpdateFacts
<1>5. WithAudits(u, reg.audits) = u
  BY <1>4, AuditsSame
<1>6. reg.audits \in SUBSET (DepIds \X Nat) /\ Passed(reg, reg.audits)
  BY <1>1, Parts DEF RegInv, Gated, Passed
<1> HIDE DEF u
<1>7. RegInv(u) /\ Exists(u, i) /\ First(u, i).status = st /\ u.aliases = reg.aliases
  BY <1>5, <1>6, StatusKeeps DEF u
<1> QED  BY <1>7 DEF u

LEMMA ValidateKeeps ==
    ASSUME NEW reg, RegInv(reg), NEW i \in DepIds
    PROVE  Keeps(reg, ValidateDeployment(reg, i)) /\ Keeps(reg, ActivatePrivate(reg, i))
<1>1. CASE Exists(reg, i)
  BY <1>1, StatusOnly DEF Keeps, ValidateDeployment, ActivatePrivate, Done
<1>2. CASE ~Exists(reg, i)
  BY <1>2 DEF Keeps, ValidateDeployment, ActivatePrivate, Refused
<1> QED  BY <1>1, <1>2

LEMMA PromotePrivateKeeps ==
    ASSUME NEW reg, RegInv(reg), NEW i \in DepIds, PromotePrivate(reg, i).ok
    PROVE  LET new == PromotePrivate(reg, i).reg
           IN  /\ RegInv(new) /\ Exists(new, i) /\ First(new, i).status = "active_private"
               /\ new.aliases = reg.aliases
<1>1. Exists(reg, i) /\ PromotePrivate(reg, i).reg = UpdateStatus(reg, i, "active_private")
  BY DEF PromotePrivate, Done, Refused
<1> QED  BY <1>1, StatusOnly

LEMMA PromotePublicKeeps ==
    ASSUME NEW reg, RegInv(reg), NEW i \in DepIds, PromotePublic(reg, i).ok
    PROVE  LET new == PromotePublic(reg, i).reg
           IN  /\ RegInv(new) /\ Exists(new, i) /\ First(new, i).status = "active_public"
               /\ new.aliases = reg.aliases
<1> DEFINE e  == [First(reg, i) EXCEPT !.status = "active_public", !.vis = "public"]
           u  == UpdateDeployment(reg, i, e)
           au == reg.audits \cup {<<i, Len(reg.reports[i])>>}
<1>1. /\ Exists(reg, i) /\ PublicGate(reg, i)
      /\ PromotePublic(reg, i).reg = Audited(u, i)
  BY DEF PromotePublic, Done, Refused
<1>2. /\ reg \in Registries /\ reg.reports[i] \in Seq(Reports)
      /\ reg.audits \subseteq DepIds \X Nat
  BY Parts DEF RegInv
<1>3. au \in SUBSET (DepIds \X Nat) /\ reg.audits \subseteq au
  BY <1>2
<1>4. First(reg, i) \in Entry
  BY <1>1, <1>2, FirstType
<1>5. e \in Entry /\ e.path = First(reg, i).path /\ e.status = "active_public"
  BY <1>4 DEF Entry, Statuses
<1>6. Passed(reg, au)
  <2>1. /\ Len(reg.reports[i]) \in DOMAIN reg.reports[i]
        /\ PublicOk(i, reg.reports[i][Len(reg.reports[i])])
    BY <1>1, <1>2 DEF PublicGate, Latest
  <2>2. Passed(reg, reg.audits)
    BY DEF RegInv, Gated, Passed
  <2> QED  BY <2>1, <2>2 DEF Passed
<1> HIDE DEF e
<1>7. u.audits = reg.audits /\ u.reports = reg.reports
  BY <1>1, <1>2, <1>5, UpdateFacts
<1>8. Audited(u, i) = WithAudits(u, au)
  BY <1>7 DEF Audited, WithAudits
<1>9. InTrail(au, i)
  <2>1. <<i, Len(reg.reports[i])>> \in au /\ <<i, Len(reg.reports[i])>>[1] = i
    OBVIOUS
  <2> QED  BY <2>1 DEF InTrail
<1>10. e.status \in Routable \cup {"rolled_back"}
  BY <1>5 DEF Routable
<1> HIDE DEF au
<1> QED  BY <1>1, <1>3, <1>5, <1>6, <1>8, <1>9, <1>10, UpdateKeeps

(* set_alias, promote_alias and rollback_alias move one alias.              *)
LEMMA SetAliasKeeps ==
    ASSUME NEW reg, RegInv(reg), NEW s \in Scopes, NEW a \in AliasNames, NEW i \in DepIds
    PROVE  Keeps(reg, SetAlias(reg, s, a, i))
<1> SUFFICES ASSUME SetAlias(reg, s, a, i).ok
             PROVE  RegInv(SetAlias(reg, s, a, i).reg)
  BY DEF Keeps
<1> DEFINE al  == [reg.aliases EXCEPT ![s][a] = i]
           new == [reg EXCEPT !.aliases = al]
<1>1. /\ Exists(reg, i) /\ ScopeOf[i] = s /\ First(reg, i).status \in Routable
      /\ SetAlias(reg, s, a, i).reg = new
  BY DEF SetAlias, Done, Refused
<1>2. /\ reg \in Registries
      /\ reg.aliases \in [Scopes -> [AliasNames -> DepIds \cup {NoTarget}]]
  BY Parts DEF RegInv
<1>3. /\ al \in [Scopes -> [AliasNames -> DepIds \cup {NoTarget}]]
      /\ \A t \in Scopes, b \in AliasNames :
            al[t][b] = IF t = s /\ b = a THEN i ELSE reg.aliases[t][b]
  BY <1>2
<1> HIDE DEF al
<1>4. /\ new \in Registries /\ new.aliases = al /\ new.deps = reg.deps
      /\ new.reports = reg.reports /\ new.audits = reg.audits
      /\ new.deliveries = reg.deliveries /\ new.retired = reg.retired
  BY <1>2, <1>3 DEF Registries
<1> HIDE DEF new
<1>5. Gated(new) /\ Marked(new) /\ Recorded(new)
  BY <1>4 DEF RegInv, Gated, Marked, Recorded, Exists
<1>6. Exclusive(new)
  BY <1>4 DEF RegInv, Exclusive, Clash, Unretired
<1>7. Resolves(new)
  BY <1>1, <1>3, <1>4 DEF RegInv, Resolves, Exists, First
<1> QED  BY <1>1, <1>4, <1>5, <1>6, <1>7 DEF RegInv

LEMMA PromoteAliasKeeps ==
    ASSUME NEW reg, RegInv(reg), NEW i \in DepIds, NEW a \in AliasNames, NEW public \in BOOLEAN
    PROVE  Keeps(reg, PromoteAlias(reg, i, a, public))
<1> DEFINE promoted == IF public THEN PromotePublic(reg, i) ELSE PromotePrivate(reg, i)
           aliased  == SetAlias(promoted.reg, ScopeOf[i], a, i)
<1> SUFFICES ASSUME promoted.ok, aliased.ok
             PROVE  RegInv(aliased.reg)
  BY DEF Keeps, PromoteAlias, Refused
<1>1. RegInv(promoted.reg)
  BY PromotePublicKeeps, PromotePrivateKeeps
<1>2. ScopeOf[i] \in Scopes
  BY DeploymentAssumption
<1> HIDE DEF promoted
<1> QED  BY <1>1, <1>2, SetAliasKeeps DEF Keeps

LEMMA RollbackKeeps ==
    ASSUME NEW reg, RegInv(reg), NEW s \in Scopes, NEW a \in AliasNames, NEW to \in DepIds
    PROVE  Keeps(reg, RollbackAlias(reg, s, a, to))
<1> DEFINE old    == reg.aliases[s][a]
           marked == IF old \notin {NoTarget, to} THEN UpdateStatus(reg, old, "rolled_back") ELSE reg
           moved  == SetAlias(marked, s, a, to)
<1> SUFFICES ASSUME moved.ok
             PROVE  RegInv(moved.reg)
  BY DEF Keeps, RollbackAlias, Refused
<1>1. old \in DepIds \cup {NoTarget}
  BY Parts DEF RegInv
<1>2. old # NoTarget => Exists(reg, old)
  BY DEF RegInv, Resolves
<1>3. RegInv(marked)
  <2>1. CASE old \notin {NoTarget, to}
    BY <2>1, <1>1, <1>2, StatusOnly
  <2>2. CASE old \in {NoTarget, to}
    BY <2>2
  <2> QED  BY <2>1, <2>2
<1> HIDE DEF marked
<1> QED  BY <1>3, SetAliasKeeps DEF Keeps

(* record_validation_report *)
LEMMA ReportKeeps ==
    ASSUME NEW reg, RegInv(reg), NEW i \in DepIds, NEW report \in Reports
    PROVE  Keeps(reg, RecordValidationReport(reg, i, report))
<1> SUFFICES ASSUME Exists(reg, i)
             PROVE  RegInv([reg EXCEPT !.reports[i] = Append(@, report)])
  BY DEF Keeps, RecordValidationReport, Done, Refused
<1> DEFINE q   == Append(reg.reports[i], report)
           rs  == [reg.reports EXCEPT ![i] = q]
           new == [reg EXCEPT !.reports = rs]
<1>1. reg \in Registries /\ reg.reports \in [DepIds -> Seq(Reports)]
  BY Parts DEF RegInv
<1>2. /\ q \in Seq(Reports)
      /\ \A k \in DOMAIN reg.reports[i] : k \in DOMAIN q /\ q[k] = reg.reports[i][k]
  BY <1>1, AppendFacts
<1>3. [reg EXCEPT !.reports[i] = Append(@, report)] = new
  OBVIOUS
<1> HIDE DEF q
<1>4. /\ rs \in [DepIds -> Seq(Reports)] /\ rs[i] = q
      /\ \A j \in DepIds : j # i => rs[j] = reg.reports[j]
  BY <1>1, <1>2
<1> HIDE DEF rs
<1>5. /\ new \in Registries /\ new.reports = rs /\ new.deps = reg.deps
      /\ new.aliases = reg.aliases /\ new.audits = reg.audits
      /\ new.deliveries = reg.deliveries /\ new.retired = reg.retired
  BY <1>1, <1>4 DEF Registries
<1> HIDE DEF new
<1>6. Gated(new)
  <2>1. Passed(reg, reg.audits) /\ reg.audits \subseteq DepIds \X Nat
    BY <1>1, Parts DEF RegInv, Gated, Passed
  <2>2. \A j \in DepIds : \A k \in DOMAIN reg.reports[j] :
           k \in DOMAIN rs[j] /\ rs[j][k] = reg.reports[j][k]
    BY <1>2, <1>4
  <2>3. Passed(new, reg.audits)
    <3> SUFFICES ASSUME NEW promoted \in reg.audits
                 PROVE  LET j == promoted[1]
                            k == promoted[2]
                        IN  k \in DOMAIN rs[j] /\ PublicOk(j, rs[j][k])
      BY <1>5 DEF Passed
    <3>1. /\ promoted[1] \in DepIds /\ promoted[2] \in DOMAIN reg.reports[promoted[1]]
          /\ PublicOk(promoted[1], reg.reports[promoted[1]][promoted[2]])
      BY <2>1 DEF Passed
    <3> QED  BY <3>1, <2>2
  <2>4. \A j \in DepIds : \A n \in DOMAIN new.deps[j] :
           (new.deps[j][n].status = "active_public" \/ new.deps[j][n].vis = "public") =>
              InTrail(reg.audits, j)
    BY <1>5 DEF RegInv, Gated, InTrail
  <2> QED  BY <2>3, <2>4, <1>5 DEF Gated, Passed, InTrail
<1>7. Marked(new) /\ Recorded(new) /\ Resolves(new)
  BY <1>5 DEF RegInv, Marked, Recorded, Resolves, Exists, First
<1>8. Exclusive(new)
  BY <1>5 DEF RegInv, Exclusive, Clash, Unretired
<1> QED  BY <1>3, <1>5, <1>6, <1>7, <1>8 DEF RegInv

(* create_deployment: the new entry is pending and private, and no other    *)
(* deployment that is not retired has its path.                             *)
LEMMA CreateKeeps ==
    ASSUME NEW reg, RegInv(reg), NEW r \in CreateRequests, ~CreateRefused(reg, r),
           NEW ds \in SUBSET Deliveries,
           \A d \in ds : d \in reg.deliveries \/ HookId[d] = r.id,
           NEW new,
           new = [CreateDeployment(reg, r).reg EXCEPT !.deliveries = ds]
    PROVE  RegInv(new)
<1> DEFINE e  == NewEntry(r)
           q  == Append(reg.deps[r.id], e)
           dp == [reg.deps EXCEPT ![r.id] = q]
<1>1. reg \in Registries /\ reg.deps \in [DepIds -> Seq(Entry)]
  BY Parts DEF RegInv
<1>2. /\ r.id \in DepIds /\ e \in Entry
      /\ e.status = "pending" /\ e.vis = "private" /\ e.path = r.path
  BY DEF CreateRequests, CreateRefused, NewEntry, Entry, Statuses
<1>3. new = [[reg EXCEPT !.deps[r.id] = Append(@, NewEntry(r))] EXCEPT !.deliveries = ds]
  BY DEF CreateDeployment, Done
<1> HIDE DEF e
<1>4. /\ q \in Seq(Entry) /\ q # << >>
      /\ \A k \in DOMAIN reg.deps[r.id] : k \in DOMAIN q /\ q[k] = reg.deps[r.id][k]
      /\ \A k \in DOMAIN q : k \in DOMAIN reg.deps[r.id] \/ q[k] = e
  BY <1>1, <1>2, AppendFacts, SMTT(60)
<1>5. new = [reg EXCEPT !.deps = dp, !.deliveries = ds]
  BY <1>3 DEF e
<1> HIDE DEF q
<1>6. /\ dp \in [DepIds -> Seq(Entry)] /\ dp[r.id] = q
      /\ \A j \in DepIds : j # r.id => dp[j] = reg.deps[j]
  BY <1>1, <1>2, <1>4
<1> HIDE DEF dp
<1>7. /\ new \in Registries /\ new.deps = dp /\ new.deliveries = ds
      /\ new.aliases = reg.aliases /\ new.audits = reg.audits
      /\ new.reports = reg.reports /\ new.retired = reg.retired
  BY <1>1, <1>5, <1>6 DEF Registries
<1>8. \A j \in DepIds : \A n \in DOMAIN new.deps[j] :
         \/ n \in DOMAIN reg.deps[j] /\ new.deps[j][n] = reg.deps[j][n]
         \/ j = r.id /\ new.deps[j][n] = e
  BY <1>4, <1>6, <1>7
<1>9. Gated(new) /\ Marked(new)
  BY <1>2, <1>7, <1>8 DEF RegInv, Gated, Marked
<1>10. \A j \in DepIds : Exists(reg, j) => Exists(new, j) /\ First(new, j) = First(reg, j)
  <2> SUFFICES ASSUME NEW j \in DepIds, Exists(reg, j)
               PROVE  Exists(new, j) /\ First(new, j) = First(reg, j)
    OBVIOUS
  <2>1. 1 \in DOMAIN reg.deps[j]
    BY <1>1, FirstType
  <2> QED  BY <2>1, <1>4, <1>6, <1>7 DEF Exists, First
<1>11. Resolves(new)
  <2> \A s \in Scopes, a \in AliasNames : reg.aliases[s][a] \in DepIds \cup {NoTarget}
    BY <1>1, Parts
  <2> QED  BY <1>7, <1>10 DEF RegInv, Resolves
<1>12. Recorded(new)
  <2>1. HookId \in [Deliveries -> DepIds] /\ reg.deliveries \subseteq Deliveries
    BY <1>1, Parts, DeploymentAssumption
  <2>2. Exists(new, r.id)
    BY <1>4, <1>6, <1>7 DEF Exists
  <2> QED  BY <2>1, <2>2, <1>7, <1>10 DEF RegInv, Recorded
<1>13. Exclusive(new)
  <2> SUFFICES ASSUME NEW j \in DepIds, NEW k \in DepIds, Clash(new, j, k),
                      j \notin reg.retired, k \notin reg.retired
               PROVE  FALSE
    BY <1>7 DEF Exclusive
  <2>1. PICK n \in DOMAIN new.deps[j], m \in DOMAIN new.deps[k] :
           /\ j # k /\ Unretired(new, j, n) /\ Unretired(new, k, m)
           /\ new.deps[j][n].path = new.deps[k][m].path
    BY DEF Clash
  <2>2. /\ \A i \in DepIds : i # r.id => \A l \in DOMAIN reg.deps[i] :
                ~(Unretired(reg, i, l) /\ reg.deps[i][l].path = r.path)
        /\ \A l \in DOMAIN reg.deps[r.id] : ~Unretired(reg, r.id, l)
    BY <1>2 DEF CreateRefused, PathConflict
  <2>3. CASE j = r.id
    <3>1. new.deps[j][n] = e
      BY <2>1, <2>2, <2>3, <1>8, SMTT(60) DEF Unretired
    <3>2. new.deps[k][m] = reg.deps[k][m] /\ m \in DOMAIN reg.deps[k]
      BY <2>1, <2>3, <1>8
    <3> QED  BY <3>1, <3>2, <2>1, <2>2, <2>3, <1>2 DEF Unretired
  <2>4. CASE k = r.id
    <3>1. new.deps[k][m] = e
      BY <2>1, <2>2, <2>4, <1>8, SMTT(60) DEF Unretired
    <3>2. new.deps[j][n] = reg.deps[j][n] /\ n \in DOMAIN reg.deps[j]
      BY <2>1, <2>4, <1>8
    <3> QED  BY <3>1, <3>2, <2>1, <2>2, <2>4, <1>2 DEF Unretired
  <2>5. CASE j # r.id /\ k # r.id
    <3>1. /\ new.deps[j][n] = reg.deps[j][n] /\ n \in DOMAIN reg.deps[j]
          /\ new.deps[k][m] = reg.deps[k][m] /\ m \in DOMAIN reg.deps[k]
      BY <2>1, <2>5, <1>8
    <3>2. Clash(reg, j, k)
      BY <3>1, <2>1, SMTT(60) DEF Clash, Unretired
    <3> QED  BY <3>2 DEF RegInv, Exclusive
  <2> QED  BY <2>3, <2>4, <2>5
<1> QED  BY <1>7, <1>9, <1>11, <1>12, <1>13 DEF RegInv

LEMMA CreateDeploymentKeeps ==
    ASSUME NEW reg, RegInv(reg), NEW r \in CreateRequests
    PROVE  Keeps(reg, CreateDeployment(reg, r))
<1> DEFINE new == CreateDeployment(reg, r).reg
<1> SUFFICES ASSUME ~CreateRefused(reg, r)
             PROVE  RegInv(new)
  BY DEF Keeps, CreateDeployment, Refused
<1>1. reg \in Registries /\ reg.deliveries \in SUBSET Deliveries
  BY Parts DEF RegInv
<1>2. new = [new EXCEPT !.deliveries = reg.deliveries]
  BY <1>1 DEF CreateDeployment, Done, Registries
<1> QED  BY <1>1, <1>2, CreateKeeps

LEMMA WebhookKeeps ==
    ASSUME NEW reg, RegInv(reg), NEW d \in Deliveries
    PROVE  Keeps(reg, Webhook(reg, d))
<1> DEFINE r == HookRequest(d)
           c == CreateDeployment(reg, r).reg
<1> SUFFICES ASSUME ~CreateRefused(reg, r)
             PROVE  RegInv([c EXCEPT !.deliveries = @ \cup {d}])
  BY DEF Keeps, Webhook, Done, Refused
<1>1. reg \in Registries /\ reg.deliveries \in SUBSET Deliveries
  BY Parts DEF RegInv
<1>2. r \in CreateRequests /\ r.id = HookId[d]
  BY DeploymentAssumption DEF HookRequest, CreateRequests
<1>3. c.deliveries = reg.deliveries
  BY <1>1 DEF CreateDeployment, Done, Registries
<1>4. [c EXCEPT !.deliveries = @ \cup {d}] = [c EXCEPT !.deliveries = reg.deliveries \cup {d}]
  BY <1>3
<1> HIDE DEF r
<1> QED  BY <1>1, <1>2, <1>4, CreateKeeps

(* retire and retire_old: the entries are marked, and their aliases go.     *)
LEMMA RetireAllKeeps ==
    ASSUME NEW reg, RegInv(reg), NEW ids \in SUBSET DepIds, \A i \in ids : Exists(reg, i)
    PROVE  RegInv(RetireAll(reg, ids))
<1> DEFINE new == RetireAll(reg, ids)
           dp  == [i \in DepIds |-> IF i \in ids THEN RetiredEntries(reg, i) ELSE reg.deps[i]]
           al  == [s \in Scopes |-> [a \in AliasNames |->
                      IF reg.aliases[s][a] \in ids THEN NoTarget ELSE reg.aliases[s][a]]]
<1>1. /\ reg \in Registries /\ reg.deps \in [DepIds -> Seq(Entry)]
      /\ reg.aliases \in [Scopes -> [AliasNames -> DepIds \cup {NoTarget}]]
      /\ reg.retired \subseteq DepIds
  BY Parts DEF RegInv
<1>2. \A i \in ids :
         /\ RetiredEntries(reg, i) \in Seq(Entry) /\ RetiredEntries(reg, i) # << >>
         /\ DOMAIN RetiredEntries(reg, i) = DOMAIN reg.deps[i] /\ 1 \in DOMAIN reg.deps[i]
         /\ \A n \in DOMAIN reg.deps[i] :
               /\ n # 1 => RetiredEntries(reg, i)[n] = reg.deps[i][n]
               /\ RetiredEntries(reg, i)[n].path = reg.deps[i][n].path
               /\ RetiredEntries(reg, i)[n].vis = reg.deps[i][n].vis
         /\ RetiredEntries(reg, i)[1].status = "retired"
  <2> SUFFICES ASSUME NEW i \in ids
               PROVE  /\ RetiredEntries(reg, i) \in Seq(Entry) /\ RetiredEntries(reg, i) # << >>
                      /\ DOMAIN RetiredEntries(reg, i) = DOMAIN reg.deps[i] /\ 1 \in DOMAIN reg.deps[i]
                      /\ \A n \in DOMAIN reg.deps[i] :
                            /\ n # 1 => RetiredEntries(reg, i)[n] = reg.deps[i][n]
                            /\ RetiredEntries(reg, i)[n].path = reg.deps[i][n].path
                            /\ RetiredEntries(reg, i)[n].vis = reg.deps[i][n].vis
                      /\ RetiredEntries(reg, i)[1].status = "retired"
    OBVIOUS
  <2> DEFINE e == [First(reg, i) EXCEPT !.status = "retired"]
  <2>1. i \in DepIds /\ Exists(reg, i) /\ "retired" \in Statuses
    BY DEF Statuses
  <2>2. /\ First(reg, i) \in Entry /\ e \in Entry /\ 1 \in DOMAIN reg.deps[i]
        /\ e.path = First(reg, i).path /\ e.vis = First(reg, i).vis /\ e.status = "retired"
    BY <1>1, <2>1, FirstFacts
  <2>3. reg.deps[i] \in Seq(Entry) /\ reg.deps[i] # << >>
    BY <1>1, <2>1 DEF Exists
  <2>4. RetiredEntries(reg, i) = [reg.deps[i] EXCEPT ![1] = e]
    BY DEF RetiredEntries
  <2> HIDE DEF e
  <2> QED  BY <2>2, <2>3, <2>4, SetFirst DEF First
<1>3. dp \in [DepIds -> Seq(Entry)] /\ al \in [Scopes -> [AliasNames -> DepIds \cup {NoTarget}]]
  BY <1>1, <1>2
<1>4. /\ new \in Registries /\ new.deps = dp /\ new.aliases = al
      /\ new.retired = reg.retired \cup ids
      /\ new.reports = reg.reports /\ new.audits = reg.audits /\ new.deliveries = reg.deliveries
  <2>1. new = [reg EXCEPT !.deps = dp, !.aliases = al, !.retired = reg.retired \cup ids]
    BY DEF RetireAll
  <2> HIDE DEF dp, al, new
  <2> QED  BY <1>1, <1>3, <2>1 DEF Registries
<1> HIDE DEF new
<1>5. \A j \in DepIds :
         /\ DOMAIN new.deps[j] = DOMAIN reg.deps[j]
         /\ Exists(reg, j) => Exists(new, j)
         /\ \A n \in DOMAIN reg.deps[j] :
               /\ new.deps[j][n].path = reg.deps[j][n].path
               /\ new.deps[j][n].vis = reg.deps[j][n].vis
               /\ \/ j \in ids /\ new.deps[j][n].status = "retired"
                  \/ new.deps[j][n] = reg.deps[j][n]
         /\ j \notin ids => new.deps[j] = reg.deps[j]
  BY <1>2, <1>4 DEF Exists
<1>6. Gated(new) /\ Marked(new)
  BY <1>4, <1>5 DEF RegInv, Gated, Marked
<1>7. Exclusive(new)
  BY <1>4, <1>5 DEF RegInv, Exclusive, Clash, Unretired
<1>8. Resolves(new)
  <2> SUFFICES ASSUME NEW s \in Scopes, NEW a \in AliasNames, new.aliases[s][a] # NoTarget
               PROVE  LET j == new.aliases[s][a]
                      IN  /\ Exists(new, j) /\ ScopeOf[j] = s
                          /\ First(new, j).status \in Routable \cup {"rolled_back"}
    BY DEF Resolves
  <2> DEFINE j == reg.aliases[s][a]
  <2>1. j \in DepIds \ ids /\ new.aliases[s][a] = j
    BY <1>1, <1>4
  <2> QED  BY <2>1, <1>5 DEF RegInv, Resolves, Exists, First
<1>9. Recorded(new)
  <2> HookId \in [Deliveries -> DepIds] /\ reg.deliveries \subseteq Deliveries
    BY DeploymentAssumption, <1>1, Parts
  <2> QED  BY <1>4, <1>5 DEF RegInv, Recorded
<1> QED  BY <1>4, <1>6, <1>7, <1>8, <1>9 DEF RegInv, new

LEMMA RetireKeeps ==
    ASSUME NEW reg, RegInv(reg), NEW i \in DepIds
    PROVE  Keeps(reg, Retire(reg, i))
BY RetireAllKeeps DEF Keeps, Retire, Done, Refused

LEMMA RetireOldKeeps ==
    ASSUME NEW reg, RegInv(reg), NEW s \in Scopes, NEW keep \in Nat
    PROVE  Keeps(reg, RetireOld(reg, s, keep))
<1> DEFINE ids == {i \in ActiveIds(reg, s) :
                      Cardinality({j \in ActiveIds(reg, s) : j > i}) >= keep}
<1>1. ids \in SUBSET DepIds /\ \A i \in ids : Exists(reg, i)
  BY DEF ActiveIds
<1>2. RetireOld(reg, s, keep) = Done(RetireAll(reg, ids))
  BY DEF RetireOld
<1> HIDE DEF ids
<1> QED  BY <1>1, <1>2, RetireAllKeeps DEF Keeps, Done

-----------------------------------------------------------------------------
(* The file, and what each user is about to write to it.                    *)
FileInv ==
    /\ RegInv(file)
    /\ \A u \in Users : RegInv(buf[u])
    /\ pc \in [Users -> {"idle", "truncate", "write"}] /\ torn \in BOOLEAN
    /\ mixed \subseteq Writers
    /\ DOMAIN buf = Users /\ buf \in [Users -> Registries]
    /\ ops \in 0 .. MaxOps

LEMMA ApplyKeeps ==
    ASSUME FileInv, NEW u \in Users, NEW result,
           Keeps(file, result), Apply(u, result)
    PROVE  FileInv'
<1>1. RegInv(result.reg) /\ result.reg \in Registries
  BY DEF Keeps, Apply, RegInv
<1>2. /\ buf' = [buf EXCEPT ![u] = result.reg] /\ file' = file /\ torn' = torn
      /\ pc[u] = "idle" /\ pc' = [pc EXCEPT ![u] = "truncate"]
      /\ mixed' = mixed /\ ops < MaxOps /\ ops' = ops + 1
  BY DEF Apply
<1>3. \A v \in Users : RegInv(buf'[v])
  BY <1>1, <1>2 DEF FileInv
<1>4. mixed' \subseteq Writers'
  BY <1>2 DEF FileInv, Writers
<1>5. RegInv(file')
  BY <1>2 DEF FileInv
<1>6. buf' \in [Users -> Registries] /\ DOMAIN buf' = Users
  BY <1>1, <1>2 DEF FileInv
<1>7. RegInv(file)' /\ \A v \in Users : RegInv(buf[v])'
  BY <1>3, <1>5 DEF RegInv, Gated, Resolves, Exclusive, Marked, Recorded, Clash, Unretired, Exists, First
<1>8. ops' \in 0 .. MaxOps
  BY <1>2, OpsAssumption DEF FileInv
<1>9. pc' \in [Users -> {"idle", "truncate", "write"}]
  BY <1>2 DEF FileInv
<1> QED  BY <1>2, <1>4, <1>6, <1>7, <1>8, <1>9 DEF FileInv

LEMMA FileInvariant == Spec => []FileInv
<1>1. Init => FileInv
  <2> SUFFICES ASSUME Init PROVE FileInv
    OBVIOUS
  <2>1. RegInv(file) /\ \A u \in Users : RegInv(buf[u])
    BY EmptyInv DEF Init
  <2>2. buf \in [Users -> Registries] /\ DOMAIN buf = Users
    BY EmptyInv DEF Init, RegInv
  <2>3. ops \in 0 .. MaxOps
    BY OpsAssumption DEF Init
  <2> QED  BY <2>1, <2>2, <2>3 DEF Init, FileInv
<1>2. FileInv /\ [Next]_vars => FileInv'
  <2> SUFFICES ASSUME FileInv, [Next]_vars PROVE FileInv'
    OBVIOUS
  <2>1. CASE UNCHANGED vars
    BY <2>1 DEF vars, FileInv, Writers
  <2>2. CASE Next
    <3>1. PICK u \in Users :
             \/ Create(u) \/ GhcrPublished(u) \/ Validate(u) \/ Activate(u) \/ Report(u)
             \/ Promote(u) \/ PromoteTo(u) \/ MoveAlias(u) \/ RetireSome(u)
             \/ Truncate(u) \/ Write(u) \/ Abandon(u)
      BY <2>2 DEF Next
    <3>2. RegInv(file)
      BY DEF FileInv
    <3>3. CASE Create(u)
      BY <3>2, <3>3, CreateDeploymentKeeps, ApplyKeeps DEF Create
    <3>4. CASE GhcrPublished(u)
      <4>1. PICK d \in Deliveries : Apply(u, Webhook(file, d))
        BY <3>4 DEF GhcrPublished
      <4>2. Keeps(file, Webhook(file, d))
        BY <3>2, WebhookKeeps
      <4> QED  BY <4>1, <4>2, ApplyKeeps
    <3>5. CASE Validate(u)
      BY <3>2, <3>5, ValidateKeeps, ApplyKeeps DEF Validate
    <3>6. CASE Activate(u)
      BY <3>2, <3>6, ValidateKeeps, ApplyKeeps DEF Activate
    <3>7. CASE Report(u)
      BY <3>2, <3>7, ReportKeeps, ApplyKeeps DEF Report
    <3>8. CASE Promote(u)
      <4>1. PICK i \in DepIds : \/ Apply(u, PromotePrivate(file, i))
                                \/ Apply(u, PromotePublic(file, i))
        BY <3>8 DEF Promote
      <4>2. Keeps(file, PromotePrivate(file, i)) /\ Keeps(file, PromotePublic(file, i))
        BY <3>2, PromotePrivateKeeps, PromotePublicKeeps DEF Keeps
      <4> QED  BY <3>2, <4>1, <4>2, ApplyKeeps
    <3>9. CASE PromoteTo(u)
      BY <3>2, <3>9, PromoteAliasKeeps, ApplyKeeps DEF PromoteTo
    <3>10. CASE MoveAlias(u)
      <4>1. PICK s \in Scopes, a \in AliasNames, i \in DepIds :
               \/ Apply(u, SetAlias(file, s, a, i))
               \/ Apply(u, RollbackAlias(file, s, a, i))
        BY <3>10 DEF MoveAlias
      <4>2. Keeps(file, SetAlias(file, s, a, i)) /\ Keeps(file, RollbackAlias(file, s, a, i))
        BY <3>2, SetAliasKeeps, RollbackKeeps
      <4> QED  BY <3>2, <4>1, <4>2, ApplyKeeps
    <3>11. CASE RetireSome(u)
      <4>1. CASE \E i \in DepIds : Apply(u, Retire(file, i))
        BY <3>2, <4>1, RetireKeeps, ApplyKeeps
      <4>2. CASE \E s \in Scopes, keep \in 0 .. 1 : Apply(u, RetireOld(file, s, keep))
        BY <3>2, <4>2, RetireOldKeeps, ApplyKeeps
      <4> QED  BY <3>11, <4>1, <4>2 DEF RetireSome
    <3>12. CASE Truncate(u)
      <4>1. RegInv(file)'
        BY <3>12, EmptyInv DEF Truncate
      <4>2. \A v \in Users : RegInv(buf[v])'
        BY <3>12 DEF FileInv, Truncate
      <4> QED  BY <3>12, <4>1, <4>2 DEF FileInv, Truncate, Writers
    <3>13. CASE Write(u)
      <4>1. RegInv(file)'
        BY <3>13, EmptyInv DEF Write, FileInv
      <4>2. /\ \A v \in Users : RegInv(buf[v])'
            /\ buf' \in [Users -> Registries] /\ DOMAIN buf' = Users
        BY <3>13, EmptyInv DEF FileInv, Write, RegInv
      <4>3. mixed' \subseteq Writers'
        BY <3>13 DEF FileInv, Write, Writers
      <4> QED  BY <3>13, <4>1, <4>2, <4>3 DEF FileInv, Write
    <3>14. CASE Abandon(u)
      <4>1. RegInv(file)'
        BY <3>14, EmptyInv DEF Abandon, FileInv
      <4>2. /\ \A v \in Users : RegInv(buf[v])'
            /\ buf' \in [Users -> Registries] /\ DOMAIN buf' = Users
        BY <3>14, EmptyInv DEF FileInv, Abandon, RegInv
      <4>3. mixed' \subseteq Writers'
        BY <3>14 DEF FileInv, Abandon, Writers
      <4> QED  BY <3>14, <4>1, <4>2, <4>3 DEF FileInv, Abandon
    <3> QED  BY <3>1, <3>3, <3>4, <3>5, <3>6, <3>7, <3>8, <3>9, <3>10, <3>11, <3>12,
                <3>13, <3>14
  <2> QED  BY <2>1, <2>2
<1> QED  BY <1>1, <1>2, PTL DEF Spec

(* deployment.rs: the registry, and what is about to be written, are always *)
(* well-formed: statuses that the operations know, one target per alias.    *)
THEOREM TypeCorrect == Spec => []TypeOK
<1>1. FileInv => TypeOK
  BY DEF FileInv, RegInv, TypeOK, Writers
<1> QED  BY <1>1, FileInvariant, PTL

(* promote_public: no interleaving of users, and no lost update, leaves a   *)
(* public deployment on disk without its report and its audit event.        *)
THEOREM GatedSafe == Spec => []PublicGated
<1>1. FileInv => PublicGated
  BY DEF FileInv, RegInv, PublicGated
<1> QED  BY <1>1, FileInvariant, PTL

(* set_alias, rollback_alias and retire: no alias on disk names a           *)
(* deployment that is missing, of another scope, pending or retired.        *)
THEOREM AliasSafe == Spec => []AliasResolves
<1>1. FileInv => AliasResolves
  BY DEF FileInv, RegInv, AliasResolves
<1> QED  BY <1>1, FileInvariant, PTL

(* check_base_path_conflict: base paths clash only by reviving a retired    *)
(* deployment.                                                              *)
THEOREM PathsSafe == Spec => []PathsExclusiveUntilRevived
<1>1. FileInv => PathsExclusiveUntilRevived
  BY DEF FileInv, RegInv, Exclusive, PathsExclusiveUntilRevived
<1> QED  BY <1>1, FileInvariant, PTL

(* handle_ghcr_published_webhook: a delivery on record has its deployment.  *)
THEOREM DeliverySafe == Spec => []DeliveredMeansCreated
<1>1. FileInv => DeliveredMeansCreated
  BY DEF FileInv, RegInv, Recorded, DeliveredMeansCreated
<1> QED  BY <1>1, FileInvariant, PTL

=============================================================================
