-------------------------- MODULE RuntimeSnapshot ---------------------------
(***************************************************************************)
(* The runtime snapshot of core/generic_runtime.rs: deployments with their *)
(* revisions and traffic weights, and admin surfaces.  All of it is in     *)
(* memory behind one RwLock, so each operation here is one step; what      *)
(* interleaves is the pipeline of hooks around it (Admin).                 *)
(***************************************************************************)
EXTENDS Integers, Sequences, FiniteSets, FiniteSetsExt

CONSTANTS
    Deps,      \* deployment ids
    Bundles,   \* bundle ids
    NoBundle,
    Surfaces,  \* admin surface ids
    Paths,     \* admin paths
    NoPath,
    Full       \* 10000 basis points

ASSUME SnapshotAssumption ==
    /\ NoBundle \notin Bundles
    /\ NoPath \notin Paths
    /\ Full \in Nat \ {0}

Lifecycles == {"staged", "warming", "ready", "draining", "inactive"}

(* A deployment: its bundle (NoBundle: there is none) and its revisions in  *)
(* the order of the vector.                                                 *)
NoDep     == [bundle |-> NoBundle, revs |-> << >>]
EmptySnap == [deps |-> [d \in Deps |-> NoDep], surf |-> [s \in Surfaces |-> NoPath]]

Known(snap, d)  == snap.deps[d].bundle # NoBundle
RevIds(dep)     == {dep.revs[i].id : i \in DOMAIN dep.revs}
Changed(snap)   == [ok |-> TRUE, snap |-> snap]
Refused(snap)   == [ok |-> FALSE, snap |-> snap]
WithRevs(snap, d, revs) == Changed([snap EXCEPT !.deps[d].revs = revs])

(* validate_binding_id and validate_admin_mount leave a path of the set.    *)
RegisterSurface(snap, s, path) ==
    IF path = NoPath \/ \E o \in Surfaces \ {s} : snap.surf[o] = path
    THEN Refused(snap)
    ELSE Changed([snap EXCEPT !.surf[s] = path])

(* The members of a set of numbers in increasing order.                     *)
InOrder(S) ==
    [n \in 1 .. Cardinality(S) |-> CHOOSE i \in S : Cardinality({j \in S : j < i}) = n - 1]

(* The place of an id in a sequence of entries.                             *)
PlaceOf(entries, id) == CHOOSE i \in DOMAIN entries : entries[i].id = id

(* stage: a new revision, then the vector is sorted by revision id.         *)
Stage(snap, d, bundle, r) ==
    LET dep == snap.deps[d]
        ids == InOrder(RevIds(dep) \cup {r})
        Rev(id) == IF id = r THEN [id |-> r, life |-> "staged", w |-> 0] ELSE dep.revs[PlaceOf(dep.revs, id)]
    IN  IF (Known(snap, d) /\ dep.bundle # bundle) \/ r \in RevIds(dep)
        THEN Refused(snap)
        ELSE Changed([snap EXCEPT !.deps[d] =
                [bundle |-> bundle, revs |-> [n \in DOMAIN ids |-> Rev(ids[n])]]])

(* Slip: a drained revision can be warmed again.                            *)
WarmableAny(rev) == rev.life # "ready"

Warmable(rev) == rev.life \in {"staged", "warming"}

(* warm and activate: transition_deployment_revision, the last that fits.   *)
Warm(snap, d) ==
    LET revs == snap.deps[d].revs
        fits == {i \in DOMAIN revs : Warmable(revs[i])}
    IN  IF ~Known(snap, d) \/ fits = {} THEN Refused(snap)
        ELSE WithRevs(snap, d,
                [revs EXCEPT ![CHOOSE i \in fits : \A j \in fits : j <= i].life = "ready"])

Drain(snap, d, r) ==
    LET revs == snap.deps[d].revs
    IN  IF ~Known(snap, d) \/ r \notin RevIds(snap.deps[d]) THEN Refused(snap)
        ELSE WithRevs(snap, d, [i \in DOMAIN revs |->
                IF revs[i].id = r THEN [revs[i] EXCEPT !.life = "draining", !.w = 0] ELSE revs[i]])

Deactivate(snap, d) ==
    LET revs == snap.deps[d].revs
    IN  IF ~Known(snap, d) THEN Refused(snap)
        ELSE WithRevs(snap, d, [i \in DOMAIN revs |->
                [revs[i] EXCEPT !.w = 0,
                                !.life = IF revs[i].life = "ready" THEN "inactive" ELSE @]])

(* The sums of the first i weights, for all i.                              *)
Sums(ws) ==
    LET sum[i \in 0 .. Len(ws)] == IF i = 0 THEN 0 ELSE sum[i - 1] + ws[i] IN sum

SumOf(entries) == Sums([i \in DOMAIN entries |-> entries[i].w])[Len(entries)]

NoRepeat(entries) == \A i, j \in DOMAIN entries : entries[i].id = entries[j].id => i = j

(* validate_traffic_entries                                                 *)
TrafficValid(entries) == NoRepeat(entries) /\ SumOf(entries) = Full

(* set_traffic: every revision gets the weight of its entry, or none.       *)
SetTraffic(snap, d, entries) ==
    LET revs == snap.deps[d].revs
    IN  IF \/ ~TrafficValid(entries)
           \/ ~Known(snap, d)
           \/ \E i \in DOMAIN entries : entries[i].id \notin RevIds(snap.deps[d])
        THEN Refused(snap)
        ELSE WithRevs(snap, d, [i \in DOMAIN revs |->
                [revs[i] EXCEPT !.w = IF \E j \in DOMAIN entries : entries[j].id = revs[i].id
                                      THEN entries[PlaceOf(entries, revs[i].id)].w ELSE 0]])

(* A runtime-config document: blocks of revisions in file order, surfaces,  *)
(* and whether its schema, references and hooks are the supported ones.     *)
BlocksOf(config, d) ==
    LET at == InOrder({i \in DOMAIN config.blocks : config.blocks[i].dep = d})
    IN  [n \in DOMAIN at |-> config.blocks[at[n]]]

(* validate_runtime_config and validate_runtime_extensions                  *)
ConfigValid(config) ==
    /\ config.supported
    /\ \A d \in Deps :
          LET bs == BlocksOf(config, d)
          IN  bs # << >> => /\ Cardinality({bs[i].bundle : i \in DOMAIN bs}) = 1
                            /\ TrafficValid(bs)
    /\ \A i, j \in DOMAIN config.surfaces :
          config.surfaces[i].path = config.surfaces[j].path => i = j

(* apply_runtime_config: after the checks everything is replaced; of        *)
(* surfaces with one id the last stays, and no mount collides any more.     *)
ApplyConfig(snap, config) ==
    IF ~ConfigValid(config) THEN Refused(snap)
    ELSE LET Surf(s) == LET at == {i \in DOMAIN config.surfaces : config.surfaces[i].id = s}
                        IN  IF at = {} THEN NoPath ELSE config.surfaces[Max(at)].path
             Dep(d) == LET bs == BlocksOf(config, d)
                       IN  IF bs = << >> THEN NoDep
                           ELSE [bundle |-> bs[1].bundle,
                                 revs |-> [i \in DOMAIN bs |->
                                             [id |-> bs[i].id, life |-> "ready", w |-> bs[i].w]]]
         IN  Changed([deps |-> [d \in Deps |-> Dep(d)], surf |-> [s \in Surfaces |-> Surf(s)]])

-----------------------------------------------------------------------------
(* selectable_revisions: their places                                       *)
Selectable(revs) == {i \in DOMAIN revs : revs[i].life = "ready" /\ revs[i].w > 0}

(* The weights that take part in the selection.                             *)
Shares(revs) == [i \in DOMAIN revs |-> IF i \in Selectable(revs) THEN revs[i].w ELSE 0]

(* Slip: the boundary of a weight belongs to the revision before it.        *)
HitsLate(cursor, w) == cursor <= w

Hits(cursor, w) == cursor < w

(* select_revision: at the i-th selectable revision the cursor is what is   *)
(* left after the weights before it.  0 is that there is none.              *)
SelectRevision(snap, d, selector) ==
    LET revs  == snap.deps[d].revs
        sums  == Sums(Shares(revs))
        hit   == {i \in Selectable(revs) :
                    Hits((selector % sums[Len(revs)]) - sums[i - 1], revs[i].w)}
    IN  IF Selectable(revs) = {} \/ hit = {} THEN 0 ELSE revs[Min(hit)].id

=============================================================================
