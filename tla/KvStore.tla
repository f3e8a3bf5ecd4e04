------------------------------ MODULE KvStore ------------------------------
(***************************************************************************)
(* The canonical store as its callers are promised it: every operation of  *)
(* KvOps happens at one point in time, on the keyspace it finds there, and *)
(* a refused operation changes nothing.  It implements RecordStore, which  *)
(* knows neither index entries nor counters.                               *)
(***************************************************************************)
EXTENDS KvOps

CONSTANTS
    NamedSets,     \* the op.unique_indexes that callers pass (all of them, or none)
    AllowReplace,  \* may a caller create over the id of a live record?
    MaxVer         \* bound: record versions

ASSUME NamedAssumption == NamedSets \subseteq SUBSET Indexes
ASSUME CallerAssumption == AllowReplace \in BOOLEAN /\ MaxVer \in Nat

VARIABLES
    db,      \* the keyspace
    issued,  \* history: auto ids handed out
    autos    \* history: how many creates were given an auto id

vars == <<db, issued, autos>>

TypeOK ==
    /\ db \in Keyspace
    /\ issued \subseteq Ids
    /\ autos \in Nat

Init ==
    /\ db = EmptyKeyspace
    /\ issued = {}
    /\ autos = 0

-----------------------------------------------------------------------------
(* A create writes a record when it is neither a replay nor a conflict.     *)
CreateInserts(d, op) ==
    ~IdemHit(d, op) /\ Conflicts(d, op.named, op.data, NoId) = {}

(* Inputs: an explicit id is a live record's only where callers may replace; *)
(* an auto id stays under the bound.                                        *)
CreateAllowed(d, op) ==
    /\ op.id = NoId => AutoIdInBound(d)
    /\ op.id \in Ids /\ Live(d, op.id) => AllowReplace

(* An operation that fails leaves the keyspace as it was.                   *)
Committed(r) == IF r.res.code = "ok" THEN r.db ELSE db

CreateStep ==
    \E op \in CreateOps(NamedSets) :
        /\ CreateAllowed(db, op)
        /\ db' = Committed(Create(db, op))
        /\ IF op.id = NoId /\ CreateInserts(db, op)
           THEN issued' = issued \cup {NextAutoId(db)} /\ autos' = autos + 1
           ELSE UNCHANGED <<issued, autos>>

UpdateStep ==
    \E op \in UpdateOps(NamedSets) :
        /\ db.ents[op.id].ver < MaxVer
        /\ db' = Committed(Update(db, op))
        /\ UNCHANGED <<issued, autos>>

DeleteStep ==
    \E i \in Ids : db' = Committed(Delete(db, i)) /\ UNCHANGED <<issued, autos>>

AppendEventStep ==
    /\ db.evseq < MaxSeq
    /\ \E p \in Payloads : db' = Committed(AppendEvent(db, p))
    /\ UNCHANGED <<issued, autos>>

StoreEvidenceStep ==
    /\ Len(db.evid) < MaxSeq
    /\ \E p \in Payloads : db' = Committed(StoreEvidence(db, p))
    /\ UNCHANGED <<issued, autos>>

RecordMigrationStep ==
    /\ \E m \in Migrations : db' = Committed(RecordMigration(db, m))
    /\ UNCHANGED <<issued, autos>>

Next ==
    \/ CreateStep
    \/ UpdateStep
    \/ DeleteStep
    \/ AppendEventStep
    \/ StoreEvidenceStep
    \/ RecordMigrationStep

Spec == Init /\ [][Next]_vars

-----------------------------------------------------------------------------
(* The stream as a sequence: the events numbered 1 .. evseq.                *)
EventLog(d) == [s \in 1 .. d.evseq |-> d.events[s]]

RS == INSTANCE RecordStore WITH
        ents <- db.ents, idem <- db.idem, events <- EventLog(db),
        evid <- db.evid, ledger <- db.ledger

UniqueHeldIn(d) ==
    \A x \in Indexes : \A i, j \in LiveIds(d) :
        i # j /\ d.ents[i].data[x] # Absent
            => d.ents[i].data[x] # d.ents[j].data[x]

IndexCoversIn(d) ==
    \A x \in Indexes : \A i \in LiveIds(d) :
        d.ents[i].data[x] # Absent => d.uniq[x][d.ents[i].data[x]] = i

IndexExactIn(d) ==
    \A x \in Indexes : \A v \in Values :
        d.uniq[x][v] # NoId =>
            /\ Live(d, d.uniq[x][v])
            /\ d.ents[d.uniq[x][v]].data[x] = v

(* kv.rs, create and update: no two live records hold the same value of a   *)
(* unique index.  Nothing compares records with each other: it rests on the *)
(* uniq/ entries staying in step with every write and delete.               *)
UniqueHeld == UniqueHeldIn(db)

(* Why UniqueHeld is inductive: every indexed value of a live record is     *)
(* owned by that record, so the conflict lookup cannot miss it.             *)
IndexCovers == IndexCoversIn(db)

(* kv.rs, delete and update: an entry names a live record that holds the    *)
(* entry's value, so a value no record holds can be taken (a stale entry    *)
(* would refuse it as a conflict for ever).                                 *)
IndexExact == IndexExactIn(db)

(* kv.rs, next_auto_id: an auto id never lands on a live record, and is     *)
(* never handed out twice, whatever was deleted or created explicitly       *)
(* in between.                                                              *)
AutoIdFresh ==
    [][ /\ \A i \in issued' \ issued : ~Live(db, i)
        /\ autos' # autos => issued' # issued ]_vars

(* kv.rs, every operation: through its index entries, counters and stored   *)
(* answers the store behaves as RecordStore: a create takes a free id, no   *)
(* write takes another record's value, an answer is stored once and never   *)
(* replaced, so every replay of a key gets the record as it was first       *)
(* created, events and evidence are appended.                               *)
Promise == RS!Spec

=============================================================================
