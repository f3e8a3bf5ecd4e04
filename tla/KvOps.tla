------------------------------- MODULE KvOps -------------------------------
(***************************************************************************)
(* The canonical-store operations of providers/kv.rs as functions of the   *)
(* keyspace they read and write.  Each operation maps a keyspace and a     *)
(* request to [res |-> answer, db |-> keyspace after the body]; whoever    *)
(* runs the body decides whether that keyspace is committed (an answer     *)
(* with an error code is never committed: the transaction is dropped).     *)
(*                                                                         *)
(* One namespace and one collection are modelled: every key carries both   *)
(* and no operation crosses them.  Data is abstracted to what the unique   *)
(* indexes look at, one value (or Absent) per index.                       *)
(***************************************************************************)
EXTENDS Integers, FiniteSets, Sequences

CONSTANTS
    MaxId,       \* bound: largest id (n stands for "{collection}-{n}", 0 for any other id)
    NumIndexes,  \* unique indexes of the collection, in declaration order
    Values,      \* values an indexed field can take
    Absent,      \* the field is missing from the record
    Keys,        \* idempotency keys
    NoKey,       \* the request carries no idempotency key
    Payloads,    \* bodies of events and of evidence
    NoPayload,   \* no event is stored under a sequence number
    Migrations,  \* ids of the pack's migrations
    MaxSeq       \* bound: events in the stream, evidence entries of the subject

ASSUME BoundsAssumption == MaxId \in Nat /\ NumIndexes \in Nat /\ MaxSeq \in Nat
ASSUME SentinelAssumption ==
    Absent \notin Values /\ NoKey \notin Keys /\ NoPayload \notin Payloads

Ids     == 0 .. MaxId
NoId    == -1          \* no owner, no explicit id, or no counter yet
Indexes == 1 .. NumIndexes
Seqs    == 1 .. MaxSeq
Data    == [Indexes -> Values \cup {Absent}]
NoData  == [x \in Indexes |-> Absent]

(* Version 0 is a key that holds no record: `create` writes version 1 and  *)
(* `update` adds one.                                                      *)
Row     == [ver : Nat, data : Data]
NoRow   == [ver |-> 0, data |-> NoData]

(* A stored answer: the record as it was when a create wrote it.           *)
Record   == [id : Ids, ver : Nat, data : Data]
NoRecord == [id |-> NoId, ver |-> 0, data |-> NoData]

(* The keyspace: meta/schema_version, e/..., uniq/..., idem/..., idseq,    *)
(* ev/..., evseq, evid/... (one stream, one subject), migrations/...       *)
Keyspace ==
    [schema : BOOLEAN,
     ents   : [Ids -> Row],
     uniq   : [Indexes -> [Values -> Ids \cup {NoId}]],
     idem   : [Keys -> Record \cup {NoRecord}],
     idseq  : Nat \cup {NoId},
     events : [Seqs -> Payloads \cup {NoPayload}],
     evseq  : 0 .. MaxSeq,
     evid   : Seq(Payloads),
     ledger : SUBSET Migrations]

EmptyKeyspace ==
    [schema |-> FALSE,
     ents   |-> [i \in Ids |-> NoRow],
     uniq   |-> [x \in Indexes |-> [v \in Values |-> NoId]],
     idem   |-> [k \in Keys |-> NoRecord],
     idseq  |-> NoId,
     events |-> [s \in Seqs |-> NoPayload],
     evseq  |-> 0,
     evid   |-> << >>,
     ledger |-> {}]

Live(d, i)     == d.ents[i].ver > 0
LiveIds(d)     == {i \in Ids : Live(d, i)}
RecordOf(d, i) == [id |-> i, ver |-> d.ents[i].ver, data |-> d.ents[i].data]

Ok(rec)     == [code |-> "ok", rec |-> rec]
Fail(code)  == [code |-> code, rec |-> NoRecord]

-----------------------------------------------------------------------------
(* Slip: the search starts at the record count every time.                  *)
SeqStartByCount(d) == Cardinality(LiveIds(d))

(* Where the auto-id search starts: the counter, or the record count the    *)
(* first time.                                                              *)
SeqStart(d) == IF d.idseq = NoId THEN Cardinality(LiveIds(d)) ELSE d.idseq

FreeAutoIds(d) == {n \in Ids : n > SeqStart(d) /\ ~Live(d, n)}

(* next_auto_id: the first number above the counter that no live record     *)
(* holds.  The search is unbounded in the code; here the caller's guard     *)
(* AutoIdInBound keeps it under MaxId.                                      *)
NextAutoId(d) == CHOOSE n \in FreeAutoIds(d) : \A m \in FreeAutoIds(d) : n <= m

AutoIdInBound(d) == FreeAutoIds(d) # {}

(* Slip: only a create looks for conflicts.                                 *)
ConflictsOnCreate(d, named, data, self) ==
    {x \in named : /\ self = NoId
                   /\ data[x] # Absent
                   /\ d.uniq[x][data[x]] # NoId
                   /\ Live(d, d.uniq[x][data[x]])}

(* find_unique_conflict: the named indexes whose entry for this data names  *)
(* another record that still exists; `self` is NoId on a create.            *)
Conflicts(d, named, data, self) ==
    {x \in named : /\ data[x] # Absent
                   /\ d.uniq[x][data[x]] \notin {NoId, self}
                   /\ Live(d, d.uniq[x][data[x]])}

FirstConflict(d, named, data, self) ==
    CHOOSE x \in Conflicts(d, named, data, self) :
        \A y \in Conflicts(d, named, data, self) : x <= y

(* write_unique_keys                                                        *)
WriteUnique(uniq, named, data, id) ==
    [x \in Indexes |-> [v \in Values |->
        IF x \in named /\ data[x] = v THEN id ELSE uniq[x][v]]]

(* Slip: the value a record moved away from is not released.                *)
ReleaseUniqueNever(uniq, named, old, new, id) == uniq

(* An update frees the value a named index moved away from, while the       *)
(* entry is still this record's.                                            *)
ReleaseUnique(uniq, named, old, new, id) ==
    [x \in Indexes |-> [v \in Values |->
        IF x \in named /\ old[x] = v /\ new[x] # v /\ uniq[x][v] = id
        THEN NoId ELSE uniq[x][v]]]

(* Slip: the prefix scan clears the entries of every record.                *)
ClearUniqueAll(uniq, id) == [x \in Indexes |-> [v \in Values |-> NoId]]

(* clear_unique_for_record: every entry that names the deleted record.      *)
ClearUnique(uniq, id) ==
    [x \in Indexes |-> [v \in Values |->
        IF uniq[x][v] = id THEN NoId ELSE uniq[x][v]]]

-----------------------------------------------------------------------------
(* Requests.  `ret` is the index of UniqueConflictBehavior::ReturnExisting, *)
(* 0 for Reject; `named` is op.unique_indexes.                              *)
CreateOps(named) ==
    [id : Ids \cup {NoId}, data : Data, key : Keys \cup {NoKey},
     named : named, ret : Indexes \cup {0}]

(* A patch value of Absent leaves the field as it is.                       *)
UpdateOps(named) == [id : Ids, patch : Data, named : named]

CreateId(d, op) == IF op.id # NoId THEN op.id ELSE NextAutoId(d)

(* The keyspace once the id is chosen: an auto id advances the counter even *)
(* when the create then returns an existing record.                         *)
CreateSeq(d, op) == IF op.id # NoId THEN d.idseq ELSE NextAutoId(d)

CreateWrites(d, op, id) ==
    [d EXCEPT !.schema = TRUE,
              !.idseq  = CreateSeq(d, op),
              !.ents[id] = [ver |-> 1, data |-> op.data],
              !.idem   = [k \in Keys |-> IF k = op.key
                                         THEN [id |-> id, ver |-> 1, data |-> op.data]
                                         ELSE d.idem[k]],
              !.uniq   = WriteUnique(d.uniq, op.named, op.data, id)]

(* Slip: a stored answer is not looked up.                                  *)
IdemHitNever(d, op) == FALSE

IdemHit(d, op) == op.key \in Keys /\ d.idem[op.key] # NoRecord

(* create                                                                   *)
Create(d, op) ==
    IF IdemHit(d, op)
    THEN [res |-> Ok(d.idem[op.key]), db |-> [d EXCEPT !.schema = TRUE]]
    ELSE IF Conflicts(d, op.named, op.data, NoId) # {}
    THEN LET x == FirstConflict(d, op.named, op.data, NoId)
         IN  IF op.ret = x
             THEN [res |-> Ok(RecordOf(d, d.uniq[x][op.data[x]])),
                   db  |-> [d EXCEPT !.schema = TRUE, !.idseq = CreateSeq(d, op)]]
             ELSE [res |-> Fail("unique_constraint_violation"), db |-> d]
    ELSE [res |-> Ok([id |-> CreateId(d, op), ver |-> 1, data |-> op.data]),
          db  |-> CreateWrites(d, op, CreateId(d, op))]

(* The patch merged over the stored data.                                   *)
Patched(d, op) ==
    [x \in Indexes |-> IF op.patch[x] = Absent THEN d.ents[op.id].data[x] ELSE op.patch[x]]

(* update                                                                   *)
Update(d, op) ==
    IF ~Live(d, op.id)
    THEN [res |-> Fail("record_not_found"), db |-> d]
    ELSE IF Conflicts(d, op.named, Patched(d, op), op.id) # {}
    THEN [res |-> Fail("unique_constraint_violation"), db |-> d]
    ELSE LET new == Patched(d, op)
             ver == d.ents[op.id].ver + 1
         IN  [res |-> Ok([id |-> op.id, ver |-> ver, data |-> new]),
              db  |-> [d EXCEPT
                  !.ents[op.id] = [ver |-> ver, data |-> new],
                  !.uniq = WriteUnique(
                      ReleaseUnique(d.uniq, op.named, d.ents[op.id].data, new, op.id),
                      op.named, new, op.id)]]

(* delete: a missing record is answered, not refused.                       *)
Delete(d, id) ==
    IF ~Live(d, id)
    THEN [res |-> [code |-> "ok", deleted |-> FALSE], db |-> d]
    ELSE [res |-> [code |-> "ok", deleted |-> TRUE],
          db  |-> [d EXCEPT !.ents[id] = NoRow, !.uniq = ClearUnique(d.uniq, id)]]

(* append_event: the answer carries the sequence number.                    *)
AppendEvent(d, payload) ==
    [res |-> [code |-> "ok", seq |-> d.evseq + 1],
     db  |-> [d EXCEPT !.schema = TRUE,
                       !.events[d.evseq + 1] = payload,
                       !.evseq = d.evseq + 1]]

(* store_evidence: read the subject's list, push, write it back.            *)
StoreEvidence(d, payload) ==
    [res |-> [code |-> "ok"], db |-> [d EXCEPT !.evid = Append(d.evid, payload)]]

(* record_migration: writing an id that is there already changes nothing.   *)
RecordMigration(d, m) ==
    [res |-> [code |-> "ok"], db |-> [d EXCEPT !.ledger = d.ledger \cup {m}]]

=============================================================================
