------------------------------ MODULE Stores -------------------------------
(***************************************************************************)
(* The other two canonical stores, beside the keyspace of KvOps: the       *)
(* memory store (providers/memory.rs, one mutex, an optional snapshot      *)
(* file) and the FoundationDB store (providers/foundationdb_real.rs,       *)
(* serializable transactions that the client library retries).  Both use   *)
(* the keyspace record of KvOps; the memory store has no uniq/ entries.    *)
(***************************************************************************)
EXTENDS KvOps

CONSTANTS
    Batch,       \* records that one FoundationDB range read returns
    EntryBatch,  \* uniq/ entries that one range read returns
    KeyRank      \* the order of the keys of the uniq/ entries

ASSUME BatchAssumption ==
    /\ Batch \in Nat \ {0}
    /\ EntryBatch \in Nat \ {0}
    /\ KeyRank \in [Indexes \X Values -> Nat]

Kinds == {"kv", "fdb", "memory"}

(* get_range of the FoundationDB client returns one batch, the smallest     *)
(* keys, and the store asks for no more.  The client cuts a batch by its    *)
(* bytes; here it is a number of keys.                                      *)
InBatch(S) == {i \in S : Cardinality({j \in S : j < i}) < Batch}

Entries(d) == {e \in Indexes \X Values : d.uniq[e[1]][e[2]] # NoId}

EntriesSeen(d) ==
    {e \in Entries(d) : Cardinality({f \in Entries(d) : KeyRank[f] < KeyRank[e]}) < EntryBatch}

(* The records a scan of the collection finds.                              *)
Seen(k, d) == IF k = "fdb" THEN InBatch(LiveIds(d)) ELSE LiveIds(d)

(* Slip: the new record is left out of the count.                           *)
CountedIdShort(k, d) == IF Seen(k, d) = {} THEN 1 ELSE Cardinality(Seen(k, d))

(* Both derive an auto id from the number of records the scan finds.        *)
CountedId(k, d) == Cardinality(Seen(k, d)) + 1

CountedCreateId(k, d, op) == IF op.id # NoId THEN op.id ELSE CountedId(k, d)

SetRow(d, id, ver, data) == [d EXCEPT !.ents[id] = [ver |-> ver, data |-> data]]

SetIdem(idem, op, id) ==
    [k \in Keys |-> IF k = op.key THEN [id |-> id, ver |-> 1, data |-> op.data] ELSE idem[k]]

-----------------------------------------------------------------------------
(* foundationdb_real.rs.  Conflicts are those of kv.rs: the entry for the   *)
(* value names another record that exists.                                  *)
FdbCreate(d, op) ==
    LET id == CountedCreateId("fdb", d, op)
        cs == Conflicts(d, op.named, op.data, NoId)
    IN  IF IdemHit(d, op)
        THEN [res |-> Ok(d.idem[op.key]), db |-> [d EXCEPT !.schema = TRUE]]
        ELSE IF cs # {}
        THEN LET x == FirstConflict(d, op.named, op.data, NoId)
             IN  IF op.ret = x
                 THEN [res |-> Ok(RecordOf(d, d.uniq[x][op.data[x]])),
                       db  |-> [d EXCEPT !.schema = TRUE]]
                 ELSE [res |-> Fail("unique_constraint_violation"), db |-> d]
        ELSE [res |-> Ok([id |-> id, ver |-> 1, data |-> op.data]),
              db  |-> [SetRow(d, id, 1, op.data) EXCEPT
                          !.schema = TRUE,
                          !.idem = SetIdem(d.idem, op, id),
                          !.uniq = WriteUnique(d.uniq, op.named, op.data, id)]]

(* update writes the entries of the new data and keeps those of the old.    *)
FdbUpdate(d, op) ==
    LET new == Patched(d, op)
        ver == d.ents[op.id].ver + 1
    IN  IF ~Live(d, op.id)
        THEN [res |-> Fail("record_not_found"), db |-> d]
        ELSE IF Conflicts(d, op.named, new, op.id) # {}
        THEN [res |-> Fail("unique_constraint_violation"), db |-> d]
        ELSE [res |-> Ok([id |-> op.id, ver |-> ver, data |-> new]),
              db  |-> [SetRow(d, op.id, ver, new) EXCEPT
                          !.uniq = WriteUnique(d.uniq, op.named, new, op.id)]]

(* Only the entries of one range read are cleared; one that lies beyond     *)
(* stays and names a record that is gone.                                   *)
FdbDelete(d, id) ==
    IF ~Live(d, id)
    THEN [res |-> [code |-> "ok", deleted |-> FALSE], db |-> d]
    ELSE [res |-> [code |-> "ok", deleted |-> TRUE],
          db  |-> [d EXCEPT
                      !.ents[id] = NoRow,
                      !.uniq = [x \in Indexes |-> [v \in Values |->
                          IF d.uniq[x][v] = id /\ <<x, v>> \in EntriesSeen(d)
                          THEN NoId ELSE d.uniq[x][v]]]]]

FdbAppendEvent(d, payload) == AppendEvent(d, payload)

-----------------------------------------------------------------------------
(* memory.rs.  unique_conflict compares records, index after index; an      *)
(* index whose fields the data lacks ends the search (`?`), so the indexes  *)
(* declared after it are not looked at.                                     *)
MemChecked(named, data) ==
    {x \in named : \A y \in named : y <= x => data[y] # Absent}

MemHolders(d, x, data, self) ==
    {i \in LiveIds(d) \ {self} : d.ents[i].data[x] = data[x]}

(* Slip: the data is compared with nobody.                                  *)
MemConflictsNone(d, named, data, self) == {}

MemConflicts(d, named, data, self) ==
    {x \in MemChecked(named, data) : MemHolders(d, x, data, self) # {}}

Least(S) == CHOOSE n \in S : \A m \in S : n <= m

MemCreate(d, op) ==
    LET id == CountedCreateId("memory", d, op)
        cs == MemConflicts(d, op.named, op.data, NoId)
    IN  IF IdemHit(d, op)
        THEN [res |-> Ok(d.idem[op.key]), db |-> d]
        ELSE IF cs # {}
        THEN IF op.ret = Least(cs)
             THEN [res |-> Ok(RecordOf(d, Least(MemHolders(d, Least(cs), op.data, NoId)))),
                   db  |-> d]
             ELSE [res |-> Fail("unique_constraint_violation"), db |-> d]
        ELSE [res |-> Ok([id |-> id, ver |-> 1, data |-> op.data]),
              db  |-> [SetRow(d, id, 1, op.data) EXCEPT !.idem = SetIdem(d.idem, op, id)]]

MemUpdate(d, op) ==
    LET new == Patched(d, op)
        ver == d.ents[op.id].ver + 1
    IN  IF ~Live(d, op.id)
        THEN [res |-> Fail("record_not_found"), db |-> d]
        ELSE IF MemConflicts(d, op.named, new, op.id) # {}
        THEN [res |-> Fail("unique_constraint_violation"), db |-> d]
        ELSE [res |-> Ok([id |-> op.id, ver |-> ver, data |-> new]),
              db  |-> SetRow(d, op.id, ver, new)]

MemDelete(d, id) ==
    [res |-> [code |-> "ok", deleted |-> Live(d, id)], db |-> [d EXCEPT !.ents[id] = NoRow]]

MemAppendEvent(d, payload) ==
    [res |-> [code |-> "ok", seq |-> d.evseq + 1],
     db  |-> [d EXCEPT !.events[d.evseq + 1] = payload, !.evseq = d.evseq + 1]]

-----------------------------------------------------------------------------
(* The trait object the runtime calls: one of the three backends.           *)
StoreCreate(k, d, op) ==
    CASE k = "kv" -> Create(d, op) [] k = "fdb" -> FdbCreate(d, op) [] k = "memory" -> MemCreate(d, op)

StoreUpdate(k, d, op) ==
    CASE k = "kv" -> Update(d, op) [] k = "fdb" -> FdbUpdate(d, op) [] k = "memory" -> MemUpdate(d, op)

StoreDelete(k, d, id) ==
    CASE k = "kv" -> Delete(d, id) [] k = "fdb" -> FdbDelete(d, id) [] k = "memory" -> MemDelete(d, id)

StoreAppendEvent(k, d, payload) ==
    CASE k = "kv" -> AppendEvent(d, payload)
      [] k = "fdb" -> FdbAppendEvent(d, payload)
      [] k = "memory" -> MemAppendEvent(d, payload)

(* The id a create without an explicit one would use stays within MaxId.    *)
IdInBound(k, d) == IF k = "kv" THEN AutoIdInBound(d) ELSE CountedId(k, d) <= MaxId

(* query: the records of the scan that match, in the order of their ids.    *)
Matches(k, d, x, v) == {i \in Seen(k, d) : x = 0 \/ d.ents[i].data[x] = v}

InOrder(S) ==
    [n \in 1 .. Cardinality(S) |-> CHOOSE i \in S : Cardinality({j \in S : j < i}) = n - 1]

Query(k, d, x, v) ==
    LET ids == InOrder(Matches(k, d, x, v)) IN [n \in DOMAIN ids |-> RecordOf(d, ids[n])]

-----------------------------------------------------------------------------
(* The snapshot file of the memory store.  "bare" is the format before      *)
(* schema versions (v0), "v1" the current one, "newer" a later one, "torn"  *)
(* what a write that was cut short leaves (fs::write truncates first).      *)
Forms == {"none", "bare", "v1", "newer", "torn"}

NoFile == [form |-> "none", db |-> EmptyKeyspace]

Snapshot(d) == [form |-> "v1", db |-> d]

(* persist: the whole state is written, or the write fails before or after  *)
(* the truncation.  Without a path nothing is written.                      *)
Persisted(f, d) ==
    {[ok |-> TRUE, file |-> Snapshot(d)],
     [ok |-> FALSE, file |-> f],
     [ok |-> FALSE, file |-> [form |-> "torn", db |-> EmptyKeyspace]]}

(* load_state: a later schema and a torn file are refused.                  *)
Loadable(f) == f.form \in {"none", "bare", "v1"}

Migrated(f) == f.form = "bare"

=============================================================================
