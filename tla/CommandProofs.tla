--------------------------- MODULE CommandProofs ---------------------------
(***************************************************************************)
(* What commands keep over all three stores, for every number of calls,    *)
(* programs, ids, indexes, values and keys: unique values stay unique, a   *)
(* key inserts at most once, an answered change is in the snapshot file, a *)
(* record is not replaced by another, and what is counted was done.        *)
(***************************************************************************)
EXTENDS Command, KvOpsProofs, SequenceTheorems

-----------------------------------------------------------------------------
(* The inductive invariant.                                                 *)
Steps == [steps : StepLists, i : Nat \ {0}, n : Nat]

(* How a command can end.                                                   *)
Codes == {"none", "ok", "lost", "idempotency_key_required", "command_record_not_found",
          "command_items_invalid", "record_not_found", "unique_constraint_violation", WriteFails,
          CommitUnknown, "provider_error"}

CallType ==
    [pc : {"idle", "step", "rows", "publish", "done"}, prog : DOMAIN Programs \cup {0},
     key : Keys \cup {NoKey}, list : Items \cup {NoList}, frames : Seq(Steps),
     scopes : Seq([Names -> Outputs]), item : Values, gen : Values \cup {Absent},
     tries : Nat, todo : Seq(Record), count : [created : Nat, updated : Nat, deleted : Nat],
     res : Codes]

(* A call at a step: one scope per list of steps it is in, the innermost    *)
(* lists being iterations over the caller's list.                           *)
Stacked(c) ==
    c.pc \in {"step", "rows", "publish"} =>
        /\ c.prog \in DOMAIN Programs
        /\ Len(c.frames) >= 1
        /\ Len(c.scopes) = Len(c.frames)
        /\ c.frames[1].n = 0
        /\ \A m \in 1 .. Len(c.frames) : c.frames[m].n > 0 => c.list # NoList
        /\ c.pc = "rows" => Frame(c).i <= Len(Frame(c).steps)

CallOK(c) == c \in CallType /\ Stacked(c)

StoreTypes ==
    /\ kind \in Kinds
    /\ up \in BOOLEAN
    /\ db \in Keyspace
    /\ file \in [form : Forms, db : Keyspace]
    /\ made \in [created : Nat, updated : Nat, deleted : Nat, events : Nat]
    /\ keyed \in [Keys -> Nat]
    /\ acked \in [Ids -> Nat]
    /\ reruns \in Nat
    /\ crashes \in Nat

CallTypes == calls \in [Calls -> CallType] /\ \A p \in Calls : Stacked(calls[p])

(* Only the memory store is ever closed.                                    *)
Opened == kind # "memory" => up

(* Every value a record holds under a unique index has the entry that names *)
(* the record (the keyspace store and FoundationDB).                        *)
Covered(d) ==
    \A x \in Named : \A i \in LiveIds(d) :
        d.ents[i].data[x] # Absent => d.uniq[x][d.ents[i].data[x]] = i

(* The memory store has no entries: it compares the records.                *)
Apart(d) ==
    \A x \in Named : \A i, j \in LiveIds(d) :
        (i # j /\ d.ents[i].data[x] = d.ents[j].data[x] /\ d.ents[i].data[x] # Absent)
        => \E y \in Named : y < x /\ Absent \in {d.ents[i].data[y], d.ents[j].data[y]}

UniqueIn(k, d) == IF k = "memory" THEN Apart(d) ELSE Covered(d)

UniqueInv == UniqueIn(kind, db) /\ (kind = "memory" => Apart(file.db))

(* The answer of an insert under a key is found again.                      *)
KeyInv ==
    \A k \in Keys : keyed[k] <= 1 /\ (up /\ keyed[k] = 1 => db.idem[k] # NoRecord)

AckInv ==
    kind = "memory" =>
        /\ file.form = "v1" => \A i \in Ids : file.db.ents[i].ver >= acked[i]
        /\ up => \A i \in Ids : db.ents[i].ver >= acked[i]
        /\ ~up /\ file.form # "v1" => \A i \in Ids : acked[i] = 0

(* The records are numbered without a gap.                                  *)
Gapless(d) == \E n \in Nat : LiveIds(d) = 1 .. n

GapInv == kind # "kv" /\ made.deleted = 0 => Gapless(db) /\ Gapless(file.db)

-----------------------------------------------------------------------------
(* What an operation of any of the stores does to the keyspace.             *)
LEMMA LiveFinite ==
    ASSUME NEW d
    PROVE  IsFiniteSet(LiveIds(d)) /\ Cardinality(LiveIds(d)) \in Nat
<1>1. IsFiniteSet(Ids)
  BY FS_Interval, BoundsAssumption DEF Ids
<1>2. LiveIds(d) \subseteq Ids
  BY DEF LiveIds
<1>3. IsFiniteSet(LiveIds(d))
  BY <1>1, <1>2, FS_Subset
<1> QED  BY <1>3, FS_CardinalityType

ConflictsIn(k, d, data, self) ==
    IF k = "memory" THEN MemConflicts(d, Named, data, self) ELSE Conflicts(d, Named, data, self)

StoreId(k, d, op) == IF k = "kv" THEN CreateId(d, op) ELSE CountedCreateId(k, d, op)

LEMMA SeenFinite ==
    ASSUME NEW k, NEW d
    PROVE  /\ Seen(k, d) \subseteq LiveIds(d)
           /\ IsFiniteSet(Seen(k, d))
           /\ Cardinality(Seen(k, d)) \in Nat
<1>1. Seen(k, d) \subseteq LiveIds(d)
  BY DEF Seen, InBatch
<1>2. IsFiniteSet(Seen(k, d))
  BY <1>1, LiveFinite, FS_Subset
<1> QED  BY <1>1, <1>2, FS_CardinalityType

LEMMA StoreIdType ==
    ASSUME NEW k \in Kinds, NEW d \in Keyspace, NEW op \in CreateOps({Named}),
           op.id = NoId => IdInBound(k, d)
    PROVE  StoreId(k, d, op) \in Ids
<1>1. CASE k = "kv"
  BY <1>1, CreateSeqType DEF StoreId, IdInBound
<1>2. CASE k # "kv" /\ op.id = NoId
  <2>1. CountedId(k, d) \in Nat \ {0} /\ CountedId(k, d) <= MaxId
    BY <1>2, SeenFinite DEF CountedId, IdInBound
  <2> QED  BY <1>2, <2>1, BoundsAssumption DEF StoreId, CountedCreateId, Ids
<1>3. CASE k # "kv" /\ op.id # NoId
  BY <1>3 DEF StoreId, CountedCreateId, CreateOps
<1> QED  BY <1>1, <1>2, <1>3

SameRecords(d, w) == w.ents = d.ents /\ w.idem = d.idem /\ w.uniq = d.uniq

InsertsRecord(k, d, op, w) ==
    /\ w.ents = [d.ents EXCEPT ![StoreId(k, d, op)] = [ver |-> 1, data |-> op.data]]
    /\ w.idem = SetIdem(d.idem, op, StoreId(k, d, op))
    /\ w.uniq = IF k = "memory" THEN d.uniq
                ELSE WriteUnique(d.uniq, Named, op.data, StoreId(k, d, op))

LEMMA SetIdemType ==
    ASSUME NEW d \in Keyspace, NEW op \in CreateOps({Named}), NEW id \in Ids
    PROVE  SetIdem(d.idem, op, id) \in [Keys -> Record \cup {NoRecord}]
<1>1. [id |-> id, ver |-> 1, data |-> op.data] \in Record
  BY DEF Record, CreateOps
<1> QED  BY <1>1 DEF SetIdem, Keyspace

LEMMA RowWritten ==
    ASSUME NEW d \in Keyspace, NEW id \in Ids, NEW ver \in Nat, NEW data \in Data
    PROVE  /\ [d.ents EXCEPT ![id] = [ver |-> ver, data |-> data]] \in [Ids -> Row]
           /\ SetRow(d, id, ver, data)
                = [d EXCEPT !.ents = [d.ents EXCEPT ![id] = [ver |-> ver, data |-> data]]]
<1>1. [ver |-> ver, data |-> data] \in Row
  BY DEF Row
<1>2. d.ents \in [Ids -> Row]
  BY DEF Keyspace
<1> QED  BY <1>1, <1>2 DEF SetRow, Keyspace

LEMMA LeastIn ==
    ASSUME NEW S, S \subseteq Nat, S # {}
    PROVE  Least(S) \in S
BY LeastExists DEF Least

(* create                                                                   *)
LEMMA StoreCreates ==
    ASSUME NEW k \in Kinds, NEW d \in Keyspace, NEW op \in CreateOps({Named}),
           op.id = NoId => IdInBound(k, d)
    PROVE  LET r   == StoreCreate(k, d, op)
               new == ~IdemHit(d, op) /\ ConflictsIn(k, d, op.data, NoId) = {}
           IN  /\ r.db \in Keyspace
               /\ r.res.code \in {"ok", "unique_constraint_violation"}
               /\ r.res.code = "ok" => r.res.rec \in Record
               /\ new => /\ r.res.code = "ok"
                         /\ r.res.rec.id = StoreId(k, d, op)
                         /\ InsertsRecord(k, d, op, r.db)
               /\ ~new => SameRecords(d, r.db)
<1> DEFINE r   == StoreCreate(k, d, op)
           new == ~IdemHit(d, op) /\ ConflictsIn(k, d, op.data, NoId) = {}
           id  == StoreId(k, d, op)
<1>1. id \in Ids
  BY StoreIdType
<1>2. op.data \in Data /\ op.named = Named /\ Named \subseteq Indexes
  BY CommandAssumption DEF CreateOps
<1>3. [id |-> id, ver |-> 1, data |-> op.data] \in Record
  BY <1>1, <1>2 DEF Record
<1>4. IdemHit(d, op) => d.idem[op.key] \in Record
  BY DEF IdemHit, Keyspace
<1>5. CASE k = "kv"
  <2>1. r = Create(d, op) /\ id = CreateId(d, op)
    BY <1>5 DEF StoreCreate, StoreId
  <2>2. r.db \in Keyspace
    BY <1>5, <2>1, CreateType DEF IdInBound
  <2>3. r.res.code = "ok" => r.res.rec \in Record
    <3> SUFFICES ASSUME r.res.code = "ok" PROVE r.res.rec \in Record
      OBVIOUS
    <3>1. {Named} \in SUBSET SUBSET Indexes
      BY <1>2
    <3>2. Create(d, op).res.code = "ok"
      BY <2>1
    <3>3. op.id = NoId => AutoIdInBound(d)
      BY <1>5 DEF IdInBound
    <3>4. Replays(d, op) \/ Returns(d, op) \/ Inserts(d, op)
      BY <3>1, <3>2, <3>3, CreateAnswers
    <3> QED  BY <2>1, <3>4 DEF Replays, Returns, Inserts
  <2>4. ASSUME new
        PROVE  r.res.code = "ok" /\ r.res.rec.id = id /\ InsertsRecord(k, d, op, r.db)
    <3>1. r = [res |-> Ok([id |-> id, ver |-> 1, data |-> op.data]), db |-> CreateWrites(d, op, id)]
      BY <1>2, <1>5, <2>1, <2>4 DEF Create, ConflictsIn
    <3>2. /\ r.db.ents = [d.ents EXCEPT ![id] = [ver |-> 1, data |-> op.data]]
          /\ r.db.uniq = WriteUnique(d.uniq, Named, op.data, id)
          /\ r.db.idem = SetIdem(d.idem, op, id)
      <4>1. CreateWrites(d, op, id).idem = SetIdem(d.idem, op, id)
        BY DEF CreateWrites, Keyspace, SetIdem
      <4> HIDE DEF id, r
      <4> QED  BY <1>1, <1>2, <3>1, <4>1, InsertFields
    <3> QED  BY <1>5, <3>1, <3>2 DEF InsertsRecord, Ok
  <2>5. ~new => SameRecords(d, r.db)
    <3> DEFINE c == CreateSeq(d, op)
    <3>1. SameRecords(d, [d EXCEPT !.schema = TRUE]) /\ SameRecords(d, d)
      BY DEF SameRecords, Keyspace
    <3>2. SameRecords(d, [d EXCEPT !.schema = TRUE, !.idseq = c])
      BY DEF SameRecords, Keyspace
    <3>3. new \/ r.db \in {d, [d EXCEPT !.schema = TRUE], [d EXCEPT !.schema = TRUE, !.idseq = c]}
      BY <1>2, <1>5, <2>1 DEF Create, ConflictsIn
    <3> HIDE DEF c, r, new
    <3> QED  BY <3>1, <3>2, <3>3
  <2>6. r.res.code \in {"ok", "unique_constraint_violation"}
    <3>1. (\E a : r.res = Ok(a)) \/ r.res = Fail("unique_constraint_violation")
      BY <2>1 DEF Create
    <3>2. \A a : Ok(a).code = "ok" /\ Fail(a).code = a
      BY DEF Ok, Fail
    <3> HIDE DEF r
    <3> QED  BY <3>1, <3>2
  <2> QED  BY <2>2, <2>3, <2>4, <2>5, <2>6
<1>6. CASE k = "fdb"
  <2>1. r = FdbCreate(d, op) /\ id = CountedCreateId("fdb", d, op)
    BY <1>6 DEF StoreCreate, StoreId
  <2>2. ASSUME new
        PROVE  /\ r.res.code = "ok" /\ r.res.rec = [id |-> id, ver |-> 1, data |-> op.data]
               /\ InsertsRecord(k, d, op, r.db) /\ r.db \in Keyspace
    <3> DEFINE e == [d.ents EXCEPT ![id] = [ver |-> 1, data |-> op.data]]
               q == SetIdem(d.idem, op, id)
               u == WriteUnique(d.uniq, Named, op.data, id)
    <3>1. r = [res |-> Ok([id |-> id, ver |-> 1, data |-> op.data]),
               db |-> [SetRow(d, id, 1, op.data) EXCEPT !.schema = TRUE, !.idem = q, !.uniq = u]]
      BY <1>2, <1>6, <2>1, <2>2 DEF FdbCreate, ConflictsIn
    <3> HIDE DEF q, u
    <3>2. SetRow(d, id, 1, op.data) = [d EXCEPT !.ents = e] /\ e \in [Ids -> Row]
      <4> HIDE DEF id
      <4>1. 1 \in Nat
        OBVIOUS
      <4> QED  BY <1>1, <1>2, <4>1, RowWritten, SMTT(60)
    <3>3. q \in [Keys -> Record \cup {NoRecord}]
      BY <1>1, SetIdemType DEF q
    <3>4. u \in [Indexes -> [Values -> Ids \cup {NoId}]]
      BY <1>1, WriteUniqueType DEF u, Keyspace
    <3> HIDE DEF e
    <3>5. r.db \in Keyspace /\ r.db.ents = e /\ r.db.idem = q /\ r.db.uniq = u
      <4> DEFINE t == [d EXCEPT !.ents = e]
      <4> HIDE DEF r, id
      <4>1. r.db = [t EXCEPT !.schema = TRUE, !.idem = q, !.uniq = u]
        BY <3>1, <3>2
      <4>2. t \in Keyspace /\ t.ents = e /\ t.uniq = d.uniq
        BY <3>2 DEF Keyspace
      <4> HIDE DEF t
      <4>3. r.db \in Keyspace
        BY <3>3, <3>4, <4>1, <4>2 DEF Keyspace
      <4> QED  BY <4>1, <4>2, <4>3 DEF Keyspace
    <3>6. InsertsRecord(k, d, op, r.db)
      BY <1>6, <3>5 DEF InsertsRecord, e, q, u
    <3> QED  BY <3>1, <3>5, <3>6 DEF Ok
  <2>3. ASSUME ~new
        PROVE  r.db \in Keyspace /\ SameRecords(d, r.db) /\ (r.res.code = "ok" => r.res.rec \in Record)
    <3>1. [d EXCEPT !.schema = TRUE] \in Keyspace /\ SameRecords(d, [d EXCEPT !.schema = TRUE])
      BY DEF Keyspace, SameRecords
    <3>2. CASE IdemHit(d, op)
      BY <1>4, <2>1, <3>1, <3>2 DEF FdbCreate, Ok
    <3>3. CASE ~IdemHit(d, op)
      <4> DEFINE x == FirstConflict(d, Named, op.data, NoId)
                 y == d.uniq[x][op.data[x]]
      <4>1. Conflicts(d, Named, op.data, NoId) # {}
        BY <1>6, <2>3, <3>3 DEF ConflictsIn
      <4>2. x \in Conflicts(d, Named, op.data, NoId)
        BY <1>2, <4>1, FirstConflictNamed
      <4>3. y \in Ids
        BY <1>2, <4>2 DEF Conflicts, Keyspace, Data
      <4>4. RecordOf(d, y) \in Record
        BY <4>3 DEF RecordOf, Record, Keyspace, Row
      <4>5. r = IF op.ret = x THEN [res |-> Ok(RecordOf(d, y)), db |-> [d EXCEPT !.schema = TRUE]]
                ELSE [res |-> Fail("unique_constraint_violation"), db |-> d]
        BY <1>2, <2>1, <3>3, <4>1 DEF FdbCreate
      <4> HIDE DEF x, y, r
      <4>6. CASE op.ret = x
        BY <3>1, <4>4, <4>5, <4>6 DEF Ok
      <4>7. CASE op.ret # x
        BY <4>5, <4>7 DEF Fail, SameRecords
      <4> QED  BY <4>6, <4>7
    <3> QED  BY <3>2, <3>3
  <2>4. r.res.code \in {"ok", "unique_constraint_violation"}
    <3>1. (\E a : r.res = Ok(a)) \/ r.res = Fail("unique_constraint_violation")
      BY <2>1 DEF FdbCreate
    <3>2. \A a : Ok(a).code = "ok" /\ Fail(a).code = a
      BY DEF Ok, Fail
    <3> HIDE DEF r
    <3> QED  BY <3>1, <3>2
  <2> QED  BY <1>3, <2>2, <2>3, <2>4
<1>7. CASE k = "memory"
  <2>1. r = MemCreate(d, op) /\ id = CountedCreateId("memory", d, op)
    BY <1>7 DEF StoreCreate, StoreId
  <2>2. ASSUME new
        PROVE  /\ r.res.code = "ok" /\ r.res.rec = [id |-> id, ver |-> 1, data |-> op.data]
               /\ InsertsRecord(k, d, op, r.db) /\ r.db \in Keyspace
    <3> DEFINE e == [d.ents EXCEPT ![id] = [ver |-> 1, data |-> op.data]]
               q == SetIdem(d.idem, op, id)
    <3>1. r = [res |-> Ok([id |-> id, ver |-> 1, data |-> op.data]),
               db |-> [SetRow(d, id, 1, op.data) EXCEPT !.idem = q]]
      BY <1>2, <1>7, <2>1, <2>2 DEF MemCreate, ConflictsIn
    <3> HIDE DEF q
    <3>2. SetRow(d, id, 1, op.data) = [d EXCEPT !.ents = e] /\ e \in [Ids -> Row]
      <4> HIDE DEF id
      <4>1. 1 \in Nat
        OBVIOUS
      <4> QED  BY <1>1, <1>2, <4>1, RowWritten, SMTT(60)
    <3>3. q \in [Keys -> Record \cup {NoRecord}]
      BY <1>1, SetIdemType DEF q
    <3>4. d.uniq \in [Indexes -> [Values -> Ids \cup {NoId}]]
      BY DEF Keyspace
    <3> HIDE DEF e
    <3>5. r.db \in Keyspace /\ r.db.ents = e /\ r.db.idem = q /\ r.db.uniq = d.uniq
      <4> DEFINE t == [d EXCEPT !.ents = e]
      <4> HIDE DEF r, id
      <4>1. r.db = [t EXCEPT !.idem = q]
        BY <3>1, <3>2
      <4>2. t \in Keyspace /\ t.ents = e /\ t.uniq = d.uniq
        BY <3>2 DEF Keyspace
      <4> HIDE DEF t
      <4>3. r.db \in Keyspace
        BY <3>3, <3>4, <4>1, <4>2 DEF Keyspace
      <4> QED  BY <4>1, <4>2, <4>3 DEF Keyspace
    <3>6. InsertsRecord(k, d, op, r.db)
      BY <1>7, <3>5 DEF InsertsRecord, e, q
    <3> QED  BY <3>1, <3>5, <3>6 DEF Ok
  <2>3. ASSUME ~new
        PROVE  r.db = d /\ (r.res.code = "ok" => r.res.rec \in Record)
    <3>1. CASE IdemHit(d, op)
      BY <1>4, <2>1, <3>1 DEF MemCreate, Ok
    <3>2. CASE ~IdemHit(d, op)
      <4> DEFINE S == MemConflicts(d, Named, op.data, NoId)
                 x == Least(S)
                 H == MemHolders(d, x, op.data, NoId)
                 y == Least(H)
      <4>1. S # {}
        BY <1>7, <2>3, <3>2 DEF ConflictsIn
      <4>2. S \subseteq Nat
        <5>1. S \subseteq Named
          BY DEF MemConflicts, MemChecked
        <5>2. Named \subseteq Nat
          BY CommandAssumption, BoundsAssumption DEF Indexes
        <5> HIDE DEF S
        <5> QED  BY <5>1, <5>2
      <4>3. x \in S
        BY <4>1, <4>2, LeastIn
      <4>4. H # {}
        BY <4>3 DEF MemConflicts
      <4>5. H \subseteq Ids /\ H \subseteq Nat
        BY BoundsAssumption DEF MemHolders, LiveIds, Ids
      <4>6. y \in Ids
        BY <4>4, <4>5, LeastIn
      <4>7. RecordOf(d, y) \in Record
        BY <4>6 DEF RecordOf, Record, Keyspace, Row
      <4>8. r = IF op.ret = x THEN [res |-> Ok(RecordOf(d, y)), db |-> d]
                ELSE [res |-> Fail("unique_constraint_violation"), db |-> d]
        BY <1>2, <2>1, <3>2, <4>1 DEF MemCreate
      <4> HIDE DEF x, y, r
      <4> QED  BY <4>7, <4>8 DEF Ok, Fail
    <3> QED  BY <3>1, <3>2
  <2>4. r.res.code \in {"ok", "unique_constraint_violation"}
    <3>1. (\E a : r.res = Ok(a)) \/ r.res = Fail("unique_constraint_violation")
      BY <2>1 DEF MemCreate
    <3>2. \A a : Ok(a).code = "ok" /\ Fail(a).code = a
      BY DEF Ok, Fail
    <3> HIDE DEF r
    <3> QED  BY <3>1, <3>2
  <2> QED  BY <1>3, <2>2, <2>3, <2>4 DEF SameRecords
<1> QED  BY <1>5, <1>6, <1>7 DEF Kinds

(* update: the record is rewritten with the next version, or nothing is.    *)
UpdatesRecord(k, d, op, w) ==
    /\ w.ents = [d.ents EXCEPT ![op.id] = [ver |-> d.ents[op.id].ver + 1, data |-> Patched(d, op)]]
    /\ w.idem = d.idem
    /\ w.uniq = CASE k = "memory" -> d.uniq
                  [] k = "fdb"    -> WriteUnique(d.uniq, Named, Patched(d, op), op.id)
                  [] k = "kv"     -> WriteUnique(
                        ReleaseUnique(d.uniq, Named, d.ents[op.id].data, Patched(d, op), op.id),
                        Named, Patched(d, op), op.id)

LEMMA PatchedType ==
    ASSUME NEW d \in Keyspace, NEW op \in UpdateOps({Named})
    PROVE  /\ op.id \in Ids /\ op.named = Named /\ Patched(d, op) \in Data
           /\ d.ents[op.id] \in Row /\ d.ents[op.id].ver \in Nat /\ d.ents[op.id].ver + 1 \in Nat
<1>1. op.id \in Ids /\ op.named = Named /\ op.patch \in Data
  BY DEF UpdateOps
<1>2. d.ents[op.id] \in Row
  BY <1>1 DEF Keyspace
<1> QED  BY <1>1, <1>2 DEF Row, Patched, Data

LEMMA StoreUpdates ==
    ASSUME NEW k \in Kinds, NEW d \in Keyspace, NEW op \in UpdateOps({Named})
    PROVE  LET r == StoreUpdate(k, d, op)
           IN  /\ r.db \in Keyspace
               /\ r.res.code \in {"ok", "record_not_found", "unique_constraint_violation"}
               /\ r.res.code = "ok" => /\ Live(d, op.id)
                                       /\ ConflictsIn(k, d, Patched(d, op), op.id) = {}
                                       /\ r.res.rec.ver = d.ents[op.id].ver + 1
                                       /\ UpdatesRecord(k, d, op, r.db)
               /\ r.res.code # "ok" => SameRecords(d, r.db)
<1> DEFINE r   == StoreUpdate(k, d, op)
           new == Patched(d, op)
           ver == d.ents[op.id].ver + 1
           e   == [d.ents EXCEPT ![op.id] = [ver |-> ver, data |-> new]]
           rel == ReleaseUnique(d.uniq, Named, d.ents[op.id].data, new, op.id)
           U   == [Indexes -> [Values -> Ids \cup {NoId}]]
<1>1. op.id \in Ids /\ op.named = Named /\ new \in Data /\ ver \in Nat
  BY PatchedType
<1>2. SetRow(d, op.id, ver, new) = [d EXCEPT !.ents = e] /\ e \in [Ids -> Row]
  <2> DEFINE id == op.id
  <2>1. id \in Ids
    BY <1>1
  <2>2. SetRow(d, id, ver, new) = [d EXCEPT !.ents = [d.ents EXCEPT ![id] = [ver |-> ver, data |-> new]]]
        /\ [d.ents EXCEPT ![id] = [ver |-> ver, data |-> new]] \in [Ids -> Row]
    <3> HIDE DEF new, ver, id
    <3> QED  BY <1>1, <2>1, RowWritten
  <2> QED  BY <2>2
<1>3. rel \in U /\ d.uniq \in U
  BY DEF ReleaseUnique, Keyspace
<1>4. WriteUnique(rel, Named, new, op.id) \in U /\ WriteUnique(d.uniq, Named, new, op.id) \in U
  <2> HIDE DEF rel, new
  <2> QED  BY <1>1, <1>3, WriteUniqueType
<1>5. /\ Fail("record_not_found").code = "record_not_found"
      /\ Fail("unique_constraint_violation").code = "unique_constraint_violation"
      /\ \A a : Ok(a).code = "ok" /\ Ok(a).rec = a
  BY DEF Fail, Ok
<1>6. CASE ~Live(d, op.id)
  <2>1. r.res = Fail("record_not_found") /\ r.db = d
    BY <1>6 DEF StoreUpdate, Update, FdbUpdate, MemUpdate, Kinds
  <2>2. SameRecords(d, r.db)
    BY <2>1 DEF SameRecords
  <2> QED  BY <1>5, <1>6, <2>1, <2>2
<1>7. CASE Live(d, op.id) /\ ConflictsIn(k, d, new, op.id) # {}
  <2>1. r.res = Fail("unique_constraint_violation") /\ r.db = d
    BY <1>1, <1>7 DEF StoreUpdate, Update, FdbUpdate, MemUpdate, ConflictsIn, Kinds
  <2>2. SameRecords(d, r.db)
    BY <2>1 DEF SameRecords
  <2> QED  BY <1>5, <1>7, <2>1, <2>2
<1>8. CASE Live(d, op.id) /\ ConflictsIn(k, d, new, op.id) = {}
  <2> DEFINE t == [d EXCEPT !.ents = e]
  <2>1. t \in Keyspace /\ t.ents = e /\ t.uniq = d.uniq /\ t.idem = d.idem
    <3> HIDE DEF e
    <3> QED  BY <1>2 DEF Keyspace
  <2>2. r.res = Ok([id |-> op.id, ver |-> ver, data |-> new])
    BY <1>1, <1>8 DEF StoreUpdate, Update, FdbUpdate, MemUpdate, ConflictsIn, Kinds
  <2>3. r.res.code = "ok" /\ r.res.rec.ver = ver
    <3> HIDE DEF r, ver, new
    <3> QED  BY <1>5, <2>2
  <2>4. CASE k = "memory"
    <3>1. r.db = t
      BY <1>1, <1>2, <1>8, <2>4 DEF StoreUpdate, MemUpdate, ConflictsIn
    <3>2. UpdatesRecord(k, d, op, r.db)
      BY <2>1, <2>4, <3>1 DEF UpdatesRecord
    <3> QED  BY <1>8, <2>1, <2>3, <3>1, <3>2
  <2>5. CASE k = "fdb"
    <3> DEFINE u == WriteUnique(d.uniq, Named, new, op.id)
    <3>1. r.db = [t EXCEPT !.uniq = u]
      BY <1>1, <1>2, <1>8, <2>5 DEF StoreUpdate, FdbUpdate, ConflictsIn
    <3>2. u \in U
      BY <1>4
    <3>3. r.db \in Keyspace /\ r.db.ents = e /\ r.db.idem = d.idem /\ r.db.uniq = u
      <4> HIDE DEF t, r, e, u
      <4> QED  BY <2>1, <3>1, <3>2 DEF Keyspace
    <3>4. UpdatesRecord(k, d, op, r.db)
      BY <2>5, <3>3 DEF UpdatesRecord
    <3> QED  BY <1>8, <2>3, <3>3, <3>4
  <2>6. CASE k = "kv"
    <3> DEFINE u == WriteUnique(rel, Named, new, op.id)
    <3>1. r.db = [d EXCEPT !.ents[op.id] = [ver |-> ver, data |-> new], !.uniq = u]
      BY <1>1, <1>8, <2>6 DEF StoreUpdate, Update, ConflictsIn
    <3>2. u \in U
      BY <1>4
    <3>3. r.db \in Keyspace /\ r.db.ents = e /\ r.db.idem = d.idem /\ r.db.uniq = u
      <4> HIDE DEF r, u, new, ver
      <4>1. r.db.ents = e /\ r.db.idem = d.idem /\ r.db.uniq = u
        BY <3>1 DEF Keyspace
      <4>2. r.db = [d EXCEPT !.ents = e, !.uniq = u]
        BY <3>1 DEF Keyspace
      <4> HIDE DEF e
      <4>3. r.db \in Keyspace
        BY <1>2, <3>2, <4>2 DEF Keyspace
      <4> QED  BY <4>1, <4>3
    <3>4. UpdatesRecord(k, d, op, r.db)
      BY <2>6, <3>3 DEF UpdatesRecord
    <3> QED  BY <1>8, <2>3, <3>3, <3>4
  <2> QED  BY <2>4, <2>5, <2>6 DEF Kinds
<1> QED  BY <1>6, <1>7, <1>8

(* delete                                                                   *)
DeletesRecord(k, d, id, w) ==
    /\ DOMAIN w.ents = Ids
    /\ w.ents[id].ver = 0
    /\ \A i \in Ids \ {id} : w.ents[i] = d.ents[i]
    /\ w.idem = d.idem
    /\ \A x \in Indexes, v \in Values :
          w.uniq[x][v] = d.uniq[x][v] \/ (d.uniq[x][v] = id /\ w.uniq[x][v] = NoId)

LEMMA StoreDeletes ==
    ASSUME NEW k \in Kinds, NEW d \in Keyspace, NEW id \in Ids
    PROVE  LET r == StoreDelete(k, d, id)
           IN  /\ r.db \in Keyspace
               /\ r.res.code = "ok"
               /\ Live(d, id) => r.res.deleted = TRUE
               /\ DeletesRecord(k, d, id, r.db)
<1> DEFINE r == StoreDelete(k, d, id)
<1>1. d.ents[id].ver \in Nat /\ DOMAIN d.ents = Ids
  BY DEF Keyspace, Row
<1>2. NoRow \in Row /\ NoRow.ver = 0
  BY DEF NoRow, Row, NoData, Data
<1>3. CASE k = "memory"
  <2>1. r = [res |-> [code |-> "ok", deleted |-> Live(d, id)], db |-> [d EXCEPT !.ents[id] = NoRow]]
    BY <1>3, Zenon DEF StoreDelete, MemDelete
  <2> DEFINE l == Live(d, id)
  <2>5. r.db = [d EXCEPT !.ents[id] = NoRow] /\ r.res.code = "ok" /\ r.res.deleted = l
    <3> HIDE DEF r, l
    <3> QED  BY <2>1 DEF l
  <2>2. r.db \in Keyspace
    <3> HIDE DEF r, l
    <3>1. [d EXCEPT !.ents[id] = NoRow] \in Keyspace
      BY <1>2 DEF Keyspace
    <3> QED  BY <2>5, <3>1
  <2>3. r.db.ents = [d.ents EXCEPT ![id] = NoRow] /\ r.db.idem = d.idem /\ r.db.uniq = d.uniq
    BY <2>5 DEF Keyspace
  <2>4. DeletesRecord(k, d, id, r.db)
    <3> HIDE DEF r
    <3> QED  BY <1>1, <1>2, <2>3 DEF DeletesRecord
  <2> QED  BY <2>2, <2>4, <2>5, Zenon
<1>4. CASE k # "memory"
  <2>1. CASE ~Live(d, id)
    <3>1. d.ents[id].ver = 0
      BY <1>1, <2>1 DEF Live
    <3>2. r = [res |-> [code |-> "ok", deleted |-> FALSE], db |-> d]
      BY <1>4, <2>1 DEF StoreDelete, FdbDelete, Delete, Kinds
    <3>3. DeletesRecord(k, d, id, d)
      BY <1>1, <3>1 DEF DeletesRecord
    <3> QED  BY <2>1, <3>2, <3>3
  <2>2. CASE Live(d, id)
    <3> DEFINE u == IF k = "kv" THEN ClearUnique(d.uniq, id)
                    ELSE [x \in Indexes |-> [v \in Values |->
                             IF d.uniq[x][v] = id /\ <<x, v>> \in EntriesSeen(d)
                             THEN NoId ELSE d.uniq[x][v]]]
    <3>1. r = [res |-> [code |-> "ok", deleted |-> TRUE],
               db |-> [d EXCEPT !.ents[id] = NoRow, !.uniq = u]]
      BY <1>4, <2>2, Zenon DEF StoreDelete, FdbDelete, Delete, Kinds
    <3>2. \A x \in Indexes, v \in Values :
             u[x][v] = d.uniq[x][v] \/ (d.uniq[x][v] = id /\ u[x][v] = NoId)
      BY DEF ClearUnique
    <3>3. u \in [Indexes -> [Values -> Ids \cup {NoId}]]
      BY DEF ClearUnique, Keyspace
    <3>4. r.res.code = "ok" /\ r.res.deleted = TRUE
      <4> HIDE DEF r, u
      <4> QED  BY <3>1
    <3>5. /\ r.db.ents = [d.ents EXCEPT ![id] = NoRow] /\ r.db.idem = d.idem /\ r.db.uniq = u
          /\ r.db \in Keyspace
      <4> HIDE DEF r, u
      <4> QED  BY <1>2, <3>1, <3>3 DEF Keyspace
    <3>6. DeletesRecord(k, d, id, r.db)
      <4> HIDE DEF r, u
      <4> QED  BY <1>1, <1>2, <3>2, <3>5 DEF DeletesRecord
    <3> QED  BY <2>2, <3>4, <3>5, <3>6
  <2> QED  BY <2>1, <2>2
<1> QED  BY <1>3, <1>4

(* append_event                                                             *)
LEMMA StoreAppends ==
    ASSUME NEW k \in Kinds, NEW d \in Keyspace, NEW payload \in Payloads, d.evseq < MaxSeq
    PROVE  LET r == StoreAppendEvent(k, d, payload)
           IN  /\ r.db \in Keyspace
               /\ r.res.code = "ok"
               /\ SameRecords(d, r.db)
<1> DEFINE r == StoreAppendEvent(k, d, payload)
<1>1. d.evseq + 1 \in Seqs /\ d.evseq + 1 \in 0 .. MaxSeq
  BY BoundsAssumption DEF Keyspace, Seqs
<1>2. CASE k = "memory"
  <2>1. /\ r.res.code = "ok"
        /\ r.db = [d EXCEPT !.events[d.evseq + 1] = payload, !.evseq = d.evseq + 1]
    BY <1>2 DEF StoreAppendEvent, MemAppendEvent
  <2>2. r.db \in Keyspace /\ SameRecords(d, r.db)
    <3> HIDE DEF r
    <3> DEFINE m == d.evseq + 1
    <3>1. r.db \in Keyspace
      <4>1. r.db = [d EXCEPT !.events[m] = payload, !.evseq = m] /\ m \in Seqs /\ m \in 0 .. MaxSeq
        BY <1>1, <2>1
      <4> HIDE DEF m
      <4>2. [d EXCEPT !.events[m] = payload, !.evseq = m] \in Keyspace
        BY <4>1 DEF Keyspace
      <4> QED  BY <4>1, <4>2
    <3>2. SameRecords(d, r.db)
      BY <2>1 DEF Keyspace, SameRecords
    <3> QED  BY <3>1, <3>2
  <2> QED  BY <2>1, <2>2
<1>3. CASE k # "memory"
  <2>1. r = AppendEvent(d, payload)
    BY <1>3 DEF StoreAppendEvent, FdbAppendEvent, Kinds
  <2>2. r.db \in Keyspace
    BY <2>1, AppendEventType
  <2>3. r.res.code = "ok" /\ SameRecords(d, r.db)
    <3>1. /\ r.res = [code |-> "ok", seq |-> d.evseq + 1]
          /\ r.db = [d EXCEPT !.schema = TRUE, !.events[d.evseq + 1] = payload,
                              !.evseq = d.evseq + 1]
      BY <2>1 DEF AppendEvent
    <3> HIDE DEF r
    <3> QED  BY <3>1 DEF Keyspace, SameRecords
  <2> QED  BY <2>2, <2>3
<1> QED  BY <1>2, <1>3

-----------------------------------------------------------------------------
(* Uniqueness.  A value that passes the search for conflicts is held by no  *)
(* other record, in the memory store up to the index where its search ends. *)
LEMMA RowData ==
    ASSUME NEW d \in Keyspace, NEW i \in Ids, NEW x \in Named
    PROVE  /\ d.ents[i] \in Row /\ d.ents[i].ver \in Nat
           /\ d.ents[i].data[x] \in Values \cup {Absent}
BY CommandAssumption DEF Keyspace, Row, Data

LEMMA MemSearch ==
    ASSUME NEW d \in Keyspace, NEW data \in Data, NEW self \in Ids \cup {NoId},
           MemConflicts(d, Named, data, self) = {}, NEW j \in LiveIds(d), j # self,
           NEW x \in Named, data[x] # Absent, d.ents[j].data[x] = data[x]
    PROVE  \E y \in Named : y < x /\ data[y] = Absent
<1>1. x \notin MemChecked(Named, data)
  BY DEF MemConflicts, MemHolders
<1>2. PICK y \in Named : y <= x /\ data[y] = Absent
  BY <1>1 DEF MemChecked
<1>3. y \in Int /\ x \in Int
  BY CommandAssumption DEF Indexes
<1>4. y < x
  BY <1>2, <1>3
<1> QED  BY <1>2, <1>4

(* A record is written over whatever was under its id.                      *)
LEMMA WrittenUnique ==
    ASSUME NEW k \in Kinds, NEW d \in Keyspace, NEW id \in Ids, NEW ver \in Nat \ {0},
           NEW data \in Data, NEW self \in {NoId, id},
           ConflictsIn(k, d, data, self) = {}, UniqueIn(k, d),
           NEW w, NEW u, w.ents = [d.ents EXCEPT ![id] = [ver |-> ver, data |-> data]],
           k # "memory" =>
               /\ w.uniq = WriteUnique(u, Named, data, id)
               /\ \A x \in Named : \A i \in LiveIds(d) \ {id} : \A v \in Values :
                     d.uniq[x][v] = i => u[x][v] = i
    PROVE  UniqueIn(k, w)
<1>1. \A i \in LiveIds(w) : i \in Ids /\ (i # id => w.ents[i] = d.ents[i] /\ i \in LiveIds(d))
  BY DEF LiveIds, Live, Keyspace
<1>2. w.ents[id].data = data
  BY DEF Keyspace
<1>3. \A i \in Ids : i # NoId
  BY BoundsAssumption DEF Ids, NoId
<1>4. CASE k = "memory"
  <2>1. Apart(d) /\ MemConflicts(d, Named, data, self) = {}
    BY <1>4 DEF UniqueIn, ConflictsIn
  <2> SUFFICES ASSUME NEW x \in Named, NEW i \in LiveIds(w), NEW j \in LiveIds(w),
                      i # j, w.ents[i].data[x] = w.ents[j].data[x], w.ents[i].data[x] # Absent
               PROVE  \E y \in Named : y < x /\ Absent \in {w.ents[i].data[y], w.ents[j].data[y]}
    BY <1>4 DEF UniqueIn, Apart
  <2>2. CASE i # id /\ j # id
    BY <1>1, <2>1, <2>2 DEF Apart
  <2>3. \A m \in LiveIds(w) : m # id /\ w.ents[m].data[x] = data[x] /\ data[x] # Absent
            => \E y \in Named : y < x /\ data[y] = Absent
    <3> SUFFICES ASSUME NEW m \in LiveIds(w), m # id, w.ents[m].data[x] = data[x], data[x] # Absent
                 PROVE  \E y \in Named : y < x /\ data[y] = Absent
      OBVIOUS
    <3>1. m \in LiveIds(d) /\ d.ents[m].data[x] = data[x] /\ m # self
      BY <1>1, <1>3
    <3> QED  BY <2>1, <3>1, MemSearch
  <2>4. CASE i = id
    BY <1>2, <2>3, <2>4
  <2>5. CASE j = id
    BY <1>2, <2>3, <2>5
  <2> QED  BY <2>2, <2>4, <2>5
<1>5. CASE k # "memory"
  <2>1. Covered(d) /\ Conflicts(d, Named, data, self) = {}
    BY <1>5 DEF UniqueIn, ConflictsIn
  <2> SUFFICES ASSUME NEW x \in Named, NEW i \in LiveIds(w), w.ents[i].data[x] # Absent
               PROVE  w.uniq[x][w.ents[i].data[x]] = i
    BY <1>5 DEF UniqueIn, Covered
  <2>2. x \in Indexes
    BY CommandAssumption
  <2>3. CASE i = id
    <3>1. data[x] \in Values
      BY <1>2, <2>2, <2>3 DEF Data
    <3> QED  BY <1>2, <1>5, <2>2, <2>3, <3>1 DEF WriteUnique
  <2>4. CASE i # id
    <3>1. w.ents[i] = d.ents[i] /\ i \in LiveIds(d) /\ i \in Ids
      BY <1>1, <2>4
    <3>2. d.ents[i].data[x] \in Values
      BY <3>1, RowData
    <3>3. d.uniq[x][d.ents[i].data[x]] = i
      BY <2>1, <3>1 DEF Covered
    <3>4. data[x] # d.ents[i].data[x]
      BY <1>3, <2>1, <2>4, <3>1, <3>3 DEF Conflicts, LiveIds
    <3>5. u[x][d.ents[i].data[x]] = i
      BY <1>5, <2>4, <3>1, <3>2, <3>3
    <3> QED  BY <1>5, <2>2, <3>1, <3>2, <3>4, <3>5 DEF WriteUnique
  <2> QED  BY <2>3, <2>4
<1> QED  BY <1>4, <1>5

LEMMA SameUnique ==
    ASSUME NEW k, NEW d, NEW w, SameRecords(d, w), UniqueIn(k, d)
    PROVE  UniqueIn(k, w)
BY DEF SameRecords, UniqueIn, Apart, Covered, LiveIds, Live

LEMMA CreateUnique ==
    ASSUME NEW k \in Kinds, NEW d \in Keyspace, NEW op \in CreateOps({Named}),
           op.id = NoId => IdInBound(k, d), UniqueIn(k, d)
    PROVE  UniqueIn(k, StoreCreate(k, d, op).db)
<1> DEFINE w   == StoreCreate(k, d, op).db
           new == ~IdemHit(d, op) /\ ConflictsIn(k, d, op.data, NoId) = {}
           id  == StoreId(k, d, op)
<1>1. (new => InsertsRecord(k, d, op, w)) /\ (~new => SameRecords(d, w))
  BY StoreCreates
<1>2. id \in Ids
  BY StoreIdType
<1>3. op.data \in Data
  BY DEF CreateOps
<1>4. CASE new
  <2>1. /\ w.ents = [d.ents EXCEPT ![id] = [ver |-> 1, data |-> op.data]]
        /\ k # "memory" => w.uniq = WriteUnique(d.uniq, Named, op.data, id)
    BY <1>1, <1>4 DEF InsertsRecord
  <2>2. 1 \in Nat \ {0} /\ ConflictsIn(k, d, op.data, NoId) = {}
    BY <1>4
  <2>3. \A x \in Named : \A i \in LiveIds(d) \ {id} : \A v \in Values :
            d.uniq[x][v] = i => d.uniq[x][v] = i
    OBVIOUS
  <2> DEFINE u == d.uniq
             self == NoId
  <2>4. self \in {NoId, id}
    OBVIOUS
  <2>5. UniqueIn(k, w)
    <3> HIDE DEF w, id, u, self
    <3> QED  BY <1>2, <1>3, <2>1, <2>2, <2>3, <2>4, WrittenUnique DEF u, self
  <2> QED  BY <2>5
<1>5. CASE ~new
  BY <1>1, <1>5, SameUnique
<1> QED  BY <1>4, <1>5

LEMMA UpdateUnique ==
    ASSUME NEW k \in Kinds, NEW d \in Keyspace, NEW op \in UpdateOps({Named}), UniqueIn(k, d)
    PROVE  UniqueIn(k, StoreUpdate(k, d, op).db)
<1> DEFINE r   == StoreUpdate(k, d, op)
           w   == r.db
           id  == op.id
           new == Patched(d, op)
           ver == d.ents[op.id].ver + 1
           rel == ReleaseUnique(d.uniq, Named, d.ents[op.id].data, new, op.id)
           u   == IF k = "kv" THEN rel ELSE d.uniq
<1>1. /\ r.res.code = "ok" => ConflictsIn(k, d, new, id) = {} /\ UpdatesRecord(k, d, op, w)
      /\ r.res.code # "ok" => SameRecords(d, w)
  <2>1. r.res.code = "ok" => ConflictsIn(k, d, Patched(d, op), op.id) = {}
    BY StoreUpdates
  <2>2. r.res.code = "ok" => UpdatesRecord(k, d, op, r.db)
    BY StoreUpdates
  <2>3. r.res.code # "ok" => SameRecords(d, r.db)
    BY StoreUpdates
  <2> QED  BY <2>1, <2>2, <2>3
<1>2. id \in Ids /\ new \in Data /\ ver \in Nat \ {0}
  <2>1. id \in Ids /\ new \in Data /\ d.ents[op.id].ver \in Nat
    BY PatchedType
  <2> DEFINE n == d.ents[op.id].ver
  <2>2. n \in Nat => n + 1 \in Nat \ {0}
    <3> HIDE DEF n
    <3> QED  OBVIOUS
  <2> QED  BY <2>1, <2>2
<1>3. CASE r.res.code = "ok"
  <2>1. /\ w.ents = [d.ents EXCEPT ![id] = [ver |-> ver, data |-> new]]
        /\ k # "memory" => w.uniq = WriteUnique(u, Named, new, id)
    BY <1>1, <1>3 DEF UpdatesRecord, Kinds
  <2>2. \A x \in Named : \A i \in LiveIds(d) \ {id} : \A v \in Values :
            d.uniq[x][v] = i => u[x][v] = i
    <3> SUFFICES ASSUME NEW x \in Named, NEW i \in LiveIds(d) \ {id}, NEW v \in Values,
                        d.uniq[x][v] = i
                 PROVE  rel[x][v] = i
      OBVIOUS
    <3>1. x \in Indexes
      BY CommandAssumption
    <3> QED  BY <3>1 DEF ReleaseUnique
  <2>3. ConflictsIn(k, d, new, id) = {}
    BY <1>1, <1>3
  <2> HIDE DEF w, id, new, ver, u
  <2> QED  BY <1>2, <2>1, <2>2, <2>3, WrittenUnique DEF w
<1>4. CASE r.res.code # "ok"
  BY <1>1, <1>4, SameUnique
<1> QED  BY <1>3, <1>4

LEMMA DeleteUnique ==
    ASSUME NEW k \in Kinds, NEW d \in Keyspace, NEW id \in Ids, UniqueIn(k, d)
    PROVE  UniqueIn(k, StoreDelete(k, d, id).db)
<1> DEFINE w == StoreDelete(k, d, id).db
<1>1. DeletesRecord(k, d, id, w)
  BY StoreDeletes
<1> HIDE DEF w
<1>2. \A i \in LiveIds(w) : i # id /\ i \in Ids /\ w.ents[i] = d.ents[i] /\ i \in LiveIds(d)
  BY <1>1 DEF DeletesRecord, LiveIds, Live
<1>3. CASE k = "memory"
  BY <1>2, <1>3 DEF UniqueIn, Apart, w
<1>4. CASE k # "memory"
  <2> SUFFICES ASSUME NEW x \in Named, NEW i \in LiveIds(w), w.ents[i].data[x] # Absent
               PROVE  w.uniq[x][w.ents[i].data[x]] = i
    BY <1>4 DEF UniqueIn, Covered, w
  <2>1. i # id /\ i \in Ids /\ w.ents[i] = d.ents[i] /\ i \in LiveIds(d)
    BY <1>2
  <2>2. d.ents[i].data[x] \in Values
    BY <2>1, RowData
  <2>3. d.uniq[x][d.ents[i].data[x]] = i
    BY <1>4, <2>1 DEF UniqueIn, Covered
  <2>4. x \in Indexes
    BY CommandAssumption
  <2> QED  BY <1>1, <2>1, <2>2, <2>3, <2>4 DEF DeletesRecord
<1> QED  BY <1>3, <1>4 DEF w

LEMMA EmptyUnique ==
    ASSUME NEW k
    PROVE  UniqueIn(k, EmptyKeyspace)
<1>1. LiveIds(EmptyKeyspace) = {}
  BY DEF LiveIds, Live, EmptyKeyspace, NoRow
<1> QED  BY <1>1 DEF UniqueIn, Apart, Covered

-----------------------------------------------------------------------------
(* Ids.  Without a gap, the record count plus one is free; the count of one *)
(* batch plus one leaves no gap either, but may be a live record's id.      *)
LEMMA EmptyGapless == Gapless(EmptyKeyspace)
<1>1. LiveIds(EmptyKeyspace) = {}
  BY DEF LiveIds, Live, EmptyKeyspace, NoRow
<1>2. {} = 1 .. 0
  OBVIOUS
<1> QED  BY <1>1, <1>2 DEF Gapless

LEMMA CountedFree ==
    ASSUME NEW k, NEW d, NEW n \in Nat, LiveIds(d) = 1 .. n
    PROVE  /\ CountedId(k, d) \in 1 .. (n + 1)
           /\ k # "fdb" \/ n <= Batch => CountedId(k, d) = n + 1
<1>1. \A m \in Nat : IsFiniteSet(1 .. m) /\ Cardinality(1 .. m) = m
  <2> TAKE m \in Nat
  <2>1. 1 \in Int /\ m \in Int
    OBVIOUS
  <2> QED  BY <2>1, FS_Interval
<1>2. Cardinality(Seen(k, d)) \in Nat /\ Cardinality(Seen(k, d)) <= n
  <2>1. Cardinality(Seen(k, d)) <= Cardinality(LiveIds(d))
    BY SeenFinite, LiveFinite, FS_Subset
  <2> QED  BY <1>1, <2>1, SeenFinite
<1>3. ASSUME k # "fdb" \/ n <= Batch PROVE Seen(k, d) = 1 .. n
  <2>1. CASE k # "fdb"
    BY <2>1 DEF Seen
  <2>2. CASE k = "fdb" /\ n <= Batch
    <3>1. ASSUME NEW i \in 1 .. n PROVE Cardinality({j \in 1 .. n : j < i}) < Batch
      <4>1. {j \in 1 .. n : j < i} = 1 .. (i - 1)
        OBVIOUS
      <4>2. i - 1 \in Nat /\ i - 1 < n
        BY <3>1
      <4>3. Cardinality(1 .. (i - 1)) = i - 1
        BY <1>1, <4>2
      <4>4. i - 1 < Batch
        BY <2>2, <4>2, BatchAssumption
      <4> QED  BY <4>1, <4>3, <4>4
    <3>2. {i \in 1 .. n : Cardinality({j \in 1 .. n : j < i}) < Batch} = 1 .. n
      BY <3>1
    <3> QED  BY <2>2, <3>2 DEF Seen, InBatch
  <2> QED  BY <1>3, <2>1, <2>2
<1>4. k # "fdb" \/ n <= Batch => CountedId(k, d) = n + 1
  BY <1>1, <1>3 DEF CountedId
<1>5. CountedId(k, d) \in 1 .. (n + 1)
  BY <1>2 DEF CountedId
<1> QED  BY <1>4, <1>5

LEMMA CreateGapless ==
    ASSUME NEW k \in Kinds, k # "kv", NEW d \in Keyspace, NEW op \in CreateOps({Named}),
           op.id = NoId, IdInBound(k, d), Gapless(d), NEW w, InsertsRecord(k, d, op, w)
    PROVE  /\ Gapless(w)
           /\ k # "fdb" \/ Cardinality(LiveIds(d)) <= Batch => ~Live(d, StoreId(k, d, op))
<1> DEFINE id == StoreId(k, d, op)
<1>1. PICK n \in Nat : LiveIds(d) = 1 .. n
  BY DEF Gapless
<1>2. /\ id \in 1 .. (n + 1)
      /\ k # "fdb" \/ n <= Batch => id = n + 1
  BY <1>1, CountedFree DEF StoreId, CountedCreateId
<1>3. id \in Ids
  BY StoreIdType
<1>4. Cardinality(LiveIds(d)) = n
  <2>1. 1 \in Int /\ n \in Int
    OBVIOUS
  <2>2. Cardinality(1 .. n) = n
    BY <2>1, FS_Interval
  <2> QED  BY <1>1, <2>2
<1>5. ASSUME k # "fdb" \/ Cardinality(LiveIds(d)) <= Batch PROVE ~Live(d, id)
  <2>1. n + 1 \notin 1 .. n
    OBVIOUS
  <2> QED  BY <1>1, <1>2, <1>3, <1>4, <1>5, <2>1 DEF LiveIds
<1>6. LiveIds(w) = LiveIds(d) \cup {id}
  <2>1. w.ents = [d.ents EXCEPT ![id] = [ver |-> 1, data |-> op.data]]
    BY DEF InsertsRecord
  <2> HIDE DEF id
  <2> QED  BY <1>3, <2>1 DEF LiveIds, Live, Keyspace
<1>7. LiveIds(w) = 1 .. n \/ LiveIds(w) = 1 .. (n + 1)
  <2> HIDE DEF id
  <2>1. CASE id = n + 1
    <3>1. (1 .. n) \cup {n + 1} = 1 .. (n + 1)
      OBVIOUS
    <3> QED  BY <1>1, <1>6, <2>1, <3>1
  <2>2. CASE id # n + 1
    <3>1. id \in 1 .. n
      BY <1>2, <2>2
    <3> QED  BY <1>1, <1>6, <3>1
  <2> QED  BY <2>1, <2>2
<1>8. Gapless(w)
  <2>1. n + 1 \in Nat
    OBVIOUS
  <2> QED  BY <1>7, <2>1 DEF Gapless
<1> QED  BY <1>5, <1>8

-----------------------------------------------------------------------------
(* query: sorting the ids that match reaches every position.                *)
LEMMA Ranked ==
    ASSUME NEW S, S \subseteq Nat, IsFiniteSet(S), NEW n \in 1 .. Cardinality(S)
    PROVE  \E i \in S : Cardinality({j \in S : j < i}) = n - 1
<1> DEFINE Below(i) == {j \in S : j < i}
           C == Cardinality(S)
           Good(m) == \E i \in S : Cardinality(Below(i)) = m - 1
           Bad == {m \in 1 .. C : ~Good(m)}
<1>1. C \in Nat
  BY FS_CardinalityType
<1>2. \A i \in S : IsFiniteSet(Below(i))
  <2>1. \A i \in S : Below(i) \subseteq S
    OBVIOUS
  <2> QED  BY <2>1, FS_Subset
<1>0. \A i \in S : i \in Int
  OBVIOUS
<1>3. SUFFICES ASSUME Bad # {} PROVE FALSE
  BY Zenon
<1>4. Bad \subseteq Nat
  <2>1. \A m \in 1 .. C : m \in Nat
    BY <1>1
  <2> QED  BY <2>1, Zenon
<1>5. PICK m \in Bad : \A l \in Bad : m <= l
  BY <1>3, <1>4, LeastExists
<1>6. m \in 1 .. C /\ ~Good(m)
  BY <1>5, Zenon
<1>7. CASE m = 1
  <2>1. S # {}
    BY <1>1, <1>6, FS_EmptySet
  <2>2. PICK i \in S : \A l \in S : i <= l
    BY <2>1, LeastExists
  <2>3. Below(i) = {}
    <3>1. \A j \in S : ~(j < i)
      BY <1>0, <2>2
    <3> QED  BY <3>1, Zenon
  <2>4. Cardinality(Below(i)) = 0
    BY <2>3, FS_EmptySet
  <2> QED  BY <1>6, <1>7, <2>4
<1>8. CASE m # 1
  <2>1. m - 1 \in 1 .. C /\ ~(m <= m - 1)
    BY <1>1, <1>6, <1>8
  <2>2. Good(m - 1)
    BY <1>5, <2>1
  <2>3. PICK i \in S : Cardinality(Below(i)) = (m - 1) - 1
    BY <2>2
  <2> DEFINE B == Below(i) \cup {i}
             T == {j \in S : i < j}
  <2>4. i \notin Below(i) /\ IsFiniteSet(Below(i))
    BY <1>2
  <2>5. Cardinality(B) = Cardinality(Below(i)) + 1
    BY <2>4, FS_AddElement
  <2>6. Cardinality(B) = m - 1
    BY <1>6, <2>3, <2>5
  <2>7. T # {}
    <3> SUFFICES ASSUME T = {} PROVE FALSE
      OBVIOUS
    <3>0. \A j \in S : j < i \/ j = i
      <4>1. \A j \in S : ~(i < j)
        BY Zenon
      <4> QED  BY <1>0, <4>1
    <3>1. S = B
      BY <3>0, Zenon
    <3>2. C = m - 1
      BY <2>6, <3>1
    <3> HIDE DEF C
    <3> QED  BY <1>1, <1>6, <3>2
  <2>8. PICK t \in T : \A l \in T : t <= l
    <3>1. T \subseteq Nat
      OBVIOUS
    <3> QED  BY <2>7, <3>1, LeastExists
  <2>9. Below(t) = B
    <3>1. t \in S /\ i < t
      BY Zenon
    <3>2. \A j \in S : i < j => t <= j
      BY <2>8, Zenon
    <3>3. \A j \in S : (j < t) <=> (j < i \/ j = i)
      BY <1>0, <3>1, <3>2
    <3> QED  BY <3>1, <3>3, Zenon
  <2>10. t \in S /\ Cardinality(Below(t)) = m - 1
    BY <2>6, <2>9
  <2> QED  BY <1>6, <2>10
<1> QED  BY <1>7, <1>8

LEMMA QueryType ==
    ASSUME NEW k, NEW d \in Keyspace, NEW x, NEW v
    PROVE  Query(k, d, x, v) \in Seq(Record)
<1> DEFINE S   == Matches(k, d, x, v)
           C   == Cardinality(S)
           ids == InOrder(S)
<1>1. S \subseteq Ids /\ S \subseteq Nat /\ S \subseteq LiveIds(d)
  BY BoundsAssumption, SeenFinite DEF Matches, LiveIds, Ids
<1>2. IsFiniteSet(S)
  BY <1>1, LiveFinite, FS_Subset
<1>3. C \in Nat
  BY <1>2, FS_CardinalityType
<1>4. ASSUME NEW n \in 1 .. C PROVE RecordOf(d, ids[n]) \in Record
  <2>1. \E i \in S : Cardinality({j \in S : j < i}) = n - 1
    BY <1>1, <1>2, Ranked
  <2>2. ids[n] = CHOOSE i \in S : Cardinality({j \in S : j < i}) = n - 1
    BY DEF InOrder
  <2>3. ids[n] \in S
    <3> HIDE DEF S, ids
    <3> QED  BY <2>1, <2>2
  <2>4. ids[n] \in Ids
    BY <1>1, <2>3
  <2> HIDE DEF ids
  <2> QED  BY <2>4 DEF RecordOf, Record, Keyspace, Row
<1>5. DOMAIN ids = 1 .. C
  BY DEF InOrder
<1>6. Query(k, d, x, v) = [n \in 1 .. C |-> RecordOf(d, ids[n])]
  BY <1>5 DEF Query
<1>7. [n \in 1 .. C |-> RecordOf(d, ids[n])] \in [1 .. C -> Record]
  BY <1>4
<1> QED  BY <1>3, <1>6, <1>7, SeqDef

-----------------------------------------------------------------------------
(* Where a call goes.                                                       *)
Active(c) == c.pc \in {"step", "rows", "publish"}

LEMMA OutputTypes ==
    /\ Object \in Outputs /\ Unset \in Outputs /\ NoRecord \in Outputs /\ Record \subseteq Outputs
    /\ NoNames \in [Names -> Outputs]
BY DEF Outputs, NoNames

LEMMA IdleOK == CallOK(Idle) /\ Idle.pc = "idle"
<1>1. /\ Null \in Values
      /\ NoCount \in [created : Nat, updated : Nat, deleted : Nat]
      /\ << >> \in Seq(Steps) /\ << >> \in Seq([Names -> Outputs]) /\ << >> \in Seq(Record)
  BY CommandAssumption, EmptySeq DEF NoCount
<1> DEFINE e == << >>
<1>2. Idle \in CallType /\ Idle.pc = "idle"
  <2>1. Idle = [pc |-> "idle", prog |-> 0, key |-> NoKey, list |-> NoList,
                frames |-> e, scopes |-> e, item |-> Null, gen |-> Absent,
                tries |-> 0, todo |-> e, count |-> NoCount, res |-> "none"]
    BY DEF Idle
  <2>2. /\ e \in Seq(Steps) /\ e \in Seq([Names -> Outputs]) /\ e \in Seq(Record)
    BY <1>1
  <2> HIDE DEF e
  <2>3. "none" \in Codes
    BY DEF Codes
  <2> QED  BY <1>1, <2>1, <2>2, <2>3 DEF CallType
<1> QED  BY <1>2 DEF CallOK, Stacked

LEMMA FailedOK ==
    ASSUME NEW c \in CallType, NEW code \in Codes
    PROVE  CallOK(Failed(c, code))
<1>1. Idle \in CallType
  BY IdleOK DEF CallOK
<1>2. /\ c.prog \in DOMAIN Programs \cup {0} /\ c.key \in Keys \cup {NoKey}
      /\ c.count \in [created : Nat, updated : Nat, deleted : Nat]
  BY DEF CallType
<1>3. Failed(c, code) \in CallType /\ Failed(c, code).pc = "done"
  BY <1>1, <1>2 DEF Failed, CallType
<1> QED  BY <1>3 DEF CallOK, Stacked

LEMMA StackTop ==
    ASSUME NEW c, CallOK(c), Active(c)
    PROVE  /\ Len(c.frames) \in Nat /\ Len(c.frames) >= 1 /\ Len(c.scopes) = Len(c.frames)
           /\ Len(c.frames) \in 1 .. Len(c.frames) /\ 1 \in 1 .. Len(c.frames)
           /\ Frame(c) \in Steps /\ Frame(c) = c.frames[Len(c.frames)]
           /\ Top(c.scopes) \in [Names -> Outputs] /\ c.scopes[1] \in [Names -> Outputs]
           /\ c.prog \in DOMAIN Programs
<1>1. c.frames \in Seq(Steps) /\ c.scopes \in Seq([Names -> Outputs])
  BY DEF CallOK, CallType
<1>2. Len(c.frames) >= 1 /\ Len(c.scopes) = Len(c.frames) /\ c.prog \in DOMAIN Programs
  BY DEF CallOK, Stacked, Active
<1>3. Len(c.frames) \in Nat
  BY <1>1, LenProperties
<1>4. Len(c.frames) \in 1 .. Len(c.frames) /\ 1 \in 1 .. Len(c.frames)
  BY <1>2, <1>3
<1>5. \A m \in 1 .. Len(c.frames) : c.frames[m] \in Steps /\ c.scopes[m] \in [Names -> Outputs]
  BY <1>1, <1>2, ElementOfSeq
<1> QED  BY <1>2, <1>3, <1>4, <1>5 DEF Frame, Top

(* record_step                                                              *)
LEMMA RecordedOK ==
    ASSUME NEW c, CallOK(c), Active(c), NEW out \in Outputs
    PROVE  CallOK(Recorded(c, out))
<1> DEFINE n  == Len(c.frames)
           a  == Step(c).as
           sc == [c.scopes EXCEPT ![n] = [c.scopes[n] EXCEPT ![a] = out]]
           fr == [c.frames EXCEPT ![n] = [c.frames[n] EXCEPT !.i = c.frames[n].i + 1]]
           r  == Recorded(c, out)
<1>1. /\ c \in CallType /\ Len(c.scopes) = n /\ n \in Nat /\ n >= 1 /\ n \in 1 .. n /\ 1 \in 1 .. n
      /\ c.frames[n] \in Steps /\ c.scopes[n] \in [Names -> Outputs] /\ c.prog \in DOMAIN Programs
  BY StackTop DEF CallOK, Top
<1>2. c.frames \in Seq(Steps) /\ c.scopes \in Seq([Names -> Outputs])
  BY <1>1 DEF CallType
<1>3. [c.scopes[n] EXCEPT ![a] = out] \in [Names -> Outputs]
  <2> HIDE DEF a, n
  <2> QED  BY <1>1
<1>4. sc \in Seq([Names -> Outputs]) /\ Len(sc) = n
  <2> DEFINE e == [c.scopes[n] EXCEPT ![a] = out]
  <2> HIDE DEF e, n
  <2> QED  BY <1>1, <1>2, <1>3, ExceptSeq DEF e
<1>5. /\ [c.frames[n] EXCEPT !.i = c.frames[n].i + 1] \in Steps
      /\ [c.frames[n] EXCEPT !.i = c.frames[n].i + 1].n = c.frames[n].n
  <2> DEFINE g == c.frames[n]
  <2>1. g \in Steps
    BY <1>1
  <2> HIDE DEF g
  <2>2. [g EXCEPT !.i = g.i + 1] \in Steps /\ [g EXCEPT !.i = g.i + 1].n = g.n
    BY <2>1 DEF Steps
  <2> QED  BY <2>2 DEF g
<1>6. fr \in Seq(Steps) /\ Len(fr) = n /\ \A m \in 1 .. n : fr[m].n = c.frames[m].n
  <2> DEFINE e == [c.frames[n] EXCEPT !.i = c.frames[n].i + 1]
  <2>1. e \in Steps /\ e.n = c.frames[n].n
    BY <1>5
  <2> HIDE DEF e
  <2>2. [c.frames EXCEPT ![n] = e] \in Seq(Steps) /\ Len([c.frames EXCEPT ![n] = e]) = n
    BY <1>1, <1>2, <2>1, ExceptSeq
  <2>3. \A m \in 1 .. n : [c.frames EXCEPT ![n] = e][m] = IF m = n THEN e ELSE c.frames[m]
    BY <1>1, <1>2, <2>1, ExceptSeq
  <2>4. fr = [c.frames EXCEPT ![n] = e]
    BY DEF e
  <2> HIDE DEF fr, n
  <2> QED  BY <2>1, <2>2, <2>3, <2>4
<1>7. << >> \in Seq(Record)
  BY EmptySeq
<1>8. r = [c EXCEPT !.scopes = sc, !.frames = fr, !.tries = 0, !.todo = << >>, !.pc = "step"]
  <2>1. r = [c EXCEPT !.scopes[n][a] = out, !.frames = NextStep(c.frames),
                      !.tries = 0, !.todo = << >>, !.pc = "step"]
    BY <1>1 DEF Recorded
  <2>2. NextStep(c.frames) = fr
    BY DEF NextStep
  <2> HIDE DEF r, n, a
  <2> QED  BY <1>1, <2>1, <2>2 DEF CallType
<1> HIDE DEF r, sc, fr
<1>9. r \in CallType
  BY <1>1, <1>4, <1>6, <1>7, <1>8 DEF CallType
<1>10. /\ r.pc = "step" /\ r.prog = c.prog /\ r.frames = fr /\ r.scopes = sc /\ r.list = c.list
  BY <1>1, <1>8 DEF CallType
<1>11. /\ c.frames[1].n = 0
       /\ \A m \in 1 .. n : c.frames[m].n > 0 => c.list # NoList
  BY DEF CallOK, Stacked, Active
<1>12. Stacked(r)
  BY <1>1, <1>4, <1>6, <1>10, <1>11 DEF Stacked
<1> QED  BY <1>9, <1>12 DEF CallOK, r

(* A call that only moves on inside its step.                               *)
LEMMA MovedOK ==
    ASSUME NEW c, CallOK(c), Active(c), NEW r \in CallType, r.frames = c.frames,
           r.scopes = c.scopes, r.prog = c.prog, r.list = c.list, Active(r),
           r.pc = "rows" => Frame(c).i <= Len(Frame(c).steps)
    PROVE  CallOK(r)
BY DEF CallOK, Stacked, Active, Frame

(* push_iteration                                                           *)
LEMMA IterationOK ==
    ASSUME NEW c \in CallType, c.pc = "step", c.prog \in DOMAIN Programs,
           Len(c.frames) >= 1, Len(c.scopes) = Len(c.frames), c.frames[1].n = 0,
           \A m \in 1 .. Len(c.frames) : c.frames[m].n > 0 => c.list # NoList,
           NEW steps \in StepLists, NEW n \in Nat \ {0}, c.list # NoList, n <= Len(c.list)
    PROVE  CallOK(Iteration(c, steps, n))
<1> DEFINE g  == [steps |-> steps, i |-> 1, n |-> n]
           fr == Append(c.frames, g)
           sc == Append(c.scopes, NoNames)
           r  == Iteration(c, steps, n)
<1>1. c.frames \in Seq(Steps) /\ c.scopes \in Seq([Names -> Outputs]) /\ c.list \in Seq(Values)
  BY CommandAssumption DEF CallType
<1>2. g \in Steps
  BY DEF Steps
<1>3. /\ fr \in Seq(Steps) /\ Len(fr) = Len(c.frames) + 1 /\ fr[1] = c.frames[1]
      /\ \A m \in 1 .. Len(fr) : fr[m] = IF m <= Len(c.frames) THEN c.frames[m] ELSE g
  <2> HIDE DEF g
  <2>1. Len(c.frames) \in Nat
    BY <1>1, LenProperties
  <2> QED  BY <1>1, <1>2, <2>1, AppendProperties
<1>4. sc \in Seq([Names -> Outputs]) /\ Len(sc) = Len(c.scopes) + 1
  BY <1>1, OutputTypes, AppendProperties
<1>5. c.list[n] \in Values
  <2>1. Len(c.list) \in Nat
    BY <1>1, LenProperties
  <2> QED  BY <1>1, <2>1, ElementOfSeq
<1>6. r = [c EXCEPT !.frames = fr, !.scopes = sc, !.item = c.list[n]]
  BY DEF Iteration, CallType
<1> HIDE DEF r, fr, sc, g
<1>7. r \in CallType
  BY <1>3, <1>4, <1>5, <1>6 DEF CallType
<1>8. r.pc = "step" /\ r.prog = c.prog /\ r.frames = fr /\ r.scopes = sc /\ r.list = c.list
  BY <1>6 DEF CallType
<1>9. Len(c.frames) \in Nat
  BY <1>1, LenProperties
<1>10. Stacked(r)
  BY <1>3, <1>4, <1>8, <1>9 DEF Stacked
<1> QED  BY <1>7, <1>10 DEF CallOK, r

(* pop_iteration                                                            *)
LEMMA PoppedOK ==
    ASSUME NEW c, CallOK(c), c.pc = "step", Frame(c).n # 0
    PROVE  LET o == [c EXCEPT !.frames = Rest(c.frames), !.scopes = Rest(c.scopes), !.item = Null]
           IN  CallOK(o) /\ o.pc = "step" /\ o.list = c.list /\ c.list # NoList
<1> DEFINE fr == Rest(c.frames)
           sc == Rest(c.scopes)
           o  == [c EXCEPT !.frames = fr, !.scopes = sc, !.item = Null]
           n  == Len(c.frames)
<1>1. Active(c)
  BY DEF Active
<1>2. /\ n \in Nat /\ n >= 1 /\ n \in 1 .. n /\ Len(c.scopes) = n /\ c.prog \in DOMAIN Programs
      /\ Frame(c) = c.frames[n]
  BY <1>1, StackTop
<1>3. /\ c \in CallType /\ c.frames[1].n = 0
      /\ \A m \in 1 .. n : c.frames[m].n > 0 => c.list # NoList
  BY <1>1 DEF CallOK, Stacked, Active
<1>4. c.frames \in Seq(Steps) /\ c.scopes \in Seq([Names -> Outputs])
  BY <1>3 DEF CallType
<1>5. n # 1 /\ c.list # NoList
  <2>1. Frame(c).n \in Nat
    BY <1>1, StackTop DEF Steps
  <2> QED  BY <1>2, <1>3, <2>1
<1>6. n - 1 \in Int /\ 1 \in Int /\ n - 1 >= 1 /\ (n - 1) - 1 + 1 = n - 1
  <2> HIDE DEF n
  <2> QED  BY <1>2, <1>5
<1>7. \A m \in 1 .. n - 1 : c.frames[m] \in Steps /\ c.scopes[m] \in [Names -> Outputs]
  BY <1>2, <1>4, ElementOfSeq
<1>8. /\ fr \in Seq(Steps) /\ Len(fr) = n - 1
      /\ \A m \in 1 .. n - 1 : fr[m] = c.frames[m]
  <2>1. /\ SubSeq(c.frames, 1, n - 1) \in Seq(Steps)
        /\ Len(SubSeq(c.frames, 1, n - 1)) = n - 1
        /\ \A m \in 1 .. n - 1 : SubSeq(c.frames, 1, n - 1)[m] = c.frames[m]
    BY <1>2, <1>4, <1>6, <1>7, SubSeqProperties
  <2> QED  BY <2>1 DEF Rest
<1>9. sc \in Seq([Names -> Outputs]) /\ Len(sc) = n - 1
  <2>1. /\ SubSeq(c.scopes, 1, n - 1) \in Seq([Names -> Outputs])
        /\ Len(SubSeq(c.scopes, 1, n - 1)) = n - 1
    BY <1>2, <1>4, <1>6, <1>7, SubSeqProperties
  <2> QED  BY <1>2, <2>1 DEF Rest
<1>10. Null \in Values
  BY CommandAssumption
<1>11. /\ o \in CallType /\ o.pc = "step" /\ o.list = c.list /\ o.frames = fr /\ o.scopes = sc
       /\ o.prog = c.prog
  <2> HIDE DEF fr, sc
  <2> QED  BY <1>3, <1>8, <1>9, <1>10 DEF CallType
<1>12. Stacked(o)
  <2> HIDE DEF o, fr, sc
  <2> QED  BY <1>2, <1>3, <1>6, <1>8, <1>9, <1>11, SMTT(60) DEF Stacked
<1> QED  BY <1>5, <1>11, <1>12 DEF CallOK

LEMMA FieldOfType ==
    ASSUME NEW out \in Outputs, NEW x \in Indexes
    PROVE  FieldOf(out, x) \in Values
<1>1. Null \in Values
  BY CommandAssumption
<1>2. ASSUME out.ver > 0, out.data[x] # Absent PROVE out.data[x] \in Values
  <2>1. NoRecord.ver = 0 /\ Object.ver = -1 /\ Unset.ver = -2
    BY DEF NoRecord, Object, Unset
  <2>2. out \in Record
    BY <1>2, <2>1 DEF Outputs
  <2> QED  BY <1>2, <2>2 DEF Record, Data
<1> QED  BY <1>1, <1>2 DEF FieldOf

(* A resolved template is the data of a record.                             *)
LEMMA ResolveDataType ==
    ASSUME NEW c, CallOK(c), Active(c), NEW t \in Templates
    PROVE  ResolveData(c, t) \in Data
<1> SUFFICES ASSUME NEW x \in Indexes PROVE Resolve(c, t[x]) \in Values \cup {Absent}
  BY DEF ResolveData, Data
<1> DEFINE src == t[x]
<1>1. src \in Sources
  BY DEF Templates
<1>2. c.item \in Values /\ c.gen \in Values \cup {Absent}
  BY DEF CallOK, CallType
<1>3. CASE src \in [from : {"lit"}, v : Values \cup {Absent}]
  BY <1>3 DEF Resolve
<1>4. CASE src \in [from : {"item", "gen", "none"}]
  BY <1>2, <1>4 DEF Resolve
<1>5. CASE src \in [from : {"step"}, name : Names, x : Indexes]
  <2>1. src.from = "step" /\ src.name \in Names /\ src.x \in Indexes
    BY <1>5
  <2>2. StepValue(c, src.name) \in Outputs
    BY <2>1, StackTop DEF StepValue
  <2>3. FieldOf(StepValue(c, src.name), src.x) \in Values
    BY <2>1, <2>2, FieldOfType
  <2> HIDE DEF src
  <2>4. Resolve(c, src) = FieldOf(StepValue(c, src.name), src.x)
    BY <2>1 DEF Resolve
  <2> QED  BY <2>3, <2>4 DEF src
<1> QED  BY <1>1, <1>3, <1>4, <1>5 DEF Sources

(* generated_value                                                          *)
LEMMA WithGenOK ==
    ASSUME NEW c, CallOK(c), Active(c), NEW t, NEW g \in WithGen(c, t)
    PROVE  /\ CallOK(g) /\ g.pc = c.pc /\ g.key = c.key /\ g.prog = c.prog
           /\ g.todo = c.todo /\ g.frames = c.frames
<1>1. c \in CallType
  BY DEF CallOK
<1>2. CASE g = c
  BY <1>2
<1>3. CASE g # c
  <2>1. PICK v \in GeneratedValues(c) : g = [c EXCEPT !.gen = v]
    BY <1>3 DEF WithGen
  <2>2. v \in Values
    BY <1>1, <2>1, CommandAssumption DEF GeneratedValues, CallType
  <2>3. /\ g \in CallType /\ g.pc = c.pc /\ g.key = c.key /\ g.prog = c.prog
        /\ g.todo = c.todo /\ g.frames = c.frames /\ g.scopes = c.scopes /\ g.list = c.list
    BY <1>1, <2>1, <2>2 DEF CallType
  <2>4. c.pc = "rows" => Frame(c).i <= Len(Frame(c).steps)
    BY DEF CallOK, Stacked
  <2>5. CallOK(g)
    BY <2>3, <2>4, MovedOK DEF Active
  <2> QED  BY <2>3, <2>5
<1> QED  BY <1>2, <1>3

LEMMA RetryOK ==
    ASSUME NEW c, CallOK(c), Active(c), NEW t, NEW data, NEW self, NEW code \in Codes
    PROVE  CallOK(Retry(c, t, data, self, code))
<1> DEFINE g == [c EXCEPT !.gen = Absent, !.tries = c.tries + 1]
<1>1. c \in CallType
  BY DEF CallOK
<1>2. /\ g \in CallType /\ g.pc = c.pc /\ g.prog = c.prog
      /\ g.frames = c.frames /\ g.scopes = c.scopes /\ g.list = c.list
  <2> DEFINE n == c.tries + 1
  <2>1. n \in Nat
    BY <1>1 DEF CallType
  <2> HIDE DEF n
  <2>2. g = [c EXCEPT !.gen = Absent, !.tries = n]
    BY DEF n
  <2> HIDE DEF g
  <2> QED  BY <1>1, <2>1, <2>2 DEF CallType
<1>3. c.pc = "rows" => Frame(c).i <= Len(Frame(c).steps)
  BY DEF CallOK, Stacked
<1>4. CallOK(g)
  <2> HIDE DEF g
  <2> QED  BY <1>2, <1>3, MovedOK DEF Active
<1>5. CallOK(Failed(c, code))
  BY <1>1, FailedOK
<1> QED  BY <1>4, <1>5 DEF Retry

LEMMA GoesOK ==
    ASSUME CallTypes, NEW p \in Calls, NEW c, CallOK(c), Goes(p, c)
    PROVE  CallTypes'
<1>1. calls' = [calls EXCEPT ![p] = c] /\ c \in CallType /\ Stacked(c)
  BY DEF Goes, CallOK
<1>2. calls' \in [Calls -> CallType]
  BY <1>1 DEF CallTypes
<1>3. \A q \in Calls : calls'[q] = IF q = p THEN c ELSE calls[q]
  BY <1>1 DEF CallTypes
<1>4. \A q \in Calls : Stacked(calls'[q])
  BY <1>1, <1>3 DEF CallTypes
<1> QED  BY <1>2, <1>4 DEF CallTypes

(* The step a call is at.                                                   *)
LEMMA StepTyped ==
    ASSUME NEW c, CallOK(c), AtStep(c) \/ c.pc = "rows"
    PROVE  /\ Active(c)
           /\ Frame(c).i <= Len(Frame(c).steps)
           /\ Step(c).op = "create" => Step(c).input \in Templates
           /\ Step(c).op = "update_where" => Step(c).set \in Templates
           /\ Step(c).op = "foreach" => Step(c).steps \in StepLists
<1>1. Active(c)
  BY DEF AtStep, Active
<1>2. Frame(c).i <= Len(Frame(c).steps)
  BY DEF AtStep, CallOK, Stacked
<1>3. Frame(c) \in Steps
  BY <1>1, StackTop
<1> DEFINE l == Frame(c).steps
           i == Frame(c).i
<1>4. l \in StepLists /\ i \in Nat \ {0}
  BY <1>3 DEF Steps
<1>5. Len(l) \in Nat
  BY <1>4, ProgramAssumption
<1>6. i \in 1 .. Len(l)
  BY <1>2, <1>4, <1>5
<1>7. Step(c) = l[i]
  BY DEF Step
<1> HIDE DEF l, i
<1>8. /\ l[i].op = "create" => l[i].input \in Templates
      /\ l[i].op = "update_where" => l[i].set \in Templates
      /\ l[i].op = "foreach" => l[i].steps \in StepLists
  BY <1>4, <1>6, ProgramAssumption
<1> QED  BY <1>1, <1>2, <1>7, <1>8

-----------------------------------------------------------------------------
(* What a step of a command does to the store, its file and the histories.  *)
Torn == [form |-> "torn", db |-> EmptyKeyspace]

(* The memory store writes its file, or fails to.                           *)
FileStep(w, ok) ==
    \/ kind # "memory" /\ file' = file
    \/ kind = "memory" /\ ok = TRUE /\ file' = Snapshot(w)
    \/ kind = "memory" /\ ok = FALSE /\ file' \in {file, Torn}

Quiet == /\ UNCHANGED <<db, file, keyed, acked>>
         /\ made' = made \/ made' = [made EXCEPT !.events = made.events + 1]

Inserting(op) == ~IdemHit(db, op) /\ ConflictsIn(kind, db, op.data, NoId) = {}

Creates(op, ok) ==
    /\ op.id = NoId
    /\ IdInBound(kind, db)
    /\ db' = StoreCreate(kind, db, op).db
    /\ \/ ~Inserting(op) /\ UNCHANGED <<file, keyed, acked, made>>
       \/ /\ Inserting(op)
          /\ FileStep(StoreCreate(kind, db, op).db, ok)
          /\ made' = [made EXCEPT !.created = made.created + 1]
          /\ keyed' = IF op.key # NoKey THEN [keyed EXCEPT ![op.key] = keyed[op.key] + 1] ELSE keyed
          /\ acked' = [acked EXCEPT ![StoreId(kind, db, op)] = IF ok THEN 1 ELSE 0]

Updates(op, ok) ==
    /\ db' = StoreUpdate(kind, db, op).db
    /\ keyed' = keyed
    /\ \/ StoreUpdate(kind, db, op).res.code # "ok" /\ UNCHANGED <<file, acked, made>>
       \/ /\ StoreUpdate(kind, db, op).res.code = "ok"
          /\ FileStep(StoreUpdate(kind, db, op).db, ok)
          /\ made' = [made EXCEPT !.updated = made.updated + 1]
          /\ acked' = IF ok THEN [acked EXCEPT ![op.id] = StoreUpdate(kind, db, op).res.rec.ver]
                      ELSE acked

Deletes(id, ok) ==
    /\ db' = StoreDelete(kind, db, id).db
    /\ FileStep(StoreDelete(kind, db, id).db, ok)
    /\ made' = [made EXCEPT !.deleted =
                   made.deleted + (IF StoreDelete(kind, db, id).res.deleted THEN 1 ELSE 0)]
    /\ acked' = [acked EXCEPT ![id] = 0]
    /\ keyed' = keyed

Appends(payload, ok) ==
    /\ db.evseq < MaxSeq
    /\ db' = StoreAppendEvent(kind, db, payload).db
    /\ FileStep(StoreAppendEvent(kind, db, payload).db, ok)
    /\ UNCHANGED <<made, keyed, acked>>

Steady == UNCHANGED <<kind, up, crashes>> /\ reruns' \in {reruns, reruns + 1}

Effect ==
    \/ Quiet
    \/ \E op \in CreateOps({Named}), ok \in BOOLEAN : Creates(op, ok)
    \/ \E op \in UpdateOps({Named}), ok \in BOOLEAN : Updates(op, ok)
    \/ \E id \in Ids, ok \in BOOLEAN : Deletes(id, ok)
    \/ \E payload \in Payloads, ok \in BOOLEAN : Appends(payload, ok)

(* What a step hears instead of the answer of the store.                    *)
Silent == {WriteFails, CommitUnknown, "lost", "again"}

LEMMA FailCode ==
    ASSUME NEW code \in Silent
    PROVE  /\ Fail(code).code = code /\ code # "ok"
           /\ code # "again" => code \in Codes
BY DEF Silent, Fail, WriteFails, CommitUnknown, Codes

(* The outcome of a call of the store: the caller of the memory store hears *)
(* what the store answered exactly when the file was written, if it had to  *)
(* be; of a change in the other two it may hear nothing.                    *)
LEMMA Outcome ==
    ASSUME NEW r, NEW changes \in BOOLEAN, NEW o \in StoreOutcomes(r, changes)
    PROVE  /\ o.db = r.db
           /\ \/ o.res = r.res /\ o.file = file /\ (kind # "memory" \/ ~changes)
              \/ o.res = r.res /\ o.file = Snapshot(r.db) /\ kind = "memory" /\ changes
              \/ /\ o.res = Fail(WriteFails) /\ o.file \in {file, Torn}
                 /\ kind = "memory" /\ changes
              \/ /\ \E code \in Silent : o.res = Fail(code)
                 /\ o.file = file /\ kind # "memory" /\ changes
<1>1. CASE kind # "memory" \/ ~changes
  <2> DEFINE b == kind # "memory" /\ changes
  <2>1. PICK a \in {r.res} \cup (IF b THEN {Fail(code) : code \in Silences} ELSE {}) :
           o = [res |-> a, db |-> r.db, file |-> file]
    BY <1>1 DEF StoreOutcomes, Answered
  <2>2. o.res = a /\ o.db = r.db /\ o.file = file
    BY <2>1
  <2>3. CASE a = r.res
    BY <1>1, <2>2, <2>3
  <2>4. CASE a # r.res
    <3>1. b /\ a \in {Fail(code) : code \in Silences}
      BY <2>1, <2>4
    <3>2. PICK code \in Silences : a = Fail(code)
      BY <3>1
    <3>3. code \in Silent
      BY DEF Silences, Silent
    <3> QED  BY <2>2, <3>1, <3>2, <3>3
  <2> QED  BY <2>3, <2>4
<1>2. CASE kind = "memory" /\ changes
  <2>1. PICK w \in Persisted(file, r.db) :
           o = [res |-> IF w.ok THEN r.res ELSE Fail(WriteFails), db |-> r.db, file |-> w.file]
    BY <1>2 DEF StoreOutcomes
  <2>2. CASE w = [ok |-> TRUE, file |-> Snapshot(r.db)]
    <3>1. o = [res |-> r.res, db |-> r.db, file |-> Snapshot(r.db)]
      BY <2>1, <2>2
    <3> QED  BY <1>2, <3>1
  <2>3. CASE w = [ok |-> FALSE, file |-> file]
    <3>1. o = [res |-> Fail(WriteFails), db |-> r.db, file |-> file]
      BY <2>1, <2>3
    <3> QED  BY <1>2, <3>1
  <2>4. CASE w = [ok |-> FALSE, file |-> Torn]
    <3>1. o = [res |-> Fail(WriteFails), db |-> r.db, file |-> Torn]
      BY <2>1, <2>4
    <3> QED  BY <1>2, <3>1
  <2> QED  BY <2>1, <2>2, <2>3, <2>4 DEF Persisted, Torn
<1> QED  BY <1>1, <1>2

(* A changing call of the store that would answer "ok": what the caller     *)
(* hears, and the file.                                                     *)
LEMMA ChangeOutcome ==
    ASSUME NEW r, r.res.code = "ok", NEW o \in StoreOutcomes(r, TRUE), StoreIs(o)
    PROVE  /\ db' = r.db
           /\ o.res.code \in {"ok"} \cup Silent
           /\ o.res.code = "ok" => o.res = r.res /\ FileStep(r.db, TRUE)
           /\ o.res.code # "ok" => FileStep(r.db, FALSE)
<1>1. /\ o.db = r.db
      /\ \/ o.res = r.res /\ o.file = file /\ kind # "memory"
         \/ o.res = r.res /\ o.file = Snapshot(r.db) /\ kind = "memory"
         \/ o.res = Fail(WriteFails) /\ o.file \in {file, Torn} /\ kind = "memory"
         \/ (\E code \in Silent : o.res = Fail(code)) /\ o.file = file /\ kind # "memory"
  BY Outcome
<1>2. db' = o.db /\ file' = o.file
  BY DEF StoreIs
<1>3. WriteFails \in Silent
  BY DEF Silent
<1> QED  BY <1>1, <1>2, <1>3, FailCode DEF FileStep

(* One call of the store, and the caller after it.                          *)
LEMMA StoredStep ==
    ASSUME StoreTypes, NEW p, NEW o, NEW c, NEW next, Stored(p, o, c, next)
    PROVE  /\ StoreIs(o) /\ Steady
           /\ o.res.code = "again" => Goes(p, c) /\ reruns' = reruns + 1
           /\ o.res.code # "again" => Goes(p, next) /\ reruns' = reruns
<1>1. reruns \in Nat
  BY DEF StoreTypes
<1> QED  BY <1>1 DEF Stored, Steady

LEMMA CreateEffect ==
    ASSUME StoreTypes, CallTypes, NEW p \in Calls, CreateStep(p)
    PROVE  Steady /\ Effect /\ CallTypes'
<1> DEFINE c0 == calls[p]
<1>1. CallOK(c0) /\ kind \in Kinds /\ db \in Keyspace
  BY DEF CallTypes, CallOK, StoreTypes
<1>2. Active(c0) /\ Step(c0).input \in Templates
  BY <1>1, StepTyped DEF CreateStep, Running
<1>3. PICK c \in WithGen(c0, Step(c0).input) :
         LET data == ResolveData(c, Step(c).input)
             op   == CreateOpOf(c, data)
             r    == StoreCreate(kind, db, op)
             new  == ~IdemHit(db, op) /\ ConflictsOf(data, NoId) = {}
         IN  \E o \in StoreOutcomes(r, new) :
                /\ Stored(p, o, c, IF o.res.code = "ok"
                                THEN [Recorded(c, o.res.rec) EXCEPT !.count.created = @ + 1]
                                ELSE Retry(c, Step(c).input, data, NoId, o.res.code))
                /\ made' = IF new THEN [made EXCEPT !.created = @ + 1] ELSE made
                /\ keyed' = IF new /\ c.key # NoKey
                            THEN [keyed EXCEPT ![c.key] = @ + 1] ELSE keyed
                /\ acked' = IF new THEN [acked EXCEPT ![r.res.rec.id] =
                                           IF o.res.code = "ok" THEN 1 ELSE 0] ELSE acked
  BY DEF CreateStep
<1> DEFINE data == ResolveData(c, Step(c).input)
           op   == CreateOpOf(c, data)
           r    == StoreCreate(kind, db, op)
           new  == ~IdemHit(db, op) /\ ConflictsOf(data, NoId) = {}
<1>4. PICK o \in StoreOutcomes(r, new) :
         /\ Stored(p, o, c, IF o.res.code = "ok"
                         THEN [Recorded(c, o.res.rec) EXCEPT !.count.created = @ + 1]
                         ELSE Retry(c, Step(c).input, data, NoId, o.res.code))
         /\ made' = IF new THEN [made EXCEPT !.created = @ + 1] ELSE made
         /\ keyed' = IF new /\ c.key # NoKey
                     THEN [keyed EXCEPT ![c.key] = @ + 1] ELSE keyed
         /\ acked' = IF new THEN [acked EXCEPT ![r.res.rec.id] =
                                    IF o.res.code = "ok" THEN 1 ELSE 0] ELSE acked
  BY <1>3, Zenon
<1>5. CallOK(c) /\ Active(c) /\ Step(c) = Step(c0) /\ c.key \in Keys \cup {NoKey}
      /\ c.prog \in DOMAIN Programs /\ c \in CallType
  <2>1. CallOK(c) /\ c.pc = c0.pc /\ c.frames = c0.frames
    BY <1>1, <1>2, WithGenOK
  <2>2. Active(c) /\ Step(c) = Step(c0)
    BY <1>2, <2>1 DEF Active, Step, Frame
  <2>3. c.prog \in DOMAIN Programs
    BY <2>1, <2>2, StackTop
  <2> QED  BY <2>1, <2>2, <2>3 DEF CallOK, CallType
<1>6. data \in Data
  BY <1>2, <1>5, ResolveDataType
<1>7. op \in CreateOps({Named}) /\ op.id = NoId /\ op.key = c.key /\ op.data = data
  BY <1>5, <1>6, ProgramAssumption DEF CreateOpOf, CreateOps
<1>8. new <=> Inserting(op)
  BY <1>7 DEF Inserting, ConflictsOf, ConflictsIn
<1>9. IdInBound(kind, db)
  BY DEF CreateStep
<1>10. /\ r.res.code \in {"ok", "unique_constraint_violation"}
       /\ r.res.code = "ok" => r.res.rec \in Record
       /\ new => r.res.code = "ok" /\ r.res.rec.id = StoreId(kind, db, op)
  <2> HIDE DEF op
  <2> QED  BY <1>1, <1>7, <1>8, <1>9, StoreCreates DEF Inserting
<1>11. /\ StoreIs(o) /\ Steady
       /\ o.res.code = "again" => Goes(p, c)
       /\ o.res.code # "again" =>
             Goes(p, IF o.res.code = "ok"
                     THEN [Recorded(c, o.res.rec) EXCEPT !.count.created = @ + 1]
                     ELSE Retry(c, Step(c).input, data, NoId, o.res.code))
  BY <1>4, StoredStep
<1> HIDE DEF data, op, r
<1>12. /\ o.res.code \in Codes \cup {"again"}
       /\ o.res.code = "ok" => o.res.rec \in Record
       /\ \E ok \in BOOLEAN : Creates(op, ok)
  <2>1. CASE new
    <3>1. o \in StoreOutcomes(r, TRUE) /\ r.res.code = "ok"
      <4>1. new = TRUE
        BY <2>1, Zenon
      <4> QED  BY <1>10, <2>1, <4>1
    <3>2. /\ db' = r.db
          /\ o.res.code \in {"ok"} \cup Silent
          /\ o.res.code = "ok" => o.res = r.res /\ FileStep(r.db, TRUE)
          /\ o.res.code # "ok" => FileStep(r.db, FALSE)
      BY <1>11, <3>1, ChangeOutcome
    <3>3. /\ made' = [made EXCEPT !.created = made.created + 1]
          /\ keyed' = IF op.key # NoKey THEN [keyed EXCEPT ![op.key] = keyed[op.key] + 1] ELSE keyed
          /\ acked' = [acked EXCEPT ![StoreId(kind, db, op)] = IF o.res.code = "ok" THEN 1 ELSE 0]
      BY <1>4, <1>7, <1>10, <2>1
    <3>4. CASE o.res.code = "ok"
      <4>1. Creates(op, TRUE)
        BY <1>7, <1>8, <1>9, <2>1, <3>2, <3>3, <3>4 DEF Creates, r
      <4> QED  BY <1>10, <3>1, <3>2, <3>4, <4>1 DEF Codes
    <3>5. CASE o.res.code # "ok"
      <4>1. Creates(op, FALSE)
        BY <1>7, <1>8, <1>9, <2>1, <3>2, <3>3, <3>5 DEF Creates, r
      <4> QED  BY <3>2, <3>5, <4>1, FailCode
    <3> QED  BY <3>4, <3>5
  <2>2. CASE ~new
    <3>1. new = FALSE
      BY <2>2, Zenon
    <3>2. o.db = r.db /\ o.res = r.res /\ o.file = file
      <4>1. o \in StoreOutcomes(r, FALSE)
        BY <3>1
      <4>2. FALSE \in BOOLEAN
        OBVIOUS
      <4> QED  BY <4>1, <4>2, Outcome
    <3>3. db' = r.db /\ UNCHANGED <<file, keyed, acked, made>>
      BY <1>4, <1>11, <2>2, <3>2 DEF StoreIs
    <3>4. Creates(op, TRUE)
      BY <1>7, <1>8, <1>9, <2>2, <3>3 DEF Creates, r
    <3> QED  BY <1>10, <3>2, <3>4 DEF Codes
  <2> QED  BY <2>1, <2>2
<1>13. ASSUME o.res.code = "ok"
       PROVE  CallOK([Recorded(c, o.res.rec) EXCEPT !.count.created = @ + 1])
  <2> DEFINE g == Recorded(c, o.res.rec)
  <2>1. o.res.rec \in Outputs
    BY <1>12, <1>13, OutputTypes
  <2>2. CallOK(g)
    BY <1>5, <2>1, RecordedOK
  <2> HIDE DEF g
  <2> DEFINE n == [g.count EXCEPT !.created = g.count.created + 1]
             h == [g EXCEPT !.count.created = @ + 1]
  <2>3. g \in CallType /\ n \in [created : Nat, updated : Nat, deleted : Nat]
    BY <2>2, SMTT(60) DEF CallOK, CallType
  <2>4. h = [g EXCEPT !.count = n]
    BY <2>3 DEF CallType
  <2> HIDE DEF n
  <2>5. h \in CallType
    <3> HIDE DEF h
    <3> QED  BY <2>3, <2>4 DEF CallType
  <2>6. Stacked(h)
    BY <2>2, <2>3 DEF CallOK, CallType, Stacked, Frame, Top
  <2> QED  BY <2>5, <2>6 DEF CallOK, g
<1>14. ASSUME o.res.code \notin {"ok", "again"}
       PROVE  CallOK(Retry(c, Step(c).input, data, NoId, o.res.code))
  BY <1>5, <1>12, <1>14, RetryOK
<1>15. CallTypes'
  <2>1. CASE o.res.code = "ok"
    BY <1>11, <1>13, <2>1, GoesOK
  <2>2. CASE o.res.code \notin {"ok", "again"}
    BY <1>11, <1>14, <2>2, GoesOK
  <2>3. CASE o.res.code = "again"
    BY <1>5, <1>11, <2>3, GoesOK
  <2> QED  BY <2>1, <2>2, <2>3
<1> QED  BY <1>7, <1>11, <1>12, <1>15 DEF Effect

(* A row of a where-step: the record at the head of the list.               *)
LEMMA RowHead ==
    ASSUME NEW c, CallOK(c), c.pc = "rows", c.todo # << >>
    PROVE  /\ Head(c.todo) \in Record /\ Head(c.todo).id \in Ids
           /\ Tail(c.todo) \in Seq(Record)
           /\ c \in CallType /\ Active(c)
           /\ Frame(c).i <= Len(Frame(c).steps)
<1>1. c \in CallType /\ Frame(c).i <= Len(Frame(c).steps)
  BY DEF CallOK, Stacked
<1>2. c.todo \in Seq(Record)
  BY <1>1 DEF CallType
<1>3. Head(c.todo) \in Record /\ Tail(c.todo) \in Seq(Record)
  BY <1>2, HeadTailProperties
<1> QED  BY <1>1, <1>3 DEF Record, Active

LEMMA RowDoneOK ==
    ASSUME NEW c, CallOK(c), c.pc = "rows", c.todo # << >>, NEW t \in Nat,
           NEW n \in [created : Nat, updated : Nat, deleted : Nat]
    PROVE  CallOK([c EXCEPT !.todo = Tail(c.todo), !.tries = t, !.count = n])
<1> DEFINE l == Tail(c.todo)
           g == [c EXCEPT !.todo = l, !.tries = t, !.count = n]
<1>1. l \in Seq(Record) /\ c \in CallType /\ Active(c) /\ Frame(c).i <= Len(Frame(c).steps)
  BY RowHead
<1> HIDE DEF l
<1>2. /\ g \in CallType /\ g.pc = c.pc /\ g.prog = c.prog
      /\ g.frames = c.frames /\ g.scopes = c.scopes /\ g.list = c.list
  BY <1>1 DEF CallType
<1>3. CallOK(g)
  <2> HIDE DEF g
  <2> QED  BY <1>1, <1>2, MovedOK DEF Active
<1> QED  BY <1>3 DEF l

LEMMA DeleteEffect ==
    ASSUME StoreTypes, CallTypes, NEW p \in Calls, DeleteRow(p)
    PROVE  Steady /\ Effect /\ CallTypes'
<1> DEFINE c  == calls[p]
           id == Head(c.todo).id
           r  == StoreDelete(kind, db, id)
<1>1. CallOK(c) /\ kind \in Kinds /\ db \in Keyspace /\ c.pc = "rows" /\ c.todo # << >>
  BY DEF CallTypes, CallOK, StoreTypes, DeleteRow, AtRow
<1>2. id \in Ids /\ c \in CallType
  BY <1>1, RowHead
<1>3. r.res.code = "ok"
  <2> HIDE DEF id
  <2> QED  BY <1>1, <1>2, StoreDeletes
<1>4. PICK o \in StoreOutcomes(r, TRUE) :
         Stored(p, o, c, IF o.res.code = "ok"
                      THEN [c EXCEPT !.todo = Tail(c.todo), !.count.deleted = DeletedCount(c, o.res)]
                      ELSE Failed(c, o.res.code))
  BY DEF DeleteRow
<1>5. /\ made' = [made EXCEPT !.deleted = made.deleted + (IF r.res.deleted THEN 1 ELSE 0)]
      /\ acked' = [acked EXCEPT ![id] = 0]
      /\ keyed' = keyed
  BY DEF DeleteRow
<1>6. /\ StoreIs(o) /\ Steady
      /\ o.res.code = "again" => Goes(p, c)
      /\ o.res.code # "again" =>
            Goes(p, IF o.res.code = "ok"
                    THEN [c EXCEPT !.todo = Tail(c.todo), !.count.deleted = DeletedCount(c, o.res)]
                    ELSE Failed(c, o.res.code))
  BY <1>4, StoredStep
<1> HIDE DEF id, r
<1>7. /\ db' = r.db
      /\ o.res.code \in {"ok"} \cup Silent
      /\ o.res.code = "ok" => o.res = r.res /\ FileStep(r.db, TRUE)
      /\ o.res.code # "ok" => FileStep(r.db, FALSE)
  BY <1>3, <1>6, ChangeOutcome
<1>8. Effect
  <2>1. CASE o.res.code = "ok"
    <3>1. Deletes(id, TRUE)
      BY <1>5, <1>7, <2>1 DEF Deletes, r
    <3> QED  BY <1>2, <3>1 DEF Effect
  <2>2. CASE o.res.code # "ok"
    <3>1. Deletes(id, FALSE)
      BY <1>5, <1>7, <2>2 DEF Deletes, r
    <3> QED  BY <1>2, <3>1 DEF Effect
  <2> QED  BY <2>1, <2>2
<1>9. CASE o.res.code = "ok"
  <2> DEFINE m == DeletedCount(c, o.res)
             n == [c.count EXCEPT !.deleted = m]
             t == c.tries
  <2>1. m \in Nat /\ c.count \in [created : Nat, updated : Nat, deleted : Nat] /\ t \in Nat
    BY <1>2 DEF DeletedCount, CallType
  <2> HIDE DEF m
  <2>2. n \in [created : Nat, updated : Nat, deleted : Nat]
    BY <2>1
  <2>3. [c EXCEPT !.todo = Tail(c.todo), !.count.deleted = m]
          = [c EXCEPT !.todo = Tail(c.todo), !.tries = t, !.count = n]
    BY <1>2 DEF CallType
  <2> HIDE DEF n, t
  <2>4. CallOK([c EXCEPT !.todo = Tail(c.todo), !.count.deleted = m])
    BY <1>1, <2>1, <2>2, <2>3, RowDoneOK
  <2> QED  BY <1>6, <1>8, <1>9, <2>4, GoesOK DEF m
<1>10. CASE o.res.code \notin {"ok", "again"}
  <2>1. CallOK(Failed(c, o.res.code))
    BY <1>2, <1>7, <1>10, FailedOK, FailCode
  <2> QED  BY <1>6, <1>8, <1>10, <2>1, GoesOK
<1>11. CASE o.res.code = "again"
  BY <1>1, <1>6, <1>8, <1>11, GoesOK
<1> QED  BY <1>9, <1>10, <1>11

LEMMA UpdateEffect ==
    ASSUME StoreTypes, CallTypes, NEW p \in Calls, NEW c, CallOK(c), c.pc = "rows",
           c.todo # << >>, NEW patch \in Data, NEW t, UpdateTo(p, c, patch, t)
    PROVE  Steady /\ Effect /\ CallTypes'
<1> DEFINE id == Head(c.todo).id
           op == [id |-> id, patch |-> patch, named |-> Named]
           r  == StoreUpdate(kind, db, op)
           ok == r.res.code = "ok"
<1>1. kind \in Kinds /\ db \in Keyspace
  BY DEF StoreTypes
<1>2. id \in Ids /\ c \in CallType /\ Active(c)
  BY RowHead
<1>3. op \in UpdateOps({Named}) /\ op.id = id
  BY <1>2 DEF UpdateOps
<1>4. r.res.code \in {"ok", "record_not_found", "unique_constraint_violation"}
  <2> HIDE DEF op
  <2> QED  BY <1>1, <1>3, StoreUpdates
<1>5. PICK o \in StoreOutcomes(r, ok) :
         /\ Stored(p, o, c, IF o.res.code = "ok"
                         THEN [c EXCEPT !.todo = Tail(c.todo), !.tries = 0, !.count.updated = @ + 1]
                         ELSE Retry(c, t, Patched(db, op), id, o.res.code))
         /\ acked' = IF o.res.code = "ok" THEN [acked EXCEPT ![id] = r.res.rec.ver] ELSE acked
  BY DEF UpdateTo
<1>6. /\ made' = IF ok THEN [made EXCEPT !.updated = made.updated + 1] ELSE made
      /\ keyed' = keyed
  BY DEF UpdateTo
<1>7. /\ StoreIs(o) /\ Steady
      /\ o.res.code = "again" => Goes(p, c)
      /\ o.res.code # "again" =>
            Goes(p, IF o.res.code = "ok"
                    THEN [c EXCEPT !.todo = Tail(c.todo), !.tries = 0, !.count.updated = @ + 1]
                    ELSE Retry(c, t, Patched(db, op), id, o.res.code))
  BY <1>5, StoredStep
<1> HIDE DEF id, op, r
<1>8. o.res.code \in Codes \cup {"again"} /\ Effect
  <2>1. CASE ok
    <3>1. o \in StoreOutcomes(r, TRUE)
      <4>1. ok = TRUE
        BY <2>1, Zenon
      <4> QED  BY <4>1
    <3>2. /\ db' = r.db
          /\ o.res.code \in {"ok"} \cup Silent
          /\ o.res.code = "ok" => o.res = r.res /\ FileStep(r.db, TRUE)
          /\ o.res.code # "ok" => FileStep(r.db, FALSE)
      BY <1>7, <2>1, <3>1, ChangeOutcome
    <3>3. CASE o.res.code = "ok"
      <4>1. Updates(op, TRUE)
        BY <1>3, <1>5, <1>6, <2>1, <3>2, <3>3 DEF Updates, r
      <4> QED  BY <1>3, <3>3, <4>1 DEF Effect, Codes
    <3>4. CASE o.res.code # "ok"
      <4>1. Updates(op, FALSE)
        BY <1>5, <1>6, <2>1, <3>2, <3>4 DEF Updates, r
      <4> QED  BY <1>3, <3>2, <3>4, <4>1, FailCode DEF Effect
    <3> QED  BY <3>3, <3>4
  <2>2. CASE ~ok
    <3>1. o.db = r.db /\ o.res = r.res /\ o.file = file
      <4>1. o \in StoreOutcomes(r, FALSE)
        <5>1. ok = FALSE
          BY <2>2, Zenon
        <5> QED  BY <5>1
      <4>2. FALSE \in BOOLEAN
        OBVIOUS
      <4> QED  BY <4>1, <4>2, Outcome
    <3>2. db' = r.db /\ UNCHANGED <<file, acked, made>>
      BY <1>5, <1>6, <1>7, <2>2, <3>1 DEF StoreIs
    <3>3. Updates(op, TRUE)
      BY <1>6, <2>2, <3>2 DEF Updates, r
    <3> QED  BY <1>3, <1>4, <3>1, <3>3 DEF Effect, Codes
  <2> QED  BY <2>1, <2>2
<1>9. CASE o.res.code = "ok"
  <2> DEFINE n == [c.count EXCEPT !.updated = c.count.updated + 1]
             z == 0
  <2>1. n \in [created : Nat, updated : Nat, deleted : Nat] /\ z \in Nat
    <3>1. c.count \in [created : Nat, updated : Nat, deleted : Nat]
      BY <1>2 DEF CallType
    <3>2. c.count.updated + 1 \in Nat
      BY <3>1
    <3> QED  BY <3>1, <3>2
  <2>2. [c EXCEPT !.todo = Tail(c.todo), !.tries = 0, !.count.updated = @ + 1]
          = [c EXCEPT !.todo = Tail(c.todo), !.tries = z, !.count = n]
    BY <1>2 DEF CallType
  <2> HIDE DEF n, z
  <2>3. CallOK([c EXCEPT !.todo = Tail(c.todo), !.tries = 0, !.count.updated = @ + 1])
    BY <2>1, <2>2, RowDoneOK
  <2> QED  BY <1>7, <1>8, <1>9, <2>3, GoesOK
<1>10. CASE o.res.code \notin {"ok", "again"}
  <2>1. CallOK(Retry(c, t, Patched(db, op), id, o.res.code))
    BY <1>2, <1>8, <1>10, RetryOK
  <2> QED  BY <1>7, <1>8, <1>10, <2>1, GoesOK
<1>11. CASE o.res.code = "again"
  BY <1>7, <1>8, <1>11, GoesOK
<1> QED  BY <1>9, <1>10, <1>11

LEMMA RowEffect ==
    ASSUME StoreTypes, CallTypes, NEW p \in Calls, UpdateRow(p) \/ IncrementRow(p)
    PROVE  Steady /\ Effect /\ CallTypes'
<1> DEFINE c0 == calls[p]
<1>1. CallOK(c0) /\ c0.pc = "rows" /\ c0.todo # << >>
  BY DEF CallTypes, CallOK, UpdateRow, IncrementRow, AtRow
<1>2. Active(c0)
  BY <1>1 DEF Active
<1>3. CASE UpdateRow(p)
  <2>1. PICK c \in WithGen(c0, Step(c0).set) : UpdateTo(p, c, ResolveData(c, Step(c).set), Step(c).set)
    BY <1>3 DEF UpdateRow
  <2>2. /\ CallOK(c) /\ c.pc = "rows" /\ c.todo # << >> /\ Active(c)
        /\ Step(c).op = "update_where"
    <3>1. CallOK(c) /\ c.pc = c0.pc /\ c.todo = c0.todo /\ c.frames = c0.frames
      BY <1>1, <1>2, WithGenOK
    <3> QED  BY <1>1, <1>3, <3>1 DEF Active, Step, Frame, UpdateRow, AtRow
  <2>3. Step(c).set \in Templates
    BY <2>2, StepTyped
  <2>4. ResolveData(c, Step(c).set) \in Data
    BY <2>2, <2>3, ResolveDataType
  <2> QED  BY <2>1, <2>2, <2>4, UpdateEffect
<1>4. CASE IncrementRow(p)
  <2> DEFINE x == Step(c0).field
             next == Incremented(Head(c0.todo).data[x])
             patch == [NoData EXCEPT ![x] = next]
  <2>1. next \in Values /\ UpdateTo(p, c0, patch, [y \in Indexes |-> [from |-> "none"]])
    BY <1>4 DEF IncrementRow
  <2>2. patch \in Data
    <3> HIDE DEF next, x
    <3> QED  BY <2>1 DEF NoData, Data
  <2> HIDE DEF patch, next
  <2> QED  BY <1>1, <2>1, <2>2, UpdateEffect
<1> QED  BY <1>3, <1>4

LEMMA EmitEffect ==
    ASSUME StoreTypes, CallTypes, NEW p \in Calls, EmitStep(p)
    PROVE  Steady /\ Effect /\ CallTypes'
<1> DEFINE c == calls[p]
<1>1. CallOK(c) /\ c \in CallType /\ kind \in Kinds /\ db \in Keyspace /\ db.evseq < MaxSeq
  BY DEF CallTypes, CallOK, StoreTypes, EmitStep
<1>2. Active(c)
  BY <1>1, StepTyped DEF EmitStep, Running
<1>3. PICK payload \in Payloads :
         \E o \in StoreOutcomes(StoreAppendEvent(kind, db, payload), TRUE) :
            Stored(p, o, c, IF o.res.code = "ok" THEN [c EXCEPT !.pc = "publish"]
                         ELSE Failed(c, o.res.code))
  BY DEF EmitStep
<1> DEFINE r == StoreAppendEvent(kind, db, payload)
<1>4. PICK o \in StoreOutcomes(r, TRUE) :
         Stored(p, o, c, IF o.res.code = "ok" THEN [c EXCEPT !.pc = "publish"]
                      ELSE Failed(c, o.res.code))
  BY <1>3
<1>5. r.res.code = "ok"
  BY <1>1, StoreAppends
<1>6. /\ StoreIs(o) /\ Steady
      /\ o.res.code = "again" => Goes(p, c)
      /\ o.res.code # "again" =>
            Goes(p, IF o.res.code = "ok" THEN [c EXCEPT !.pc = "publish"] ELSE Failed(c, o.res.code))
  BY <1>4, StoredStep
<1>7. UNCHANGED <<made, keyed, acked>>
  BY DEF EmitStep
<1> HIDE DEF r
<1>8. /\ db' = r.db
      /\ o.res.code \in {"ok"} \cup Silent
      /\ o.res.code = "ok" => o.res = r.res /\ FileStep(r.db, TRUE)
      /\ o.res.code # "ok" => FileStep(r.db, FALSE)
  BY <1>5, <1>6, ChangeOutcome
<1>9. Effect
  <2>1. CASE o.res.code = "ok"
    <3>1. Appends(payload, TRUE)
      BY <1>1, <1>7, <1>8, <2>1 DEF Appends, r
    <3> QED  BY <3>1 DEF Effect
  <2>2. CASE o.res.code # "ok"
    <3>1. Appends(payload, FALSE)
      BY <1>1, <1>7, <1>8, <2>2 DEF Appends, r
    <3> QED  BY <3>1 DEF Effect
  <2> QED  BY <2>1, <2>2
<1>10. CASE o.res.code = "ok"
  <2> DEFINE g == [c EXCEPT !.pc = "publish"]
  <2>1. /\ g \in CallType /\ g.pc = "publish" /\ g.prog = c.prog
        /\ g.frames = c.frames /\ g.scopes = c.scopes /\ g.list = c.list
    BY <1>1 DEF CallType
  <2>2. CallOK(g)
    <3> HIDE DEF g
    <3> QED  BY <1>1, <1>2, <2>1, MovedOK DEF Active
  <2> QED  BY <1>6, <1>9, <1>10, <2>2, GoesOK
<1>11. CASE o.res.code \notin {"ok", "again"}
  <2>1. CallOK(Failed(c, o.res.code))
    BY <1>1, <1>8, <1>11, FailedOK, FailCode
  <2> QED  BY <1>6, <1>9, <1>11, <2>1, GoesOK
<1>12. CASE o.res.code = "again"
  BY <1>1, <1>6, <1>9, <1>12, GoesOK
<1> QED  BY <1>10, <1>11, <1>12

LEMMA LocalEffect ==
    ASSUME CallTypes, NEW p \in Calls, NEW c, CallOK(c), Local(p, c)
    PROVE  Steady /\ Effect /\ CallTypes'
<1>1. CallTypes'
  BY GoesOK DEF Local
<1> QED  BY <1>1 DEF Local, Steady, Effect, Quiet

(* A call of the store that fails with nothing done.                        *)
LEMMA FailsEffect ==
    ASSUME CallTypes, NEW p \in Calls, StoreFails(p)
    PROVE  Steady /\ Effect /\ CallTypes'
<1>1. PICK code \in {"provider_error", CommitUnknown} : Local(p, Failed(calls[p], code))
  BY DEF StoreFails
<1>2. code \in Codes
  BY DEF Codes
<1>3. CallOK(Failed(calls[p], code))
  BY <1>2, FailedOK DEF CallTypes
<1> QED  BY <1>1, <1>3, LocalEffect

LEMMA ReadEffect ==
    ASSUME StoreTypes, CallTypes, NEW p \in Calls,
           Skip(p) \/ QueryStep(p) \/ RowsDone(p) \/ ReadStep(p) \/ PublishStep(p)
    PROVE  Steady /\ Effect /\ CallTypes'
<1> DEFINE c == calls[p]
<1>1. CallOK(c) /\ c \in CallType /\ db \in Keyspace
  BY DEF CallTypes, CallOK, StoreTypes
<1>2. Active(c)
  <2>1. CASE Skip(p) \/ QueryStep(p) \/ ReadStep(p)
    BY <1>1, <2>1, StepTyped DEF Skip, QueryStep, ReadStep, Running
  <2>2. CASE RowsDone(p) \/ PublishStep(p)
    BY <2>2 DEF RowsDone, PublishStep, Active
  <2> QED  BY <2>1, <2>2
<1>3. \A out \in Outputs : CallOK(Recorded(c, out))
  BY <1>1, <1>2, RecordedOK
<1>4. CallOK(Recorded(c, Object)) /\ CallOK(Recorded(c, NoRecord))
  BY <1>3, OutputTypes
<1>5. CASE Skip(p)
  BY <1>4, <1>5, LocalEffect DEF Skip
<1>6. CASE RowsDone(p)
  BY <1>4, <1>6, LocalEffect DEF RowsDone
<1>7. CASE PublishStep(p)
  <2>1. Goes(p, Recorded(c, Object))
    BY <1>7 DEF PublishStep
  <2>2. CallTypes'
    BY <1>4, <2>1, GoesOK
  <2>3. Steady /\ Quiet
    BY <1>7 DEF PublishStep, Steady, Quiet
  <2> QED  BY <2>2, <2>3 DEF Effect
<1>8. CASE QueryStep(p)
  <2> DEFINE rows == Query(kind, db, Step(c).where.x, Resolve(c, Step(c).where.src))
             g == [c EXCEPT !.pc = "rows", !.todo = rows]
  <2>1. Local(p, g) /\ Frame(c).i <= Len(Frame(c).steps)
    BY <1>1, <1>8, StepTyped DEF QueryStep, Running
  <2>2. rows \in Seq(Record)
    BY <1>1, QueryType
  <2> HIDE DEF rows
  <2>3. /\ g \in CallType /\ g.pc = "rows" /\ g.prog = c.prog
        /\ g.frames = c.frames /\ g.scopes = c.scopes /\ g.list = c.list
    BY <1>1, <2>2 DEF CallType
  <2> HIDE DEF g
  <2>4. CallOK(g)
    BY <1>1, <1>2, <2>1, <2>3, MovedOK DEF Active
  <2> QED  BY <2>1, <2>4, LocalEffect
<1>9. CASE ReadStep(p)
  <2> DEFINE rows == Query(kind, db, Step(c).where.x, Resolve(c, Step(c).where.src))
             g == IF Step(c).op = "query" THEN Recorded(c, Object)
                    ELSE IF rows # << >> THEN Recorded(c, Head(rows))
                    ELSE IF Step(c).required THEN Failed(c, "command_record_not_found")
                    ELSE Recorded(c, NoRecord)
  <2>1. Local(p, g)
    BY <1>9 DEF ReadStep
  <2>2. rows \in Seq(Record)
    BY <1>1, QueryType
  <2> HIDE DEF rows
  <2>3. rows # << >> => Head(rows) \in Record
    BY <2>2, HeadTailProperties
  <2>4. rows # << >> => CallOK(Recorded(c, Head(rows)))
    BY <1>3, <2>3, OutputTypes
  <2>5. CallOK(Failed(c, "command_record_not_found"))
    BY <1>1, FailedOK DEF Codes
  <2>6. CallOK(g)
    BY <1>4, <2>4, <2>5
  <2> HIDE DEF g
  <2> QED  BY <2>1, <2>6, LocalEffect
<1> QED  BY <1>5, <1>6, <1>7, <1>8, <1>9

LEMMA LoopEffect ==
    ASSUME CallTypes, NEW p \in Calls, ForeachStep(p) \/ EndSteps(p)
    PROVE  Steady /\ Effect /\ CallTypes'
<1> DEFINE c == calls[p]
<1>1. CallOK(c) /\ c \in CallType
  BY DEF CallTypes, CallOK
<1>2. c.pc = "step" /\ Active(c)
  BY DEF ForeachStep, EndSteps, Running, AtStep, Active
<1>3. /\ c.prog \in DOMAIN Programs
      /\ Len(c.frames) >= 1
      /\ Len(c.scopes) = Len(c.frames)
      /\ c.frames[1].n = 0
      /\ \A m \in 1 .. Len(c.frames) : c.frames[m].n > 0 => c.list # NoList
  BY <1>1, <1>2 DEF CallOK, Stacked
<1>4. CASE ForeachStep(p)
  <2> DEFINE g == IF c.list = NoList THEN Failed(c, "command_items_invalid")
                  ELSE IF c.list = << >> THEN Recorded(c, Object)
                  ELSE Iteration(c, Step(c).steps, 1)
  <2>1. Local(p, g)
    BY <1>4 DEF ForeachStep
  <2>2. Step(c).steps \in StepLists
    BY <1>1, <1>4, StepTyped DEF ForeachStep, Running
  <2>3. CallOK(Failed(c, "command_items_invalid"))
    BY <1>1, FailedOK DEF Codes
  <2>4. CallOK(Recorded(c, Object))
    BY <1>1, <1>2, RecordedOK, OutputTypes
  <2>5. ASSUME c.list # NoList, c.list # << >> PROVE CallOK(Iteration(c, Step(c).steps, 1))
    <3>1. c.list \in Seq(Values)
      BY <1>1, <2>5, CommandAssumption DEF CallType
    <3>2. Len(c.list) \in Nat \ {0}
      BY <2>5, <3>1, EmptySeq
    <3> DEFINE n == 1
    <3>3. n <= Len(c.list) /\ n \in Nat \ {0}
      BY <3>2
    <3>4. CallOK(Iteration(c, Step(c).steps, n))
      <4> HIDE DEF n
      <4> QED  BY <1>1, <1>2, <1>3, <2>2, <2>5, <3>3, IterationOK
    <3> QED  BY <3>4
  <2>6. CallOK(g)
    BY <2>3, <2>4, <2>5
  <2> HIDE DEF g
  <2> QED  BY <2>1, <2>6, LocalEffect
<1>5. CASE EndSteps(p)
  <2> DEFINE f == Frame(c)
             o == [c EXCEPT !.frames = Rest(c.frames), !.scopes = Rest(c.scopes), !.item = Null]
             g == IF f.n = 0 THEN Failed(c, "ok")
                  ELSE IF f.n < Len(c.list) THEN Iteration(o, f.steps, f.n + 1)
                  ELSE Recorded(o, Object)
  <2>1. Local(p, g)
    BY <1>5 DEF EndSteps
  <2>2. f \in Steps
    BY <1>1, <1>2, StackTop
  <2>3. f.n \in Nat /\ f.steps \in StepLists
    BY <2>2 DEF Steps
  <2>4. CallOK(Failed(c, "ok"))
    BY <1>1, FailedOK DEF Codes
  <2>5. f.n # 0 => CallOK(o) /\ o.pc = "step" /\ o.list = c.list /\ c.list # NoList
    BY <1>1, <1>2, PoppedOK
  <2> HIDE DEF o, f
  <2>6. ASSUME f.n # 0 PROVE CallOK(Recorded(o, Object))
    <3>1. Active(o)
      BY <2>5, <2>6 DEF Active
    <3> QED  BY <2>5, <2>6, <3>1, RecordedOK, OutputTypes
  <2>7. ASSUME f.n # 0, f.n < Len(c.list) PROVE CallOK(Iteration(o, f.steps, f.n + 1))
    <3> DEFINE n == f.n + 1
    <3>1. c.list \in Seq(Values)
      BY <1>1, <2>5, <2>7, CommandAssumption DEF CallType
    <3>2. Len(c.list) \in Nat
      BY <3>1, LenProperties
    <3>3. n \in Nat \ {0} /\ n <= Len(o.list)
      BY <2>3, <2>5, <2>7, <3>2
    <3>4. /\ o \in CallType /\ o.pc = "step" /\ o.list # NoList
          /\ o.prog \in DOMAIN Programs
          /\ Len(o.frames) >= 1
          /\ Len(o.scopes) = Len(o.frames)
          /\ o.frames[1].n = 0
          /\ \A m \in 1 .. Len(o.frames) : o.frames[m].n > 0 => o.list # NoList
      BY <2>5, <2>7 DEF CallOK, Stacked
    <3> HIDE DEF n
    <3>5. CallOK(Iteration(o, f.steps, n))
      BY <2>3, <3>3, <3>4, IterationOK
    <3> QED  BY <3>5 DEF n
  <2>8. CallOK(g)
    BY <2>4, <2>6, <2>7
  <2> HIDE DEF g
  <2> QED  BY <2>1, <2>8, LocalEffect
<1> QED  BY <1>4, <1>5

LEMMA RunEffect ==
    ASSUME StoreTypes, CallTypes, NEW p \in Calls, Run(p)
    PROVE  up /\ Steady /\ Effect /\ CallTypes'
BY CreateEffect, DeleteEffect, RowEffect, EmitEffect, ReadEffect, LoopEffect, FailsEffect DEF Run

-----------------------------------------------------------------------------
(* Every effect keeps the invariant.                                        *)
LEMMA FileTyped ==
    ASSUME StoreTypes, NEW w \in Keyspace, NEW ok \in BOOLEAN, FileStep(w, ok)
    PROVE  file' \in [form : Forms, db : Keyspace]
<1>1. Snapshot(w) \in [form : Forms, db : Keyspace]
  BY DEF Snapshot, Forms
<1>2. Torn \in [form : Forms, db : Keyspace]
  BY EmptyType DEF Torn, Forms
<1> QED  BY <1>1, <1>2 DEF FileStep, StoreTypes

LEMMA EffectTypes ==
    ASSUME StoreTypes, Steady, Effect
    PROVE  StoreTypes'
<1>1. /\ kind' \in Kinds /\ up' \in BOOLEAN /\ crashes' \in Nat /\ reruns' \in Nat
      /\ kind \in Kinds /\ db \in Keyspace
      /\ made \in [created : Nat, updated : Nat, deleted : Nat, events : Nat]
      /\ keyed \in [Keys -> Nat] /\ acked \in [Ids -> Nat]
      /\ file \in [form : Forms, db : Keyspace]
  BY DEF StoreTypes, Steady
<1>2. CASE Quiet
  <2>1. made.events + 1 \in Nat
    BY <1>1
  <2>2. made' \in [created : Nat, updated : Nat, deleted : Nat, events : Nat]
    BY <1>1, <1>2, <2>1 DEF Quiet
  <2> QED  BY <1>1, <1>2, <2>2 DEF Quiet, StoreTypes
<1>3. ASSUME NEW op \in CreateOps({Named}), NEW ok \in BOOLEAN, Creates(op, ok) PROVE StoreTypes'
  <2>1. db' \in Keyspace /\ StoreCreate(kind, db, op).db \in Keyspace
    BY <1>1, <1>3, StoreCreates DEF Creates
  <2>2. CASE ~Inserting(op)
    BY <1>1, <1>3, <2>1, <2>2 DEF Creates, StoreTypes
  <2>3. CASE Inserting(op)
    <3>1. file' \in [form : Forms, db : Keyspace]
      BY <1>3, <2>1, <2>3, FileTyped DEF Creates
    <3>2. made' \in [created : Nat, updated : Nat, deleted : Nat, events : Nat]
      <4>1. made.created + 1 \in Nat
        BY <1>1
      <4> QED  BY <1>1, <1>3, <2>3, <4>1 DEF Creates
    <3>3. keyed' \in [Keys -> Nat]
      <4>1. op.key # NoKey => op.key \in Keys /\ keyed[op.key] + 1 \in Nat
        BY <1>1 DEF CreateOps
      <4> QED  BY <1>1, <1>3, <2>3, <4>1 DEF Creates
    <3>4. acked' \in [Ids -> Nat]
      BY <1>1, <1>3, <2>3 DEF Creates
    <3> QED  BY <1>1, <2>1, <3>1, <3>2, <3>3, <3>4 DEF StoreTypes
  <2> QED  BY <2>2, <2>3
<1>4. ASSUME NEW op \in UpdateOps({Named}), NEW ok \in BOOLEAN, Updates(op, ok) PROVE StoreTypes'
  <2> DEFINE r == StoreUpdate(kind, db, op)
  <2>1. /\ r.db \in Keyspace
        /\ r.res.code = "ok" => r.res.rec.ver = db.ents[op.id].ver + 1
    BY <1>1, StoreUpdates
  <2>2. db.ents[op.id].ver + 1 \in Nat
    BY <1>1, PatchedType
  <2>3. CASE r.res.code # "ok"
    BY <1>1, <1>4, <2>1, <2>3 DEF Updates, StoreTypes
  <2>4. CASE r.res.code = "ok"
    <3>1. file' \in [form : Forms, db : Keyspace]
      BY <1>4, <2>1, <2>4, FileTyped DEF Updates
    <3>2. made' \in [created : Nat, updated : Nat, deleted : Nat, events : Nat]
      <4>1. made.updated + 1 \in Nat
        BY <1>1
      <4> QED  BY <1>1, <1>4, <2>4, <4>1 DEF Updates
    <3>3. acked' \in [Ids -> Nat]
      <4>1. acked' = IF ok THEN [acked EXCEPT ![op.id] = r.res.rec.ver] ELSE acked
        BY <1>4, <2>4 DEF Updates
      <4>2. r.res.rec.ver \in Nat
        BY <2>1, <2>2, <2>4
      <4> HIDE DEF r
      <4> QED  BY <1>1, <4>1, <4>2
    <3> QED  BY <1>1, <1>4, <2>1, <3>1, <3>2, <3>3 DEF StoreTypes, Updates
  <2> QED  BY <2>3, <2>4
<1>5. ASSUME NEW id \in Ids, NEW ok \in BOOLEAN, Deletes(id, ok) PROVE StoreTypes'
  <2> DEFINE r == StoreDelete(kind, db, id)
             n == made.deleted + (IF r.res.deleted THEN 1 ELSE 0)
  <2>1. r.db \in Keyspace
    BY <1>1, StoreDeletes
  <2>2. file' \in [form : Forms, db : Keyspace]
    BY <1>5, <2>1, FileTyped DEF Deletes
  <2>3. n \in Nat
    <3> HIDE DEF r
    <3> QED  BY <1>1
  <2>4. made' = [made EXCEPT !.deleted = n] /\ acked' = [acked EXCEPT ![id] = 0] /\ keyed' = keyed
        /\ db' = r.db
    BY <1>5 DEF Deletes
  <2> HIDE DEF n, r
  <2>5. made' \in [created : Nat, updated : Nat, deleted : Nat, events : Nat]
    BY <1>1, <2>3, <2>4
  <2>6. acked' \in [Ids -> Nat]
    BY <1>1, <2>4
  <2> QED  BY <1>1, <2>1, <2>2, <2>4, <2>5, <2>6 DEF StoreTypes
<1>6. ASSUME NEW payload \in Payloads, NEW ok \in BOOLEAN, Appends(payload, ok) PROVE StoreTypes'
  <2>1. StoreAppendEvent(kind, db, payload).db \in Keyspace
    BY <1>1, <1>6, StoreAppends DEF Appends
  <2>2. file' \in [form : Forms, db : Keyspace]
    BY <1>6, <2>1, FileTyped DEF Appends
  <2> QED  BY <1>1, <1>6, <2>1, <2>2 DEF Appends, StoreTypes
<1> QED  BY <1>2, <1>3, <1>4, <1>5, <1>6 DEF Effect

LEMMA SnapshotUnique ==
    ASSUME UniqueInv, kind' = kind, NEW ok \in BOOLEAN, UniqueIn(kind, db'), FileStep(db', ok)
    PROVE  UniqueInv'
<1>1. CASE kind # "memory"
  BY <1>1 DEF UniqueInv
<1>2. CASE kind = "memory"
  <2>1. Apart(db') /\ Apart(file.db) /\ Apart(EmptyKeyspace)
    BY <1>2, EmptyUnique DEF UniqueInv, UniqueIn
  <2>2. file'.db = db' \/ file'.db = file.db \/ file'.db = EmptyKeyspace
    BY <1>2 DEF FileStep, Snapshot, Torn
  <2>3. Apart(file'.db)
    BY <2>1, <2>2
  <2> QED  BY <1>2, <2>3 DEF UniqueInv
<1> QED  BY <1>1, <1>2

LEMMA EffectUnique ==
    ASSUME StoreTypes, UniqueInv, Steady, Effect
    PROVE  UniqueInv'
<1>1. kind' = kind /\ kind \in Kinds /\ db \in Keyspace /\ UniqueIn(kind, db)
  BY DEF Steady, StoreTypes, UniqueInv
<1>2. CASE Quiet
  BY <1>1, <1>2 DEF Quiet, UniqueInv
<1>3. ASSUME NEW op \in CreateOps({Named}), NEW ok \in BOOLEAN, Creates(op, ok) PROVE UniqueInv'
  <2>1. UniqueIn(kind, db')
    BY <1>1, <1>3, CreateUnique DEF Creates
  <2>2. CASE Inserting(op)
    BY <1>1, <1>3, <2>1, <2>2, SnapshotUnique DEF Creates
  <2>3. CASE ~Inserting(op)
    BY <1>1, <1>3, <2>1, <2>3 DEF Creates, UniqueInv
  <2> QED  BY <2>2, <2>3
<1>4. ASSUME NEW op \in UpdateOps({Named}), NEW ok \in BOOLEAN, Updates(op, ok) PROVE UniqueInv'
  <2>1. UniqueIn(kind, db')
    BY <1>1, <1>4, UpdateUnique DEF Updates
  <2>2. CASE StoreUpdate(kind, db, op).res.code = "ok"
    BY <1>1, <1>4, <2>1, <2>2, SnapshotUnique DEF Updates
  <2>3. CASE StoreUpdate(kind, db, op).res.code # "ok"
    BY <1>1, <1>4, <2>1, <2>3 DEF Updates, UniqueInv
  <2> QED  BY <2>2, <2>3
<1>5. ASSUME NEW id \in Ids, NEW ok \in BOOLEAN, Deletes(id, ok) PROVE UniqueInv'
  <2>1. UniqueIn(kind, db') /\ FileStep(db', ok)
    BY <1>1, <1>5, DeleteUnique DEF Deletes
  <2> QED  BY <1>1, <2>1, SnapshotUnique
<1>6. ASSUME NEW payload \in Payloads, NEW ok \in BOOLEAN, Appends(payload, ok) PROVE UniqueInv'
  <2>1. SameRecords(db, db') /\ FileStep(db', ok)
    BY <1>1, <1>6, StoreAppends DEF Appends
  <2>2. UniqueIn(kind, db')
    BY <1>1, <2>1, SameUnique
  <2> QED  BY <1>1, <2>1, <2>2, SnapshotUnique
<1> QED  BY <1>2, <1>3, <1>4, <1>5, <1>6 DEF Effect

LEMMA EffectKey ==
    ASSUME StoreTypes, KeyInv, Steady, up, Effect
    PROVE  KeyInv'
<1>1. kind \in Kinds /\ db \in Keyspace /\ up' = up /\ keyed \in [Keys -> Nat]
  BY DEF Steady, StoreTypes
<1>2. ASSUME keyed' = keyed, db'.idem = db.idem PROVE KeyInv'
  BY <1>1, <1>2 DEF KeyInv
<1>3. CASE Quiet
  BY <1>2, <1>3 DEF Quiet
<1>4. ASSUME NEW op \in CreateOps({Named}), NEW ok \in BOOLEAN, Creates(op, ok) PROVE KeyInv'
  <2> DEFINE w == StoreCreate(kind, db, op).db
             id == StoreId(kind, db, op)
  <2>1. /\ Inserting(op) => InsertsRecord(kind, db, op, w)
        /\ ~Inserting(op) => SameRecords(db, w)
        /\ db' = w
    BY <1>1, <1>4, StoreCreates DEF Creates, Inserting
  <2>2. CASE ~Inserting(op)
    BY <1>2, <1>4, <2>1, <2>2 DEF Creates, SameRecords
  <2>3. CASE Inserting(op)
    <3>1. db'.idem = SetIdem(db.idem, op, id) /\ id \in Ids
      BY <1>1, <1>4, <2>1, <2>3, StoreIdType DEF InsertsRecord, Creates
    <3>2. /\ op.key = NoKey => keyed' = keyed
          /\ op.key # NoKey => keyed' = [keyed EXCEPT ![op.key] = keyed[op.key] + 1]
      BY <1>4, <2>3 DEF Creates
    <3>3. op.key \in Keys => db.idem[op.key] = NoRecord
      BY <2>3 DEF Inserting, IdemHit
    <3>4. op.key \in Keys \cup {NoKey} /\ NoKey \notin Keys
      BY SentinelAssumption DEF CreateOps
    <3>5. [id |-> id, ver |-> 1, data |-> op.data] # NoRecord
      BY DEF NoRecord
    <3> SUFFICES ASSUME NEW k \in Keys
                 PROVE  keyed'[k] <= 1 /\ (keyed'[k] = 1 => db'.idem[k] # NoRecord)
      BY <1>1 DEF KeyInv
    <3>6. keyed[k] \in Nat /\ keyed[k] <= 1 /\ (keyed[k] = 1 => db.idem[k] # NoRecord)
      BY <1>1 DEF KeyInv
    <3> HIDE DEF id
    <3>7. CASE k = op.key
      <4>1. keyed[k] = 0
        BY <3>3, <3>6, <3>7
      <4>2. keyed'[k] = 1
        BY <1>1, <3>2, <3>4, <3>7, <4>1
      <4>3. db'.idem[k] = [id |-> id, ver |-> 1, data |-> op.data]
        BY <3>1, <3>7 DEF SetIdem
      <4> QED  BY <3>5, <4>2, <4>3
    <3>8. CASE k # op.key
      <4>1. keyed'[k] = keyed[k]
        BY <1>1, <3>2, <3>8
      <4>2. db'.idem[k] = db.idem[k]
        BY <3>1, <3>8 DEF SetIdem
      <4> QED  BY <3>6, <4>1, <4>2
    <3> QED  BY <3>7, <3>8
  <2> QED  BY <2>2, <2>3
<1>5. ASSUME NEW op \in UpdateOps({Named}), NEW ok \in BOOLEAN, Updates(op, ok) PROVE KeyInv'
  <2> DEFINE r == StoreUpdate(kind, db, op)
  <2>1. /\ r.res.code = "ok" => UpdatesRecord(kind, db, op, r.db)
        /\ r.res.code # "ok" => SameRecords(db, r.db)
    BY <1>1, StoreUpdates
  <2>2. r.db.idem = db.idem
    BY <2>1 DEF UpdatesRecord, SameRecords
  <2> QED  BY <1>2, <1>5, <2>2 DEF Updates
<1>6. ASSUME NEW id \in Ids, NEW ok \in BOOLEAN, Deletes(id, ok) PROVE KeyInv'
  <2>1. DeletesRecord(kind, db, id, StoreDelete(kind, db, id).db)
    BY <1>1, StoreDeletes
  <2> QED  BY <1>2, <1>6, <2>1 DEF Deletes, DeletesRecord
<1>7. ASSUME NEW payload \in Payloads, NEW ok \in BOOLEAN, Appends(payload, ok) PROVE KeyInv'
  <2>1. SameRecords(db, db')
    BY <1>1, <1>7, StoreAppends DEF Appends
  <2> QED  BY <1>2, <1>7, <2>1 DEF Appends, SameRecords
<1> QED  BY <1>3, <1>4, <1>5, <1>6, <1>7 DEF Effect

LEMMA AckStep ==
    ASSUME StoreTypes, StoreTypes', AckInv, up, kind' = kind, up' = up,
           NEW ok \in BOOLEAN, FileStep(db', ok),
           \A i \in Ids : db.ents[i].ver >= acked[i] => db'.ents[i].ver >= acked'[i],
           ok = FALSE => \A i \in Ids : acked'[i] = acked[i] \/ acked'[i] = 0
    PROVE  AckInv'
<1>1. CASE kind # "memory"
  BY <1>1 DEF AckInv
<1>2. CASE kind = "memory"
  <2>1. \A i \in Ids : db.ents[i].ver >= acked[i]
    BY <1>2 DEF AckInv
  <2>2. \A i \in Ids : db'.ents[i].ver >= acked'[i]
    BY <2>1
  <2>3. \A i \in Ids : file.db.ents[i].ver \in Nat /\ acked'[i] \in Nat /\ acked[i] \in Nat
    BY DEF StoreTypes, Keyspace, Row
  <2>4. ASSUME file'.form = "v1" PROVE \A i \in Ids : file'.db.ents[i].ver >= acked'[i]
    <3>1. CASE file' = Snapshot(db')
      BY <2>2, <3>1 DEF Snapshot
    <3>2. CASE file' = file /\ ok = FALSE
      <4>1. \A i \in Ids : file.db.ents[i].ver >= acked[i]
        BY <1>2, <2>4, <3>2 DEF AckInv
      <4>2. \A i \in Ids : file.db.ents[i].ver >= acked'[i]
        BY <2>3, <3>2, <4>1
      <4> QED  BY <3>2, <4>2
    <3>3. CASE file' = Torn
      BY <2>4, <3>3 DEF Torn
    <3> QED  BY <1>2, <3>1, <3>2, <3>3 DEF FileStep
  <2> QED  BY <1>2, <2>2, <2>4 DEF AckInv
<1> QED  BY <1>1, <1>2

LEMMA EffectAck ==
    ASSUME StoreTypes, StoreTypes', AckInv, Steady, up, Effect
    PROVE  AckInv'
<1>1. /\ kind \in Kinds /\ db \in Keyspace /\ up' = up /\ kind' = kind
      /\ acked \in [Ids -> Nat] /\ acked' \in [Ids -> Nat]
  BY DEF Steady, StoreTypes
<1>2. \A i \in Ids : db.ents[i].ver \in Nat /\ db.ents[i] \in Row
  BY <1>1 DEF Keyspace, Row
<1>3. CASE Quiet
  BY <1>1, <1>3 DEF Quiet, AckInv
<1>4. ASSUME NEW op \in CreateOps({Named}), NEW ok \in BOOLEAN, Creates(op, ok) PROVE AckInv'
  <2> DEFINE w == StoreCreate(kind, db, op).db
             id == StoreId(kind, db, op)
  <2>1. /\ Inserting(op) => InsertsRecord(kind, db, op, w)
        /\ ~Inserting(op) => SameRecords(db, w)
        /\ db' = w
    BY <1>1, <1>4, StoreCreates DEF Creates, Inserting
  <2>2. CASE ~Inserting(op)
    BY <1>1, <1>4, <2>1, <2>2 DEF Creates, SameRecords, AckInv
  <2>3. CASE Inserting(op)
    <3>1. id \in Ids
      BY <1>1, <1>4, StoreIdType DEF Creates
    <3>2. db'.ents = [db.ents EXCEPT ![id] = [ver |-> 1, data |-> op.data]]
      BY <2>1, <2>3 DEF InsertsRecord
    <3>3. /\ acked' = [acked EXCEPT ![id] = IF ok THEN 1 ELSE 0]
          /\ FileStep(db', ok)
      BY <1>4, <2>1, <2>3 DEF Creates
    <3> HIDE DEF id
    <3>4. \A i \in Ids : db.ents[i].ver >= acked[i] => db'.ents[i].ver >= acked'[i]
      BY <1>1, <1>2, <3>1, <3>2, <3>3 DEF Keyspace
    <3>5. ok = FALSE => \A i \in Ids : acked'[i] = acked[i] \/ acked'[i] = 0
      BY <1>1, <3>3
    <3> QED  BY <1>1, <3>3, <3>4, <3>5, AckStep
  <2> QED  BY <2>2, <2>3
<1>5. ASSUME NEW op \in UpdateOps({Named}), NEW ok \in BOOLEAN, Updates(op, ok) PROVE AckInv'
  <2> DEFINE r == StoreUpdate(kind, db, op)
             ver == db.ents[op.id].ver + 1
  <2>1. /\ r.res.code = "ok" => UpdatesRecord(kind, db, op, r.db) /\ r.res.rec.ver = ver
        /\ r.res.code # "ok" => SameRecords(db, r.db)
    BY <1>1, StoreUpdates
  <2>2. op.id \in Ids
    BY DEF UpdateOps
  <2>3. CASE r.res.code # "ok"
    BY <1>1, <1>5, <2>1, <2>3 DEF Updates, SameRecords, AckInv
  <2>4. CASE r.res.code = "ok"
    <3>1. /\ db'.ents = [db.ents EXCEPT ![op.id] = [ver |-> ver, data |-> Patched(db, op)]]
          /\ acked' = IF ok THEN [acked EXCEPT ![op.id] = ver] ELSE acked
          /\ FileStep(db', ok)
      BY <1>5, <2>1, <2>4 DEF Updates, UpdatesRecord
    <3>2. \A i \in Ids : db.ents[i].ver >= acked[i] => db'.ents[i].ver >= acked'[i]
      <4> SUFFICES ASSUME NEW i \in Ids, db.ents[i].ver >= acked[i]
                   PROVE  db'.ents[i].ver >= acked'[i]
        OBVIOUS
      <4>1. CASE i = op.id
        <5>1. db'.ents[i].ver = ver /\ (ok => acked'[i] = ver) /\ (~ok => acked'[i] = acked[i])
          <6> HIDE DEF ver
          <6> QED  BY <1>1, <3>1, <4>1 DEF Keyspace
        <5>2. ver = db.ents[i].ver + 1 /\ db.ents[i].ver \in Nat /\ acked[i] \in Nat
          BY <1>1, <1>2, <4>1
        <5> HIDE DEF ver
        <5>3. ver >= acked[i] /\ ver >= ver
          BY <5>2
        <5> QED  BY <5>1, <5>3
      <4>2. CASE i # op.id
        BY <1>1, <3>1, <4>2 DEF Keyspace
      <4> QED  BY <4>1, <4>2
    <3>3. ok = FALSE => \A i \in Ids : acked'[i] = acked[i] \/ acked'[i] = 0
      BY <3>1
    <3> QED  BY <1>1, <3>1, <3>2, <3>3, AckStep
  <2> QED  BY <2>3, <2>4
<1>6. ASSUME NEW id \in Ids, NEW ok \in BOOLEAN, Deletes(id, ok) PROVE AckInv'
  <2>1. DeletesRecord(kind, db, id, db') /\ FileStep(db', ok) /\ acked' = [acked EXCEPT ![id] = 0]
    BY <1>1, <1>6, StoreDeletes DEF Deletes
  <2>2. \A i \in Ids : db.ents[i].ver >= acked[i] => db'.ents[i].ver >= acked'[i]
    BY <1>1, <2>1 DEF DeletesRecord
  <2>3. \A i \in Ids : acked'[i] = acked[i] \/ acked'[i] = 0
    BY <1>1, <2>1
  <2> QED  BY <1>1, <2>1, <2>2, <2>3, AckStep
<1>7. ASSUME NEW payload \in Payloads, NEW ok \in BOOLEAN, Appends(payload, ok) PROVE AckInv'
  <2>1. SameRecords(db, db') /\ FileStep(db', ok) /\ acked' = acked
    BY <1>1, <1>7, StoreAppends DEF Appends
  <2>2. \A i \in Ids : db.ents[i].ver >= acked[i] => db'.ents[i].ver >= acked'[i]
    BY <2>1 DEF SameRecords
  <2> QED  BY <1>1, <2>1, <2>2, AckStep
<1> QED  BY <1>3, <1>4, <1>5, <1>6, <1>7 DEF Effect

LEMMA FileGapless ==
    ASSUME NEW ok \in BOOLEAN, FileStep(db', ok), Gapless(db'), Gapless(file.db)
    PROVE  Gapless(file'.db)
<1>1. file'.db = db' \/ file'.db = file.db \/ file'.db = EmptyKeyspace
  BY DEF FileStep, Snapshot, Torn
<1> QED  BY <1>1, EmptyGapless

LEMMA EffectGap ==
    ASSUME StoreTypes, GapInv, Steady, Effect
    PROVE  GapInv'
<1>1. /\ kind \in Kinds /\ db \in Keyspace /\ kind' = kind
      /\ made \in [created : Nat, updated : Nat, deleted : Nat, events : Nat]
  BY DEF Steady, StoreTypes
<1> SUFFICES ASSUME kind # "kv", made'.deleted = 0 PROVE Gapless(db') /\ Gapless(file'.db)
  BY <1>1 DEF GapInv
<1>2. made.deleted = 0 => Gapless(db) /\ Gapless(file.db)
  BY DEF GapInv
<1>3. CASE Quiet
  BY <1>1, <1>2, <1>3 DEF Quiet
<1>4. ASSUME NEW op \in CreateOps({Named}), NEW ok \in BOOLEAN, Creates(op, ok)
      PROVE  Gapless(db') /\ Gapless(file'.db)
  <2> DEFINE w == StoreCreate(kind, db, op).db
  <2>1. /\ Inserting(op) => InsertsRecord(kind, db, op, w)
        /\ ~Inserting(op) => SameRecords(db, w)
        /\ db' = w
    BY <1>1, <1>4, StoreCreates DEF Creates, Inserting
  <2>2. Gapless(db) /\ Gapless(file.db)
    BY <1>1, <1>2, <1>4 DEF Creates
  <2>3. CASE ~Inserting(op)
    BY <1>4, <2>1, <2>2, <2>3 DEF Creates, SameRecords, Gapless, LiveIds, Live
  <2>4. CASE Inserting(op)
    <3>1. op.id = NoId /\ IdInBound(kind, db) /\ FileStep(db', ok)
      BY <1>4, <2>1, <2>4 DEF Creates
    <3>2. InsertsRecord(kind, db, op, db')
      BY <2>1, <2>4
    <3>3. Gapless(db')
      BY <1>1, <2>2, <3>1, <3>2, CreateGapless
    <3> QED  BY <2>2, <3>1, <3>3, FileGapless
  <2> QED  BY <2>3, <2>4
<1>5. ASSUME NEW op \in UpdateOps({Named}), NEW ok \in BOOLEAN, Updates(op, ok)
      PROVE  Gapless(db') /\ Gapless(file'.db)
  <2> DEFINE r == StoreUpdate(kind, db, op)
             ver == db.ents[op.id].ver + 1
  <2>1. /\ r.res.code = "ok" => UpdatesRecord(kind, db, op, r.db) /\ Live(db, op.id)
        /\ r.res.code # "ok" => SameRecords(db, r.db)
        /\ db' = r.db
    BY <1>1, <1>5, StoreUpdates DEF Updates
  <2>2. Gapless(db) /\ Gapless(file.db)
    BY <1>1, <1>2, <1>5 DEF Updates
  <2>3. CASE r.res.code # "ok"
    BY <1>5, <2>1, <2>2, <2>3 DEF Updates, SameRecords, Gapless, LiveIds, Live
  <2>4. CASE r.res.code = "ok"
    <3>1. /\ db'.ents = [db.ents EXCEPT ![op.id] = [ver |-> ver, data |-> Patched(db, op)]]
          /\ FileStep(db', ok) /\ op.id \in LiveIds(db)
      <4>1. op.id \in Ids
        BY <1>1, PatchedType
      <4>2. op.id \in LiveIds(db)
        BY <2>1, <2>4, <4>1 DEF LiveIds
      <4>3. FileStep(db', ok)
        BY <1>5, <2>4 DEF Updates
      <4> QED  BY <2>1, <2>4, <4>2, <4>3 DEF UpdatesRecord
    <3>2. ver > 0
      BY <1>1, PatchedType, SMTT(60)
    <3>3. LiveIds(db') = LiveIds(db)
      <4> HIDE DEF ver
      <4> QED  BY <1>1, <3>1, <3>2 DEF LiveIds, Live, Keyspace
    <3>4. Gapless(db')
      BY <2>2, <3>3 DEF Gapless
    <3> QED  BY <2>2, <3>1, <3>4, FileGapless
  <2> QED  BY <2>3, <2>4
<1>6. ASSUME NEW id \in Ids, NEW ok \in BOOLEAN, Deletes(id, ok)
      PROVE  Gapless(db') /\ Gapless(file'.db)
  <2> DEFINE r == StoreDelete(kind, db, id)
  <2>1. DeletesRecord(kind, db, id, db') /\ FileStep(db', ok) /\ (Live(db, id) => r.res.deleted = TRUE)
    BY <1>1, <1>6, StoreDeletes DEF Deletes
  <2>2. made'.deleted = made.deleted + (IF r.res.deleted THEN 1 ELSE 0)
    BY <1>1, <1>6 DEF Deletes
  <2> HIDE DEF r
  <2>3. made.deleted = 0 /\ ~r.res.deleted
    BY <1>1, <2>2
  <2>4. ~Live(db, id)
    BY <2>1, <2>3
  <2>5. LiveIds(db') = LiveIds(db)
    BY <2>1, <2>4 DEF DeletesRecord, LiveIds, Live
  <2>6. Gapless(db')
    BY <1>2, <2>3, <2>5 DEF Gapless
  <2> QED  BY <1>2, <2>1, <2>3, <2>6, FileGapless
<1>7. ASSUME NEW payload \in Payloads, NEW ok \in BOOLEAN, Appends(payload, ok)
      PROVE  Gapless(db') /\ Gapless(file'.db)
  <2>1. SameRecords(db, db') /\ FileStep(db', ok) /\ made' = made
    BY <1>1, <1>7, StoreAppends DEF Appends
  <2>2. Gapless(db')
    BY <1>2, <2>1 DEF SameRecords, Gapless, LiveIds, Live
  <2> QED  BY <1>2, <2>1, <2>2, FileGapless
<1> QED  BY <1>3, <1>4, <1>5, <1>6, <1>7 DEF Effect

(* A record that is there before and after a step is the same or newer.     *)
Survives ==
    up /\ up' => \A i \in Ids :
        (/\ Live(db, i) /\ Live(db', i)
         /\ kind = "kv" \/ made.deleted = 0
         /\ kind = "fdb" => Cardinality(LiveIds(db)) <= Batch)
        => db'.ents[i] = db.ents[i] \/ db'.ents[i].ver > db.ents[i].ver

LEMMA EffectSurvives ==
    ASSUME StoreTypes, GapInv, Steady, Effect
    PROVE  Survives
<1>1. kind \in Kinds /\ db \in Keyspace
  BY DEF StoreTypes
<1> SUFFICES ASSUME NEW i \in Ids, Live(db, i), Live(db', i), kind = "kv" \/ made.deleted = 0,
                    kind = "fdb" => Cardinality(LiveIds(db)) <= Batch
             PROVE  db'.ents[i] = db.ents[i] \/ db'.ents[i].ver > db.ents[i].ver
  BY DEF Survives
<1>2. db.ents[i].ver \in Nat
  BY <1>1 DEF Keyspace, Row
<1>3. CASE Quiet
  BY <1>3 DEF Quiet
<1>4. ASSUME NEW op \in CreateOps({Named}), NEW ok \in BOOLEAN, Creates(op, ok)
      PROVE  db'.ents[i] = db.ents[i]
  <2> DEFINE id == StoreId(kind, db, op)
  <2>1. /\ Inserting(op) => InsertsRecord(kind, db, op, db')
        /\ ~Inserting(op) => SameRecords(db, db')
        /\ op.id = NoId /\ IdInBound(kind, db)
    BY <1>1, <1>4, StoreCreates DEF Creates, Inserting
  <2>2. CASE ~Inserting(op)
    BY <2>1, <2>2 DEF SameRecords
  <2>3. CASE Inserting(op)
    <3>1. ~Live(db, id)
      <4>1. CASE kind = "kv"
        BY <1>1, <2>1, <4>1, AutoId DEF IdInBound, StoreId, CreateId
      <4>2. CASE kind # "kv"
        <5>1. Gapless(db)
          BY <4>2 DEF GapInv
        <5> QED  BY <1>1, <2>1, <2>3, <4>2, <5>1, CreateGapless
      <4> QED  BY <4>1, <4>2
    <3>2. i # id
      BY <3>1
    <3>3. db'.ents = [db.ents EXCEPT ![id] = [ver |-> 1, data |-> op.data]]
      BY <2>1, <2>3 DEF InsertsRecord
    <3> HIDE DEF id
    <3> QED  BY <1>1, <3>2, <3>3 DEF Keyspace
  <2> QED  BY <2>2, <2>3
<1>5. ASSUME NEW op \in UpdateOps({Named}), NEW ok \in BOOLEAN, Updates(op, ok)
      PROVE  db'.ents[i] = db.ents[i] \/ db'.ents[i].ver > db.ents[i].ver
  <2> DEFINE r == StoreUpdate(kind, db, op)
             ver == db.ents[op.id].ver + 1
  <2>1. /\ r.res.code = "ok" => UpdatesRecord(kind, db, op, r.db)
        /\ r.res.code # "ok" => SameRecords(db, r.db)
        /\ db' = r.db
    BY <1>1, <1>5, StoreUpdates DEF Updates
  <2>2. CASE r.res.code # "ok"
    BY <2>1, <2>2 DEF SameRecords
  <2>3. CASE r.res.code = "ok"
    <3>1. db'.ents = [db.ents EXCEPT ![op.id] = [ver |-> ver, data |-> Patched(db, op)]]
      BY <2>1, <2>3 DEF UpdatesRecord
    <3>2. CASE i # op.id
      BY <1>1, <3>1, <3>2 DEF Keyspace
    <3>3. CASE i = op.id
      <4>1. db'.ents[i].ver = ver
        <5> HIDE DEF ver
        <5> QED  BY <1>1, <3>1, <3>3 DEF Keyspace
      <4>2. ver > db.ents[i].ver
        BY <1>2, <3>3
      <4> QED  BY <4>1, <4>2
    <3> QED  BY <3>2, <3>3
  <2> QED  BY <2>2, <2>3
<1>6. ASSUME NEW id \in Ids, NEW ok \in BOOLEAN, Deletes(id, ok)
      PROVE  db'.ents[i] = db.ents[i]
  <2>1. DeletesRecord(kind, db, id, db')
    BY <1>1, <1>6, StoreDeletes DEF Deletes
  <2> QED  BY <2>1 DEF DeletesRecord, Live
<1>7. ASSUME NEW payload \in Payloads, NEW ok \in BOOLEAN, Appends(payload, ok)
      PROVE  db'.ents[i] = db.ents[i]
  <2>1. SameRecords(db, db')
    BY <1>1, <1>7, StoreAppends DEF Appends
  <2> QED  BY <2>1 DEF SameRecords
<1> QED  BY <1>3, <1>4, <1>5, <1>6, <1>7 DEF Effect

-----------------------------------------------------------------------------
(* Where the store begins.                                                  *)
AutoIds == \A op \in Earlier : op.id = NoId

LEMMA EmptyInBound ==
    ASSUME NEW k \in Kinds
    PROVE  IdInBound(k, EmptyKeyspace)
<1>1. \A i \in Ids : ~Live(EmptyKeyspace, i)
  BY DEF Live, EmptyKeyspace, NoRow
<1>2. LiveIds(EmptyKeyspace) = {}
  BY <1>1 DEF LiveIds
<1>3. Cardinality(LiveIds(EmptyKeyspace)) = 0
  BY <1>2, FS_EmptySet
<1>4. SeqStart(EmptyKeyspace) = 0
  BY <1>3 DEF SeqStart, EmptyKeyspace
<1>5. 1 \in Ids /\ 1 <= MaxId
  BY BoundsAssumption, CommandAssumption DEF Ids
<1>6. 1 \in FreeAutoIds(EmptyKeyspace)
  BY <1>1, <1>4, <1>5 DEF FreeAutoIds
<1>7. CountedId(k, EmptyKeyspace) = 1
  <2>1. Seen(k, EmptyKeyspace) = {}
    BY <1>2, SeenFinite
  <2>2. Cardinality(Seen(k, EmptyKeyspace)) = 0
    BY <2>1, FS_EmptySet
  <2> QED  BY <2>2 DEF CountedId
<1> QED  BY <1>5, <1>6, <1>7 DEF IdInBound, AutoIdInBound

LEMMA SeedsOK ==
    ASSUME NEW k \in Kinds, NEW d \in Seeds(k)
    PROVE  /\ d \in Keyspace /\ UniqueIn(k, d)
           /\ AutoIds /\ k # "kv" => Gapless(d)
<1>1. CASE d = EmptyKeyspace
  BY <1>1, EmptyType, EmptyUnique, EmptyGapless
<1>2. ASSUME NEW op \in Earlier, d = StoreCreate(k, EmptyKeyspace, op).db
      PROVE  /\ d \in Keyspace /\ UniqueIn(k, d)
             /\ AutoIds /\ k # "kv" => Gapless(d)
  <2> DEFINE e == EmptyKeyspace
             new == ~IdemHit(e, op) /\ ConflictsIn(k, e, op.data, NoId) = {}
  <2>1. op \in CreateOps({Named}) /\ e \in Keyspace /\ UniqueIn(k, e) /\ Gapless(e)
        /\ IdInBound(k, e)
    BY CommandAssumption, EmptyType, EmptyUnique, EmptyGapless, EmptyInBound
  <2> HIDE DEF e
  <2>2. d = StoreCreate(k, e, op).db
    BY <1>2 DEF e
  <2>3. d \in Keyspace /\ (new => InsertsRecord(k, e, op, d)) /\ (~new => SameRecords(e, d))
    BY <2>1, <2>2, StoreCreates
  <2>4. UniqueIn(k, d)
    BY <2>1, <2>2, CreateUnique
  <2>5. ASSUME AutoIds, k # "kv" PROVE Gapless(d)
    <3>1. op.id = NoId
      BY <2>5 DEF AutoIds
    <3>2. CASE new
      BY <2>1, <2>3, <2>5, <3>1, <3>2, CreateGapless
    <3>3. CASE ~new
      BY <2>1, <2>3, <3>3 DEF SameRecords, Gapless, LiveIds, Live
    <3> QED  BY <3>2, <3>3
  <2> QED  BY <2>3, <2>4, <2>5
<1> QED  BY <1>1, <1>2 DEF Seeds

LEMMA LegacyOK ==
    ASSUME NEW form \in Forms
    PROVE  /\ Legacy(form) \in [form : Forms, db : Keyspace]
           /\ Legacy(form).form = form
           /\ Apart(Legacy(form).db) /\ Gapless(Legacy(form).db)
<1> DEFINE e == EmptyKeyspace
           row == [ver |-> 1, data |-> [x \in Indexes |-> Null]]
           d == [e EXCEPT !.ents[1] = row]
<1>1. Legacy(form) = [form |-> form, db |-> d]
  BY DEF Legacy
<1>2. row \in Row /\ row.ver = 1
  BY CommandAssumption DEF Row, Data
<1>3. \A i \in Ids : e.ents[i].ver = 0
  BY DEF EmptyKeyspace, NoRow
<1>4. e \in Keyspace
  BY EmptyType
<1>5. 1 \in Ids
  BY BoundsAssumption, CommandAssumption DEF Ids
<1> HIDE DEF e, row
<1>6. d \in Keyspace
  BY <1>2, <1>4 DEF Keyspace
<1>7. d.ents = [e.ents EXCEPT ![1] = row]
  BY <1>4 DEF Keyspace
<1> HIDE DEF d
<1>8. \A i \in Ids : d.ents[i].ver > 0 <=> i = 1
  BY <1>2, <1>3, <1>4, <1>5, <1>7 DEF Keyspace
<1>9. LiveIds(d) = {1}
  BY <1>5, <1>8 DEF LiveIds, Live
<1>10. Apart(d)
  BY <1>9 DEF Apart
<1>11. Gapless(d)
  <2>1. {1} = 1 .. 1
    OBVIOUS
  <2> QED  BY <1>9, <2>1 DEF Gapless
<1> QED  BY <1>1, <1>6, <1>10, <1>11

(* The invariant: GapInv needs that no earlier process chose an id.         *)
CommandInv ==
    StoreTypes /\ CallTypes /\ Opened /\ UniqueInv /\ KeyInv /\ AckInv /\ (AutoIds => GapInv)

LEMMA InitInv == Init => CommandInv
<1> SUFFICES ASSUME Init PROVE CommandInv
  OBVIOUS
<1> USE DEF Init
<1>1. kind \in Kinds /\ up \in BOOLEAN
  OBVIOUS
<1>2. EmptyKeyspace \in Seeds(kind)
  BY DEF Seeds
<1>3. db \in Seeds(kind)
  BY <1>2
<1>4. db \in Keyspace /\ UniqueIn(kind, db) /\ (AutoIds /\ kind # "kv" => Gapless(db))
  BY <1>1, <1>3, SeedsOK
<1>5. /\ file \in [form : Forms, db : Keyspace]
      /\ kind = "memory" => Apart(file.db)
      /\ AutoIds /\ kind # "kv" => Gapless(file.db)
  <2>1. CASE file = NoFile
    <3>1. file = [form |-> "none", db |-> EmptyKeyspace]
      BY <2>1 DEF NoFile
    <3>2. UniqueIn("memory", EmptyKeyspace)
      BY EmptyUnique
    <3> QED  BY <3>1, <3>2, EmptyType, EmptyGapless DEF Forms, UniqueIn
  <2>2. CASE \E form \in {"bare", "newer"} : file = Legacy(form)
    BY <2>2, LegacyOK DEF Forms
  <2>3. ASSUME kind = "memory", NEW d \in Seeds(kind), file = [form |-> "v1", db |-> d]
        PROVE  /\ file \in [form : Forms, db : Keyspace]
               /\ kind = "memory" => Apart(file.db)
               /\ AutoIds /\ kind # "kv" => Gapless(file.db)
    <3>1. d \in Keyspace /\ UniqueIn(kind, d) /\ (AutoIds => Gapless(d))
      BY <1>1, <2>3, SeedsOK
    <3> QED  BY <2>3, <3>1 DEF Forms, UniqueIn
  <2> QED  BY <2>1, <2>2, <2>3
<1>6. StoreTypes
  BY <1>1, <1>4, <1>5 DEF StoreTypes
<1>7. CallTypes
  BY IdleOK DEF CallTypes, CallOK
<1>8. UniqueInv /\ (AutoIds => GapInv)
  BY <1>4, <1>5 DEF UniqueInv, GapInv
<1>9. KeyInv /\ Opened
  <2>1. \A k \in Keys : keyed[k] = 0
    OBVIOUS
  <2>2. KeyInv
    BY <2>1 DEF KeyInv
  <2>3. Opened
    BY Zenon DEF Opened
  <2> QED  BY <2>2, <2>3
<1>10. AckInv
  BY <1>4, <1>5 DEF AckInv, Keyspace, Row
<1> QED  BY <1>6, <1>7, <1>8, <1>9, <1>10 DEF CommandInv

LEMMA OpenInv ==
    ASSUME CommandInv, Open
    PROVE  CommandInv'
<1>1. StoreTypes /\ CallTypes /\ Opened /\ UniqueInv /\ KeyInv /\ AckInv /\ (AutoIds => GapInv)
  BY DEF CommandInv
<1>2. PICK w \in IF Migrated(file) THEN Persisted(file, file.db) ELSE {[ok |-> TRUE, file |-> file]} :
          /\ file' = w.file
          /\ up' = w.ok
          /\ db' = IF w.ok THEN file.db ELSE db
          /\ keyed' = IF w.ok
                      THEN [k \in Keys |-> IF file.db.idem[k] = NoRecord THEN 0 ELSE 1] ELSE keyed
  BY DEF Open
<1>3. ~up /\ UNCHANGED <<kind, calls, made, acked, reruns, crashes>> /\ file.form \in {"none", "bare", "v1"}
  BY DEF Open, Loadable
<1>4. CallTypes'
  BY <1>1, <1>3 DEF CallTypes
<1>5. Snapshot(file.db) \in [form : Forms, db : Keyspace] /\ Torn \in [form : Forms, db : Keyspace]
  BY <1>1, EmptyType DEF Snapshot, Torn, Forms, StoreTypes
<1>6. \/ /\ up' = TRUE /\ db' = file.db
         /\ keyed' = [k \in Keys |-> IF file.db.idem[k] = NoRecord THEN 0 ELSE 1]
         /\ \/ file' = file /\ file.form \in {"none", "v1"}
            \/ file' = Snapshot(file.db) /\ file.form = "bare"
      \/ /\ up' = FALSE /\ db' = db /\ keyed' = keyed
         /\ file' \in {file, Torn} /\ file.form = "bare"
  <2>1. CASE ~Migrated(file)
    <3>1. w.ok = TRUE /\ w.file = file
      BY <1>2, <2>1
    <3> QED  BY <1>2, <1>3, <2>1, <3>1 DEF Migrated
  <2>2. CASE Migrated(file)
    <3>1. \/ w.ok = TRUE /\ w.file = Snapshot(file.db)
          \/ w.ok = FALSE /\ w.file \in {file, Torn}
      BY <1>2, <2>2 DEF Persisted, Torn
    <3> QED  BY <1>2, <2>2, <3>1 DEF Migrated
  <2> QED  BY <2>1, <2>2
<1>7. StoreTypes'
  <2>1. keyed' \in [Keys -> Nat]
    BY <1>1, <1>6 DEF StoreTypes
  <2>2. file' \in [form : Forms, db : Keyspace] /\ db' \in Keyspace /\ up' \in BOOLEAN
    BY <1>1, <1>5, <1>6 DEF StoreTypes
  <2> QED  BY <1>1, <1>3, <2>1, <2>2 DEF StoreTypes
<1>8. file'.db = file.db \/ file'.db = EmptyKeyspace
  BY <1>6 DEF Snapshot, Torn
<1>9. kind = "memory"
  BY <1>1, <1>3 DEF Opened
<1>10. Opened'
  BY <1>3, <1>9 DEF Opened
<1>11. UniqueInv'
  <2>1. Apart(db) /\ Apart(file.db) /\ Apart(EmptyKeyspace)
    BY <1>1, <1>9, EmptyUnique DEF UniqueInv, UniqueIn
  <2>2. Apart(file'.db) /\ Apart(db')
    BY <1>6, <1>8, <2>1
  <2> QED  BY <1>3, <1>9, <2>2 DEF UniqueInv, UniqueIn
<1>12. AckInv'
  <2>1. \A i \in Ids : file.db.ents[i].ver \in Nat /\ acked[i] \in Nat
    BY <1>1 DEF StoreTypes, Keyspace, Row
  <2>2. CASE up' = TRUE
    <3>1. \A i \in Ids : file.db.ents[i].ver >= acked[i]
      BY <1>1, <1>3, <1>9, <2>1 DEF AckInv
    <3>2. db' = file.db /\ acked' = acked /\ file'.db = file.db
      BY <1>3, <1>6, <2>2 DEF Snapshot
    <3> QED  BY <2>2, <3>1, <3>2 DEF AckInv
  <2>3. CASE up' = FALSE
    <3>1. /\ file'.form # "v1" /\ \A i \in Ids : acked[i] = 0
      BY <1>1, <1>3, <1>6, <1>9, <2>3 DEF AckInv, Torn
    <3> QED  BY <1>3, <2>3, <3>1 DEF AckInv
  <2> QED  BY <1>6, <2>2, <2>3
<1>13. KeyInv'
  <2>1. CASE up' = TRUE
    <3>1. \A k \in Keys : keyed'[k] = (IF file.db.idem[k] = NoRecord THEN 0 ELSE 1) /\ db' = file.db
      BY <1>6, <2>1
    <3> QED  BY <3>1 DEF KeyInv
  <2>2. CASE up' = FALSE
    BY <1>1, <1>6, <2>2 DEF KeyInv
  <2> QED  BY <1>6, <2>1, <2>2
<1>14. AutoIds => GapInv'
  BY <1>1, <1>3, <1>6, <1>8, EmptyGapless DEF GapInv
<1> QED  BY <1>4, <1>7, <1>10, <1>11, <1>12, <1>13, <1>14 DEF CommandInv, AutoIds

LEMMA CrashInv ==
    ASSUME CommandInv, Crash
    PROVE  CommandInv'
<1>1. StoreTypes /\ CallTypes /\ Opened /\ UniqueInv /\ KeyInv /\ AckInv /\ (AutoIds => GapInv)
  BY DEF CommandInv
<1>2. /\ up /\ crashes' = crashes + 1
      /\ up' = (kind # "memory")
      /\ db' = IF kind = "memory" THEN EmptyKeyspace ELSE db
      /\ acked' = IF kind = "memory" /\ file.form # "v1" THEN [i \in Ids |-> 0] ELSE acked
      /\ calls' = [p \in Calls |-> IF calls[p].pc \in {"idle", "done"} THEN calls[p]
                                   ELSE Failed(calls[p], "lost")]
      /\ UNCHANGED <<kind, file, made, keyed, reruns>>
  BY DEF Crash
<1>3. StoreTypes'
  <2>1. db' \in Keyspace /\ crashes' \in Nat /\ acked' \in [Ids -> Nat]
    BY <1>1, <1>2, EmptyType DEF StoreTypes
  <2>2. up' \in BOOLEAN
    BY <1>2
  <2> QED  BY <1>1, <1>2, <2>1, <2>2 DEF StoreTypes
<1>4. CallTypes'
  <2>1. \A p \in Calls : CallOK(calls[p]) /\ CallOK(Failed(calls[p], "lost"))
    BY <1>1, FailedOK DEF CallTypes, CallOK, Codes
  <2>2. \A p \in Calls : calls'[p] = calls[p] \/ calls'[p] = Failed(calls[p], "lost")
    BY <1>2
  <2>3. \A p \in Calls : CallOK(calls'[p])
    BY <2>1, <2>2
  <2>4. calls' \in [Calls -> CallType]
    <3>1. \A p \in Calls : calls'[p] \in CallType
      BY <2>3 DEF CallOK
    <3>2. calls' = [p \in Calls |-> calls'[p]]
      BY <1>2
    <3> QED  BY <3>1, <3>2
  <2> QED  BY <2>3, <2>4 DEF CallTypes, CallOK
<1>5. UniqueInv' /\ (AutoIds => GapInv')
  BY <1>1, <1>2, EmptyUnique, EmptyGapless DEF UniqueInv, UniqueIn, GapInv
<1>6. Opened' /\ KeyInv'
  <2>1. CASE kind = "memory"
    BY <1>1, <1>2, <2>1 DEF Opened, KeyInv
  <2>2. CASE kind # "memory"
    BY <1>1, <1>2, <2>2 DEF Opened, KeyInv
  <2> QED  BY <2>1, <2>2
<1>7. AckInv'
  <2>1. CASE kind = "memory" /\ file.form = "v1"
    BY <1>1, <1>2, <2>1 DEF AckInv
  <2>2. CASE kind = "memory" /\ file.form # "v1"
    <3>1. up' = FALSE /\ file' = file /\ \A i \in Ids : acked'[i] = 0
      BY <1>2, <2>2
    <3> QED  BY <2>2, <3>1 DEF AckInv
  <2>3. CASE kind # "memory"
    BY <1>2, <2>3 DEF AckInv
  <2> QED  BY <2>1, <2>2, <2>3
<1> QED  BY <1>3, <1>4, <1>5, <1>6, <1>7 DEF CommandInv, AutoIds

LEMMA BeginOK ==
    ASSUME CallTypes, NEW p \in Calls, NEW prog \in DOMAIN Programs,
           NEW key \in Keys \cup {NoKey}, NEW list \in Items, Begin(p, prog, key, list)
    PROVE  CallTypes'
<1> DEFINE c == [Idle EXCEPT !.prog = prog, !.key = key]
           f == [steps |-> Programs[prog].steps, i |-> 1, n |-> 0]
           fr == <<f>>
           sc == <<NoNames>>
           g == [c EXCEPT !.pc = "step", !.list = list, !.scopes = sc, !.frames = fr]
<1>1. Goes(p, IF Programs[prog].required /\ key = NoKey
              THEN Failed(c, "idempotency_key_required") ELSE g)
  BY DEF Begin
<1>2. c \in CallType /\ c.prog = prog
  BY IdleOK DEF CallOK, CallType
<1> HIDE DEF c
<1>3. f \in Steps /\ f.n = 0
  BY ProgramAssumption DEF Steps
<1> HIDE DEF f
<1>4. fr \in Seq(Steps) /\ Len(fr) = 1 /\ fr[1] = f
  BY <1>3
<1>5. sc \in Seq([Names -> Outputs]) /\ Len(sc) = 1
  <2> DEFINE s == NoNames
  <2>1. s \in [Names -> Outputs]
    BY OutputTypes
  <2> HIDE DEF s
  <2>2. <<s>> \in Seq([Names -> Outputs]) /\ Len(<<s>>) = 1
    BY <2>1
  <2> QED  BY <2>2 DEF s
<1> HIDE DEF fr, sc
<1>6. /\ g \in CallType /\ g.pc = "step" /\ g.prog = prog /\ g.frames = fr /\ g.scopes = sc
  BY <1>2, <1>4, <1>5 DEF CallType
<1> HIDE DEF g
<1>7. CallOK(g)
  <2>1. g.frames[1].n = 0 /\ Len(g.frames) = 1 /\ Len(g.scopes) = 1
    BY <1>3, <1>4, <1>5, <1>6
  <2>2. \A m \in 1 .. Len(g.frames) : g.frames[m].n = 0
    BY <2>1
  <2>3. \A m \in 1 .. Len(g.frames) : g.frames[m].n > 0 => g.list # NoList
    BY <2>2
  <2> QED  BY <1>6, <2>1, <2>3 DEF CallOK, Stacked
<1>8. CallOK(Failed(c, "idempotency_key_required"))
  BY <1>2, FailedOK DEF Codes
<1>9. CASE Programs[prog].required /\ key = NoKey
  BY <1>1, <1>8, <1>9, GoesOK
<1>10. CASE ~(Programs[prog].required /\ key = NoKey)
  BY <1>1, <1>7, <1>10, GoesOK
<1> QED  BY <1>9, <1>10

LEMMA StillInv ==
    ASSUME CommandInv, UNCHANGED <<kind, db, file, up, made, keyed, acked, reruns, crashes>>, CallTypes'
    PROVE  CommandInv'
BY DEF CommandInv, StoreTypes, Opened, UniqueInv, KeyInv, AckInv, GapInv, AutoIds

LEMMA StepInv == CommandInv /\ [Next]_vars => CommandInv' /\ (AutoIds => Survives)
<1> SUFFICES ASSUME CommandInv, [Next]_vars PROVE CommandInv' /\ (AutoIds => Survives)
  OBVIOUS
<1>0. StoreTypes /\ CallTypes /\ Opened /\ UniqueInv /\ KeyInv /\ AckInv /\ (AutoIds => GapInv)
  BY DEF CommandInv
<1>1. CASE Open
  <2>1. Survives
    BY <1>1 DEF Open, Survives
  <2> QED  BY <1>1, <2>1, OpenInv
<1>2. CASE Crash
  <2>1. Survives
    BY <1>2 DEF Crash, Survives
  <2> QED  BY <1>2, <2>1, CrashInv
<1>3. CASE \E p \in Calls, prog \in DOMAIN Programs, key \in Keys \cup {NoKey}, list \in Items :
              Begin(p, prog, key, list)
  <2>1. PICK p \in Calls, prog \in DOMAIN Programs, key \in Keys \cup {NoKey}, list \in Items :
            Begin(p, prog, key, list)
    BY <1>3
  <2>2. CallTypes'
    BY <1>0, <2>1, BeginOK
  <2>3. UNCHANGED <<kind, db, file, up, made, keyed, acked, reruns, crashes>>
    BY <2>1 DEF Begin
  <2>4. Survives
    BY <2>3 DEF Survives
  <2> QED  BY <2>2, <2>3, <2>4, StillInv
<1>4. ASSUME NEW p \in Calls, Run(p) PROVE CommandInv' /\ (AutoIds => Survives)
  <2>1. up /\ Steady /\ Effect /\ CallTypes'
    BY <1>0, <1>4, RunEffect
  <2>2. StoreTypes'
    BY <1>0, <2>1, EffectTypes
  <2>3. UniqueInv' /\ KeyInv' /\ AckInv'
    BY <1>0, <2>1, <2>2, EffectUnique, EffectKey, EffectAck
  <2>4. AutoIds => GapInv' /\ Survives
    BY <1>0, <2>1, EffectGap, EffectSurvives
  <2>5. Opened'
    BY <2>1 DEF Opened, Steady
  <2> QED  BY <2>1, <2>2, <2>3, <2>4, <2>5 DEF CommandInv, AutoIds
<1>5. CASE UNCHANGED vars
  <2>1. UNCHANGED <<kind, db, file, up, made, keyed, acked, reruns, crashes>> /\ calls' = calls
    BY <1>5 DEF vars
  <2>2. CallTypes'
    BY <1>0, <2>1 DEF CallTypes
  <2>3. Survives
    BY <2>1 DEF Survives
  <2> QED  BY <2>1, <2>2, <2>3, StillInv
<1> QED  BY <1>1, <1>2, <1>3, <1>4, <1>5 DEF Next

LEMMA Invariant == Spec => []CommandInv
<1>1. CommandInv /\ [Next]_vars => CommandInv'
  BY StepInv
<1> QED  BY InitInv, <1>1, PTL DEF Spec

-----------------------------------------------------------------------------
(* What the commands count.  A sum over the calls is the number of pairs of *)
(* a call and one of the changes it counted.                                *)
Counters == {"created", "updated", "deleted"}

(* What a call ends with that may have made a change it did not hear of.    *)
LostCodes == {WriteFails, CommitUnknown, "lost"}

Pairs(cs, f)   == UNION {{q} \X (1 .. cs[q].count[f]) : q \in Calls}
Failing(cs)    == {q \in Calls : cs[q].res \in LostCodes}
Publishing(cs) == {q \in Calls : cs[q].pc = "publish"}

LEMMA CountType ==
    ASSUME NEW c \in CallType, NEW f \in Counters
    PROVE  c.count[f] \in Nat
<1>1. c.count \in [created : Nat, updated : Nat, deleted : Nat]
  BY DEF CallType
<1>2. CASE f = "created"
  BY <1>1, <1>2
<1>3. CASE f = "updated"
  BY <1>1, <1>3
<1>4. CASE f = "deleted"
  BY <1>1, <1>4
<1> QED  BY <1>2, <1>3, <1>4 DEF Counters

LEMMA PairsFinite ==
    ASSUME NEW cs \in [Calls -> CallType], NEW f \in Counters
    PROVE  IsFiniteSet(Pairs(cs, f)) /\ Cardinality(Pairs(cs, f)) \in Nat
<1> DEFINE Of(q) == {q} \X (1 .. cs[q].count[f])
           S == {Of(q) : q \in Calls}
<1>1. IsFiniteSet(Calls)
  BY CommandAssumption
<1>2. \A q \in Calls : IsFiniteSet(Of(q))
  <2> TAKE q \in Calls
  <2>1. cs[q].count[f] \in Int /\ 1 \in Int
    BY CountType
  <2>2. IsFiniteSet({q}) /\ IsFiniteSet(1 .. cs[q].count[f])
    BY <2>1, FS_Singleton, FS_Interval
  <2>3. \A T : IsFiniteSet(T) => IsFiniteSet({q} \X T)
    BY <2>2, FS_Product, Zenon
  <2> QED  BY <2>2, <2>3, Zenon DEF Of
<1>3. IsFiniteSet(S)
  <2> DEFINE g == [q \in Calls |-> Of(q)]
  <2>1. g \in Surjection(Calls, S)
    <3> HIDE DEF Of
    <3> QED  BY DEF Surjection
  <2> HIDE DEF g, S
  <2> QED  BY <1>1, <2>1, FS_Surjection
<1>4. \A T \in S : IsFiniteSet(T)
  <2> HIDE DEF Of
  <2> QED  BY <1>2
<1>5. Pairs(cs, f) = UNION S
  BY DEF Pairs
<1> HIDE DEF S
<1>6. IsFiniteSet(Pairs(cs, f))
  BY <1>3, <1>4, <1>5, FS_UNION
<1> QED  BY <1>6, FS_CardinalityType

(* One call counts one change more, or none.                                *)
LEMMA PairsStep ==
    ASSUME NEW cs \in [Calls -> CallType], NEW ds \in [Calls -> CallType], NEW f \in Counters,
           NEW p \in Calls, \A q \in Calls \ {p} : ds[q] = cs[q],
           NEW n \in {0, 1}, ds[p].count[f] = cs[p].count[f] + n
    PROVE  Cardinality(Pairs(ds, f)) = Cardinality(Pairs(cs, f)) + n
<1> DEFINE k == cs[p].count[f]
<1>0. k \in Nat /\ \A q \in Calls : cs[q].count[f] \in Nat /\ ds[q].count[f] \in Nat
  BY CountType
<1>1. \A s : s \in Pairs(cs, f) <=> \E q \in Calls : s \in {q} \X (1 .. cs[q].count[f])
  BY DEF Pairs
<1>2. \A s : s \in Pairs(ds, f) <=> \E q \in Calls : s \in {q} \X (1 .. ds[q].count[f])
  BY DEF Pairs
<1>3. CASE n = 0
  <2>1. \A q \in Calls : ds[q].count[f] = cs[q].count[f]
    BY <1>0, <1>3
  <2>2. Pairs(ds, f) = Pairs(cs, f)
    BY <2>1 DEF Pairs
  <2> QED  BY <1>3, <2>2, PairsFinite
<1>4. CASE n = 1
  <2> DEFINE x == <<p, k + 1>>
  <2>1. x \notin Pairs(cs, f)
    <3> SUFFICES ASSUME NEW q \in Calls, x \in {q} \X (1 .. cs[q].count[f]) PROVE FALSE
      BY <1>1
    <3>1. q = p /\ k + 1 \in 1 .. k
      OBVIOUS
    <3> QED  BY <1>0, <3>1
  <2>2. \A s : s \in Pairs(ds, f) <=> s \in Pairs(cs, f) \cup {x}
    <3> TAKE s
    <3>1. 1 .. ds[p].count[f] = (1 .. k) \cup {k + 1}
      <4>1. ds[p].count[f] = k + 1
        BY <1>4
      <4> HIDE DEF k
      <4> QED  BY <1>0, <4>1
    <3>2. s \in {p} \X (1 .. ds[p].count[f]) <=> s \in {p} \X (1 .. k) \/ s = x
      <4> HIDE DEF k
      <4> QED  BY <3>1
    <3>3. ASSUME s \in Pairs(ds, f) PROVE s \in Pairs(cs, f) \cup {x}
      <4>1. PICK q \in Calls : s \in {q} \X (1 .. ds[q].count[f])
        BY <1>2, <3>3
      <4>2. CASE q = p
        BY <1>1, <3>2, <4>1, <4>2
      <4>3. CASE q # p
        <5>1. s \in {q} \X (1 .. cs[q].count[f])
          BY <4>1, <4>3
        <5> QED  BY <1>1, <5>1
      <4> QED  BY <4>2, <4>3
    <3>4. ASSUME s \in Pairs(cs, f) PROVE s \in Pairs(ds, f)
      <4>1. PICK q \in Calls : s \in {q} \X (1 .. cs[q].count[f])
        BY <1>1, <3>4
      <4>2. CASE q = p
        BY <1>2, <3>2, <4>1, <4>2
      <4>3. CASE q # p
        <5>1. s \in {q} \X (1 .. ds[q].count[f])
          BY <4>1, <4>3
        <5> QED  BY <1>2, <5>1
      <4> QED  BY <4>2, <4>3
    <3>5. x \in Pairs(ds, f)
      <4>1. x \in {p} \X (1 .. ds[p].count[f])
        <5> HIDE DEF k
        <5> QED  BY <1>0, <3>1
      <4> QED  BY <1>2, <4>1
    <3> QED  BY <3>3, <3>4, <3>5
  <2>3. Pairs(ds, f) = Pairs(cs, f) \cup {x}
    <3> HIDE DEF x
    <3> QED  BY <2>2
  <2>4. IsFiniteSet(Pairs(cs, f)) /\ Cardinality(Pairs(cs, f)) \in Nat
    BY PairsFinite
  <2> HIDE DEF x
  <2>5. Cardinality(Pairs(cs, f) \cup {x}) = Cardinality(Pairs(cs, f)) + 1
    BY <2>1, <2>4, FS_AddElement
  <2> QED  BY <1>4, <2>3, <2>5
<1> QED  BY <1>3, <1>4

(* One call enters or leaves a set of calls.                                *)
LEMMA CallsFinite ==
    ASSUME NEW S, S \subseteq Calls
    PROVE  IsFiniteSet(S) /\ Cardinality(S) \in Nat
<1>1. IsFiniteSet(S)
  BY CommandAssumption, FS_Subset
<1> QED  BY <1>1, FS_CardinalityType

LEMMA SetStep ==
    ASSUME NEW S, NEW T, NEW p \in Calls, S \subseteq Calls, T \subseteq Calls,
           \A q \in Calls \ {p} : q \in S <=> q \in T
    PROVE  /\ Cardinality(S) \in Nat /\ Cardinality(T) \in Nat
           /\ (p \in S <=> p \in T) => Cardinality(T) = Cardinality(S)
           /\ p \in T /\ p \notin S => Cardinality(T) = Cardinality(S) + 1
           /\ p \in S /\ p \notin T => Cardinality(S) = Cardinality(T) + 1
<1>1. IsFiniteSet(S) /\ IsFiniteSet(T) /\ Cardinality(S) \in Nat /\ Cardinality(T) \in Nat
  BY CallsFinite
<1>2. ASSUME p \in S <=> p \in T PROVE Cardinality(T) = Cardinality(S)
  <2>1. S = T
    BY <1>2
  <2> QED  BY <2>1
<1>3. ASSUME p \in T, p \notin S PROVE Cardinality(T) = Cardinality(S) + 1
  <2>1. T = S \cup {p}
    BY <1>3
  <2> QED  BY <1>1, <1>3, <2>1, FS_AddElement
<1>4. ASSUME p \in S, p \notin T PROVE Cardinality(S) = Cardinality(T) + 1
  <2>1. S = T \cup {p}
    BY <1>4
  <2> QED  BY <1>1, <1>4, <2>1, FS_AddElement
<1> QED  BY <1>1, <1>2, <1>3, <1>4

(* What one step does to a counter, to the changes made, and to the events. *)
Counts(c, n, f) ==
    \/ n.count[f] = c.count[f] /\ made'[f] = made[f]
    \/ n.count[f] = c.count[f] + 1 /\ made'[f] = made[f] + 1
    \/ n.count[f] = c.count[f] + 1 /\ made'[f] = made[f] /\ f = "created"
    \/ /\ n.count[f] = c.count[f] /\ made'[f] = made[f] + 1
       /\ n.res \in LostCodes \/ reruns' = reruns + 1

Publishes(c, n) ==
    \/ n.pc # "publish" /\ made'.events = made.events /\ db'.evseq >= db.evseq
    \/ c.pc # "publish" /\ made'.events = made.events /\ db'.evseq = db.evseq + 1
    \/ c.pc = "publish" /\ n.pc # "publish" /\ made'.events = made.events + 1 /\ db'.evseq = db.evseq

Tallied(p, n) ==
    /\ Goes(p, n) /\ Active(calls[p]) /\ reruns' \in {reruns, reruns + 1}
    /\ n.pc # "idle" /\ (n.pc # "done" => n.res = "none")
    /\ \A f \in Counters : Counts(calls[p], n, f)
    /\ kind # "memory" => Publishes(calls[p], n)

(* A call that is not running has not failed, and one that has not begun    *)
(* has not counted.                                                         *)
Fresh ==
    \A q \in Calls : /\ calls[q].pc = "idle" => calls[q].count = NoCount
                     /\ calls[q].pc # "done" => calls[q].res = "none"

TallyInv ==
    /\ \A f \in {"updated", "deleted"} :
          /\ Cardinality(Pairs(calls, f)) <= made[f]
          /\ made[f] <= Cardinality(Pairs(calls, f)) + Cardinality(Failing(calls)) + reruns
    /\ made.created <= Cardinality(Pairs(calls, "created")) + Cardinality(Failing(calls)) + reruns
    /\ kind # "memory" => made.events + Cardinality(Publishing(calls)) <= db.evseq

(* A step of one call keeps the tallies.                                    *)
LEMMA TallyKept ==
    ASSUME StoreTypes, StoreTypes', CallTypes, CallTypes', Fresh, TallyInv, kind' = kind,
           NEW p \in Calls, NEW n, Tallied(p, n)
    PROVE  Fresh' /\ TallyInv'
<1> DEFINE c == calls[p]
<1>1. /\ calls \in [Calls -> CallType] /\ calls' \in [Calls -> CallType]
      /\ calls'[p] = n /\ \A q \in Calls \ {p} : calls'[q] = calls[q]
      /\ n \in CallType /\ c \in CallType
  BY DEF CallTypes, Goes, Tallied
<1>2. Fresh'
  BY <1>1 DEF Fresh, Tallied
<1>3. c.res \notin LostCodes /\ reruns \in Nat /\ reruns' \in {reruns, reruns + 1}
  BY DEF Active, Fresh, WriteFails, CommitUnknown, LostCodes, Tallied, StoreTypes
<1>4. /\ Cardinality(Failing(calls)) \in Nat /\ Cardinality(Failing(calls')) \in Nat
      /\ Cardinality(Failing(calls')) >= Cardinality(Failing(calls))
      /\ n.res \in LostCodes => Cardinality(Failing(calls')) = Cardinality(Failing(calls)) + 1
  <2> DEFINE S == Failing(calls)
             T == Failing(calls')
  <2>1. /\ S \subseteq Calls /\ T \subseteq Calls /\ p \notin S
        /\ \A q \in Calls \ {p} : q \in S <=> q \in T
        /\ n.res \in LostCodes <=> p \in T
    BY <1>1, <1>3 DEF Failing
  <2> HIDE DEF S, T
  <2>2. /\ Cardinality(S) \in Nat /\ Cardinality(T) \in Nat
        /\ p \notin T => Cardinality(T) = Cardinality(S)
        /\ p \in T => Cardinality(T) = Cardinality(S) + 1
    BY <2>1, SetStep
  <2>3. Cardinality(T) >= Cardinality(S)
    BY <2>2
  <2> QED  BY <2>1, <2>2, <2>3 DEF S, T
<1>5. ASSUME NEW f \in Counters
      PROVE  /\ Cardinality(Pairs(calls, f)) \in Nat
             /\ made[f] \in Nat
             /\ \/ /\ Cardinality(Pairs(calls', f)) = Cardinality(Pairs(calls, f))
                   /\ made'[f] = made[f]
                \/ /\ Cardinality(Pairs(calls', f)) = Cardinality(Pairs(calls, f)) + 1
                   /\ made'[f] = made[f] + 1
                \/ /\ Cardinality(Pairs(calls', f)) = Cardinality(Pairs(calls, f)) + 1
                   /\ made'[f] = made[f] /\ f = "created"
                \/ /\ Cardinality(Pairs(calls', f)) = Cardinality(Pairs(calls, f))
                   /\ made'[f] = made[f] + 1
                   /\ n.res \in LostCodes \/ reruns' = reruns + 1
  <2>1. Cardinality(Pairs(calls, f)) \in Nat
    BY <1>1, PairsFinite
  <2>2. made[f] \in Nat
    <3>1. made \in [created : Nat, updated : Nat, deleted : Nat, events : Nat]
      BY DEF StoreTypes
    <3> QED  BY <1>5, <3>1 DEF Counters
  <2>3. c.count[f] \in Nat
    BY <1>1, CountType
  <2>4. \A m \in {0, 1} : n.count[f] = c.count[f] + m =>
           Cardinality(Pairs(calls', f)) = Cardinality(Pairs(calls, f)) + m
    <3> TAKE m \in {0, 1}
    <3> HAVE n.count[f] = c.count[f] + m
    <3> QED  BY <1>1, PairsStep
  <2>5. n.count[f] = c.count[f] =>
           Cardinality(Pairs(calls', f)) = Cardinality(Pairs(calls, f))
    BY <2>1, <2>3, <2>4
  <2>6. n.count[f] = c.count[f] + 1 =>
           Cardinality(Pairs(calls', f)) = Cardinality(Pairs(calls, f)) + 1
    BY <2>4
  <2>7. Counts(c, n, f)
    BY <1>5 DEF Tallied
  <2> QED  BY <2>1, <2>2, <2>5, <2>6, <2>7 DEF Counts
<1>6. ASSUME NEW f \in {"updated", "deleted"}
      PROVE  /\ Cardinality(Pairs(calls', f)) <= made'[f]
             /\ made'[f] <= Cardinality(Pairs(calls', f)) + Cardinality(Failing(calls')) + reruns'
  <2>1. f \in Counters /\ f # "created"
    BY <1>6 DEF Counters
  <2>2. /\ Cardinality(Pairs(calls, f)) <= made[f]
        /\ made[f] <= Cardinality(Pairs(calls, f)) + Cardinality(Failing(calls)) + reruns
    BY <1>6 DEF TallyInv
  <2> QED  BY <1>3, <1>4, <1>5, <2>1, <2>2
<1>7. made'.created <= Cardinality(Pairs(calls', "created")) + Cardinality(Failing(calls')) + reruns'
  <2> DEFINE f == "created"
  <2>1. f \in Counters /\ made.created = made[f] /\ made'.created = made'[f]
    BY DEF Counters
  <2>2. made[f] <= Cardinality(Pairs(calls, f)) + Cardinality(Failing(calls)) + reruns
    BY DEF TallyInv
  <2> HIDE DEF f
  <2>3. made'[f] <= Cardinality(Pairs(calls', f)) + Cardinality(Failing(calls')) + reruns'
    BY <1>3, <1>4, <1>5, <2>1, <2>2
  <2> QED  BY <2>1, <2>3 DEF f
<1>8. ASSUME kind # "memory"
      PROVE  made'.events + Cardinality(Publishing(calls')) <= db'.evseq
  <2> DEFINE S == Publishing(calls)
             T == Publishing(calls')
  <2>1. /\ S \subseteq Calls /\ T \subseteq Calls
        /\ \A q \in Calls \ {p} : q \in S <=> q \in T
        /\ c.pc = "publish" <=> p \in S
        /\ n.pc = "publish" <=> p \in T
    BY <1>1 DEF Publishing
  <2>2. made.events \in Nat /\ db.evseq \in Nat /\ made'.events \in Nat /\ db'.evseq \in Nat
    BY BoundsAssumption DEF StoreTypes, Keyspace
  <2>3. made.events + Cardinality(S) <= db.evseq
    BY <1>8 DEF TallyInv
  <2>4. Publishes(c, n)
    BY <1>8 DEF Tallied
  <2> HIDE DEF S, T
  <2>5. /\ Cardinality(S) \in Nat /\ Cardinality(T) \in Nat
        /\ (p \in S <=> p \in T) => Cardinality(T) = Cardinality(S)
        /\ p \in T /\ p \notin S => Cardinality(T) = Cardinality(S) + 1
        /\ p \in S /\ p \notin T => Cardinality(S) = Cardinality(T) + 1
    BY <2>1, SetStep
  <2>6. made'.events + Cardinality(T) <= db'.evseq
    BY <2>1, <2>2, <2>3, <2>4, <2>5 DEF Publishes
  <2> QED  BY <2>6 DEF T
<1> QED  BY <1>2, <1>6, <1>7, <1>8 DEF TallyInv

-----------------------------------------------------------------------------
(* The stream of the two stores that keep it apart from the process: only   *)
(* an appended event makes it longer.                                       *)
LEMMA CreateStream ==
    ASSUME NEW k \in Kinds, k # "memory", NEW d \in Keyspace, NEW op \in CreateOps({Named})
    PROVE  StoreCreate(k, d, op).db.evseq = d.evseq
<1> DEFINE q == CreateSeq(d, op)
<1>1. CASE k = "kv"
  <2> DEFINE id == CreateId(d, op)
  <2>1. /\ [d EXCEPT !.schema = TRUE].evseq = d.evseq
        /\ [d EXCEPT !.schema = TRUE, !.idseq = q].evseq = d.evseq
        /\ CreateWrites(d, op, id).evseq = d.evseq
    <3> HIDE DEF q, id
    <3> QED  BY DEF Keyspace, CreateWrites
  <2>2. StoreCreate(k, d, op).db \in
           {d, [d EXCEPT !.schema = TRUE], [d EXCEPT !.schema = TRUE, !.idseq = q],
            CreateWrites(d, op, id)}
    BY <1>1 DEF StoreCreate, Create
  <2> HIDE DEF q, id
  <2> QED  BY <2>1, <2>2
<1>2. CASE k = "fdb"
  <2> DEFINE r == SetRow(d, CountedCreateId(k, d, op), 1, op.data)
             i == SetIdem(d.idem, op, CountedCreateId(k, d, op))
             u == WriteUnique(d.uniq, op.named, op.data, CountedCreateId(k, d, op))
  <2>1. /\ [d EXCEPT !.schema = TRUE].evseq = d.evseq
        /\ [r EXCEPT !.schema = TRUE, !.idem = i, !.uniq = u].evseq = d.evseq
    <3> HIDE DEF i, u
    <3> QED  BY DEF Keyspace, SetRow
  <2>2. StoreCreate(k, d, op).db \in
           {d, [d EXCEPT !.schema = TRUE], [r EXCEPT !.schema = TRUE, !.idem = i, !.uniq = u]}
    BY <1>2 DEF StoreCreate, FdbCreate
  <2> HIDE DEF r, i, u
  <2> QED  BY <2>1, <2>2
<1> QED  BY <1>1, <1>2 DEF Kinds

LEMMA RowStream ==
    ASSUME NEW k \in Kinds, k # "memory", NEW d \in Keyspace
    PROVE  /\ \A op \in UpdateOps({Named}) : StoreUpdate(k, d, op).db.evseq = d.evseq
           /\ \A id \in Ids : StoreDelete(k, d, id).db.evseq = d.evseq
           /\ \A e \in Payloads : StoreAppendEvent(k, d, e).db.evseq = d.evseq + 1
<1>1. ASSUME NEW op \in UpdateOps({Named}) PROVE StoreUpdate(k, d, op).db.evseq = d.evseq
  <2> DEFINE new == Patched(d, op)
             row == [ver |-> d.ents[op.id].ver + 1, data |-> new]
             uf  == WriteUnique(d.uniq, op.named, new, op.id)
             uk  == WriteUnique(ReleaseUnique(d.uniq, op.named, d.ents[op.id].data, new, op.id),
                                op.named, new, op.id)
  <2>1. /\ [d EXCEPT !.ents[op.id] = row, !.uniq = uk].evseq = d.evseq
        /\ [[d EXCEPT !.ents[op.id] = row] EXCEPT !.uniq = uf].evseq = d.evseq
    <3> HIDE DEF row, uf, uk
    <3> QED  BY DEF Keyspace
  <2>2. StoreUpdate(k, d, op).db \in
           {d, [d EXCEPT !.ents[op.id] = row, !.uniq = uk],
               [[d EXCEPT !.ents[op.id] = row] EXCEPT !.uniq = uf]}
    BY DEF StoreUpdate, Update, FdbUpdate, SetRow, Kinds
  <2> HIDE DEF row, uf, uk
  <2> QED  BY <2>1, <2>2
<1>2. ASSUME NEW id \in Ids PROVE StoreDelete(k, d, id).db.evseq = d.evseq
  <2> DEFINE u == IF k = "kv" THEN ClearUnique(d.uniq, id)
                  ELSE [x \in Indexes |-> [v \in Values |->
                           IF d.uniq[x][v] = id /\ <<x, v>> \in EntriesSeen(d)
                           THEN NoId ELSE d.uniq[x][v]]]
  <2>1. [d EXCEPT !.ents[id] = NoRow, !.uniq = u].evseq = d.evseq
    <3> HIDE DEF u
    <3> QED  BY DEF Keyspace
  <2>2. StoreDelete(k, d, id).db \in {d, [d EXCEPT !.ents[id] = NoRow, !.uniq = u]}
    BY DEF StoreDelete, Delete, FdbDelete, Kinds
  <2> HIDE DEF u
  <2> QED  BY <2>1, <2>2
<1>3. ASSUME NEW e \in Payloads PROVE StoreAppendEvent(k, d, e).db.evseq = d.evseq + 1
  <2> DEFINE n == d.evseq + 1
  <2>1. StoreAppendEvent(k, d, e).db = [d EXCEPT !.schema = TRUE, !.events[n] = e, !.evseq = n]
    BY DEF StoreAppendEvent, AppendEvent, FdbAppendEvent, Kinds
  <2>2. [d EXCEPT !.schema = TRUE, !.events[n] = e, !.evseq = n].evseq = n
    <3> HIDE DEF n
    <3> QED  BY DEF Keyspace
  <2> HIDE DEF n
  <2> QED  BY <2>1, <2>2 DEF n
<1> QED  BY <1>1, <1>2, <1>3

-----------------------------------------------------------------------------
(* Where a call goes keeps what it counted.                                 *)
LEMMA RecordedKeeps ==
    ASSUME NEW c \in CallType, NEW out
    PROVE  /\ Recorded(c, out).pc = "step" /\ Recorded(c, out).count = c.count
           /\ Recorded(c, out).res = c.res
<1> DEFINE n  == Len(c.scopes)
           a  == Step(c).as
           fr == NextStep(c.frames)
<1>1. Recorded(c, out) = [c EXCEPT !.scopes[n][a] = out, !.frames = fr, !.tries = 0,
                                   !.todo = << >>, !.pc = "step"]
  BY DEF Recorded
<1> HIDE DEF n, a, fr
<1> QED  BY <1>1 DEF CallType

LEMMA FailedKeeps ==
    ASSUME NEW c, NEW code
    PROVE  Failed(c, code).pc = "done" /\ Failed(c, code).count = c.count /\ Failed(c, code).res = code
BY DEF Failed, Idle

LEMMA RetryKeeps ==
    ASSUME NEW c \in CallType, NEW t, NEW data, NEW self, NEW code
    PROVE  LET r == Retry(c, t, data, self, code)
           IN  /\ r.count = c.count
               /\ \/ r.pc = "done" /\ r.res = code
                  \/ r.pc = c.pc /\ r.res = c.res /\ code = "unique_constraint_violation"
<1> DEFINE g == [c EXCEPT !.gen = Absent, !.tries = c.tries + 1]
<1>1. g.count = c.count /\ g.pc = c.pc /\ g.res = c.res
  BY DEF CallType
<1>2. \/ Retry(c, t, data, self, code) = g /\ code = "unique_constraint_violation"
      \/ Retry(c, t, data, self, code) = Failed(c, code)
  BY DEF Retry
<1> HIDE DEF g
<1> QED  BY <1>1, <1>2, FailedKeeps

LEMMA GenKeeps ==
    ASSUME NEW c \in CallType, NEW t, NEW g \in WithGen(c, t)
    PROVE  g.count = c.count /\ g.pc = c.pc /\ g.res = c.res
<1>1. g = c \/ \E v \in GeneratedValues(c) : g = [c EXCEPT !.gen = v]
  BY DEF WithGen
<1> QED  BY <1>1 DEF CallType

(* One counter more: of the changes made, and of what a call counted.       *)
LEMMA MadeMore ==
    ASSUME NEW m \in [created : Nat, updated : Nat, deleted : Nat, events : Nat], NEW k
    PROVE  /\ LET w == [m EXCEPT !.created = k]
              IN  /\ w["created"] = k /\ w["updated"] = m["updated"]
                  /\ w["deleted"] = m["deleted"] /\ w.events = m.events
           /\ LET w == [m EXCEPT !.updated = k]
              IN  /\ w["created"] = m["created"] /\ w["updated"] = k
                  /\ w["deleted"] = m["deleted"] /\ w.events = m.events
           /\ LET w == [m EXCEPT !.deleted = k]
              IN  /\ w["created"] = m["created"] /\ w["updated"] = m["updated"]
                  /\ w["deleted"] = k /\ w.events = m.events
OBVIOUS

LEMMA CountMore ==
    ASSUME NEW n \in [created : Nat, updated : Nat, deleted : Nat], NEW k
    PROVE  /\ LET w == [n EXCEPT !.created = k]
              IN  w["created"] = k /\ w["updated"] = n["updated"] /\ w["deleted"] = n["deleted"]
           /\ LET w == [n EXCEPT !.updated = k]
              IN  w["created"] = n["created"] /\ w["updated"] = k /\ w["deleted"] = n["deleted"]
           /\ LET w == [n EXCEPT !.deleted = k]
              IN  w["created"] = n["created"] /\ w["updated"] = n["updated"] /\ w["deleted"] = k
OBVIOUS

LEMMA MadeFields ==
    ASSUME StoreTypes, NEW c \in CallType
    PROVE  /\ \A f \in Counters : made[f] \in Nat /\ c.count[f] \in Nat
           /\ made.events \in Nat /\ db.evseq \in Nat /\ db \in Keyspace /\ kind \in Kinds
           /\ made \in [created : Nat, updated : Nat, deleted : Nat, events : Nat]
           /\ c.count \in [created : Nat, updated : Nat, deleted : Nat]
<1>1. /\ made \in [created : Nat, updated : Nat, deleted : Nat, events : Nat]
      /\ c.count \in [created : Nat, updated : Nat, deleted : Nat]
  BY DEF StoreTypes, CallType
<1>3. \A f \in Counters : made[f] \in Nat /\ c.count[f] \in Nat
  BY <1>1, CountType DEF Counters
<1>4. made.events \in Nat /\ db.evseq \in Nat
  BY <1>1, BoundsAssumption DEF StoreTypes, Keyspace
<1> QED  BY <1>1, <1>3, <1>4 DEF StoreTypes

(* A step that changes neither the store nor the tallies.                   *)
LEMMA QuietTally ==
    ASSUME StoreTypes, CallTypes, Fresh, NEW p \in Calls, NEW n, Local(p, n),
           Active(calls[p]), calls[p].pc # "publish",
           n.count = calls[p].count, n.pc \in {"step", "rows", "done"},
           n.pc # "done" => n.res = "none"
    PROVE  Tallied(p, n)
<1>1. calls[p] \in CallType
  BY DEF CallTypes
<1>2. Goes(p, n) /\ made' = made /\ db' = db /\ reruns' = reruns
  BY DEF Local
<1>3. \A f \in Counters : Counts(calls[p], n, f)
  BY <1>2 DEF Counts
<1>4. Publishes(calls[p], n)
  BY <1>1, <1>2, MadeFields DEF Publishes
<1> QED  BY <1>2, <1>3, <1>4 DEF Tallied

LEMMA CreateTally ==
    ASSUME StoreTypes, CallTypes, Fresh, NEW p \in Calls, CreateStep(p)
    PROVE  \E n : Tallied(p, n)
<1> DEFINE c0 == calls[p]
<1>1. CallOK(c0) /\ kind \in Kinds /\ db \in Keyspace /\ c0 \in CallType
  BY DEF CallTypes, CallOK, StoreTypes
<1>2. Active(c0) /\ Step(c0).input \in Templates /\ c0.pc = "step" /\ c0.res = "none"
  BY <1>1, StepTyped DEF CreateStep, Running, AtStep, Fresh
<1>3. PICK c \in WithGen(c0, Step(c0).input) :
         LET data == ResolveData(c, Step(c).input)
             op   == CreateOpOf(c, data)
             r    == StoreCreate(kind, db, op)
             new  == ~IdemHit(db, op) /\ ConflictsOf(data, NoId) = {}
         IN  \E o \in StoreOutcomes(r, new) :
                /\ Stored(p, o, c, IF o.res.code = "ok"
                                THEN [Recorded(c, o.res.rec) EXCEPT !.count.created = @ + 1]
                                ELSE Retry(c, Step(c).input, data, NoId, o.res.code))
                /\ made' = IF new THEN [made EXCEPT !.created = @ + 1] ELSE made
                /\ keyed' = IF new /\ c.key # NoKey
                            THEN [keyed EXCEPT ![c.key] = @ + 1] ELSE keyed
                /\ acked' = IF new THEN [acked EXCEPT ![r.res.rec.id] =
                                           IF o.res.code = "ok" THEN 1 ELSE 0] ELSE acked
  BY DEF CreateStep
<1> DEFINE data == ResolveData(c, Step(c).input)
           op   == CreateOpOf(c, data)
           r    == StoreCreate(kind, db, op)
           new  == ~IdemHit(db, op) /\ ConflictsOf(data, NoId) = {}
<1>4. PICK o \in StoreOutcomes(r, new) :
         /\ Stored(p, o, c, IF o.res.code = "ok"
                         THEN [Recorded(c, o.res.rec) EXCEPT !.count.created = @ + 1]
                         ELSE Retry(c, Step(c).input, data, NoId, o.res.code))
         /\ made' = IF new THEN [made EXCEPT !.created = @ + 1] ELSE made
  BY <1>3, Zenon
<1>5. /\ CallOK(c) /\ Active(c) /\ Step(c) = Step(c0) /\ c.key \in Keys \cup {NoKey}
      /\ c.prog \in DOMAIN Programs /\ c \in CallType
      /\ c.count = c0.count /\ c.pc = "step" /\ c.res = "none"
  <2>1. CallOK(c) /\ c.pc = c0.pc /\ c.frames = c0.frames /\ c.count = c0.count /\ c.res = c0.res
    BY <1>1, <1>2, WithGenOK, GenKeeps
  <2>2. Active(c) /\ Step(c) = Step(c0)
    BY <1>2, <2>1 DEF Active, Step, Frame
  <2>3. c.prog \in DOMAIN Programs
    BY <2>1, <2>2, StackTop
  <2> QED  BY <1>2, <2>1, <2>2, <2>3 DEF CallOK, CallType
<1>6. data \in Data
  BY <1>2, <1>5, ResolveDataType
<1>7. op \in CreateOps({Named}) /\ op.id = NoId /\ op.data = data
  BY <1>5, <1>6, ProgramAssumption DEF CreateOpOf, CreateOps
<1>8. r.res.code \in {"ok", "unique_constraint_violation"} /\ (new => r.res.code = "ok")
  <2>1. new <=> ~IdemHit(db, op) /\ ConflictsIn(kind, db, op.data, NoId) = {}
    BY <1>7 DEF ConflictsOf, ConflictsIn
  <2>2. IdInBound(kind, db)
    BY DEF CreateStep
  <2> HIDE DEF op
  <2> QED  BY <1>1, <1>7, <2>1, <2>2, StoreCreates
<1>9. kind # "memory" => r.db.evseq = db.evseq
  <2> HIDE DEF op
  <2> QED  BY <1>1, <1>7, CreateStream
<1> DEFINE g == Recorded(c, o.res.rec)
           n == IF o.res.code = "ok" THEN [g EXCEPT !.count.created = @ + 1]
                ELSE Retry(c, Step(c).input, data, NoId, o.res.code)
<1>10. /\ StoreIs(o) /\ made' = IF new THEN [made EXCEPT !.created = @ + 1] ELSE made
       /\ reruns' \in {reruns, reruns + 1}
       /\ o.res.code = "again" => Goes(p, c) /\ reruns' = reruns + 1
       /\ o.res.code # "again" => Goes(p, n)
  <2>1. Stored(p, o, c, n)
    BY <1>4
  <2> HIDE DEF n, new
  <2> QED  BY <1>4, <2>1, StoredStep DEF Steady
<1>11. /\ g.pc = "step" /\ g.count = c0.count /\ g.res = "none"
       /\ DOMAIN g.count = {"created", "updated", "deleted"}
  <2>1. DOMAIN c0.count = {"created", "updated", "deleted"}
    BY <1>1 DEF CallType
  <2> QED  BY <1>5, <2>1, RecordedKeeps
<1> HIDE DEF data, op, r
<1>12. ASSUME new
        PROVE  (kind # "memory" => db'.evseq = db.evseq) /\ o.res.code \in {"ok"} \cup Silent
  <2>1. new = TRUE
    BY <1>12, Zenon
  <2>2. o \in StoreOutcomes(r, TRUE)
    BY <2>1
  <2>3. db' = r.db /\ o.res.code \in {"ok"} \cup Silent
    BY <1>8, <1>10, <1>12, <2>2, ChangeOutcome
  <2> HIDE DEF new
  <2> QED  BY <1>9, <2>3
<1>13. ASSUME ~new
        PROVE  /\ kind # "memory" => db'.evseq = db.evseq
               /\ o.res.code \in {"ok", "unique_constraint_violation"}
  <2>1. new = FALSE
    BY <1>13, Zenon
  <2>2. o \in StoreOutcomes(r, FALSE) /\ FALSE \in BOOLEAN
    BY <2>1
  <2>3. o.db = r.db /\ o.res = r.res
    BY <2>2, Outcome
  <2> HIDE DEF new
  <2> QED  BY <1>8, <1>9, <1>10, <2>3 DEF StoreIs
<1> HIDE DEF g, new
<1>14. /\ kind # "memory" => db'.evseq = db.evseq
       /\ \/ o.res.code = "ok"
          \/ o.res.code \in Silent /\ new
          \/ o.res.code = "unique_constraint_violation" /\ ~new
  BY <1>12, <1>13
<1>15. /\ new => /\ made'["created"] = made["created"] + 1 /\ made'["updated"] = made["updated"]
                  /\ made'["deleted"] = made["deleted"] /\ made'.events = made.events
       /\ ~new => made' = made
  <2>1. made \in [created : Nat, updated : Nat, deleted : Nat, events : Nat]
    BY DEF StoreTypes
  <2> DEFINE k == made["created"] + 1
  <2>2. new => made' = [made EXCEPT !.created = k]
    BY <1>10
  <2>3. ~new => made' = made
    BY <1>10
  <2> HIDE DEF k
  <2> QED  BY <2>1, <2>2, <2>3, MadeMore DEF k
<1>16. kind # "memory" => /\ db'.evseq = db.evseq /\ db.evseq \in Nat /\ made'.events = made.events
  BY <1>1, <1>14, <1>15, MadeFields
<1>17. CASE o.res.code = "ok"
  <2> DEFINE k == c0.count["created"] + 1
             w == [c0.count EXCEPT !.created = k]
  <2>1. n.pc = "step" /\ n.res = "none" /\ n.count = w
    <3>1. n = [g EXCEPT !.count.created = @ + 1]
      BY <1>17
    <3> HIDE DEF n
    <3> QED  BY <1>11, <3>1
  <2> HIDE DEF n
  <2>2. w["created"] = k /\ w["updated"] = c0.count["updated"] /\ w["deleted"] = c0.count["deleted"]
    <3>1. c0.count \in [created : Nat, updated : Nat, deleted : Nat]
      BY <1>1 DEF CallType
    <3> HIDE DEF k
    <3> QED  BY <3>1, CountMore
  <2>3. \A f \in Counters : Counts(c0, n, f)
    <3> HIDE DEF w
    <3> QED  BY <1>15, <2>1, <2>2 DEF Counters, Counts
  <2>4. kind # "memory" => Publishes(c0, n)
    BY <1>16, <2>1 DEF Publishes
  <2>5. Tallied(p, n)
    BY <1>2, <1>10, <1>17, <2>1, <2>3, <2>4 DEF Tallied
  <2> QED  BY <2>5
<1>18. CASE o.res.code \notin {"ok", "again"}
  <2> DEFINE h == Retry(c, Step(c).input, data, NoId, o.res.code)
  <2>1. n = h
    BY <1>18
  <2>2. /\ h.count = c0.count
        /\ \/ h.pc = "done" /\ h.res = o.res.code
           \/ h.pc = "step" /\ h.res = "none" /\ o.res.code = "unique_constraint_violation"
    BY <1>5, RetryKeeps
  <2> HIDE DEF h, n
  <2>3. o.res.code \in Silent => h.res \in LostCodes
    BY <1>18, <2>2 DEF WriteFails, CommitUnknown, Silent, LostCodes
  <2>4. \A f \in Counters : Counts(c0, n, f)
    BY <1>14, <1>15, <1>18, <2>1, <2>2, <2>3 DEF Counters, Counts
  <2>5. kind # "memory" => Publishes(c0, n)
    BY <1>16, <2>1, <2>2 DEF Publishes
  <2>6. Tallied(p, n)
    BY <1>2, <1>10, <1>18, <2>1, <2>2, <2>4, <2>5 DEF Tallied
  <2> QED  BY <2>6
<1>19. CASE o.res.code = "again"
  <2>1. Goes(p, c) /\ reruns' = reruns + 1 /\ new
    BY <1>10, <1>14, <1>19
  <2>2. \A f \in Counters : Counts(c0, c, f)
    BY <1>5, <1>15, <2>1 DEF Counters, Counts
  <2>3. kind # "memory" => Publishes(c0, c)
    BY <1>5, <1>16 DEF Publishes
  <2>4. Tallied(p, c)
    BY <1>2, <1>5, <1>10, <2>1, <2>2, <2>3 DEF Tallied
  <2> QED  BY <2>4
<1> QED  BY <1>17, <1>18, <1>19

LEMMA DeleteTally ==
    ASSUME StoreTypes, CallTypes, Fresh, NEW p \in Calls, DeleteRow(p)
    PROVE  \E n : Tallied(p, n)
<1> DEFINE c  == calls[p]
           id == Head(c.todo).id
           r  == StoreDelete(kind, db, id)
           d  == IF r.res.deleted THEN 1 ELSE 0
<1>1. CallOK(c) /\ kind \in Kinds /\ db \in Keyspace /\ c.pc = "rows" /\ c.todo # << >> /\ c.res = "none"
  BY DEF CallTypes, CallOK, StoreTypes, DeleteRow, AtRow, Fresh
<1>2. id \in Ids /\ c \in CallType /\ Active(c)
  BY <1>1, RowHead
<1>3. r.res.code = "ok" /\ (kind # "memory" => r.db.evseq = db.evseq)
  <2> HIDE DEF id
  <2> QED  BY <1>1, <1>2, StoreDeletes, RowStream
<1>4. PICK o \in StoreOutcomes(r, TRUE) :
         Stored(p, o, c, IF o.res.code = "ok"
                      THEN [c EXCEPT !.todo = Tail(c.todo), !.count.deleted = DeletedCount(c, o.res)]
                      ELSE Failed(c, o.res.code))
  BY DEF DeleteRow
<1>5. made' = [made EXCEPT !.deleted = made.deleted + d]
  BY DEF DeleteRow
<1>6. /\ StoreIs(o)
      /\ reruns' \in {reruns, reruns + 1}
      /\ o.res.code = "again" => Goes(p, c) /\ reruns' = reruns + 1
      /\ o.res.code # "again" =>
            Goes(p, IF o.res.code = "ok"
                    THEN [c EXCEPT !.todo = Tail(c.todo), !.count.deleted = DeletedCount(c, o.res)]
                    ELSE Failed(c, o.res.code))
  BY <1>4, StoredStep DEF Steady
<1>7. d \in {0, 1}
  OBVIOUS
<1>8. o.res = r.res => DeletedCount(c, o.res) = c.count["deleted"] + d
  BY DEF DeletedCount
<1> HIDE DEF id, r, d
<1>9. /\ db' = r.db
      /\ o.res.code \in {"ok"} \cup Silent
      /\ o.res.code = "ok" => o.res = r.res
  BY <1>3, <1>6, ChangeOutcome
<1>10. /\ made'["created"] = made["created"] /\ made'["updated"] = made["updated"]
       /\ made'["deleted"] = made["deleted"] + d /\ made'.events = made.events
  <2> DEFINE k == made.deleted + d
  <2>1. made' = [made EXCEPT !.deleted = k]
    BY <1>5
  <2>2. k = made["deleted"] + d
    OBVIOUS
  <2> HIDE DEF k
  <2> QED  BY <2>1, <2>2, MadeMore DEF StoreTypes
<1>11. /\ \A f \in Counters : made[f] \in Nat /\ c.count[f] \in Nat
       /\ db.evseq \in Nat /\ made.events \in Nat
  BY <1>2, MadeFields
<1>12. CASE o.res.code = "ok"
  <2> DEFINE k == c.count["deleted"] + d
             w == [c.count EXCEPT !.deleted = k]
             t == Tail(c.todo)
             n == [c EXCEPT !.todo = t, !.count = w]
  <2>1. Goes(p, n)
    <3>1. Goes(p, [c EXCEPT !.todo = t, !.count.deleted = k])
      BY <1>6, <1>8, <1>9, <1>12
    <3> HIDE DEF k, t
    <3>2. [c EXCEPT !.todo = t, !.count.deleted = k] = n
      BY <1>2 DEF CallType
    <3> QED  BY <3>1, <3>2
  <2>2. w["created"] = c.count["created"] /\ w["updated"] = c.count["updated"] /\ w["deleted"] = k
    <3>1. c.count \in [created : Nat, updated : Nat, deleted : Nat]
      BY <1>2 DEF CallType
    <3> HIDE DEF k
    <3> QED  BY <3>1, CountMore
  <2> HIDE DEF w, t
  <2>3. n.pc = "rows" /\ n.res = "none" /\ n.count = w
    BY <1>1, <1>2 DEF CallType
  <2> HIDE DEF n
  <2>4. \A f \in Counters : Counts(c, n, f)
    BY <1>7, <1>10, <1>11, <2>2, <2>3 DEF Counters, Counts
  <2>5. kind # "memory" => Publishes(c, n)
    BY <1>3, <1>9, <1>10, <1>11, <2>3 DEF Publishes
  <2>6. Tallied(p, n)
    BY <1>2, <1>6, <2>1, <2>3, <2>4, <2>5 DEF Tallied
  <2> QED  BY <2>6
<1>13. CASE o.res.code \notin {"ok", "again"}
  <2> DEFINE n == Failed(c, o.res.code)
  <2>1. Goes(p, n) /\ n.pc = "done" /\ n.res = o.res.code /\ n.count = c.count
    BY <1>6, <1>13, FailedKeeps
  <2>0. o.res.code \in LostCodes
    BY <1>9, <1>13 DEF LostCodes, Silent
  <2> HIDE DEF n
  <2>2. \A f \in Counters : Counts(c, n, f)
    BY <1>7, <1>10, <1>11, <2>0, <2>1 DEF Counters, Counts
  <2>3. kind # "memory" => Publishes(c, n)
    BY <1>3, <1>9, <1>10, <1>11, <2>1 DEF Publishes
  <2>4. Tallied(p, n)
    BY <1>2, <1>6, <2>1, <2>2, <2>3 DEF Tallied
  <2> QED  BY <2>4
<1>14. CASE o.res.code = "again"
  <2>1. Goes(p, c) /\ reruns' = reruns + 1
    BY <1>6, <1>14
  <2>2. \A f \in Counters : Counts(c, c, f)
    BY <1>7, <1>10, <1>11, <2>1 DEF Counters, Counts
  <2>3. kind # "memory" => Publishes(c, c)
    BY <1>1, <1>3, <1>9, <1>10, <1>11 DEF Publishes
  <2>4. Tallied(p, c)
    BY <1>1, <1>2, <1>6, <2>1, <2>2, <2>3 DEF Tallied
  <2> QED  BY <2>4
<1> QED  BY <1>12, <1>13, <1>14

LEMMA UpdateTally ==
    ASSUME StoreTypes, CallTypes, NEW p \in Calls, NEW c, CallOK(c), c.pc = "rows",
           c.todo # << >>, c.res = "none", c.count = calls[p].count, calls[p].pc = "rows",
           NEW patch \in Data, NEW t, UpdateTo(p, c, patch, t)
    PROVE  \E n : Tallied(p, n)
<1> DEFINE id == Head(c.todo).id
           op == [id |-> id, patch |-> patch, named |-> Named]
           r  == StoreUpdate(kind, db, op)
           ok == r.res.code = "ok"
<1>1. kind \in Kinds /\ db \in Keyspace
  BY DEF StoreTypes
<1>2. id \in Ids /\ c \in CallType /\ Active(c) /\ Active(calls[p])
  BY RowHead DEF Active
<1>3. op \in UpdateOps({Named})
  BY <1>2 DEF UpdateOps
<1>4. /\ r.res.code \in {"ok", "record_not_found", "unique_constraint_violation"}
      /\ kind # "memory" => r.db.evseq = db.evseq
  <2> HIDE DEF op
  <2> QED  BY <1>1, <1>3, StoreUpdates, RowStream
<1>5. PICK o \in StoreOutcomes(r, ok) :
         Stored(p, o, c, IF o.res.code = "ok"
                      THEN [c EXCEPT !.todo = Tail(c.todo), !.tries = 0, !.count.updated = @ + 1]
                      ELSE Retry(c, t, Patched(db, op), id, o.res.code))
  BY DEF UpdateTo
<1>6. made' = IF ok THEN [made EXCEPT !.updated = made.updated + 1] ELSE made
  BY DEF UpdateTo
<1> DEFINE h == Retry(c, t, Patched(db, op), id, o.res.code)
<1>7. /\ StoreIs(o)
      /\ reruns' \in {reruns, reruns + 1}
      /\ o.res.code = "again" => Goes(p, c) /\ reruns' = reruns + 1
      /\ o.res.code # "again" =>
            Goes(p, IF o.res.code = "ok"
                    THEN [c EXCEPT !.todo = Tail(c.todo), !.tries = 0, !.count.updated = @ + 1]
                    ELSE h)
  BY <1>5, StoredStep DEF Steady
<1>8. /\ h.count = c.count
      /\ \/ h.pc = "done" /\ h.res = o.res.code
         \/ h.pc = "rows" /\ h.res = "none" /\ o.res.code = "unique_constraint_violation"
  BY <1>2, RetryKeeps
<1> HIDE DEF id, op, r, h
<1>9. ASSUME ok
      PROVE  (kind # "memory" => db'.evseq = db.evseq) /\ o.res.code \in {"ok"} \cup Silent
  <2>1. ok = TRUE
    BY <1>9, Zenon
  <2>2. o \in StoreOutcomes(r, TRUE)
    BY <2>1
  <2>3. db' = r.db /\ o.res.code \in {"ok"} \cup Silent
    BY <1>7, <1>9, <2>2, ChangeOutcome
  <2> QED  BY <1>4, <2>3
<1>10. ASSUME ~ok
       PROVE  /\ kind # "memory" => db'.evseq = db.evseq
              /\ o.res.code \in {"record_not_found", "unique_constraint_violation"}
  <2>1. ok = FALSE
    BY <1>10, Zenon
  <2>2. o \in StoreOutcomes(r, FALSE) /\ FALSE \in BOOLEAN
    BY <2>1
  <2>3. o.db = r.db /\ o.res = r.res
    BY <2>2, Outcome
  <2> QED  BY <1>4, <1>7, <1>10, <2>3 DEF StoreIs
<1> HIDE DEF ok
<1>11. /\ ok => /\ made'["created"] = made["created"] /\ made'["updated"] = made["updated"] + 1
                /\ made'["deleted"] = made["deleted"] /\ made'.events = made.events
       /\ ~ok => made' = made
  <2> DEFINE k == made.updated + 1
  <2>1. (ok => made' = [made EXCEPT !.updated = k]) /\ (~ok => made' = made)
    BY <1>6
  <2>2. k = made["updated"] + 1
    OBVIOUS
  <2> HIDE DEF k
  <2> QED  BY <2>1, <2>2, MadeMore DEF StoreTypes
<1>12. /\ \A f \in Counters : made[f] \in Nat /\ c.count[f] \in Nat
       /\ db.evseq \in Nat /\ made.events \in Nat
       /\ made'.events = made.events
       /\ kind # "memory" => db'.evseq = db.evseq
  BY <1>2, <1>9, <1>10, <1>11, MadeFields
<1>13. CASE o.res.code = "ok"
  <2> DEFINE k == c.count["updated"] + 1
             w == [c.count EXCEPT !.updated = k]
             l == Tail(c.todo)
             n == [c EXCEPT !.todo = l, !.tries = 0, !.count = w]
  <2>1. Goes(p, n)
    <3>1. Goes(p, [c EXCEPT !.todo = l, !.tries = 0, !.count.updated = k])
      BY <1>7, <1>13
    <3> HIDE DEF k, l
    <3>2. [c EXCEPT !.todo = l, !.tries = 0, !.count.updated = k] = n
      BY <1>2 DEF CallType
    <3> QED  BY <3>1, <3>2
  <2>2. w["created"] = c.count["created"] /\ w["updated"] = k /\ w["deleted"] = c.count["deleted"]
    <3>1. c.count \in [created : Nat, updated : Nat, deleted : Nat]
      BY <1>2 DEF CallType
    <3> HIDE DEF k
    <3> QED  BY <3>1, CountMore
  <2> HIDE DEF w, l
  <2>3. n.pc = "rows" /\ n.res = "none" /\ n.count = w
    BY <1>2 DEF CallType
  <2> HIDE DEF n
  <2>4. ok
    BY <1>10, <1>13
  <2>5. \A f \in Counters : Counts(calls[p], n, f)
    BY <1>11, <2>2, <2>3, <2>4 DEF Counters, Counts
  <2>6. kind # "memory" => Publishes(calls[p], n)
    BY <1>12, <2>3 DEF Publishes
  <2>7. Tallied(p, n)
    BY <1>2, <1>7, <2>1, <2>3, <2>5, <2>6 DEF Tallied
  <2> QED  BY <2>7
<1>14. CASE o.res.code \notin {"ok", "again"}
  <2>1. Goes(p, h)
    BY <1>7, <1>14
  <2>2. /\ ok => h.pc = "done" /\ h.res \in LostCodes
        /\ h.pc \in {"rows", "done"} /\ (h.pc # "done" => h.res = "none")
    BY <1>8, <1>9, <1>14 DEF WriteFails, CommitUnknown, LostCodes, Silent
  <2>3. \A f \in Counters : Counts(calls[p], h, f)
    BY <1>8, <1>11, <2>2 DEF Counters, Counts
  <2>4. kind # "memory" => Publishes(calls[p], h)
    BY <1>12, <2>2 DEF Publishes
  <2>5. Tallied(p, h)
    BY <1>2, <1>7, <2>1, <2>2, <2>3, <2>4 DEF Tallied
  <2> QED  BY <2>5
<1>15. CASE o.res.code = "again"
  <2>1. Goes(p, c) /\ reruns' = reruns + 1 /\ ok
    BY <1>7, <1>10, <1>15
  <2>2. \A f \in Counters : Counts(calls[p], c, f)
    BY <1>11, <2>1 DEF Counters, Counts
  <2>3. kind # "memory" => Publishes(calls[p], c)
    BY <1>12 DEF Publishes
  <2>4. Tallied(p, c)
    BY <1>2, <1>7, <2>1, <2>2, <2>3 DEF Tallied
  <2> QED  BY <2>4
<1> QED  BY <1>13, <1>14, <1>15

LEMMA RowTally ==
    ASSUME StoreTypes, CallTypes, Fresh, NEW p \in Calls, UpdateRow(p) \/ IncrementRow(p)
    PROVE  \E n : Tallied(p, n)
<1> DEFINE c0 == calls[p]
<1>1. /\ CallOK(c0) /\ c0.pc = "rows" /\ c0.todo # << >> /\ c0.res = "none" /\ Active(c0)
      /\ c0 \in CallType
  BY DEF CallTypes, CallOK, UpdateRow, IncrementRow, AtRow, Active, Fresh
<1>2. CASE UpdateRow(p)
  <2>1. PICK c \in WithGen(c0, Step(c0).set) : UpdateTo(p, c, ResolveData(c, Step(c).set), Step(c).set)
    BY <1>2 DEF UpdateRow
  <2>2. /\ CallOK(c) /\ c.pc = "rows" /\ c.todo # << >> /\ Active(c)
        /\ Step(c).op = "update_where" /\ c.res = "none" /\ c.count = c0.count
    <3>1. /\ CallOK(c) /\ c.pc = c0.pc /\ c.todo = c0.todo /\ c.frames = c0.frames
          /\ c.res = c0.res /\ c.count = c0.count
      BY <1>1, WithGenOK, GenKeeps
    <3> QED  BY <1>1, <1>2, <3>1 DEF Active, Step, Frame, UpdateRow, AtRow
  <2>3. Step(c).set \in Templates
    BY <2>2, StepTyped
  <2>4. ResolveData(c, Step(c).set) \in Data
    BY <2>2, <2>3, ResolveDataType
  <2> QED  BY <1>1, <2>1, <2>2, <2>4, UpdateTally
<1>3. CASE IncrementRow(p)
  <2> DEFINE x == Step(c0).field
             next == Incremented(Head(c0.todo).data[x])
             patch == [NoData EXCEPT ![x] = next]
  <2>1. next \in Values /\ UpdateTo(p, c0, patch, [y \in Indexes |-> [from |-> "none"]])
    BY <1>3 DEF IncrementRow
  <2>2. patch \in Data
    <3> HIDE DEF next, x
    <3> QED  BY <2>1 DEF NoData, Data
  <2> HIDE DEF patch, next
  <2> QED  BY <1>1, <2>1, <2>2, UpdateTally
<1> QED  BY <1>2, <1>3

LEMMA EmitTally ==
    ASSUME StoreTypes, CallTypes, Fresh, NEW p \in Calls, EmitStep(p)
    PROVE  \E n : Tallied(p, n)
<1> DEFINE c == calls[p]
<1>1. /\ CallOK(c) /\ c \in CallType /\ kind \in Kinds /\ db \in Keyspace /\ db.evseq < MaxSeq
      /\ c.pc = "step" /\ c.res = "none" /\ Active(c)
  BY DEF CallTypes, CallOK, StoreTypes, EmitStep, Running, AtStep, Fresh, Active
<1>2. PICK e \in Payloads :
         \E o \in StoreOutcomes(StoreAppendEvent(kind, db, e), TRUE) :
            Stored(p, o, c, IF o.res.code = "ok" THEN [c EXCEPT !.pc = "publish"]
                         ELSE Failed(c, o.res.code))
  BY DEF EmitStep
<1> DEFINE r == StoreAppendEvent(kind, db, e)
<1>3. PICK o \in StoreOutcomes(r, TRUE) :
         Stored(p, o, c, IF o.res.code = "ok" THEN [c EXCEPT !.pc = "publish"]
                      ELSE Failed(c, o.res.code))
  BY <1>2
<1>4. r.res.code = "ok" /\ (kind # "memory" => r.db.evseq = db.evseq + 1)
  BY <1>1, StoreAppends, RowStream
<1>5. /\ StoreIs(o)
      /\ reruns' \in {reruns, reruns + 1}
      /\ o.res.code = "again" => Goes(p, c)
      /\ o.res.code # "again" =>
            Goes(p, IF o.res.code = "ok" THEN [c EXCEPT !.pc = "publish"] ELSE Failed(c, o.res.code))
  BY <1>3, StoredStep DEF Steady
<1>6. made' = made
  BY DEF EmitStep
<1> HIDE DEF r
<1>7. db' = r.db
  BY <1>4, <1>5, ChangeOutcome
<1>8. \A n : n.count = c.count => \A f \in Counters : Counts(c, n, f)
  BY <1>6 DEF Counts
<1>9. db.evseq \in Nat
  BY <1>1, MadeFields
<1>10. \A n : kind # "memory" => Publishes(c, n)
  BY <1>1, <1>4, <1>6, <1>7, <1>9 DEF Publishes
<1>11. CASE o.res.code = "ok"
  <2> DEFINE n == [c EXCEPT !.pc = "publish"]
  <2>1. n.pc = "publish" /\ n.count = c.count /\ n.res = "none"
    BY <1>1 DEF CallType
  <2>2. Goes(p, n)
    BY <1>5, <1>11
  <2> HIDE DEF n
  <2>3. Tallied(p, n)
    BY <1>1, <1>5, <1>8, <1>10, <2>1, <2>2 DEF Tallied
  <2> QED  BY <2>3
<1>12. CASE o.res.code \notin {"ok", "again"}
  <2> DEFINE n == Failed(c, o.res.code)
  <2>1. n.pc = "done" /\ n.count = c.count
    BY FailedKeeps
  <2>2. Goes(p, n)
    BY <1>5, <1>12
  <2> HIDE DEF n
  <2>3. Tallied(p, n)
    BY <1>1, <1>5, <1>8, <1>10, <2>1, <2>2 DEF Tallied
  <2> QED  BY <2>3
<1>13. CASE o.res.code = "again"
  <2>1. Tallied(p, c)
    BY <1>1, <1>5, <1>8, <1>10, <1>13 DEF Tallied
  <2> QED  BY <2>1
<1> QED  BY <1>11, <1>12, <1>13

LEMMA ReadTally ==
    ASSUME StoreTypes, CallTypes, Fresh, NEW p \in Calls,
           Skip(p) \/ QueryStep(p) \/ RowsDone(p) \/ ReadStep(p)
    PROVE  \E n : Tallied(p, n)
<1> DEFINE c == calls[p]
<1>1. /\ CallOK(c) /\ c \in CallType /\ c.pc \in {"step", "rows"} /\ c.res = "none" /\ Active(c)
  BY DEF CallTypes, CallOK, Skip, QueryStep, RowsDone, ReadStep, Running, AtStep, Fresh, Active
<1>2. \A out : /\ Recorded(c, out).pc = "step" /\ Recorded(c, out).count = c.count
               /\ Recorded(c, out).res = "none"
  BY <1>1, RecordedKeeps
<1>3. ASSUME NEW n, Local(p, n), n.count = c.count, n.pc \in {"step", "rows", "done"},
             n.pc # "done" => n.res = "none"
      PROVE  \E m : Tallied(p, m)
  BY <1>1, <1>3, QuietTally
<1>4. CASE Skip(p) \/ RowsDone(p)
  <2>1. Local(p, Recorded(c, Object))
    BY <1>4 DEF Skip, RowsDone
  <2> QED  BY <1>2, <1>3, <2>1
<1>5. CASE QueryStep(p)
  <2> DEFINE rows == Query(kind, db, Step(c).where.x, Resolve(c, Step(c).where.src))
             g == [c EXCEPT !.pc = "rows", !.todo = rows]
  <2>1. Local(p, g)
    BY <1>5 DEF QueryStep
  <2> HIDE DEF rows
  <2>2. g.pc = "rows" /\ g.count = c.count /\ g.res = "none"
    BY <1>1 DEF CallType
  <2> HIDE DEF g
  <2> QED  BY <1>3, <2>1, <2>2
<1>6. CASE ReadStep(p)
  <2> DEFINE rows == Query(kind, db, Step(c).where.x, Resolve(c, Step(c).where.src))
             g == IF Step(c).op = "query" THEN Recorded(c, Object)
                    ELSE IF rows # << >> THEN Recorded(c, Head(rows))
                    ELSE IF Step(c).required THEN Failed(c, "command_record_not_found")
                    ELSE Recorded(c, NoRecord)
  <2>1. Local(p, g)
    BY <1>6 DEF ReadStep
  <2> HIDE DEF rows
  <2>2. g.count = c.count /\ g.pc \in {"step", "done"} /\ (g.pc # "done" => g.res = "none")
    BY <1>2, FailedKeeps
  <2> HIDE DEF g
  <2> QED  BY <1>3, <2>1, <2>2
<1> QED  BY <1>4, <1>5, <1>6

LEMMA PublishTally ==
    ASSUME StoreTypes, CallTypes, Fresh, NEW p \in Calls, PublishStep(p)
    PROVE  \E n : Tallied(p, n)
<1> DEFINE c == calls[p]
           n == Recorded(c, Object)
           k == made.events + 1
<1>1. c \in CallType /\ c.pc = "publish" /\ c.res = "none" /\ Active(c) /\ Goes(p, n) /\ db' = db
      /\ reruns' = reruns
  BY DEF CallTypes, PublishStep, Fresh, Active
<1>2. n.pc = "step" /\ n.count = c.count /\ n.res = "none"
  BY <1>1, RecordedKeeps
<1>3. made' = [made EXCEPT !.events = k]
  BY DEF PublishStep
<1> HIDE DEF n, k
<1>4. made'.events = k /\ \A f \in Counters : made'[f] = made[f]
  BY <1>3 DEF StoreTypes, Counters
<1>5. \A f \in Counters : Counts(c, n, f)
  BY <1>2, <1>4 DEF Counts
<1>6. Publishes(c, n)
  BY <1>1, <1>2, <1>4 DEF Publishes, k
<1>7. Tallied(p, n)
  BY <1>1, <1>2, <1>5, <1>6 DEF Tallied
<1> QED  BY <1>7

LEMMA LoopTally ==
    ASSUME StoreTypes, CallTypes, Fresh, NEW p \in Calls, ForeachStep(p) \/ EndSteps(p)
    PROVE  \E n : Tallied(p, n)
<1> DEFINE c == calls[p]
<1>1. c \in CallType /\ c.pc = "step" /\ c.res = "none" /\ Active(c)
  BY DEF CallTypes, ForeachStep, EndSteps, Running, AtStep, Fresh, Active
<1>2. ASSUME NEW n, Local(p, n), n.count = c.count, n.pc \in {"step", "done"},
             n.pc # "done" => n.res = "none"
      PROVE  \E m : Tallied(p, m)
  BY <1>1, <1>2, QuietTally
<1>3. ASSUME NEW d \in CallType, d.pc = "step", NEW steps, NEW m
      PROVE  /\ Iteration(d, steps, m).count = d.count /\ Iteration(d, steps, m).pc = "step"
             /\ Iteration(d, steps, m).res = d.res
  <2> DEFINE fr == Append(d.frames, [steps |-> steps, i |-> 1, n |-> m])
             sc == Append(d.scopes, NoNames)
             it == d.list[m]
  <2>1. Iteration(d, steps, m) = [d EXCEPT !.frames = fr, !.scopes = sc, !.item = it]
    BY <1>3 DEF Iteration, CallType
  <2> HIDE DEF fr, sc, it
  <2> QED  BY <1>3, <2>1 DEF CallType
<1>4. CASE ForeachStep(p)
  <2> DEFINE g == IF c.list = NoList THEN Failed(c, "command_items_invalid")
                  ELSE IF c.list = << >> THEN Recorded(c, Object)
                  ELSE Iteration(c, Step(c).steps, 1)
  <2>1. Local(p, g)
    BY <1>4 DEF ForeachStep
  <2>2. g.count = c.count /\ g.pc \in {"step", "done"} /\ (g.pc # "done" => g.res = "none")
    BY <1>1, <1>3, FailedKeeps, RecordedKeeps
  <2> HIDE DEF g
  <2> QED  BY <1>2, <2>1, <2>2
<1>5. CASE EndSteps(p)
  <2> DEFINE f == Frame(c)
             o == [c EXCEPT !.frames = Rest(c.frames), !.scopes = Rest(c.scopes), !.item = Null]
             g == IF f.n = 0 THEN Failed(c, "ok")
                  ELSE IF f.n < Len(c.list) THEN Iteration(o, f.steps, f.n + 1)
                  ELSE Recorded(o, Object)
  <2>1. Local(p, g)
    BY <1>5 DEF EndSteps
  <2>2. o.count = c.count /\ o.pc = "step" /\ o.res = "none"
    <3> DEFINE fr == Rest(c.frames)
               sc == Rest(c.scopes)
    <3> HIDE DEF fr, sc
    <3> QED  BY <1>1 DEF CallType
  <2>3. f.n # 0 => o \in CallType
    <3>1. CallOK(c)
      BY DEF CallTypes, CallOK
    <3>2. f.n # 0 => CallOK(o)
      BY <1>1, <3>1, PoppedOK
    <3> QED  BY <3>2 DEF CallOK
  <2> HIDE DEF o, f
  <2>4. g.count = c.count /\ g.pc \in {"step", "done"} /\ (g.pc # "done" => g.res = "none")
    BY <1>3, <2>2, <2>3, FailedKeeps, RecordedKeeps
  <2> HIDE DEF g
  <2> QED  BY <1>2, <2>1, <2>4
<1> QED  BY <1>4, <1>5

LEMMA FailsTally ==
    ASSUME StoreTypes, CallTypes, Fresh, NEW p \in Calls, StoreFails(p)
    PROVE  \E n : Tallied(p, n)
<1> DEFINE c == calls[p]
<1>1. Active(c) /\ c.pc # "publish"
  BY DEF StoreFails, Running, AtStep, Active
<1>2. PICK code : Local(p, Failed(c, code))
  BY DEF StoreFails
<1> DEFINE n == Failed(c, code)
<1>3. n.count = c.count /\ n.pc = "done"
  BY FailedKeeps
<1> HIDE DEF n
<1>4. Local(p, n)
  BY <1>2 DEF n
<1> QED  BY <1>1, <1>3, <1>4, QuietTally

LEMMA RunTally ==
    ASSUME StoreTypes, CallTypes, Fresh, NEW p \in Calls, Run(p)
    PROVE  \E n : Tallied(p, n)
BY CreateTally, DeleteTally, RowTally, EmitTally, ReadTally, PublishTally, LoopTally,
   FailsTally DEF Run

-----------------------------------------------------------------------------
LEMMA TallyInit == Init => Fresh /\ TallyInv
<1> SUFFICES ASSUME Init PROVE Fresh /\ TallyInv
  OBVIOUS
<1>1. \A q \in Calls : calls[q].pc = "idle" /\ calls[q].count = NoCount /\ calls[q].res = "none"
  BY DEF Init, Idle
<1>2. Fresh
  BY <1>1 DEF Fresh
<1>3. \A f \in Counters : Pairs(calls, f) = {}
  <2>1. \A f \in Counters : NoCount[f] = 0
    BY DEF Counters, NoCount
  <2>2. \A f \in Counters : \A q \in Calls : 1 .. calls[q].count[f] = {}
    BY <1>1, <2>1
  <2> QED  BY <2>2 DEF Pairs
<1>4. Failing(calls) = {} /\ Publishing(calls) = {}
  BY <1>1 DEF Failing, Publishing, LostCodes, WriteFails, CommitUnknown
<1>5. made.created = 0 /\ made["updated"] = 0 /\ made["deleted"] = 0 /\ made.events = 0
      /\ reruns = 0
  BY DEF Init
<1>6. db.evseq \in Nat
  BY InitInv, BoundsAssumption DEF CommandInv, StoreTypes, Keyspace
<1>7. Cardinality({}) = 0
  BY FS_EmptySet
<1>8. \A f \in Counters : Cardinality(Pairs(calls, f)) = 0
  BY <1>3, <1>7, Zenon
<1>9. Cardinality(Failing(calls)) = 0 /\ Cardinality(Publishing(calls)) = 0
  BY <1>4, <1>7, Zenon
<1>10. "created" \in Counters /\ "updated" \in Counters /\ "deleted" \in Counters
  BY DEF Counters
<1> QED  BY <1>2, <1>5, <1>6, <1>8, <1>9, <1>10 DEF TallyInv

(* A step that changes no counter and begins no publication.                *)
LEMMA TallyStill ==
    ASSUME Fresh', TallyInv, CommandInv,
           kind' = kind, made' = made, reruns' = reruns, kind # "memory" => db'.evseq = db.evseq,
           \A q \in Calls : /\ calls'[q].count = calls[q].count
                            /\ calls[q].res \in LostCodes => calls'[q].res \in LostCodes
                            /\ calls'[q].pc = "publish" => calls[q].pc = "publish"
    PROVE  TallyInv'
<1>1. \A f \in Counters : Pairs(calls', f) = Pairs(calls, f)
  BY DEF Pairs
<1>2. /\ Cardinality(Failing(calls)) <= Cardinality(Failing(calls'))
      /\ Cardinality(Failing(calls')) \in Nat /\ Cardinality(Failing(calls)) \in Nat
  <2>1. Failing(calls) \subseteq Failing(calls') /\ Failing(calls') \subseteq Calls
    BY DEF Failing
  <2>2. IsFiniteSet(Failing(calls')) /\ Cardinality(Failing(calls')) \in Nat
    BY <2>1, CallsFinite
  <2>3. Failing(calls) \subseteq Calls
    BY DEF Failing
  <2> QED  BY <2>1, <2>2, <2>3, FS_Subset, CallsFinite
<1>3. /\ Cardinality(Publishing(calls')) <= Cardinality(Publishing(calls))
      /\ Cardinality(Publishing(calls')) \in Nat /\ Cardinality(Publishing(calls)) \in Nat
  <2>1. Publishing(calls') \subseteq Publishing(calls) /\ Publishing(calls) \subseteq Calls
    BY DEF Publishing
  <2>2. IsFiniteSet(Publishing(calls)) /\ Cardinality(Publishing(calls)) \in Nat
    BY <2>1, CallsFinite
  <2>3. Publishing(calls') \subseteq Calls
    BY DEF Publishing
  <2> QED  BY <2>1, <2>2, <2>3, FS_Subset, CallsFinite
<1>4. made.events \in Nat /\ db.evseq \in Nat /\ reruns \in Nat /\ CallTypes
  BY BoundsAssumption DEF CommandInv, StoreTypes, Keyspace
<1>5. \A f \in Counters : Cardinality(Pairs(calls, f)) \in Nat /\ made[f] \in Nat
  <2>1. calls \in [Calls -> CallType]
    BY <1>4 DEF CallTypes
  <2>2. made \in [created : Nat, updated : Nat, deleted : Nat, events : Nat]
    BY DEF CommandInv, StoreTypes
  <2> QED  BY <2>1, <2>2, PairsFinite DEF Counters
<1> QED  BY <1>1, <1>2, <1>3, <1>4, <1>5 DEF TallyInv, Counters

LEMMA TallyNext ==
    ASSUME CommandInv, Fresh, TallyInv, [Next]_vars, CommandInv'
    PROVE  Fresh' /\ TallyInv'
<1>0. StoreTypes /\ CallTypes /\ StoreTypes' /\ CallTypes' /\ Opened
  BY DEF CommandInv
<1>1. CASE Open
  <2>1. kind' = kind /\ calls' = calls /\ made' = made /\ reruns' = reruns /\ kind = "memory"
    BY <1>0, <1>1 DEF Open, Opened
  <2>2. Fresh'
    BY <2>1 DEF Fresh
  <2> QED  BY <2>1, <2>2, TallyStill
<1>2. CASE Crash
  <2>1. /\ kind' = kind /\ made' = made /\ reruns' = reruns /\ (kind # "memory" => db' = db)
        /\ \A q \in Calls : calls'[q] = IF calls[q].pc \in {"idle", "done"} THEN calls[q]
                                          ELSE Failed(calls[q], "lost")
    BY <1>2 DEF Crash
  <2>2. \A q \in Calls : Failed(calls[q], "lost").pc = "done" /\ Failed(calls[q], "lost").res = "lost"
                         /\ Failed(calls[q], "lost").count = calls[q].count
    BY FailedKeeps
  <2>3. Fresh'
    BY <2>1, <2>2 DEF Fresh
  <2>5. \A q \in Calls : /\ calls'[q].count = calls[q].count
                         /\ calls[q].res \in LostCodes => calls'[q].res \in LostCodes
                         /\ calls'[q].pc = "publish" => calls[q].pc = "publish"
    BY <2>1, <2>2 DEF LostCodes
  <2> QED  BY <2>1, <2>3, <2>5, TallyStill
<1>3. ASSUME NEW p \in Calls, NEW prog \in DOMAIN Programs, NEW key \in Keys \cup {NoKey},
             NEW list \in Items, Begin(p, prog, key, list)
      PROVE  Fresh' /\ TallyInv'
  <2> DEFINE c == [Idle EXCEPT !.prog = prog, !.key = key]
             sc == <<NoNames>>
             fr == <<[steps |-> Programs[prog].steps, i |-> 1, n |-> 0]>>
             g == [c EXCEPT !.pc = "step", !.list = list, !.scopes = sc, !.frames = fr]
             n == IF Programs[prog].required /\ key = NoKey
                  THEN Failed(c, "idempotency_key_required") ELSE g
  <2>1. Goes(p, n) /\ calls[p].pc = "idle" /\ kind' = kind /\ made' = made /\ db' = db
        /\ reruns' = reruns
    BY <1>3 DEF Begin
  <2>2. c.count = NoCount
    BY DEF Idle
  <2>3. g.count = NoCount /\ g.pc = "step" /\ g.res = "none"
    <3> HIDE DEF sc, fr
    <3> QED  BY DEF Idle
  <2> HIDE DEF c, g
  <2>4. /\ n.count = NoCount /\ n.pc \in {"step", "done"} /\ n.res \in {"none", "idempotency_key_required"}
        /\ n.pc # "done" => n.res = "none"
    BY <2>2, <2>3, FailedKeeps
  <2> HIDE DEF n
  <2>5. \A q \in Calls : calls'[q] = IF q = p THEN n ELSE calls[q]
    BY <1>0, <2>1 DEF Goes, CallTypes
  <2>6. calls[p].count = NoCount /\ calls[p].res = "none"
    BY <2>1 DEF Fresh
  <2>7. Fresh'
    BY <2>4, <2>5 DEF Fresh
  <2>8. \A q \in Calls : /\ calls'[q].count = calls[q].count
                         /\ calls[q].res \in LostCodes => calls'[q].res \in LostCodes
                         /\ calls'[q].pc = "publish" => calls[q].pc = "publish"
    BY <2>4, <2>5, <2>6 DEF LostCodes, WriteFails, CommitUnknown
  <2> QED  BY <2>1, <2>7, <2>8, TallyStill
<1>4. ASSUME NEW p \in Calls, Run(p)
      PROVE  Fresh' /\ TallyInv'
  <2>1. PICK n : Tallied(p, n)
    BY <1>0, <1>4, RunTally
  <2>2. kind' = kind
    BY <1>0, <1>4, RunEffect DEF Steady
  <2> QED  BY <1>0, <2>1, <2>2, TallyKept
<1>5. CASE UNCHANGED vars
  <2>1. calls' = calls /\ kind' = kind /\ made' = made /\ db' = db /\ reruns' = reruns
    BY <1>5 DEF vars
  <2>2. Fresh'
    BY <2>1 DEF Fresh
  <2> QED  BY <2>1, <2>2, TallyStill
<1> QED  BY <1>1, <1>2, <1>3, <1>4, <1>5 DEF Next

-----------------------------------------------------------------------------
(* runtime.rs: whatever the commands do, the store stays well-formed and    *)
(* every call is at a step of a list it was given, with one scope of names  *)
(* for each list it is in.                                                  *)
THEOREM TypeCorrect == Spec => [](StoreTypes /\ CallTypes)
<1>1. CommandInv => StoreTypes /\ CallTypes
  BY DEF CommandInv
<1> QED  BY <1>1, Invariant, PTL

(* runtime.rs over kv.rs, foundationdb_real.rs and memory.rs: no race of    *)
(* commands, retries with generated values, deaths and restarts gives two   *)
(* records one unique value, up to the indexes that memory.rs does not look *)
(* at.                                                                      *)
THEOREM UniqueSafe == Spec => []UniqueCodes
<1>1. CommandInv => UniqueCodes
  <2> SUFFICES ASSUME CommandInv, NEW i \in LiveIds(db), NEW j \in LiveIds(db), NEW x \in Named,
                      i # j, db.ents[i].data[x] = db.ents[j].data[x], db.ents[i].data[x] # Absent
               PROVE  /\ kind = "memory"
                      /\ \E y \in Named : y < x /\ Absent \in {db.ents[i].data[y], db.ents[j].data[y]}
    BY DEF UniqueCodes
  <2>1. UniqueIn(kind, db)
    BY DEF CommandInv, UniqueInv
  <2>2. kind = "memory"
    <3>1. CASE kind # "memory"
      BY <2>1, <3>1 DEF UniqueIn, Covered
    <3> QED  BY <3>1
  <2> QED  BY <2>1, <2>2 DEF UniqueIn, Apart
<1> QED  BY <1>1, Invariant, PTL

(* runtime.rs: a key inserts at most one record, repeated by callers or     *)
(* shared by the creates of one command, across deaths of the process.      *)
THEOREM KeyedSafe == Spec => []KeyedOnce
<1>1. CommandInv => KeyedOnce
  BY DEF CommandInv, KeyInv, KeyedOnce
<1> QED  BY <1>1, Invariant, PTL

(* memory.rs: a snapshot file that can be read holds every change a caller  *)
(* was told of.                                                             *)
THEOREM DurableSafe == Spec => []AckedDurable
<1>1. CommandInv => AckedDurable
  BY DEF CommandInv, AckInv, AckedDurable
<1> QED  BY <1>1, Invariant, PTL

(* next_auto_id and the counted ids: when no caller chooses ids, a step     *)
(* never replaces a record by another, in the stores that count records as  *)
(* long as nothing was deleted and, in FoundationDB, the records fit in the *)
(* batch that is counted (count_entities does not ask for a second one).    *)
THEOREM SurviveSafe ==
    ASSUME AutoIds
    PROVE  Spec => RecordsSurvive
<1>1. CommandInv /\ [Next]_vars => Survives
  BY StepInv
<1>2. Spec => [][Survives]_vars
  BY <1>1, Invariant, PTL DEF Spec
<1> QED  BY <1>2 DEF RecordsSurvive, Survives

(* runtime.rs, affected_ids and the counts of every step: what the commands *)
(* count is what the store did, but for the last change of each call that   *)
(* ended unheard (a snapshot write that failed, a commit left unknown, a    *)
(* death) and for what FoundationDB ran again.                              *)
THEOREM CountsSafe == Spec => []Accounted
<1>1. Init => CommandInv /\ Fresh /\ TallyInv
  BY InitInv, TallyInit
<1>2. CommandInv /\ Fresh /\ TallyInv /\ [Next]_vars => (CommandInv /\ Fresh /\ TallyInv)'
  BY StepInv, TallyNext
<1>3. CommandInv /\ Fresh /\ TallyInv => Accounted
  <2> SUFFICES ASSUME CommandInv, TallyInv PROVE Accounted
    OBVIOUS
  <2>1. \A f \in Counters : Total(f) = Cardinality(Pairs(calls, f))
    BY DEF Total, Counted, Pairs
  <2>2. Unheard = Cardinality(Failing(calls))
    BY DEF Unheard, Failing, LostCodes
  <2>3. made.events \in Nat /\ db.evseq \in Nat
    BY BoundsAssumption DEF CommandInv, StoreTypes, Keyspace
  <2>4. Cardinality(Publishing(calls)) \in Nat
    BY CallsFinite DEF Publishing
  <2>5. kind # "memory" => made.events <= db.evseq
    BY <2>3, <2>4 DEF TallyInv
  <2> QED  BY <2>1, <2>2, <2>5 DEF TallyInv, Accounted, Counters
<1> QED  BY <1>1, <1>2, <1>3, PTL DEF Spec

=============================================================================
