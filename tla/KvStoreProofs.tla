--------------------------- MODULE KvStoreProofs ---------------------------
(***************************************************************************)
(* What KvStore keeps for every number of ids, indexes, values and keys.   *)
(***************************************************************************)
EXTENDS KvStore, KvOpsProofs

(* Every operation leaves a well-formed keyspace: in particular the auto-id *)
(* search always finds an id, and a patched record keeps every field.       *)
THEOREM TypeCorrect == Spec => []TypeOK
<1>1. Init => TypeOK
  BY EmptyType DEF Init, TypeOK
<1>2. TypeOK /\ [Next]_vars => TypeOK'
  <2> SUFFICES ASSUME TypeOK, [Next]_vars PROVE TypeOK'
    OBVIOUS
  <2> USE DEF TypeOK
  <2>1. CASE CreateStep
    <3>1. PICK op \in CreateOps(NamedSets) :
             /\ CreateAllowed(db, op)
             /\ db' = Committed(Create(db, op))
             /\ IF op.id = NoId /\ CreateInserts(db, op)
                THEN issued' = issued \cup {NextAutoId(db)} /\ autos' = autos + 1
                ELSE UNCHANGED <<issued, autos>>
      BY <2>1 DEF CreateStep
    <3>2. db' \in Keyspace
      BY <3>1, CreateType DEF CreateAllowed, Committed
    <3>3. op.id = NoId => NextAutoId(db) \in Ids
      BY <3>1, AutoId DEF CreateAllowed
    <3> QED  BY <3>1, <3>2, <3>3
  <2>2. CASE UpdateStep
    BY <2>2, UpdateType DEF UpdateStep, Committed
  <2>3. CASE DeleteStep
    BY <2>3, DeleteType DEF DeleteStep, Committed
  <2>4. CASE AppendEventStep
    BY <2>4, AppendEventType DEF AppendEventStep, Committed
  <2>5. CASE StoreEvidenceStep
    BY <2>5, StoreEvidenceType DEF StoreEvidenceStep, Committed
  <2>6. CASE RecordMigrationStep
    BY <2>6, RecordMigrationType DEF RecordMigrationStep, Committed
  <2>7. CASE UNCHANGED vars
    BY <2>7 DEF vars
  <2> QED  BY <2>1, <2>2, <2>3, <2>4, <2>5, <2>6, <2>7 DEF Next
<1> QED  BY <1>1, <1>2, PTL DEF Spec

-----------------------------------------------------------------------------
(* The uniqueness argument.  While every caller names every index, each     *)
(* write keeps IndexCovers: the record just written owns the entries of its *)
(* values, and had another live record held one of them its entry would     *)
(* have been a conflict.                                                    *)
LEMMA CreateCovers ==
    ASSUME NEW d \in Keyspace, NEW op \in CreateOps(NamedSets),
           CreateAllowed(d, op), op.named = Indexes, IndexCoversIn(d)
    PROVE  IndexCoversIn(Create(d, op).db)
<1> DEFINE id == CreateId(d, op)
           w  == CreateWrites(d, op, id)
<1>1. id \in Ids
  BY CreateSeqType DEF CreateAllowed
<1>2. /\ w.ents = [d.ents EXCEPT ![id] = [ver |-> 1, data |-> op.data]]
      /\ w.uniq = WriteUnique(d.uniq, op.named, op.data, id)
  BY <1>1, InsertFields
<1>3. ASSUME Conflicts(d, op.named, op.data, NoId) = {} PROVE IndexCoversIn(w)
  <2> HIDE DEF id, w
  <2> SUFFICES ASSUME NEW x \in Indexes, NEW i \in LiveIds(w), w.ents[i].data[x] # Absent
               PROVE  w.uniq[x][w.ents[i].data[x]] = i
    BY DEF IndexCoversIn
  <2>1. i \in Ids /\ w.ents[i].data[x] \in Values
    BY <1>1, <1>2 DEF LiveIds, Keyspace, Row, Data, CreateOps
  <2>2. CASE i = id
    BY <1>2, <2>1, <2>2 DEF WriteUnique, Keyspace
  <2>3. CASE i # id
    <3>1. w.ents[i] = d.ents[i] /\ i \in LiveIds(d)
      BY <1>2, <2>1, <2>3 DEF LiveIds, Live, Keyspace
    <3>2. d.uniq[x][d.ents[i].data[x]] = i
      BY <3>1 DEF IndexCoversIn
    <3>3. op.data[x] # d.ents[i].data[x]
      BY <1>3, <2>1, <3>1, <3>2 DEF Conflicts, Ids, NoId, LiveIds
    <3> QED  BY <1>2, <2>1, <3>1, <3>2, <3>3 DEF WriteUnique
  <2> QED  BY <2>2, <2>3
<1>4. IndexCoversIn([d EXCEPT !.schema = TRUE])
  BY DEF IndexCoversIn, LiveIds, Live, Keyspace
<1>5. IndexCoversIn([d EXCEPT !.schema = TRUE, !.idseq = CreateSeq(d, op)])
  BY DEF IndexCoversIn, LiveIds, Live, Keyspace
<1> QED  BY <1>3, <1>4, <1>5 DEF Create

LEMMA UpdateCovers ==
    ASSUME NEW d \in Keyspace, NEW op \in UpdateOps(NamedSets),
           op.named = Indexes, IndexCoversIn(d)
    PROVE  IndexCoversIn(Update(d, op).db)
<1> DEFINE new == Patched(d, op)
           ver == d.ents[op.id].ver + 1
           rel == ReleaseUnique(d.uniq, op.named, d.ents[op.id].data, new, op.id)
           w   == Update(d, op).db
<1>1. op.id \in Ids /\ new \in Data /\ ver \in Nat
  BY DEF UpdateOps, Keyspace, Patched, Data, Row
<1>2. ASSUME Live(d, op.id), Conflicts(d, op.named, new, op.id) = {}
      PROVE  IndexCoversIn(w)
  <2>1. /\ w.ents = [d.ents EXCEPT ![op.id] = [ver |-> ver, data |-> new]]
        /\ w.uniq = WriteUnique(rel, op.named, new, op.id)
    BY <1>2 DEF Update, Keyspace
  <2> HIDE DEF new, ver, w
  <2> SUFFICES ASSUME NEW x \in Indexes, NEW i \in LiveIds(w), w.ents[i].data[x] # Absent
               PROVE  w.uniq[x][w.ents[i].data[x]] = i
    BY DEF IndexCoversIn
  <2>2. i \in Ids /\ w.ents[i].data[x] \in Values
    BY <1>1, <2>1 DEF LiveIds, Keyspace, Row, Data
  <2>3. CASE i = op.id
    BY <2>1, <2>2, <2>3, SMTT(60) DEF WriteUnique, Keyspace
  <2>4. CASE i # op.id
    <3>1. w.ents[i] = d.ents[i] /\ i \in LiveIds(d)
      BY <2>1, <2>2, <2>4 DEF LiveIds, Live, Keyspace
    <3>2. d.uniq[x][d.ents[i].data[x]] = i
      BY <3>1 DEF IndexCoversIn
    <3>3. new[x] # d.ents[i].data[x]
      BY <1>2, <2>2, <2>4, <3>1, <3>2 DEF Conflicts, Ids, NoId, LiveIds
    <3>4. rel[x][d.ents[i].data[x]] = i
      BY <2>2, <2>4, <3>1, <3>2 DEF ReleaseUnique
    <3> QED  BY <2>1, <2>2, <3>1, <3>3, <3>4, SMTT(60) DEF WriteUnique
  <2> QED  BY <2>3, <2>4
<1> QED  BY <1>2 DEF Update

LEMMA DeleteCovers ==
    ASSUME NEW d \in Keyspace, NEW k \in Ids, IndexCoversIn(d)
    PROVE  IndexCoversIn(Delete(d, k).db)
<1> DEFINE w == Delete(d, k).db
<1>1. ASSUME Live(d, k) PROVE IndexCoversIn(w)
  <2>1. /\ w.ents = [d.ents EXCEPT ![k] = NoRow]
        /\ w.uniq = ClearUnique(d.uniq, k)
    BY <1>1 DEF Delete, Keyspace
  <2> HIDE DEF w
  <2> SUFFICES ASSUME NEW x \in Indexes, NEW i \in LiveIds(w), w.ents[i].data[x] # Absent
               PROVE  w.uniq[x][w.ents[i].data[x]] = i
    BY DEF IndexCoversIn
  <2>2. i \in Ids /\ i # k
    BY <2>1 DEF LiveIds, Live, NoRow, Keyspace
  <2>3. w.ents[i] = d.ents[i] /\ i \in LiveIds(d)
    BY <2>1, <2>2 DEF LiveIds, Live, Keyspace
  <2>4. d.ents[i].data[x] \in Values
    BY <2>2, <2>3 DEF Keyspace, Row, Data
  <2> QED  BY <2>1, <2>2, <2>3, <2>4 DEF ClearUnique, IndexCoversIn
<1> QED  BY <1>1 DEF Delete

LEMMA CoversUnique ==
    ASSUME NEW d \in Keyspace, IndexCoversIn(d)
    PROVE  UniqueHeldIn(d)
BY DEF IndexCoversIn, UniqueHeldIn

(* kv.rs: when every create and update names the unique indexes, the entry  *)
(* of every value that a live record holds names that record.               *)
THEOREM CoversSafe ==
    ASSUME NamedSets = {Indexes}
    PROVE  Spec => []IndexCovers
<1> DEFINE IInv == TypeOK /\ IndexCovers
<1>1. Init => IInv
  <2> SUFFICES ASSUME Init PROVE IInv
    OBVIOUS
  <2>1. TypeOK
    BY EmptyType DEF Init, TypeOK
  <2>2. LiveIds(EmptyKeyspace) = {}
    BY DEF LiveIds, Live, EmptyKeyspace, NoRow
  <2> QED  BY <2>1, <2>2 DEF Init, IndexCovers, IndexCoversIn
<1>2. IInv /\ TypeOK' /\ [Next]_vars => IInv'
  <2> SUFFICES ASSUME TypeOK, IndexCoversIn(db), [Next]_vars PROVE IndexCoversIn(db)'
    BY DEF IndexCovers
  <2> USE DEF TypeOK
  <2>1. CASE CreateStep
    BY <2>1, CreateCovers DEF CreateStep, Committed, CreateOps
  <2>2. CASE UpdateStep
    BY <2>2, UpdateCovers DEF UpdateStep, Committed, UpdateOps
  <2>3. CASE DeleteStep
    BY <2>3, DeleteCovers DEF DeleteStep, Committed
  <2>4. CASE AppendEventStep \/ StoreEvidenceStep \/ RecordMigrationStep
    <3>1. db'.ents = db.ents /\ db'.uniq = db.uniq
      BY <2>4 DEF AppendEventStep, StoreEvidenceStep, RecordMigrationStep, Committed,
                  AppendEvent, StoreEvidence, RecordMigration, Keyspace
    <3> QED  BY <3>1 DEF IndexCoversIn, LiveIds, Live
  <2>5. CASE UNCHANGED vars
    BY <2>5 DEF vars, IndexCoversIn, LiveIds, Live
  <2> QED  BY <2>1, <2>2, <2>3, <2>4, <2>5 DEF Next
<1> QED  BY <1>1, <1>2, TypeCorrect, PTL DEF Spec

(* kv.rs: when every create and update names the collection's unique        *)
(* indexes (as the runtime's endpoints and commands do), no two live        *)
(* records ever share an indexed value, even where creates replace records. *)
THEOREM UniqueSafe ==
    ASSUME NamedSets = {Indexes}
    PROVE  Spec => []UniqueHeld
<1>1. TypeOK /\ IndexCovers => UniqueHeld
  BY CoversUnique DEF TypeOK, IndexCovers, UniqueHeld
<1> QED  BY <1>1, TypeCorrect, CoversSafe, PTL

-----------------------------------------------------------------------------
(* A value that clears the conflict lookup is held by no other record,      *)
(* because every held value has its entry.                                  *)
LEMMA NoConflictFree ==
    ASSUME NEW d \in Keyspace, IndexCoversIn(d), NEW data \in Data,
           NEW self \in Ids \cup {NoId}, Conflicts(d, Indexes, data, self) = {}
    PROVE  \A x \in Indexes : \A j \in Ids :
               j # self /\ Live(d, j) /\ data[x] # Absent
                   => d.ents[j].data[x] # data[x]
<1> SUFFICES ASSUME NEW x \in Indexes, NEW j \in Ids, j # self, Live(d, j),
                    data[x] # Absent, d.ents[j].data[x] = data[x]
             PROVE  FALSE
  OBVIOUS
<1>1. d.uniq[x][data[x]] = j
  BY DEF IndexCoversIn, LiveIds
<1>2. j # NoId
  BY BoundsAssumption DEF Ids, NoId
<1> QED  BY <1>1, <1>2 DEF Conflicts

(* An operation on the keyspace is one step of RecordStore, or changes none *)
(* of what RecordStore sees.                                                *)
LEMMA CreateImplements ==
    ASSUME TypeOK, NamedSets = {Indexes}, IndexCovers, CreateStep
    PROVE  [RS!Next]_(RS!vars)
<1>1. PICK op \in CreateOps(NamedSets) :
         CreateAllowed(db, op) /\ db' = Committed(Create(db, op))
  BY DEF CreateStep
<1> DEFINE id == CreateId(db, op)
           w  == CreateWrites(db, op, id)
<1>2. /\ db \in Keyspace /\ id \in Ids /\ op.named = Indexes /\ op.data \in Data
      /\ op.key \in Keys \cup {NoKey}
  BY <1>1, CreateSeqType DEF CreateAllowed, TypeOK, CreateOps
<1>3. CASE ~CreateInserts(db, op)
  <2>1. /\ db'.ents = db.ents /\ db'.idem = db.idem /\ db'.events = db.events
        /\ db'.evseq = db.evseq /\ db'.evid = db.evid /\ db'.ledger = db.ledger
    BY <1>1, <1>2, <1>3 DEF CreateInserts, Create, Committed, Keyspace
  <2> QED  BY <2>1 DEF RS!vars, EventLog
<1>4. CASE CreateInserts(db, op)
  <2>1. db' = w
    BY <1>1, <1>4 DEF CreateInserts, Create, Committed, Ok
  <2>2. /\ w.ents = [db.ents EXCEPT ![id] = [ver |-> 1, data |-> op.data]]
        /\ w.events = db.events /\ w.evseq = db.evseq
        /\ w.evid = db.evid /\ w.ledger = db.ledger
        /\ w.idem = [k \in Keys |-> IF k = op.key
                                    THEN [id |-> id, ver |-> 1, data |-> op.data]
                                    ELSE db.idem[k]]
    BY <1>2 DEF CreateWrites, Keyspace
  <2> HIDE DEF w, id
  <2>3. Live(db, id) => AllowReplace
    <3>1. CASE op.id = NoId
      BY <1>1, <1>2, <3>1, AutoId DEF CreateAllowed, CreateId, id
    <3>2. CASE op.id # NoId
      BY <1>1, <1>2, <3>2 DEF CreateAllowed, CreateId, CreateOps, id
    <3> QED  BY <3>1, <3>2
  <2>4. RS!Free(op.data, id)
    <3>1. Conflicts(db, Indexes, op.data, NoId) = {}
      BY <1>2, <1>4 DEF CreateInserts
    <3>2. \A j \in Ids : j # NoId
      BY BoundsAssumption DEF Ids, NoId
    <3>3. \A x \in Indexes : \A j \in Ids :
             Live(db, j) /\ op.data[x] # Absent => db.ents[j].data[x] # op.data[x]
      BY <1>2, <3>1, <3>2, NoConflictFree DEF IndexCovers
    <3> QED  BY <3>3 DEF RS!Free, RS!Stored, Live
  <2>5. \/ db'.idem = db.idem
        \/ \E k \in Keys :
              /\ db.idem[k] = NoRecord
              /\ db'.idem = [db.idem EXCEPT ![k] = [id |-> id, ver |-> 1, data |-> op.data]]
    <3>1. CASE op.key \in Keys
      <4>1. db.idem[op.key] = NoRecord
        BY <1>4, <3>1 DEF CreateInserts, IdemHit
      <4>2. db'.idem = [db.idem EXCEPT ![op.key] = [id |-> id, ver |-> 1, data |-> op.data]]
        BY <1>2, <2>1, <2>2 DEF Keyspace
      <4> QED  BY <3>1, <4>1, <4>2
    <3>2. CASE op.key = NoKey
      BY <1>2, <2>1, <2>2, <3>2, SentinelAssumption DEF Keyspace
    <3> QED  BY <1>2, <3>1, <3>2
  <2>6. RS!Insert
    BY <1>2, <2>1, <2>2, <2>3, <2>4, <2>5 DEF RS!Insert, RS!Stored, Live, EventLog
  <2> QED  BY <2>6 DEF RS!Next
<1> QED  BY <1>3, <1>4

LEMMA UpdateImplements ==
    ASSUME TypeOK, NamedSets = {Indexes}, IndexCovers, UpdateStep
    PROVE  [RS!Next]_(RS!vars)
<1>1. PICK op \in UpdateOps(NamedSets) : db' = Committed(Update(db, op))
  BY DEF UpdateStep
<1> DEFINE new == Patched(db, op)
<1>2. db \in Keyspace /\ op.id \in Ids /\ op.named = Indexes /\ new \in Data
  BY DEF TypeOK, UpdateOps, Keyspace, Patched, Data, Row
<1>3. CASE Live(db, op.id) /\ Conflicts(db, op.named, new, op.id) = {}
  <2>1. /\ db'.ents = [db.ents EXCEPT ![op.id] = [ver |-> db.ents[op.id].ver + 1, data |-> new]]
        /\ db'.idem = db.idem /\ db'.events = db.events
        /\ db'.evseq = db.evseq /\ db'.evid = db.evid /\ db'.ledger = db.ledger
    BY <1>1, <1>2, <1>3 DEF Update, Committed, Ok, Keyspace
  <2> HIDE DEF new
  <2>2. RS!Free(new, op.id)
    <3>1. \A x \in Indexes : \A j \in Ids :
             j # op.id /\ Live(db, j) /\ new[x] # Absent => db.ents[j].data[x] # new[x]
      BY <1>2, <1>3, NoConflictFree DEF IndexCovers
    <3> QED  BY <3>1 DEF RS!Free, RS!Stored, Live
  <2>3. RS!Modify
    BY <1>2, <1>3, <2>1, <2>2 DEF RS!Modify, RS!Stored, Live, EventLog
  <2> QED  BY <2>3 DEF RS!Next
<1>4. CASE ~(Live(db, op.id) /\ Conflicts(db, op.named, new, op.id) = {})
  <2>1. db' = db
    BY <1>1, <1>4 DEF Update, Committed, Fail
  <2> QED  BY <2>1 DEF RS!vars, EventLog
<1> QED  BY <1>3, <1>4

LEMMA DeleteImplements ==
    ASSUME TypeOK, DeleteStep
    PROVE  [RS!Next]_(RS!vars)
<1>1. PICK i \in Ids : db' = Committed(Delete(db, i))
  BY DEF DeleteStep
<1>2. CASE Live(db, i)
  <2>1. /\ db'.ents = [db.ents EXCEPT ![i] = NoRow]
        /\ db'.idem = db.idem /\ db'.events = db.events
        /\ db'.evseq = db.evseq /\ db'.evid = db.evid /\ db'.ledger = db.ledger
    BY <1>1, <1>2 DEF Delete, Committed, TypeOK, Keyspace
  <2>2. RS!Remove
    BY <1>2, <2>1 DEF RS!Remove, RS!Stored, Live, EventLog
  <2> QED  BY <2>2 DEF RS!Next
<1>3. CASE ~Live(db, i)
  <2>1. db' = db
    BY <1>1, <1>3 DEF Delete, Committed
  <2> QED  BY <2>1 DEF RS!vars, EventLog
<1> QED  BY <1>2, <1>3

LEMMA LogsImplement ==
    ASSUME TypeOK, AppendEventStep \/ StoreEvidenceStep \/ RecordMigrationStep
    PROVE  RS!Next
<1>1. CASE AppendEventStep
  <2>1. PICK p \in Payloads : db' = AppendEvent(db, p).db /\ db.evseq < MaxSeq
    BY <1>1 DEF AppendEventStep, Committed, AppendEvent
  <2>2. db.evseq \in Nat /\ db.evseq + 1 \in Seqs
    BY <2>1, BoundsAssumption DEF TypeOK, Keyspace, Seqs
  <2>3. /\ db'.events = [db.events EXCEPT ![db.evseq + 1] = p]
        /\ db'.evseq = db.evseq + 1
        /\ db'.ents = db.ents /\ db'.idem = db.idem
        /\ db'.evid = db.evid /\ db'.ledger = db.ledger
    BY <2>1 DEF AppendEvent, TypeOK, Keyspace
  <2>4. EventLog(db)' = Append(EventLog(db), p)
    <3>1. EventLog(db) \in Seq(Payloads \cup {NoPayload}) /\ Len(EventLog(db)) = db.evseq
      BY <2>2, BoundsAssumption, SMTT(60) DEF EventLog, TypeOK, Keyspace, Seqs
    <3> QED  BY <2>2, <2>3, <3>1, BoundsAssumption DEF EventLog, TypeOK, Keyspace, Seqs
  <2> QED  BY <2>3, <2>4 DEF RS!Next, RS!LogEvent
<1>2. CASE StoreEvidenceStep
  <2>1. PICK p \in Payloads : db' = StoreEvidence(db, p).db
    BY <1>2 DEF StoreEvidenceStep, Committed, StoreEvidence
  <2>2. db' = [db EXCEPT !.evid = Append(db.evid, p)]
    BY <2>1 DEF StoreEvidence
  <2> QED  BY <2>2 DEF RS!Next, RS!LogEvidence, EventLog, TypeOK, Keyspace
<1>3. CASE RecordMigrationStep
  <2>1. PICK m \in Migrations : db' = RecordMigration(db, m).db
    BY <1>3 DEF RecordMigrationStep, Committed, RecordMigration
  <2>2. db' = [db EXCEPT !.ledger = db.ledger \cup {m}]
    BY <2>1 DEF RecordMigration
  <2> QED  BY <2>2 DEF RS!Next, RS!LogMigration, EventLog, TypeOK, Keyspace
<1> QED  BY <1>1, <1>2, <1>3

(* kv.rs implements the store its callers are promised: with index entries  *)
(* and counters standing in for a search through the records, every         *)
(* operation is a step of RecordStore or changes nothing it shows.          *)
THEOREM PromiseKept ==
    ASSUME NamedSets = {Indexes}
    PROVE  Spec => Promise
<1>1. Init => RS!Init
  <2> SUFFICES ASSUME Init PROVE RS!Init
    OBVIOUS
  <2>1. EventLog(db) = << >>
    BY DEF Init, EmptyKeyspace, EventLog
  <2> QED  BY <2>1 DEF Init, EmptyKeyspace, RS!Init
<1>2. TypeOK /\ IndexCovers /\ [Next]_vars => [RS!Next]_(RS!vars)
  <2> SUFFICES ASSUME TypeOK, IndexCovers, [Next]_vars PROVE [RS!Next]_(RS!vars)
    OBVIOUS
  <2>1. CASE UNCHANGED vars
    BY <2>1 DEF vars, RS!vars, EventLog
  <2> QED  BY <2>1, CreateImplements, UpdateImplements, DeleteImplements, LogsImplement
           DEF Next
<1> QED  BY <1>1, <1>2, TypeCorrect, CoversSafe, PTL DEF Spec, Promise, RS!Spec

-----------------------------------------------------------------------------
(* The exactness argument: an entry is written with the record that holds   *)
(* its value, and leaves when that record changes the value or goes.        *)
LEMMA CreateExact ==
    ASSUME NEW d \in Keyspace, NEW op \in CreateOps(NamedSets),
           CreateAllowed(d, op), AllowReplace = FALSE, IndexExactIn(d)
    PROVE  IndexExactIn(Create(d, op).db)
<1> DEFINE id == CreateId(d, op)
           w  == CreateWrites(d, op, id)
<1>1. id \in Ids /\ ~Live(d, id)
  <2>1. CASE op.id = NoId
    BY <2>1, AutoId DEF CreateId, CreateAllowed
  <2>2. CASE op.id # NoId
    BY <2>2 DEF CreateId, CreateAllowed, CreateOps
  <2> QED  BY <2>1, <2>2
<1>2. /\ w.ents = [d.ents EXCEPT ![id] = [ver |-> 1, data |-> op.data]]
      /\ w.uniq = WriteUnique(d.uniq, op.named, op.data, id)
  BY <1>1, InsertFields
<1>3. IndexExactIn(w)
  <2> HIDE DEF id, w
  <2> SUFFICES ASSUME NEW x \in Indexes, NEW v \in Values, w.uniq[x][v] # NoId
               PROVE  Live(w, w.uniq[x][v]) /\ w.ents[w.uniq[x][v]].data[x] = v
    BY DEF IndexExactIn
  <2>1. CASE x \in op.named /\ op.data[x] = v
    BY <1>1, <1>2, <2>1 DEF WriteUnique, Live, Keyspace
  <2>2. CASE ~(x \in op.named /\ op.data[x] = v)
    <3> DEFINE o == d.uniq[x][v]
    <3>1. w.uniq[x][v] = o
      BY <1>2, <2>2 DEF WriteUnique
    <3>2. o \in Ids /\ Live(d, o) /\ d.ents[o].data[x] = v
      BY <3>1 DEF IndexExactIn, Keyspace
    <3>3. w.ents[o] = d.ents[o]
      BY <1>1, <1>2, <3>2 DEF Keyspace
    <3> QED  BY <3>1, <3>2, <3>3 DEF Live
  <2> QED  BY <2>1, <2>2
<1>4. IndexExactIn([d EXCEPT !.schema = TRUE])
  BY DEF IndexExactIn, Live, Keyspace
<1>5. IndexExactIn([d EXCEPT !.schema = TRUE, !.idseq = CreateSeq(d, op)])
  BY DEF IndexExactIn, Live, Keyspace
<1> QED  BY <1>3, <1>4, <1>5 DEF Create

LEMMA UpdateExact ==
    ASSUME NEW d \in Keyspace, NEW op \in UpdateOps(NamedSets),
           op.named = Indexes, IndexExactIn(d)
    PROVE  IndexExactIn(Update(d, op).db)
<1> DEFINE new == Patched(d, op)
           ver == d.ents[op.id].ver + 1
           old == d.ents[op.id].data
           rel == ReleaseUnique(d.uniq, op.named, old, new, op.id)
           w   == Update(d, op).db
<1>1. op.id \in Ids /\ new \in Data /\ ver \in Nat /\ ver > 0
  BY DEF UpdateOps, Keyspace, Patched, Data, Row
<1>2. ASSUME Live(d, op.id), Conflicts(d, op.named, new, op.id) = {}
      PROVE  IndexExactIn(w)
  <2>1. /\ w.ents = [d.ents EXCEPT ![op.id] = [ver |-> ver, data |-> new]]
        /\ w.uniq = WriteUnique(rel, op.named, new, op.id)
    BY <1>2 DEF Update, Keyspace
  <2> HIDE DEF new, ver, w
  <2> SUFFICES ASSUME NEW x \in Indexes, NEW v \in Values, w.uniq[x][v] # NoId
               PROVE  Live(w, w.uniq[x][v]) /\ w.ents[w.uniq[x][v]].data[x] = v
    BY DEF IndexExactIn
  <2>2. CASE new[x] = v
    <3>1. w.uniq[x][v] = op.id
      BY <2>1, <2>2, SMTT(60) DEF WriteUnique
    <3>2. w.ents[op.id] = [ver |-> ver, data |-> new]
      BY <1>1, <2>1 DEF Keyspace
    <3> QED  BY <1>1, <2>2, <3>1, <3>2 DEF Live
  <2>3. CASE new[x] # v
    <3> DEFINE o == d.uniq[x][v]
    <3>1. w.uniq[x][v] = rel[x][v]
      BY <2>1, <2>3, SMTT(60) DEF WriteUnique
    <3>2. rel[x][v] = o /\ ~(old[x] = v /\ o = op.id)
      BY <2>3, <3>1 DEF ReleaseUnique
    <3>3. o \in Ids /\ Live(d, o) /\ d.ents[o].data[x] = v
      BY <3>1, <3>2 DEF IndexExactIn, Keyspace
    <3>4. o # op.id /\ w.ents[o] = d.ents[o]
      BY <2>1, <3>2, <3>3 DEF Keyspace
    <3> QED  BY <3>1, <3>2, <3>3, <3>4 DEF Live
  <2> QED  BY <2>2, <2>3
<1> QED  BY <1>2 DEF Update

LEMMA DeleteExact ==
    ASSUME NEW d \in Keyspace, NEW k \in Ids, IndexExactIn(d)
    PROVE  IndexExactIn(Delete(d, k).db)
<1> DEFINE w == Delete(d, k).db
<1>1. ASSUME Live(d, k) PROVE IndexExactIn(w)
  <2>1. /\ w.ents = [d.ents EXCEPT ![k] = NoRow]
        /\ w.uniq = ClearUnique(d.uniq, k)
    BY <1>1 DEF Delete, Keyspace
  <2> HIDE DEF w
  <2> SUFFICES ASSUME NEW x \in Indexes, NEW v \in Values, w.uniq[x][v] # NoId
               PROVE  Live(w, w.uniq[x][v]) /\ w.ents[w.uniq[x][v]].data[x] = v
    BY DEF IndexExactIn
  <2> DEFINE o == d.uniq[x][v]
  <2>2. w.uniq[x][v] = o /\ o # k
    BY <2>1 DEF ClearUnique
  <2>3. o \in Ids /\ Live(d, o) /\ d.ents[o].data[x] = v
    BY <2>2 DEF IndexExactIn, Keyspace
  <2>4. w.ents[o] = d.ents[o]
    BY <2>1, <2>2, <2>3 DEF Keyspace
  <2> QED  BY <2>2, <2>3, <2>4 DEF Live
<1> QED  BY <1>1 DEF Delete

(* kv.rs: while no create replaces a live record and every caller names     *)
(* the indexes, no unique-index entry outlives the value it stands for.     *)
THEOREM IndexExactSafe ==
    ASSUME NamedSets = {Indexes}, AllowReplace = FALSE
    PROVE  Spec => []IndexExact
<1>1. Init => IndexExact
  BY DEF Init, IndexExact, IndexExactIn, EmptyKeyspace
<1>2. TypeOK /\ IndexExact /\ [Next]_vars => IndexExact'
  <2> SUFFICES ASSUME TypeOK, IndexExactIn(db), [Next]_vars PROVE IndexExactIn(db)'
    BY DEF IndexExact
  <2> USE DEF TypeOK
  <2>1. CASE CreateStep
    BY <2>1, CreateExact DEF CreateStep, Committed
  <2>2. CASE UpdateStep
    BY <2>2, UpdateExact DEF UpdateStep, Committed, UpdateOps
  <2>3. CASE DeleteStep
    BY <2>3, DeleteExact DEF DeleteStep, Committed
  <2>4. CASE AppendEventStep \/ StoreEvidenceStep \/ RecordMigrationStep
    <3>1. db'.ents = db.ents /\ db'.uniq = db.uniq
      BY <2>4 DEF AppendEventStep, StoreEvidenceStep, RecordMigrationStep, Committed,
                  AppendEvent, StoreEvidence, RecordMigration, Keyspace
    <3> QED  BY <3>1 DEF IndexExactIn, Live
  <2>5. CASE UNCHANGED vars
    BY <2>5 DEF vars, IndexExactIn, Live
  <2> QED  BY <2>1, <2>2, <2>3, <2>4, <2>5 DEF Next
<1> QED  BY <1>1, <1>2, TypeCorrect, PTL DEF Spec

-----------------------------------------------------------------------------
(* The counter is at or above every auto id ever handed out.                *)
IssuedBelow == \A i \in issued : db.idseq # NoId /\ i <= db.idseq

(* What a create does to the counter.                                       *)
LEMMA CreateCounter ==
    ASSUME NEW d \in Keyspace, NEW op \in CreateOps(NamedSets), CreateAllowed(d, op)
    PROVE  LET w == Create(d, op).db
           IN  /\ op.id # NoId => w.idseq = d.idseq
               /\ op.id = NoId => w.idseq \in {d.idseq, NextAutoId(d)}
               /\ op.id = NoId /\ CreateInserts(d, op)
                    => w.idseq = NextAutoId(d) /\ Create(d, op).res.code = "ok"
<1>0. CreateId(d, op) \in Ids
  BY CreateSeqType DEF CreateAllowed
<1>1. CreateWrites(d, op, CreateId(d, op)).idseq = CreateSeq(d, op)
  BY <1>0 DEF CreateWrites, Keyspace
<1> QED  BY <1>1 DEF Create, CreateSeq, CreateInserts, Keyspace, Ok

(* kv.rs, next_auto_id: an auto id is never the id of a live record and is  *)
(* never handed out a second time.                                          *)
THEOREM AutoIdSafe == Spec => AutoIdFresh
<1> DEFINE IInv == TypeOK /\ IssuedBelow
<1>1. Init => IInv
  BY EmptyType DEF Init, TypeOK, IssuedBelow
<1>2. IInv /\ TypeOK' /\ [Next]_vars =>
        /\ IInv'
        /\ \/ /\ \A i \in issued' \ issued : ~Live(db, i)
              /\ autos' # autos => issued' # issued
           \/ UNCHANGED vars
  <2> SUFFICES ASSUME TypeOK, IssuedBelow, [Next]_vars
               PROVE  /\ IssuedBelow'
                      /\ \/ /\ \A i \in issued' \ issued : ~Live(db, i)
                            /\ autos' # autos => issued' # issued
                         \/ UNCHANGED vars
    OBVIOUS
  <2>1. CASE CreateStep
    <3>1. PICK op \in CreateOps(NamedSets) :
             /\ CreateAllowed(db, op)
             /\ db' = Committed(Create(db, op))
             /\ IF op.id = NoId /\ CreateInserts(db, op)
                THEN issued' = issued \cup {NextAutoId(db)} /\ autos' = autos + 1
                ELSE UNCHANGED <<issued, autos>>
      BY <2>1 DEF CreateStep
    <3>2. db \in Keyspace /\ issued \subseteq Nat
      BY BoundsAssumption DEF TypeOK, Ids
    <3>3. ASSUME op.id = NoId
          PROVE  /\ NextAutoId(db) \in Nat /\ ~Live(db, NextAutoId(db))
                 /\ db.idseq # NoId => NextAutoId(db) > db.idseq
      BY <3>1, <3>2, <3>3, AutoId, BoundsAssumption DEF CreateAllowed, Ids, SeqStart
    <3>4. CASE op.id = NoId /\ CreateInserts(db, op)
      <4>1. db'.idseq = NextAutoId(db)
        BY <3>1, <3>2, <3>4, CreateCounter DEF Committed
      <4>2. NextAutoId(db) \notin issued
        BY <3>2, <3>3, <3>4 DEF IssuedBelow, Keyspace
      <4>3. \A i \in issued : i <= NextAutoId(db)
        BY <3>2, <3>3, <3>4 DEF IssuedBelow, Keyspace
      <4>4. issued' = issued \cup {NextAutoId(db)} /\ autos' = autos + 1
        BY <3>1, <3>4
      <4>5. IssuedBelow'
        BY <3>3, <3>4, <4>1, <4>3, <4>4 DEF IssuedBelow, NoId
      <4> QED  BY <3>3, <3>4, <4>2, <4>4, <4>5
    <3>5. CASE ~(op.id = NoId /\ CreateInserts(db, op))
      <4>1. issued' = issued /\ autos' = autos
        BY <3>1, <3>5
      <4>2. \/ db'.idseq = db.idseq
            \/ op.id = NoId /\ db'.idseq = NextAutoId(db)
        BY <3>1, <3>2, CreateCounter DEF Committed
      <4>3. IssuedBelow'
        BY <3>2, <3>3, <4>1, <4>2 DEF IssuedBelow, Keyspace, NoId
      <4> QED  BY <4>1, <4>3
    <3> QED  BY <3>4, <3>5
  <2>2. CASE \/ UpdateStep \/ DeleteStep \/ AppendEventStep
             \/ StoreEvidenceStep \/ RecordMigrationStep
    <3>1. db'.idseq = db.idseq /\ issued' = issued /\ autos' = autos
      BY <2>2 DEF TypeOK, UpdateStep, DeleteStep, AppendEventStep, StoreEvidenceStep,
                  RecordMigrationStep, Committed, Update, Delete, AppendEvent,
                  StoreEvidence, RecordMigration, Keyspace
    <3> QED  BY <3>1 DEF IssuedBelow
  <2>3. CASE UNCHANGED vars
    BY <2>3 DEF vars, IssuedBelow
  <2> QED  BY <2>1, <2>2, <2>3 DEF Next
<1> QED  BY <1>1, <1>2, TypeCorrect, PTL DEF Spec, AutoIdFresh

=============================================================================
