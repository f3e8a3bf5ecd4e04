----------------------------- MODULE KvOpsProofs -----------------------------
(***************************************************************************)
(* What the operations of KvOps do to a keyspace, for every number of ids, *)
(* indexes, values and keys: the facts that the proofs about the stores    *)
(* and about the runtime share.                                            *)
(***************************************************************************)
EXTENDS KvOps, FiniteSetTheorems, WellFoundedInduction, TLAPS

(* A non-empty set of naturals has a least element.                         *)
LEMMA LeastExists ==
    ASSUME NEW S, S \subseteq Nat, S # {}
    PROVE  \E n \in S : \A m \in S : n <= m
<1> DEFINE R == OpToRel(<, Nat)
<1>1. \E n \in S : \A m \in S : ~(<<m, n>> \in R)
  BY NatLessThanWellFounded, WFMin, Zenon
<1>2. \A m, n \in Nat : m < n => <<m, n>> \in R
  BY DEF OpToRel
<1> HIDE DEF R
<1>3. PICK n \in S : \A m \in S : ~(<<m, n>> \in R)
  BY <1>1
<1>4. \A m \in S : ~(m < n)
  BY <1>2, <1>3, Zenon
<1>5. \A m \in S : n <= m
  BY <1>4
<1> QED  BY <1>3, <1>5

(* next_auto_id: the id it returns is above the counter and free.           *)
LEMMA AutoId ==
    ASSUME NEW d \in Keyspace, AutoIdInBound(d)
    PROVE  /\ NextAutoId(d) \in Ids
           /\ NextAutoId(d) > SeqStart(d)
           /\ ~Live(d, NextAutoId(d))
<1>1. FreeAutoIds(d) \subseteq Nat /\ FreeAutoIds(d) # {}
  BY BoundsAssumption DEF FreeAutoIds, AutoIdInBound, Ids
<1>2. \E n \in FreeAutoIds(d) : \A m \in FreeAutoIds(d) : n <= m
  BY <1>1, LeastExists
<1>3. NextAutoId(d) \in FreeAutoIds(d)
  BY <1>2 DEF NextAutoId
<1> QED  BY <1>3 DEF FreeAutoIds

-----------------------------------------------------------------------------
(* The fields of the keyspace after a create that inserts a record.         *)
LEMMA InsertFields ==
    ASSUME NEW d \in Keyspace, NEW N, NEW op \in CreateOps(N), NEW id \in Ids
    PROVE  LET w == CreateWrites(d, op, id)
           IN  /\ w.ents = [d.ents EXCEPT ![id] = [ver |-> 1, data |-> op.data]]
               /\ w.uniq = WriteUnique(d.uniq, op.named, op.data, id)
               /\ w.idseq = CreateSeq(d, op)
               /\ w.events = d.events /\ w.evseq = d.evseq
BY DEF Keyspace, CreateWrites

LEMMA WriteUniqueType ==
    ASSUME NEW uniq \in [Indexes -> [Values -> Ids \cup {NoId}]],
           NEW named, NEW data, NEW id \in Ids
    PROVE  WriteUnique(uniq, named, data, id) \in [Indexes -> [Values -> Ids \cup {NoId}]]
BY DEF WriteUnique

LEMMA InsertType ==
    ASSUME NEW d \in Keyspace, NEW N, NEW op \in CreateOps(N),
           NEW id \in Ids, CreateSeq(d, op) \in Nat \cup {NoId}
    PROVE  CreateWrites(d, op, id) \in Keyspace
<1>1. op.data \in Data
  BY DEF CreateOps
<1>2. WriteUnique(d.uniq, op.named, op.data, id) \in [Indexes -> [Values -> Ids \cup {NoId}]]
  BY WriteUniqueType DEF Keyspace
<1>3. [id |-> id, ver |-> 1, data |-> op.data] \in Record
  BY <1>1 DEF Record
<1>4. [k \in Keys |-> IF k = op.key THEN [id |-> id, ver |-> 1, data |-> op.data] ELSE d.idem[k]]
        \in [Keys -> Record \cup {NoRecord}]
  BY <1>3 DEF Keyspace
<1>5. [d.ents EXCEPT ![id] = [ver |-> 1, data |-> op.data]] \in [Ids -> Row]
  BY <1>1 DEF Keyspace, Row
<1> QED  BY <1>2, <1>4, <1>5 DEF Keyspace, CreateWrites

LEMMA CreateSeqType ==
    ASSUME NEW d \in Keyspace, NEW N, NEW op \in CreateOps(N),
           op.id = NoId => AutoIdInBound(d)
    PROVE  /\ CreateSeq(d, op) \in Nat \cup {NoId}
           /\ CreateId(d, op) \in Ids
<1>1. CASE op.id = NoId
  BY <1>1, AutoId, BoundsAssumption DEF CreateSeq, CreateId, Ids
<1>2. CASE op.id # NoId
  BY <1>2 DEF CreateSeq, CreateId, CreateOps, Keyspace
<1> QED  BY <1>1, <1>2

LEMMA CreateType ==
    ASSUME NEW d \in Keyspace, NEW N, NEW op \in CreateOps(N),
           op.id = NoId => AutoIdInBound(d)
    PROVE  Create(d, op).db \in Keyspace
<1>1. CreateWrites(d, op, CreateId(d, op)) \in Keyspace
  BY CreateSeqType, InsertType
<1>2. [d EXCEPT !.schema = TRUE] \in Keyspace
  BY DEF Keyspace
<1>3. [d EXCEPT !.schema = TRUE, !.idseq = CreateSeq(d, op)] \in Keyspace
  BY CreateSeqType DEF Keyspace
<1> QED  BY <1>1, <1>2, <1>3 DEF Create

LEMMA UpdateType ==
    ASSUME NEW d \in Keyspace, NEW N, NEW op \in UpdateOps(N)
    PROVE  Update(d, op).db \in Keyspace
<1> DEFINE new == Patched(d, op)
           ver == d.ents[op.id].ver + 1
           rel == ReleaseUnique(d.uniq, op.named, d.ents[op.id].data, new, op.id)
<1>1. op.id \in Ids /\ d.ents[op.id] \in Row /\ op.patch \in Data
  BY DEF UpdateOps, Keyspace
<1>2. new \in Data /\ ver \in Nat
  BY <1>1 DEF Patched, Data, Row
<1>3. rel \in [Indexes -> [Values -> Ids \cup {NoId}]]
  BY DEF ReleaseUnique, Keyspace
<1>4. WriteUnique(rel, op.named, new, op.id) \in [Indexes -> [Values -> Ids \cup {NoId}]]
  BY <1>1, <1>3, WriteUniqueType
<1>5. [d.ents EXCEPT ![op.id] = [ver |-> ver, data |-> new]] \in [Ids -> Row]
  BY <1>2 DEF Keyspace, Row
<1> QED  BY <1>4, <1>5 DEF Update, Keyspace

LEMMA DeleteType ==
    ASSUME NEW d \in Keyspace, NEW i \in Ids
    PROVE  Delete(d, i).db \in Keyspace
<1>1. NoRow \in Row
  BY DEF NoRow, Row, NoData, Data
<1>2. ClearUnique(d.uniq, i) \in [Indexes -> [Values -> Ids \cup {NoId}]]
  BY DEF ClearUnique, Keyspace
<1>3. [d.ents EXCEPT ![i] = NoRow] \in [Ids -> Row]
  BY <1>1 DEF Keyspace
<1> QED  BY <1>2, <1>3 DEF Delete, Keyspace

LEMMA AppendEventType ==
    ASSUME NEW d \in Keyspace, NEW p \in Payloads, d.evseq < MaxSeq
    PROVE  AppendEvent(d, p).db \in Keyspace
<1>1. d.evseq + 1 \in Seqs /\ d.evseq + 1 \in 0 .. MaxSeq
  BY BoundsAssumption DEF Keyspace, Seqs
<1> QED  BY <1>1 DEF AppendEvent, Keyspace

LEMMA StoreEvidenceType ==
    ASSUME NEW d \in Keyspace, NEW p \in Payloads
    PROVE  StoreEvidence(d, p).db \in Keyspace
<1>1. Append(d.evid, p) \in Seq(Payloads)
  <2>1. d.evid \in Seq(Payloads)
    BY DEF Keyspace
  <2> QED  BY <2>1
<1>2. StoreEvidence(d, p).db = [d EXCEPT !.evid = Append(d.evid, p)]
  BY DEF StoreEvidence
<1> DEFINE new == Append(d.evid, p)
<1>3. new \in Seq(Payloads)
  BY <1>1
<1> HIDE DEF new
<1>4. [d EXCEPT !.evid = new] \in Keyspace
  BY <1>3 DEF Keyspace
<1> QED  BY <1>2, <1>4 DEF new

LEMMA RecordMigrationType ==
    ASSUME NEW d \in Keyspace, NEW m \in Migrations
    PROVE  RecordMigration(d, m).db \in Keyspace
BY DEF RecordMigration, Keyspace

LEMMA EmptyType == EmptyKeyspace \in Keyspace
<1>1. NoRow \in Row
  BY DEF NoRow, Row, NoData, Data
<1> QED  BY <1>1, BoundsAssumption DEF EmptyKeyspace, Keyspace

-----------------------------------------------------------------------------
(* find_unique_conflict returns an index of the request.                    *)
LEMMA FirstConflictNamed ==
    ASSUME NEW d \in Keyspace, NEW named \in SUBSET Indexes, NEW data, NEW self,
           Conflicts(d, named, data, self) # {}
    PROVE  FirstConflict(d, named, data, self) \in Conflicts(d, named, data, self)
<1> DEFINE S == Conflicts(d, named, data, self)
<1>1. S \subseteq Nat
  <2>1. S \subseteq named
    BY DEF Conflicts
  <2> HIDE DEF S
  <2> QED  BY <2>1, BoundsAssumption DEF Indexes
<1>2. \E x \in S : \A y \in S : x <= y
  BY <1>1, LeastExists
<1> QED  BY <1>2 DEF FirstConflict

(* A create that is answered with a record either replays a stored answer,  *)
(* or returns a record that is there (only with ReturnExisting), or inserts *)
(* the record and stores the answer.                                        *)
Replays(d, op) ==
    /\ IdemHit(d, op)
    /\ Create(d, op).res.rec = d.idem[op.key] /\ d.idem[op.key] \in Record
    /\ Create(d, op).db = [d EXCEPT !.schema = TRUE]

Returns(d, op) ==
    /\ ~IdemHit(d, op) /\ op.ret \in Indexes
    /\ Conflicts(d, op.named, op.data, NoId) # {}
    /\ Create(d, op).res.rec \in Record
    /\ Create(d, op).db = [d EXCEPT !.schema = TRUE, !.idseq = CreateSeq(d, op)]

Inserts(d, op) ==
    /\ ~IdemHit(d, op)
    /\ Conflicts(d, op.named, op.data, NoId) = {}
    /\ CreateId(d, op) \in Ids
    /\ Create(d, op).res.rec = [id |-> CreateId(d, op), ver |-> 1, data |-> op.data]
    /\ Create(d, op).res.rec \in Record
    /\ Create(d, op).db = CreateWrites(d, op, CreateId(d, op))

LEMMA CreateAnswers ==
    ASSUME NEW d \in Keyspace, NEW N \in SUBSET SUBSET Indexes, NEW op \in CreateOps(N),
           op.id = NoId => AutoIdInBound(d), Create(d, op).res.code = "ok"
    PROVE  Replays(d, op) \/ Returns(d, op) \/ Inserts(d, op)
<1>1. op.data \in Data /\ op.named \in SUBSET Indexes
  BY DEF CreateOps
<1>2. CASE IdemHit(d, op)
  <2>1. d.idem[op.key] \in Record
    BY <1>2 DEF IdemHit, Keyspace
  <2> QED  BY <1>2, <2>1 DEF Replays, Create, Ok
<1>3. CASE ~IdemHit(d, op) /\ Conflicts(d, op.named, op.data, NoId) # {}
  <2> DEFINE x == FirstConflict(d, op.named, op.data, NoId)
  <2>1. x \in Conflicts(d, op.named, op.data, NoId)
    BY <1>1, <1>3, FirstConflictNamed
  <2>2. x \in Indexes /\ d.uniq[x][op.data[x]] \in Ids
    BY <1>1, <2>1 DEF Conflicts, Keyspace, Data
  <2>3. op.ret = x /\ Create(d, op) = [res |-> Ok(RecordOf(d, d.uniq[x][op.data[x]])),
             db |-> [d EXCEPT !.schema = TRUE, !.idseq = CreateSeq(d, op)]]
    BY <1>3 DEF Create, Fail
  <2>4. RecordOf(d, d.uniq[x][op.data[x]]) \in Record
    BY <2>2 DEF RecordOf, Record, Keyspace, Row
  <2> HIDE DEF x
  <2> QED  BY <1>3, <2>2, <2>3, <2>4 DEF Returns, Ok
<1>4. CASE ~IdemHit(d, op) /\ Conflicts(d, op.named, op.data, NoId) = {}
  <2>1. CreateId(d, op) \in Ids
    BY CreateSeqType
  <2>2. [id |-> CreateId(d, op), ver |-> 1, data |-> op.data] \in Record
    BY <1>1, <2>1 DEF Record
  <2> QED  BY <1>4, <2>1, <2>2 DEF Inserts, Create, Ok
<1> QED  BY <1>2, <1>3, <1>4

=============================================================================
