--------------------------- MODULE PgStoreProofs ---------------------------
(***************************************************************************)
(* What transact promises, for any number of handler threads, any          *)
(* requests, any pool and any budget.  Of what SERIALIZABLE promises only  *)
(* one half is used: a COMMIT that overwrites a key written since its      *)
(* snapshot is not admitted.                                               *)
(*                                                                         *)
(* PgInv says of each call, by its place, what it committed and was told,  *)
(* and of each key and log what the database holds of it; IndexInv that    *)
(* the database and every snapshot have an index entry for each indexed    *)
(* value of a live record and no others, from which it follows that a      *)
(* COMMIT does to the database what its body did to the snapshot.          *)
(***************************************************************************)
EXTENDS PgStore, KvOpsProofs

PgTypes ==
    /\ db \in Keyspace
    /\ issued \subseteq Ids /\ autos \in Nat
    /\ pc \in [Clients -> {"idle", "waiting", "begin", "open", "done"}]
    /\ req \in [Clients -> Requests \cup {NoRequest}]
    /\ tx = [c \in Clients |-> tx[c]]
    /\ \A c \in Clients : /\ tx[c] = [snap |-> tx[c].snap, since |-> tx[c].since]
                          /\ tx[c].snap \in Keyspace
    /\ attempt \in [Clients -> 0 .. MaxAttempts]
    /\ ans = [c \in Clients |-> ans[c]]
    /\ resends \in 0 .. MaxResends
    /\ did \in [Clients -> Nat]
    /\ born \in [Keys -> Nat]

(* A call commits once, at its end.                                         *)
Served(c) ==
    /\ pc[c] # "idle" => req[c] \in Requests
    /\ pc[c] # "done" => did[c] = 0 /\ ans[c] = NoAnswer
    /\ pc[c] = "done" => /\ did[c] \in {0, 1}
                         /\ ans[c] # Unknown => (did[c] = 1 <=> ans[c].code = "ok")

(* The stream ends at its counter.                                          *)
StreamEnds(d) == \A n \in Seqs : n > d.evseq => d.events[n] = NoPayload

(* The snapshot of a transaction: an answer it holds under a key is still   *)
(* there.                                                                   *)
SnapInv(c) ==
    pc[c] = "open" =>
        /\ \A k \in Keys : tx[c].snap.idem[k] # NoRecord => db.idem[k] = tx[c].snap.idem[k]
        /\ StreamEnds(tx[c].snap)

(* What an ok answer says is in the store.                                  *)
HasEvent(c) == req[c].kind = "event" /\ ans[c].code = "ok"

Held(c) ==
    /\ /\ req[c].kind = "create" /\ ans[c].code = "ok"
       /\ req[c].op.key \in Keys /\ req[c].op.ret = 0
       => db.idem[req[c].op.key] # NoRecord /\ ans[c] = Ok(db.idem[req[c].op.key])
    /\ HasEvent(c) => ans[c].seq \in 1 .. db.evseq /\ db.events[ans[c].seq] = req[c].op

BornInv == \A k \in Keys : born[k] = IF db.idem[k] = NoRecord THEN 0 ELSE 1

Evidenced == {c \in Clients : req[c].kind = "evidence" /\ ans[c].code = "ok"}

LogInv ==
    /\ StreamEnds(db)
    /\ \A c, e \in Clients : HasEvent(c) /\ HasEvent(e) /\ c # e => ans[c].seq # ans[e].seq
    /\ Cardinality(Evidenced) <= Len(db.evid)

PgInv ==
    /\ PgTypes
    /\ \A c \in Clients : Served(c) /\ SnapInv(c) /\ Held(c)
    /\ BornInv /\ LogInv

-----------------------------------------------------------------------------
(* What a request asks, by its kind.                                        *)
LEMMA RequestKinds ==
    ASSUME NEW r \in Requests
    PROVE  /\ r.kind \in {"create", "update", "delete", "event", "evidence", "migration"}
           /\ r.kind = "create" => r.op \in CreateOps(NamedSets)
           /\ r.kind = "update" => r.op \in UpdateOps(NamedSets)
           /\ r.kind = "delete" => r.op \in Ids
           /\ r.kind \in {"event", "evidence"} => r.op \in Payloads
           /\ r.kind = "migration" => r.op \in Migrations
BY RequestAssumption

(* What the body of a request leaves under the idempotency keys: the answer *)
(* of the create that inserts, under its key, and nothing else.             *)
Inserting(d, r) == r.kind = "create" /\ KV!CreateInserts(d, r.op)

KeyWritten(d, r) ==
    /\ Inserting(d, r)
    /\ Body(d, r).res.rec \in Record /\ Body(d, r).res = Ok(Body(d, r).res.rec)
    /\ r.op.key \in Keys => d.idem[r.op.key] = NoRecord
    /\ Body(d, r).db.idem = [k \in Keys |-> IF k = r.op.key THEN Body(d, r).res.rec ELSE d.idem[k]]

KeyKept(d, r) ==
    /\ ~Inserting(d, r)
    /\ Body(d, r).db.idem = d.idem
    /\ r.kind = "create" /\ r.op.ret = 0 =>
          r.op.key \in Keys /\ d.idem[r.op.key] # NoRecord /\ Body(d, r).res = Ok(d.idem[r.op.key])

(* And in the two logs.                                                     *)
LogWritten(d, r) ==
    /\ IF r.kind = "event"
       THEN /\ d.evseq < MaxSeq /\ Body(d, r).res.seq = d.evseq + 1
            /\ Body(d, r).db.evseq = d.evseq + 1
            /\ Body(d, r).db.events = [d.events EXCEPT ![d.evseq + 1] = r.op]
       ELSE Body(d, r).db.evseq = d.evseq /\ Body(d, r).db.events = d.events
    /\ Body(d, r).db.evid = IF r.kind = "evidence" THEN Append(d.evid, r.op) ELSE d.evid

LEMMA SameInserts ==
    ASSUME NEW d, NEW op
    PROVE  KV!CreateInserts(d, op) <=> ~IdemHit(d, op) /\ Conflicts(d, op.named, op.data, NoId) = {}
BY DEF KV!CreateInserts, KV!IdemHit, KV!Conflicts, KV!NoId, KV!NoRecord, KV!NoData, KV!Indexes, KV!Live,
   IdemHit, Conflicts, NoId, NoRecord, NoData, Indexes, Live

LEMMA CreateOk ==
    ASSUME NEW d, NEW op, Create(d, op).res.code = "ok"
    PROVE  Create(d, op).res = Ok(Create(d, op).res.rec)
BY DEF Create, Ok, Fail

LEMMA Bodies ==
    ASSUME NEW d \in Keyspace, NEW r \in Requests, InBound(d, r), Body(d, r).res.code = "ok"
    PROVE  /\ Body(d, r).db \in Keyspace
           /\ KeyWritten(d, r) \/ KeyKept(d, r)
           /\ LogWritten(d, r)
<1>1. CASE r.kind = "create"
  <2> DEFINE op == r.op
  <2>1. Body(d, r) = Create(d, op)
    BY <1>1 DEF Body
  <2>2. /\ op \in CreateOps(NamedSets) /\ (op.id = NoId => AutoIdInBound(d))
        /\ NamedSets \in SUBSET SUBSET Indexes
    BY <1>1, RequestKinds, RequestAssumption DEF InBound
  <2>3. Create(d, op).db \in Keyspace /\ Create(d, op).res.code = "ok"
        /\ Create(d, op).res = Ok(Create(d, op).res.rec)
    BY <2>1, <2>2, CreateType, CreateOk
  <2>4. Replays(d, op) \/ Returns(d, op) \/ Inserts(d, op)
    BY <2>2, <2>3, CreateAnswers
  <2>5. CASE Replays(d, op)
    <3>1. /\ Create(d, op).db.idem = d.idem /\ Create(d, op).db.evseq = d.evseq
          /\ Create(d, op).db.events = d.events /\ Create(d, op).db.evid = d.evid
      BY <2>5 DEF Replays, Keyspace
    <3>2. ~Inserting(d, r) /\ op.key \in Keys /\ d.idem[op.key] # NoRecord
      BY <2>5, SameInserts DEF Inserting, Replays, IdemHit
    <3>3. KeyKept(d, r)
      BY <2>1, <2>3, <2>5, <3>1, <3>2 DEF KeyKept, Replays
    <3> QED  BY <1>1, <2>1, <2>3, <3>1, <3>3 DEF LogWritten
  <2>6. CASE Returns(d, op)
    <3>1. /\ Create(d, op).db.idem = d.idem /\ Create(d, op).db.evseq = d.evseq
          /\ Create(d, op).db.events = d.events /\ Create(d, op).db.evid = d.evid
      BY <2>6 DEF Returns, Keyspace
    <3>2. ~Inserting(d, r) /\ op.ret # 0
      BY <2>6, SameInserts, BoundsAssumption DEF Inserting, Returns, Indexes
    <3>3. KeyKept(d, r)
      BY <2>1, <3>1, <3>2 DEF KeyKept
    <3> QED  BY <1>1, <2>1, <2>3, <3>1, <3>3 DEF LogWritten
  <2>7. CASE Inserts(d, op)
    <3> DEFINE id == CreateId(d, op)
               new == [id |-> id, ver |-> 1, data |-> op.data]
    <3>1. /\ Create(d, op).db.idem = [k \in Keys |-> IF k = op.key THEN new ELSE d.idem[k]]
          /\ Create(d, op).db.evseq = d.evseq
          /\ Create(d, op).db.events = d.events /\ Create(d, op).db.evid = d.evid
      BY <2>7 DEF Inserts, CreateWrites, Keyspace
    <3>2. /\ Inserting(d, r) /\ Create(d, op).res.rec = new /\ new \in Record
          /\ op.key \in Keys => d.idem[op.key] = NoRecord
      BY <1>1, <2>7, SameInserts DEF Inserting, Inserts, IdemHit
    <3> HIDE DEF new
    <3>3. KeyWritten(d, r)
      BY <2>1, <2>3, <3>1, <3>2 DEF KeyWritten
    <3> QED  BY <1>1, <2>1, <2>3, <3>1, <3>3 DEF LogWritten
  <2> QED  BY <2>4, <2>5, <2>6, <2>7
<1>2. CASE r.kind = "update"
  <2>1. Body(d, r) = Update(d, r.op) /\ r.op \in UpdateOps(NamedSets)
    BY <1>2, RequestKinds DEF Body
  <2>2. Update(d, r.op).db \in Keyspace
    BY <2>1, UpdateType
  <2>3. /\ Update(d, r.op).db.idem = d.idem /\ Update(d, r.op).db.evseq = d.evseq
        /\ Update(d, r.op).db.events = d.events /\ Update(d, r.op).db.evid = d.evid
    BY <2>1 DEF Update, Fail, Keyspace
  <2> QED  BY <1>2, <2>1, <2>2, <2>3 DEF KeyKept, LogWritten, Inserting
<1>3. CASE r.kind = "delete"
  <2>1. Body(d, r) = Delete(d, r.op) /\ r.op \in Ids
    BY <1>3, RequestKinds DEF Body
  <2>2. Delete(d, r.op).db \in Keyspace
    BY <2>1, DeleteType
  <2>3. /\ Delete(d, r.op).db.idem = d.idem /\ Delete(d, r.op).db.evseq = d.evseq
        /\ Delete(d, r.op).db.events = d.events /\ Delete(d, r.op).db.evid = d.evid
    BY <2>1 DEF Delete, Keyspace
  <2> QED  BY <1>3, <2>1, <2>2, <2>3 DEF KeyKept, LogWritten, Inserting
<1>4. CASE r.kind = "event"
  <2>1. Body(d, r) = AppendEvent(d, r.op) /\ r.op \in Payloads /\ d.evseq < MaxSeq
    BY <1>4, RequestKinds DEF Body, InBound
  <2>2. AppendEvent(d, r.op).db \in Keyspace
    BY <2>1, AppendEventType
  <2>3. /\ AppendEvent(d, r.op).db.idem = d.idem /\ AppendEvent(d, r.op).db.evseq = d.evseq + 1
        /\ AppendEvent(d, r.op).db.events = [d.events EXCEPT ![d.evseq + 1] = r.op]
        /\ AppendEvent(d, r.op).db.evid = d.evid /\ AppendEvent(d, r.op).res.seq = d.evseq + 1
    BY <2>1 DEF AppendEvent, Keyspace
  <2> QED  BY <1>4, <2>1, <2>2, <2>3 DEF KeyKept, LogWritten, Inserting
<1>5. CASE r.kind = "evidence"
  <2>1. Body(d, r) = StoreEvidence(d, r.op) /\ r.op \in Payloads
    BY <1>5, RequestKinds DEF Body
  <2>2. StoreEvidence(d, r.op).db \in Keyspace
    BY <2>1, StoreEvidenceType
  <2>3. /\ StoreEvidence(d, r.op).db.idem = d.idem /\ StoreEvidence(d, r.op).db.evseq = d.evseq
        /\ StoreEvidence(d, r.op).db.events = d.events
        /\ StoreEvidence(d, r.op).db.evid = Append(d.evid, r.op)
    BY <2>1 DEF StoreEvidence, Keyspace
  <2> QED  BY <1>5, <2>1, <2>2, <2>3 DEF KeyKept, LogWritten, Inserting
<1>6. CASE r.kind = "migration"
  <2>1. Body(d, r) = RecordMigration(d, r.op) /\ r.op \in Migrations
    BY <1>6, RequestKinds DEF Body
  <2>2. RecordMigration(d, r.op).db \in Keyspace
    BY <2>1, RecordMigrationType
  <2>3. /\ RecordMigration(d, r.op).db.idem = d.idem /\ RecordMigration(d, r.op).db.evseq = d.evseq
        /\ RecordMigration(d, r.op).db.events = d.events /\ RecordMigration(d, r.op).db.evid = d.evid
    BY <2>1 DEF RecordMigration, Keyspace
  <2> QED  BY <1>6, <2>1, <2>2, <2>3 DEF KeyKept, LogWritten, Inserting
<1> QED  BY <1>1, <1>2, <1>3, <1>4, <1>5, <1>6, RequestKinds

(* A commit writes the changed keys over the keyspace that is there.        *)
KeysWritten(s, w, d, b) ==
    /\ b.idem = [k \in Keys |-> Put(s.idem[k], w.idem[k], d.idem[k])]
    /\ b.events = [n \in Seqs |-> Put(s.events[n], w.events[n], d.events[n])]
    /\ b.evseq = Put(s.evseq, w.evseq, d.evseq)
    /\ b.evid = Put(s.evid, w.evid, d.evid)

RowsWritten(s, w, d, b) ==
    /\ b.ents = [i \in Ids |-> Put(s.ents[i], w.ents[i], d.ents[i])]
    /\ b.uniq = [x \in Indexes |-> [v \in Values |-> Put(s.uniq[x][v], w.uniq[x][v], d.uniq[x][v])]]

LedgerWritten(s, w, d, b) ==
    b.ledger = {m \in Migrations : IF m \in w.ledger <=> m \in s.ledger THEN m \in d.ledger
                                   ELSE m \in w.ledger}

LEMMA PutBoolean ==
    ASSUME NEW a \in BOOLEAN, NEW b \in BOOLEAN, NEW c \in BOOLEAN
    PROVE  Put(a, b, c) <=> IF b <=> a THEN c ELSE b
BY DEF Put

LEMMA WrittenFields ==
    ASSUME NEW s \in Keyspace, NEW w \in Keyspace, NEW d \in Keyspace
    PROVE  /\ Written(s, w, d) \in Keyspace
           /\ KeysWritten(s, w, d, Written(s, w, d))
           /\ RowsWritten(s, w, d, Written(s, w, d))
           /\ LedgerWritten(s, w, d, Written(s, w, d))
<1> DEFINE ents == [i \in Ids |-> Put(s.ents[i], w.ents[i], d.ents[i])]
           uniq == [x \in Indexes |-> [v \in Values |-> Put(s.uniq[x][v], w.uniq[x][v], d.uniq[x][v])]]
           idem == [k \in Keys |-> Put(s.idem[k], w.idem[k], d.idem[k])]
           events == [n \in Seqs |-> Put(s.events[n], w.events[n], d.events[n])]
           kept == [m \in Migrations |-> Put(m \in s.ledger, m \in w.ledger, m \in d.ledger)]
           ledger == {m \in Migrations : kept[m]}
           schema == Put(s.schema, w.schema, d.schema)
           idseq == Put(s.idseq, w.idseq, d.idseq)
           evseq == Put(s.evseq, w.evseq, d.evseq)
           evid == Put(s.evid, w.evid, d.evid)
<1>1. Written(s, w, d) = [schema |-> schema, ents |-> ents, uniq |-> uniq, idem |-> idem,
                          idseq |-> idseq, events |-> events, evseq |-> evseq, evid |-> evid,
                          ledger |-> ledger]
  <2> DEFINE b == WriteBack(s, w, d)
             rest == [schema |-> schema, ents |-> ents, uniq |-> uniq, idem |-> idem,
                      idseq |-> idseq, events |-> events, evseq |-> evseq, evid |-> evid,
                      ledger |-> kept]
  <2>1. b = rest
    BY DEF WriteBack
  <2>2. b.ledger = kept
    BY <2>1
  <2>3. Written(s, w, d) = [rest EXCEPT !.ledger = ledger]
    BY <2>1, <2>2 DEF Written
  <2> HIDE DEF ents, uniq, idem, events, kept, ledger, schema, idseq, evseq, evid
  <2> QED  BY <2>3
<1>2. ents \in [Ids -> Row]
  BY DEF Keyspace, Put
<1>3. uniq \in [Indexes -> [Values -> Ids \cup {NoId}]]
  BY DEF Keyspace, Put
<1>4. idem \in [Keys -> Record \cup {NoRecord}] /\ events \in [Seqs -> Payloads \cup {NoPayload}]
  BY DEF Keyspace, Put
<1>5. /\ schema \in BOOLEAN /\ idseq \in Nat \cup {NoId} /\ evseq \in 0 .. MaxSeq
      /\ evid \in Seq(Payloads) /\ ledger \subseteq Migrations
  BY DEF Keyspace, Put
<1> HIDE DEF ents, uniq, idem, events, ledger, schema, idseq, evseq, evid
<1>6. Written(s, w, d) \in Keyspace
  BY <1>1, <1>2, <1>3, <1>4, <1>5 DEF Keyspace
<1>7. /\ Written(s, w, d).idem = idem /\ Written(s, w, d).events = events
      /\ Written(s, w, d).evseq = evseq /\ Written(s, w, d).evid = evid
      /\ Written(s, w, d).ents = ents /\ Written(s, w, d).uniq = uniq /\ Written(s, w, d).ledger = ledger
  BY <1>1
<1>8. ledger = {m \in Migrations : IF m \in w.ledger <=> m \in s.ledger THEN m \in d.ledger
                                     ELSE m \in w.ledger}
  <2>1. ASSUME NEW m \in Migrations
        PROVE  kept[m] <=> IF m \in w.ledger <=> m \in s.ledger THEN m \in d.ledger ELSE m \in w.ledger
    <3>1. kept[m] = Put(m \in s.ledger, m \in w.ledger, m \in d.ledger)
      BY Zenon DEF kept
    <3>2. /\ (m \in s.ledger) \in BOOLEAN /\ (m \in w.ledger) \in BOOLEAN
          /\ (m \in d.ledger) \in BOOLEAN
      OBVIOUS
    <3>3. Put(m \in s.ledger, m \in w.ledger, m \in d.ledger)
             <=> IF m \in w.ledger <=> m \in s.ledger THEN m \in d.ledger ELSE m \in w.ledger
      BY <3>2, PutBoolean, Zenon
    <3> QED  BY <3>1, <3>3, Zenon
  <2> HIDE DEF kept
  <2> QED  BY <2>1 DEF ledger
<1> QED  BY <1>6, <1>7, <1>8 DEF KeysWritten, RowsWritten, LedgerWritten, idem, events, evseq, evid, ents, uniq

-----------------------------------------------------------------------------
(* Steps without a commit.                                                  *)
Still(d) ==
    /\ pc'[d] = pc[d] /\ req'[d] = req[d] /\ ans'[d] = ans[d] /\ did'[d] = did[d]
    /\ tx'[d].snap = tx[d].snap

QuietStep(c) ==
    \/ Call(c) \/ Resend(c) \/ PoolGet(c) \/ PoolTimeout(c) \/ Begin(c) \/ Refuse(c)
    \/ RetryAgain(c) \/ GiveUp(c)
    \/ Committing(c) /\ Rollback(c) /\ Answer(c, Unknown) /\ UNCHANGED <<req, attempt, resends>>

LEMMA Codes == NoAnswer.code # "ok" /\ Error.code # "ok" /\ Unknown.code # "ok"
BY DEF NoAnswer, Error, Unknown

LEMMA QuietTypes ==
    ASSUME PgTypes, NEW c \in Clients, QuietStep(c)
    PROVE  UNCHANGED store /\ PgTypes'
<1> DEFINE Txs(t) == /\ t = [e \in Clients |-> t[e]]
                     /\ \A e \in Clients : /\ t[e] = [snap |-> t[e].snap, since |-> t[e].since]
                                           /\ t[e].snap \in Keyspace
<1>0. UNCHANGED store
  BY DEF QuietStep, Call, Resend, PoolGet, PoolTimeout, Begin, Refuse, RetryAgain, GiveUp, Rollback
<1>1. pc' \in [Clients -> {"idle", "waiting", "begin", "open", "done"}]
  BY DEF PgTypes, QuietStep, Call, Resend, PoolGet, PoolTimeout, Begin, Refuse, RetryAgain, GiveUp, Answer
<1>2. req' \in [Clients -> Requests \cup {NoRequest}]
  BY DEF PgTypes, QuietStep, Call, Resend, PoolGet, PoolTimeout, Begin, Refuse, RetryAgain, GiveUp
<1>3. attempt' \in [Clients -> 0 .. MaxAttempts] /\ resends' \in 0 .. MaxResends
  <2>1. \/ attempt' = attempt \/ attempt' = [attempt EXCEPT ![c] = 0] \/ attempt' = [attempt EXCEPT ![c] = 1]
        \/ attempt[c] < MaxAttempts /\ attempt' = [attempt EXCEPT ![c] = @ + 1]
    BY DEF QuietStep, Call, Resend, PoolGet, PoolTimeout, Begin, Refuse, RetryAgain, GiveUp
  <2>2. resends' = resends \/ (resends < MaxResends /\ resends' = resends + 1)
    BY DEF QuietStep, Call, Resend, PoolGet, PoolTimeout, Begin, Refuse, RetryAgain, GiveUp
  <2> QED  BY <2>1, <2>2, PgAssumption DEF PgTypes
<1>4. did' \in [Clients -> Nat] /\ ans' = [e \in Clients |-> ans'[e]]
  <2>1. did' = did \/ did' = [did EXCEPT ![c] = 0]
    BY DEF QuietStep, Call, Resend, PoolGet, PoolTimeout, Begin, Refuse, RetryAgain, GiveUp, Rollback
  <2>2. ans' = ans \/ \E a : ans' = [ans EXCEPT ![c] = a]
    BY DEF QuietStep, Call, Resend, PoolGet, PoolTimeout, Begin, Refuse, RetryAgain, GiveUp, Answer
  <2>3. did' \in [Clients -> Nat]
    BY <2>1 DEF PgTypes
  <2>4. ans' = [e \in Clients |-> ans'[e]]
    BY <2>2 DEF PgTypes
  <2> QED  BY <2>3, <2>4
<1>5. Txs(tx')
  <2>1. \/ tx' = tx \/ tx' = [tx EXCEPT ![c] = NoTx]
        \/ tx' = [tx EXCEPT ![c] = [snap |-> db, since |-> << >>]]
    BY DEF QuietStep, Call, Resend, PoolGet, PoolTimeout, Begin, Refuse, RetryAgain, GiveUp, Rollback
  <2>2. NoTx = [snap |-> NoTx.snap, since |-> NoTx.since] /\ NoTx.snap \in Keyspace
    BY EmptyType DEF NoTx
  <2>3. ASSUME NEW n, n = [snap |-> n.snap, since |-> n.since], n.snap \in Keyspace,
               tx' = [tx EXCEPT ![c] = n]
        PROVE  Txs(tx')
    <3>1. tx' = [e \in Clients |-> tx'[e]]
      BY <2>3 DEF PgTypes
    <3>2. \A e \in Clients : /\ tx'[e] = [snap |-> tx'[e].snap, since |-> tx'[e].since]
                             /\ tx'[e].snap \in Keyspace
      BY <2>3 DEF PgTypes
    <3> QED  BY <3>1, <3>2
  <2>4. CASE tx' = [tx EXCEPT ![c] = [snap |-> db, since |-> << >>]]
    <3> DEFINE n == [snap |-> db, since |-> << >>]
    <3>1. n = [snap |-> n.snap, since |-> n.since] /\ n.snap \in Keyspace
      BY DEF PgTypes
    <3> HIDE DEF n, Txs
    <3> QED  BY <2>3, <2>4, <3>1 DEF n
  <2>5. CASE tx' = tx
    BY <2>5 DEF PgTypes
  <2> HIDE DEF Txs
  <2> QED  BY <2>1, <2>2, <2>3, <2>4, <2>5
<1> QED  BY <1>0, <1>1, <1>2, <1>3, <1>4, <1>5 DEF PgTypes, store

LEMMA QuietCall ==
    ASSUME PgTypes, NEW c \in Clients, Served(c), QuietStep(c)
    PROVE  /\ \A d \in Clients \ {c} : Still(d)
           /\ Served(c)'
           /\ ans'[c].code = "ok" => ans'[c] = ans[c] /\ req'[c] = req[c]
           /\ pc'[c] = "open" => tx'[c].snap = db
<1> USE DEF PgTypes, Served, Still
<1>1. CASE Call(c)
  <2>1. \E r \in Requests : req' = [req EXCEPT ![c] = r]
    BY <1>1 DEF Call
  <2>2. pc[c] = "idle" /\ pc'[c] = "waiting" /\ UNCHANGED <<tx, ans, did>> /\ req'[c] \in Requests
    BY <1>1, <2>1 DEF Call
  <2>3. \A d \in Clients \ {c} : Still(d)
    BY <1>1, <2>1 DEF Call
  <2> QED  BY <2>2, <2>3, Codes
<1>2. CASE Resend(c)
  BY <1>2, Codes DEF Resend
<1>3. CASE PoolGet(c)
  BY <1>3 DEF PoolGet
<1>4. CASE PoolTimeout(c)
  BY <1>4, Codes DEF PoolTimeout, Answer
<1>5. CASE Begin(c)
  BY <1>5 DEF Begin
<1>6. CASE Refuse(c)
  BY <1>6, Codes DEF Refuse, Answer, Rollback
<1>7. CASE RetryAgain(c)
  BY <1>7 DEF RetryAgain, Rollback
<1>8. CASE GiveUp(c)
  BY <1>8, Codes DEF GiveUp, Answer, Rollback
<1>9. CASE Committing(c) /\ Rollback(c) /\ Answer(c, Unknown) /\ UNCHANGED <<req, attempt, resends>>
  BY <1>9, Codes DEF Committing, Answer, Rollback
<1> QED  BY <1>1, <1>2, <1>3, <1>4, <1>5, <1>6, <1>7, <1>8, <1>9 DEF QuietStep

LEMMA QuietInv ==
    ASSUME PgInv, NEW c \in Clients, QuietStep(c)
    PROVE  PgInv'
<1>1. UNCHANGED <<db, issued, autos, born>> /\ PgTypes'
  BY QuietTypes DEF PgInv, store
<1>2. /\ \A d \in Clients \ {c} : Still(d)
      /\ Served(c)'
      /\ ans'[c].code = "ok" => ans'[c] = ans[c] /\ req'[c] = req[c]
      /\ pc'[c] = "open" => tx'[c].snap = db
  BY QuietCall DEF PgInv
<1>3. ASSUME NEW d \in Clients PROVE ans'[d].code = "ok" => ans'[d] = ans[d] /\ req'[d] = req[d]
  BY <1>2 DEF Still
<1>4. ASSUME NEW d \in Clients PROVE Served(d)'
  BY <1>2 DEF Still, Served, PgInv
<1>5. ASSUME NEW d \in Clients PROVE SnapInv(d)'
  <2>1. CASE d = c
    BY <1>1, <1>2, <2>1 DEF SnapInv, PgInv, LogInv
  <2>2. CASE d # c
    BY <1>1, <1>2, <2>2 DEF SnapInv, PgInv, Still
  <2> QED  BY <2>1, <2>2
<1>6. ASSUME NEW d \in Clients PROVE Held(d)'
  BY <1>1, <1>3 DEF Held, HasEvent, PgInv
<1>7. BornInv'
  BY <1>1 DEF BornInv, PgInv
<1>8. LogInv'
  <2>1. \A d, e \in Clients : (HasEvent(d) /\ HasEvent(e) /\ d # e => ans[d].seq # ans[e].seq)'
    BY <1>3 DEF HasEvent, PgInv, LogInv
  <2>2. Evidenced' \subseteq Evidenced
    BY <1>3 DEF Evidenced
  <2>3. Cardinality(Evidenced') <= Len(db'.evid)
    <3>1. IsFiniteSet(Evidenced)
      BY PgAssumption, FS_Subset DEF Evidenced
    <3>2. /\ Cardinality(Evidenced') <= Cardinality(Evidenced)
          /\ Cardinality(Evidenced') \in Nat /\ Cardinality(Evidenced) \in Nat
      BY <2>2, <3>1, FS_Subset, FS_CardinalityType
    <3>3. db.evid \in Seq(Payloads)
      BY DEF PgInv, PgTypes, Keyspace
    <3> QED  BY <1>1, <3>2, <3>3 DEF PgInv, LogInv
  <2> QED  BY <1>1, <2>1, <2>3 DEF PgInv, LogInv, StreamEnds
<1> QED  BY <1>1, <1>4, <1>5, <1>6, <1>7, <1>8 DEF PgInv

-----------------------------------------------------------------------------
(* A COMMIT that is carried out, whether or not its answer arrives.         *)
CommitStep(c) ==
    /\ Committing(c) /\ Admitted(c) /\ Commits(c)
    /\ Answer(c, Result(c).res) \/ Answer(c, Unknown)
    /\ UNCHANGED <<req, attempt, resends>>

(* The transaction's own part in the keyspace, and the others' left alone.  *)
LEMMA CommitKeyspace ==
    ASSUME PgTypes, NEW c \in Clients, Served(c), CommitStep(c)
    PROVE  /\ req[c] \in Requests /\ tx[c].snap \in Keyspace /\ Result(c).db \in Keyspace
           /\ KeyWritten(tx[c].snap, req[c]) \/ KeyKept(tx[c].snap, req[c])
           /\ LogWritten(tx[c].snap, req[c])
           /\ db' = Effect(c) /\ db' \in Keyspace
           /\ db'.idem = [k \in Keys |-> Put(tx[c].snap.idem[k], Result(c).db.idem[k], db.idem[k])]
           /\ db'.events = [n \in Seqs |->
                               Put(tx[c].snap.events[n], Result(c).db.events[n], db.events[n])]
           /\ db'.evseq = Put(tx[c].snap.evseq, Result(c).db.evseq, db.evseq)
           /\ db'.evid = Put(tx[c].snap.evid, Result(c).db.evid, db.evid)
           /\ \A k \in Keys : ~Lost(tx[c].snap.idem[k], Result(c).db.idem[k], db.idem[k])
           /\ ~Lost(tx[c].snap.evseq, Result(c).db.evseq, db.evseq)
           /\ ~Lost(tx[c].snap.evid, Result(c).db.evid, db.evid)
<1>1. /\ req[c] \in Requests /\ tx[c].snap \in Keyspace /\ InBound(tx[c].snap, req[c])
      /\ Body(tx[c].snap, req[c]).res.code = "ok" /\ db \in Keyspace
  BY DEF CommitStep, Committing, Served, PgTypes, Result
<1>2. /\ Result(c).db \in Keyspace
      /\ KeyWritten(tx[c].snap, req[c]) \/ KeyKept(tx[c].snap, req[c])
      /\ LogWritten(tx[c].snap, req[c])
  BY <1>1, Bodies DEF Result
<1>3. db' = Effect(c)
  BY DEF CommitStep, Commits
<1>4. ~Overwrites(tx[c].snap, Result(c).db, db)
  BY DEF CommitStep, Admitted
<1>5. /\ db' \in Keyspace
      /\ db'.idem = [k \in Keys |-> Put(tx[c].snap.idem[k], Result(c).db.idem[k], db.idem[k])]
      /\ db'.events = [n \in Seqs |->
                          Put(tx[c].snap.events[n], Result(c).db.events[n], db.events[n])]
      /\ db'.evseq = Put(tx[c].snap.evseq, Result(c).db.evseq, db.evseq)
      /\ db'.evid = Put(tx[c].snap.evid, Result(c).db.evid, db.evid)
  BY <1>1, <1>2, <1>3, WrittenFields DEF Effect, KeysWritten
<1>6. /\ \A k \in Keys : ~Lost(tx[c].snap.idem[k], Result(c).db.idem[k], db.idem[k])
      /\ ~Lost(tx[c].snap.evseq, Result(c).db.evseq, db.evseq)
      /\ ~Lost(tx[c].snap.evid, Result(c).db.evid, db.evid)
  BY <1>4 DEF Overwrites
<1> QED  BY <1>1, <1>2, <1>3, <1>5, <1>6

(* What it does to the calls.                                               *)
LEMMA CommitCalls ==
    ASSUME PgTypes, NEW c \in Clients, Served(c), CommitStep(c)
    PROVE  /\ \A d \in Clients \ {c} : Still(d)
           /\ pc'[c] = "done" /\ did'[c] = 1 /\ req' = req
           /\ ans'[c] = Result(c).res \/ ans'[c] = Unknown
           /\ Served(c)'
           /\ Result(c).res.code = "ok"
           /\ born' = [k \in Keys |->
                 IF Inserting(tx[c].snap, req[c]) /\ req[c].op.key = k THEN born[k] + 1 ELSE born[k]]
<1>1. /\ pc[c] = "open" /\ did[c] = 0 /\ Result(c).res.code = "ok" /\ req[c] \in Requests
  BY DEF CommitStep, Committing, Served
<1>2. /\ pc' = [pc EXCEPT ![c] = "done"] /\ UNCHANGED <<req, attempt, resends>>
      /\ ans' = [ans EXCEPT ![c] = Result(c).res] \/ ans' = [ans EXCEPT ![c] = Unknown]
  BY DEF CommitStep, Answer
<1>3. /\ did' = [did EXCEPT ![c] = @ + 1]
      /\ tx' = [e \in Clients |->
                  IF e = c THEN NoTx
                  ELSE IF pc[e] = "open" THEN [tx[e] EXCEPT !.since = Append(@, Done(c))]
                  ELSE tx[e]]
      /\ born' = [k \in Keys |->
            IF Inserting(tx[c].snap, req[c]) /\ req[c].op.key = k THEN born[k] + 1 ELSE born[k]]
  BY DEF CommitStep, Commits, Inserting
<1>4. \A d \in Clients \ {c} : pc'[d] = pc[d] /\ req'[d] = req[d] /\ ans'[d] = ans[d] /\ did'[d] = did[d]
  BY <1>2, <1>3 DEF PgTypes
<1>5. \A d \in Clients \ {c} : tx'[d].snap = tx[d].snap
  BY <1>3 DEF PgTypes
<1>6. pc'[c] = "done" /\ did'[c] = 1 /\ (ans'[c] = Result(c).res \/ ans'[c] = Unknown)
  BY <1>1, <1>2, <1>3 DEF PgTypes
<1>7. Served(c)'
  BY <1>1, <1>2, <1>6 DEF Served
<1> QED  BY <1>1, <1>2, <1>3, <1>4, <1>5, <1>6, <1>7 DEF Still

LEMMA CommitTypes ==
    ASSUME PgTypes, NEW c \in Clients, Served(c), CommitStep(c)
    PROVE  PgTypes'
<1>1. db' \in Keyspace /\ req[c] \in Requests /\ tx[c].snap \in Keyspace
  BY CommitKeyspace
<1>2. /\ pc' = [pc EXCEPT ![c] = "done"] /\ UNCHANGED <<req, attempt, resends>>
      /\ ans' = [ans EXCEPT ![c] = Result(c).res] \/ ans' = [ans EXCEPT ![c] = Unknown]
  BY DEF CommitStep, Answer
<1>3. did' = [did EXCEPT ![c] = @ + 1]
  BY DEF CommitStep, Commits
<1>4. born' \in [Keys -> Nat]
  <2>1. born' = [k \in Keys |->
           IF Inserting(tx[c].snap, req[c]) /\ req[c].op.key = k THEN born[k] + 1 ELSE born[k]]
    BY CommitCalls
  <2> QED  BY <2>1 DEF PgTypes
<1>5. issued' \subseteq Ids /\ autos' \in Nat
  <2>1. CASE Inserting(tx[c].snap, req[c])
    <3>1. Result(c).res.rec \in Record
      BY <2>1, CommitKeyspace DEF KeyWritten, KeyKept, Result
    <3>2. Result(c).res.rec.id \in Ids
      BY <3>1 DEF Record
    <3> QED  BY <3>2 DEF CommitStep, Commits, PgTypes
  <2>2. CASE ~Inserting(tx[c].snap, req[c])
    BY <2>2 DEF CommitStep, Commits, PgTypes, Inserting
  <2> QED  BY <2>1, <2>2
<1>6. /\ tx' = [e \in Clients |-> tx'[e]]
      /\ \A e \in Clients : /\ tx'[e] = [snap |-> tx'[e].snap, since |-> tx'[e].since]
                            /\ tx'[e].snap \in Keyspace
  <2>1. tx' = [e \in Clients |->
                  IF e = c THEN NoTx
                  ELSE IF pc[e] = "open" THEN [tx[e] EXCEPT !.since = Append(@, Done(c))]
                  ELSE tx[e]]
    BY DEF CommitStep, Commits
  <2>2. ASSUME NEW e \in Clients
        PROVE  tx'[e] = [snap |-> tx'[e].snap, since |-> tx'[e].since] /\ tx'[e].snap \in Keyspace
    <3>1. NoTx = [snap |-> NoTx.snap, since |-> NoTx.since] /\ NoTx.snap \in Keyspace
      BY EmptyType DEF NoTx
    <3> DEFINE a == Append(tx[e].since, Done(c))
    <3>2. tx[e] = [snap |-> tx[e].snap, since |-> tx[e].since] /\ tx[e].snap \in Keyspace
      BY DEF PgTypes
    <3>3. [tx[e] EXCEPT !.since = a] = [snap |-> tx[e].snap, since |-> a]
      <4> HIDE DEF a
      <4> QED  BY <3>2
    <3>4. tx'[e] = NoTx \/ tx'[e] = [tx[e] EXCEPT !.since = a] \/ tx'[e] = tx[e]
      BY <2>1
    <3> HIDE DEF a
    <3> QED  BY <3>1, <3>2, <3>3, <3>4
  <2>3. tx' = [e \in Clients |-> tx'[e]]
    BY <2>1
  <2> QED  BY <2>2, <2>3
<1>7. ans' = [e \in Clients |-> ans'[e]]
  BY <1>2 DEF PgTypes
<1>8. /\ pc' \in [Clients -> {"idle", "waiting", "begin", "open", "done"}]
      /\ req' \in [Clients -> Requests \cup {NoRequest}]
      /\ did' \in [Clients -> Nat]
      /\ attempt' \in [Clients -> 0 .. MaxAttempts] /\ resends' \in 0 .. MaxResends
  BY <1>2, <1>3 DEF PgTypes
<1> QED  BY <1>1, <1>4, <1>5, <1>6, <1>7, <1>8 DEF PgTypes

(* An answer under a key is written once, by the transaction that inserts.  *)
LEMMA CommitKeys ==
    ASSUME PgTypes, BornInv, NEW c \in Clients, Served(c), SnapInv(c), CommitStep(c)
    PROVE  /\ \A k \in Keys : db.idem[k] # NoRecord => db'.idem[k] = db.idem[k]
           /\ BornInv'
           /\ Result(c).res.code = "ok" /\ req[c].kind = "create" /\ req[c].op.ret = 0
              /\ req[c].op.key \in Keys
              => db'.idem[req[c].op.key] # NoRecord /\ Result(c).res = Ok(db'.idem[req[c].op.key])
<1> DEFINE s == tx[c].snap
           w == Result(c).db
           r == req[c]
<1>1. /\ KeyWritten(s, r) \/ KeyKept(s, r)
      /\ db'.idem = [k \in Keys |-> Put(s.idem[k], w.idem[k], db.idem[k])]
      /\ \A k \in Keys : ~Lost(s.idem[k], w.idem[k], db.idem[k])
      /\ db' \in Keyspace
  BY CommitKeyspace
<1>2. \A k \in Keys : s.idem[k] # NoRecord => db.idem[k] = s.idem[k]
  BY DEF CommitStep, Committing, SnapInv
<1>3. born' = [k \in Keys |-> IF Inserting(s, r) /\ r.op.key = k THEN born[k] + 1 ELSE born[k]]
  BY CommitCalls
<1>4. NoRecord \notin Record
  BY BoundsAssumption DEF NoRecord, Record, Ids, NoId
<1>5. CASE KeyKept(s, r)
  <2>1. w.idem = s.idem /\ ~Inserting(s, r)
    BY <1>5 DEF KeyKept, Result
  <2>2. \A k \in Keys : db'.idem[k] = db.idem[k]
    BY <1>1, <2>1 DEF Put
  <2>3. BornInv'
    BY <1>3, <2>1, <2>2 DEF BornInv, PgTypes
  <2>4. ASSUME r.kind = "create", r.op.ret = 0, r.op.key \in Keys
        PROVE  db'.idem[r.op.key] # NoRecord /\ Result(c).res = Ok(db'.idem[r.op.key])
    <3>1. s.idem[r.op.key] # NoRecord /\ Result(c).res = Ok(s.idem[r.op.key])
      BY <1>5, <2>4 DEF KeyKept, Result
    <3> QED  BY <1>2, <2>2, <2>4, <3>1
  <2> QED  BY <2>2, <2>3, <2>4
<1>6. CASE KeyWritten(s, r)
  <2> DEFINE new == Result(c).res.rec
  <2>1. /\ Inserting(s, r) /\ new \in Record /\ Result(c).res = Ok(new) /\ new # NoRecord
        /\ w.idem = [k \in Keys |-> IF k = r.op.key THEN new ELSE s.idem[k]]
        /\ r.op.key \in Keys => s.idem[r.op.key] = NoRecord
    BY <1>4, <1>6 DEF KeyWritten, Result
  <2> HIDE DEF new
  <2>2. \A k \in Keys : k # r.op.key => db'.idem[k] = db.idem[k]
    BY <1>1, <2>1 DEF Put
  <2>3. r.op.key \in Keys => db.idem[r.op.key] = NoRecord /\ db'.idem[r.op.key] = new
    BY <1>1, <2>1, SMTT(60) DEF Put, Lost
  <2>4. BornInv'
    BY <1>3, <2>1, <2>2, <2>3 DEF BornInv, PgTypes
  <2> QED  BY <2>1, <2>2, <2>3, <2>4
<1> QED  BY <1>1, <1>5, <1>6

(* An event takes the next number, an evidence entry the next place.        *)
LEMMA CommitLogs ==
    ASSUME PgTypes, StreamEnds(db), NEW c \in Clients, Served(c), SnapInv(c), CommitStep(c)
    PROVE  /\ StreamEnds(db)'
           /\ IF req[c].kind = "event"
              THEN /\ db'.evseq = db.evseq + 1 /\ Result(c).res.seq = db'.evseq
                   /\ db'.evseq \in Seqs /\ db'.events = [db.events EXCEPT ![db'.evseq] = req[c].op]
              ELSE db'.evseq = db.evseq /\ db'.events = db.events
           /\ Len(db'.evid) = IF req[c].kind = "evidence" THEN Len(db.evid) + 1 ELSE Len(db.evid)
<1> DEFINE s == tx[c].snap
           w == Result(c).db
           r == req[c]
<1>1. /\ LogWritten(s, r) /\ r \in Requests /\ s \in Keyspace /\ w \in Keyspace
      /\ db'.events = [n \in Seqs |-> Put(s.events[n], w.events[n], db.events[n])]
      /\ db'.evseq = Put(s.evseq, w.evseq, db.evseq) /\ db'.evid = Put(s.evid, w.evid, db.evid)
      /\ ~Lost(s.evseq, w.evseq, db.evseq) /\ ~Lost(s.evid, w.evid, db.evid)
  BY CommitKeyspace
<1>2. StreamEnds(s)
  BY DEF CommitStep, Committing, SnapInv
<1>3. /\ db.evseq \in 0 .. MaxSeq /\ db.events \in [Seqs -> Payloads \cup {NoPayload}]
      /\ s.evseq \in 0 .. MaxSeq /\ s.events \in [Seqs -> Payloads \cup {NoPayload}]
      /\ db.evid \in Seq(Payloads) /\ s.evid \in Seq(Payloads)
  BY <1>1 DEF PgTypes, Keyspace
<1>4. IF r.kind = "event"
      THEN /\ db'.evseq = db.evseq + 1 /\ Result(c).res.seq = db'.evseq
           /\ db'.evseq \in Seqs /\ db'.events = [db.events EXCEPT ![db'.evseq] = r.op]
      ELSE db'.evseq = db.evseq /\ db'.events = db.events
  <2>1. CASE r.kind = "event"
    <3>1. /\ s.evseq < MaxSeq /\ Result(c).res.seq = s.evseq + 1 /\ w.evseq = s.evseq + 1
          /\ w.events = [s.events EXCEPT ![s.evseq + 1] = r.op]
      BY <1>1, <2>1 DEF LogWritten, Result
    <3>2. db.evseq = s.evseq /\ db'.evseq = s.evseq + 1
      BY <1>1, <1>3, <3>1 DEF Lost, Put
    <3>3. s.evseq + 1 \in Seqs /\ s.events[s.evseq + 1] = NoPayload /\ r.op # NoPayload
      BY <1>1, <1>2, <1>3, <2>1, <3>1, BoundsAssumption, RequestKinds, SentinelAssumption
         DEF Seqs, StreamEnds
    <3>4. db'.events[s.evseq + 1] = r.op
      BY <1>1, <1>3, <3>1, <3>3 DEF Put
    <3>5. \A n \in Seqs : n # s.evseq + 1 => db'.events[n] = db.events[n]
      BY <1>1, <1>3, <3>1 DEF Put
    <3>6. db'.events = [db.events EXCEPT ![s.evseq + 1] = r.op]
      BY <1>1, <1>3, <3>3, <3>4, <3>5
    <3> QED  BY <2>1, <3>1, <3>2, <3>3, <3>6
  <2>2. CASE r.kind # "event"
    <3>1. w.evseq = s.evseq /\ w.events = s.events
      BY <1>1, <2>2 DEF LogWritten, Result
    <3>2. db'.evseq = db.evseq /\ \A n \in Seqs : db'.events[n] = db.events[n]
      BY <1>1, <3>1 DEF Put
    <3> QED  BY <1>1, <1>3, <2>2, <3>2
  <2> QED  BY <2>1, <2>2
<1>5. StreamEnds(db)'
  <2>1. CASE r.kind = "event"
    <3> DEFINE m == db'.evseq
    <3>1. m = db.evseq + 1 /\ db'.events = [db.events EXCEPT ![m] = r.op] /\ m \in Int
      BY <1>3, <1>4, <2>1
    <3>2. ASSUME NEW n \in Seqs, n > m PROVE db'.events[n] = NoPayload
      <4>1. n > db.evseq /\ n # m
        BY <1>3, <3>1, <3>2 DEF Seqs
      <4> HIDE DEF m
      <4> QED  BY <1>3, <3>1, <4>1 DEF StreamEnds
    <3> QED  BY <3>2 DEF StreamEnds
  <2>2. CASE r.kind # "event"
    BY <1>4, <2>2 DEF StreamEnds
  <2> QED  BY <2>1, <2>2
<1>6. Len(db'.evid) = IF r.kind = "evidence" THEN Len(db.evid) + 1 ELSE Len(db.evid)
  <2>1. CASE r.kind = "evidence"
    <3>1. w.evid = Append(s.evid, r.op) /\ r.op \in Payloads
      BY <1>1, <2>1, RequestKinds DEF LogWritten, Result
    <3>2. w.evid # s.evid /\ Len(w.evid) = Len(s.evid) + 1
      BY <1>3, <3>1
    <3> QED  BY <1>1, <2>1, <3>2 DEF Lost, Put
  <2>2. CASE r.kind # "evidence"
    BY <1>1, <2>2 DEF LogWritten, Result, Put
  <2> QED  BY <2>1, <2>2
<1> QED  BY <1>4, <1>5, <1>6

LEMMA CommitInv ==
    ASSUME PgInv, NEW c \in Clients, CommitStep(c)
    PROVE  PgInv'
<1>0. PgTypes /\ BornInv /\ LogInv /\ StreamEnds(db) /\ \A d \in Clients : Served(d) /\ SnapInv(d) /\ Held(d)
  BY DEF PgInv, LogInv
<1>1. PgTypes'
  BY <1>0, CommitTypes
<1>2. /\ \A d \in Clients \ {c} : Still(d)
      /\ pc'[c] = "done" /\ did'[c] = 1 /\ req' = req
      /\ ans'[c] = Result(c).res \/ ans'[c] = Unknown
      /\ Served(c)'
      /\ Result(c).res.code = "ok"
  BY <1>0, CommitCalls
<1>3. /\ \A k \in Keys : db.idem[k] # NoRecord => db'.idem[k] = db.idem[k]
      /\ BornInv'
      /\ req[c].kind = "create" /\ req[c].op.ret = 0 /\ req[c].op.key \in Keys
          => db'.idem[req[c].op.key] # NoRecord /\ Result(c).res = Ok(db'.idem[req[c].op.key])
  BY <1>0, <1>2, CommitKeys
<1>4. /\ StreamEnds(db)'
      /\ IF req[c].kind = "event"
         THEN /\ db'.evseq = db.evseq + 1 /\ Result(c).res.seq = db'.evseq
              /\ db'.evseq \in Seqs /\ db'.events = [db.events EXCEPT ![db'.evseq] = req[c].op]
         ELSE db'.evseq = db.evseq /\ db'.events = db.events
      /\ Len(db'.evid) = IF req[c].kind = "evidence" THEN Len(db.evid) + 1 ELSE Len(db.evid)
  BY <1>0, CommitLogs
<1>5. ASSUME NEW d \in Clients PROVE Served(d)'
  BY <1>0, <1>2 DEF Still, Served
<1>6. ASSUME NEW d \in Clients PROVE SnapInv(d)'
  <2>1. CASE d = c
    BY <1>2, <2>1 DEF SnapInv
  <2>2. CASE d # c
    BY <1>0, <1>2, <1>3, <2>2 DEF SnapInv, Still, StreamEnds
  <2> QED  BY <2>1, <2>2
<1>e. db.evseq \in Nat /\ db.events \in [Seqs -> Payloads \cup {NoPayload}] /\ db.evid \in Seq(Payloads)
  BY <1>0 DEF PgTypes, Keyspace
<1>7. ASSUME NEW d \in Clients, d # c, HasEvent(d)
      PROVE  /\ ans[d].seq \in 1 .. db.evseq /\ db.events[ans[d].seq] = req[d].op
             /\ ans[d].seq \in 1 .. db'.evseq /\ db'.events[ans[d].seq] = req[d].op
             /\ req[c].kind = "event" => ans[d].seq # Result(c).res.seq
  <2>1. ans[d].seq \in 1 .. db.evseq /\ db.events[ans[d].seq] = req[d].op
    BY <1>0, <1>7 DEF Held
  <2>2. CASE req[c].kind = "event"
    <3> DEFINE m == db'.evseq
    <3>1. /\ m = db.evseq + 1 /\ Result(c).res.seq = m /\ m \in Seqs
          /\ db'.events = [db.events EXCEPT ![m] = req[c].op]
      BY <1>4, <2>2
    <3>2. ans[d].seq \in Seqs /\ ans[d].seq # m /\ ans[d].seq \in 1 .. m
      BY <1>e, <2>1, <3>1, BoundsAssumption DEF Seqs
    <3> HIDE DEF m
    <3>3. db'.events[ans[d].seq] = db.events[ans[d].seq]
      BY <1>e, <3>1, <3>2
    <3> QED  BY <2>1, <3>1, <3>2, <3>3 DEF m
  <2>3. CASE req[c].kind # "event"
    BY <1>4, <2>1, <2>3
  <2> QED  BY <2>1, <2>2, <2>3
<1>8. HasEvent(c)' => /\ ans'[c].seq = db'.evseq /\ db'.evseq \in 1 .. db'.evseq
                      /\ db'.events[db'.evseq] = req[c].op /\ ans'[c].seq = Result(c).res.seq
                      /\ req[c].kind = "event"
  <2> SUFFICES ASSUME HasEvent(c)'
               PROVE  /\ ans'[c].seq = db'.evseq /\ db'.evseq \in 1 .. db'.evseq
                      /\ db'.events[db'.evseq] = req[c].op /\ ans'[c].seq = Result(c).res.seq
                      /\ req[c].kind = "event"
    OBVIOUS
  <2>1. req[c].kind = "event" /\ ans'[c] = Result(c).res
    BY <1>2, Codes DEF HasEvent
  <2> DEFINE m == db'.evseq
  <2>2. Result(c).res.seq = m /\ m \in Seqs /\ db'.events = [db.events EXCEPT ![m] = req[c].op]
    BY <1>4, <2>1
  <2> HIDE DEF m
  <2>3. m \in 1 .. m
    BY <2>2, BoundsAssumption DEF Seqs
  <2>4. db'.events[m] = req[c].op
    BY <1>e, <2>2
  <2> QED  BY <2>1, <2>2, <2>3, <2>4 DEF m
<1>9. ASSUME NEW d \in Clients PROVE Held(d)'
  <2>1. CASE d = c
    <3>1. ans'[c].code = "ok" => ans'[c] = Result(c).res
      BY <1>2, Codes
    <3> QED  BY <1>2, <1>3, <1>8, <2>1, <3>1 DEF Held
  <2>2. CASE d # c
    <3>1. req'[d] = req[d] /\ ans'[d] = ans[d] /\ (HasEvent(d)' => HasEvent(d))
      BY <1>2, <2>2 DEF Still, HasEvent
    <3> QED  BY <1>0, <1>3, <1>7, <2>2, <3>1 DEF Held
  <2> QED  BY <2>1, <2>2
<1>10. LogInv'
  <2>1. ASSUME NEW d \in Clients, NEW e \in Clients, HasEvent(d)', HasEvent(e)', d # e
        PROVE  ans'[d].seq # ans'[e].seq
    <3>1. \A f \in Clients \ {c} : ans'[f] = ans[f] /\ (HasEvent(f)' => HasEvent(f))
      BY <1>2 DEF Still, HasEvent
    <3>2. CASE d # c /\ e # c
      BY <1>0, <2>1, <3>1, <3>2 DEF LogInv
    <3>3. CASE d = c \/ e = c
      BY <1>7, <1>8, <2>1, <3>1, <3>3
    <3> QED  BY <3>2, <3>3
  <2>2. Evidenced' \subseteq Evidenced \cup (IF req[c].kind = "evidence" THEN {c} ELSE {})
    BY <1>2 DEF Evidenced, Still
  <2>3. IsFiniteSet(Evidenced) /\ Cardinality(Evidenced) \in Nat
    BY PgAssumption, FS_Subset, FS_CardinalityType DEF Evidenced
  <2>4. Cardinality(Evidenced') <= Len(db'.evid)
    <3>1. CASE req[c].kind = "evidence"
      <4>1. Evidenced' \subseteq Evidenced \cup {c}
        BY <2>2, <3>1
      <4>2. IsFiniteSet(Evidenced \cup {c}) /\ Cardinality(Evidenced \cup {c}) <= Cardinality(Evidenced) + 1
            /\ Cardinality(Evidenced \cup {c}) \in Nat
        BY <2>3, FS_AddElement, FS_CardinalityType
      <4>3. Cardinality(Evidenced') <= Cardinality(Evidenced \cup {c}) /\ Cardinality(Evidenced') \in Nat
        BY <4>1, <4>2, FS_Subset, FS_CardinalityType
      <4>4. Len(db'.evid) = Len(db.evid) + 1 /\ Len(db.evid) \in Nat
            /\ Cardinality(Evidenced) <= Len(db.evid)
        BY <1>0, <1>4, <1>e, <3>1 DEF LogInv
      <4> QED  BY <2>3, <4>2, <4>3, <4>4
    <3>2. CASE req[c].kind # "evidence"
      <4>1. Evidenced' \subseteq Evidenced
        BY <2>2, <3>2
      <4>2. Cardinality(Evidenced') <= Cardinality(Evidenced) /\ Cardinality(Evidenced') \in Nat
        BY <2>3, <4>1, FS_Subset, FS_CardinalityType
      <4>3. Len(db'.evid) = Len(db.evid) /\ Len(db.evid) \in Nat
            /\ Cardinality(Evidenced) <= Len(db.evid)
        BY <1>0, <1>4, <1>e, <3>2 DEF LogInv
      <4> QED  BY <2>3, <4>2, <4>3
    <3> QED  BY <3>1, <3>2
  <2> QED  BY <1>4, <2>1, <2>4 DEF LogInv
<1> QED  BY <1>1, <1>3, <1>5, <1>6, <1>9, <1>10 DEF PgInv

-----------------------------------------------------------------------------
LEMMA InitPg == Init => PgInv
<1> SUFFICES ASSUME Init PROVE PgInv
  OBVIOUS
<1>1. PgTypes
  <2>1. NoTx = [snap |-> NoTx.snap, since |-> NoTx.since] /\ NoTx.snap \in Keyspace
    BY EmptyType DEF NoTx
  <2> QED  BY <2>1, EmptyType, PgAssumption DEF Init, PgTypes
<1>2. \A c \in Clients : ans[c].code # "ok"
  BY Codes DEF Init
<1>3. ASSUME NEW c \in Clients PROVE Served(c) /\ SnapInv(c) /\ Held(c)
  BY <1>2 DEF Init, Served, SnapInv, Held, HasEvent
<1>4. BornInv /\ StreamEnds(db)
  BY DEF Init, BornInv, StreamEnds, EmptyKeyspace
<1>5. Cardinality(Evidenced) <= Len(db.evid)
  <2>1. Evidenced = {} /\ db.evid = << >>
    BY <1>2 DEF Evidenced, Init, EmptyKeyspace
  <2> QED  BY <2>1, FS_EmptySet
<1> QED  BY <1>1, <1>2, <1>3, <1>4, <1>5 DEF PgInv, LogInv, HasEvent

LEMMA StepPg == PgInv /\ [Next]_vars => PgInv'
<1> SUFFICES ASSUME PgInv, [Next]_vars PROVE PgInv'
  OBVIOUS
<1>1. ASSUME NEW c \in Clients, Call(c) \/ Resend(c) \/ Step(c) PROVE PgInv'
  <2>1. QuietStep(c) \/ CommitStep(c)
    BY <1>1 DEF Step, QuietStep, CommitStep, Commit, CommitLost
  <2> QED  BY <2>1, QuietInv, CommitInv
<1>2. CASE UNCHANGED vars
  <2>1. UNCHANGED <<db, issued, autos, pc, req, tx, attempt, ans, resends, did, born>>
    BY <1>2 DEF vars
  <2>2. PgTypes' /\ BornInv' /\ StreamEnds(db)'
    BY <2>1 DEF PgInv, PgTypes, BornInv, LogInv, StreamEnds
  <2>3. \A d \in Clients : (Served(d) /\ SnapInv(d) /\ Held(d))'
    BY <2>1 DEF PgInv, Served, SnapInv, Held, HasEvent, StreamEnds
  <2>4. LogInv'
    BY <2>1, <2>2 DEF PgInv, LogInv, HasEvent, Evidenced
  <2> QED  BY <2>2, <2>3, <2>4 DEF PgInv
<1> QED  BY <1>1, <1>2 DEF Next

LEMMA PgInvariant == Spec => []PgInv
BY InitPg, StepPg, PTL DEF Spec

(* postgres.rs, enum Failure: whatever collides, is retried, times out or   *)
(* is lost, a call commits at most once and its answer says whether.        *)
THEOREM AnswerSafe == Spec => []AnswerTruth
<1>1. PgInv => AnswerTruth
  BY DEF PgInv, Served, AnswerTruth
<1> QED  BY PgInvariant, <1>1, PTL

(* kv.rs create under concurrent and repeated sends: for any number of      *)
(* threads a key inserts one record, and its callers get the same answer.   *)
THEOREM KeyedSafe == Spec => []KeyedOnce
<1>1. PgInv => KeyedOnce
  <2> SUFFICES ASSUME PgInv PROVE KeyedOnce
    OBVIOUS
  <2>1. \A k \in Keys : born[k] <= 1
    BY DEF PgInv, BornInv
  <2>2. ASSUME NEW c \in Clients, NEW e \in Clients,
               req[c].kind = "create", req[e].kind = "create",
               ans[c].code = "ok", ans[e].code = "ok",
               req[c].op.key = req[e].op.key, req[c].op.key # NoKey,
               req[c].op.ret = 0, req[e].op.ret = 0
        PROVE  ans[c] = ans[e]
    <3>1. req[c] \in Requests
      BY <2>2, Codes DEF PgInv, Served
    <3>2. req[c].op.key \in Keys
      BY <2>2, <3>1, RequestKinds DEF CreateOps
    <3> QED  BY <2>2, <3>2 DEF PgInv, Held
  <2> QED  BY <2>1, <2>2 DEF KeyedOnce
<1> QED  BY PgInvariant, <1>1, PTL

(* kv.rs append_event and store_evidence from any number of threads: no     *)
(* acknowledged event or evidence entry is overwritten.                     *)
THEOREM KeptSafe == Spec => []AcknowledgedKept
<1>1. PgInv => AcknowledgedKept
  <2> SUFFICES ASSUME PgInv PROVE AcknowledgedKept
    OBVIOUS
  <2>1. ASSUME NEW c \in Clients, HasEvent(c) PROVE db.events[ans[c].seq] = req[c].op
    BY <2>1 DEF PgInv, Held
  <2> QED  BY <2>1 DEF AcknowledgedKept, PgInv, LogInv, HasEvent, Evidenced
<1> QED  BY PgInvariant, <1>1, PTL

-----------------------------------------------------------------------------
(* The refinement.  An index entry of a keyspace names the live record that *)
(* holds its value, and every indexed value of a live record has its entry. *)
Indexed(d) ==
    /\ \A x \in Indexes, i \in Ids :
          Live(d, i) /\ d.ents[i].data[x] # Absent => d.uniq[x][d.ents[i].data[x]] = i
    /\ \A x \in Indexes, v \in Values :
          d.uniq[x][v] # NoId => Live(d, d.uniq[x][v]) /\ d.ents[d.uniq[x][v]].data[x] = v

(* A body that writes one row, its index entries, and no others: w is s     *)
(* with the row i replaced, which takes no value of another record.         *)
RowUniq(uniq, i, row) ==
    [x \in Indexes |-> [v \in Values |->
        IF row.ver > 0 /\ row.data[x] = v THEN i
        ELSE IF uniq[x][v] = i THEN NoId ELSE uniq[x][v]]]

WritesRow(s, w, i, row) ==
    /\ i \in Ids /\ row \in Row /\ row # s.ents[i]
    /\ w.ents = [s.ents EXCEPT ![i] = row]
    /\ w.uniq = RowUniq(s.uniq, i, row)
    /\ \A x \in Indexes, v \in Values :
          row.ver > 0 /\ row.data[x] = v => s.uniq[x][v] \in {NoId, i}

WritesNoRow(s, w) == w.ents = s.ents /\ w.uniq = s.uniq

LEMMA SameIndexed ==
    ASSUME NEW d, NEW e, d.ents = e.ents, d.uniq = e.uniq, Indexed(e)
    PROVE  Indexed(d)
<1>1. \A i : Live(d, i) <=> Live(e, i)
  BY DEF Live
<1>2. \A x \in Indexes, i \in Ids :
         Live(d, i) /\ d.ents[i].data[x] # Absent => d.uniq[x][d.ents[i].data[x]] = i
  BY <1>1 DEF Indexed
<1>3. \A x \in Indexes, v \in Values :
         d.uniq[x][v] # NoId => Live(d, d.uniq[x][v]) /\ d.ents[d.uniq[x][v]].data[x] = v
  BY <1>1 DEF Indexed
<1> QED  BY <1>2, <1>3 DEF Indexed

(* Such a write keeps the keyspace indexed, and no other record has a value *)
(* of the row.                                                              *)
LEMMA RowIndexed ==
    ASSUME NEW s \in Keyspace, NEW w \in Keyspace, NEW i, NEW row, Indexed(s), WritesRow(s, w, i, row)
    PROVE  /\ Indexed(w)
           /\ row.ver > 0 => \A x \in Indexes, j \in Ids :
                 j # i /\ Live(s, j) /\ row.data[x] # Absent => s.ents[j].data[x] # row.data[x]
<1>1. /\ i \in Ids /\ row \in Row /\ NoId \notin Ids
      /\ s.ents \in [Ids -> Row] /\ s.uniq \in [Indexes -> [Values -> Ids \cup {NoId}]]
  BY BoundsAssumption DEF WritesRow, Keyspace, Ids, NoId
<1>2. /\ w.ents[i] = row
      /\ \A j \in Ids : j # i => w.ents[j] = s.ents[j]
      /\ \A x \in Indexes, v \in Values :
            w.uniq[x][v] = IF row.ver > 0 /\ row.data[x] = v THEN i
                           ELSE IF s.uniq[x][v] = i THEN NoId ELSE s.uniq[x][v]
  BY <1>1 DEF WritesRow, RowUniq
<1>3. \A r \in Row, x \in Indexes : r.data[x] # Absent => r.data[x] \in Values
  BY DEF Row, Data
<1>4. ASSUME row.ver > 0, NEW x \in Indexes, NEW j \in Ids, j # i, Live(s, j),
             row.data[x] # Absent, s.ents[j].data[x] = row.data[x]
      PROVE  FALSE
  <2>1. row.data[x] \in Values /\ s.uniq[x][row.data[x]] = j
    BY <1>1, <1>3, <1>4 DEF Indexed
  <2> QED  BY <1>1, <1>4, <2>1 DEF WritesRow
<1>5. ASSUME NEW x \in Indexes, NEW j \in Ids, Live(w, j), w.ents[j].data[x] # Absent
      PROVE  w.uniq[x][w.ents[j].data[x]] = j
  <2>1. CASE j = i
    BY <1>1, <1>2, <1>3, <1>5, <2>1 DEF Live
  <2>2. CASE j # i
    <3>1. s.ents[j].data[x] \in Values /\ Live(s, j) /\ w.ents[j] = s.ents[j]
      BY <1>1, <1>2, <1>3, <1>5, <2>2 DEF Live
    <3>2. s.uniq[x][s.ents[j].data[x]] = j
      BY <1>5, <3>1 DEF Indexed
    <3>3. ~(row.ver > 0 /\ row.data[x] = s.ents[j].data[x])
      BY <1>4, <1>5, <2>2, <3>1
    <3> QED  BY <1>2, <2>2, <3>1, <3>2, <3>3
  <2> QED  BY <2>1, <2>2
<1>6. ASSUME NEW x \in Indexes, NEW v \in Values, w.uniq[x][v] # NoId
      PROVE  Live(w, w.uniq[x][v]) /\ w.ents[w.uniq[x][v]].data[x] = v
  <2>1. CASE row.ver > 0 /\ row.data[x] = v
    BY <1>2, <2>1 DEF Live
  <2>2. CASE ~(row.ver > 0 /\ row.data[x] = v)
    <3>1. w.uniq[x][v] = s.uniq[x][v] /\ s.uniq[x][v] # i
      BY <1>2, <1>6, <2>2
    <3>2. s.uniq[x][v] \in Ids /\ Live(s, s.uniq[x][v]) /\ s.ents[s.uniq[x][v]].data[x] = v
      BY <1>1, <1>6, <3>1 DEF Indexed
    <3> QED  BY <1>2, <3>1, <3>2 DEF Live
  <2> QED  BY <2>1, <2>2
<1> QED  BY <1>4, <1>5, <1>6 DEF Indexed

(* First committer wins: the row is as the snapshot had it, so its entries  *)
(* are, and the entries it takes are still free.                            *)
LEMMA RowWritten ==
    ASSUME NEW s \in Keyspace, NEW w \in Keyspace, NEW d \in Keyspace, NEW i, NEW row,
           Indexed(s), Indexed(d), WritesRow(s, w, i, row), ~Overwrites(s, w, d)
    PROVE  d.ents[i] = s.ents[i] /\ WritesRow(d, Written(s, w, d), i, row)
<1> DEFINE b == Written(s, w, d)
<1>1. /\ b.ents = [j \in Ids |-> Put(s.ents[j], w.ents[j], d.ents[j])]
      /\ b.uniq = [x \in Indexes |-> [v \in Values |-> Put(s.uniq[x][v], w.uniq[x][v], d.uniq[x][v])]]
  BY WrittenFields DEF RowsWritten
<1>2. /\ \A j \in Ids : ~Lost(s.ents[j], w.ents[j], d.ents[j])
      /\ \A x \in Indexes, v \in Values : ~Lost(s.uniq[x][v], w.uniq[x][v], d.uniq[x][v])
  BY DEF Overwrites
<1> HIDE DEF b
<1>3. /\ i \in Ids /\ row \in Row /\ NoId \notin Ids
      /\ s.ents \in [Ids -> Row] /\ s.uniq \in [Indexes -> [Values -> Ids \cup {NoId}]]
      /\ d.ents \in [Ids -> Row] /\ d.uniq \in [Indexes -> [Values -> Ids \cup {NoId}]]
  BY BoundsAssumption DEF WritesRow, Keyspace, Ids, NoId
<1>4. /\ w.ents[i] = row /\ row # s.ents[i]
      /\ \A j \in Ids : j # i => w.ents[j] = s.ents[j]
      /\ \A x \in Indexes, v \in Values :
            w.uniq[x][v] = IF row.ver > 0 /\ row.data[x] = v THEN i
                           ELSE IF s.uniq[x][v] = i THEN NoId ELSE s.uniq[x][v]
  BY <1>3 DEF WritesRow, RowUniq
<1>5. d.ents[i] = s.ents[i]
  BY <1>2, <1>3, <1>4 DEF Lost
<1>6. b.ents = [d.ents EXCEPT ![i] = row]
  <2>1. \A j \in Ids : b.ents[j] = IF j = i THEN row ELSE d.ents[j]
    BY <1>1, <1>3, <1>4 DEF Put
  <2> QED  BY <1>1, <1>3, <2>1
<1>7. ASSUME NEW x \in Indexes, NEW v \in Values PROVE d.uniq[x][v] = i <=> s.uniq[x][v] = i
  <2>1. \A e \in {s, d} : e.uniq[x][v] = i <=> Live(e, i) /\ e.ents[i].data[x] = v
    BY <1>3, SentinelAssumption DEF Indexed
  <2> QED  BY <1>5, <2>1 DEF Live
<1>8. ASSUME NEW x \in Indexes, NEW v \in Values
      PROVE  /\ b.uniq[x][v] = IF row.ver > 0 /\ row.data[x] = v THEN i
                               ELSE IF d.uniq[x][v] = i THEN NoId ELSE d.uniq[x][v]
             /\ row.ver > 0 /\ row.data[x] = v => d.uniq[x][v] \in {NoId, i}
  <2>0. b.uniq[x][v] = Put(s.uniq[x][v], w.uniq[x][v], d.uniq[x][v])
    BY <1>1
  <2>1. CASE row.ver > 0 /\ row.data[x] = v
    <3>1. w.uniq[x][v] = i /\ s.uniq[x][v] \in {NoId, i}
      BY <1>4, <2>1 DEF WritesRow
    <3> QED  BY <1>2, <1>7, <2>0, <2>1, <3>1 DEF Put, Lost
  <2>2. CASE ~(row.ver > 0 /\ row.data[x] = v)
    BY <1>3, <1>4, <1>7, <2>0, <2>2 DEF Put
  <2> QED  BY <2>1, <2>2
<1>9. b.uniq = RowUniq(d.uniq, i, row)
  BY <1>1, <1>8 DEF RowUniq
<1> QED  BY <1>3, <1>4, <1>5, <1>6, <1>8, <1>9 DEF WritesRow, b

LEMMA NoRowWritten ==
    ASSUME NEW s \in Keyspace, NEW w \in Keyspace, NEW d \in Keyspace, WritesNoRow(s, w)
    PROVE  WritesNoRow(d, Written(s, w, d))
<1>1. d.ents = [j \in Ids |-> d.ents[j]] /\ d.uniq = [x \in Indexes |-> [v \in Values |-> d.uniq[x][v]]]
  BY DEF Keyspace
<1>2. \A a, c : Put(a, a, c) = c
  BY DEF Put
<1>3. /\ Written(s, w, d).ents = [j \in Ids |-> Put(s.ents[j], s.ents[j], d.ents[j])]
      /\ Written(s, w, d).uniq = [x \in Indexes |-> [v \in Values |->
                                    Put(s.uniq[x][v], s.uniq[x][v], d.uniq[x][v])]]
  BY WrittenFields DEF RowsWritten, WritesNoRow
<1> QED  BY <1>1, <1>2, <1>3 DEF WritesNoRow

-----------------------------------------------------------------------------
(* What a body does to the rows of an indexed keyspace.                     *)
RowCreated(s, w, r, rec) ==
    /\ Inserting(s, r) /\ ~Live(s, rec.id)
    /\ rec = [id |-> rec.id, ver |-> 1, data |-> r.op.data]
    /\ WritesRow(s, w, rec.id, [ver |-> 1, data |-> r.op.data])

RowUpdated(s, w, r) ==
    /\ r.kind = "update" /\ Live(s, r.op.id)
    /\ WritesRow(s, w, r.op.id, [ver |-> s.ents[r.op.id].ver + 1, data |-> Patched(s, r.op)])

RowDeleted(s, w, r) == r.kind = "delete" /\ Live(s, r.op) /\ WritesRow(s, w, r.op, NoRow)

RowKept(s, w, r) == ~Inserting(s, r) /\ WritesNoRow(s, w)

LEMMA CreateRows ==
    ASSUME NamedSets = {Indexes}, AllowReplace = FALSE, NEW s \in Keyspace, Indexed(s),
           NEW r \in Requests, r.kind = "create", InBound(s, r), Body(s, r).res.code = "ok"
    PROVE  RowKept(s, Body(s, r).db, r) \/ RowCreated(s, Body(s, r).db, r, Body(s, r).res.rec)
<1> DEFINE op == r.op
           id == CreateId(s, op)
           row == [ver |-> 1, data |-> op.data]
<1>1. Body(s, r) = Create(s, op)
  BY DEF Body
<1>2. /\ op \in CreateOps(NamedSets) /\ op.named = Indexes /\ op.data \in Data
      /\ op.id = NoId => AutoIdInBound(s)
      /\ op.id \in Ids => ~Live(s, op.id)
      /\ NamedSets \in SUBSET SUBSET Indexes
  BY RequestKinds DEF InBound, CreateOps
<1>3. Replays(s, op) \/ Returns(s, op) \/ Inserts(s, op)
  BY <1>1, <1>2, CreateAnswers
<1>4. CASE Replays(s, op)
  BY <1>1, <1>4, SameInserts DEF RowKept, WritesNoRow, Inserting, Replays, Keyspace
<1>5. CASE Returns(s, op)
  BY <1>1, <1>5, SameInserts DEF RowKept, WritesNoRow, Inserting, Returns, Keyspace
<1>6. CASE Inserts(s, op)
  <2>1. id \in Ids /\ ~Live(s, id)
    <3>1. CASE op.id = NoId
      BY <1>2, <3>1, AutoId DEF CreateId
    <3>2. CASE op.id # NoId
      BY <1>2, <3>2 DEF CreateId, CreateOps
    <3> QED  BY <3>1, <3>2
  <2>2. /\ Body(s, r).res.rec = [id |-> id, ver |-> 1, data |-> op.data]
        /\ Body(s, r).db = CreateWrites(s, op, id)
        /\ Conflicts(s, Indexes, op.data, NoId) = {}
    BY <1>1, <1>2, <1>6 DEF Inserts
  <2>3. Inserting(s, r)
    BY <1>6, SameInserts DEF Inserting, Inserts
  <2>4. /\ Body(s, r).db.ents = [s.ents EXCEPT ![id] = row]
        /\ Body(s, r).db.uniq = WriteUnique(s.uniq, Indexes, op.data, id)
    BY <1>2, <2>1, <2>2, InsertFields
  <2>5. row \in Row /\ row.ver = 1 /\ row.data = op.data /\ row # s.ents[id]
    BY <1>2, <2>1 DEF Row, Live
  <2> HIDE DEF id, row
  <2>6. \A x \in Indexes, v \in Values : s.uniq[x][v] # id
    BY <2>1, BoundsAssumption DEF Indexed, Ids, NoId
  <2>7. WriteUnique(s.uniq, Indexes, op.data, id) = RowUniq(s.uniq, id, row)
    BY <2>5, <2>6 DEF WriteUnique, RowUniq
  <2>8. \A x \in Indexes, v \in Values : op.data[x] = v => s.uniq[x][v] \in {NoId, id}
    <3> SUFFICES ASSUME NEW x \in Indexes, NEW v \in Values, op.data[x] = v, s.uniq[x][v] # NoId
                 PROVE  FALSE
      OBVIOUS
    <3>1. Live(s, s.uniq[x][v])
      BY DEF Indexed
    <3> QED  BY <2>2, <3>1, SentinelAssumption DEF Conflicts
  <2>9. WritesRow(s, Body(s, r).db, id, row)
    BY <2>1, <2>4, <2>5, <2>7, <2>8 DEF WritesRow
  <2> QED  BY <2>1, <2>2, <2>3, <2>9 DEF RowCreated, row
<1> QED  BY <1>3, <1>4, <1>5, <1>6

LEMMA UpdateRows ==
    ASSUME NamedSets = {Indexes}, NEW s \in Keyspace, Indexed(s),
           NEW r \in Requests, r.kind = "update", Body(s, r).res.code = "ok"
    PROVE  RowUpdated(s, Body(s, r).db, r)
<1> DEFINE op == r.op
           old == s.ents[op.id].data
           new == Patched(s, op)
           row == [ver |-> s.ents[op.id].ver + 1, data |-> new]
<1>1. Body(s, r) = Update(s, op) /\ op \in UpdateOps(NamedSets) /\ op.id \in Ids /\ op.named = Indexes
  BY RequestKinds DEF Body, UpdateOps
<1>2. Live(s, op.id) /\ Conflicts(s, Indexes, new, op.id) = {}
  BY <1>1 DEF Update, Fail
<1>3. /\ Body(s, r).db.ents = [s.ents EXCEPT ![op.id] = row]
      /\ Body(s, r).db.uniq = WriteUnique(ReleaseUnique(s.uniq, Indexes, old, new, op.id), Indexes, new, op.id)
  <2> DEFINE u == WriteUnique(ReleaseUnique(s.uniq, Indexes, old, new, op.id), Indexes, new, op.id)
  <2>1. Body(s, r).db = [s EXCEPT !.ents[op.id] = row, !.uniq = u]
    BY <1>1, <1>2 DEF Update
  <2> HIDE DEF u, row
  <2> QED  BY <2>1 DEF Keyspace, u
<1>4. /\ row \in Row /\ row.ver > 0 /\ row.data = new /\ row # s.ents[op.id]
      /\ new \in Data
  BY <1>1 DEF Keyspace, UpdateOps, Row, Patched, Data
<1> HIDE DEF new, row
<1>5. \A x \in Indexes, v \in Values : s.uniq[x][v] = op.id => old[x] = v
  BY <1>1, BoundsAssumption DEF Indexed, Ids, NoId
<1>6. WriteUnique(ReleaseUnique(s.uniq, Indexes, old, new, op.id), Indexes, new, op.id)
         = RowUniq(s.uniq, op.id, row)
  <2>1. \A x \in Indexes, v \in Values :
           (IF new[x] = v THEN op.id
            ELSE IF old[x] = v /\ new[x] # v /\ s.uniq[x][v] = op.id THEN NoId ELSE s.uniq[x][v])
           = IF row.ver > 0 /\ row.data[x] = v THEN op.id
             ELSE IF s.uniq[x][v] = op.id THEN NoId ELSE s.uniq[x][v]
    BY <1>4, <1>5
  <2> QED  BY <1>4, <1>5, <2>1, SMTT(60) DEF WriteUnique, ReleaseUnique, RowUniq
<1>7. \A x \in Indexes, v \in Values : new[x] = v => s.uniq[x][v] \in {NoId, op.id}
  <2> SUFFICES ASSUME NEW x \in Indexes, NEW v \in Values, new[x] = v, s.uniq[x][v] \notin {NoId, op.id}
               PROVE  FALSE
    OBVIOUS
  <2>1. Live(s, s.uniq[x][v])
    BY DEF Indexed
  <2> QED  BY <1>2, <2>1, SentinelAssumption DEF Conflicts
<1>8. WritesRow(s, Body(s, r).db, op.id, row)
  BY <1>1, <1>3, <1>4, <1>6, <1>7 DEF WritesRow
<1> QED  BY <1>2, <1>8 DEF RowUpdated, row, new

LEMMA DeleteRows ==
    ASSUME NEW s \in Keyspace, Indexed(s), NEW r \in Requests, r.kind = "delete"
    PROVE  RowKept(s, Body(s, r).db, r) \/ RowDeleted(s, Body(s, r).db, r)
<1>1. Body(s, r) = Delete(s, r.op) /\ r.op \in Ids /\ ~Inserting(s, r)
  BY RequestKinds DEF Body, Inserting
<1>2. CASE ~Live(s, r.op)
  BY <1>1, <1>2 DEF Delete, RowKept, WritesNoRow
<1>3. CASE Live(s, r.op)
  <2>1. /\ Body(s, r).db.ents = [s.ents EXCEPT ![r.op] = NoRow]
        /\ Body(s, r).db.uniq = ClearUnique(s.uniq, r.op)
    <3> DEFINE u == ClearUnique(s.uniq, r.op)
    <3>1. Body(s, r).db = [s EXCEPT !.ents[r.op] = NoRow, !.uniq = u]
      BY <1>1, <1>3 DEF Delete
    <3> HIDE DEF u
    <3> QED  BY <3>1 DEF Keyspace, u
  <2>2. NoRow \in Row /\ ~(NoRow.ver > 0) /\ NoRow # s.ents[r.op]
    BY <1>3 DEF NoRow, Row, NoData, Data, Live
  <2>3. ClearUnique(s.uniq, r.op) = RowUniq(s.uniq, r.op, NoRow)
    BY <2>2 DEF ClearUnique, RowUniq
  <2> QED  BY <1>1, <1>3, <2>1, <2>2, <2>3 DEF RowDeleted, WritesRow
<1> QED  BY <1>2, <1>3

LEMMA BodyRows ==
    ASSUME NamedSets = {Indexes}, AllowReplace = FALSE, NEW s \in Keyspace, Indexed(s),
           NEW r \in Requests, InBound(s, r), Body(s, r).res.code = "ok"
    PROVE  \/ RowKept(s, Body(s, r).db, r)
           \/ r.kind = "create" /\ RowCreated(s, Body(s, r).db, r, Body(s, r).res.rec)
           \/ RowUpdated(s, Body(s, r).db, r)
           \/ RowDeleted(s, Body(s, r).db, r)
<1>1. CASE r.kind \in {"event", "evidence", "migration"}
  BY <1>1 DEF Body, AppendEvent, StoreEvidence, RecordMigration, RowKept, WritesNoRow, Inserting, Keyspace
<1> QED  BY <1>1, RequestKinds, CreateRows, UpdateRows, DeleteRows

(* And to the ledger: it gains the migration that is recorded.              *)
LEMMA BodyLedger ==
    ASSUME NEW s \in Keyspace, NEW r \in Requests, InBound(s, r), Body(s, r).res.code = "ok"
    PROVE  Body(s, r).db.ledger = IF r.kind = "migration" THEN s.ledger \cup {r.op} ELSE s.ledger
<1>1. CASE r.kind = "create"
  <2>1. r.op \in CreateOps(NamedSets) /\ (r.op.id = NoId => AutoIdInBound(s))
        /\ NamedSets \in SUBSET SUBSET Indexes /\ Body(s, r) = Create(s, r.op)
    BY <1>1, RequestKinds, RequestAssumption DEF InBound, Body
  <2>2. Replays(s, r.op) \/ Returns(s, r.op) \/ Inserts(s, r.op)
    BY <2>1, CreateAnswers
  <2> QED  BY <1>1, <2>1, <2>2 DEF Replays, Returns, Inserts, CreateWrites, Keyspace
<1>2. CASE r.kind = "update"
  BY <1>2 DEF Body, Update, Keyspace
<1>3. CASE r.kind = "delete"
  BY <1>3 DEF Body, Delete, Keyspace
<1>4. CASE r.kind \in {"event", "evidence", "migration"}
  BY <1>4 DEF Body, AppendEvent, StoreEvidence, RecordMigration, Keyspace
<1> QED  BY <1>1, <1>2, <1>3, <1>4, RequestKinds

-----------------------------------------------------------------------------
(* The names of RecordStore stand for those of the keyspace.                *)
LEMMA AbstractNames ==
    /\ KV!Ids = Ids /\ KV!Indexes = Indexes /\ KV!Data = Data
    /\ KV!NoRow = NoRow /\ KV!NoRecord = NoRecord
BY DEF KV!Ids, KV!Indexes, KV!Data, KV!NoRow, KV!NoRecord, KV!NoData, KV!NoId,
       Ids, Indexes, Data, NoRow, NoRecord, NoData, NoId

(* The row that a COMMIT writes, or that it writes none, over the keyspace  *)
(* that is there.                                                           *)
LEMMA CommitRows ==
    ASSUME NamedSets = {Indexes}, AllowReplace = FALSE,
           PgTypes, Indexed(db), NEW c \in Clients, Served(c), Indexed(tx[c].snap), CommitStep(c)
    PROVE  /\ Indexed(db)'
           /\ \/ RowKept(tx[c].snap, Result(c).db, req[c]) /\ WritesNoRow(db, db')
              \/ /\ req[c].kind = "create"
                 /\ RowCreated(tx[c].snap, Result(c).db, req[c], Result(c).res.rec)
                 /\ db.ents[Result(c).res.rec.id] = tx[c].snap.ents[Result(c).res.rec.id]
                 /\ WritesRow(db, db', Result(c).res.rec.id, [ver |-> 1, data |-> req[c].op.data])
              \/ /\ RowUpdated(tx[c].snap, Result(c).db, req[c])
                 /\ db.ents[req[c].op.id] = tx[c].snap.ents[req[c].op.id]
                 /\ WritesRow(db, db', req[c].op.id,
                        [ver |-> tx[c].snap.ents[req[c].op.id].ver + 1, data |-> Patched(tx[c].snap, req[c].op)])
              \/ /\ RowDeleted(tx[c].snap, Result(c).db, req[c])
                 /\ db.ents[req[c].op] = tx[c].snap.ents[req[c].op]
                 /\ WritesRow(db, db', req[c].op, NoRow)
<1> DEFINE s == tx[c].snap
           w == Result(c).db
           r == req[c]
<1>1. /\ r \in Requests /\ s \in Keyspace /\ w \in Keyspace /\ db \in Keyspace
      /\ db' \in Keyspace /\ db' = Written(s, w, db)
  BY CommitKeyspace DEF PgTypes, Effect
<1>2. /\ InBound(s, r) /\ Body(s, r).res.code = "ok" /\ ~Overwrites(s, w, db)
      /\ w = Body(s, r).db /\ Result(c).res = Body(s, r).res
  BY DEF CommitStep, Committing, Admitted, Result
<1> HIDE DEF w
<1>3. \/ RowKept(s, w, r)
      \/ r.kind = "create" /\ RowCreated(s, w, r, Result(c).res.rec)
      \/ RowUpdated(s, w, r)
      \/ RowDeleted(s, w, r)
  BY <1>1, <1>2, BodyRows
<1> HIDE DEF s
<1>4. ASSUME NEW i, NEW row, WritesRow(s, w, i, row)
      PROVE  Indexed(db') /\ db.ents[i] = s.ents[i] /\ WritesRow(db, db', i, row)
  <2>1. db.ents[i] = s.ents[i] /\ WritesRow(db, db', i, row)
    BY <1>1, <1>2, <1>4, RowWritten DEF s
  <2> QED  BY <1>1, <2>1, RowIndexed
<1>5. ASSUME WritesNoRow(s, w) PROVE Indexed(db') /\ WritesNoRow(db, db')
  <2>1. WritesNoRow(db, db')
    BY <1>1, <1>5, NoRowWritten
  <2>2. db'.ents = db.ents /\ db'.uniq = db.uniq /\ Indexed(db)
    BY <2>1 DEF WritesNoRow
  <2> QED  BY <2>1, <2>2, SameIndexed
<1>6. Indexed(db') <=> Indexed(db)'
  BY DEF Indexed, Live
<1> QED  BY <1>3, <1>4, <1>5, <1>6 DEF RowKept, RowCreated, RowUpdated, RowDeleted, s, w

(* What it leaves of the rest.                                              *)
LEMMA CommitRest ==
    ASSUME PgTypes, NEW c \in Clients, Served(c), CommitStep(c)
    PROVE  /\ IF Inserting(tx[c].snap, req[c]) /\ req[c].op.key \in Keys
              THEN /\ db.idem[req[c].op.key] = NoRecord
                   /\ db'.idem = [db.idem EXCEPT ![req[c].op.key] = Result(c).res.rec]
              ELSE db'.idem = db.idem
           /\ db'.evid = IF req[c].kind = "evidence" THEN Append(db.evid, req[c].op) ELSE db.evid
           /\ \/ db'.ledger = db.ledger
              \/ req[c].kind = "migration" /\ db'.ledger = db.ledger \cup {req[c].op}
<1> DEFINE s == tx[c].snap
           w == Result(c).db
           r == req[c]
<1>1. /\ KeyWritten(s, r) \/ KeyKept(s, r)
      /\ LogWritten(s, r) /\ r \in Requests
      /\ db'.idem = [k \in Keys |-> Put(s.idem[k], w.idem[k], db.idem[k])]
      /\ \A k \in Keys : ~Lost(s.idem[k], w.idem[k], db.idem[k])
      /\ db'.evid = Put(s.evid, w.evid, db.evid) /\ ~Lost(s.evid, w.evid, db.evid)
      /\ s \in Keyspace /\ w \in Keyspace /\ db \in Keyspace /\ db' = Written(s, w, db)
  BY CommitKeyspace DEF PgTypes, Effect
<1>2. InBound(s, r) /\ Body(s, r).res.code = "ok" /\ w = Body(s, r).db /\ Result(c).res = Body(s, r).res
  BY DEF CommitStep, Committing, Result
<1> HIDE DEF w
<1>3. IF Inserting(s, r) /\ r.op.key \in Keys
      THEN /\ db.idem[r.op.key] = NoRecord
           /\ db'.idem = [db.idem EXCEPT ![r.op.key] = Result(c).res.rec]
      ELSE db'.idem = db.idem
  <2>0. db.idem = [k \in Keys |-> db.idem[k]] /\ s.idem = [k \in Keys |-> s.idem[k]]
    BY <1>1 DEF Keyspace
  <2>1. CASE KeyKept(s, r)
    BY <1>1, <1>2, <2>0, <2>1 DEF KeyKept, Put
  <2>2. CASE KeyWritten(s, r)
    <3> DEFINE new == Result(c).res.rec
    <3>1. /\ Inserting(s, r) /\ new # NoRecord
          /\ w.idem = [k \in Keys |-> IF k = r.op.key THEN new ELSE s.idem[k]]
          /\ r.op.key \in Keys => s.idem[r.op.key] = NoRecord
      BY <1>2, <2>2, BoundsAssumption DEF KeyWritten, NoRecord, Record, Ids, NoId
    <3> HIDE DEF new
    <3>2. \A k \in Keys : k # r.op.key => db'.idem[k] = db.idem[k]
      BY <1>1, <3>1 DEF Put
    <3>3. r.op.key \in Keys => db.idem[r.op.key] = NoRecord /\ db'.idem[r.op.key] = new
      BY <1>1, <3>1, SMTT(60) DEF Put, Lost
    <3>4. db'.idem = [k \in Keys |-> db'.idem[k]]
      BY <1>1
    <3> QED  BY <2>0, <3>1, <3>2, <3>3, <3>4 DEF new
  <2> QED  BY <1>1, <2>1, <2>2
<1>4. db'.evid = IF r.kind = "evidence" THEN Append(db.evid, r.op) ELSE db.evid
  <2>1. CASE r.kind = "evidence"
    <3>1. w.evid = Append(s.evid, r.op) /\ r.op \in Payloads /\ s.evid \in Seq(Payloads)
      BY <1>1, <1>2, <2>1, RequestKinds DEF LogWritten, Keyspace
    <3>2. w.evid # s.evid
      BY <3>1
    <3> QED  BY <1>1, <2>1, <3>1, <3>2 DEF Lost, Put
  <2>2. CASE r.kind # "evidence"
    BY <1>1, <1>2, <2>2 DEF LogWritten, Put
  <2> QED  BY <2>1, <2>2
<1>5. \/ db'.ledger = db.ledger
      \/ r.kind = "migration" /\ db'.ledger = db.ledger \cup {r.op}
  <2>1. w.ledger = IF r.kind = "migration" THEN s.ledger \cup {r.op} ELSE s.ledger
    BY <1>1, <1>2, BodyLedger
  <2>2. db'.ledger = {m \in Migrations : IF m \in w.ledger <=> m \in s.ledger THEN m \in db.ledger
                                         ELSE m \in w.ledger}
    BY <1>1, WrittenFields DEF LedgerWritten
  <2>3. db.ledger \subseteq Migrations /\ (r.kind = "migration" => r.op \in Migrations)
    BY <1>1, RequestKinds DEF Keyspace
  <2> HIDE DEF s, r
  <2>4. CASE w.ledger = s.ledger
    BY <2>2, <2>3, <2>4
  <2>5. CASE w.ledger # s.ledger
    <3>1. r.kind = "migration" /\ w.ledger = s.ledger \cup {r.op} /\ r.op \notin s.ledger
      BY <2>1, <2>5
    <3> QED  BY <2>2, <2>3, <3>1
  <2> QED  BY <2>4, <2>5
<1> QED  BY <1>3, <1>4, <1>5

LEMMA CommitImplements ==
    ASSUME NamedSets = {Indexes}, AllowReplace = FALSE,
           PgTypes, Indexed(db), StreamEnds(db), NEW c \in Clients, Served(c), SnapInv(c),
           Indexed(tx[c].snap), CommitStep(c)
    PROVE  [KV!RS!Next]_(KV!RS!vars)
<1> DEFINE s == tx[c].snap
           r == req[c]
           Free(i, data) == \A x \in Indexes, j \in Ids :
                               j # i /\ Live(db, j) /\ data[x] # Absent => db.ents[j].data[x] # data[x]
<1>1. /\ r \in Requests /\ db \in Keyspace /\ db' \in Keyspace
      /\ r.kind = "create" => r.op \in CreateOps(NamedSets)
  BY CommitKeyspace, RequestKinds DEF PgTypes
<1>2. /\ IF Inserting(s, r) /\ r.op.key \in Keys
         THEN db.idem[r.op.key] = NoRecord /\ db'.idem = [db.idem EXCEPT ![r.op.key] = Result(c).res.rec]
         ELSE db'.idem = db.idem
      /\ db'.evid = IF r.kind = "evidence" THEN Append(db.evid, r.op) ELSE db.evid
      /\ \/ db'.ledger = db.ledger
         \/ r.kind = "migration" /\ db'.ledger = db.ledger \cup {r.op}
  BY CommitRest
<1>3. IF r.kind = "event"
      THEN /\ db'.evseq = db.evseq + 1 /\ db'.evseq \in Seqs
           /\ db'.events = [db.events EXCEPT ![db'.evseq] = r.op]
      ELSE db'.evseq = db.evseq /\ db'.events = db.events
  BY CommitLogs
<1>4. ASSUME r.kind # "event" PROVE KV!EventLog(db)' = KV!EventLog(db)
  BY <1>3, <1>4 DEF KV!EventLog
<1>5. ASSUME NEW i, NEW row, WritesRow(db, db', i, row)
      PROVE  /\ i \in Ids /\ row.data \in Data /\ db'.ents = [db.ents EXCEPT ![i] = row]
             /\ row.ver > 0 => Free(i, row.data)
  <2>1. row.ver > 0 => \A x \in Indexes, j \in Ids :
           j # i /\ Live(db, j) /\ row.data[x] # Absent => db.ents[j].data[x] # row.data[x]
    BY <1>1, <1>5, RowIndexed
  <2> QED  BY <1>5, <2>1 DEF WritesRow, Row
<1>6. ASSUME NEW i \in Ids, NEW data, Free(i, data) PROVE KV!RS!Free(data, i)
  BY <1>6, AbstractNames DEF KV!RS!Free, KV!RS!Stored, Live
<1>7. \A i \in Ids : KV!RS!Stored(i) <=> Live(db, i)
  BY DEF KV!RS!Stored, Live
<1> HIDE DEF Free
<1>8. CASE /\ r.kind = "create" /\ RowCreated(s, Result(c).db, r, Result(c).res.rec)
           /\ db.ents[Result(c).res.rec.id] = s.ents[Result(c).res.rec.id]
           /\ WritesRow(db, db', Result(c).res.rec.id, [ver |-> 1, data |-> r.op.data])
  <2> DEFINE i == Result(c).res.rec.id
             row == [ver |-> 1, data |-> r.op.data]
  <2>1. /\ i \in Ids /\ r.op.data \in Data /\ db'.ents = [db.ents EXCEPT ![i] = row]
        /\ Free(i, r.op.data)
    <3>1. row.ver > 0 /\ row.data = r.op.data /\ WritesRow(db, db', i, row)
      BY <1>8
    <3> HIDE DEF i, row
    <3> QED  BY <1>5, <3>1
  <2>2. ~KV!RS!Stored(i) /\ KV!RS!Free(r.op.data, i)
    BY <1>6, <1>7, <1>8, <2>1 DEF RowCreated, Live
  <2>3. \/ db'.idem = db.idem
        \/ \E k \in Keys :
              /\ db.idem[k] = NoRecord
              /\ db'.idem = [db.idem EXCEPT ![k] = [id |-> i, ver |-> 1, data |-> r.op.data]]
    BY <1>2, <1>8 DEF RowCreated
  <2>4. db'.evid = db.evid /\ db'.ledger = db.ledger /\ KV!EventLog(db)' = KV!EventLog(db)
    BY <1>2, <1>4, <1>8
  <2> HIDE DEF i
  <2>5. KV!RS!Insert
    BY <2>1, <2>2, <2>3, <2>4, AbstractNames DEF KV!RS!Insert
  <2> QED  BY <2>5 DEF KV!RS!Next
<1>9. CASE /\ RowUpdated(s, Result(c).db, r)
           /\ db.ents[r.op.id] = s.ents[r.op.id]
           /\ WritesRow(db, db', r.op.id,
                  [ver |-> s.ents[r.op.id].ver + 1, data |-> Patched(s, r.op)])
  <2> DEFINE i == r.op.id
             data == Patched(s, r.op)
             row == [ver |-> db.ents[i].ver + 1, data |-> data]
  <2>1. r.kind = "update" /\ Live(db, i) /\ WritesRow(db, db', i, row)
    BY <1>9 DEF RowUpdated, Live
  <2> HIDE DEF i, data
  <2>2. i \in Ids /\ data \in Data /\ db'.ents = [db.ents EXCEPT ![i] = row] /\ row.ver > 0
    BY <1>1, <1>5, <2>1 DEF Keyspace, Row
  <2>3. KV!RS!Stored(i) /\ KV!RS!Free(data, i)
    BY <1>5, <1>6, <1>7, <2>1, <2>2
  <2>4. ~Inserting(s, r)
    BY <2>1 DEF Inserting
  <2>5. db'.idem = db.idem /\ db'.evid = db.evid /\ db'.ledger = db.ledger
        /\ KV!EventLog(db)' = KV!EventLog(db)
    BY <1>2, <1>4, <2>1, <2>4
  <2>6. KV!RS!Modify
    BY <2>2, <2>3, <2>5, AbstractNames DEF KV!RS!Modify
  <2> QED  BY <2>6 DEF KV!RS!Next
<1>10. CASE /\ RowDeleted(s, Result(c).db, r)
            /\ db.ents[r.op] = s.ents[r.op]
            /\ WritesRow(db, db', r.op, NoRow)
  <2>1. r.kind = "delete" /\ r.op \in Ids /\ Live(db, r.op) /\ db'.ents = [db.ents EXCEPT ![r.op] = NoRow]
    BY <1>10 DEF RowDeleted, WritesRow, Live
  <2>2. ~Inserting(s, r)
    BY <2>1 DEF Inserting
  <2>3. db'.idem = db.idem /\ db'.evid = db.evid /\ db'.ledger = db.ledger
        /\ KV!EventLog(db)' = KV!EventLog(db)
    BY <1>2, <1>4, <2>1, <2>2
  <2>4. KV!RS!Remove
    BY <1>7, <2>1, <2>3, AbstractNames DEF KV!RS!Remove
  <2> QED  BY <2>4 DEF KV!RS!Next
<1>11. CASE RowKept(s, Result(c).db, r) /\ WritesNoRow(db, db')
  <2>1. db'.ents = db.ents /\ db'.idem = db.idem
    BY <1>2, <1>11 DEF RowKept, WritesNoRow
  <2>2. CASE r.kind = "event"
    <3>1. db.evseq \in Nat /\ db.evseq + 1 \in Seqs /\ r.op \in Payloads
      BY <1>1, <1>3, <2>2, BoundsAssumption, RequestKinds DEF Keyspace
    <3>2. KV!EventLog(db)' = Append(KV!EventLog(db), r.op)
      <4>1. /\ KV!EventLog(db) \in Seq(Payloads \cup {NoPayload})
            /\ Len(KV!EventLog(db)) = db.evseq
        <5>1. /\ db.evseq \in Nat /\ db.evseq <= MaxSeq /\ MaxSeq \in Nat
              /\ db.events \in [1 .. MaxSeq -> Payloads \cup {NoPayload}]
          BY <1>1, BoundsAssumption DEF Keyspace, Seqs
        <5>2. KV!EventLog(db) \in [1 .. db.evseq -> Payloads \cup {NoPayload}]
          BY <5>1 DEF KV!EventLog
        <5> QED  BY <5>1, <5>2
      <4> QED  BY <1>1, <1>3, <2>2, <3>1, <4>1, BoundsAssumption DEF KV!EventLog, Keyspace, Seqs
    <3>3. db'.evid = db.evid /\ db'.ledger = db.ledger
      BY <1>2, <2>2
    <3> QED  BY <2>1, <3>1, <3>2, <3>3 DEF KV!RS!Next, KV!RS!LogEvent
  <2>3. CASE r.kind = "evidence"
    <3>1. r.op \in Payloads
      BY <1>1, <2>3, RequestKinds
    <3>2. db'.evid = Append(db.evid, r.op) /\ db'.ledger = db.ledger /\ KV!EventLog(db)' = KV!EventLog(db)
      BY <1>2, <1>4, <2>3
    <3> QED  BY <2>1, <3>1, <3>2 DEF KV!RS!Next, KV!RS!LogEvidence
  <2>4. CASE r.kind = "migration" /\ db'.ledger = db.ledger \cup {r.op}
    <3>1. r.op \in Migrations
      BY <1>1, <2>4, RequestKinds
    <3>2. db'.evid = db.evid /\ KV!EventLog(db)' = KV!EventLog(db)
      BY <1>2, <1>4, <2>4
    <3> QED  BY <2>1, <2>4, <3>1, <3>2 DEF KV!RS!Next, KV!RS!LogMigration
  <2>5. CASE r.kind \notin {"event", "evidence"} /\ db'.ledger = db.ledger
    <3>1. db'.evid = db.evid /\ KV!EventLog(db)' = KV!EventLog(db)
      BY <1>2, <1>4, <2>5
    <3> QED  BY <2>1, <2>5, <3>1 DEF KV!RS!vars
  <2> QED  BY <1>2, <2>2, <2>3, <2>4, <2>5
<1> QED  BY <1>8, <1>9, <1>10, <1>11, CommitRows

-----------------------------------------------------------------------------
(* The keyspace and every snapshot of it are indexed.                       *)
IndexInv ==
    /\ Indexed(db)
    /\ \A c \in Clients : pc[c] = "open" => Indexed(tx[c].snap)

LEMMA InitIndex == Init => IndexInv
<1>1. Indexed(EmptyKeyspace)
  BY DEF Indexed, EmptyKeyspace, Live, NoRow
<1> QED  BY <1>1 DEF Init, IndexInv

LEMMA QuietIndex ==
    ASSUME PgInv, IndexInv, NEW c \in Clients, QuietStep(c)
    PROVE  IndexInv' /\ UNCHANGED (KV!RS!vars)
<1>1. UNCHANGED db
  BY QuietTypes DEF PgInv, store
<1>2. /\ \A d \in Clients \ {c} : Still(d)
      /\ pc'[c] = "open" => tx'[c].snap = db
  BY QuietCall DEF PgInv
<1>3. ASSUME NEW d \in Clients, pc'[d] = "open" PROVE Indexed(tx'[d].snap)
  BY <1>2, <1>3 DEF Still, IndexInv
<1>4. Indexed(db')
  BY <1>1 DEF IndexInv
<1> QED  BY <1>1, <1>3, <1>4 DEF IndexInv, KV!RS!vars, KV!EventLog

LEMMA CommitIndex ==
    ASSUME NamedSets = {Indexes}, AllowReplace = FALSE,
           PgInv, IndexInv, NEW c \in Clients, CommitStep(c)
    PROVE  IndexInv' /\ [KV!RS!Next]_(KV!RS!vars)
<1>1. /\ PgTypes /\ StreamEnds(db) /\ Served(c) /\ SnapInv(c)
      /\ Indexed(db) /\ Indexed(tx[c].snap)
  BY DEF PgInv, LogInv, IndexInv, CommitStep, Committing
<1>2. Indexed(db)'
  BY <1>1, CommitRows
<1>3. ASSUME NEW d \in Clients, pc'[d] = "open" PROVE Indexed(tx'[d].snap)
  BY <1>1, <1>3, CommitCalls DEF Still, IndexInv
<1>4. [KV!RS!Next]_(KV!RS!vars)
  BY <1>1, CommitImplements
<1> QED  BY <1>2, <1>3, <1>4 DEF IndexInv

(* postgres.rs over kv.rs: whatever runs at the same time, collides, is     *)
(* retried or lost, the database goes through steps of RecordStore only,    *)
(* when the callers name the unique indexes and create over no live record. *)
(* That no COMMIT overwrites a key written since its snapshot is all the    *)
(* proof needs of the isolation level.                                      *)
THEOREM PromiseKept ==
    ASSUME NamedSets = {Indexes}, AllowReplace = FALSE
    PROVE  Spec => Promise
<1>1. Init => KV!RS!Init
  <2> SUFFICES ASSUME Init PROVE KV!RS!Init
    OBVIOUS
  <2>1. KV!EventLog(db) = << >>
    BY DEF Init, EmptyKeyspace, KV!EventLog
  <2> QED  BY <2>1, AbstractNames DEF Init, EmptyKeyspace, KV!RS!Init
<1>2. PgInv /\ IndexInv /\ [Next]_vars => IndexInv' /\ [KV!RS!Next]_(KV!RS!vars)
  <2> SUFFICES ASSUME PgInv, IndexInv, [Next]_vars
               PROVE  IndexInv' /\ [KV!RS!Next]_(KV!RS!vars)
    OBVIOUS
  <2>1. ASSUME NEW c \in Clients, Call(c) \/ Resend(c) \/ Step(c)
        PROVE  IndexInv' /\ [KV!RS!Next]_(KV!RS!vars)
    <3>1. QuietStep(c) \/ CommitStep(c)
      BY <2>1 DEF Step, QuietStep, CommitStep, Commit, CommitLost
    <3> QED  BY <3>1, QuietIndex, CommitIndex
  <2>2. CASE UNCHANGED vars
    <3>1. UNCHANGED <<db, pc, tx>>
      BY <2>2 DEF vars
    <3>2. Indexed(db') /\ \A c \in Clients : pc'[c] = "open" => Indexed(tx'[c].snap)
      BY <3>1 DEF IndexInv
    <3> QED  BY <3>1, <3>2 DEF IndexInv, KV!RS!vars, KV!EventLog
  <2> QED  BY <2>1, <2>2 DEF Next
<1> QED  BY <1>1, <1>2, InitIndex, PgInvariant, PTL DEF Spec, Promise, KV!Promise, KV!RS!Spec

=============================================================================
