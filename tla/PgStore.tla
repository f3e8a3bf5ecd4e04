------------------------------ MODULE PgStore ------------------------------
(***************************************************************************)
(* providers/postgres.rs: PostgresStore::transact, run by the handler      *)
(* threads of every sorx replica against one database.                     *)
(*                                                                         *)
(* A call takes a pooled connection, then loops: start a SERIALIZABLE      *)
(* transaction, run the kv body on its snapshot, commit.  A serialization  *)
(* failure goes round again until the time budget is spent; any other      *)
(* failure is final; a COMMIT whose answer never arrived is reported as    *)
(* unknown and never retried.  The caller may send the same request again  *)
(* whatever it was told (a lost response, a client retry).                 *)
(***************************************************************************)
EXTENDS KvOps, SequencesExt

CONSTANTS
    Clients,      \* handler threads, over all replicas
    Requests,     \* what they may be asked: [kind, op]
    PoolSize,     \* connections in the pool
    MaxAttempts,  \* bound standing for RETRY_BUDGET: attempts that fit in it
    MaxResends,   \* bound: times callers send a request again
    NamedSets, AllowReplace, MaxVer   \* as in KvStore

ASSUME PgAssumption ==
    /\ IsFiniteSet(Clients)
    /\ PoolSize \in Nat /\ MaxAttempts \in Nat \ {0} /\ MaxResends \in Nat

ASSUME RequestAssumption ==
    /\ NamedSets \subseteq SUBSET Indexes
    /\ Requests \subseteq [kind : {"create"}, op : CreateOps(NamedSets)]
                       \cup [kind : {"update"}, op : UpdateOps(NamedSets)]
                       \cup [kind : {"delete"}, op : Ids]
                       \cup [kind : {"event", "evidence"}, op : Payloads]
                       \cup [kind : {"migration"}, op : Migrations]

VARIABLES
    db, issued, autos,  \* as in KvStore
    pc,       \* "idle", "waiting" (pool.get), "begin", "open" or "done"
    req,      \* the request being served
    tx,       \* the open transaction: its snapshot, and what others committed
              \* since it was taken, as [req, res] in order
    attempt,  \* attempts made in this call
    ans,      \* the answer given to the caller
    resends,  \* how often callers have sent a request again
    did,      \* history: commits of the current call
    born      \* history: records inserted under each idempotency key

vars == <<db, issued, autos, pc, req, tx, attempt, ans, resends, did, born>>
store == <<db, issued, autos, born>>

KV == INSTANCE KvStore

NoAnswer  == [code |-> "none"]
Error     == [code |-> "provider_postgres_error"]
Unknown   == [code |-> "provider_postgres_commit_unknown"]
NoRequest == [kind |-> "none"]
NoTx      == [snap |-> EmptyKeyspace, since |-> << >>]

-----------------------------------------------------------------------------
(* The kv function a request runs inside the transaction.                   *)
Body(d, r) ==
    CASE r.kind = "create"    -> Create(d, r.op)
      [] r.kind = "update"    -> Update(d, r.op)
      [] r.kind = "delete"    -> Delete(d, r.op)
      [] r.kind = "event"     -> AppendEvent(d, r.op)
      [] r.kind = "evidence"  -> StoreEvidence(d, r.op)
      [] r.kind = "migration" -> RecordMigration(d, r.op)

(* The finite keyspace has room for the request (bound), and an explicit id *)
(* is a live record's only where callers may replace, as in KvStore.        *)
InBound(d, r) ==
    /\ r.kind = "create" =>
          /\ r.op.id = NoId => AutoIdInBound(d)
          /\ r.op.id \in Ids /\ Live(d, r.op.id) => AllowReplace
    /\ r.kind = "update" => d.ents[r.op.id].ver < MaxVer
    /\ r.kind = "event" => d.evseq < MaxSeq
    /\ r.kind = "evidence" => Len(d.evid) < MaxSeq

(* A commit writes the keys the body wrote and no others: a row, an index   *)
(* entry, a stored answer, an event are keys of their own; a counter and    *)
(* the evidence list of a subject are single values.                        *)
Put(old, new, cur) == IF new = old THEN cur ELSE new

WriteBack(s, w, d) ==
    [schema |-> Put(s.schema, w.schema, d.schema),
     ents   |-> [i \in Ids |-> Put(s.ents[i], w.ents[i], d.ents[i])],
     uniq   |-> [x \in Indexes |-> [v \in Values |->
                    Put(s.uniq[x][v], w.uniq[x][v], d.uniq[x][v])]],
     idem   |-> [k \in Keys |-> Put(s.idem[k], w.idem[k], d.idem[k])],
     idseq  |-> Put(s.idseq, w.idseq, d.idseq),
     events |-> [n \in Seqs |-> Put(s.events[n], w.events[n], d.events[n])],
     evseq  |-> Put(s.evseq, w.evseq, d.evseq),
     evid   |-> Put(s.evid, w.evid, d.evid),
     ledger |-> [m \in Migrations |->
                    Put(m \in s.ledger, m \in w.ledger, m \in d.ledger)]]

(* The ledger is a set of keys, written as its characteristic function.     *)
Written(s, w, d) ==
    LET b == WriteBack(s, w, d)
    IN  [b EXCEPT !.ledger = {m \in Migrations : b.ledger[m]}]

(* A key the transaction writes was written by another since its snapshot.  *)
Lost(old, new, cur) == new # old /\ cur # old

Overwrites(s, w, d) ==
    \/ Lost(s.schema, w.schema, d.schema)
    \/ \E i \in Ids : Lost(s.ents[i], w.ents[i], d.ents[i])
    \/ \E x \in Indexes, v \in Values : Lost(s.uniq[x][v], w.uniq[x][v], d.uniq[x][v])
    \/ \E k \in Keys : Lost(s.idem[k], w.idem[k], d.idem[k])
    \/ Lost(s.idseq, w.idseq, d.idseq)
    \/ \E n \in Seqs : Lost(s.events[n], w.events[n], d.events[n])
    \/ Lost(s.evseq, w.evseq, d.evseq)
    \/ Lost(s.evid, w.evid, d.evid)
    \/ \E m \in Migrations : Lost(m \in s.ledger, m \in w.ledger, m \in d.ledger)

(* Running a request on a keyspace, and the requests after it, answers      *)
(* included: ok if they answer as they did (and stay within the bounds).    *)
Replay(start, log) ==
    FoldLeft(LAMBDA r, e :
                 IF r.ok /\ InBound(r.db, e.req) /\ Body(r.db, e.req).res = e.res
                 THEN [ok |-> TRUE, db |-> Body(r.db, e.req).db]
                 ELSE [ok |-> FALSE, db |-> r.db],
             [ok |-> TRUE, db |-> start], log)

(* What IsolationLevel::Serializable promises (Postgres, external): the     *)
(* database admits a COMMIT only if the transaction overwrites nothing      *)
(* written since its snapshot, and has a place among those that committed   *)
(* since such that, run one after the other, all of them give the answers   *)
(* they gave and leave the keyspace that is there.  The place need not be   *)
(* the last one.                                                            *)
Result(c) == Body(tx[c].snap, req[c])

Effect(c) == Written(tx[c].snap, Result(c).db, db)

Done(c) == [req |-> req[c], res |-> Result(c).res]

(* Slip: a weaker isolation level, under which COMMIT is never refused.     *)
AdmittedAlways(c) == TRUE

Admitted(c) ==
    /\ ~Overwrites(tx[c].snap, Result(c).db, db)
    /\ \E n \in 0 .. Len(tx[c].since) :
           Replay(tx[c].snap, InsertAt(tx[c].since, n + 1, Done(c)))
               = [ok |-> TRUE, db |-> Effect(c)]

Commits(c) ==
    LET r == req[c]
        inserts == r.kind = "create" /\ KV!CreateInserts(tx[c].snap, r.op)
    IN  /\ db' = Effect(c)
        /\ IF inserts /\ r.op.id = NoId
           THEN issued' = issued \cup {Result(c).res.rec.id} /\ autos' = autos + 1
           ELSE UNCHANGED <<issued, autos>>
        /\ born' = [k \in Keys |->
              IF inserts /\ r.op.key = k THEN born[k] + 1 ELSE born[k]]
        /\ did' = [did EXCEPT ![c] = @ + 1]
        /\ tx' = [e \in Clients |->
              IF e = c THEN NoTx
              ELSE IF pc[e] = "open" THEN [tx[e] EXCEPT !.since = Append(@, Done(c))]
              ELSE tx[e]]

-----------------------------------------------------------------------------
Holders == {c \in Clients : pc[c] \in {"begin", "open"}}

TypeOK ==
    /\ db \in Keyspace
    /\ issued \subseteq Ids /\ autos \in Nat
    /\ pc \in [Clients -> {"idle", "waiting", "begin", "open", "done"}]
    /\ req \in [Clients -> Requests \cup {NoRequest}]
    /\ \A c \in Clients : tx[c].snap \in Keyspace
    /\ attempt \in [Clients -> 0 .. MaxAttempts]
    /\ resends \in 0 .. MaxResends
    /\ did \in [Clients -> Nat]
    /\ born \in [Keys -> Nat]
    /\ Cardinality(Holders) <= PoolSize

Init ==
    /\ db = EmptyKeyspace /\ issued = {} /\ autos = 0
    /\ pc = [c \in Clients |-> "idle"]
    /\ req = [c \in Clients |-> NoRequest]
    /\ tx = [c \in Clients |-> NoTx]
    /\ attempt = [c \in Clients |-> 0]
    /\ ans = [c \in Clients |-> NoAnswer]
    /\ resends = 0
    /\ did = [c \in Clients |-> 0]
    /\ born = [k \in Keys |-> 0]

(* A handler thread is given a request.                                     *)
Call(c) ==
    /\ pc[c] = "idle"
    /\ \E r \in Requests : req' = [req EXCEPT ![c] = r]
    /\ pc' = [pc EXCEPT ![c] = "waiting"]
    /\ UNCHANGED <<store, tx, attempt, ans, resends, did>>

(* The caller sends it again: it saw an error, or no answer at all.         *)
Resend(c) ==
    /\ pc[c] = "done" /\ resends < MaxResends
    /\ pc' = [pc EXCEPT ![c] = "waiting"]
    /\ resends' = resends + 1
    /\ ans' = [ans EXCEPT ![c] = NoAnswer]
    /\ attempt' = [attempt EXCEPT ![c] = 0]
    /\ did' = [did EXCEPT ![c] = 0]
    /\ UNCHANGED <<store, req, tx>>

(* The call ends and its connection goes back to the pool.                  *)
Answer(c, a) ==
    /\ pc' = [pc EXCEPT ![c] = "done"]
    /\ ans' = [ans EXCEPT ![c] = a]

(* The transaction is dropped: nothing of it is applied.                    *)
Rollback(c) ==
    /\ tx' = [tx EXCEPT ![c] = NoTx]
    /\ UNCHANGED <<store, did>>

PoolGet(c) ==
    /\ pc[c] = "waiting" /\ Cardinality(Holders) < PoolSize
    /\ pc' = [pc EXCEPT ![c] = "begin"]
    /\ attempt' = [attempt EXCEPT ![c] = 1]
    /\ UNCHANGED <<store, req, tx, ans, resends, did>>

(* pool.get gives up after 10 s: every connection is in use, or none can be *)
(* made.                                                                    *)
PoolTimeout(c) ==
    /\ pc[c] = "waiting"
    /\ Answer(c, Error)
    /\ UNCHANGED <<store, req, tx, attempt, resends, did>>

Begin(c) ==
    /\ pc[c] = "begin"
    /\ pc' = [pc EXCEPT ![c] = "open"]
    /\ tx' = [tx EXCEPT ![c] = [snap |-> db, since |-> << >>]]
    /\ UNCHANGED <<store, req, attempt, ans, resends, did>>

(* Failure::Sorx: the body refuses the operation; the transaction is        *)
(* dropped and the refusal returned as it is.                               *)
Refuse(c) ==
    /\ pc[c] = "open" /\ InBound(tx[c].snap, req[c])
    /\ Result(c).res.code # "ok"
    /\ Rollback(c)
    /\ Answer(c, Result(c).res)
    /\ UNCHANGED <<req, attempt, resends>>

(* The body succeeded and COMMIT is sent.                                   *)
Committing(c) ==
    /\ pc[c] = "open" /\ InBound(tx[c].snap, req[c])
    /\ Result(c).res.code = "ok"

Commit(c) ==
    /\ Committing(c) /\ Admitted(c)
    /\ Commits(c)
    /\ Answer(c, Result(c).res)
    /\ UNCHANGED <<req, attempt, resends>>

(* Slip: the lost COMMIT is reported as a plain failure.                    *)
CommitLostPlain(c) ==
    /\ Committing(c)
    /\ \/ Admitted(c) /\ Commits(c)
       \/ Rollback(c)
    /\ Answer(c, Error)
    /\ UNCHANGED <<req, attempt, resends>>

(* Failure::CommitUnknown: the connection drops during COMMIT, which the    *)
(* server did or did not carry out.                                         *)
CommitLost(c) ==
    /\ Committing(c)
    /\ \/ Admitted(c) /\ Commits(c)
       \/ Rollback(c)
    /\ Answer(c, Unknown)
    /\ UNCHANGED <<req, attempt, resends>>

(* Slip: the retries of a call have no budget.                              *)
RetryForever(c) ==
    /\ pc[c] \in {"begin", "open"}
    /\ pc' = [pc EXCEPT ![c] = "begin"]
    /\ Rollback(c)
    /\ UNCHANGED <<req, attempt, ans, resends>>

(* Failure::Retry within the budget: 40001 or 40P01, from the start of the  *)
(* transaction, a query of the body, or COMMIT.  A new attempt runs the     *)
(* body again from a new snapshot.                                          *)
RetryAgain(c) ==
    /\ pc[c] \in {"begin", "open"} /\ attempt[c] < MaxAttempts
    /\ pc' = [pc EXCEPT ![c] = "begin"]
    /\ attempt' = [attempt EXCEPT ![c] = @ + 1]
    /\ Rollback(c)
    /\ UNCHANGED <<req, ans, resends>>

(* Failure::Retry once RETRY_BUDGET is spent, or Failure::Db at any time.   *)
GiveUp(c) ==
    /\ pc[c] \in {"begin", "open"}
    /\ Rollback(c)
    /\ Answer(c, Error)
    /\ UNCHANGED <<req, attempt, resends>>

Step(c) ==
    \/ PoolGet(c) \/ PoolTimeout(c) \/ Begin(c) \/ Refuse(c)
    \/ Commit(c) \/ CommitLost(c) \/ RetryAgain(c) \/ GiveUp(c)

Next == \E c \in Clients : Call(c) \/ Resend(c) \/ Step(c)

Spec == Init /\ [][Next]_vars

(* A thread that serves a call keeps running; callers need not call.        *)
FairSpec == Spec /\ \A c \in Clients : WF_vars(Step(c))

-----------------------------------------------------------------------------
(* postgres.rs, enum Failure: a call commits at most once, an answer that   *)
(* names an error means nothing was applied, an ok answer means it was.     *)
AnswerTruth ==
    \A c \in Clients :
        /\ did[c] <= 1
        /\ pc[c] = "done" /\ ans[c] # Unknown => (did[c] = 1 <=> ans[c].code = "ok")

(* kv.rs create under concurrent and repeated sends: a key inserts at most  *)
(* one record, and all callers of the key who get an answer get that one.   *)
KeyedOnce ==
    /\ \A k \in Keys : born[k] <= 1
    /\ \A c, e \in Clients :
          /\ req[c].kind = "create" /\ req[e].kind = "create"
          /\ ans[c].code = "ok" /\ ans[e].code = "ok"
          /\ req[c].op.key = req[e].op.key /\ req[c].op.key # NoKey
          /\ req[c].op.ret = 0 /\ req[e].op.ret = 0
          => ans[c] = ans[e]

(* kv.rs append_event and store_evidence from several threads: an           *)
(* acknowledged event is in the stream under a sequence number no other     *)
(* caller was given, and no acknowledged entry of the evidence list, which  *)
(* is read and written back, is overwritten by a concurrent one.            *)
AcknowledgedKept ==
    LET Acked(kind) == {c \in Clients : req[c].kind = kind /\ ans[c].code = "ok"}
    IN  /\ \A c \in Acked("event") : db.events[ans[c].seq] = req[c].op
        /\ \A c, e \in Acked("event") : c # e => ans[c].seq # ans[e].seq
        /\ Cardinality(Acked("evidence")) <= Len(db.evid)

(* providers/postgres.rs over providers/kv.rs: with its retries, losses and *)
(* resends, and with commits that are ordered before ones already done, the *)
(* store behaves as RecordStore.                                            *)
Promise == KV!Promise

(* postgres.rs, RETRY_BUDGET: a call is answered, however the transactions  *)
(* collide.                                                                 *)
CallAnswered == \A c \in Clients : pc[c] = "waiting" ~> pc[c] = "done"

=============================================================================
