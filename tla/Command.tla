------------------------------ MODULE Command ------------------------------
(***************************************************************************)
(* Commands: the multi-step endpoints of runtime.rs (execute_command), run *)
(* by several calls at once over one of the three stores.  A step is not   *)
(* one transaction: every query, create, update and delete is a call of    *)
(* the store of its own, other calls run in between, and an error leaves   *)
(* the steps before it done.                                               *)
(*                                                                         *)
(* A step's templates are reduced to where each field comes from; `named`  *)
(* is the set of unique indexes of the collection.                         *)
(***************************************************************************)
EXTENDS Stores

CONSTANTS
    Calls,        \* commands in flight
    Programs,     \* command specifications
    StepLists,    \* their lists of steps, those inside foreach included
    Earlier,      \* creates of which an earlier process may have done one
    Named,        \* unique indexes of the collection
    Null,         \* JSON null, a member of Values
    GenValues,    \* values the generator can come up with
    Items,        \* lists a caller can pass to foreach; NoList is no list
    NoList,
    Names,        \* step names
    MaxAttempts,  \* attempts at a unique generated value (6)
    MaxCrashes,   \* bound: process deaths
    MaxReruns     \* bound: transactions FoundationDB ran again after a commit

ASSUME CommandAssumption ==
    /\ IsFiniteSet(Calls)
    /\ Named \subseteq Indexes
    /\ MaxId > 0
    /\ {Null} \cup GenValues \subseteq Values
    /\ Items \ {NoList} \subseteq Seq(Values)
    /\ Earlier \subseteq CreateOps({Named})
    /\ MaxAttempts \in Nat \ {0}
    /\ MaxCrashes \in Nat
    /\ MaxReruns \in Nat

(* Where a template takes a field from.                                     *)
Sources ==
    [from : {"lit"}, v : Values \cup {Absent}] \cup [from : {"item", "gen", "none"}]
    \cup [from : {"step"}, name : Names, x : Indexes]

Templates == [Indexes -> Sources]

ASSUME ProgramAssumption ==
    /\ \A g \in DOMAIN Programs :
          Programs[g].steps \in StepLists /\ Programs[g].ret \in Indexes \cup {0}
    /\ \A l \in StepLists :
          /\ Len(l) \in Nat
          /\ \A i \in 1 .. Len(l) :
                /\ l[i].op = "create" => l[i].input \in Templates
                /\ l[i].op = "update_where" => l[i].set \in Templates
                /\ l[i].op = "foreach" => l[i].steps \in StepLists

VARIABLES
    kind,     \* backend behind the binding
    db,       \* what the store holds
    file,     \* snapshot file of the memory store
    up,       \* the store is open
    calls,    \* Calls -> call record
    made,     \* history: changes the store really made, envelopes published
    keyed,    \* history: Keys -> inserts under the key that the store holds
    acked,    \* history: Ids -> version last answered to a caller (0: none)
    reruns,   \* history: transactions run again although they were committed
    crashes

vars == <<kind, db, file, up, calls, made, keyed, acked, reruns, crashes>>

-----------------------------------------------------------------------------
(* CommandExecutionContext                                                  *)

(* An object without a record: what delete_where, update_where, query,      *)
(* foreach and emit_event put out, and a step that `when` skipped.          *)
Object  == [id |-> NoId, ver |-> -1, data |-> NoData]
(* A name nobody recorded yet.                                              *)
Unset   == [id |-> NoId, ver |-> -2, data |-> NoData]
Outputs == Record \cup {NoRecord, Object, Unset}

NoNames == [n \in Names |-> Unset]
NoCount == [created |-> 0, updated |-> 0, deleted |-> 0]

Idle == [pc |-> "idle", prog |-> 0, key |-> NoKey, list |-> NoList,
         frames |-> << >>, scopes |-> << >>, item |-> Null, gen |-> Absent,
         tries |-> 0, todo |-> << >>, count |-> NoCount, res |-> "none"]

Top(s)  == s[Len(s)]
Rest(s) == SubSeq(s, 1, Len(s) - 1)

(* step_value: the innermost iteration's names first, then the command's.   *)
StepValue(c, name) ==
    IF Top(c.scopes)[name] # Unset THEN Top(c.scopes)[name] ELSE c.scopes[1][name]

(* lookup_path into a step's output; Null when the path is missing.         *)
FieldOf(out, x) == IF out.ver > 0 /\ out.data[x] # Absent THEN out.data[x] ELSE Null

(* resolve_string_value, for the places of a template.                      *)
Resolve(c, src) ==
    CASE src.from = "lit"  -> src.v
      [] src.from = "item" -> c.item
      [] src.from = "gen"  -> c.gen
      [] src.from = "step" -> FieldOf(StepValue(c, src.name), src.x)
      [] src.from = "none" -> Absent

(* resolve_value of an object template.                                     *)
ResolveData(c, template) == [x \in Indexes |-> Resolve(c, template[x])]

(* generated_field_refs: the fields a template fills from $generated.       *)
Generated(template) == {x \in Indexes : template[x].from = "gen"}

(* should_run_step: null and missing are absent, a skipped step is not.     *)
Present(out) == out \notin {NoRecord, Unset}

ShouldRun(c, when) ==
    CASE when.test = "always"  -> TRUE
      [] when.test = "present" -> Present(StepValue(c, when.name))
      [] when.test = "absent"  -> ~Present(StepValue(c, when.name))
      [] when.test = "eq"      -> FieldOf(StepValue(c, when.name), when.x) = when.v

-----------------------------------------------------------------------------
(* Where a call stands.                                                     *)
Frame(c)    == Top(c.frames)
AtStep(c)   == c.pc = "step" /\ Frame(c).i <= Len(Frame(c).steps)
Step(c)     == Frame(c).steps[Frame(c).i]
Running(c)  == AtStep(c) /\ ShouldRun(c, Step(c).when)

NextStep(frames) == [frames EXCEPT ![Len(frames)].i = @ + 1]

(* record_step, and on to the next step.                                    *)
Recorded(c, out) ==
    [c EXCEPT !.scopes[Len(c.scopes)][Step(c).as] = out,
              !.frames = NextStep(c.frames), !.tries = 0, !.todo = << >>, !.pc = "step"]

(* An error ends the command; what earlier steps did stays.                 *)
Failed(c, code) == [Idle EXCEPT !.pc = "done", !.prog = c.prog, !.key = c.key,
                                !.count = c.count, !.res = code]

Goes(p, c) == calls' = [calls EXCEPT ![p] = c]

(* generated_value: cached under its name until a conflict resets it.  The  *)
(* hash of a seed can be any value of the code space.                       *)
GeneratedValues(c) == IF c.gen # Absent THEN {c.gen} ELSE GenValues

(* reset_generated_for_conflict, when the message names a generated field.  *)
MayRetry(c, template, x) == x \in Generated(template)

-----------------------------------------------------------------------------
(* The store as a step reaches it.  A change of the memory store is written *)
(* to the file before the mutex is released, and stays in memory when that  *)
(* write fails.  A change of the other two is made when its transaction     *)
(* commits, and the step may never hear of it.                              *)
WriteFails    == "provider_write_failed"
CommitUnknown == "provider_postgres_commit_unknown"

(* How a call can end, or go on, without hearing of a change that was made: *)
(* Postgres lost the connection at COMMIT; the replica that ran the call    *)
(* died; or the FoundationDB client could not tell and ran the transaction  *)
(* again ("again"), which the step does not notice.                         *)
Silences ==
    {"lost"} \cup (IF kind = "kv" THEN {CommitUnknown} ELSE {})
             \cup (IF kind = "fdb" /\ reruns < MaxReruns THEN {"again"} ELSE {})

Answered(r, changes) ==
    {[res |-> a, db |-> r.db, file |-> file] :
        a \in {r.res} \cup (IF changes THEN {Fail(code) : code \in Silences} ELSE {})}

(* Slip: the snapshot is taken before the change.                           *)
StoreOutcomesEarly(r, changes) ==
    IF kind # "memory" \/ ~changes
    THEN Answered(r, kind # "memory" /\ changes)
    ELSE {[res |-> IF w.ok THEN r.res ELSE Fail(WriteFails), db |-> r.db, file |-> w.file] :
             w \in Persisted(file, db)}

StoreOutcomes(r, changes) ==
    IF kind # "memory" \/ ~changes
    THEN Answered(r, kind # "memory" /\ changes)
    ELSE {[res |-> IF w.ok THEN r.res ELSE Fail(WriteFails), db |-> r.db, file |-> w.file] :
             w \in Persisted(file, r.db)}

StoreIs(o) == db' = o.db /\ file' = o.file

(* One call of the store by c, and the state of the caller after it: c once *)
(* more when the transaction runs again.                                    *)
Stored(p, o, c, next) ==
    /\ StoreIs(o)
    /\ Goes(p, IF o.res.code = "again" THEN c ELSE next)
    /\ reruns' = reruns + (IF o.res.code = "again" THEN 1 ELSE 0)
    /\ UNCHANGED <<kind, up, crashes>>

-----------------------------------------------------------------------------
(* The memory store of an older runtime left one record.                    *)
Legacy(form) ==
    [form |-> form,
     db |-> [EmptyKeyspace EXCEPT !.ents[1] =
                [ver |-> 1, data |-> [x \in Indexes |-> Null]]]]

(* What the store may hold when the model begins.                           *)
Seeds(k) == {EmptyKeyspace} \cup {StoreCreate(k, EmptyKeyspace, op).db : op \in Earlier}

Init ==
    /\ kind \in Kinds
    /\ db \in IF kind = "memory" THEN {EmptyKeyspace} ELSE Seeds(kind)
    /\ file \in IF kind = "memory"
               THEN {NoFile, Legacy("bare"), Legacy("newer")}
                    \cup {[form |-> "v1", db |-> d] : d \in Seeds(kind)}
               ELSE {NoFile}
    /\ up = (kind # "memory")
    /\ calls = [p \in Calls |-> Idle]
    /\ made = [created |-> 0, updated |-> 0, deleted |-> 0, events |-> 0]
    /\ keyed = [k \in Keys |-> 0]
    /\ acked = [i \in Ids |-> 0]
    /\ reruns = 0
    /\ crashes = 0

(* MemoryStoreProvider::persistent: load, and rewrite an older format.      *)
Open ==
    /\ ~up
    /\ Loadable(file)
    /\ \E w \in IF Migrated(file) THEN Persisted(file, file.db) ELSE {[ok |-> TRUE, file |-> file]} :
          /\ file' = w.file
          /\ up' = w.ok
          /\ db' = IF w.ok THEN file.db ELSE db
          /\ keyed' = IF w.ok
                      THEN [k \in Keys |-> IF file.db.idem[k] = NoRecord THEN 0 ELSE 1] ELSE keyed
    /\ UNCHANGED <<kind, calls, made, acked, reruns, crashes>>

(* The process dies.  The memory store goes with it, its file stays.        *)
Crash ==
    /\ up
    /\ crashes < MaxCrashes
    /\ crashes' = crashes + 1
    /\ up' = (kind # "memory")
    /\ db' = IF kind = "memory" THEN EmptyKeyspace ELSE db
    /\ acked' = IF kind = "memory" /\ file.form # "v1" THEN [i \in Ids |-> 0] ELSE acked
    /\ calls' = [p \in Calls |-> IF calls[p].pc \in {"idle", "done"} THEN calls[p]
                                 ELSE Failed(calls[p], "lost")]
    /\ UNCHANGED <<kind, file, made, keyed, reruns>>

(* execute_command up to its first step.                                    *)
Begin(p, prog, key, list) ==
    /\ up
    /\ calls[p].pc = "idle"
    /\ LET c == [Idle EXCEPT !.prog = prog, !.key = key]
       IN  Goes(p, IF Programs[prog].required /\ key = NoKey
                   THEN Failed(c, "idempotency_key_required")
                   ELSE [c EXCEPT !.pc = "step", !.list = list, !.scopes = <<NoNames>>,
                                  !.frames = <<[steps |-> Programs[prog].steps, i |-> 1, n |-> 0]>>])
    /\ UNCHANGED <<kind, db, file, up, made, keyed, acked, reruns, crashes>>

Local(p, c) == Goes(p, c) /\ UNCHANGED <<kind, db, file, up, made, keyed, acked, reruns, crashes>>

(* A step whose `when` does not hold.                                       *)
Skip(p) ==
    /\ AtStep(calls[p])
    /\ ~Running(calls[p])
    /\ Local(p, Recorded(calls[p], Object))

-----------------------------------------------------------------------------
(* create                                                                   *)
CreateOpOf(c, data) ==
    [id |-> NoId, data |-> data, key |-> c.key, named |-> Named, ret |-> Programs[c.prog].ret]

ConflictsOf(data, self) ==
    IF kind = "memory" THEN MemConflicts(db, Named, data, self)
                       ELSE Conflicts(db, Named, data, self)

(* What an error of the store does to a step with generated values: the     *)
(* conflict names a generated field and attempts are left, or it is final.  *)
Retry(c, template, data, self, code) ==
    IF /\ code = "unique_constraint_violation"
       /\ MayRetry(c, template, Least(ConflictsOf(data, self)))
       /\ c.tries + 1 < MaxAttempts
    THEN [c EXCEPT !.gen = Absent, !.tries = c.tries + 1]
    ELSE Failed(c, code)

WithGen(c, template) ==
    IF Generated(template) = {} THEN {c} ELSE {[c EXCEPT !.gen = v] : v \in GeneratedValues(c)}

CreateStep(p) ==
    /\ Running(calls[p])
    /\ Step(calls[p]).op = "create"
    /\ IdInBound(kind, db)
    /\ \E c \in WithGen(calls[p], Step(calls[p]).input) :
          LET data == ResolveData(c, Step(c).input)
              op   == CreateOpOf(c, data)
              r    == StoreCreate(kind, db, op)
              new  == ~IdemHit(db, op) /\ ConflictsOf(data, NoId) = {}
          IN  \E o \in StoreOutcomes(r, new) :
                 /\ Stored(p, o, c, IF o.res.code = "ok"
                                 THEN [Recorded(c, o.res.rec) EXCEPT !.count.created = @ + 1]
                                 ELSE Retry(c, Step(c).input, data, NoId, o.res.code))
                 /\ made' = IF new THEN [made EXCEPT !.created = @ + 1] ELSE made
                 /\ keyed' = IF new /\ c.key # NoKey
                             THEN [keyed EXCEPT ![c.key] = @ + 1] ELSE keyed
                 /\ acked' = IF new THEN [acked EXCEPT ![r.res.rec.id] =
                                            IF o.res.code = "ok" THEN 1 ELSE 0] ELSE acked

-----------------------------------------------------------------------------
(* delete_where, update_where, increment_where: one query, then one call of *)
(* the store per record it returned.                                        *)
WhereOps == {"delete_where", "update_where", "increment_where"}

QueryStep(p) ==
    /\ Running(calls[p])
    /\ Step(calls[p]).op \in WhereOps
    /\ LET c == calls[p]
       IN  Local(p, [c EXCEPT !.pc = "rows",
                              !.todo = Query(kind, db, Step(c).where.x, Resolve(c, Step(c).where.src))])

AtRow(p, op) ==
    calls[p].pc = "rows" /\ Step(calls[p]).op = op /\ calls[p].todo # << >>

(* Slip: a record that is gone counts as deleted.                           *)
DeletedCountAll(c, res) == c.count.deleted + 1

(* Only what this call deleted counts.                                      *)
DeletedCount(c, res) == c.count.deleted + (IF res.deleted THEN 1 ELSE 0)

DeleteRow(p) ==
    /\ AtRow(p, "delete_where")
    /\ LET c  == calls[p]
           id == Head(c.todo).id
           r  == StoreDelete(kind, db, id)
       IN  /\ \E o \in StoreOutcomes(r, TRUE) :
                 Stored(p, o, c, IF o.res.code = "ok"
                              THEN [c EXCEPT !.todo = Tail(c.todo),
                                             !.count.deleted = DeletedCount(c, o.res)]
                              ELSE Failed(c, o.res.code))
           /\ made' = [made EXCEPT !.deleted = @ + (IF r.res.deleted THEN 1 ELSE 0)]
           /\ acked' = [acked EXCEPT ![id] = 0]
           /\ UNCHANGED keyed

(* An update of one record, by update_where (with generated values and      *)
(* their attempts) or increment_where (from the data the query returned).   *)
UpdateTo(p, c, patch, template) ==
    LET id == Head(c.todo).id
        op == [id |-> id, patch |-> patch, named |-> Named]
        r  == StoreUpdate(kind, db, op)
        ok == r.res.code = "ok"
    IN  /\ \E o \in StoreOutcomes(r, ok) :
              /\ Stored(p, o, c, IF o.res.code = "ok"
                              THEN [c EXCEPT !.todo = Tail(c.todo), !.tries = 0,
                                             !.count.updated = @ + 1]
                              ELSE Retry(c, template, Patched(db, op), id, o.res.code))
              /\ acked' = IF o.res.code = "ok" THEN [acked EXCEPT ![id] = r.res.rec.ver] ELSE acked
        /\ made' = IF ok THEN [made EXCEPT !.updated = @ + 1] ELSE made
        /\ UNCHANGED keyed

UpdateRow(p) ==
    /\ AtRow(p, "update_where")
    /\ \E c \in WithGen(calls[p], Step(calls[p]).set) :
          UpdateTo(p, c, ResolveData(c, Step(c).set), Step(c).set)

(* increment_patch: anything but a number counts as zero.                   *)
Incremented(v) == (IF v \in Int THEN v ELSE 0) + 1

IncrementRow(p) ==
    /\ AtRow(p, "increment_where")
    /\ LET c == calls[p]
           x == Step(c).field
           next == Incremented(Head(c.todo).data[x])
       IN  /\ next \in Values
           /\ UpdateTo(p, c, [NoData EXCEPT ![x] = next],
                       [y \in Indexes |-> [from |-> "none"]])

RowsDone(p) ==
    /\ calls[p].pc = "rows"
    /\ calls[p].todo = << >>
    /\ Local(p, Recorded(calls[p], Object))

-----------------------------------------------------------------------------
(* query and find_one                                                       *)
ReadStep(p) ==
    /\ Running(calls[p])
    /\ Step(calls[p]).op \in {"query", "find_one"}
    /\ LET c    == calls[p]
           rows == Query(kind, db, Step(c).where.x, Resolve(c, Step(c).where.src))
       IN  Local(p, IF Step(c).op = "query" THEN Recorded(c, Object)
                    ELSE IF rows # << >> THEN Recorded(c, Head(rows))
                    ELSE IF Step(c).required THEN Failed(c, "command_record_not_found")
                    ELSE Recorded(c, NoRecord))

(* emit_event: append to the stream, then publish.                          *)
EmitStep(p) ==
    /\ Running(calls[p])
    /\ Step(calls[p]).op = "emit_event"
    /\ db.evseq < MaxSeq
    /\ \E payload \in Payloads :
          LET r == StoreAppendEvent(kind, db, payload)
          IN  \E o \in StoreOutcomes(r, TRUE) :
                 Stored(p, o, calls[p],
                        IF o.res.code = "ok" THEN [calls[p] EXCEPT !.pc = "publish"]
                        ELSE Failed(calls[p], o.res.code))
    /\ UNCHANGED <<made, keyed, acked>>

PublishStep(p) ==
    /\ calls[p].pc = "publish"
    /\ Goes(p, Recorded(calls[p], Object))
    /\ made' = [made EXCEPT !.events = @ + 1]
    /\ UNCHANGED <<kind, db, file, up, keyed, acked, reruns, crashes>>

-----------------------------------------------------------------------------
(* foreach                                                                  *)
Iteration(c, steps, n) ==
    [c EXCEPT !.frames = Append(@, [steps |-> steps, i |-> 1, n |-> n]),
              !.scopes = Append(@, NoNames), !.item = c.list[n]]

ForeachStep(p) ==
    /\ Running(calls[p])
    /\ Step(calls[p]).op = "foreach"
    /\ LET c == calls[p]
       IN  Local(p, IF c.list = NoList THEN Failed(c, "command_items_invalid")
                    ELSE IF c.list = << >> THEN Recorded(c, Object)
                    ELSE Iteration(c, Step(c).steps, 1))

(* The end of a list of steps: pop_iteration and the next item, or the end  *)
(* of the foreach, or of the command.                                       *)
EndSteps(p) ==
    LET c == calls[p]
        f == Frame(c)
        o == [c EXCEPT !.frames = Rest(c.frames), !.scopes = Rest(c.scopes), !.item = Null]
    IN  /\ c.pc = "step"
        /\ f.i > Len(f.steps)
        /\ Local(p, IF f.n = 0 THEN Failed(c, "ok")
                    ELSE IF f.n < Len(c.list) THEN Iteration(o, f.steps, f.n + 1)
                    ELSE Recorded(o, Object))

(* The call of the store fails, or the transaction does, and nothing was    *)
(* done; a Postgres answer may leave that open.                             *)
StoreFails(p) ==
    /\ kind # "memory"
    /\ \/ Running(calls[p]) /\ Step(calls[p]).op # "foreach"
       \/ calls[p].pc = "rows" /\ calls[p].todo # << >>
    /\ \E code \in {"provider_error"} \cup (IF kind = "kv" THEN {CommitUnknown} ELSE {}) :
          Local(p, Failed(calls[p], code))

Run(p) ==
    /\ up
    /\ \/ Skip(p) \/ CreateStep(p) \/ QueryStep(p) \/ DeleteRow(p) \/ UpdateRow(p)
       \/ IncrementRow(p) \/ RowsDone(p) \/ ReadStep(p) \/ EmitStep(p) \/ PublishStep(p)
       \/ ForeachStep(p) \/ EndSteps(p) \/ StoreFails(p)

Next ==
    \/ Open
    \/ Crash
    \/ \E p \in Calls, prog \in DOMAIN Programs, key \in Keys \cup {NoKey}, list \in Items :
          Begin(p, prog, key, list)
    \/ \E p \in Calls : Run(p)

Spec == Init /\ [][Next]_vars

-----------------------------------------------------------------------------
(* What the calls, running, answered or lost, have counted, change by       *)
(* change, and how much that is.                                            *)
Counted(f) == UNION {{p} \X (1 .. calls[p].count[f]) : p \in Calls}
Total(f)   == Cardinality(Counted(f))

(* The calls that ended without an answer that says what was done.          *)
Unheard == Cardinality({p \in Calls : calls[p].res \in {WriteFails, CommitUnknown, "lost"}})

(* What the commands count is what the store did: two commands never claim  *)
(* the same deletion or update, and none is missed but the last change of a *)
(* call that ended without knowing (its snapshot could not be written, its  *)
(* COMMIT was left open, its replica died) and one for every transaction    *)
(* FoundationDB ran again after a commit.  An event is published only after *)
(* it was stored (runtime.rs, affected_ids and the *_count of every step).  *)
Accounted ==
    /\ \A f \in {"updated", "deleted"} :
          /\ Total(f) <= made[f]
          /\ made[f] <= Total(f) + Unheard + reruns
    /\ made.created <= Total("created") + Unheard + reruns
    /\ kind # "memory" => made.events <= db.evseq

(* Unique values are unique in all three stores, however many commands      *)
(* race with generated values, except that the memory store does not look   *)
(* at an index declared after one whose field the data lacks.               *)
UniqueCodes ==
    \A i, j \in LiveIds(db), x \in Named :
        (i # j /\ db.ents[i].data[x] = db.ents[j].data[x] /\ db.ents[i].data[x] # Absent)
        => /\ kind = "memory"
           /\ \E y \in Named : y < x /\ Absent \in {db.ents[i].data[y], db.ents[j].data[y]}

(* A key inserts at most one record, whether it is repeated by a retry or   *)
(* shared by the creates of one command.                                    *)
KeyedOnce == \A k \in Keys : keyed[k] <= 1

(* What a caller was told about a record is in the snapshot file, unless    *)
(* the last write was cut short.                                            *)
AckedDurable ==
    kind = "memory" /\ file.form = "v1" => \A i \in Ids : file.db.ents[i].ver >= acked[i]

(* No step replaces a record by another: ids chosen by the store are free,  *)
(* always in the keyspace store and, in the two that count records, as long *)
(* as nothing was deleted and no caller chose an id.  In FoundationDB the   *)
(* records must also fit in the batch that is counted: beyond it the next   *)
(* id is that of a live record, which a create overwrites.                  *)
RecordsSurvive ==
    [][up /\ up' => \A i \in Ids :
          (/\ Live(db, i) /\ Live(db', i)
           /\ kind = "kv" \/ made.deleted = 0
           /\ kind = "fdb" => Cardinality(LiveIds(db)) <= Batch)
          => db'.ents[i] = db.ents[i] \/ db'.ents[i].ver > db.ents[i].ver]_vars

=============================================================================
