----------------------------- MODULE Migration -----------------------------
(***************************************************************************)
(* Pack migrations at startup (migration/orchestrate.rs, runner.rs,        *)
(* ledger.rs and apply_pack_migrations_at_startup): every replica that     *)
(* starts loads the ledger, passes the breaking-change gate, backfills the *)
(* pending migrations one store call at a time and records each.  Replicas *)
(* start at any time beside serving ones, crash and start again; clients   *)
(* are answered by whoever serves.                                         *)
(*                                                                         *)
(* One namespace; a ledger file also holds the namespaces of other         *)
(* tenants, whose processes rewrite the whole file unlocked.  A store call *)
(* is atomic (RecordStore).  A field is absent, holds the default of a     *)
(* backfill, or what a client wrote.                                       *)
(***************************************************************************)
EXTENDS Integers, Sequences, FiniteSets

CONSTANTS
    Replicas,
    Tenants,     \* processes of other tenants that share the ledger file
    Ids,         \* record ids of the backfilled collection, in key order
    Fields,
    Plan,        \* the pack's migrations, in order: [id, breaking, fields]
    Batch,       \* keys of one get_range batch of FoundationDB
    LedgerKinds  \* ledgers there may be: a store's own ("postgres", "fdb"), "file", "none"

ASSUME KindAssumption == LedgerKinds \subseteq {"postgres", "fdb", "file", "none"}
ASSUME KeyAssumption == Ids \subseteq Nat /\ Batch \in Nat \ {0}
ASSUME PlanAssumption ==
    /\ Plan \in Seq([id : Nat, breaking : BOOLEAN, fields : Seq(Fields)])

VARIABLES
    live, val,   \* the records: which exist, and their fields
    kind,        \* where the ledger is
    ledger,      \* ids recorded as applied
    torn,        \* the ledger file is no JSON: truncated, or two writes mixed
    other,       \* per other tenant: "idle", or before its "truncate" or "write"
    obuf,        \* our part of the ledger file as that tenant read it
    pc,          \* per replica: "down", "next", "query", "fill", "record",
                 \* "truncate", "write", "serving" or "failed"
    confirm,     \* SORX_CONFIRM_BREAKING_MIGRATIONS of the replica
    known,       \* the applied set it loaded, and has added to
    at, fld,     \* the migration and the backfill it is at
    todo,        \* records its query found without the field
    buf,         \* the ledger file as record_applied read it
    legacy,      \* history: records there from the beginning
    done,        \* history: ids whose backfills were completed
    kept         \* history: ids recorded that no other tenant's write dropped

store   == <<live, val, legacy>>
ledgers == <<kind, ledger, torn, kept>>
tenants == <<other, obuf>>
local   == <<confirm, known, at, fld, todo, buf>>
vars    == <<store, ledgers, tenants, pc, local, done>>

PlanIds  == {Plan[n].id : n \in DOMAIN Plan}
Breaking == {Plan[n].id : n \in {k \in DOMAIN Plan : Plan[k].breaking}}
Field(r) == Plan[at[r]].fields[fld[r]]
Applying == {"query", "fill", "record", "truncate", "write"}
Busy     == {r \in Replicas : pc[r] \in Applying \cup {"next"}}
InStore  == kind \in {"postgres", "fdb"}

(* What a scan returns: FoundationDB's scan_entities and                    *)
(* load_applied_migrations read the first batch of a range only.            *)
Scanned(S) ==
    IF kind = "fdb" THEN {i \in S : Cardinality({j \in S : j < i}) < Batch} ELSE S

TypeOK ==
    /\ live \subseteq Ids /\ legacy \subseteq live
    /\ val \in [Ids -> [Fields -> {"absent", "default", "user"}]]
    /\ kind \in LedgerKinds /\ ledger \subseteq PlanIds /\ torn \in BOOLEAN
    /\ kept \subseteq PlanIds
    /\ other \in [Tenants -> {"idle", "truncate", "write"}]
    /\ obuf \in [Tenants -> SUBSET PlanIds]
    /\ pc \in [Replicas -> Applying \cup {"down", "next", "serving", "failed"}]
    /\ confirm \in [Replicas -> BOOLEAN]
    /\ known \in [Replicas -> SUBSET PlanIds]
    /\ at \in [Replicas -> 1 .. Len(Plan) + 1]
    /\ fld \in [Replicas -> Nat \ {0}]
    /\ todo \in [Replicas -> SUBSET Ids]
    /\ buf \in [Replicas -> SUBSET PlanIds]
    /\ done \subseteq PlanIds
    /\ \A r \in Replicas : pc[r] \in Applying => at[r] <= Len(Plan)
    /\ \A r \in Replicas : pc[r] = "fill" => fld[r] <= Len(Plan[at[r]].fields)

Init ==
    /\ live \in SUBSET Ids /\ legacy = live
    /\ val \in [Ids -> [Fields -> {"absent", "user"}]]
    /\ kind \in LedgerKinds /\ ledger = {} /\ torn = FALSE /\ kept = {}
    /\ other = [t \in Tenants |-> "idle"]
    /\ obuf = [t \in Tenants |-> {}]
    /\ pc = [r \in Replicas |-> "down"]
    /\ confirm = [r \in Replicas |-> FALSE]
    /\ known = [r \in Replicas |-> {}]
    /\ at = [r \in Replicas |-> 1]
    /\ fld = [r \in Replicas |-> 1]
    /\ todo = [r \in Replicas |-> {}]
    /\ buf = [r \in Replicas |-> {}]
    /\ done = {}

-----------------------------------------------------------------------------
Goto(r, where) == pc' = [pc EXCEPT ![r] = where]

(* The startup ends, one way or another, and drops what it held in memory.  *)
Ends(r, where) ==
    /\ Goto(r, where)
    /\ confirm' = [confirm EXCEPT ![r] = FALSE]
    /\ known' = [known EXCEPT ![r] = {}]
    /\ at' = [at EXCEPT ![r] = 1]
    /\ fld' = [fld EXCEPT ![r] = 1]
    /\ todo' = [todo EXCEPT ![r] = {}]
    /\ buf' = [buf EXCEPT ![r] = {}]
    /\ UNCHANGED <<store, ledgers, tenants, done>>

(* Slip: the gate lets everything through.                                  *)
GateAlways(applied, confirmed) == TRUE

(* evaluate_pending_migrations, in SharedRequiresMigration: the gate is on  *)
(* at every startup.                                                        *)
GatePasses(applied, confirmed) == confirmed \/ Breaking \subseteq applied

(* The applied set, loaded from the ledger.                                 *)
Loaded == IF kind = "none" THEN {} ELSE Scanned(ledger)

Begins(r, conf) ==
    /\ confirm' = [confirm EXCEPT ![r] = conf]
    /\ known' = [known EXCEPT ![r] = Loaded]
    /\ at' = [at EXCEPT ![r] = 1]
    /\ Goto(r, "next")
    /\ UNCHANGED <<store, ledgers, tenants, done, fld, todo, buf>>

(* Slip: a ledger file that cannot be decoded is taken for an empty one.    *)
StartTornEmpty(r, conf) ==
    /\ pc[r] \in {"down", "failed"}
    /\ InStore \/ \A s \in Replicas : pc[s] \in {"down", "failed"}
    /\ IF Plan = << >> \/ kind = "none" THEN Ends(r, "serving")
       ELSE IF ~torn THEN IF GatePasses(Loaded, conf) THEN Begins(r, conf) ELSE Ends(r, "failed")
       ELSE IF ~GatePasses({}, conf) THEN Ends(r, "failed")
       ELSE /\ confirm' = [confirm EXCEPT ![r] = conf]
            /\ known' = [known EXCEPT ![r] = {}]
            /\ at' = [at EXCEPT ![r] = 1]
            /\ Goto(r, "next")
            /\ UNCHANGED <<store, ledgers, tenants, done, fld, todo, buf>>

(* apply_pack_migrations_at_startup, apply_pending_migrations: load the     *)
(* ledger and evaluate the gate, before anything is written; a file that    *)
(* cannot be decoded fails the startup.  Without a durable ledger the       *)
(* migrations are skipped.  A store without a ledger of its own (the memory *)
(* store) belongs to one process of its namespace.                          *)
Start(r, conf) ==
    /\ pc[r] \in {"down", "failed"}
    /\ InStore \/ \A s \in Replicas : pc[s] \in {"down", "failed"}
    /\ IF Plan = << >> \/ kind = "none" THEN Ends(r, "serving")
       ELSE IF ~torn /\ GatePasses(Loaded, conf) THEN Begins(r, conf)
       ELSE Ends(r, "failed")

RunsAt(r) ==
    LET m == Plan[at[r]]
    IN  /\ IF m.id \in known[r] \/ (m.breaking /\ ~confirm[r])
           THEN at' = [at EXCEPT ![r] = @ + 1] /\ UNCHANGED <<pc, fld>>
           ELSE Goto(r, "query") /\ fld' = [fld EXCEPT ![r] = 1] /\ UNCHANGED at
        /\ UNCHANGED <<store, ledgers, tenants, done, confirm, known, todo, buf>>

(* Slip: the loop over the plan stops one migration early.                  *)
RunOneShort(r) ==
    /\ pc[r] = "next"
    /\ \/ at[r] >= Len(Plan) /\ Ends(r, "serving")
       \/ at[r] < Len(Plan) /\ RunsAt(r)

(* MigrationRunner::run_one: skip what is applied, refuse what is breaking  *)
(* and unconfirmed, otherwise begin the backfills; serve at the end.        *)
RunOne(r) ==
    /\ pc[r] = "next"
    /\ \/ at[r] > Len(Plan) /\ Ends(r, "serving")
       \/ at[r] <= Len(Plan) /\ RunsAt(r)

(* Slip: the query does not look at the field.                              *)
QueryAll(r) ==
    /\ pc[r] = "query" /\ fld[r] <= Len(Plan[at[r]].fields)
    /\ todo' = [todo EXCEPT ![r] = live]
    /\ Goto(r, "fill")
    /\ UNCHANGED <<store, ledgers, tenants, done, confirm, known, at, fld, buf>>

(* apply_backfill, store.query: the records scanned that lack the field.    *)
Query(r) ==
    /\ pc[r] = "query" /\ fld[r] <= Len(Plan[at[r]].fields)
    /\ todo' = [todo EXCEPT ![r] = {i \in Scanned(live) : val[i][Field(r)] = "absent"}]
    /\ Goto(r, "fill")
    /\ UNCHANGED <<store, ledgers, tenants, done, confirm, known, at, fld, buf>>

(* Slip: a page of records that is never advanced.                          *)
FillRepeats(r) ==
    /\ pc[r] = "fill"
    /\ \E i \in todo[r] : val' = [val EXCEPT ![i][Field(r)] = IF i \in live THEN "default" ELSE @]
    /\ UNCHANGED <<live, legacy, ledgers, tenants, done, pc, local>>

(* apply_backfill, store.update for one of them: the patch is merged over   *)
(* whatever the record holds by now.  A record that is gone is              *)
(* record_not_found, and the startup fails.                                 *)
Fill(r) ==
    /\ pc[r] = "fill"
    /\ \E i \in todo[r] :
         \/ i \notin live /\ Ends(r, "failed")
         \/ /\ i \in live
            /\ val' = [val EXCEPT ![i][Field(r)] = "default"]
            /\ todo' = [todo EXCEPT ![r] = @ \ {i}]
            /\ UNCHANGED <<live, legacy, ledgers, tenants, done, pc, confirm, known, at, fld, buf>>

(* The loop over the backfills of the migration.                            *)
FillDone(r) ==
    /\ pc[r] = "fill" /\ todo[r] = {}
    /\ fld' = [fld EXCEPT ![r] = @ + 1]
    /\ Goto(r, "query")
    /\ UNCHANGED <<store, ledgers, tenants, done, confirm, known, at, todo, buf>>

(* Slip: recorded before its backfills have run.                            *)
AppliedEarly(r) ==
    /\ pc[r] = "query"
    /\ LET id == Plan[at[r]].id
       IN  /\ known' = [known EXCEPT ![r] = @ \cup {id}]
           /\ done' = done \cup {id}
    /\ Goto(r, "record")
    /\ UNCHANGED <<store, ledgers, tenants, confirm, at, fld, todo, buf>>

(* run_one, after the last backfill: Applied.                               *)
Applied(r) ==
    /\ pc[r] = "query" /\ fld[r] > Len(Plan[at[r]].fields)
    /\ LET id == Plan[at[r]].id
       IN  /\ known' = [known EXCEPT ![r] = @ \cup {id}]
           /\ done' = done \cup {id}
    /\ Goto(r, "record")
    /\ UNCHANGED <<store, ledgers, tenants, confirm, at, fld, todo, buf>>

(* ledger.record_applied on a store: one transaction that adds a key.       *)
RecordInStore(r) ==
    /\ pc[r] = "record" /\ InStore
    /\ ledger' = ledger \cup {Plan[at[r]].id}
    /\ at' = [at EXCEPT ![r] = @ + 1]
    /\ Goto(r, "next")
    /\ UNCHANGED <<store, kind, torn, kept, tenants, done, confirm, known, fld, todo, buf>>

(* On a file: read the map of all namespaces, or fail where it cannot be    *)
(* decoded; add the id, and fs::write the map, which truncates first.       *)
ReadFile(r) ==
    /\ pc[r] = "record" /\ kind = "file"
    /\ \/ torn /\ Ends(r, "failed")
       \/ /\ ~torn
          /\ buf' = [buf EXCEPT ![r] = ledger]
          /\ Goto(r, "truncate")
          /\ UNCHANGED <<store, ledgers, tenants, done, confirm, known, at, fld, todo>>

TruncateFile(r) ==
    /\ pc[r] = "truncate"
    /\ torn' = TRUE
    /\ Goto(r, "write")
    /\ UNCHANGED <<store, kind, ledger, kept, tenants, done, local>>

(* Written over what somebody else wrote since the truncation, a shorter    *)
(* text leaves the tail of theirs.                                          *)
WriteOver == torn' \in IF torn THEN {FALSE} ELSE BOOLEAN

WriteFile(r) ==
    /\ pc[r] = "write"
    /\ WriteOver
    /\ ledger' = buf[r] \cup {Plan[at[r]].id}
    /\ kept' = kept \cup {Plan[at[r]].id}
    /\ at' = [at EXCEPT ![r] = @ + 1]
    /\ buf' = [buf EXCEPT ![r] = {}]
    /\ Goto(r, "next")
    /\ UNCHANGED <<store, kind, tenants, done, confirm, known, fld, todo>>

(* The process of another tenant records a migration of its own in the      *)
(* shared file: the same three steps; what it does not know of us is lost.  *)
OtherReads(t) ==
    /\ kind = "file" /\ other[t] = "idle" /\ ~torn
    /\ other' = [other EXCEPT ![t] = "truncate"]
    /\ obuf' = [obuf EXCEPT ![t] = ledger]
    /\ UNCHANGED <<store, ledgers, pc, local, done>>

OtherTruncates(t) ==
    /\ other[t] = "truncate"
    /\ torn' = TRUE
    /\ other' = [other EXCEPT ![t] = "write"]
    /\ UNCHANGED <<store, kind, ledger, kept, obuf, pc, local, done>>

OtherWrites(t) ==
    /\ other[t] = "write"
    /\ WriteOver
    /\ ledger' = obuf[t] /\ kept' = kept \cap obuf[t]
    /\ other' = [other EXCEPT ![t] = "idle"]
    /\ obuf' = [obuf EXCEPT ![t] = {}]
    /\ UNCHANGED <<store, kind, pc, local, done>>

OtherDies(t) ==
    /\ other[t] # "idle"
    /\ other' = [other EXCEPT ![t] = "idle"]
    /\ obuf' = [obuf EXCEPT ![t] = {}]
    /\ UNCHANGED <<store, ledgers, pc, local, done>>

(* A store or ledger call fails and the startup with it; a write of the     *)
(* ledger file may fail after the truncation.                               *)
Fails(r) == pc[r] \in Applying /\ Ends(r, "failed")

(* The process dies; only the store and the ledger survive.                 *)
Crash(r) == pc[r] # "down" /\ Ends(r, "down")

-----------------------------------------------------------------------------
(* Clients, through any replica that serves.                                *)
Served == \E r \in Replicas : pc[r] = "serving"

ClientCreate(i) ==
    /\ Served /\ i \notin live
    /\ live' = live \cup {i}
    /\ \E v \in [Fields -> {"absent", "user"}] : val' = [val EXCEPT ![i] = v]
    /\ UNCHANGED <<legacy, ledgers, tenants, pc, local, done>>

ClientUpdate(i, f) ==
    /\ Served /\ i \in live
    /\ val' = [val EXCEPT ![i][f] = "user"]
    /\ UNCHANGED <<live, legacy, ledgers, tenants, pc, local, done>>

ClientDelete(i) ==
    /\ Served /\ i \in live
    /\ live' = live \ {i} /\ legacy' = legacy \ {i}
    /\ UNCHANGED <<val, ledgers, tenants, pc, local, done>>

Migrate(r) ==
    \/ RunOne(r) \/ Query(r) \/ Fill(r) \/ FillDone(r) \/ Applied(r)
    \/ RecordInStore(r) \/ ReadFile(r) \/ TruncateFile(r) \/ WriteFile(r)

Next ==
    \/ \E r \in Replicas :
          \/ \E conf \in BOOLEAN : Start(r, conf)
          \/ Migrate(r) \/ Fails(r) \/ Crash(r)
    \/ \E t \in Tenants :
          OtherReads(t) \/ OtherTruncates(t) \/ OtherWrites(t) \/ OtherDies(t)
    \/ \E i \in Ids : ClientCreate(i) \/ ClientDelete(i)
    \/ \E i \in Ids, f \in Fields : ClientUpdate(i, f)

Spec == Init /\ [][Next]_vars

(* A process that is starting keeps running.                                *)
FairSpec == Spec /\ \A r \in Replicas : WF_vars(Migrate(r))

-----------------------------------------------------------------------------
(* What is known to have been applied: what a store recorded, and for a     *)
(* file, which other tenants make forgetful, what was completed.            *)
Settled == IF kind = "file" THEN done ELSE ledger

(* orchestrate.rs, the pre-flight gate: whoever is migrating without the    *)
(* confirmation has no breaking migration left to apply, whatever other     *)
(* replicas and tenants do; so it never stops half way before one.          *)
GateHolds ==
    \A r \in Busy : ~confirm[r] => Breaking \subseteq Settled

(* docs/migrations.md: no replica serves a half-migrated SoR.  With a       *)
(* ledger, a replica that serves has every migration of its pack applied.   *)
ServingMigrated ==
    kind # "none" =>
        \A r \in Replicas : pc[r] = "serving" => PlanIds \subseteq Settled

(* docs/migrations.md: a backfill sets the field on every record of the     *)
(* collection.  runner.rs records a migration after its backfills, so once  *)
(* it is recorded (and never run again), every record that was there from   *)
(* the beginning has the fields.                                            *)
EveryRecordFilled ==
    \A n \in DOMAIN Plan : Plan[n].id \in ledger =>
        \A i \in legacy : \A k \in DOMAIN Plan[n].fields :
            val[i][Plan[n].fields[k]] # "absent"

(* It holds through crashes and concurrent runs in every store whose scan   *)
(* returns the collection; FoundationDB's returns the first batch of it.    *)
RecordedMeansFilled == kind # "fdb" => EveryRecordFilled

(* ledger.rs: what was recorded in the ledger file, and not dropped by the  *)
(* write of another tenant, is never applied again: not after a crash       *)
(* inside a write, nor beside a file that somebody is writing.              *)
SkipsRecorded ==
    kind = "file" =>
        \A r \in Replicas : pc[r] \in {"query", "fill"} => Plan[at[r]].id \notin kept

(* docs/migrations.md: a backfill sets a field where it is absent, so it    *)
(* never takes away a value that a client wrote.  It holds for a store that *)
(* belongs to one process, which serves nobody while it migrates; beside    *)
(* other replicas a client may write between the query and the update.      *)
UserValueKept ==
    [][ ~InStore =>
          \A i \in live \cap live', f \in Fields :
              val[i][f] = "user" => val'[i][f] = "user" ]_vars

(* docs/migrations.md: a migration is applied at most once per namespace.   *)
AppliedOnce == [][\A r \in Replicas : Applied(r) => Plan[at[r]].id \notin done]_vars

(* A startup ends: the replica serves, or fails, or dies.                   *)
StartupEnds ==
    \A r \in Replicas :
        pc[r] = "next" ~> pc[r] \in {"serving", "failed", "down"}

=============================================================================
