# Verification of greentic-sorx

TLA+ models of greentic-sorx: the canonical record store and the transactions that carry it to Postgres,
its two siblings in memory and in FoundationDB, the endpoint calls and the commands of several steps that
use them and the events they publish, the pack migrations that run when a replica starts, the start of a
process from its pack and answers, the runtime snapshot that operators change, the registry of deployments,
and what callers see: the ways in, the manager's cards, metrics, graph commands and the event bridge. TLC checks them on small instances; TLAPS proves the main safety properties
for every value of the constants. `PROJECT.json` lists components, runs, mutants, the lines each
definition stands for, findings, hazards and theorems.

## 1. The system

Sorx serves a *system of record* (SOR) described by a pack. A process (`greentic-sorx-cli`) loads a
pack, connects a store, applies the pack's migrations, and answers HTTP, MCP and event-bridge calls
with one thread per connection (`http_runtime.rs`, `serve`). Several processes (replicas) may share
one database. A second, file-based state is the registry of deployments, which CLI commands and HTTP
threads read and rewrite.

| Component | State | Operations | Interacts with | Hard behaviour | What makes it correct |
|---|---|---|---|---|---|
| Canonical store, `providers/kv.rs` | keyspace: records, unique-index entries, idempotent answers, id counter, event stream and its counter, evidence lists, migration ledger | create, update, delete, append_event, store_evidence, record_migration, reads | called by the runtime, the manager, the migration runner, inside a transaction | entries and counters must stay in step over long sequences of calls | unique values unique, no stale entries, fresh auto ids, stable replays, append-only stream |
| Postgres store, `providers/postgres.rs` | connection pool, open transactions | transact: take a connection, snapshot, body, commit, retry | runs kv bodies; Postgres decides commits | write skew, serialization failures, lost COMMIT, callers that resend, pool exhaustion | the concurrent store behaves as the atomic one; answers tell the truth; every call ends |
| Migrations, `migration/*.rs`, `apply_pack_migrations_at_startup` | ledger (in the store or in a file that tenants share), position of the startup | load, gate, query, update per record, record | store, ledger, clients of other replicas, processes of other tenants that rewrite the file | replicas starting together, crash between backfills and record, client writes in between, torn file, an id that another tenant's write drops, a scan that stops at a batch | gate holds, serving means migrated, recorded means filled, what is recorded and not dropped is not applied again |
| Deployment registry, `deployment.rs` | deployments, aliases, reports, audit trail, deliveries, one JSON file | create, validate, activate, report, promote, alias, rollback, retire | CLI, HTTP admin, webhook; read by routing | whole-file read-modify-write without a lock, crash in the write, any status to any status | public means gated, aliases resolve, paths exclusive until a revival, deliveries recorded with their deployment |
| GHCR webhook, `ghcr_webhook.rs` | none of its own | check, resolve, create deployment, record delivery | registry | redelivery, refusal half way | recorded only with its deployment |
| Endpoint runtime, `runtime.rs` with `policy.rs`, `approval.rs`, `audit.rs` | none of its own; the place of each call, its result so far, its audit trail | invoke: audit, validate, authorise, pre-call, policy, approval, provider operation, event, post-call | store, audit sink, observers, control hooks, broker, event sink, any of which may fail | failures between the gates, the write and the answer, a denial after the write, retries of a hidden answer, commands of several steps | nothing written unaudited or under a denial, what is written is announced, a key creates one record |
| Commands, `runtime.rs` `execute_command` | place in the program, named outputs, generated values, counts | find, query, create, update, increment, delete, emit, foreach | store, event sink | no transaction around the steps, rows that go between query and write, races for generated codes, one key for several creates, commits that nobody hears of | counts are true, codes unique, a key inserts once |
| Memory store, `providers/memory.rs` | maps behind a mutex, a snapshot file | as the canonical store; rewrite the file after every change, load it at start | commands, runtime | count-derived ids, a file that cannot be written or is cut short | answered means durable, no record replaced |
| FoundationDB store, `providers/foundationdb_real.rs` | native keyspace | as the canonical store | commands, runtime | count-derived ids, entries that an update does not release, range reads that return one batch, transactions run again after a commit that was not seen | as the canonical store |
| Startup, `lib.rs` `run_start`, `startup.rs`, `provider_compatibility.rs`, `from_pack_with_runtime_config` | how far the start is, its answers | load pack, build the schema, normalise or prompt, bind providers, open stores and sink, migrate, check authentication, tools and metrics, apply the runtime configuration, bind hooks, listen | pack, files, environment, store | everything that fails after the migrations, a start after a crash | what serves was checked |
| Pack loader and doctor, `greentic-sorx-pack` | none | load, inspect, doctor | startup, command line | three readings of one pack (loader, doctor, runtime) | a pack found valid can be served |
| Runtime snapshot, `generic_runtime.rs` | deployments, revisions, traffic split, surfaces, behind a RwLock | stage, warm, activate, drain, deactivate, set_traffic, register surface, apply config, select | admin requests, hooks, routing | operators who act on an older listing, hooks that deny afterwards | traffic by weight, drained means out, truthful answers |
| Presence, `presence_publish.rs` | a boot thread and a heartbeat thread | connect, publish | NATS | a connect that fails | (no property: nothing depends on it) |
| Business events, `nats_events.rs` | bounded channel, publisher thread | publish (never waits), connect, forward | endpoint runtime, NATS | full channel, a connect that fails for good, crash with envelopes queued | what is delivered is true and not repeated |
| Event bridge, `sorx-event-bridge`, `event_bridge_invoker.rs` | a task per message | decode, invoke on the blocking pool, respond | endpoint runtime, NATS | failures and panics in the invocation, repeated messages | every decodable request is answered with its own correlation id |
| Doors, `http_runtime.rs`, `mcp_auth.rs`, `mcp_jsonrpc.rs`, `admin_roles.rs` | cache of roles per tenant, one cache slot of signing keys | authenticate, find the endpoint, resolve the roles, invoke | admin service, token issuers, endpoint runtime | grants revoked and keys rotated during a fetch, several issuers in one slot, a service that fails, a door that trusts what the caller says of itself | nobody is served on trust that has expired |
| Manager and cards, `http_runtime.rs`, `manager/*.rs` | none: cards in people's hands | list, create, detail and delete cards, submit | endpoint runtime, store, control hooks | its own copy of the role rules, hooks that deny before or after the change, rows that change under a card, identifiers derived in two places | offered means accepted, created below a row means listed below it |
| Metrics, `metrics_runtime.rs`, `http_runtime.rs` `StoreMetricProvider` | none | parse and evaluate formulas, filter, group, aggregate | store | filters pushed down in part, dotted fields, formulas that no start has read, rows that change between reads | the answer is the definition's |
| Ontology graph and evidence queries, `ontology_graph.rs`, `policy.rs`, `lib.rs` | none | paths, neighbours, traversal policy | pack file | two searches that must agree on what the policy covers, a pack file loaded once for each part of a command | prints all that is within the depth and nothing that is denied |
| Validation suites, route tables, localisation | none | | | | not modelled (section 5) |

The hazards these meet, each at its line and with the properties that would catch it, are in
`PROJECT.json` under `hazards`.

## 2. Modules

```
RecordStore <-- implements -- KvStore <-- instance -- PgStore       Registry <-- RegistryFile
                                 |                       |
                               KvOps <---- extends ------+          Migration
                                 ^
       Invoke --------+----------+--------- Stores <-- Command
          |
          +--> EventSink          RuntimeSnapshot <-- Admin;  Admin, Startup, Pack <-- Node

              Doors <-- Access;   Manager <-- Cards;   Ontology <-- GraphCommands
                      Access, Cards, Metrics, GraphCommands <-- Front
```

* **KvOps**: the operations of `kv.rs` as functions from a keyspace and a request to an answer and a
  keyspace. One namespace, collection, stream and subject, because every key carries them and no
  operation crosses them. A record is its version and one value (or `Absent`) per unique index. An id
  `n > 0` stands for `{collection}-{n}`, `0` for every id of another form; both may be given explicitly.
  The definitions marked *Slip* are wrong variants of the one below them; no specification uses them,
  and the mutants listed in `PROJECT.json` put each in the place of the right one to show that a
  property notices.
* **KvStore**: the operations done one at a time. `CreateStep`, `UpdateStep`, `DeleteStep`,
  `AppendEventStep`, `StoreEvidenceStep` and `RecordMigrationStep` are the store trait's calls.
  `NamedSets` is which unique indexes callers pass (endpoints pass all; the manager's submit and the
  backfills none), `AllowReplace` whether callers create over a live id.
* **RecordStore**: what callers are promised: records with unique values, answers stored once, logs
  that grow. It knows no index entries and no counters.
* **PgStore**: handler threads in `transact`. `Call`, `PoolGet`/`PoolTimeout`, `Begin`, then `Refuse`
  (the body's error), `Commit`, `CommitLost` (unknown), `RetryAgain` or `GiveUp`; `Resend` is the caller
  that sends the request again whatever it was told. A transaction sees its snapshot and writes the keys
  its body wrote. `Admitted` is what Postgres promises under SERIALIZABLE: nothing written since the
  snapshot is overwritten, and the transaction has a place among those committed since, not
  necessarily the last, at which running them one after the other gives the same answers and the same
  database. `RetryAgain` may happen at any point of an attempt, as the server may abort
  a transaction for any conflict it suspects.
* **Migration**: replicas that start (`Start` loads the ledger and evaluates the gate), apply
  (`RunOne`, `Query`, `Fill`, `FillDone`, `Applied`), record (`RecordInStore`, or `ReadFile`,
  `TruncateFile`, `WriteFile`), fail or crash at any step, beside clients that create, update and delete
  through replicas that serve. A field is absent, the default, or a client's value. A ledger file holds the
  namespaces of several tenants: the process of another one rewrites it whole, without a lock
  (`OtherReads`, `OtherTruncates`, `OtherWrites`, `OtherDies`), and drops what was recorded since it read; two that
  write into it at once may leave a mixture (`torn`). On FoundationDB a scan and the load of the ledger return one
  batch (`Scanned`).
* **Registry**: the operations of `deployment.rs` as functions of the registry. A deployment id stands
  for tenant, SOR, API label, version and digest, from which `deployment_id` derives it; entries that share an id (created
  again after retirement) are a sequence whose first is the one lookups find. A promotion is remembered with the
  number of reports there were, so that a property can ask which report it went by.
* **RegistryFile**: users that load, apply one operation, truncate and write, with no lock, and may die
  in between. Two that write into the file at once may leave a mixture (`torn`), which no load accepts.
* **Invoke**: `SorxRuntime::invoke` for the record operations, one action per step between two calls of
  something outside: `Receive`, `Gates`/`Refused`, `PreCall`/`PreDenied`, `Policy`, `Approval`, `Closing`,
  `Start`, `Operate`, `PublishEvent`, `Complete`, `Failing`, `PostCall`, `Finish`, and `Crash`. Which gate
  refuses, what a hook or the broker says and whether the audit sink, an observer or the store
  fails are choices, since all are trait objects or configuration; the order, the early returns and
  where each failure goes are the code's. An observer counts only by the error it may return. A patch by
  `pre_call` rewrites the input but neither the operation nor the key. The store's operation is the one of
  `KvOps`, done at once (which `pg_store` justifies), and its COMMIT may be applied and reported as unknown.
  Creates leave the id to the store.
* **EventSink**: the NATS sink: `Publish` (drops when the channel is full or its thread gone), `Connected`,
  `ConnectFails`, `Forward` (delivers or only logs), `SinkRestart`. Invoke extends it.
* **Stores**: the memory and the FoundationDB store as functions on the keyspace of `KvOps`, where they differ
  from it: ids from the number of records, a unique check that reads records (memory) or entries that an update
  does not release (FoundationDB); the snapshot file in its forms (none, the bare form of version 0, version 1,
  newer, cut short). FoundationDB's range reads return one batch and the store asks for no more: the count behind
  an id, a query and the release of entries see its first keys only (`InBatch`, `EntriesSeen`). The client
  cuts a batch by bytes; here it is a number of keys (`Batch`, `EntryBatch`), and ids are ordered as numbers.
* **Command**: calls that run a program of steps over one of the three stores, one action per store call
  (`CreateStep` with `Retry`, `QueryStep`, `DeleteRow`, `UpdateRow`, `IncrementRow`, `ReadStep`, `EmitStep`,
  `PublishStep`, `ForeachStep`, `EndSteps`), `Skip` for a step whose `when` is false, `Crash` and `Open`. A call of
  the store may fail with nothing done (`StoreFails`), or be done and not heard of (`Silences`): Postgres
  lost the connection at the COMMIT, the replica died, or FoundationDB's client could not tell and ran the
  transaction again. A template is reduced to where its value comes from (literal, generated, the item, an earlier step).
* **Pack**: what the loader, the doctor and the runtime accept, as predicates on a record of the facts they
  look at. Nobody reads the text of a formula before a query does: `QueryMetric` is the set of ways a query may end,
  with the errors of the parser, of a name that is no declared dependency and of a division among them.
* **Startup**: answers as trees of strings, booleans, lists and objects; normalisation against a schema, legacy
  schemas, the wizard, secrets, the configuration read from the answers, provider compatibility.
* **RuntimeSnapshot**: the operations of `generic_runtime.rs` on a snapshot, and the selection of a revision.
* **Admin**: the snapshot of a process and the admin requests to it: `Load` (the first configuration and its
  hooks), `Arrive`, `PreAdmin`, `ApplyAdmin`, `PostAdmin`, `ObserveAdmin`, `Reply`, and `Unload` when the process
  ends. Hooks answer as they like.
* **Node**: one process: `Start` to `Bind` in the order of `run_start`, `Tool` for doctor, inspect and validate,
  `Crash`; the requests of `Admin` while it serves; the presence threads.
* **Doors**: each way in as the sequence of its checks, in order, with the answer each gives when it fails; the
  two caches; the bridge's response. `SubmitDoor`, the submit of the manager, checks the shared secret, tenant and caller and then takes
  the roles from the caller's headers or body (`ClaimRoles`).
* **Access**: requests on their way through the doors beside grants and key rotations: `Accept`, `LookupRoles`,
  `ServiceAnswers`/`ServiceFails`, `StoreRoles`, `LookupKeys`, `IssuerAnswers`/`IssuerFails`, `StoreKeys`,
  `InvokeRequest`, `Tick`. A thread reads a cache, asks, and stores in three steps.
* **Manager**: the view of a pack that a person with some roles gets, the hierarchy of records, lists, pages,
  cards and submits. A field is a value or absent, an identifier a number, `Blank` the empty string. The actions of a
  view are a set of records with their place in the code's list; what the code takes first has the least place.
* **Cards**: people who open create, detail and delete cards (`OpenCreate`, `OpenDetail`, `OpenDelete`), fill them in and
  `Submit` them, while other clients change and delete rows (`ForeignUpdate`, `ForeignDelete`). What a submit does
  to the rows is `CreateRow`, `UpdateRow` and `DeleteRow`. A submit through an endpoint asks the control
  hook of the deployment (`HooksOf`), which may answer 400 or 403 before the change or after it; `denied` remembers
  that it did. A submit of a model action asks no hook.
* **Metrics**: aggregates over rows as the store provider computes them, the formula parser over a sequence of
  tokens, numbers among them, and the rows of a formula. Numbers are pairs, so that division is exact. A field is a
  sequence of segments; one with a dot is looked up inside the record and never pushed down.
* **Ontology**: the graph of a pack, the depth-first search for paths and the breadth-first one for neighbours,
  the policy questions that are asked, and what the graph and evidence commands make of them.
* **GraphCommands**: such a command, which loads the pack file three times (`LoadGraph`, `Enforce`, `PrintGraph`), beside
  replacements of that file (`ReplacePack`).
* **Front**: requests, manager, metrics, graph and the bridge, each in a world of its own, since they share no state:
  the steps of `Access`, `Cards` and `GraphCommands` (`DoorStep`, `ManagerStep`, `GraphStep`), metric queries that read one
  collection after the other beside changes, and the bridge's tasks.
* **KvOpsProofs, KvStoreProofs, PgStoreProofs, MigrationProofs, RegistryProofs, InvokeProofs, CommandProofs,
  ServingProofs**: lemmas and theorems. **MC...**: constants for TLC.

## 3. What the runs show

| Run | Shows | Bounds |
|---|---|---|
| `kv_store` | uniqueness, no stale index entries, fresh auto ids, `KvStore => RecordStore` (which includes stable replays), with every operation in any order | 2 numbered ids and one of another form, 1 index, 2 values, 1 key, 2 payloads, 2 events, versions to 2 |
| `pg_store` | the concurrent store implements `RecordStore`; truthful answers, one insertion per key, acknowledged events and evidence kept | 3 threads, 2 connections, 8 requests (racing creates, a keyed one, an update, a delete, an event, evidence, a migration), 1 attempt, 1 resend |
| `pg_live` | every call is answered | 2 threads, 1 connection, 2 attempts, the same requests |
| `migration` | gate, serving, filled, nothing recorded applied again, client values, startups end | 2 replicas, 1 other tenant, 2 migrations (one breaking) over 2 fields, 1 record, batches of 1 key, the ledger in Postgres, in FoundationDB, in a file or nowhere |
| `registry` | public gate, aliases, base paths and deliveries under lost updates and torn files | 2 users, 2 deployments of one SOR and path, 1 alias, 2 entries per id, 2 reports per deployment, passing or failing, 1 delivery, 6 operations |
| `invoke` | audit before write, denials without effects, the audit alone tells what happened, writes announced, deliveries true and not repeated, one record per key | 2 calls (one may repeat the other's key), 1 crash, 2 ids, 1 index, 1 value, 1 key, a channel of 1, observers that fail closed |
| `command` | counts true, codes unique, one insertion per key, answered means in the snapshot, no record replaced | 2 calls of 4 programs, 5 ids, 3 indexes (2 unique), generated values of 2, 2 attempts standing for 6, lists of 2 items, 1 crash, 1 transaction run again, batches of 1 record and 2 entries, 3 kinds of store, a seed record or none |
| `node` | only checked starts serve; traffic by weight; drained revisions stay out; operators hear the truth | about 300 launches (36 packs, 21 answer files, 6 runtime configurations and the modes, one flaw at a time), 2 starts, 1 deployment, 2 revisions, 2 bundles, 2 surfaces, 1 path, weights to 3 standing for 10000, 2 connections, 3 admin requests |
| `front` | trust fresh, offered means accepted, created means listed, metrics exact, graph commands exact and within the policy, bridge requests answered | 2 requests, 2 issuers, a clock to 2 with answers kept for 2, seven doors; 1 person, a hook that allows or denies; 4 packs with their rows, 3 row ids, pages of 1, 1 change of a row at a time; 8 metrics over sets of 4 rows; 2 bridge messages, 1 correlation id or none; 10 ontologies of 4 concepts, depths 0 to 3, 1 replacement of the pack file |

Two calls suffice for a retry after, or beside, the first; a channel of one place is full after one
envelope; observers that fail open add no behaviour to those that do not fail. Two ids suffice to collide, and a deleted one to be created again; two values suffice to swap; two threads
to skew, a third to see both orders; two replicas to start together; six operations to create, report,
promote, alias, retire and revive; two reports to have a passing one followed by a failing one. A store that keeps no
ledger itself (the memory store) belongs to one process of its namespace, so with the
other two kinds of ledger a replica starts only when no other of the same namespace runs; the processes of other tenants, which share
the ledger file, always run, and one of them is enough to drop what was recorded and to mix two writes. Batches of one key
put the second record and the second migration beyond a batch. Counters (versions, events, attempts,
resends, entries, reports, registry operations) are bounded in the guards of the actions, and each bound
is a named constant (`MaxVer`, `MaxSeq`, `MaxAttempts`, `MaxResends`, `MaxEntries`, `MaxReports`, `MaxOps`, `MaxCrashes`,
`MaxReruns`, `MaxEnvelopes`, `MaxStarts`, `MaxAdmin`, `MaxNow`, `MaxChanges`, `MaxReplaced`).
In `command` two racing calls suffice for rows that go between query and write and for a lost race; five ids
hold the seed, two lists of items and the codes. In `node` a total weight of 3 splits into 1 and 2, so an
off-by-one in the selector shows; three admin requests suffice to stage, activate and drain, or to overlap.
In `front` a page of one row makes every list of two rows have a next page.
Deadlock is not checked where the system may stop (all calls answered and the bounds reached; a startup
that failed and is not tried again; the registry at its bounds; a process that ended; a world in which nobody
asks any more).

Three runs show that the code does not do what a doc or a comment says of it (`findings`):

* `kv_replace`: creating over an existing id leaves the replaced data's index entries behind, so a
  value that no record holds is refused as a conflict.
* `migration_twice`: two replicas that start together apply a migration twice. (Backfills that set a
  default where it is absent make this harmless to the fields: `RecordedMeansFilled` holds throughout.)
* `migration_batch`: on FoundationDB a backfill queries one batch of the collection
  (`foundationdb_real.rs:795-826`), so with more records the migration is recorded, and never run again, although the
  records beyond the batch lack the field. `docs/migrations.md:44` says every record. `RecordedMeansFilled` therefore
  excepts FoundationDB.

The properties are stated as far as they hold, and their conditions are worth knowing:

* Uniqueness needs callers that name every unique index (`NamedSets`). The manager's submit
  (`http_runtime.rs:2550`) and the backfill (`runner.rs:150`) name none, and can write a value that
  another record holds.
* `SkipsRecorded` speaks of what was recorded and not dropped since. The ledger file is shared by tenants
  (`docs/migrations.md:57-59`) and `record_applied` (`ledger.rs:101-109`) rewrites the whole map without a lock, so
  another tenant that read it before drops an id recorded meanwhile, and the migration runs again. What such a loss
  cannot do is let a replica pass the gate or serve unmigrated: `GateHolds` and `ServingMigrated` count
  as settled what was completed. A torn file fails the startup and is not taken for an empty one.
* `UserValueKept` holds while a store belongs to one process. With several replicas a client may set a
  field between the backfill's query and its update, which then overwrites it.
* `PublicGated` looks at the promotion to public: it went by the latest of the reports then, which passed. The
  command `deployments activate` asks for no report, where `docs/deployments.md:62-63` says that private activation requires a
  passing one; the model's `ActivatePrivate` has the code's behaviour and no property speaks of it.
* `PathsExclusiveUntilRevived`: no operation looks at the status a deployment has, and base paths are
  compared only at creation, so a retired deployment that is validated, activated or promoted again comes
  back beside the one that took its path.
* `DeliveredMeansCreated` says nothing of how often a delivery is processed: two webhook processes that
  load the registry before either saves both process it.

* `DenialLeavesNothing`: a caller can be told "denied" after the write, by a post-call hook. The audit then
  says "executed", and that is how the two kinds of denial are told apart.
* `WriteAnnounced` excepts a write whose COMMIT the store could not confirm: the provider answers an error,
  so the event is never published although the record may have changed. It also says only that the event
  was handed to the sink; from there delivery is at most once.
* `DeliveredTruth`: a keyed create that is replayed is announced again, with the stored answer, even if the
  record was deleted since; and nothing orders the events of two updates of one record. Policy and approval
  denials and hook errors leave an observer with a "started" and no event that ends it. A full channel drops
  the envelope being published, where the comment at `nats_events.rs:19` speaks of the oldest one.

Of commands and the other stores:

* A command is no transaction: an error leaves the steps before it done and their counts unreported.
* `Accounted`: nothing is counted that was not done, except a create that an earlier call under its key made; what was done
  is counted up to one change per call that ended without hearing of it (an unknown COMMIT, `postgres.rs:306-313`, which
  leaves by `?` at `runtime.rs:842` and `978`; a snapshot that could not be written; a death), and up to one per transaction that
  FoundationDB's client ran again although the first run was committed.
  `increment_where` writes a value computed from the query's rows, so overlapping increments are lost.
* All creates of a keyed command share its key, so under a `foreach` the second one answers the first record.
* A skipped step counts as present for `when`; a nested `foreach` clears `$item` for the steps after it.
* `RecordsSurvive`: after a delete, the memory and FoundationDB stores may hand out the id of a live record,
  which is then replaced. In FoundationDB no delete is needed once the records exceed a batch: `count_entities` counts
  one batch (`foundationdb_real.rs:795-826`), so the next id is that of a live record; the property asks
  that the records fit, where the comment at `foundationdb_real.rs:393-394` says the ids match the in-memory provider.
  A delete in FoundationDB also leaves the entries beyond a batch behind, and a query misses
  the records beyond one. `UniqueCodes`: the memory store stops checking at the first index whose field the
  data lacks. The FoundationDB update never releases the entry of the old value.
* `AckedDurable`: when the snapshot cannot be written the caller hears an error and the change stays in memory,
  to be saved with the next one.

Of a node:

* `StartChecked`: authentication, tools, metrics, the runtime configuration and the listener are checked after
  the migrations were applied, so a start that fails may have changed the store. A doctor's errors do not stop
  a start, and the doctor accepts a tool with only an operation id, which the runtime refuses. Building the
  required objects of the answers replaces a value that is no object, silently. Of metrics only the names are
  checked: a formula's text is read neither at the start nor by the doctor, so a query may end with
  `metric_formula_unsupported`, `metric_formula_dependency_missing` or a division by zero
  (`metrics_runtime.rs:283-298, 398-404`). What holds is that no query ends on a missing metric or on a cycle.
* `AdminTruth`: a denial by a post hook or an observer that fails closed answers 403 or 500 for a request that
  was carried out. Applying a runtime configuration through the admin API does not bind its hooks.
* `SnapshotSound` leaves a deployment whose whole weight is on a drained revision with nothing to select.
* The boot publication may arrive after a heartbeat, and a heartbeat that cannot connect never tries again.

Of what callers see:

* `TrustFresh`: an answer of the admin service is kept under the time of the lookup, one of an issuer under the
  end of the fetch; roles of any age are used while the service fails. The property excepts one door by name:
  `POST /v1/sorx/manager/submit` runs actions on the roles of the caller's own headers or body
  (`manager/context.rs:73-76`), where `http_runtime.rs:1279-1282` and `admin_roles.rs:1-6` say that every HTTP entry
  point runs through the overlay check. Which of the two is meant is for the maintainers to say.
* `OfferedAccepted` is about a 403 from roles or policy. A control hook may deny what a card offers, as
  the manager does not ask it, and a denial after the call comes when the row is already changed. A submit may still fail otherwise: an update from a detail card through an
  endpoint carries the id only if the record declares a field `id`. A create form whose endpoint is not called
  "create" makes the card submit the model's create. A selector without an entity is never hidden.
* **An update from a detail card gives new values to generated uuid identifiers**: the card shows them read-only
  and does not send them, and `fill_generated_manager_fields` (`http_runtime.rs:5230`) fills what is missing in
  an update as in a create. Children that refer to the old value then have no parent. No doc or test says what
  should happen, so this is a hazard without a property; the model has the behaviour.
* `ChildListed`: below a grandparent the create sets the field of the nearest level, references of number type
  never match, a parent whose own identifier is the empty string is not found, and after the first step of a path
  business identifiers are ignored.
* `GraphExact`: the graph commands find paths in the pack they load first and take the policy from the one they
  load second and the hash from a third, so a pack replaced meanwhile is checked against a policy that is not its
  own; a pack without an ontology forbids nothing. `graph relationships` asks no policy.
* `MetricExact`: the store provider ignores from, to and grain. Of two equality filters on a field the last is
  pushed down, and all are checked. `a-b` without spaces is one identifier. Rounding of f64 is abstracted.

**Fairness.** `pg_live` assumes that a thread serving a call keeps taking steps (weak fairness of its
steps), and nothing of callers or of Postgres: that an attempt which keeps colliding ends is due to the
budget. `migration` assumes that a starting process keeps running unless it fails or crashes. `front` assumes
that a task of the bridge, once spawned, keeps running (tokio polls a task that is ready and the blocking pool
runs what it accepted). All are what the operating system's scheduler gives a runnable thread.

## 4. What is proved

For all finite or infinite sets of the constants that the modules' assumptions allow:

* `KvOpsProofs` holds the lemmas that the others share: what each operation of `kv.rs` does to a keyspace
  (which records, entries, answers and counters it leaves alone), and that a set of numbers has a least one.
* `KvStoreProofs`. `TypeCorrect`; `UniqueSafe`: uniqueness is not inductive, since the conflict
  check reads index entries and not records; `CoversSafe` is the strengthening (each indexed value of a live
  record is owned by that record in the index), and implies it. `PromiseKept`: every step of `KvStore` is
  one of `RecordStore` or a stutter, using the same invariant and that the stream's counter has no gaps.
  `IndexExactSafe` (assuming that nobody creates over a live id) and `AutoIdSafe` (the ids handed out are
  never above the counter). Uniqueness and the promise assume that callers name all indexes; exactness
  needs its assumption by `kv_replace`.
* `PgStoreProofs`. `AnswerSafe`, `KeyedSafe` and `KeptSafe`, for any number of handler threads, any requests, pool
  and budget. The invariant (`PgInv`) says of a call how often it committed, by its place; of a key that
  counted an insert that its answer is stored; of an acknowledged entry that it is in the database and below
  the counter; and of an open transaction how its snapshot differs from the database: only in keys written since,
  which it remembers. Of `Admitted` only the half is used that a COMMIT may not overwrite a key written since its
  snapshot: these three, and the next, would hold under snapshot isolation with first-committer-wins as well. Assumed: the
  requests are those of the trait (`RequestAssumption`), and there are finitely many threads.
  `PromiseKept`: the concurrent store implements `RecordStore`. The invariant (`IndexInv`) says that the database and
  every open snapshot have an index entry for each indexed value of a live record, and no others. A body that succeeds
  either leaves the rows alone or replaces one row and its entries (`BodyRows`); at the COMMIT that row is as the snapshot had it,
  hence so are its entries, and those it takes are still free (`RowWritten`), so the COMMIT is the same
  replacement done to the database that is there: a step of `RecordStore` (`CommitImplements`), although what the body read besides
  may be stale. It assumes that callers name all indexes and create over no live id: a stale
  entry could otherwise be taken over by two transactions without either writing what the other wrote.
* `MigrationProofs`. `TypeCorrect`, `GateSafe`, `ServingSafe`, `SkipSafe`, for any plan, any number
  of replicas and of other tenants, and every kind of ledger. The invariant (`RunInv`) says that what a
  replica knows as applied is settled (recorded in its store or, where the ledger is a file, completed) or is the one it is
  about to record, and that all before its position are known; the gate then stays true because what is settled only
  grows (`SettledStep`, `DoneStep`), which the ledger file itself does not. `SkipSafe` (`SkipsRecorded`) follows what was recorded and not
  dropped (`kept`): it is in the file, in what every starting replica knows, and in what a replica is about to write
  (`KeptStep`); the other tenants may read, write and die as they like. `FilledSafe`: outside FoundationDB a
  recorded migration has filled the records of the beginning. Its invariant (`FillInv`) follows each replica through the
  backfills of a migration, row by row; it assumes that the migrations of a plan have different ids (`DistinctIds`): the
  second of two with one id is taken as applied and never run.
  `UserValueSafe`: the file and memory ledgers' stores belong to one process, which does not serve while it fills.
* `RegistryProofs`. `GatedSafe` (the report a promotion went by was the last one then, and passed), `AliasSafe`, `PathsSafe`, `DeliverySafe`, `TypeCorrect`, for any number of
  users without a lock. The invariant is one of a registry (`RegInv`), kept by every operation, and holds
  of the file and of every copy a user is about to write: updates may be lost, but
  each value written is one that the operations made.
* `InvokeProofs`. `AuditSafe` and `DenialSafe`, for any number of calls. Neither is inductive: the
  invariant (`Progress`) ties what the trail holds, and whether the call may have had effects, to the place it has
  reached. The steps fall into three shapes (a move, an audit event with a move, an abort), each with one
  lemma; the store's operation and the sink do not matter here. `TrailSafe`, `AnnouncedSafe`,
  `DeliveredSafe`, `KeyedSafe` and `TypeCorrect` rest on a larger one (`FullInv`): the whole story of a call
  (place, trail, answer and effects together), the key of a create stored with its record, and
  every envelope in the channel or at the broker told of a change that was committed, once.
* `CommandProofs`. `UniqueSafe`, `KeyedSafe`, `DurableSafe`, `SurviveSafe`, `CountsSafe` and `TypeCorrect`, for any programs over any of
  the three stores, any number of calls and deaths. The programs are those whose templates take values from the
  sources there are (`ProgramAssumption`); `StepLists` names their lists of steps, inner ones included, so that no
  recursion is needed to say it. First each operation of the three stores is summed up (`StoreCreates`,
  `StoreUpdates`, `StoreDeletes`, `StoreAppends`), then every step of a command by its `Effect` on store, file and
  history, and then one lemma per part of the invariant (`CommandInv`) says that an effect keeps it. Uniqueness
  needs the index entries in the keyspace and FoundationDB stores, and the records alone in the memory store; a key
  needs the stored answer; the file needs to be no older than what was acknowledged. `SurviveSafe` needs ids without a
  gap, since two of the stores count records to find the next; a caller who chooses ids makes a gap, and the
  count then reaches that id: the theorem assumes that none does (`AutoIds`).
  For FoundationDB it also asks that the records fit in a batch (`CountedFree`).
  `CountsSafe` (`Accounted`) compares sums over calls with the history of the store. A sum over calls is the number of
  pairs of a call and a number up to its count (`Total`, `Counted`), so that no induction over calls is needed: a step
  of one call adds or removes one pair (`PairsStep`). The invariant (`TallyInv`) counts besides the calls that ended without hearing of their last change, the
  transactions run again, and the calls between storing an event and publishing it. There are finitely many calls.

* `ServingProofs`, about `Access`, `Admin`, `GraphCommands` and `Cards`. `AccessFresh`: for any number of overlapping requests, any requests through the seven
  doors, any grants and rotations. The invariant (`DoorInv`) says of each cache that its content was granted or
  published when its time says, and of each request what it knows at its stage; that a door asks an outside service at
  most once and ends with the work (`DoorShape`, proved of the seven sequences of checks) makes the roles it ends with those
  it found; only the submit door takes the roles a caller claims. `SharesKept`, `DrainedOut` and `AdminHonest`: for any deployments, revisions, weights, hooks and connections.
  The invariant (`AdminInv`) keeps ids apart and weights within the total, keeps what was taken out of service present and
  out, and says what a request's answer tells at each stage of the pipeline. Sums of weights are a recursive function, about which
  the proof argues by a least counterexample: sums grow (`SumsGrow`), lose one weight when it is left out
  (`SumsWithout`), and entries that fit one to one below others sum to no more (`SumsFit`), which is why a traffic split
  over some of the revisions stays within the total. The selector then meets the revision into whose interval of the
  sums it falls (`SelectsShare`), and the interval has as many numbers as the weight (`SharesExact`).
  Assumed: documents and requests have the shape the deserialiser accepts, and revision ids are not the number that
  stands for no revision (`AdminAssumption`). `GraphSafe` (`GraphExact`): for any graph of concepts, any depth, and any pack files put in each other's place between the
  three loads. The walks of n relationships that the depth-first search extends are exactly the chains without a repeated
  concept of the definition, and the rounds of the breadth-first search reach exactly what chains of that length reach,
  each by induction on the length, which is a number. `GraphInv` ties what a command holds at each stage to the ontology it read
  and says that it asked the policy about every relationship and concept it uses. Assumed: a pack file has an ontology,
  has none or does not load, and a command is one of the six with a depth (`GraphAssumption`).
  `CardsSafe` (`OfferedAccepted`): for any pack, roles, people and changes of rows. The manager and the runtime each have
  their own role rules; the proof shows that they agree on every operation a card can carry
  (`EndpointAllowed`, `ModelAllowed`), that each action of a view comes from an endpoint or from a record of the model that the
  roles may change (`GenerateSourced`, `ApplySourced`), and that the filter leaves only what is visible and not
  denied (`FilterShown`). `CardsInv` says of each open card that what it offers comes from such a source for the roles it was
  rendered for, which is what the submit asks again; a 403 is then one of the hook's, which `denied` remembers. Assumed (`CardsAssumption`): endpoint ids are unique, as the
  keys of a map are, and no record has a name that stands for none in the model.
  The steps of `Front` and `Node` that touch these variables are steps of `DoorNext`, `CardsNext`, `GraphNext` and `AdminNext`
  for some of their parameters, so what is proved of `DoorSpec`, `CardsSpec`, `GraphSpec` and `AdminSpec` holds there;
  those two modules are recursive (formulas of metrics, normalisation of answers), and this last step is by inspection (`DoorStep`, `ManagerStep`, `GraphStep`,
  `Build`, `Bind`, `Crash`, `Serving`) and by the runs, which check the same six properties.

Only model-checked: liveness (`CallAnswered`, `StartupEnds`, `BridgeAnswered`); `StartChecked` and `MetricExact`, where the normalisation of answers,
cycles of metrics and formulas are recursive operators; and `ChildListed`, which needs that sorting and cutting into pages loses no
row, an induction over the list.

## 5. What is not modelled, and the plan

Left for later:

1. **Routing**: route tables of deployments and aliases from `Registry` (`router.rs`), and the validation suites
   that produce its reports (`validation.rs`), which here are inputs.
2. Queries and traversals of endpoints, which only read.
3. `store_evidence` and external references of the memory and FoundationDB stores.

Left out for good: parsing and formatting (archives, JSON, CBOR, card layout, channels, themes, localisation),
download of pack references, the test runtime, cryptography and TLS, argument parsing, which hold no state
between calls; native and WASM extensions, whose answers are arbitrary choices in `Invoke` and `Admin`.
