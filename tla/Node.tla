-------------------------------- MODULE Node --------------------------------
(***************************************************************************)
(* One runtime process: run_start from the pack and the answers to the     *)
(* listener, the admin requests that change the runtime snapshot through   *)
(* the hooks of extensions, and the presence threads.  A crash loses       *)
(* everything but the store.                                               *)
(***************************************************************************)
EXTENDS Admin, Startup, Pack

CONSTANTS
    Launches,   \* command lines with the files and the environment they find
    MaxStarts   \* bound: starts of the process

ASSUME NodeAssumption == \A l \in Launches : l.content \in Configs

VARIABLES
    proc,       \* how far run_start is, for which launch, and its answers
    exit,       \* how the last process that ended by itself ended
    migrated,   \* the store has the pack's migrations
    presence,   \* the boot and the heartbeat thread
    starts

vars == <<proc, exit, migrated, presence, starts, adminVars>>

Down       == [phase |-> "down"]
NoPresence == [boot |-> "off", beat |-> "off"]

Init ==
    /\ proc = Down /\ exit = "none" /\ migrated = FALSE
    /\ presence = NoPresence /\ starts = 0
    /\ AdminInit

-----------------------------------------------------------------------------
(* run_start                                                                *)
Running == <<presence, adminVars>>

Exit(how) == proc' = Down /\ exit' = how

Phase(from, to) == proc.phase = from /\ proc' = [proc EXCEPT !.phase = to] /\ exit' = exit

ToolModes == {"doctor", "inspect", "tools", "validate"}

(* load_sorla_pack; --schema prints the schema of the pack and stops.       *)
Start(l) ==
    /\ proc = Down /\ starts < MaxStarts
    /\ starts' = starts + 1
    /\ IF l.mode \in ToolModes THEN proc' = [phase |-> "tool", l |-> l] /\ exit' = "none"
       ELSE IF LoadError(l.pack) # "ok" THEN Exit("pack")
       ELSE IF l.mode = "schema" THEN Exit("printed")
       ELSE proc' = [phase |-> "answers", l |-> l, v |-> Gone] /\ exit' = "none"
    /\ UNCHANGED <<migrated, Running>>

(* effective_start_schema                                                   *)
SchemaOf(l) == IF l.pack.legacy THEN LegacySchema(l.pack.required) ELSE l.pack.schema

LegacyPaths(l) == IF l.pack.legacy THEN l.pack.required ELSE {}

(* normalize_or_prompt_start_answers.  run_mcp_start neither materializes   *)
(* the answers nor asks for the ones that are missing.                      *)
Accepted(sch, raw) ==
    LET n == NormalizeAnswers(sch, raw) IN IF n.issues = {} THEN {n.v} ELSE {}

Answered(l) ==
    LET sch   == SchemaOf(l)
        first == Materialize(sch, l.raw)
    IN  IF l.mode = "mcp" THEN Accepted(l.pack.schema, l.raw)
        ELSE IF "missing" \in NormalizeAnswers(sch, first).issues /\ l.interactive
        THEN UNION {Accepted(sch, w) : w \in Prompted(sch, LegacyPaths(l), first)}
        ELSE Accepted(sch, first)

(* The file is read and parsed, normalised and, if need be, asked for: a    *)
(* wizard may also end early.                                               *)
Answers ==
    /\ proc.phase = "answers"
    /\ \/ /\ proc.l.answersRead
          /\ \E v \in Answered(proc.l) :
                proc' = [proc EXCEPT !.phase = IF proc.l.mode = "serve" THEN "config" ELSE "plan",
                                     !.v = v]
          /\ exit' = exit
       \/ /\ ~proc.l.answersRead \/ proc.l.interactive \/ Answered(proc.l) = {}
          /\ Exit("answers")
    /\ UNCHANGED <<migrated, starts, Running>>

(* --dry-run and --emit-answers, and mcp start: nothing is opened, and a    *)
(* plan is printed that also says whether the providers are compatible.     *)
Plan ==
    /\ proc.phase = "plan"
    /\ IF proc.l.mode # "emit" /\ ~ConfigFound(proc.v) THEN Exit("answers")
       ELSE IF proc.l.mode = "mcp" /\ ~(proc.l.pack.routable /\ ToolsServed(proc.l.pack)) THEN Exit("pack")
       ELSE IF proc.l.mode = "plan" /\ ~(proc.l.pack.graphSupported /\ Compatible(proc.v, Needs(proc.l.pack))) THEN Exit("printed incompatible")
       ELSE Exit("printed")
    /\ UNCHANGED <<migrated, starts, Running>>

(* artifact validate: the bytes are those of the digest, the doctor finds   *)
(* no error, and the answers that are given fit the pack.                   *)
ValidateExit(l) ==
    LET p == [l.pack EXCEPT !.path = "gtpack"]
        n == NormalizeAnswers(p.schema, l.raw)
    IN  IF ~l.digestMatches THEN "pack"
        ELSE IF LoadError(p) = "ok" /\ (~l.answersRead \/ n.issues # {} \/ ~ConfigFound(n.v))
        THEN "answers"
        ELSE IF DoctorOk(p) /\ Compatible(n.v, Needs(p)) THEN "valid" ELSE "pack"

(* run_doctor, run_inspect (with the state of the suite) and run_mcp_tools  *)
ToolExit(l) ==
    CASE l.mode = "doctor"   -> IF DoctorOk(l.pack) THEN "valid" ELSE "pack"
      [] l.mode = "inspect"  -> IF LoadError(l.pack) = "ok" THEN SuiteStatus(l.pack) ELSE "pack"
      [] l.mode = "tools"    -> IF LoadError(l.pack) = "ok" /\ l.pack.routable /\ ToolsServed(l.pack)
                                THEN "printed" ELSE "pack"
      [] l.mode = "validate" -> ValidateExit(l)

Tool ==
    /\ proc.phase = "tool"
    /\ Exit(ToolExit(proc.l))
    /\ UNCHANGED <<migrated, starts, Running>>

(* runtime_config_from_answers and load_initial_runtime_config: a runtime   *)
(* configuration that is there must be readable.                            *)
ReadConfig ==
    /\ proc.phase = "config"
    /\ IF ~ConfigFound(proc.v) THEN Exit("answers")
       ELSE IF proc.l.file = "unreadable" THEN Exit("runtime")
       ELSE Phase("config", "stores")
    /\ UNCHANGED <<migrated, starts, Running>>

(* The router and provider_registry: a store may be out of reach.           *)
OpenStores ==
    /\ proc.phase = "stores"
    /\ \/ proc.l.pack.routable /\ Config(proc.v).kinds \subseteq KnownKinds /\ Phase("stores", "events")
       \/ proc.l.pack.routable /\ Config(proc.v).kinds # {"memory"} /\ Exit("provider")
       \/ ~proc.l.pack.routable /\ Exit("runtime")
    /\ UNCHANGED <<migrated, starts, Running>>

(* configure_runtime_events: a NATS sink needs a url and a connection.      *)
OpenEvents ==
    /\ proc.phase = "events"
    /\ LET c == Config(proc.v)
       IN  \/ (c.sink # "nats" \/ c.nats # "absent") /\ Phase("events", "migrations")
           \/ c.sink = "nats" /\ Exit("runtime")
    /\ UNCHANGED <<migrated, starts, Running>>

(* apply_pack_migrations_at_startup (Migration); it can refuse and fail.    *)
Migrate ==
    /\ proc.phase = "migrations"
    /\ \/ Phase("migrations", "build") /\ migrated' = (migrated \/ proc.l.pack.migrates)
       \/ proc.l.pack.migrates /\ ~migrated /\ Exit("runtime") /\ migrated' = migrated
    /\ UNCHANGED <<starts, Running>>

(* The rest of from_pack_with_runtime_config, in the order of the code.     *)
BuildError(l, v) == FirstFailure(<<
    <<"auth", AuthResolves(Config(v))>>,
    <<"tools", ToolsServed(l.pack)>>,
    <<"metrics", MetricsServed(l.pack)>>,
    <<"snapshot", FirstConfig(l.file = "present", l.content).ok>> >>)

Build ==
    /\ proc.phase = "build"
    /\ IF BuildError(proc.l, proc.v) # "ok" THEN Exit("runtime") /\ UNCHANGED adminVars
       ELSE Phase("build", "bind") /\ Load(proc.l.file = "present", proc.l.content)
    /\ UNCHANGED <<migrated, starts, presence>>

(* The listener is bound, the presence threads start, and serve runs.       *)
Bind ==
    /\ proc.phase = "bind"
    /\ \/ /\ proc' = [phase |-> "serving"] /\ exit' = exit
          /\ presence' = [boot |-> IF proc.l.presence THEN "connect" ELSE "off",
                          beat |-> IF proc.l.presence /\ proc.l.beat # 0 THEN "connect" ELSE "off"]
          /\ UNCHANGED adminVars
       \/ Exit("runtime") /\ Unload /\ presence' = presence
    /\ UNCHANGED <<migrated, starts>>

Crash ==
    /\ proc # Down
    /\ proc' = Down /\ exit' = "crash"
    /\ presence' = NoPresence /\ Unload
    /\ UNCHANGED <<migrated, starts>>

-----------------------------------------------------------------------------
(* Presence: both threads connect for themselves, and a failure ends only   *)
(* the thread.                                                              *)
Elsewhere == <<proc, exit, migrated, starts, adminVars>>

(* publish_presence_on_boot, whether it connects and publishes or not.      *)
BootPublish ==
    /\ presence.boot = "connect"
    /\ presence' = [presence EXCEPT !.boot = "off"]
    /\ UNCHANGED Elsewhere

(* spawn_presence_heartbeat: one connection, then a tick for ever.          *)
BeatConnect ==
    /\ presence.beat = "connect"
    /\ \E b \in {"sleep", "off"} : presence' = [presence EXCEPT !.beat = b]
    /\ UNCHANGED Elsewhere

-----------------------------------------------------------------------------
Startups == \/ \E l \in Launches : Start(l)
            \/ Answers \/ Plan \/ Tool \/ ReadConfig \/ OpenStores \/ OpenEvents \/ Migrate \/ Build \/ Bind
            \/ Crash

(* The listener takes admin requests.                                       *)
Serving(q) == proc.phase = "serving" /\ Admin(q) /\ UNCHANGED <<proc, exit, migrated, presence, starts>>

Next == Startups \/ BootPublish \/ BeatConnect \/ \E q \in Conns : Serving(q)

Spec == Init /\ [][Next]_vars

-----------------------------------------------------------------------------
(* No query of a metric ends on a name the catalogue does not have or on a  *)
(* cycle.  What is in the text of a formula is not asked: a start does not  *)
(* read it, and a query may end with its errors.                            *)
MetricsResolve(p) ==
    \A n \in DOMAIN p.deps : QueryMetric(p, n, {}) \cap {"metric_missing", "metric_dependency_cycle"} = {}

(* A process that binds its listener has answers that are complete and      *)
(* stable (normalising them again changes nothing and finds nothing), with  *)
(* no secret written out and a direct provider configuration only in local  *)
(* and test environments; its authentication is resolved, no query of its   *)
(* metrics is lost between their names, every tool leads to an endpoint,    *)
(* and the store has the pack's migrations, whatever happened to the        *)
(* processes before it (run_start, normalize_start_answers,                 *)
(* from_pack_with_runtime_config).  A pack the doctor calls valid has       *)
(* metrics whose names resolve and actions that lead somewhere              *)
(* (doctor_sorla_pack).                                                     *)
StartChecked ==
    [][/\ proc.phase = "tool" /\ exit' = "valid" =>
             /\ MetricsResolve(proc.l.pack)
             /\ \A a \in SeqSet(proc.l.pack.actions) :
                   {a.ep, a.op, a.tool} \cap (Endpoints(proc.l.pack) \cup Operations(proc.l.pack)
                                              \cup ToolNames(proc.l.pack)) # {}
       /\ proc.phase # "serving" /\ proc'.phase = "serving" =>
          LET l == proc.l
              v == proc.v
          IN  /\ NormalizeAnswers(SchemaOf(l), v) = [v |-> v, issues |-> {}]
              /\ ~InlineSecret(v)
              /\ DirectConfig(v) => Environment(v) \in {"local", "test"}
              /\ Config(v).auth = "shared_secret" => Config(v).secret = "env:SET"
              /\ MetricsResolve(l.pack)
              /\ \A t \in SeqSet(l.pack.tools) : t.ep \in Endpoints(l.pack)
              /\ l.pack.migrates => migrated]_vars

=============================================================================
