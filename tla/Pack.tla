------------------------------- MODULE Pack --------------------------------
(***************************************************************************)
(* The pack loader and doctor (greentic-sorx-pack) and the checks a        *)
(* starting runtime makes again on what they read (core/mcp.rs,            *)
(* core/metrics_runtime.rs).  Errors of the loader end it; errors of the   *)
(* doctor are kept beside the loaded pack and stop nothing.                *)
(*                                                                         *)
(* A pack is a record of what the checks tell apart: the entries of the    *)
(* archive, those that do not parse, the state of the lock, and the        *)
(* metadata that refers to other metadata.                                 *)
(***************************************************************************)
EXTENDS Naturals, Sequences, FiniteSets

NoRef == "none"

Required == {"pack.cbor", "model.cbor", "agent-gateway.json", "start.schema.json"}

(* Entries whose text the loader parses, so that a malformed one ends it.   *)
Parsed == {"pack.cbor", "agent-gateway.json", "openapi.yaml", "arazzo.yaml", "mcp-tools.json",
           "ontology.graph.json", "retrieval-bindings.json", "business-actions.json",
           "business-actions.lock.json", "metrics.json", "operational-indexes.json",
           "executable-contract.json", "start.schema.json", "runtime.template.yaml",
           "provider-bindings.template.yaml"}

(* The suite, its legacy form and its fixtures: a malformed one is only an  *)
(* error of the doctor.                                                     *)
SuiteParsed == {"validation-suite.json", "test-manifest.json", "fixture.json", "openapi.expected.json"}

Repeats(s) == \E i, j \in DOMAIN s : i # j /\ s[i] = s[j]

SeqSet(s) == {s[i] : i \in DOMAIN s}

(* The code of the first check that fails, "ok" if none does.               *)
FirstFailure(checks) ==
    LET bad == {i \in DOMAIN checks : ~checks[i][2]}
    IN  IF bad = {} THEN "ok" ELSE checks[CHOOSE i \in bad : \A j \in bad : i <= j][1]

(* validate_allowed_asset_path                                              *)
AllowedPath(path) == path \in {"safe", "missing"}

(* validate_operational_indexes                                             *)
IndexesValid(idx) ==
    /\ ~Repeats([i \in DOMAIN idx |-> idx[i].id])
    /\ \A i \in DOMAIN idx :
          /\ idx[i].kind \in {"exact", "composite", "text"}
          /\ idx[i].fields > 0
          /\ ~(idx[i].unique /\ idx[i].kind = "text")

(* open_gtpack and zip_bytes: every path is relative, every entry readable. *)
ArchiveReads(p) == p.opens /\ Required \subseteq p.entries

(* read_manifest and validate_sorx_extension                                *)
ManifestValid(p) ==
    "pack.cbor" \notin p.malformed /\ p.extension = "greentic.sorx.runtime.v1"

(* validate_extension_references: what an extension names is in the pack.   *)
ReferencesResolve(p) == \A a \in p.references : AllowedPath(a) /\ a # "missing"

(* validate_lock: without a lock nothing is compared; with one, every asset *)
(* has its digest.                                                          *)
LockMatches(p) == p.lock \in {"absent", "exact"}

(* Metrics, ontology, business actions and the other texts parse.           *)
AssetsParse(p) == p.malformed \cap p.entries \cap Parsed = {}

(* load_sorla_pack up to the doctor's checks.                               *)
LoadError(p) == FirstFailure(<<
    <<"path", p.path = "gtpack">>,
    <<"archive", ArchiveReads(p)>>,
    <<"manifest", ManifestValid(p)>>,
    <<"asset_path", \A a \in p.assets : AllowedPath(a)>>,
    <<"lock", LockMatches(p)>>,
    <<"extension_asset", ReferencesResolve(p)>>,
    <<"invalid_asset", AssetsParse(p)>>,
    <<"invalid_operational_indexes", IndexesValid(p.indexes)>> >>)

-----------------------------------------------------------------------------
(* The doctor                                                               *)
Endpoints(p)  == {p.endpoints[i].id : i \in DOMAIN p.endpoints}
Operations(p) == {p.endpoints[i].op : i \in DOMAIN p.endpoints}
ToolNames(p)  == {p.tools[i].name : i \in DOMAIN p.tools}

(* validate_mcp_tools                                                       *)
ToolErrors(p) ==
    \/ Repeats([i \in DOMAIN p.tools |-> p.tools[i].name])
    \/ \E t \in SeqSet(p.tools) :
          \/ t.ep = NoRef /\ t.op = NoRef
          \/ t.ep \notin Endpoints(p) \cup {NoRef}
          \/ t.op \notin Operations(p) \cup {NoRef}

(* valid_execution_target: one of the three references is known.            *)
TargetValid(p, a) ==
    \/ a.ep # NoRef /\ a.ep \in Endpoints(p)
    \/ a.op # NoRef /\ a.op \in Operations(p)
    \/ a.tool # NoRef /\ a.tool \in ToolNames(p)

(* Texts with a marker of a secret, or a path of the local machine: where   *)
(* they are found they are errors of the doctor.                            *)
UnsafeIn(p, assets) == p.unsafe \cap assets # {}

(* validate_business_actions: every action has a target and a lock entry    *)
(* with the hash of its contract, and every lock entry has an action.       *)
ActionErrors(p) ==
    p.actions # << >> /\
    (\/ UnsafeIn(p, {"actions"})
     \/ Repeats([i \in DOMAIN p.actions |-> p.actions[i].key])
     \/ \E a \in SeqSet(p.actions) : ~TargetValid(p, a)
     \/ ~p.locked
     \/ Repeats([i \in DOMAIN p.actionLock |-> p.actionLock[i].key])
     \/ {e.key : e \in SeqSet(p.actionLock)} # {a.key : a \in SeqSet(p.actions)}
     \/ \E e \in SeqSet(p.actionLock), a \in SeqSet(p.actions) : e.key = a.key /\ e.hash # a.hash)

(* validate_graph                                                           *)
GraphErrors(p) ==
    \/ ~p.graphSupported
    \/ Repeats(p.concepts)
    \/ \E r \in SeqSet(p.relationships) : ~({r.from, r.to} \subseteq SeqSet(p.concepts))

(* validate_retrieval_bindings: concepts a binding or its scope names.      *)
RetrievalErrors(p) == ~(p.retrieval \subseteq SeqSet(p.concepts))

(* validate_ontology_assets                                                 *)
OntologyErrors(p) ==
    ~p.irMatches \/ GraphErrors(p) \/ RetrievalErrors(p) \/ UnsafeIn(p, {"ontology"})

(* has_cycle: depth first from a metric, with the names on the path and the *)
(* names that are finished.  Yields <<cycle found, finished>>.              *)
RECURSIVE Visit(_, _, _, _), VisitAll(_, _, _, _)
Visit(deps, n, path, finished) ==
    IF n \in finished THEN <<FALSE, finished>>
    ELSE IF n \in path THEN <<TRUE, finished>>
    ELSE LET r == VisitAll(deps, IF n \in DOMAIN deps THEN deps[n] ELSE {}, path \cup {n}, finished)
         IN  IF r[1] THEN r ELSE <<FALSE, r[2] \cup {n}>>
VisitAll(deps, ns, path, finished) ==
    IF ns = {} THEN <<FALSE, finished>>
    ELSE LET n == CHOOSE n \in ns : TRUE
             r == Visit(deps, n, path, finished)
         IN  IF r[1] THEN r ELSE VisitAll(deps, ns \ {n}, path, r[2])

HasCycle(deps, n) == Visit(deps, n, {}, {})[1]

MissingDeps(deps) == \E n \in DOMAIN deps : ~(deps[n] \subseteq DOMAIN deps)

(* validate_metric: exactly one of measure and formula, a known aggregate,  *)
(* known grains.  The text of a formula is not parsed.                      *)
MetricShapeErrors(p) == p.metricShape # "one"

(* validate_metrics                                                         *)
MetricErrors(p) ==
    \/ p.metricNames = "repeated"
    \/ MetricShapeErrors(p)
    \/ MissingDeps(p.deps)
    \/ \E n \in DOMAIN p.deps : HasCycle(p.deps, n)

(* validate_validation_suite_json, normalize_legacy_validation_manifest     *)
SuiteValid(p) == p.suite = "valid"

(* read_sorx_assets: the new form of the suite first, then the legacy one.  *)
SuiteErrors(p) ==
    \/ p.malformed \cap p.entries \cap SuiteParsed
          \cap (IF "validation-suite.json" \in p.entries
                THEN SuiteParsed \ {"test-manifest.json"} ELSE SuiteParsed) # {}
    \/ {"validation-suite.json", "test-manifest.json"} \cap p.entries # {} /\ ~SuiteValid(p)

SuiteStatus(p) ==
    IF SuiteErrors(p) THEN "invalid"
    ELSE IF {"validation-suite.json", "test-manifest.json", "validation-suite.cbor"} \cap p.entries # {}
    THEN "present" ELSE "missing"

DoctorOk(p) ==
    /\ LoadError(p) = "ok"
    /\ ~SuiteErrors(p) /\ ~ToolErrors(p) /\ ~ActionErrors(p) /\ ~OntologyErrors(p) /\ ~MetricErrors(p)

-----------------------------------------------------------------------------
(* What the runtime checks again when it starts                             *)

(* mcp_tools_from_metadata: a tool needs an endpoint, of its operation.     *)
ToolsServed(p) ==
    /\ ~Repeats([i \in DOMAIN p.tools |-> p.tools[i].name])
    /\ \A t \in SeqSet(p.tools) :
          \E e \in SeqSet(p.endpoints) : e.id = t.ep /\ t.op \in {NoRef, e.op}

(* runtime_metric_from_pack: a measure goes before a formula, the grains    *)
(* are not looked at.                                                       *)
MetricFromPack(p) == p.metricShape \in {"one", "both", "grain"}

(* RuntimeMetricCatalog::new                                                *)
MetricsServed(p) ==
    /\ MetricFromPack(p)
    /\ p.metricNames # "repeated"
    /\ ~MissingDeps(p.deps)
    /\ \A n \in DOMAIN p.deps : ~HasCycle(p.deps, n)

(* provider_compatibility_input: what routes, retrieval bindings and entity *)
(* links ask of the providers.                                              *)
Needs(p) == p.needs \cup (IF p.retrieval # {} THEN {"evidence"} ELSE {})
                    \cup (IF p.links THEN {"entity-link"} ELSE {})

(* evaluate_formula: what the text of a formula may end with.  Nobody reads *)
(* it before the first group is computed, the doctor only asks that it is   *)
(* not empty.                                                               *)
FormulaEnds == [sound |-> {}, divides |-> {"metric_formula_divide_by_zero"},
                unsupported |-> {"metric_formula_unsupported"},
                undeclared  |-> {"metric_formula_dependency_missing"}]

(* MetricRuntime::query: what the query of a metric may end with.  The      *)
(* dependencies come in turn, with the names on the stack, and an error of  *)
(* one ends the query; without a group the formula is not evaluated.  The   *)
(* queries of aggregates succeed.                                           *)
RECURSIVE QueryMetric(_, _, _)
QueryMetric(p, n, stack) ==
    IF n \notin DOMAIN p.deps THEN {"metric_missing"}
    ELSE IF n \in stack THEN {"metric_dependency_cycle"}
    ELSE LET ends(d) == QueryMetric(p, d, stack \cup {n})
         IN  UNION {ends(d) \ {"ok"} : d \in p.deps[n]}
             \cup (IF \A d \in p.deps[n] : "ok" \in ends(d)
                   THEN {"ok"} \cup FormulaEnds[p.formulas[n]] ELSE {})

=============================================================================
