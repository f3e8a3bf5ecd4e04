------------------------------ MODULE Startup -------------------------------
(***************************************************************************)
(* Startup answers (core/startup.rs, and the wizard of cli/lib.rs): a JSON *)
(* tree is completed and checked against a JSON schema, and a runtime      *)
(* configuration is read out of it.                                        *)
(*                                                                         *)
(* A tree is Obj(f) with a function f on keys, Arr(s), or a scalar; Gone   *)
(* stands for a value that is not there (and for null).  An issue is the   *)
(* message of a SorxStartupIssue without its path.                         *)
(***************************************************************************)
EXTENDS Naturals, Sequences, FiniteSets, TLC

Obj(f)    == [t |-> "object", f |-> f]
Arr(s)    == [t |-> "array", s |-> s]
Str(v)    == [t |-> "string", v |-> v]
Bool(v)   == [t |-> "boolean", v |-> v]
Gone      == [t |-> "gone"]
IsObj(v)  == v.t = "object"
EmptyObj  == Obj([k \in {} |-> Gone])

(* A schema: the default (or Gone), the allowed strings ({} is any), the    *)
(* properties, the required keys and the schema of further keys.            *)
Leaf(type, def, enum) ==
    [type |-> type, def |-> def, enum |-> enum, props |-> [k \in {} |-> Gone], req |-> {},
     extra |-> [type |-> "forbidden"]]
Section(props, req, def, extra) ==
    [type |-> "object", def |-> def, enum |-> {}, props |-> props, req |-> req, extra |-> extra]
List(item, def) ==
    [type |-> "array", def |-> def, enum |-> {}, props |-> ("item" :> item), req |-> {},
     extra |-> [type |-> "forbidden"]]
AnyValue  == Leaf("any", Gone, {})
Forbidden == [type |-> "forbidden"]

At(v, key) == IF IsObj(v) /\ key \in DOMAIN v.f THEN v.f[key] ELSE Gone

With(v, key, w) == Obj([k \in DOMAIN v.f \cup {key} |-> IF k = key THEN w ELSE v.f[k]])

-----------------------------------------------------------------------------
(* normalize_value and validate_scalar                                      *)
ScalarIssues(sch, v) ==
    IF v.t # sch.type THEN {"type"}
    ELSE IF sch.enum # {} /\ v.v \notin sch.enum THEN {"enum"} ELSE {}

RECURSIVE Normalize(_, _)
Normalize(sch, v) ==
    IF v = Gone /\ sch.def # Gone THEN [v |-> sch.def, issues |-> {}]
    ELSE IF sch.type = "object" THEN
        IF v # Gone /\ ~IsObj(v) THEN [v |-> v, issues |-> {"type"}]
        ELSE LET in      == IF v = Gone THEN EmptyObj ELSE v
                 keys    == DOMAIN in.f
                 known   == DOMAIN sch.props
                 missing == {k \in known \ keys : k \in sch.req /\ sch.props[k].def = Gone}
                 more    == IF sch.extra = Forbidden THEN {} ELSE keys \ known
                 child   == [k \in (known \ missing) \cup more |->
                                Normalize(IF k \in known THEN sch.props[k] ELSE sch.extra, At(in, k))]
                 kept    == {k \in DOMAIN child : child[k].v # Gone}
             IN  [v      |-> Obj([k \in kept |-> child[k].v]),
                  issues |-> UNION {child[k].issues : k \in DOMAIN child}
                             \cup (IF missing # {} THEN {"missing"} ELSE {})
                             \cup (IF (keys \ known) \ more # {} THEN {"unknown"} ELSE {})]
    ELSE IF sch.type = "array" /\ v # Gone THEN
        IF v.t # "array" THEN [v |-> v, issues |-> {"type"}]
        ELSE LET each == [i \in DOMAIN v.s |-> Normalize(sch.props["item"], v.s[i])]
             IN  [v      |-> Arr([i \in DOMAIN v.s |-> each[i].v]),
                  issues |-> UNION {each[i].issues : i \in DOMAIN each}]
    ELSE [v |-> v, issues |-> IF v = Gone \/ sch.type = "any" THEN {} ELSE ScalarIssues(sch, v)]

(* qa_answer_payload: the answers inside the envelope greentic-qa writes.   *)
Payload(v) == IF At(v, "form_id") # Gone /\ At(v, "spec_version") # Gone /\ At(v, "answers") # Gone
              THEN At(v, "answers") ELSE v

(* apply_provider_defaults: a store, its kind, and a reference to its       *)
(* configuration when it has none.                                          *)
KnownKinds == {"memory", "foundationdb", "postgres"}

ProviderDefaults(v) ==
    LET ps    == IF At(v, "providers") = Gone THEN EmptyObj ELSE At(v, "providers")
        s     == IF IsObj(ps) /\ At(ps, "store") # Gone THEN At(ps, "store") ELSE EmptyObj
        kind  == IF At(s, "kind") = Gone THEN Str("foundationdb") ELSE At(s, "kind")
        named == With(s, "kind", kind)
        full  == IF At(s, "config_ref") = Gone /\ At(s, "config") = Gone /\ kind.v \in KnownKinds
                 THEN With(named, "config_ref", Str("local")) ELSE named
    IN  IF ~IsObj(v) \/ ~IsObj(ps) \/ ~IsObj(s) THEN v
        ELSE With(v, "providers", With(ps, "store", full))

(* secret_issues: is_secret_key and looks_like_secret_ref.                  *)
SecretKeys == {"shared_secret_ref", "signature_secret_ref", "password"}
SecretRefs == {"env:SET", "env:UNSET", "vault:path"}

RECURSIVE InlineSecret(_)
InlineSecret(v) ==
    \/ /\ IsObj(v)
       /\ \E k \in DOMAIN v.f :
             \/ k \in SecretKeys /\ v.f[k].t = "string" /\ v.f[k].v \notin SecretRefs
             \/ InlineSecret(v.f[k])
    \/ v.t = "array" /\ \E i \in DOMAIN v.s : InlineSecret(v.s[i])

(* provider_config_mode_issues                                              *)
Environment(v) ==
    LET e == At(At(v, "tenant"), "environment") IN IF e.t = "string" THEN e.v ELSE "local"

DirectConfig(v) ==
    IsObj(At(v, "providers"))
    /\ \E id \in DOMAIN At(v, "providers").f : At(At(v, "providers").f[id], "config") # Gone

SecretIssues(v) == IF InlineSecret(v) THEN {"secret"} ELSE {}
ModeIssues(v) == IF Environment(v) \notin {"local", "test"} /\ DirectConfig(v) THEN {"mode"} ELSE {}

(* Slip: the answers are not checked for inline secrets and modes.          *)
NormalizeAnswersUnchecked(sch, raw) ==
    LET n == Normalize(sch, Payload(raw))
    IN  [v |-> ProviderDefaults(n.v), issues |-> n.issues]

(* normalize_start_answers                                                  *)
NormalizeAnswers(sch, raw) ==
    LET n == Normalize(sch, Payload(raw))
        v == ProviderDefaults(n.v)
    IN  [v |-> v, issues |-> n.issues \cup SecretIssues(v) \cup ModeIssues(v)]

-----------------------------------------------------------------------------
(* default_start_schema                                                     *)
Word     == Leaf("string", Gone, {})
Enum(vs) == Leaf("string", Gone, vs)
Or(d)    == Leaf("string", Str(d), {})
Flag(d)  == Leaf("boolean", Bool(d), {})
EnumOr(vs, d) == Leaf("string", Str(d), vs)
NoExtra(props, req) == Section(props, req, Gone, Forbidden)

Environments == {"local", "test", "dev", "staging", "production"}
DefaultStore == Obj("kind" :> Str("foundationdb") @@ "config_ref" :> Str("local"))

ProviderSchema(kind, def) ==
    Section("kind" :> kind @@ "config_ref" :> Word @@ "capabilities" :> List(Word, Arr(<< >>))
            @@ "contract_version" :> Word @@ "config" :> AnyValue, {"kind"}, def, Forbidden)

ServingSchema ==
    "tenant" :> NoExtra("tenant_id" :> Word @@ "environment" :> EnumOr(Environments, "local"),
                        {"tenant_id", "environment"})
    @@ "server" :> NoExtra("bind" :> Or("bind") @@ "public_base_url" :> Word
                           @@ "auth" :> NoExtra("mode" :> EnumOr({"none", "shared_secret"}, "none")
                                                @@ "shared_secret_ref" :> Word, {}),
                           {"bind", "public_base_url"})
    @@ "mcp" :> NoExtra("enabled" :> Flag("false") @@ "bind" :> Or("mcp"), {})
    @@ "providers" :> Section("store" :> ProviderSchema(EnumOr(KnownKinds, "foundationdb"), DefaultStore),
                              {"store"}, Obj("store" :> DefaultStore),
                              ProviderSchema(Enum(KnownKinds), Gone))
    @@ "bindings" :> NoExtra("entities" :> Section([k \in {} |-> Gone], {}, Gone,
                                NoExtra("provider" :> Word @@ "collection" :> Word,
                                        {"provider", "collection"})), {})
    @@ "policy" :> NoExtra("approvals" :> NoExtra(
                       [k \in {"low", "medium", "high", "critical"} |->
                           EnumOr({"auto", "require_approval", "deny"},
                                  CASE k = "high" -> "require_approval" [] k = "critical" -> "deny"
                                    [] OTHER -> "auto")], {}), {"approvals"})
    @@ "audit" :> NoExtra("sink" :> EnumOr({"stdout", "file", "disabled"}, "stdout"), {})
    @@ "events" :> NoExtra("sink" :> EnumOr({"disabled", "stdout", "nats"}, "disabled")
                           @@ "nats_url" :> Word @@ "subject_prefix" :> Or("prefix"), {})

ReleaseSchema ==
    "deployment" :> NoExtra("tenant_id" :> Word @@ "sor_name" :> Word
                            @@ "environment" :> EnumOr(Environments, "local")
                            @@ "deployment_mode" :> EnumOr({"local_single", "versioned_registry"}, "local_single")
                            @@ "api_version_label" :> Or("local") @@ "base_path" :> Or("/") @@ "alias" :> Word,
                            {"tenant_id", "sor_name", "environment", "deployment_mode",
                             "api_version_label", "base_path"})
    @@ "exposure" :> NoExtra("default_visibility" :> EnumOr({"private", "internal", "public"}, "private")
                             @@ "require_validation_suite" :> Flag("false")
                             @@ "auto_promote_on_validation_pass" :> Flag("false")
                             @@ "public_aliases_allowed" :> List(Enum({"stable", "latest", "preview"}),
                                    Arr(<<Str("stable"), Str("latest"), Str("preview")>>)),
                             {"default_visibility", "require_validation_suite",
                              "auto_promote_on_validation_pass", "public_aliases_allowed"})
    @@ "ghcr" :> NoExtra("enable_publish_webhook" :> Flag("false") @@ "require_exact_digest" :> Flag("true")
                         @@ "allowed_repositories" :> List(Word, Arr(<<Str("packages")>>)),
                         {"enable_publish_webhook", "allowed_repositories", "require_exact_digest"})
    @@ "ghcr_webhook" :> NoExtra("enabled" :> Flag("false") @@ "bind" :> Or("webhook")
                                 @@ "public_path" :> Or("path") @@ "signature_secret_ref" :> Word
                                 @@ [k \in {"allowed_repositories", "allowed_oci_prefixes", "allowed_workflows"}
                                       |-> List(Word, Arr(<<Str("allowed")>>))]
                                 @@ "default_promotion_policy" :>
                                       EnumOr({"pending_only", "validate_then_private"}, "validate_then_private"), {})

DefaultSchema ==
    NoExtra(ServingSchema @@ ReleaseSchema,
            {"tenant", "server", "providers", "policy", "audit", "deployment", "exposure", "ghcr"})

(* legacy_start_schema_to_json_schema: nothing is required but the paths    *)
(* the pack lists.                                                          *)
RECURSIVE ClearRequired(_)
ClearRequired(sch) ==
    IF sch = Forbidden THEN sch
    ELSE [sch EXCEPT !.req = {}, !.props = [k \in DOMAIN @ |-> ClearRequired(@[k])],
                     !.extra = ClearRequired(@)]

RECURSIVE RequirePath(_, _)
RequirePath(sch, path) ==
    LET with == [sch EXCEPT !.req = @ \cup {path[1]}]
    IN  IF Len(path) = 1 \/ path[1] \notin DOMAIN sch.props THEN with
        ELSE [with EXCEPT !.props[path[1]] = RequirePath(@, Tail(path))]

RECURSIVE SetDefault(_, _, _)
SetDefault(sch, path, def) ==
    IF path = << >> THEN [sch EXCEPT !.def = def]
    ELSE [sch EXCEPT !.props[path[1]] = SetDefault(@, Tail(path), def)]

RECURSIVE RequireAll(_, _)
RequireAll(sch, paths) ==
    IF paths = {} THEN sch
    ELSE LET p == CHOOSE p \in paths : TRUE IN RequireAll(RequirePath(sch, p), paths \ {p})

LegacySchema(paths) ==
    RequireAll(SetDefault(SetDefault(ClearRequired(DefaultSchema), <<"tenant", "tenant_id">>, Str("local")),
                          <<"server", "public_base_url">>, Str("local")),
               paths \ {<<"providers", "store", "config_ref">>})

-----------------------------------------------------------------------------
(* materialize_required_object_answers: a required object is put in place,  *)
(* and what stands where an object belongs gives way to one.                *)
RECURSIVE Materialize(_, _)
Materialize(sch, v) ==
    IF sch.type # "object" THEN v
    ELSE LET in   == IF IsObj(v) THEN v ELSE EmptyObj
             objs == {k \in sch.req \cap DOMAIN sch.props : sch.props[k].type = "object"}
             keys == DOMAIN in.f \cup objs
         IN  Obj([k \in keys |->
                    LET w == IF k \in DOMAIN in.f THEN in.f[k] ELSE EmptyObj
                    IN  IF k \in DOMAIN sch.props THEN Materialize(sch.props[k], w) ELSE w])

(* collect_qa_questions: the paths of the required leaves without default.  *)
RECURSIVE Questions(_, _)
Questions(sch, path) ==
    IF sch.def # Gone /\ path # << >> THEN {}
    ELSE IF sch.type = "object"
    THEN UNION {Questions(sch.props[k], Append(path, k)) : k \in sch.req \cap DOMAIN sch.props}
    ELSE {path}

RECURSIVE SchemaAt(_, _)
SchemaAt(sch, path) ==
    IF path = << >> THEN sch
    ELSE IF path[1] \notin DOMAIN sch.props THEN Forbidden
    ELSE SchemaAt(sch.props[path[1]], Tail(path))

(* collect_legacy_qa_questions: the paths the pack lists.                   *)
LegacyQuestions(sch, paths) ==
    {p \in paths \ {<<"providers", "store", "config_ref">>} :
        SchemaAt(sch, p) # Forbidden /\ SchemaAt(sch, p).def = Gone}

(* startup_schema_to_qa_form                                                *)
Form(sch, paths) == IF paths = {} THEN Questions(sch, << >>) ELSE LegacyQuestions(sch, paths)

(* build_qa_question and parse_qa_answer: an answer of the question's kind; *)
(* others are asked for again.                                              *)
Typed(sch) ==
    IF sch.enum # {} THEN Str(CHOOSE e \in sch.enum : TRUE)
    ELSE CASE sch.type = "boolean" -> Bool("true")
           [] sch.type = "array"   -> Arr(<<Str("typed")>>)
           [] OTHER                -> Str("typed")

(* set_nested_answer                                                        *)
RECURSIVE Put(_, _, _)
Put(v, path, w) ==
    LET in == IF IsObj(v) THEN v ELSE EmptyObj
    IN  IF Len(path) = 1 THEN With(in, path[1], w)
        ELSE With(in, path[1], Put(At(in, path[1]), Tail(path), w))

RECURSIVE Lookup(_, _)
Lookup(v, path) == IF path = << >> THEN v ELSE Lookup(At(v, path[1]), Tail(path))

RECURSIVE TypeIn(_, _, _)
TypeIn(sch, v, paths) ==
    IF paths = {} THEN v
    ELSE LET p == CHOOSE p \in paths : TRUE
         IN  TypeIn(sch, Put(v, p, Typed(SchemaAt(sch, p))), paths \ {p})

(* The wizard asks what is not answered, and how to protect the server; a   *)
(* secret that is typed in becomes a variable of the process.               *)
AuthMode == <<"server", "auth", "mode">>
AuthRef  == <<"server", "auth", "shared_secret_ref">>

TypedSecret == Str("env:SET")

Prompted(sch, paths, raw) ==
    LET base  == Payload(raw)
        told  == TypeIn(sch, base, {p \in Form(sch, paths) : Lookup(base, p) = Gone})
        modes == IF Lookup(told, AuthMode) = Gone THEN {Str("none"), Str("shared_secret")}
                                                  ELSE {Lookup(told, AuthMode)}
    IN  {Materialize(sch,
            IF m = Str("shared_secret") /\ Lookup(told, AuthRef) = Gone
            THEN Put(Put(told, AuthMode, m), AuthRef, TypedSecret) ELSE Put(told, AuthMode, m)) :
            m \in modes}

-----------------------------------------------------------------------------
(* runtime_config_from_answers                                              *)
StringOr(v, def) == IF v.t = "string" THEN v.v ELSE def

ConfigFound(v) == \A k \in {"tenant", "server", "providers", "policy"} : IsObj(At(v, k))

Config(v) ==
    LET auth   == At(At(v, "server"), "auth")
        events == At(v, "events")
    IN  [env    |-> StringOr(At(At(v, "tenant"), "environment"), "local"),
         kinds  |-> {StringOr(At(At(v, "providers").f[id], "kind"), "") :
                        id \in {i \in DOMAIN At(v, "providers").f : IsObj(At(v, "providers").f[i])}},
         auth   |-> StringOr(At(auth, "mode"), "none"),
         secret |-> StringOr(At(auth, "shared_secret_ref"), "absent"),
         sink   |-> StringOr(At(events, "sink"), "disabled"),
         nats   |-> StringOr(At(events, "nats_url"), "absent")]

(* http_auth_from_config and resolve_shared_secret                          *)
AuthResolves(c) == c.auth = "none" \/ (c.auth = "shared_secret" /\ c.secret = "env:SET")

(* provider_configs and provider_binding                                    *)
Exposes(p, c) ==
    /\ At(p, "capabilities").t = "array"
    /\ \E i \in DOMAIN At(p, "capabilities").s : At(p, "capabilities").s[i] = Str(c)

ContractFits(p) == At(p, "contract_version") \in {Gone, Str("1")}

(* resolve_provider_compatibility, for the plan of a dry run: exactly one   *)
(* provider exposes each capability the pack needs, under contract v1.      *)
Compatible(v, capabilities) ==
    LET ps    == At(v, "providers").f
        By(c) == {id \in DOMAIN ps : Exposes(ps[id], c)}
    IN  \A c \in capabilities :
           Cardinality(By(c)) = 1 /\ \A id \in By(c) : ContractFits(ps[id])

=============================================================================
