------------------------------- MODULE MCNode -------------------------------
(* Launches that differ from a good one in one thing, and admin requests to *)
(* one deployment with two revisions, two surfaces and one path.            *)
EXTENDS Node

GoodPack ==
    [path |-> "gtpack", opens |-> TRUE,
     entries |-> Required \cup {"validation-suite.json", "metrics.json", "mcp-tools.json"},
     malformed |-> {}, extension |-> "greentic.sorx.runtime.v1", assets |-> {"safe"},
     lock |-> "exact", references |-> {"safe"},
     indexes |-> <<[id |-> 1, kind |-> "exact", fields |-> 1, unique |-> TRUE]>>,
     endpoints |-> <<[id |-> "e1", op |-> "o1"], [id |-> "e2", op |-> "o2"]>>,
     tools |-> <<[name |-> "t1", ep |-> "e1", op |-> "o1"], [name |-> "t2", ep |-> "e2", op |-> NoRef]>>,
     actions |-> <<[key |-> "a1", ep |-> "e1", op |-> NoRef, tool |-> NoRef, hash |-> "h1"]>>,
     locked |-> TRUE, actionLock |-> <<[key |-> "a1", hash |-> "h1"]>>,
     irMatches |-> TRUE, concepts |-> <<"c1">>, relationships |-> << >>, retrieval |-> {"c1"},
     graphSupported |-> TRUE, links |-> FALSE, unsafe |-> {},
     metricNames |-> "distinct", metricShape |-> "one", deps |-> ("m1" :> {"m2", "m3"} @@ "m2" :> {"m3"} @@ "m3" :> {}),
     formulas |-> [m \in {"m1", "m2", "m3"} |-> "sound"],
     suite |-> "valid",
     routable |-> TRUE, legacy |-> FALSE, required |-> {}, schema |-> DefaultSchema,
     migrates |-> TRUE, needs |-> {"store"}]

Packs == {GoodPack,
    [GoodPack EXCEPT !.path = "zip"], [GoodPack EXCEPT !.opens = FALSE],
    [GoodPack EXCEPT !.entries = @ \ {"model.cbor"}], [GoodPack EXCEPT !.malformed = {"metrics.json"}],
    [GoodPack EXCEPT !.lock = "stale"], [GoodPack EXCEPT !.references = {"missing"}],
    [GoodPack EXCEPT !.assets = {"unsafe"}], [GoodPack EXCEPT !.extension = "other"],
    [GoodPack EXCEPT !.malformed = {"validation-suite.json"}, !.migrates = FALSE],
    [GoodPack EXCEPT !.indexes = << [id |-> 1, kind |-> "text", fields |-> 1, unique |-> TRUE] >>],
    [GoodPack EXCEPT !.tools[2] = [name |-> "t2", ep |-> NoRef, op |-> "o2"]],
    [GoodPack EXCEPT !.tools[2].op = "o1"], [GoodPack EXCEPT !.tools[2].name = "t1"],
    [GoodPack EXCEPT !.deps["m3"] = {"m1"}], [GoodPack EXCEPT !.deps["m3"] = {"m3"}],
    [GoodPack EXCEPT !.formulas["m1"] = "unsupported"], [GoodPack EXCEPT !.formulas["m2"] = "undeclared"],
    [GoodPack EXCEPT !.formulas["m1"] = "divides"], [GoodPack EXCEPT !.deps["m2"] = {"m9"}], [GoodPack EXCEPT !.metricNames = "repeated"],
    [GoodPack EXCEPT !.routable = FALSE], [GoodPack EXCEPT !.actions[1].ep = "e9"],
    [GoodPack EXCEPT !.actionLock[1].hash = "h2"], [GoodPack EXCEPT !.locked = FALSE],
    [GoodPack EXCEPT !.unsafe = {"actions"}], [GoodPack EXCEPT !.unsafe = {"ontology"}],
    [GoodPack EXCEPT !.metricShape = "neither"], [GoodPack EXCEPT !.metricShape = "grain"],
    [GoodPack EXCEPT !.graphSupported = FALSE], [GoodPack EXCEPT !.links = TRUE],
    [GoodPack EXCEPT !.retrieval = {"c9"}], [GoodPack EXCEPT !.irMatches = FALSE],
    [GoodPack EXCEPT !.entries = @ \ {"validation-suite.json"}],
    [GoodPack EXCEPT !.legacy = TRUE, !.required = {<<"providers", "store", "config_ref">>,
                                                    <<"tenant", "tenant_id">>}],
    [GoodPack EXCEPT !.schema.props["providers"].props["store"].props["kind"] = Word]}

F(k, v) == k :> v

Full0 == Obj(F("tenant", Obj(F("tenant_id", Str("t")) @@ F("environment", Str("production"))))
             @@ F("server", Obj(F("public_base_url", Str("u"))))
             @@ F("providers", Obj(F("store", Obj(F("kind", Str("memory"))))))
             @@ F("deployment", Obj(F("tenant_id", Str("t")) @@ F("sor_name", Str("s")))))

Secured(ref) == Put(Put(Full0, AuthMode, Str("shared_secret")), AuthRef, Str(ref))
InTest(v)    == Put(v, <<"tenant", "environment">>, Str("test"))
Direct       == Put(Full0, <<"providers", "store", "config">>, Obj(F("password", Str("env:SET"))))

Capable == Put(Put(Full0, <<"providers", "store", "capabilities">>, Arr(<<Str("store"), Str("evidence")>>)),
               <<"providers", "store", "contract_version">>, Str("1"))

AnswerFiles == {Full0, EmptyObj, Secured("env:SET"), Secured("env:UNSET"), Secured("inline"),
    Put(Full0, AuthMode, Str("shared_secret")), Direct, InTest(Direct),
    InTest(Put(Full0, <<"providers", "store", "config">>, Obj(F("password", Str("inline"))))),
    Obj(F("form_id", Str("f")) @@ F("spec_version", Str("1")) @@ F("answers", Full0)),
    Put(Full0, <<"extra">>, Str("x")), Put(Full0, <<"tenant", "environment">>, Str("moon")),
    Put(Full0, <<"providers", "second">>, Obj(F("kind", Str("postgres")))),
    Put(Full0, <<"providers", "second">>, EmptyObj), Put(Full0, <<"providers", "store", "kind">>, Str("other")),
    Put(Full0, <<"mcp">>, Obj(F("enabled", Bool("true")))), Put(Full0, <<"tenant">>, Str("flat")),
    Put(Put(Full0, <<"events", "sink">>, Str("nats")), <<"events", "nats_url">>, Str("url")),
    Put(Full0, <<"events", "sink">>, Str("nats")),
    Put(Full0, <<"exposure", "public_aliases_allowed">>, Arr(<<Str("stable"), Str("other")>>)),
    Capable}

Hook(closed, loaded) == [closed |-> closed, loaded |-> loaded]
Doc(blocks, surfaces, h) == [supported |-> TRUE, blocks |-> blocks, surfaces |-> surfaces, hooks |-> h]
Block(id, w) == [dep |-> "d", bundle |-> "b", id |-> id, w |-> w]
Guarded == [pre |-> <<Hook(FALSE, TRUE), Hook(TRUE, TRUE)>>, post |-> <<Hook(TRUE, TRUE)>>,
            obs |-> <<Hook(TRUE, TRUE)>>]
Docs == {Doc(<<Block(1, 1), Block(2, 2)>>, <<[id |-> "s1", path |-> "p"]>>, NoHooks),
         Doc(<<Block(1, 3)>>, << >>, Guarded),
         Doc(<<Block(1, 3)>>, << >>, [NoHooks EXCEPT !.pre = <<Hook(TRUE, FALSE)>>]),
         Doc(<<Block(1, 1), Block(2, 1)>>, << >>, NoHooks),
         Doc(<<Block(1, 3), [Block(2, 3) EXCEPT !.bundle = "b2"]>>, << >>, NoHooks),
         Doc(<<Block(2, 3)>>, <<[id |-> "s1", path |-> "p"], [id |-> "s2", path |-> "p"]>>, NoHooks)}

NoDoc == Doc(<< >>, << >>, NoHooks)
MCConfigs == Docs \cup {NoDoc}

Good == [mode |-> "serve", pack |-> GoodPack, raw |-> Full0, answersRead |-> TRUE, digestMatches |-> TRUE,
         interactive |-> FALSE,
         file |-> "absent", content |-> NoDoc, presence |-> FALSE, beat |-> 30]

MCLaunches ==
    {[Good EXCEPT !.pack = p] : p \in Packs}
    \cup {[Good EXCEPT !.raw = r, !.interactive = i] : r \in AnswerFiles, i \in BOOLEAN}
    \cup {[Good EXCEPT !.mode = m, !.raw = r] : m \in {"plan", "emit", "mcp", "schema"}, r \in AnswerFiles}
    \cup {[Good EXCEPT !.mode = m, !.pack = p, !.raw = Capable] :
             m \in {"mcp"} \cup ToolModes, p \in Packs}
    \cup {[Good EXCEPT !.mode = "validate", !.raw = r, !.digestMatches = ok] : r \in AnswerFiles, ok \in BOOLEAN}
    \cup {[Good EXCEPT !.file = "present", !.content = c] : c \in Docs}
    \cup {[Good EXCEPT !.file = "unreadable"], [Good EXCEPT !.answersRead = FALSE],
          [Good EXCEPT !.presence = TRUE], [Good EXCEPT !.presence = TRUE, !.beat = 0]}

Op(k) == [k |-> k, d |-> "d"]
Split(ws) == [k |-> "traffic", d |-> "d", entries |-> [i \in DOMAIN ws |-> [id |-> i, w |-> ws[i]]]]
MCAdminOps ==
    {[k |-> "stage", d |-> "d", bundle |-> b, r |-> r] : b \in {"b", "b2"}, r \in 1..2}
    \cup {[k |-> "config", d |-> "d", config |-> c] : c \in {x \in Docs : x.hooks = NoHooks}}
    \cup {[k |-> "surface", d |-> "d", s |-> s, path |-> "p"] : s \in {"s1", "s2"}}
    \cup {Split(<<3>>), Split(<<1, 2>>), Split(<<2, 2>>)}
    \cup {[k |-> "drain", d |-> "d", r |-> r] : r \in 1..2}
    \cup {[k |-> "mount", d |-> "d", path |-> "p"]}
    \cup {Op(k) : k \in {"warm", "deactivate", "malformed", "read"}}

Symm == Permutations(Conns)
=============================================================================
