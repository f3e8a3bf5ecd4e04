------------------------------ MODULE MCFront ------------------------------
(***************************************************************************)
(* A small instance of Front: requests, packs, metrics and messages.       *)
(***************************************************************************)
EXTENDS Front

MCIssuers == {"A", "B"}
MCKeys == {[iss |-> i, kid |-> k] : i \in MCIssuers, k \in 1..2}

Request(door, flaws) ==
    [door |-> door, flaws |-> flaws, email |-> TRUE, header |-> {"r"}, body |-> {},
     token |-> [iss |-> "A", key |-> [iss |-> "A", kid |-> 1], roles |-> {"r"}]]
MCAsked ==
    {Request("endpoint", {}), Request("events", {}), Request("action", {"hash", "schema"}),
     [Request("endpoint", {"json"}) EXCEPT !.email = FALSE],
     [Request("action", {}) EXCEPT !.email = FALSE, !.header = {}],
     [Request("capability", {}) EXCEPT !.header = {}, !.body = {"r"}],
     Request("agent", {"dry_run"}), [Request("submit", {}) EXCEPT !.email = FALSE, !.header = {}, !.body = {"r"}],
     Request("submit", {"endpoint_id"})}
    \cup {[Request("mcp", {}) EXCEPT !.token.iss = ik[1], !.token.key = [iss |-> ik[2], kid |-> ik[3]]] :
             ik \in {<<"A", "A", 1>>, <<"A", "A", 2>>, <<"B", "B", 1>>, <<"A", "B", 1>>, <<"B", "A", 1>>}}
    \cup {Request("mcp", {"tool"}), Request("mcp", {"expired", "parse"})}

-----------------------------------------------------------------------------
Raw(form, any, all) == [form |-> form, any |-> any, all |-> all]
Nobody  == Raw("absent", {}, {})
Clerks  == Raw("list", {"clerk"}, {})
Both    == Raw("object", {"clerk"}, {"lead"})
Open    == [read |-> Nobody, create |-> Nobody, update |-> Nobody, delete |-> Nobody]

Ep(id, op, entity, marks) ==
    [id |-> id, op |-> op, entity |-> entity, selector |-> FALSE, form |-> FALSE, marks |-> marks,
     auth |-> Nobody, policy |-> "execute"]
F(name, uuid, generated, create) ==
    [name |-> name, uuid |-> uuid, ident |-> name # "title", generated |-> generated, readonly |-> FALSE,
     create |-> create]
Node(record, main, parents) == [record |-> record, main |-> main, parents |-> parents]

MCOwn == [Case |-> "case_id", Note |-> "note_id"]
MCNames == {"case_id", "note_id", "ext_uuid", "title"}
Tree == <<Node("Case", TRUE, << >>), Node("Note", FALSE, <<[record |-> "Case", field |-> "case_id"]>>)>>

(* Endpoints for everything, with role requirements of both forms.          *)
Guarded ==
    [endpoints |-> <<[Ep("case_create", "create", "Case", {"create"}) EXCEPT !.auth = Both],
                     Ep("case_update", "update", "Case", {"update"}),
                     Ep("note_create", "create", "Note", {"create"}),
                     [Ep("note_delete", "delete", "Note", {"delete"}) EXCEPT !.policy = "approval"],
                     Ep("note_query", "query", "Note", {})>>,
     model |-> <<"Case", "Note">>, hierarchy |-> Tree, own |-> MCOwn, names |-> MCNames,
     access |-> [Case |-> [Open EXCEPT !.update = Both], Note |-> [Open EXCEPT !.create = Clerks, !.delete = Both]],
     fields |-> [Case |-> {F("case_id", FALSE, FALSE, TRUE), F("id", TRUE, TRUE, FALSE), F("title", FALSE, FALSE, FALSE)},
                 Note |-> {F("case_id", TRUE, FALSE, TRUE), F("note_id", TRUE, TRUE, FALSE)}]]

(* Commands that create under another name, a selector over all records,    *)
(* actions of the model.                                                    *)
Commands ==
    [endpoints |-> <<[Ep("register_note", "command", "Note", {}) EXCEPT !.form = TRUE],
                     [Ep("remove_record", "command", "Record", {"remove"}) EXCEPT !.selector = TRUE],
                     [Ep("retire_case", "command", "Case", {"delete"}) EXCEPT !.policy = "deny"]>>,
     model |-> <<"Case", "Note">>, hierarchy |-> Tree, own |-> MCOwn, names |-> MCNames,
     access |-> [Case |-> [Open EXCEPT !.create = Clerks, !.delete = Both], Note |-> [Open EXCEPT !.update = Clerks]],
     fields |-> [Case |-> {F("case_id", FALSE, FALSE, TRUE), F("ext_uuid", TRUE, TRUE, FALSE)},
                 Note |-> {F("case_id", TRUE, FALSE, FALSE), F("note_id", TRUE, TRUE, FALSE)}]]

(* No hierarchy: nothing is taken from the model.                           *)
Flat == [Guarded EXCEPT !.hierarchy = << >>, !.access.Note = Open]

MCRoleSets == {{"local"}, {"clerk"}, {"clerk", "lead"}}

Row(id, c, x) ==
    [id |-> id, data |-> [case_id |-> c, note_id |-> 0, ext_uuid |-> x, title |-> 0], at |-> 0, ver |-> 1]
(* Notes point to a case by its case_id, by its other identifier or by its  *)
(* row id, whichever the case has.                                          *)
Start(p, c, x) == [pack |-> p, rows |-> [Case |-> {Row(1, c, x)}, Note |-> {Row(2, 2, 0)}]]
MCStarts ==
    {Start(Guarded, 0, 3), Start(Guarded, -2, 0), Start(Commands, 2, 3), Start(Flat, 2, 3)}

-----------------------------------------------------------------------------
(* The amount of a record is a field of its details.                         *)
Sort   == <<"k">>
Amount == <<"details", "n">>

Agg(agg, field, filters, dims) ==
    [kind |-> "aggregate", agg |-> agg, field |-> field, filters |-> filters, dims |-> dims,
     deps |-> << >>, expr |-> << >>, tree |-> [op |-> "dep", name |-> "none"]]
Formula(deps, expr, tree, dims) ==
    [kind |-> "formula", agg |-> "count", field |-> NoField, filters |-> << >>, dims |-> dims,
     deps |-> deps, expr |-> expr, tree |-> tree]
Lit(v) == [op |-> "num", v |-> v]
Dep(n) == [op |-> "dep", name |-> n]
Bin(op, l, r) == [op |-> op, l |-> l, r |-> r]

Kind  == [name |-> "kind", field |-> Sort, sensitive |-> FALSE]
Owner == [name |-> "owner", field |-> <<"o">>, sensitive |-> TRUE]
Some  == [t |-> "list", v |-> {Str(1), Num(7)}]
MCCatalogs ==
    {[all   |-> Agg("count", NoField, << >>, <<Kind, Owner>>),
      big   |-> Agg("sum", Amount, <<[field |-> Amount, op |-> "gte", v |-> Num(2)]>>, <<Kind>>),
      mean  |-> Agg("avg", Amount, <<[field |-> Sort, op |-> "ne", v |-> Str(2)]>>, <<Kind>>),
      least |-> Agg("min", Amount, << >>, <<Kind>>),
      most  |-> Agg("max", Amount, <<[field |-> Sort, op |-> "in", v |-> Some]>>, <<Kind>>),
      kinds |-> Agg("distinct_count", Sort, << >>, <<Kind>>),
      share |-> Formula(<<"big", "all">>, <<"big", "/", "all", "-", "big", "*", "0.5", "-", "all">>,
                  Bin("-", Bin("-", Bin("/", Dep("big"), Dep("all")), Bin("*", Dep("big"), Lit(<<1, 2>>))), Dep("all")),
                  <<Kind>>),
      twice |-> Formula(<<"share", "all">>, <<"(", "share", "-", "all", ")", "*", "all">>,
                  Bin("*", Bin("-", Dep("share"), Dep("all")), Dep("all")), <<Kind>>)]}

Q(dims, filters) == [dims |-> dims, filters |-> filters]
MCQueries ==
    {[name |-> n, q |-> q] : n \in {"all", "big", "mean", "least", "most", "kinds", "share", "twice", "absent"},
        q \in {Q(<<"kind">>, << >>), Q(<<"kind", "owner">>, << >>),
               Q(<<"kind">>, <<[field |-> Sort, op |-> "eq", v |-> Str(1)], [field |-> Amount, op |-> "lt", v |-> Num(3)]>>)}}
    \cup {[name |-> n, q |-> Q(<< >>, <<[field |-> Amount, op |-> "eq", v |-> Num(3)]>>)] : n \in {"all"}}
    \cup {[name |-> "all", q |-> Q(<< >>, << >>)]}

MRow(id, k, n) == [id |-> id, data |-> (Sort :> k) @@ (Amount :> n)]
MCMetricRows ==
    {MRow(1, Str(1), Num(1)), MRow(2, Null, Num(3)), MRow(3, Str(2), Str(3)), [id |-> 4, data |-> Amount :> Num(2)]}

-----------------------------------------------------------------------------
(* A cycle A-B-C with a short cut, an edge that is only met backwards, a    *)
(* loop, a repeated id, and graphs that are refused.                        *)
Rel(id, from, to) == [id |-> id, from |-> from, to |-> to]
Graph(rels, deny, approval) ==
    [kind |-> "graph", concepts |-> {"A", "B", "C", "D"}, rels |-> rels, deny |-> deny, approval |-> approval]
Ring   == <<Rel("ab", "A", "B"), Rel("bc", "B", "C"), Rel("ca", "C", "A"), Rel("ac", "A", "C"), Rel("db", "D", "B")>>
Looped == <<Rel("ab", "A", "A"), Rel("aa", "A", "A"), Rel("ab", "A", "B"), Rel("ab2", "A", "B"), Rel("bd", "B", "D")>>

MCOntologies ==
    {Graph(Ring, deny, FALSE) : deny \in {{}, {"bc"}, {"db"}}}
    \cup {Graph(Looped, {"ab"}, FALSE), Graph(Looped, {}, TRUE), Graph(Looped, {"x"}, FALSE),
          Graph(<<Rel("ae", "A", "E")>>, {}, FALSE), Graph(<<Rel("a", "A", NoEnd)>>, {}, FALSE),
          NoOntology, BadPack}

GraphAsk(cmd, from, to, depth) == [cmd |-> cmd, from |-> from, to |-> to, depth |-> depth, provider |-> "bound"]
MCGraphAsks ==
    {GraphAsk(cmd, "A", "A", 0) : cmd \in {"concepts", "relationships", "evidence"}}
    \cup {GraphAsk(cmd, "A", to, d) : cmd \in {"paths", "explain"}, to \in {"A", "C", "D", "E"}, d \in 0..3}
    \cup {GraphAsk("neighbors", from, "A", d) : from \in {"A", "D", "E"}, d \in 0..3}
    \cup {GraphAsk("evidence", from, "A", d) : from \in {"A", "D", "E"}, d \in 1..3}
    \cup {[GraphAsk("evidence", "A", "A", 1) EXCEPT !.provider = p] : p \in {"answers", "provider"}}

=============================================================================
