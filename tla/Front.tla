------------------------------- MODULE Front -------------------------------
(***************************************************************************)
(* What callers see of a node: requests through the doors while roles are  *)
(* granted and keys rotate, the manager's cards while rows change under    *)
(* them, metric queries that read one collection after the other, the      *)
(* event bridge's tasks, and graph commands over a pack file that may be   *)
(* replaced under them.  They have no state in common, so a behaviour is  *)
(* about one of them, and the doors about one of the two caches: `world`   *)
(* says which.                                                             *)
(***************************************************************************)
EXTENDS Access, Cards, Metrics, GraphCommands

CONSTANTS
    Worlds,                   \* the parts a run is about
    Catalogs, Queries, MetricRows,  \* metrics of a pack, queries, rows there may be
    Messages, Correlations    \* requests on the bridge's subject

VARIABLES
    world,
    mrows, query,
    msgs, kept   \* bridge messages; records made under a correlation id

metricVars  == <<mrows, query>>
bridgeVars  == <<msgs, kept>>
vars == <<world, doorVars, managerVars, metricVars, bridgeVars, graphVars>>

-----------------------------------------------------------------------------
(* Initial states                                                           *)

NoQuery == [pc |-> "idle", catalog |-> << >>, name |-> "none", q |-> [dims |-> << >>, filters |-> << >>],
            left |-> << >>, answers |-> << >>, seen |-> << >>, res |-> Failed]
Unsent == [pc |-> "none", corr |-> "none", good |-> FALSE, outcome |-> "none", rec |-> 0,
           resp |-> [sent |-> FALSE, ok |-> FALSE, error |-> "none", rec |-> 0], echo |-> "none"]

(* Where it matters, the caller may be granted role r or not.               *)
GrantsIn(w) == IF w = "roles" THEN {{}, {"r"}} ELSE {{}}

Init ==
    /\ world \in Worlds
    /\ DoorInit(IF world = "roles" THEN BOOLEAN ELSE {FALSE}, GrantsIn(world))
    /\ CardsInit(IF world = "manager" THEN Starts ELSE {CHOOSE st \in Starts : TRUE})
    /\ mrows \in IF world = "metric" THEN SUBSET MetricRows ELSE {{}}
    /\ query = NoQuery
    /\ msgs = [m \in Messages |-> Unsent] /\ kept = [c \in Correlations |-> 0]
    /\ GraphInit(IF world = "graph" THEN Ontologies ELSE {NoOntology})

-----------------------------------------------------------------------------
(* Requests                                                                 *)

DoorStep ==
    /\ world \in {"roles", "tokens"}
    /\ DoorNext({a \in Asked : (a.door = "mcp") = (world = "tokens")}, GrantsIn(world),
                IF world = "tokens" THEN {k.kid : k \in Keys} ELSE {1})
    /\ UNCHANGED <<world, managerVars, metricVars, bridgeVars, graphVars>>

-----------------------------------------------------------------------------
(* The manager                                                              *)

ManagerStep ==
    /\ world = "manager" /\ CardsNext
    /\ UNCHANGED <<world, doorVars, metricVars, bridgeVars, graphVars>>

-----------------------------------------------------------------------------
(* Metric queries                                                           *)

(* query_metric up to the first read: 404, 403 or the query goes on.        *)
AskMetric ==
    /\ query.pc = "idle"
    /\ \E c \in Catalogs, a \in Queries :
          LET known == a.name \in DOMAIN c
              q     == IF known THEN Effective(c[a.name], a.q) ELSE a.q
          IN  query' = IF known /\ SensitiveRequested(c[a.name], q)
                       THEN [NoQuery EXCEPT !.pc = "refused", !.catalog = c, !.name = a.name, !.q = q]
                       ELSE [NoQuery EXCEPT !.pc = "reading", !.catalog = c, !.name = a.name, !.q = q,
                                            !.left = Leaves(c, a.name, {})]
    /\ UNCHANGED mrows

(* One dependency's query; the first one that fails ends it.                *)
ReadMetric ==
    /\ query.pc = "reading" /\ query.left # << >>
    /\ LET a == QueryMetric(query.catalog[Head(query.left)], query.q, mrows)
       IN  query' = [query EXCEPT !.left = IF a.ok THEN Tail(@) ELSE << >>,
                                  !.answers = Append(@, a), !.seen = Append(@, mrows),
                                  !.pc = IF a.ok THEN @ ELSE "failed"]
    /\ UNCHANGED mrows

FinishMetric ==
    /\ query.pc = "reading" /\ query.left = << >>
    /\ LET r == Combined(query.catalog, query.name, {}, query.answers, 1).res
       IN  query' = [query EXCEPT !.res = r, !.pc = IF r.ok THEN "answered" ELSE "failed"]
    /\ UNCHANGED mrows

(* Rows come and go between the reads; before the first they are any.       *)
ChangeRows ==
    /\ query.pc = "reading" /\ query.left # << >> /\ query.seen # << >>
    /\ \E r \in MetricRows : mrows' = IF r \in mrows THEN mrows \ {r} ELSE mrows \cup {r}
    /\ UNCHANGED query

MetricStep ==
    /\ world = "metric"
    /\ AskMetric \/ ReadMetric \/ FinishMetric \/ ChangeRows
    /\ UNCHANGED <<world, doorVars, managerVars, bridgeVars, graphVars>>

-----------------------------------------------------------------------------
(* The event bridge                                                         *)

(* run_bridge: a task per message.                                          *)
Receive(m) ==
    /\ msgs[m].pc = "none"
    /\ \E c \in Correlations \cup {"none"}, good \in BOOLEAN :
          msgs' = [msgs EXCEPT ![m] = [Unsent EXCEPT !.pc = "task", !.corr = c, !.good = good]]
    /\ UNCHANGED kept

(* The payload does not decode: logged, and nothing else.                   *)
DropUndecoded(m) ==
    /\ msgs[m].pc = "task" /\ ~msgs[m].good
    /\ msgs' = [msgs EXCEPT ![m].pc = "dropped"]
    /\ UNCHANGED kept

(* CoreSorxInvoker::invoke, a keyed create: the correlation id is the key,  *)
(* and the store answers a repetition with the first record.                *)
InvokeBridge(m) ==
    LET c   == msgs[m].corr
        new == 1 + Cardinality({n \in Messages : msgs[n].rec # 0})
        rec == IF c = "none" \/ kept[c] = 0 THEN new ELSE kept[c]
    IN  /\ msgs[m].pc = "task" /\ msgs[m].good
        /\ \E o \in {"done", "denied", "error", "panic"} :
              LET made == IF o = "done" THEN rec ELSE 0
              IN  /\ msgs' = [msgs EXCEPT ![m].pc = "invoked", ![m].outcome = o, ![m].rec = made,
                                          ![m].resp = BuildResponse(o, made)]
                  /\ kept' = IF c # "none" /\ o = "done" THEN [kept EXCEPT ![c] = rec] ELSE kept

(* handle_message publishes, echoing the correlation id; the publish may    *)
(* fail.                                                                    *)
PublishResponse(m) ==
    /\ msgs[m].pc = "invoked"
    /\ \E lost \in BOOLEAN :
          msgs' = [msgs EXCEPT ![m].pc = IF lost THEN "lost" ELSE "published", ![m].echo = msgs[m].corr]
    /\ UNCHANGED kept

Task(m) ==
    /\ world = "bridge"
    /\ DropUndecoded(m) \/ InvokeBridge(m) \/ PublishResponse(m)
    /\ UNCHANGED <<world, doorVars, managerVars, metricVars, graphVars>>

BridgeStep ==
    /\ world = "bridge"
    /\ \E m \in Messages : Receive(m)
    /\ UNCHANGED <<world, doorVars, managerVars, metricVars, graphVars>>

-----------------------------------------------------------------------------
(* Graph commands.                                                          *)

GraphStep ==
    /\ world = "graph" /\ GraphNext
    /\ UNCHANGED <<world, doorVars, managerVars, metricVars, bridgeVars>>

-----------------------------------------------------------------------------
Next == DoorStep \/ ManagerStep \/ MetricStep \/ BridgeStep \/ GraphStep \/ \E m \in Messages : Task(m)

(* Tokio runs every spawned task, and the calls in one end.                 *)
Fairness == \A m \in Messages : WF_vars(Task(m))

Spec == Init /\ [][Next]_vars /\ Fairness

-----------------------------------------------------------------------------
(* Properties                                                               *)

(* The aggregate by its definition: the rows that satisfy every filter,     *)
(* those of a group, the number they stand for.                             *)
RefValue(m, S) ==
    LET vals == {r \in S : m.field # NoField /\ FieldValue(r.data, m.field).t = "num"}
        num(r) == r.data[m.field].v
        sum  == MapThenSumSet(num, vals)
    IN  CASE m.agg = "count" -> Whole(Cardinality(S))
          [] m.agg = "sum" -> Whole(sum)
          [] m.agg = "avg" -> IF vals = {} THEN Whole(0) ELSE <<sum, Cardinality(vals)>>
          [] m.agg = "min" -> Whole(IF vals = {} THEN 0 ELSE Min({num(r) : r \in vals}))
          [] m.agg = "max" -> Whole(IF vals = {} THEN 0 ELSE Max({num(r) : r \in vals}))
          [] m.agg = "distinct_count" ->
                Whole(IF m.field = NoField THEN 0 ELSE Cardinality({FieldValue(r.data, m.field) : r \in S} \ {Missing}))

RefDims(m, q, r) ==
    {d \in {<<n, FieldValue(r.data, DimensionField(m, n))>> : n \in Range(q.dims)} : d[2] \notin {Missing, Null}}

RefRows(m, q, S) ==
    LET kept0 == {r \in S : \A f \in Range(m.filters) \cup Range(q.filters) : FilterMatches(r.data, f)}
        dims  == {RefDims(m, q, r) : r \in kept0} \cup (IF q.dims = << >> THEN {{}} ELSE {})
    IN  {[dims |-> d, value |-> RefValue(m, {r \in kept0 : RefDims(m, q, r) = d})] : d \in dims}

RECURSIVE RefTree(_, _)
RefTree(t, val) ==
    CASE t.op = "dep" -> val[t.name]
      [] t.op = "num" -> t.v
      [] t.op = "+" -> Plus(RefTree(t.l, val), RefTree(t.r, val))
      [] t.op = "-" -> Minus(RefTree(t.l, val), RefTree(t.r, val))
      [] t.op = "*" -> Times(RefTree(t.l, val), RefTree(t.r, val))
      [] t.op = "/" -> Over(RefTree(t.l, val), RefTree(t.r, val))

SameRows(A, B) ==
    /\ {r.dims : r \in A} = {r.dims : r \in B} /\ Cardinality(A) = Cardinality(B)
    /\ \A a \in A, b \in B : a.dims = b.dims => Equal(a.value, b.value)

(* seen holds what each aggregate below the metric read, in their order.    *)
RECURSIVE RefMetric(_, _, _, _)
RefMetric(c, name, q, seen) ==
    IF c[name].kind = "aggregate" THEN RefRows(c[name], q, seen[1])
    ELSE LET m == c[name]
             width(i) == Len(Leaves(c, m.deps[i], {name}))
             before(i) == MapThenSumSet(width, 1..(i - 1))
             part == [i \in DOMAIN m.deps |->
                        RefMetric(c, m.deps[i], q, SubSeq(seen, before(i) + 1, before(i) + width(i)))]
             dims == UNION {{r.dims : r \in part[i]} : i \in DOMAIN part}
             at(i, d) == IF \E r \in part[i] : r.dims = d
                         THEN (CHOOSE r \in part[i] : r.dims = d).value ELSE Whole(0)
             val(d) == [n \in Range(m.deps) |-> at(CHOOSE i \in DOMAIN m.deps : m.deps[i] = n, d)]
         IN  {[dims |-> d, value |-> RefTree(m.tree, val(d))] : d \in dims}

(* An answered metric is exact: an aggregate equals its definition over the *)
(* rows as they were when it was read, whatever part of the filters the     *)
(* store applied, with one row for each group; a formula equals its tree    *)
(* over the values of its dependencies, 0 where one has no row.             *)
MetricExact ==
    query.pc = "answered" =>
        SameRows(query.res.rows, RefMetric(query.catalog, query.name, query.q, query.seen))

(* Every request on the bridge that decodes is answered, with its own       *)
(* correlation id, also when the invocation fails or panics; requests that  *)
(* share the id and succeed are answered with one record.                   *)
BridgeAnswered ==
    \A m \in Messages :
        msgs[m].pc = "task" /\ msgs[m].good ~>
            /\ msgs[m].pc \in {"published", "lost"}
            /\ msgs[m].resp.sent /\ msgs[m].echo = msgs[m].corr
            /\ msgs[m].resp.ok /\ msgs[m].corr # "none" => msgs[m].resp.rec = kept[msgs[m].corr]

=============================================================================
