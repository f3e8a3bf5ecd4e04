------------------------------ MODULE Metrics ------------------------------
(***************************************************************************)
(* Metric queries: StoreMetricProvider (http_runtime.rs) aggregates the    *)
(* records of one collection, MetricsRuntime (metrics_runtime.rs) computes *)
(* formulas over the answers of their dependencies.  Values are JSON       *)
(* scalars [t, v]; numbers are exact fractions <<n, d>>, rounding is left   *)
(* out.  An expression is the sequence of its tokens.                       *)
(*                                                                         *)
(* metric: [kind, agg, field, filters, dims, deps, expr]                   *)
(*   filters: sequence of [field, op, v]; dims: sequence of [name, field,  *)
(*   sensitive]; query: [dims, filters], dims a sequence of names.  from,  *)
(* to and grain are carried in a query and read by nobody.                 *)
(*                                                                         *)
(* A field is the sequence of the segments between its dots, the data of a *)
(* record maps such paths to scalars.                                      *)
(***************************************************************************)
EXTENDS Integers, SequencesExt

Missing == [t |-> "missing", v |-> 0]
Null    == [t |-> "null", v |-> 0]
Num(n)  == [t |-> "num", v |-> n]
Str(n)  == [t |-> "str", v |-> n]

NoField == << >>
Dotted(f) == Len(f) > 1

(* field_value: a segment that is missing gives nothing.                    *)
FieldValue(data, f) == IF f \in DOMAIN data THEN data[f] ELSE Missing

-----------------------------------------------------------------------------
(* Fractions                                                                *)

Whole(n)  == <<n, 1>>
Plus(a, b)  == <<a[1] * b[2] + b[1] * a[2], a[2] * b[2]>>
Minus(a, b) == <<a[1] * b[2] - b[1] * a[2], a[2] * b[2]>>
Times(a, b) == <<a[1] * b[1], a[2] * b[2]>>
(* The divisor is not zero; the sign goes to the numerator.                 *)
Over(a, b)  == IF b[1] > 0 THEN <<a[1] * b[2], a[2] * b[1]>> ELSE <<-a[1] * b[2], -a[2] * b[1]>>
Equal(a, b) == a[1] * b[2] = b[1] * a[2]

-----------------------------------------------------------------------------
(* The query against the store                                              *)

MetricFilters(m, q) == m.filters \o q.filters

(* Slip: the store is asked for dotted fields too.                          *)
EqualityFilterDotted(filters) ==
    {<<filters[i].field, filters[i].v>> : i \in {i \in DOMAIN filters : filters[i].op = "eq"}}

(* equality_filter: a later filter on a field replaces an earlier one; a    *)
(* dotted field is left to the rows.                                        *)
EqualityFilter(filters) ==
    LET eq == {i \in DOMAIN filters : filters[i].op = "eq" /\ ~Dotted(filters[i].field)}
    IN  {<<filters[i].field, filters[i].v>> :
            i \in {i \in eq : \A j \in eq : filters[j].field = filters[i].field => j <= i}}

(* The store's query: all named fields are present at the top and equal.    *)
StoreQuery(rows, pushed) ==
    {r \in rows : \A p \in pushed : ~Dotted(p[1]) /\ FieldValue(r.data, p[1]) = p[2]}

CompareNumbers(a, b, op) ==
    /\ a.t = "num" /\ b.t = "num"
    /\ CASE op = "gt" -> a.v > b.v [] op = "gte" -> a.v >= b.v
         [] op = "lt" -> a.v < b.v [] op = "lte" -> a.v <= b.v

FilterMatches(data, f) ==
    LET actual == FieldValue(data, f.field)
    IN  /\ actual # Missing
        /\ CASE f.op = "eq" -> actual = f.v
             [] f.op = "ne" -> actual # f.v
             [] f.op \in {"gt", "gte", "lt", "lte"} -> CompareNumbers(actual, f.v, f.op)
             [] f.op = "in" -> f.v.t = "list" /\ actual \in f.v.v
             [] OTHER -> FALSE

FiltersMatch(data, filters) == \A i \in DOMAIN filters : FilterMatches(data, filters[i])

-----------------------------------------------------------------------------
(* AggregateState                                                           *)

NoState == [count |-> 0, sum |-> 0, numeric |-> 0, min |-> 0, max |-> 0, distinct |-> {}]

Push(s, value) ==
    [count    |-> s.count + 1,
     distinct |-> IF value = Missing THEN s.distinct ELSE s.distinct \cup {value},
     sum      |-> IF value.t = "num" THEN s.sum + value.v ELSE s.sum,
     numeric  |-> IF value.t = "num" THEN s.numeric + 1 ELSE s.numeric,
     min      |-> IF value.t = "num" /\ (s.numeric = 0 \/ value.v < s.min) THEN value.v ELSE s.min,
     max      |-> IF value.t = "num" /\ (s.numeric = 0 \/ value.v > s.max) THEN value.v ELSE s.max]

StateValue(s, agg) ==
    CASE agg = "count" -> Whole(s.count)
      [] agg = "sum"   -> Whole(s.sum)
      [] agg = "avg"   -> IF s.numeric = 0 THEN Whole(0) ELSE <<s.sum, s.numeric>>
      [] agg = "min"   -> Whole(s.min)
      [] agg = "max"   -> Whole(s.max)
      [] agg = "distinct_count" -> Whole(Cardinality(s.distinct))

-----------------------------------------------------------------------------
(* query_metric                                                             *)

Failed == [ok |-> FALSE, rows |-> {}]

DimensionField(m, name) == m.dims[CHOOSE i \in DOMAIN m.dims : m.dims[i].name = name].field
DimensionsKnown(m, q) == Range(q.dims) \subseteq {m.dims[i].name : i \in DOMAIN m.dims}

(* A missing field and null fall into one group.                            *)
GroupKey(m, q, data) ==
    [i \in DOMAIN q.dims |->
        LET v == FieldValue(data, DimensionField(m, q.dims[i])) IN IF v = Missing THEN Null ELSE v]

(* The row's dimensions leave the null ones out.                            *)
RowDimensions(q, key) == {<<q.dims[i], key[i]>> : i \in {i \in DOMAIN key : key[i] # Null}}

Aggregated(m, rows) ==
    LET order == SetToSortSeq(rows, LAMBDA a, b : a.id < b.id)
        one(s, r) == Push(s, IF m.field = NoField THEN Missing ELSE FieldValue(r.data, m.field))
    IN  StateValue(FoldLeft(one, NoState, order), m.agg)

QueryMetric(m, q, rows) ==
    LET filters == MetricFilters(m, q)
        found   == {r \in StoreQuery(rows, EqualityFilter(filters)) : FiltersMatch(r.data, filters)}
        keys    == {GroupKey(m, q, r.data) : r \in found}
                     \cup (IF found = {} /\ q.dims = << >> THEN {<< >>} ELSE {})
    IN  IF ~DimensionsKnown(m, q) THEN Failed
        ELSE [ok   |-> TRUE,
              rows |-> {[dims  |-> RowDimensions(q, k),
                         value |-> Aggregated(m, {r \in found : GroupKey(m, q, r.data) = k})] :
                            k \in keys}]

-----------------------------------------------------------------------------
(* FormulaParser: expression, term and factor over the tokens from i on;    *)
(* val maps the names of the dependencies to numbers.  Numeral stands for   *)
(* the texts of digits and dots that read as a number.                      *)
Numeral == ("0" :> Whole(0)) @@ ("2" :> Whole(2)) @@ ("0.5" :> <<1, 2>>)

NotParsed == [ok |-> FALSE, v |-> Whole(0), i |-> 0]
Token(ts, i) == IF i <= Len(ts) THEN ts[i] ELSE "end"

RECURSIVE Expression(_, _, _), Terms(_, _, _), Term(_, _, _), Factors(_, _, _), Factor(_, _, _)

Expression(ts, val, i) == LET a == Term(ts, val, i) IN IF a.ok THEN Terms(ts, val, a) ELSE a

Terms(ts, val, a) ==
    IF Token(ts, a.i) \notin {"+", "-"} THEN a
    ELSE LET b == Term(ts, val, a.i + 1)
         IN  IF ~b.ok THEN b
             ELSE Terms(ts, val, [b EXCEPT !.v = IF Token(ts, a.i) = "+" THEN Plus(a.v, b.v)
                                                                         ELSE Minus(a.v, b.v)])

Term(ts, val, i) == LET a == Factor(ts, val, i) IN IF a.ok THEN Factors(ts, val, a) ELSE a

Factors(ts, val, a) ==
    IF Token(ts, a.i) \notin {"*", "/"} THEN a
    ELSE LET b == Factor(ts, val, a.i + 1)
         IN  IF ~b.ok THEN b
             ELSE IF Token(ts, a.i) = "*" THEN Factors(ts, val, [b EXCEPT !.v = Times(a.v, b.v)])
             ELSE IF b.v[1] = 0 THEN NotParsed
             ELSE Factors(ts, val, [b EXCEPT !.v = Over(a.v, b.v)])

Factor(ts, val, i) ==
    LET t == Token(ts, i)
    IN  IF t = "(" THEN LET a == Expression(ts, val, i + 1)
                        IN  IF a.ok /\ Token(ts, a.i) = ")" THEN [a EXCEPT !.i = @ + 1] ELSE NotParsed
        ELSE IF t \in DOMAIN Numeral THEN [ok |-> TRUE, v |-> Numeral[t], i |-> i + 1]
        ELSE IF t \in DOMAIN val THEN [ok |-> TRUE, v |-> val[t], i |-> i + 1]
        ELSE NotParsed

EvaluateFormula(ts, val) ==
    LET a == Expression(ts, val, 1) IN IF a.ok /\ a.i = Len(ts) + 1 THEN a ELSE NotParsed

(* evaluate_formula_rows: a dependency without a row for a group counts as  *)
(* 0; one row that fails fails the query.                                   *)
EvaluateFormulaRows(m, results) ==
    LET deps  == DOMAIN results
        dims  == UNION {{r.dims : r \in results[d].rows} : d \in deps}
        at(d, g) == IF \E r \in results[d].rows : r.dims = g
                    THEN (CHOOSE r \in results[d].rows : r.dims = g).value ELSE Whole(0)
        out(g) == EvaluateFormula(m.expr, [d \in deps |-> at(d, g)])
    IN  IF \A g \in dims : out(g).ok
        THEN [ok |-> TRUE, rows |-> {[dims |-> g, value |-> out(g).v] : g \in dims}]
        ELSE Failed

-----------------------------------------------------------------------------
(* query_definition: the aggregates below a metric are read one after the   *)
(* other, each with a query of its own.                                     *)

RECURSIVE Leaves(_, _, _)
Leaves(catalog, name, stack) ==
    IF name \in stack \/ name \notin DOMAIN catalog THEN << >>
    ELSE IF catalog[name].kind = "aggregate" THEN <<name>>
    ELSE FlattenSeq([i \in DOMAIN catalog[name].deps |->
                        Leaves(catalog, catalog[name].deps[i], stack \cup {name})])

(* The answers of the leaves from the k-th on, put together.                *)
RECURSIVE Combined(_, _, _, _, _)
Combined(catalog, name, stack, answers, k) ==
    IF name \in stack \/ name \notin DOMAIN catalog THEN [res |-> Failed, k |-> k]
    ELSE IF catalog[name].kind = "aggregate" THEN [res |-> answers[k], k |-> k + 1]
    ELSE LET m == catalog[name]
             one(acc, d) ==
                LET r == Combined(catalog, d, stack \cup {name}, answers, acc.k)
                IN  [res |-> [acc.res EXCEPT ![d] = r.res], k |-> r.k]
             all == FoldLeft(one, [res |-> [d \in Range(m.deps) |-> Failed], k |-> k], m.deps)
         IN  [res |-> IF \A d \in Range(m.deps) : all.res[d].ok
                      THEN EvaluateFormulaRows(m, all.res) ELSE Failed,
              k |-> all.k]

-----------------------------------------------------------------------------
(* The door of a metric query                                               *)

SensitiveRequested(m, q) ==
    \E i \in DOMAIN m.dims : m.dims[i].sensitive /\ m.dims[i].name \in Range(q.dims)

DefaultDimensions(m) ==
    LET open == SelectSeq(m.dims, LAMBDA d : ~d.sensitive) IN [i \in DOMAIN open |-> open[i].name]

(* handle_metric_query: no dimensions asks for the default ones.            *)
Effective(m, q) == IF q.dims = << >> THEN [q EXCEPT !.dims = DefaultDimensions(m)] ELSE q

=============================================================================
