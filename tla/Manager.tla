------------------------------ MODULE Manager ------------------------------
(***************************************************************************)
(* The business manager (http_runtime.rs, manager/): the view of a pack    *)
(* that a caller's roles leave visible, the cards rendered from it and     *)
(* what submitting one of them asks of the runtime.                        *)
(*                                                                         *)
(* pack: [endpoints, model, access, hierarchy, own, names, fields]         *)
(*   endpoints  sequence, in id order, of [id, op, entity, selector, form, *)
(*              marks, auth, policy]; form: a command whose kind or steps  *)
(*              create the record; marks: the operations its name and      *)
(*              label match; entity "none" and "Record" are special        *)
(*   model      records of the pack's model, in name order                 *)
(*   access     record -> operation -> raw role requirement                *)
(*   hierarchy  sequence, in name order, of [record, main, parents],       *)
(*              parents a sequence of [record, field]                      *)
(*   own        record -> the name of its `<record>_id` field              *)
(*   names      the fields rows have                                       *)
(*   fields     record -> set of [name, uuid, ident, generated, readonly,  *)
(*              create]; uuid: its type; ident: its type or name (id, _id,   *)
(*              _uuid) makes it an identifier                              *)
(* A row is [id, data, at, ver].  Values: 0 is a missing field, n > 0 the   *)
(* string n, n < 0 the number -n, Blank the empty string; strings carry no *)
(* surrounding white space, so trimming them changes nothing.              *)
(***************************************************************************)
EXTENDS Integers, SequencesExt

CONSTANTS PageSize,     \* rows on a page of a list (10)
          Blank         \* the empty string, above all other values

ASSUME ManagerAssumption == PageSize \in Nat \ {0} /\ Blank \in Nat \ {0}

Least(S) == CHOOSE x \in S : \A y \in S : x <= y

-----------------------------------------------------------------------------
(* Role requirements                                                        *)

(* parse_auth_roles: a list is any_of, an object has any_of and all_of.     *)
ParseAuth(raw) ==
    [declared |-> raw.form # "absent",
     any |-> IF raw.form \in {"list", "object"} THEN raw.any ELSE {},
     all |-> IF raw.form = "object" THEN raw.all ELSE {}]

(* Slip: all_of is not looked at.                                           *)
RolesMatchAny(auth, roles) ==
    \/ auth.any = {} /\ auth.all = {}
    \/ auth.any = {} \/ auth.any \cap roles # {}

(* authorization_roles_match, the manager's copy.                           *)
RolesMatch(auth, roles) ==
    \/ auth.any = {} /\ auth.all = {}
    \/ (auth.any = {} \/ auth.any \cap roles # {}) /\ auth.all \subseteq roles

(* authorization_matches, the runtime's.                                    *)
AuthorizationMatches(auth, roles) ==
    \/ auth.any = {} /\ auth.all = {}
    \/ (auth.any = {} \/ auth.any \cap roles # {}) /\ auth.all \subseteq roles

AccessOp(op) == IF op \in {"get", "query"} THEN "read" ELSE op

(* authorization_denial, without its policies: a command's record access is *)
(* not asked for.                                                           *)
Denied(pack, e, roles) ==
    \/ ~AuthorizationMatches(ParseAuth(e.auth), roles)
    \/ /\ e.entity \in DOMAIN pack.access /\ e.op # "command"
       /\ ~AuthorizationMatches(ParseAuth(pack.access[e.entity][AccessOp(e.op)]), roles)

(* manager_endpoint_visible                                                 *)
Visible(pack, e, roles) ==
    /\ RolesMatch(ParseAuth(e.auth), roles)
    /\ e.entity \in DOMAIN pack.access =>
        LET a == pack.access[e.entity]
        IN  IF e.op = "command"
            THEN \E op \in DOMAIN a : ParseAuth(a[op]).declared /\ RolesMatch(ParseAuth(a[op]), roles)
            ELSE RolesMatch(ParseAuth(a[AccessOp(e.op)]), roles)

(* manager_model_access_roles and manager_model_record_can_perform: only a  *)
(* list of roles is looked at, no list lets everybody.                      *)
CanPerform(pack, r, op, roles) ==
    LET raw   == pack.access[r][op]
        named == IF r \in DOMAIN pack.access /\ raw.form = "list" THEN raw.any ELSE {}
    IN  named = {} \/ named \cap roles # {}

-----------------------------------------------------------------------------
(* The view                                                                 *)

CreateForm(e) == e.op = "create" \/ e.form \/ "create" \in e.marks

(* An action with its place in the view.                                    *)
EndpointAction(e, i) ==
    [id |-> <<"endpoint", e.id>>, at |-> i, record |-> e.entity, marks |-> e.marks, policy |-> e.policy]
ModelAction(r, op, i) ==
    [id |-> <<r, op>>, at |-> i, record |-> r, marks |-> {op}, policy |-> "execute"]

(* generate_manager_view: a selector gives an action and no record.         *)
GenerateView(endpoints) ==
    LET records == {e.entity : e \in {e \in Range(endpoints) : ~e.selector /\ e.entity # "none"}}
        acts    == {i \in DOMAIN endpoints : endpoints[i].selector \/ endpoints[i].entity # "none"}
    IN  [records |-> records, nav |-> records, actions |-> {EndpointAction(endpoints[i], i) : i \in acts}]

NoAction == [id |-> <<"none">>, at |-> 0, record |-> "none", marks |-> {}, policy |-> "deny"]

(* The first action of one of the records that matches one of the           *)
(* operations (action_matches_operation).                                   *)
FirstAction(view, records, ops) ==
    LET found == {a \in view.actions : a.record \in records /\ a.marks \cap ops # {}}
    IN  IF found = {} THEN NoAction ELSE CHOOSE a \in found : \A b \in found : a.at <= b.at

(* manager_record_action: a delete may be called remove.                    *)
RecordAction(view, r, op) ==
    FirstAction(view, {r, "Record"}, IF op = "delete" THEN {"delete", "remove"} ELSE {op})

(* create_action and update_action of cards.rs                              *)
CreateAction(view, r) == FirstAction(view, {r}, {"create"})
UpdateAction(view, r) == FirstAction(view, {r, "Record"}, {"update"})

InHierarchy(pack) == {pack.hierarchy[i].record : i \in DOMAIN pack.hierarchy}

(* apply_manager_model_record_action: an action of the model for an         *)
(* operation that nothing offers yet.                                       *)
WithAction(view, pack, roles, r, op, i) ==
    IF RecordAction(view, r, op) # NoAction \/ ~CanPerform(pack, r, op, roles) THEN view
    ELSE [view EXCEPT !.actions = @ \cup {ModelAction(r, op, i)}]

WithActions(view, pack, roles, k) ==
    LET r == pack.model[k]
        i == Len(pack.endpoints) + 3 * k
        created == WithAction(view, pack, roles, r, "create", i)
        updated == WithAction(created, pack, roles, r, "update", i + 1)
    IN  WithAction(updated, pack, roles, r, "delete", i + 2)

(* apply_manager_model_records: the model's records of the hierarchy, and   *)
(* the actions of one record of the model after the other.                  *)
ApplyModel(view, pack, roles) ==
    LET records == view.records \cup (InHierarchy(pack) \cap Range(pack.model))
        views[k \in 0 .. Len(pack.model)] ==
            IF k = 0 THEN [view EXCEPT !.records = records, !.nav = @ \cup records]
            ELSE WithActions(views[k - 1], pack, roles, k)
    IN  IF pack.hierarchy = << >> THEN view ELSE views[Len(pack.model)]

(* apply_manager_record_hierarchy                                           *)
ApplyHierarchy(view, pack) ==
    IF pack.hierarchy = << >> THEN view
    ELSE [view EXCEPT !.nav = {r \in @ : \E i \in DOMAIN pack.hierarchy :
                                   pack.hierarchy[i].record = r /\ pack.hierarchy[i].main}]

(* manager_authorization_policy_set                                         *)
Policies(pack, roles) ==
    LET eps   == {e \in Range(pack.endpoints) : e.entity # "none"}
        shown == {e \in eps : Visible(pack, e, roles)}
    IN  [actions |-> {<<"endpoint", e.id>> : e \in eps \ shown},
         records |-> {e.entity : e \in eps} \ {e.entity : e \in shown}]

(* filter_manager_view                                                      *)
FilterView(view, hide) ==
    LET records == view.records \ hide.records
        kept(a) == /\ a.record \in records \cup {"none", "Record"}
                   /\ a.id \notin hide.actions /\ a.policy # "deny"
    IN  [records |-> records, nav |-> view.nav \cap records, actions |-> {a \in view.actions : kept(a)}]

(* manager_view                                                             *)
ManagerView(pack, roles) ==
    FilterView(ApplyHierarchy(ApplyModel(GenerateView(pack.endpoints), pack, roles), pack),
               Policies(pack, roles))

(* The view of the create card: one endpoint, filtered by all policies.     *)
ScopedView(pack, e, roles) ==
    FilterView(ApplyModel(GenerateView(<<e>>), pack, roles), Policies(pack, roles))

-----------------------------------------------------------------------------
(* Rows and the hierarchy                                                   *)

(* manager_hierarchy_path: breadth first, nodes in name order; the step of  *)
(* a path is [child, field].                                                *)
Steps(pack, from) ==
    FlattenSeq([i \in DOMAIN pack.hierarchy |->
        LET node == pack.hierarchy[i]
            up   == SelectSeq(node.parents, LAMBDA p : p.record = from)
        IN  [j \in DOMAIN up |-> [child |-> node.record, field |-> up[j].field]]])

(* The records still to visit and those seen, after each visit.             *)
Search(pack, from, to) ==
    LET search[n \in 0 .. (Len(pack.hierarchy) + 1)] ==
            IF n = 0 THEN [todo |-> <<[record |-> from, path |-> << >>]>>, seen |-> {from}, path |-> << >>]
            ELSE LET s == search[n - 1] IN
                 IF s.path # << >> \/ s.todo = << >> THEN s
                 ELSE LET at   == Head(s.todo)
                          next == Steps(pack, at.record)
                          hit  == SelectSeq(next, LAMBDA step : step.child = to)
                          new  == {i \in DOMAIN next :
                                     next[i].child \notin s.seen /\ \A j \in 1..(i - 1) : next[j].child # next[i].child}
                          more == [k \in 1..Cardinality(new) |->
                                     LET i == SetToSortSeq(new, <)[k]
                                     IN  [record |-> next[i].child, path |-> Append(at.path, next[i])]]
                      IN  [todo |-> Tail(s.todo) \o more, seen |-> s.seen \cup {step.child : step \in Range(next)},
                           path |-> IF hit # << >> THEN Append(at.path, hit[1]) ELSE << >>]
    IN  search

(* No path and the empty one (a record and itself) are told apart by the    *)
(* callers.                                                                 *)
HierarchyPath(pack, from, to) ==
    IF from = to THEN << >> ELSE Search(pack, from, to)[Len(pack.hierarchy) + 1].path

(* collect_manager_row_identifier_values: the fields id, record_id, the own *)
(* one and those ending in _uuid; numbers are read as their digits.         *)
RowIdentifiers(pack, r, data) ==
    {IF data[f] < 0 THEN -data[f] ELSE data[f] :
        f \in {f \in DOMAIN data : /\ f \in {"id", "record_id", "ext_uuid", pack.own[r]}
                                   /\ data[f] \notin {0, Blank}}}

(* manager_business_record_id; 0 when there is none.                        *)
BusinessId(pack, r, data) ==
    IF data[pack.own[r]] > 0 THEN data[pack.own[r]]
    ELSE IF RowIdentifiers(pack, r, data) = {} THEN 0 ELSE Least(RowIdentifiers(pack, r, data))

(* Slip: only the id in the link counts.                                    *)
ContextIdsLink(pack, rows, r, id) == {id}

(* manager_record_context_ids                                               *)
ContextIds(pack, rows, r, id) ==
    {id} \cup UNION {RowIdentifiers(pack, r, row.data) : row \in {row \in rows[r] : row.id = id}}

(* manager_record_parent_context_value                                      *)
ParentValue(pack, rows, r, id) ==
    LET known  == {row \in rows[r] : row.id = id /\ BusinessId(pack, r, row.data) # 0}
        others == ContextIds(pack, rows, r, id) \ {id}
    IN  IF known # {} THEN BusinessId(pack, r, (CHOOSE row \in known : TRUE).data)
        ELSE IF others # {} THEN Least(others) ELSE id

(* filter_manager_rows_by_parent_context: after the first step only row ids *)
(* are followed; a number is never a match.                                 *)
UnderParent(pack, rows, r, parent, id) ==
    LET path == HierarchyPath(pack, parent, r)
        one(ids, s) == {row.id : row \in {row \in rows[s.child] : row.data[s.field] \in ids /\ row.data[s.field] > 0}}
        ids  == FoldLeft(one, ContextIds(pack, rows, parent, id), path)
    IN  IF r = parent THEN {row \in rows[r] : row.id = id}
        ELSE IF path = << >> THEN rows[r]
        ELSE {row \in rows[r] : row.id \in ids}

(* sort_manager_record_rows: newest first; at is 0 without a timestamp.     *)
SortRows(S) ==
    SetToSortSeq(S, LAMBDA a, b : \/ a.at > b.at
                                  \/ a.at = b.at /\ a.ver > b.ver
                                  \/ a.at = b.at /\ a.ver = b.ver /\ a.id > b.id)

(* manager_record_matches_search; 0 is no search.                           *)
MatchesSearch(row, q) == q = 0 \/ row.id = q \/ \E f \in DOMAIN row.data : row.data[f] \in {q, -q}

NoParent == [record |-> "none", id |-> 0]

ListRows(pack, rows, r, ctx, q) ==
    SortRows({row \in (IF ctx = NoParent THEN rows[r] ELSE UnderParent(pack, rows, r, ctx.record, ctx.id)) :
                MatchesSearch(row, q)})

(* The page of manager_record_list_card_response, and whether the card has  *)
(* a Next link.                                                             *)
ListPage(sorted, page) ==
    LET total == Len(sorted)
        start == IF (page - 1) * PageSize < total THEN (page - 1) * PageSize ELSE total
        end   == IF start + PageSize < total THEN start + PageSize ELSE total
    IN  [rows |-> SubSeq(sorted, start + 1, end), next |-> end < total]

-----------------------------------------------------------------------------
(* Cards                                                                    *)

NoCard == [kind |-> "none", record |-> "none", id |-> 0, action |-> NoAction.id, inputs |-> {},
           input |-> << >>, parent |-> NoParent, target |-> 0]

(* render_field_for_scope: the inputs of a form.                            *)
CreateInputs(pack, r) ==
    LET named == {f \in pack.fields[r] : f.create}
    IN  {f.name : f \in {f \in (IF named = {} THEN pack.fields[r] ELSE named) : ~f.generated /\ ~f.readonly}}
UpdateInputs(pack, r, data) ==
    {f.name : f \in {f \in pack.fields[r] : ~f.readonly /\ ~f.ident /\ (f.generated => data[f.name] # 0)}}

(* apply_manager_parent_create_context: the first step's field is set and   *)
(* its input taken out.                                                     *)
WithParent(card, pack, rows, ctx) ==
    LET path == HierarchyPath(pack, ctx.record, card.record)
    IN  IF ctx = NoParent \/ path = << >> THEN card
        ELSE [card EXCEPT !.input  = <<[field |-> path[1].field, v |-> ParentValue(pack, rows, ctx.record, ctx.id)]>>,
                          !.inputs = @ \ {path[1].field},
                          !.parent = ctx]

(* manager_record_create_card_response: the first create form of the record *)
(* whether or not it is visible; without one, the model's create action.    *)
CreateCard(pack, rows, roles, r, ctx) ==
    LET view   == ManagerView(pack, roles)
        forms  == {i \in DOMAIN pack.endpoints :
                     LET e == pack.endpoints[i] IN e.entity = r /\ CreateForm(e) /\ ~e.selector}
        scoped == IF forms = {} THEN view ELSE ScopedView(pack, pack.endpoints[Least(forms)], roles)
        card   == [NoCard EXCEPT !.kind = "create", !.record = r, !.inputs = CreateInputs(pack, r),
                                 !.action = CreateAction(scoped, r).id]
    IN  IF \/ r \notin view.records \/ r \notin scoped.records
           \/ forms = {} /\ RecordAction(view, r, "create") = NoAction
        THEN [status |-> 404, card |-> NoCard]
        ELSE [status |-> 200, card |-> WithParent(card, pack, rows, ctx)]

(* manager_record_detail_card_response                                      *)
DetailCard(pack, rows, roles, r, id) ==
    LET view  == ManagerView(pack, roles)
        found == {row \in rows[r] : row.id = id}
        act   == UpdateAction(view, r)
    IN  IF r \notin view.records \/ found = {} THEN [status |-> 404, card |-> NoCard]
        ELSE [status |-> 200,
              card   |-> [NoCard EXCEPT !.kind = "update", !.record = r, !.id = id, !.action = act.id,
                            !.inputs = IF act = NoAction THEN {}
                                       ELSE UpdateInputs(pack, r, (CHOOSE row \in found : TRUE).data)]]

(* manager_record_delete_card_response: an action of "Record" is given the  *)
(* business id, any other the row id.                                       *)
DeleteCard(pack, rows, roles, r, id) ==
    LET view  == ManagerView(pack, roles)
        act   == RecordAction(view, r, "delete")
        found == {row \in rows[r] : row.id = id /\ BusinessId(pack, r, row.data) # 0}
        bid   == IF found = {} THEN id ELSE BusinessId(pack, r, (CHOOSE row \in found : TRUE).data)
    IN  IF r \notin view.records THEN [status |-> 404, card |-> NoCard]
        ELSE IF act = NoAction THEN [status |-> 403, card |-> NoCard]
        ELSE [status |-> 200,
              card   |-> [NoCard EXCEPT !.kind = "delete", !.record = r, !.id = id, !.action = act.id,
                                        !.target = IF act.record = "Record" THEN bid ELSE id]]

(* manager_direct_child_record_sections: the kinds of children of a row,    *)
(* which of them have a link to add one.  A section also shows the first    *)
(* page of the list below the row (ListPage).                               *)
ChildSections(pack, roles, r) ==
    LET view == ManagerView(pack, roles)
    IN  {[record |-> c, add |-> RecordAction(view, c, "create") # NoAction] :
            c \in {c \in view.records \cap InHierarchy(pack) : \E s \in Range(Steps(pack, r)) : s.child = c}}

-----------------------------------------------------------------------------
(* Submitting a card                                                        *)

(* merge_manager_submit_fields and fill_generated_manager_fields: the       *)
(* filled inputs that are fields of the record join the input of the card;  *)
(* generated identifiers get a fresh value, in an update too: the card      *)
(* shows them and does not send them.                                       *)
SubmitData(pack, card, filled, fresh) ==
    [f \in DOMAIN filled |->
        IF \E i \in DOMAIN card.input : card.input[i].field = f
        THEN card.input[CHOOSE i \in DOMAIN card.input : card.input[i].field = f].v
        ELSE IF filled[f] # 0 THEN filled[f]
        ELSE IF \E g \in pack.fields[card.record] : g.name = f /\ g.generated /\ g.uuid THEN fresh
        ELSE 0]

(* The endpoint of a submit, and what the runtime answers before it does    *)
(* anything: 200 goes on to the operation.  The control hook is asked after *)
(* the roles and before the policy, and only for an endpoint.               *)
EndpointOf(pack, id) ==
    CHOOSE e \in Range(pack.endpoints) : <<"endpoint", e.id>> = id

IsModelAction(pack, id) == \E r \in Range(pack.model), op \in {"create", "update", "delete"} : id = <<r, op>>

SubmitStatus(pack, card, roles, pre) ==
    IF card.action = NoAction.id THEN 400
    ELSE IF IsModelAction(pack, card.action)
    THEN IF CanPerform(pack, card.action[1], card.action[2], roles) THEN 200 ELSE 403
    ELSE LET e == EndpointOf(pack, card.action)
         IN  IF Denied(pack, e, roles) THEN 403
             ELSE IF pre # 200 THEN pre
             ELSE IF e.policy = "deny" THEN 403
             ELSE IF e.policy = "approval" THEN 202
             ELSE 200

(* What the hooks of a deployment make of a submit, before the operation    *)
(* and of its answer: 403 when control denies, 400 when a hook, an observer *)
(* or the audit sink fails.  An action of the model goes to the store       *)
(* without them.                                                            *)
Silent == [pre |-> 200, post |-> 200]
HooksOf(pack, card) ==
    IF card.action = NoAction.id \/ IsModelAction(pack, card.action) THEN {Silent}
    ELSE {[Silent EXCEPT ![at] = st] : at \in {"pre", "post"}, st \in {200, 400, 403}}

SubmitOp(pack, card) ==
    IF IsModelAction(pack, card.action) THEN card.action[2]
    ELSE LET e == EndpointOf(pack, card.action)
         IN  IF e.op # "command" THEN e.op
             ELSE IF e.form THEN "create" ELSE IF card.kind = "delete" THEN "remove" ELSE "other"

(* stamp_manager_created_at: only the create operation of an endpoint.      *)
Stamped(pack, card) ==
    ~IsModelAction(pack, card.action) /\ EndpointOf(pack, card.action).op = "create"

(* The id of an update reaches an endpoint only as a field of the record.   *)
UpdateHasId(pack, card) ==
    IsModelAction(pack, card.action) \/ \E f \in pack.fields[card.record] : f.name = "id"

=============================================================================
