-------------------------------- MODULE Cards --------------------------------
(***************************************************************************)
(* People at the business manager: cards opened with the roles they have,  *)
(* filled in and submitted, over rows that others change meanwhile         *)
(* (http_runtime.rs, manager/).  Ids of rows are drawn from a small set.   *)
(***************************************************************************)
EXTENDS Manager

CONSTANTS
    Users, RoleSets,          \* people at the manager, roles they may have
    Starts,                   \* packs with the rows they start with: [pack, rows]
    RowIds, NewIds,           \* ids of rows, those a create may give
    Given,                    \* values people type
    MaxChanges                \* bound: changes of the rows at one time

(* Endpoints are kept by their id; no record has the name of what is none.  *)
PackFits(p) ==
    /\ p.endpoints \in Seq(Range(p.endpoints)) /\ p.model \in Seq(Range(p.model))
    /\ \A i, j \in DOMAIN p.endpoints : p.endpoints[i].id = p.endpoints[j].id => i = j
    /\ Range(p.model) \cap {"none", "endpoint"} = {}

ASSUME CardsAssumption ==
    /\ MaxChanges \in Nat
    /\ NewIds \subseteq RowIds
    /\ \A st \in Starts : PackFits(st.pack)

VARIABLES
    pack,        \* the pack that is served
    rows,        \* record -> its rows
    cards,       \* what each person looks at: [card, roles, parent, answer, denied]
    born         \* history: rows created from a card under a parent, neither changed since

managerVars == <<pack, rows, cards, born>>

Away == [card |-> NoCard, roles |-> {}, parent |-> {}, answer |-> 0, denied |-> FALSE]

CardsInit(starts) ==
    /\ \E st \in starts : pack = st.pack /\ rows = st.rows
    /\ cards = [u \in Users |-> Away] /\ born = {}

RowOf(r, id) == {row \in rows[r] : row.id = id}

(* The changes made to the rows there are, for the bound.                   *)
Changes == FoldFunction(LAMBDA S, n : n + MapThenSumSet(LAMBDA row : row.ver - 1, S), 0, rows)

(* The links of a list or a detail card to a create card: below a row they  *)
(* carry the row as parent.                                                 *)
MayAdd(r, ctx, roles) ==
    IF ctx = NoParent THEN RecordAction(ManagerView(pack, roles), r, "create") # NoAction
    ELSE \E sec \in ChildSections(pack, roles, ctx.record) : sec.record = r /\ sec.add

(* A card that is left is as good as never opened.                          *)
Opened(u, answer, roles, parent) ==
    /\ answer.status = 200
    /\ cards' = [cards EXCEPT ![u] = [Away EXCEPT !.card = answer.card, !.roles = roles, !.parent = parent]]
    /\ UNCHANGED <<pack, rows, born>>

OpenCreate(u, r, ctx, roles) ==
    /\ MayAdd(r, ctx, roles)
    /\ Opened(u, CreateCard(pack, rows, roles, r, ctx), roles,
              IF ctx = NoParent THEN {} ELSE RowOf(ctx.record, ctx.id))

OpenDetail(u, r, id, roles) == Opened(u, DetailCard(pack, rows, roles, r, id), roles, {})
OpenDelete(u, r, id, roles) == Opened(u, DeleteCard(pack, rows, roles, r, id), roles, {})

(* The answer to a submit; denied is history: the control hook denied it.   *)
Answered(u, status, hook) ==
    cards' = [cards EXCEPT ![u] = [Away EXCEPT !.answer = status, !.denied = 403 \in {hook.pre, hook.post}]]

(* The members of b whose rows are as they were made, after the step.       *)
Remembered(b) ==
    {x \in b : /\ \E row \in rows'[x.record] : row.id = x.id /\ row.ver = 1
               /\ x.parent # {} /\ x.parent \subseteq rows'[x.ctx.record]}

(* The record is created; a field the form has an input for may be filled.  *)
CreateRow(u, id, filled) ==
    LET c    == cards[u].card
        data == SubmitData(pack, c, filled, 20 + id)
        at   == IF Stamped(pack, c) THEN Cardinality(UNION {rows[r] : r \in DOMAIN rows}) + 1 ELSE 0
    IN  /\ RowOf(c.record, id) = {}
        /\ rows' = [rows EXCEPT ![c.record] = @ \cup {[id |-> id, data |-> data, at |-> at, ver |-> 1]}]
        /\ born' = Remembered(IF c.parent = NoParent THEN born
                               ELSE born \cup {[record |-> c.record, id |-> id, ctx |-> c.parent,
                                                parent |-> cards[u].parent]})

(* The patch of an update: what was filled in, and generated identifiers.   *)
UpdateRow(u, filled) ==
    LET c     == cards[u].card
        patch == SubmitData(pack, c, filled, 30 + c.id)
    IN  /\ rows' = [rows EXCEPT ![c.record] =
                        {IF row.id # c.id THEN row
                         ELSE [row EXCEPT !.ver = @ + 1,
                                 !.data = [f \in DOMAIN @ |-> IF patch[f] # 0 THEN patch[f] ELSE @[f]]] : row \in @}]
        /\ born' = Remembered(born)

(* A "Record" command of the pack deletes by the business id.               *)
DeleteRow(u) ==
    LET c == cards[u].card
    IN  /\ rows' = [rows EXCEPT ![c.record] =
                        {row \in @ : IF SubmitOp(pack, c) = "remove" THEN row.data[pack.own[c.record]] # c.target
                                     ELSE row.id # c.target}]
        /\ born' = Remembered(born)

Fillings(c) ==
    {[f \in pack.names |-> 0]} \cup
    {[f \in pack.names |-> IF f = x THEN v ELSE 0] : x \in c.inputs \cap pack.names, v \in Given}

(* The submit of a card.  What the hook says of the answer comes after the  *)
(* rows are changed.                                                        *)
Submit(u) ==
    LET c  == cards[u].card
        op == SubmitOp(pack, c)
    IN  /\ c # NoCard
        /\ \E hook \in HooksOf(pack, c) :
              LET st == SubmitStatus(pack, c, cards[u].roles, hook.pre)
              IN  \/ /\ st # 200
                     /\ Answered(u, st, hook) /\ UNCHANGED <<rows, born>>
                  \/ /\ st = 200 /\ op = "create"
                     /\ Answered(u, hook.post, hook)
                     /\ \E id \in NewIds, filled \in Fillings(c) : CreateRow(u, id, filled)
                  \/ /\ st = 200 /\ op = "update"
                     /\ IF UpdateHasId(pack, c) /\ RowOf(c.record, c.id) # {}
                        THEN /\ Changes < MaxChanges
                             /\ Answered(u, hook.post, hook)
                             /\ \E filled \in Fillings(c) : UpdateRow(u, filled)
                        ELSE Answered(u, 400, Silent) /\ UNCHANGED <<rows, born>>
                  \/ /\ st = 200 /\ op \in {"delete", "remove"}
                     /\ Answered(u, hook.post, hook) /\ DeleteRow(u)
        /\ UNCHANGED pack

(* Another caller changes an identifier of a row or deletes it.             *)
ForeignUpdate(r, id, f, v) ==
    /\ RowOf(r, id) # {} /\ Changes < MaxChanges
    /\ rows' = [rows EXCEPT ![r] = {IF row.id # id THEN row
                                    ELSE [row EXCEPT !.ver = @ + 1, !.data[f] = v] : row \in @}]
    /\ born' = Remembered(born) /\ UNCHANGED <<pack, cards>>

ForeignDelete(r, id) ==
    /\ RowOf(r, id) # {}
    /\ rows' = [rows EXCEPT ![r] = @ \ RowOf(r, id)]
    /\ born' = Remembered(born) /\ UNCHANGED <<pack, cards>>

CardsNext ==
    \/ \E u \in {u \in Users : cards[u].card = NoCard}, r \in DOMAIN rows, roles \in RoleSets :
          \/ OpenCreate(u, r, NoParent, roles)
          \/ \E p \in DOMAIN rows, id \in RowIds :
                 RowOf(p, id) # {} /\ OpenCreate(u, r, [record |-> p, id |-> id], roles)
          \/ \E id \in RowIds : OpenDetail(u, r, id, roles)
          \/ \E id \in RowIds : RowOf(r, id) # {} /\ OpenDelete(u, r, id, roles)
    \/ \E u \in Users : Submit(u)
    \/ \E r \in DOMAIN rows, id \in RowIds :
          \/ \E f \in Range(pack.own), v \in Given : ForeignUpdate(r, id, f, v)
          \/ ForeignDelete(r, id)

CardsSpec == CardsInit(Starts) /\ [][CardsNext]_managerVars

-----------------------------------------------------------------------------
(* Properties                                                               *)

(* A card never offers what roles or policy then forbid: a submit with the  *)
(* roles the card was rendered for is answered 403 only when the control    *)
(* hook of the deployment denied that submit (the manager decides           *)
(* visibility with its own copy of the role rules, over its own reading of  *)
(* the pack, and does not ask the hook).                                    *)
OfferedAccepted == \A u \in Users : cards[u].answer = 403 => cards[u].denied

Pages(sorted) == {p \in 1..(Len(sorted) + 1) : \A k \in 1..(p - 1) : ListPage(sorted, k).next}

(* A record created from the create card of a row is on exactly one page of *)
(* the list below that row, as long as neither row is changed afterwards:   *)
(* the value the card writes into the child is one the list looks for, and  *)
(* Next links lead past every row once.  The parent's identifier is not the *)
(* empty string, and the parent is a direct one.                            *)
ChildListed ==
    \A b \in born :
        LET sorted == ListRows(pack, rows, b.record, b.ctx, 0)
        IN  /\ Len(HierarchyPath(pack, b.ctx.record, b.record)) = 1
            /\ \A p \in b.parent : p.data[pack.own[b.ctx.record]] # Blank
            => Cardinality({p \in Pages(sorted) :
                    \E i \in DOMAIN ListPage(sorted, p).rows : ListPage(sorted, p).rows[i].id = b.id}) = 1

=============================================================================
