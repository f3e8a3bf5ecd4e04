------------------------------ MODULE Ontology ------------------------------
(***************************************************************************)
(* The ontology graph of a pack (ontology_graph.rs), the traversal policy  *)
(* (policy.rs) and what the `graph` and `evidence query` commands make of  *)
(* them (lib.rs).                                                          *)
(*                                                                         *)
(* ontology: [concepts, rels, deny, approval]                              *)
(*   rels      sequence of [id, from, to]; an end that is not given is     *)
(*             NoEnd                                                       *)
(*   deny      ids in policy.deny_relationships                            *)
(*   approval  policy.evidence_requires_approval                           *)
(***************************************************************************)
EXTENDS Naturals, Sequences, FiniteSets, Functions

NoEnd == "no_end"

(* OntologyGraphService::new: of relationships that share an id the last    *)
(* one stays.                                                               *)
Edges(o) ==
    {o.rels[i] : i \in {i \in DOMAIN o.rels : \A j \in DOMAIN o.rels : j > i => o.rels[j].id # o.rels[i].id}}

(* ontology_graph_service_from_ontology, then the ends that are no concept. *)
GraphFits(o) ==
    /\ \A i \in DOMAIN o.rels : NoEnd \notin {o.rels[i].from, o.rels[i].to}
    /\ \A e \in Edges(o) : {e.from, e.to} \subseteq o.concepts

-----------------------------------------------------------------------------
(* find_type_paths.  A path is a sequence of relationships; it is extended  *)
(* by one that leads to a concept not yet on it, and no further once it has *)
(* met the target.  The search goes depth first, and sorts what it found:   *)
(* the paths of n relationships are here those of n - 1, extended.          *)
PathEnd(from, p)      == IF p = << >> THEN from ELSE p[Len(p)].to
Visited(from, p) == {from} \cup {p[i].to : i \in DOMAIN p}

Extended(edges, from, target, paths) ==
    {Append(pe[1], pe[2]) : pe \in
        {pe \in paths \X edges : /\ pe[1] = << >> \/ PathEnd(from, pe[1]) # target
                                 /\ pe[2].from = PathEnd(from, pe[1])
                                 /\ pe[2].to \notin Visited(from, pe[1])}}

Walks(edges, from, target, depth) ==
    LET walks[n \in 0 .. depth] ==
            IF n = 0 THEN {<< >>} ELSE Extended(edges, from, target, walks[n - 1])
    IN  walks

FindTypePaths(o, from, to, depth) ==
    {p \in UNION {Walks(Edges(o), from, to, depth)[n] : n \in 1 .. depth} : PathEnd(from, p) = to}

(* neighbors: breadth first along edges in either direction.  A round that  *)
(* finds no new concept is the last: it would leave the next nothing to do. *)
Touching(edges, concepts) == {e \in edges : {e.from, e.to} \cap concepts # {}}
Touched(edges, concepts)  == UNION {{e.from, e.to} : e \in Touching(edges, concepts)}

(* The concepts found after each round, and those that are new in it.       *)
Rounds(edges, concept, depth) ==
    LET rounds[n \in 0 .. depth] ==
            IF n = 0 THEN [seen |-> {concept}, new |-> {concept}]
            ELSE LET last == rounds[n - 1]
                     next == Touched(edges, last.new)
                 IN  [seen |-> last.seen \cup next, new |-> next \ last.seen]
    IN  rounds

(* Slip: the last round is left out.                                        *)
NeighborsShort(o, concept, depth) ==
    UNION {Touching(Edges(o), Rounds(Edges(o), concept, depth)[n].new) : n \in 0 .. (depth - 2)}

Neighbors(o, concept, depth) ==
    UNION {Touching(Edges(o), Rounds(Edges(o), concept, depth)[n].new) : n \in 0 .. (depth - 1)}

-----------------------------------------------------------------------------
(* decide_ontology, for the two questions that are asked: nobody asks about *)
(* fields or actions.                                                       *)
DecideRelationship(o, id) == IF id \in o.deny THEN "deny" ELSE "allow"
DecideEvidence(o)         == IF o.approval THEN "requires_approval" ELSE "allow"

(* enforce_relationship_policy_for_relationships_from_ontology              *)
TraversalAllowed(o, ids) == \A id \in ids : DecideRelationship(o, id) = "allow"

IdsOf(edges) == {e.id : e \in edges}
EdgesOn(paths) == UNION {Range(p) : p \in paths}

(* What a command holds before it asks the policy: an error, or what it     *)
(* will print.  `concepts` and `relationships` print the graph itself.      *)
Found(status, paths, rels) == [status |-> status, paths |-> paths, rels |-> rels]

Resolve(o, ask) ==
    IF ~GraphFits(o) THEN Found("pack", {}, {})
    ELSE CASE ask.cmd \in {"concepts", "relationships"} -> Found("ok", {}, Edges(o))
           [] ask.cmd \in {"paths", "explain"} ->
                 IF {ask.from, ask.to} \subseteq o.concepts
                 THEN Found("ok", FindTypePaths(o, ask.from, ask.to, ask.depth), {})
                 ELSE Found("pack", {}, {})
           [] ask.cmd = "neighbors" ->
                 IF ask.from \in o.concepts THEN Found("ok", {}, Neighbors(o, ask.from, ask.depth))
                 ELSE Found("pack", {}, {})

Enforced(ask) == ask.cmd \notin {"concepts", "relationships"}

(* run_evidence_query: the answers and the provider bound to evidence       *)
(* (ask.provider says how they fail), the graph, the policy for evidence,   *)
(* the policy for the relationships in scope, and the paths from the        *)
(* entity's concept to every other one, of which the policy is not asked    *)
(* again.                                                                   *)
EvidenceQuery(o, ask) ==
    LET rels  == Neighbors(o, ask.from, ask.depth)
        paths == UNION {FindTypePaths(o, ask.from, c, ask.depth) : c \in o.concepts \ {ask.from}}
    IN  IF ask.provider # "bound" THEN Found(ask.provider, {}, {})
        ELSE IF ~GraphFits(o) \/ ask.from \notin o.concepts THEN Found("pack", {}, {})
        ELSE IF DecideEvidence(o) # "allow" \/ ~TraversalAllowed(o, IdsOf(rels)) THEN Found("policy", {}, {})
        ELSE Found("ok", paths, rels)

=============================================================================
