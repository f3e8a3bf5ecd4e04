---------------------------- MODULE GraphCommands ----------------------------
(***************************************************************************)
(* The `graph` and `evidence query` commands (lib.rs) over a pack file     *)
(* that another process may replace: each part of a command loads the file *)
(* for itself.                                                             *)
(***************************************************************************)
EXTENDS Ontology

CONSTANTS
    Ontologies,    \* what the pack file may hold: ontologies, NoOntology, BadPack
    GraphAsks,     \* the commands there are
    MaxReplaced    \* bound: replacements of the pack file

NoOntology == [kind |-> "none"]
BadPack    == [kind |-> "bad"]

GraphCmds == {"concepts", "relationships", "paths", "explain", "neighbors", "evidence"}

ASSUME GraphAssumption ==
    /\ MaxReplaced \in Nat
    /\ \A o \in Ontologies : o.kind \in {"none", "bad", "graph"}
    /\ \A a \in GraphAsks :
          /\ a.cmd \in GraphCmds /\ a.depth \in Nat
          /\ a.cmd = "evidence" => a.provider \in {"bound", "answers", "provider"}

VARIABLES
    disk,        \* the ontology in the pack file, NoOntology or BadPack
    replaced,    \* replacements of the pack file so far
    tool         \* a graph command

graphVars == <<disk, replaced, tool>>

NoTool == [pc |-> "idle", ask |-> [cmd |-> "none"], graph |-> NoOntology,
           out |-> [status |-> "none", paths |-> {}, rels |-> {}], denied |-> {}]

GraphInit(disks) == disk \in disks /\ replaced = 0 /\ tool = NoTool

ToolFails(status) == tool' = [tool EXCEPT !.pc = "failed", !.out.status = status]

(* The graph and what the command is to print.                              *)
LoadGraph ==
    /\ tool.pc = "idle"
    /\ \E a \in GraphAsks :
          LET t   == [tool EXCEPT !.ask = a, !.graph = disk]
              out == IF a.cmd = "evidence" THEN EvidenceQuery(disk, a) ELSE Resolve(disk, a)
          IN  IF disk.kind # "graph" THEN tool' = [t EXCEPT !.pc = "failed", !.out.status = "pack"]
              ELSE tool' = [t EXCEPT !.out = out, !.denied = IF a.cmd = "evidence" THEN disk.deny ELSE {},
                                     !.pc = IF out.status # "ok" THEN "failed"
                                            ELSE IF a.cmd = "evidence" THEN "printed"
                                            ELSE IF Enforced(a) THEN "enforce" ELSE "hash"]
    /\ UNCHANGED <<disk, replaced>>

(* enforce_relationship_policy_for_paths and ..._for_relationships: a pack  *)
(* without an ontology forbids nothing.                                     *)
Enforce ==
    LET ids == IdsOf(tool.out.rels \cup EdgesOn(tool.out.paths))
    IN  /\ tool.pc = "enforce"
        /\ CASE disk.kind = "bad"  -> ToolFails("pack")
             [] disk.kind = "none" -> tool' = [tool EXCEPT !.pc = "hash"]
             [] disk.kind = "graph" ->
                   IF TraversalAllowed(disk, ids)
                   THEN tool' = [tool EXCEPT !.pc = "hash", !.denied = disk.deny]
                   ELSE ToolFails("policy")
        /\ UNCHANGED <<disk, replaced>>

(* ontology_hash_from_pack, and the output.                                 *)
PrintGraph ==
    /\ tool.pc = "hash"
    /\ IF disk.kind = "graph" THEN tool' = [tool EXCEPT !.pc = "printed"] ELSE ToolFails("pack")
    /\ UNCHANGED <<disk, replaced>>

ReplacePack ==
    /\ tool.pc \in {"enforce", "hash"} /\ replaced < MaxReplaced
    /\ disk' \in Ontologies \ {disk}
    /\ replaced' = replaced + 1 /\ UNCHANGED tool

GraphNext == LoadGraph \/ Enforce \/ PrintGraph \/ ReplacePack

(* Any ontology to begin with.                                              *)
GraphSpec == GraphInit(Ontologies) /\ [][GraphNext]_graphVars

-----------------------------------------------------------------------------
(* Paths by their definition: chains of relationships, no concept twice.    *)
RefPaths(o, from, to, depth) ==
    {p \in UNION {[1..n -> Edges(o)] : n \in 1..depth} :
        /\ p[1].from = from /\ p[Len(p)].to = to
        /\ \A i \in 1..(Len(p) - 1) : p[i].to = p[i + 1].from
        /\ \A i, j \in 1..Len(p) : (i < j => p[i].to # p[j].to) /\ p[i].to # from}

(* Relationships that touch a concept less than depth steps away.           *)
RefNeighbors(o, concept, depth) ==
    LET joined(a, b) == \E e \in Edges(o) : {a, b} = {e.from, e.to}
        walks == {w \in UNION {[1..n -> o.concepts] : n \in 1..depth} :
                    w[1] = concept /\ \A i \in 1..(Len(w) - 1) : joined(w[i], w[i + 1])}
    IN  {e \in Edges(o) : \E w \in walks : w[Len(w)] \in {e.from, e.to}}

(* A graph command prints the paths and relationships within the depth, all *)
(* of them and nothing else, and uses none that the policy it read denies;  *)
(* the paths of an evidence query, on which the policy is not asked, keep   *)
(* to the relationships of its scope, on which it was (find_type_paths,     *)
(* neighbors, run_evidence_query).                                          *)
GraphExact ==
    tool.pc = "printed" =>
        LET o == tool.graph
            a == tool.ask
            paths == tool.out.paths
            rels  == tool.out.rels
        IN  /\ a.cmd \in {"paths", "explain"} => paths = RefPaths(o, a.from, a.to, a.depth)
            /\ a.cmd \in {"neighbors", "evidence"} => rels = RefNeighbors(o, a.from, a.depth)
            /\ a.cmd = "evidence" =>
                  /\ paths = UNION {RefPaths(o, a.from, c, a.depth) : c \in o.concepts \ {a.from}}
                  /\ EdgesOn(paths) \subseteq rels
            /\ Enforced(a) => IdsOf(rels \cup EdgesOn(paths)) \cap tool.denied = {}

=============================================================================
