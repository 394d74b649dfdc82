----------------------------- MODULE ReviewGraph -----------------------------
(***************************************************************************)
(* The project graph: its index, structural validation, and the projection *)
(* of a batch of operations (models.py, validation.py).                    *)
(*                                                                         *)
(* IDs are numbers, in their ordinal order.  A graph maps the IDs of its   *)
(* nodes and of its edges to their records: storage keys them by ID, so    *)
(* the duplicate-ID diagnostics have no counterpart, while one ID may name *)
(* a node and an edge.  An edge is a scope-parent edge (child to parent)   *)
(* or has another relationship, and a review direction.  An optional value *)
(* is a set with at most one element.                                      *)
(***************************************************************************)
EXTENDS Integers, Sequences, FiniteSets, SequencesExt

NodesOf(g) == DOMAIN g.nodes
EdgesOf(g) == DOMAIN g.edges
Sorted(S)  == [i \in 1 .. Cardinality(S) |-> CHOOSE k \in S : Cardinality({m \in S : m < k}) = i - 1]
ValueAt(f, id) == {f[k] : k \in {id} \cap DOMAIN f}

ScopeEdges(g) == {e \in EdgesOf(g) : g.edges[e].relationship = "scope-parent"}
ScopeParents(g, n)  == {e \in ScopeEdges(g) : g.edges[e].source = n}
ScopeChildren(g, n) ==
    {g.edges[e].source : e \in {f \in ScopeEdges(g) : g.edges[f].target = n}}

\* <<edge, from, to>>: what is reviewed when from changes.
ReviewArcs(g) ==
    LET Along(dirs) == {e \in EdgesOf(g) \ ScopeEdges(g) : g.edges[e].direction \in dirs}
    IN  {<<e, g.edges[e].source, g.edges[e].target>> : e \in Along({"sourceToTarget", "both"})}
            \cup {<<e, g.edges[e].target, g.edges[e].source>> : e \in Along({"targetToSource", "both"})}

\* The IDs taken from a queue, once each, when an ID queues its step.
Visited(start, step) ==
    LET visit[at \in [queue : Seq(Int), seen : Seq(Int)]] ==
            IF at.queue = <<>> THEN at.seen
            ELSE IF Head(at.queue) \in ToSet(at.seen) THEN visit[[queue |-> Tail(at.queue), seen |-> at.seen]]
            ELSE visit[[queue |-> Tail(at.queue) \o step[Head(at.queue)], seen |-> Append(at.seen, Head(at.queue))]]
    IN  visit[[queue |-> start, seen |-> <<>>]]

\* Mutant: the node itself counts as met.
DescendantsOnly(g, n) == Tail(Visited(<<n>>, [m \in Int |-> Sorted(ScopeChildren(g, m))]))
Descendants(g, n) == LET children == [m \in Int |-> Sorted(ScopeChildren(g, m))] IN Visited(children[n], children)

\* A node, its scope parent, and so on, for as long as there is exactly one.
Upstream(g, n) ==
    LET parent == [m \in Int |-> IF Cardinality(ScopeParents(g, m)) = 1
                                 THEN <<g.edges[CHOOSE e \in ScopeParents(g, m) : TRUE].target>> ELSE <<>>]
    IN  Visited(<<n>>, parent)

\* Mutant: a node with one parent is taken to reach the purpose.
LineageUnwalked(g, n) ==
    IF n = g.purpose \/ Cardinality(ScopeParents(g, n)) = 1 THEN "reached" ELSE "scope-does-not-reach-purpose"

\* How the scope lineage of a node ends.
Lineage(g, n) ==
    LET walk[at \in [node : Int, seen : SUBSET Int]] ==
            IF at.node = g.purpose THEN "reached"
            ELSE IF at.node \in at.seen THEN "scope-cycle"
            ELSE IF Cardinality(ScopeParents(g, at.node)) # 1 THEN "scope-does-not-reach-purpose"
            ELSE LET parent == g.edges[CHOOSE e \in ScopeParents(g, at.node) : TRUE].target
                 IN  IF parent \in NodesOf(g) THEN walk[[node |-> parent, seen |-> at.seen \cup {at.node}]]
                                              ELSE "scope-does-not-reach-purpose"
    IN  walk[[node |-> n, seen |-> {}]]

Diagnostics(g) ==
    LET Found(code, ids) == {<<code, id>> : id \in ids}
        parents(n) == Cardinality(ScopeParents(g, n))
    IN  UNION {
          Found("entity-id-collision", NodesOf(g) \cap EdgesOf(g)),
          Found("missing-edge-source", {e \in EdgesOf(g) : g.edges[e].source \notin NodesOf(g)}),
          Found("missing-edge-target", {e \in EdgesOf(g) : g.edges[e].target \notin NodesOf(g)}),
          Found("missing-purpose-node", {g.purpose} \ NodesOf(g)),
          Found("multiple-scope-parents", {n \in {g.edges[e].source : e \in ScopeEdges(g)} : parents(n) > 1}),
          Found("scope-parent-review-direction", {e \in ScopeEdges(g) : g.edges[e].direction # "none"}),
          Found("purpose-has-scope-parent", ScopeParents(g, g.purpose)),
          Found("missing-scope-parent", {n \in NodesOf(g) \ {g.purpose} : parents(n) = 0}),
          UNION {Found(Lineage(g, n), {n}) : n \in {m \in NodesOf(g) : Lineage(g, m) # "reached"}} }

IsValid(g) == Diagnostics(g) = {}

\* What that means: the scope edges are a tree below the purpose, and no edge dangles.
ScopeClosed(g, S) == \A e \in ScopeEdges(g) : g.edges[e].target \in S => g.edges[e].source \in S
ScopeTree(g) ==
    /\ NodesOf(g) \cap EdgesOf(g) = {}
    /\ \A e \in EdgesOf(g) : {g.edges[e].source, g.edges[e].target} \subseteq NodesOf(g)
    /\ \A e \in ScopeEdges(g) : g.edges[e].direction = "none"
    /\ Cardinality(ScopeEdges(g)) = Cardinality(NodesOf(g)) - 1
    /\ g.purpose \in NodesOf(g)
    /\ \A S \in SUBSET NodesOf(g) : g.purpose \in S /\ ScopeClosed(g, S) => S = NodesOf(g)

-----------------------------------------------------------------------------
(* An operation is [kind, entity, id, value]: entity names the map it is    *)
(* for, value is ignored by a removal.  What a batch does is optional: a    *)
(* refused batch does nothing.                                             *)

Other(entity) == IF entity = "nodes" THEN "edges" ELSE "nodes"

\* Mutant: both ends of an edge must be there already.
AdmitsJoined(g, op) ==
    /\ op.id \notin DOMAIN g[Other(op.entity)]
    /\ op.kind = "add" <=> op.id \notin DOMAIN g[op.entity]
    /\ op.entity = "edges" /\ op.kind # "remove" => {op.value.source, op.value.target} \subseteq NodesOf(g)
Admits(g, op) == /\ op.id \notin DOMAIN g[Other(op.entity)]
                 /\ op.kind = "add" <=> op.id \notin DOMAIN g[op.entity]

Changed(g, op) ==
    LET f == g[op.entity]
    IN  [g EXCEPT ![op.entity] = IF op.kind = "remove" THEN [k \in DOMAIN f \ {op.id} |-> f[k]]
                                 ELSE [k \in DOMAIN f \cup {op.id} |-> IF k = op.id THEN op.value ELSE f[k]]]

\* What models.py makes of a graph, of an operation and of several.
IsGraph(g) ==
    g = [purpose |-> g.purpose, nodes |-> [k \in NodesOf(g) |-> g.nodes[k]], edges |-> [k \in EdgesOf(g) |-> g.edges[k]]]
IsOperation(op) == op.entity \in {"nodes", "edges"} /\ op.id \in Int
IsManifest(ops) ==
    Len(ops) \in Nat /\ DOMAIN ops = 1 .. Len(ops) /\ \A i \in 1 .. Len(ops) : IsOperation(ops[i])

\* The batch in the order it is applied in, whatever order it was given in.
OperationBatch(ops) ==
    LET ids == Sorted({ops[i].id : i \in DOMAIN ops})
    IN  IF \E i, j \in DOMAIN ops : i # j /\ ops[i].id = ops[j].id THEN {}
        ELSE {[i \in DOMAIN ids |-> CHOOSE op \in ToSet(ops) : op.id = ids[i]]}

\* The graph after each operation of a batch, for as long as they are admitted.
Stages(g, batch) ==
    LET after[i \in 0 .. Len(batch)] ==
            IF i = 0 THEN {g} ELSE {Changed(h, batch[i]) : h \in {x \in after[i - 1] : Admits(x, batch[i])}}
    IN  after

ProjectGraph(g, ops) ==
    IF NodesOf(g) \cap EdgesOf(g) # {} THEN {}
    ELSE UNION {Stages(g, batch)[Len(batch)] : batch \in OperationBatch(ops)}

\* The operations that turn one graph into another, nodes before edges.
OperationsBetween(before, after) ==
    LET Between(entity) ==
            LET old == before[entity]
                new == after[entity]
                changed == {id \in DOMAIN old \cup DOMAIN new : ValueAt(old, id) # ValueAt(new, id)}
                op(id) == IF id \notin DOMAIN old THEN [kind |-> "add", entity |-> entity, id |-> id, value |-> new[id]]
                          ELSE IF id \notin DOMAIN new THEN [kind |-> "remove", entity |-> entity, id |-> id, value |-> old[id]]
                          ELSE [kind |-> "replace", entity |-> entity, id |-> id, value |-> new[id]]
            IN  [i \in 1 .. Cardinality(changed) |-> op(Sorted(changed)[i])]
    IN  Between("nodes") \o Between("edges")
=============================================================================
