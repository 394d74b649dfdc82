------------------------------ MODULE Conditions ------------------------------
(***************************************************************************)
(* What rules ask of the nodes and edges they have selected: where edges   *)
(* lead, whether they form a cycle or a single chain (rules.py).           *)
(* A selection is a set of <<"nodes", id>> and <<"edges", id>>.            *)
(***************************************************************************)
EXTENDS ReviewGraph

NodeIds(selection) == {item[2] : item \in {x \in selection : x[1] = "nodes"}}
EdgeRecords(g, selection) == {<<item[2], g.edges[item[2]]>> : item \in {x \in selection : x[1] = "edges"}}
Inside(g, nodes, edges) == {e \in EdgeRecords(g, edges) : {e[2].source, e[2].target} \subseteq NodeIds(nodes)}

\* What is reached from the selected nodes along the selected edges.
Reachable(g, starts, edges, direction, includeStart) ==
    LET arcs == {IF direction = "incoming" THEN <<e[2].target, e[2].source>> ELSE <<e[2].source, e[2].target>>
                 : e \in EdgeRecords(g, edges)}
        Targets(n) == {a[2] : a \in {x \in arcs : x[1] = n}} \cap NodesOf(g)
        taken == ToSet(Visited(Sorted(NodeIds(starts)), [n \in Int |-> Sorted(Targets(n))]))
    IN  (IF includeStart THEN starts ELSE {}) \cup ({"nodes"} \X UNION {Targets(n) : n \in taken})

\* The calls of visit in progress are a path, each for a target of the one before; a call visits,
\* in some order, the targets that are not done with, and the first is for any selected node.
Ways(ids, arcs, at) ==
    (IF at.path = <<>> THEN ids ELSE {a[2] : a \in {x \in arcs : x[1] = Last(at.path)}}) \ at.done
Looping(path) == \E i \in DOMAIN path : i < Len(path) /\ path[i] = Last(path)
Visiting(ids, arcs, at) ==
    IF Ways(ids, arcs, at) = {} THEN [path |-> Front(at.path), done |-> at.done \cup {Last(at.path)}]
    ELSE [path |-> Append(at.path, CHOOSE n \in Ways(ids, arcs, at) : TRUE), done |-> at.done]

\* _has_cycle: depth first, until a node is visited that is being visited, or all are done.
HasCycle(g, nodes, edges) ==
    LET ids  == NodeIds(nodes)
        arcs == {<<e[2].source, e[2].target>> : e \in Inside(g, nodes, edges)}
        visit[at \in [path : Seq(Int), done : SUBSET Int]] ==
            IF Looping(at.path) THEN TRUE
            ELSE IF at.path = <<>> /\ Ways(ids, arcs, at) = {} THEN FALSE
            ELSE visit[Visiting(ids, arcs, at)]
    IN  visit[[path |-> <<>>, done |-> {}]]

\* Mutant: cycles are not looked for.
SingleChainOrLoops(g, nodes, edges) ==
    LET ids == NodeIds(nodes)
        selected == Inside(g, nodes, edges)
        Incoming(n) == Cardinality({e \in selected : e[2].target = n})
        Outgoing(n) == Cardinality({e \in selected : e[2].source = n})
    IN  ids # {} => /\ Cardinality(selected) = Cardinality(ids) - 1
                    /\ Cardinality({n \in ids : Incoming(n) = 0}) = 1
                    /\ Cardinality({n \in ids : Outgoing(n) = 0}) = 1
                    /\ \A n \in ids : Incoming(n) <= 1 /\ Outgoing(n) <= 1

\* _single_chain
SingleChain(g, nodes, edges) ==
    LET ids == NodeIds(nodes)
        selected == Inside(g, nodes, edges)
        Incoming(n) == Cardinality({e \in selected : e[2].target = n})
        Outgoing(n) == Cardinality({e \in selected : e[2].source = n})
    IN  /\ ~HasCycle(g, nodes, edges)
        /\ ids # {} => /\ Cardinality(selected) = Cardinality(ids) - 1
                       /\ Cardinality({n \in ids : Incoming(n) = 0}) = 1
                       /\ Cardinality({n \in ids : Outgoing(n) = 0}) = 1
                       /\ \A n \in ids : Incoming(n) <= 1 /\ Outgoing(n) <= 1
===============================================================================
