-------------------------------- MODULE Impact --------------------------------
(***************************************************************************)
(* What a batch of operations affects, and how the evidence of its review  *)
(* is divided into packets (Session._analyze in application.py,            *)
(* planning.py, review_packets.py).                                        *)
(*                                                                         *)
(* A change is [base, ops, proposed]: a valid base graph, the batch of the *)
(* session in ID order, and the graph it leads to.                         *)
(***************************************************************************)
EXTENDS ReviewGraph

Ops(c, entity) == {c.ops[i] : i \in {j \in DOMAIN c.ops : c.ops[j].entity = entity}}
Direct(c)      == {op.id : op \in Ops(c, "nodes")}
Arcs(c)        == ReviewArcs(c.base) \cup ReviewArcs(c.proposed)

\* <<edge, child, parent>> of each scope edge, before or after, that the batch is about.
Rescoped(c) ==
    LET Scopes(id) == {e \in ValueAt(c.base.edges, id) \cup ValueAt(c.proposed.edges, id) : e.relationship = "scope-parent"}
    IN  UNION {{<<op.id, e.source, e.target>> : e \in Scopes(op.id)} : op \in Ops(c, "edges")}

\* Why a node is in the analysis to begin with: it is changed itself, or else what comes first
\* of its own part in a changed edge and the children that were, or will be, in its scope.
SeedPaths(c) ==
    LET itself == Direct(c) \cup {a[2] : a \in {x \in Arcs(c) : x[1] \in {op.id : op \in Ops(c, "edges")}}}
                    \cup {s[2] : s \in Rescoped(c)}
        Below(n) == {s \in Rescoped(c) : s[3] = n}
        First(n) == Sorted({s[2] : s \in Below(n)})[1]
        Edge(n)  == Sorted({s[1] : s \in {x \in Below(n) : x[2] = First(n)}})[1]
    IN  [n \in itself \cup {s[3] : s \in Rescoped(c)} |->
            IF n \in Direct(c) \/ (n \in itself /\ \A s \in Below(n) : n <= s[2])
            THEN [nodes |-> <<n>>, edges |-> <<>>, direct |-> n \in Direct(c)]
            ELSE [nodes |-> <<First(n), n>>, edges |-> <<Edge(n)>>, direct |-> FALSE]]

\* Mutants: scope is followed below changed nodes only; or upwards.
ScopeArcsDirect(c) ==
    LET within == Direct(c) \cup UNION {ToSet(Descendants(g, n)) : g \in {c.base, c.proposed}, n \in Direct(c)}
    IN  UNION {{<<e, g.edges[e].target, g.edges[e].source>> : e \in {f \in ScopeEdges(g) : g.edges[f].target \in within}}
               : g \in {c.base, c.proposed}}
ScopeArcsUp(c) ==
    UNION {{<<e, g.edges[e].source, g.edges[e].target>> : e \in ScopeEdges(g)} : g \in {c.base, c.proposed}}

\* Scope is followed from parent to child, below what was changed or given another scope.
ScopeArcs(c) ==
    LET roots  == Direct(c) \cup {s[2] : s \in Rescoped(c)}
        within == roots \cup UNION {ToSet(Descendants(g, n)) : g \in {c.base, c.proposed}, n \in roots}
    IN  UNION {{<<e, g.edges[e].target, g.edges[e].source>> : e \in {f \in ScopeEdges(g) : g.edges[f].target \in within}}
               : g \in {c.base, c.proposed}}

Path == [nodes : Seq(Int), edges : Seq(Int), direct : BOOLEAN]
Ends(paths) == {Last(p.nodes) : p \in ToSet(paths)}

\* The paths that go on from one to nodes not met so far, over the first arc to each.
Further(arcs, paths, path) ==
    LET out  == {a \in arcs : a[2] = Last(path.nodes)}
        news == Sorted({a[3] : a \in out} \ Ends(paths))
        Along(n) == [nodes |-> Append(path.nodes, n),
                     edges |-> Append(path.edges, Sorted({a[1] : a \in {x \in out : x[3] = n}})[1]), direct |-> FALSE]
    IN  [i \in DOMAIN news |-> Along(news[i])]

\* The paths that explain the affected nodes, as the search finds them.
Explanations(c) ==
    LET seeds == SeedPaths(c)
        order == Sorted(DOMAIN seeds)
        arcs  == Arcs(c) \cup ScopeArcs(c)
        search[at \in [next : Nat \ {0}, paths : Seq(Path)]] ==
            IF at.next > Len(at.paths) THEN at.paths
            ELSE search[[next |-> at.next + 1, paths |-> at.paths \o Further(arcs, at.paths, at.paths[at.next])]]
    IN  search[[next |-> 1, paths |-> [i \in DOMAIN order |-> seeds[order[i]]]]]

AffectedNodes(c) == Ends(Explanations(c))

\* The affected nodes each context node is on a lineage of.
ScopeContext(c, affected) ==
    LET Paths(n) == UNION {ToSet(Upstream(g, n)) : g \in {h \in {c.base, c.proposed} : n \in NodesOf(h)}}
    IN  [m \in UNION {Paths(n) : n \in affected} \ affected |-> {n \in affected : m \in Paths(n)}]

-----------------------------------------------------------------------------
(* Review items and their packets. *)

\* A review item is [kind, entity, id]; one global item stands for the rule evidence and diagnostics.
ReviewItems(c, affected) ==
    LET Items(kind, entity, ids) == [i \in 1 .. Cardinality(ids) |->
                                       [kind |-> kind, entity |-> entity, id |-> Sorted(ids)[i]]]
        edgeOps == {op.id : op \in Ops(c, "edges")}
    IN  [i \in DOMAIN c.ops |-> [kind |-> "operation", entity |-> c.ops[i].entity, id |-> c.ops[i].id]]
            \o Items("affectedNode", "nodes", affected) \o Items("edgeChange", "edges", edgeOps)
            \o Items("scopeContext", "nodes", DOMAIN ScopeContext(c, affected)) \o Items("disposition", "nodes", affected)
            \o <<[kind |-> "ruleEvidence", entity |-> "global", id |-> 0]>>

\* Mutant: the scope right above a node.
BranchAbove(g, n) == LET path == Upstream(g, n) IN IF Len(path) > 1 THEN <<path[2]>> ELSE <<>>

\* The top-level scope of a node: none for the purpose, or for a node without a lineage.
Branch(g, n) == LET path == Upstream(g, n) IN IF Len(path) > 1 THEN <<path[Len(path) - 1]>> ELSE <<>>

\* The packet that owns an item: a packet is named by its top-level scope, the synthesis is <<>>.
Synthesis == <<>>
Owner(c, item) ==
    LET edge  == IF item.id \in EdgesOf(c.proposed) THEN ValueAt(c.proposed.edges, item.id) ELSE ValueAt(c.base.edges, item.id)
        nodes == IF item.entity = "nodes" THEN {item.id} ELSE IF item.entity = "edges" THEN {e.source : e \in edge} ELSE {}
        Graph(n) == IF n \in NodesOf(c.proposed) THEN c.proposed ELSE c.base
        owners == {Branch(Graph(n), n) : n \in {m \in nodes : m \in NodesOf(Graph(m))}}
    IN  IF owners = {} THEN Synthesis ELSE CHOOSE o \in owners : TRUE

\* partition: the ordinals of each packet.
Partition(c, items) ==
    [packet \in {Owner(c, items[i]) : i \in DOMAIN items} \cup {Synthesis} |->
        {i \in DOMAIN items : Owner(c, items[i]) = packet}]
=============================================================================
