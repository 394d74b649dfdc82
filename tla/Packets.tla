------------------------------- MODULE Packets -------------------------------
(***************************************************************************)
(* What a review packet holds (PacketReview.packet_items in                *)
(* review_packets.py).                                                     *)
(*                                                                         *)
(* A packet owns ordinals of the evidence of a change, shows some of the   *)
(* synthesis besides, and gives the context of both: dependencies and      *)
(* their ends with their lineages, in the graph before and the one after.  *)
(***************************************************************************)
EXTENDS Impact

Lineages(g, nodes) == UNION {ToSet(Upstream(g, n)) : n \in nodes \cap NodesOf(g)}

EntityIds(items, ordinals, entity) == {items[i].id : i \in {j \in ordinals : items[j].entity = entity}}

\* Repeated for each branch, though the synthesis owns it.
SharedOrdinals(items, ownership, packet) ==
    IF packet = Synthesis THEN {} ELSE {i \in ownership[Synthesis] : items[i].kind = "operation"}

\* The edges of a graph that concern some nodes.  Scope must not fan out through siblings.
EdgesAbout(g, nodes, edges) ==
    {e \in EdgesOf(g) : /\ e \in edges \/ {g.edges[e].source, g.edges[e].target} \cap nodes # {}
                        /\ e \in ScopeEdges(g) => g.edges[e].source \in nodes}

\* The edges, other than scope, between nodes that packets share differently.
CrossEdges(c, items, ownership) ==
    LET owned == [packet \in DOMAIN ownership |-> EntityIds(items, ownership[packet], "nodes")]
        Owners(n) == {packet \in DOMAIN ownership : n \in owned[packet]}
    IN  UNION {{e \in EdgesOf(g) \ ScopeEdges(g) :
                   LET left  == Owners(g.edges[e].source)
                       right == Owners(g.edges[e].target)
                   IN  left # {} /\ right # {} /\ left # right} : g \in {c.base, c.proposed}}

\* Mutant: only what is there in the new graph is looked at.
ContextAfter(c, items, ownership, packet) ==
    LET own   == ownership[packet]
        nodes == Lineages(c.proposed, EntityIds(items, own \cup SharedOrdinals(items, ownership, packet), "nodes"))
        dependencies == EdgesAbout(c.proposed, nodes, EntityIds(items, own, "edges")) \cup CrossEdges(c, items, ownership)
        ends == UNION {{e.source, e.target} : e \in UNION {ValueAt(c.proposed.edges, d) : d \in dependencies}}
    IN  [dependencies |-> dependencies, nodes |-> Lineages(c.proposed, nodes \cup ends)]

\* The dependencies a packet shows, and the nodes.
PacketContext(c, items, ownership, packet) ==
    LET own == ownership[packet]
        start  == EntityIds(items, own \cup SharedOrdinals(items, ownership, packet), "nodes")
        before == start \cup Lineages(c.base, start)
        after  == before \cup Lineages(c.proposed, before)
        \* As the loop goes: the new graph is looked at with what the old one added.
        old == EdgesAbout(c.base, before, EntityIds(items, own, "edges"))
        dependencies == EntityIds(items, own, "edges") \cup old \cup EdgesAbout(c.proposed, after, EntityIds(items, own, "edges") \cup old)
                          \cup (IF packet = Synthesis THEN CrossEdges(c, items, ownership) ELSE {})
        ends  == UNION {{e.source, e.target} : e \in UNION {ValueAt(g.edges, d) : g \in {c.base, c.proposed}, d \in dependencies}}
        shown == after \cup ends \cup Lineages(c.base, after \cup ends)
    IN  [dependencies |-> dependencies, nodes |-> shown \cup Lineages(c.proposed, shown)]
=============================================================================
