-------------------------------- MODULE Reads --------------------------------
(***************************************************************************)
(* The read commands that traverse a graph, with their depth limits and    *)
(* the omissions they report, and the pages of their results (queries.py). *)
(* A depth limit is optional.  The node asked about exists.                *)
(***************************************************************************)
EXTENDS ReviewGraph

\* Mutant: a limit that is reached counts as passed.
BeyondAt(depth, limit) == \E m \in limit : depth >= m
Beyond(depth, limit) == \E m \in limit : depth > m

\* Mutant: the offset is the position of the last item shown.
PageAgain(items, signature, limit, cursor) ==
    IF \E c \in cursor : c.signature # signature \/ c.offset > Len(items) THEN {}
    ELSE LET offset == IF cursor = {} THEN 0 ELSE (CHOOSE c \in cursor : TRUE).offset + 1
             end == IF offset + limit < Len(items) THEN offset + limit ELSE Len(items)
         IN  {[items |-> SubSeq(items, offset + 1, end),
               next |-> {c \in {[signature |-> signature, offset |-> end]} : end < Len(items)}]}

\* _page: the items from the offset a cursor carries, and the cursor for the rest.
Page(items, signature, limit, cursor) ==
    IF \E c \in cursor : c.signature # signature \/ c.offset > Len(items) THEN {}
    ELSE LET offset == IF cursor = {} THEN 0 ELSE (CHOOSE c \in cursor : TRUE).offset
             end == IF offset + limit < Len(items) THEN offset + limit ELSE Len(items)
         IN  {[items |-> SubSeq(items, offset + 1, end),
               next |-> {c \in {[signature |-> signature, offset |-> end]} : end < Len(items)}]}

\* A lineage up to a depth: the nodes, and whether the limit cut it.
Ancestry(g, n, limit) ==
    LET path == Upstream(g, n)
        \* The traversal goes on from the last node to one it has met before.
        again == Cardinality(ScopeParents(g, Last(path))) = 1
        shown == {i \in DOMAIN path : ~Beyond(i - 1, limit)}
    IN  [nodes |-> SubSeq(path, 1, Cardinality(shown)), cut |-> Beyond(IF again THEN Len(path) ELSE Len(path) - 1, limit)]

\* What is queued for a node, and what a traversal goes on with after the first in the queue.
Entries(g, n, depth) ==
    LET children == Sorted(ScopeChildren(g, n))
    IN  [i \in 1 .. Cardinality(ScopeChildren(g, n)) |-> [node |-> children[i], depth |-> depth]]
Descended(g, limit, at) ==
    LET first == Head(at.queue)
        rest  == Tail(at.queue)
    IN  IF Beyond(first.depth, limit) THEN [queue |-> rest, seen |-> at.seen, cut |-> TRUE]
        ELSE IF first.node \in ToSet(at.seen) THEN [queue |-> rest, seen |-> at.seen, cut |-> at.cut]
        ELSE [queue |-> rest \o Entries(g, first.node, first.depth + 1), seen |-> Append(at.seen, first.node), cut |-> at.cut]

\* Queries.scope: what is above a node and what is below it, breadth first.
Scope(g, n, limit) ==
    LET descend[at \in [queue : Seq([node : Int, depth : Nat]), seen : Seq(Int), cut : BOOLEAN]] ==
            IF at.queue = <<>> THEN at ELSE descend[Descended(g, limit, at)]
        below == descend[[queue |-> Entries(g, n, 1), seen |-> <<n>>, cut |-> FALSE]]
        above == Ancestry(g, n, limit)
    IN  [upstream |-> Tail(above.nodes), descendants |-> Tail(below.seen), omitted |-> above.cut \/ below.cut]

\* Queries.context: the lineages of several nodes together.
Context(g, nodes, limit) ==
    [context |-> UNION {ToSet(Ancestry(g, n, limit).nodes) : n \in nodes},
     omitted |-> \E n \in nodes : Ancestry(g, n, limit).cut]

\* What a search goes on with after the next node it has found: the nodes this one is the first
\* to lead to, each found with its path, or nothing when their depth is past the limit.
Searched(g, limit, at) ==
    LET from == at.found[at.next]
        out  == {a \in ReviewArcs(g) : a[2] = Last(from.nodes)}
        new  == {a[3] : a \in out} \ {Last(at.found[i].nodes) : i \in DOMAIN at.found}
        Arc(n) == Sorted({a[1] : a \in {x \in out : x[3] = n}})[1]
        Reached(n) == [nodes |-> Append(from.nodes, n), edges |-> Append(from.edges, Arc(n))]
        past == out # {} /\ Beyond(Len(from.edges) + 1, limit)
    IN  [found |-> IF past THEN at.found ELSE at.found \o [i \in 1 .. Cardinality(new) |-> Reached(Sorted(new)[i])],
         next  |-> at.next + 1,
         cut   |-> at.cut \/ past]

\* The entries for the target, of which there is at most one.
Hits(found, target) == {found[i] : i \in {k \in DOMAIN found : Last(found[k].nodes) = target}}

\* Queries.path: breadth first along review arcs, until the target is found.
PathBetween(g, source, target, limit) ==
    LET search[at \in [found : Seq([nodes : Seq(Int), edges : Seq(Int)]), next : Nat \ {0}, cut : BOOLEAN]] ==
            IF at.next > Len(at.found) \/ Hits(at.found, target) # {} THEN at ELSE search[Searched(g, limit, at)]
        result == search[[found |-> <<[nodes |-> <<source>>, edges |-> <<>>]>>, next |-> 1, cut |-> FALSE]]
    IN  [path |-> Hits(result.found, target), omitted |-> result.cut]
=============================================================================
