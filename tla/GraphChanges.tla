----------------------------- MODULE GraphChanges -----------------------------
(***************************************************************************)
(* A change that grows by patches (Application.apply), and a graph someone *)
(* else made of the same base: what comes out of batches, of merges and of *)
(* the packets of the change.                                              *)
(***************************************************************************)
EXTENDS Packets, ThreeWay, Reads, Conditions

CONSTANTS
    Base,            \* the graphs a change may begin with
    Edit, TheirEdit, \* the operations either side may patch its graph with
    MaxMine, MaxTheirs     \* bounds on the entities each side changes

\* A change begins with a project that storage loaded; IDs are numbers.
ASSUME BaseAssumption ==
    \A g \in Base : IsGraph(g) /\ IsValid(g) /\ \A S \in {NodesOf(g), EdgesOf(g)} : S \subseteq Int /\ IsFiniteSet(S)
ASSUME EditAssumption == \A op \in Edit \cup TheirEdit :
    /\ IsOperation(op)
    /\ op.entity = "edges" /\ op.kind # "remove" => {op.value.source, op.value.target} \subseteq Int

VARIABLES
    base,        \* Session.base.graph
    mine,        \* Session.operations
    proposed,    \* Session.proposed
    theirs       \* a graph someone else made of the same base

vars == <<base, mine, proposed, theirs>>

Init == base \in Base /\ mine = <<>> /\ proposed = base /\ theirs = base

\* change.patch: Application.apply, which refuses what the base does not admit.
Patch(op) ==
    \E patched \in ProjectGraph(proposed, <<op>>) :
        LET ops == OperationsBetween(base, patched)
        IN  /\ Len(ops) <= MaxMine
            /\ mine' \in OperationBatch(ops) /\ proposed' \in ProjectGraph(base, ops)
            /\ UNCHANGED <<base, theirs>>

PatchTheirs(op) ==
    /\ theirs' \in ProjectGraph(theirs, <<op>>)
    /\ Len(OperationsBetween(base, theirs')) <= MaxTheirs
    /\ UNCHANGED <<base, mine, proposed>>

Next == (\E op \in Edit : Patch(op)) \/ (\E op \in TheirEdit : PatchTheirs(op))
Spec == Init /\ [][Next]_vars

Change == [base |-> base, ops |-> mine, proposed |-> proposed]
NotMerging == theirs = base
\* The one review of the session, made once for all that reads it.
Reviews == {ReviewItems(Change, affected) : affected \in {AffectedNodes(Change)}}

-----------------------------------------------------------------------------
(* Properties. *)

\* A graph is accepted exactly when its scope edges form a tree below the purpose, whatever
\* cycles, second parents and dangling edges a batch leaves (validate_graph).
ValidIsScopeTree == IsValid(proposed) <=> ScopeTree(proposed)

\* Both traversals of the scope end and are complete on any graph, cyclic ones included: the
\* descendants are the least set that holds the children and is closed; in a valid graph the
\* traversals are each other's inverse (GraphIndex.descendants and upstream).
ClosuresAgree ==
    NotMerging => \A n \in NodesOf(proposed) :
        LET down == ToSet(Descendants(proposed, n))
            Below(S) == ScopeChildren(proposed, n) \subseteq S /\ ScopeClosed(proposed, S)
        IN  /\ Below(down) /\ \A S \in SUBSET down : Below(S) => S = down
            /\ IsValid(proposed) => \A m \in NodesOf(proposed) \ {n} :
                  m \in ToSet(Upstream(proposed, n)) <=> n \in ToSet(Descendants(proposed, m))

\* The records on the lineage of a node.
History(g, n) == LET path == Upstream(g, n) IN [i \in DOMAIN path |-> <<path[i], ValueAt(g.nodes, path[i])>>]

\* What a reviewer must judge: every node whose record changed, or whose lineage runs over
\* other nodes or other records than before, and every node a review arc leads to from an
\* affected one, in either graph (Session._analyze).
ImpactCovers ==
    NotMerging /\ IsValid(proposed) =>
        LET affected == AffectedNodes(Change)
        IN  /\ \A n \in NodesOf(base) \cup NodesOf(proposed) : History(base, n) # History(proposed, n) => n \in affected
            /\ \A arc \in Arcs(Change) : arc[2] \in affected => arc[3] \in affected

\* An explanation is a path a reader can follow: from a changed node, an end of a changed edge
\* or a child whose scope changed, each step goes along a review arc or down a scope edge of one
\* of the graphs; only the first may go up, over the scope edge that was changed.
ExplanationsHold ==
    NotMerging => \A p \in ToSet(Explanations(Change)) :
        LET touched == {op.id : op \in Ops(Change, "edges")}
            ends == UNION {UNION {{g.edges[e].source, g.edges[e].target} : e \in touched \cap EdgesOf(g)} : g \in {base, proposed}}
            Step(g, i) ==
                LET e == p.edges[i]
                    m == p.nodes[i]
                    n == p.nodes[i + 1]
                IN  \/ <<e, m, n>> \in ReviewArcs(g)
                    \/ e \in ScopeEdges(g) /\ g.edges[e].target = m /\ g.edges[e].source = n
                    \/ i = 1 /\ e \in touched \cap ScopeEdges(g) /\ g.edges[e].source = m /\ g.edges[e].target = n
        IN  /\ Head(p.nodes) \in Direct(Change) \cup ends
            /\ Len(p.nodes) = Len(p.edges) + 1
            /\ \A i \in DOMAIN p.edges : \E g \in {base, proposed} : Step(g, i)
            /\ p.direct <=> Last(p.nodes) \in Direct(Change)

\* Applying the operations of a batch one at a time, in any order, makes the graph the whole
\* batch makes (project_graph sorts a batch; _operations_between made it from patches).
OrderDoesNotMatter ==
    NotMerging => \A order \in SetToSeqs(ToSet(mine)) : Stages(base, order)[Len(order)] = {proposed}

\* Packets divide the review without loss: each ordinal has one owner, a node and the nodes of
\* its lineage below the purpose have the same one, and so has an edge with its source (partition).
PacketsFollowScope ==
    NotMerging /\ IsValid(proposed) => \A items \in Reviews : \A packets \in {Partition(Change, items)} :
        LET Kept(entity) == {i \in DOMAIN items : items[i].entity = entity /\ items[i].id \in DOMAIN proposed[entity]}
            Together(i, j) == Owner(Change, items[i]) = Owner(Change, items[j])
        IN  /\ \A i \in DOMAIN items : Cardinality({s \in DOMAIN packets : i \in packets[s]}) = 1
            /\ \A i, j \in Kept("nodes") :
                  items[j].id \in ToSet(Upstream(proposed, items[i].id)) \ {proposed.purpose} => Together(i, j)
            /\ \A i \in Kept("edges"), j \in Kept("nodes") : items[j].id = proposed.edges[items[i].id].source => Together(i, j)

\* A packet shows, of the old graph and the new one, each dependency of a node it owns, and for
\* these nodes and the ends of every dependency shown the whole lineage; what joins nodes of two
\* packets is shown by the synthesis (PacketReview.packet_items).
PacketsShowContext ==
    NotMerging /\ IsValid(proposed) => \A items \in Reviews : \A ownership \in {Partition(Change, items)} :
        LET owned == [p \in DOMAIN ownership |-> EntityIds(items, ownership[p], "nodes")]
            Shows(p) ==
                \A context \in {PacketContext(Change, items, ownership, p)} : \A g \in {base, proposed} :
                      LET ends == UNION {{g.edges[d].source, g.edges[d].target} : d \in context.dependencies \cap EdgesOf(g)}
                      IN  /\ \A e \in EdgesOf(g) \ ScopeEdges(g) :
                                {g.edges[e].source, g.edges[e].target} \cap owned[p] # {} => e \in context.dependencies
                          /\ \A n \in ends \cup owned[p] : \A h \in {base, proposed} :
                                n \in NodesOf(h) => ToSet(Upstream(h, n)) \subseteq context.nodes
                          /\ p = Synthesis => \A e \in EdgesOf(g) \ ScopeEdges(g) : \A q, r \in DOMAIN ownership :
                                q # r /\ g.edges[e].source \in owned[q] /\ g.edges[e].target \in owned[r]
                                    => e \in context.dependencies
        IN  \A p \in DOMAIN ownership : Shows(p)

\* A merge takes what either side changed, is the same seen from the other side, and its
\* operations turn our graph into it; sides that changed different entities, and
\* none into one of the other kind, merge into the graph that both batches make, one after the
\* other (merge_projects).
MergeTakesBothSides ==
    LET merge   == MergeProjects(base, proposed, theirs)
        flipped == MergeProjects(base, theirs, proposed)
        Batch(g) == OperationsBetween(base, g)
        apart == /\ {op.id : op \in ToSet(mine)} \cap {op.id : op \in ToSet(Batch(theirs))} = {}
                 /\ ProjectGraph(base, Batch(theirs)) # {}
    IN  /\ merge.status = flipped.status
        /\ merge.status # "conflicted" =>
              /\ merge.merged = flipped.merged
              /\ ProjectGraph(proposed, merge.operations) = {merge.merged}
              /\ \A g \in {proposed, theirs} : \A op \in ToSet(Batch(g)) :
                    ValueAt(merge.merged[op.entity], op.id) = ValueAt(g[op.entity], op.id)
        /\ apart => /\ merge.status # "conflicted"
                    /\ ProjectGraph(proposed, Batch(theirs)) = {merge.merged}

\* Following the cursors of a bulk plan gives every operation once, in the order of the manifest:
\* each chunk turns the graph of those before it into the graph of those up to its end, both of
\* them valid, and a plan that is given can be followed to the end (plan_bulk).
ChunksCompose ==
    NotMerging => \A manifest \in SetToSeqs(ToSet(mine)) : \A size \in 1 .. 2 :
        LET Plan(start) == PlanBulk(base, manifest, size, start)
            UpTo(i) == ProjectGraph(base, SubSeq(manifest, 1, i))
        IN  /\ UpTo(Len(manifest)) = {proposed}
            /\ \A start \in 0 .. Len(manifest) - 1 : \A plan \in Plan(start) : \E end \in start + 1 .. Len(manifest) :
                  /\ plan.operations = SubSeq(manifest, start + 1, end)
                  /\ plan.next = {end} \ {Len(manifest)}
                  /\ \A n \in plan.next \cup {0} : Plan(n) # {}
                  /\ \E g \in UpTo(start), h \in UpTo(end) :
                        IsValid(g) /\ IsValid(h) /\ UpTo(start) = {g} /\ ProjectGraph(g, plan.operations) = UpTo(end)

\* Numbers of arcs of paths that visit no more nodes than there are.
Distances(g, source, target) ==
    {k \in 0 .. Cardinality(NodesOf(g)) - 1 :
        \E p \in [1 .. k + 1 -> NodesOf(g)] : p[1] = source /\ p[k + 1] = target
           /\ \A i \in 1 .. k : \E a \in ReviewArcs(g) : a[2] = p[i] /\ a[3] = p[i + 1]}

\* read.path finds a shortest path along review arcs whenever the depth limit allows one, and a
\* path not found without an omission does not exist (Queries.path).
PathsAreShortest ==
    NotMerging /\ IsValid(proposed) => \A m, n \in NodesOf(proposed) :
        \A all \in {Distances(proposed, m, n)} : \A limit \in {{}, {0}, {1}, {2}} :
        LET answer == PathBetween(proposed, m, n, limit)
            lengths == {k \in all : ~Beyond(k, limit)}
        IN  /\ lengths = {} <=> answer.path = {}
            /\ \A p \in answer.path :
                  /\ Len(p.edges) \in lengths /\ \A k \in lengths : Len(p.edges) <= k
                  /\ p.nodes[1] = m /\ p.nodes[Len(p.edges) + 1] = n
                  /\ \A i \in DOMAIN p.edges : <<p.edges[i], p.nodes[i], p.nodes[i + 1]>> \in ReviewArcs(proposed)
            /\ answer.path = {} /\ ~answer.omitted => all = {}

\* All that a reader is given who follows the cursors of a read.
Turned(items, size) ==
    LET PageAt(cursor) == Page(items, "scope", size, cursor)
        First(pages) == CHOOSE p \in pages : TRUE
        turn[at \in [given : Seq(Int), next : SUBSET [signature : {"scope"}, offset : Nat]]] ==
            IF at.next = {} \/ PageAt(at.next) = {} THEN at.given
            ELSE turn[[given |-> at.given \o First(PageAt(at.next)).items, next |-> First(PageAt(at.next)).next]]
    IN  turn[[given |-> First(PageAt({})).items, next |-> First(PageAt({})).next]]

\* read.scope and read.context show the whole lineage and subtree of a node, or say that they
\* left something out; pages of any sizes show each result once (Queries.scope, _page).
ScopeReadsAreComplete ==
    NotMerging /\ IsValid(proposed) => \A n \in NodesOf(proposed) : \A limit \in {{}, {0}, {1}, {2}} :
        LET read == Scope(proposed, n, limit)
            lineage == Context(proposed, {n, proposed.purpose}, limit)
            above == Tail(Upstream(proposed, n))
            below == Descendants(proposed, n)
        IN  /\ IsPrefix(read.upstream, above) /\ ToSet(read.descendants) \subseteq ToSet(below)
            /\ read.omitted <=> (read.upstream # above \/ ToSet(read.descendants) # ToSet(below))
            /\ lineage.context = {proposed.purpose, n} \cup ToSet(read.upstream)
            /\ lineage.omitted <=> read.upstream # above
            /\ \A size \in 1 .. 2 : Turned(read.descendants, size) = read.descendants

\* The graph conditions of the rule language say what their names say: acyclic, a single chain,
\* and reachability, in either direction, along any choice of nodes and edges.
ConditionsMatch ==
    NotMerging => \A S \in SUBSET NodesOf(proposed) :
        \A E \in {EdgesOf(proposed), ScopeEdges(proposed), EdgesOf(proposed) \ ScopeEdges(proposed)} :
            LET nodes == {"nodes"} \X S
                edges == {"edges"} \X E
                inside == {e \in E : {proposed.edges[e].source, proposed.edges[e].target} \subseteq S}
                Step(p, e, i) == proposed.edges[e].source = p[i] /\ proposed.edges[e].target = p[i + 1]
                Reach(n, direction) == NodeIds(Reachable(proposed, {<<"nodes", n>>}, edges, direction, FALSE))
            IN  /\ HasCycle(proposed, nodes, edges) <=>
                      \E T \in SUBSET S : T # {} /\ \A n \in T : \E e \in inside :
                          proposed.edges[e].source = n /\ proposed.edges[e].target \in T
                /\ SingleChain(proposed, nodes, edges) <=>
                      \E p \in SetToSeqs(S) :
                          /\ \A i \in 1 .. Len(p) - 1 : \E e \in inside : Step(p, e, i)
                          /\ Cardinality(inside) = IF S = {} THEN 0 ELSE Cardinality(S) - 1
                /\ \A m, n \in S : n \in Reach(m, "outgoing") <=> m \in Reach(n, "incoming")
===============================================================================
