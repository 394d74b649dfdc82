-------------------------- MODULE SqliteStoreProofs --------------------------
(***************************************************************************)
(* Theorems about SqliteStore.                                             *)
(***************************************************************************)
EXTENDS SqliteStore, ReviewGraphProofs

-----------------------------------------------------------------------------
(* The statements of a transaction. *)

\* What a valid graph owes the constraints of the schema.
LEMMA ValidMeans ==
    ASSUME NEW g, IsValid(g)
    PROVE  /\ g.purpose \in NodesOf(g)
           /\ \A e \in EdgesOf(g) : g.edges[e].source \in NodesOf(g) /\ g.edges[e].target \in NodesOf(g)
           /\ \A e \in ScopeEdges(g) : ~(Cardinality(ScopeParents(g, g.edges[e].source)) > 1)
<1> DEFINE Found(code, ids) == {<<code, id>> : id \in ids}
           purpose == {g.purpose} \ NodesOf(g)
           sources == {e \in EdgesOf(g) : g.edges[e].source \notin NodesOf(g)}
           targets == {e \in EdgesOf(g) : g.edges[e].target \notin NodesOf(g)}
           many    == {n \in {g.edges[e].source : e \in ScopeEdges(g)} : Cardinality(ScopeParents(g, n)) > 1}
<1>1. /\ Found("missing-purpose-node", purpose) \subseteq Diagnostics(g)
      /\ Found("missing-edge-source", sources) \subseteq Diagnostics(g)
      /\ Found("missing-edge-target", targets) \subseteq Diagnostics(g)
      /\ Found("multiple-scope-parents", many) \subseteq Diagnostics(g)
  BY DEF Diagnostics
<1> HIDE DEF purpose, sources, targets, many
<1>2. purpose = {} /\ sources = {} /\ targets = {} /\ many = {}
  BY <1>1 DEF IsValid
<1> QED
  BY <1>2 DEF purpose, sources, targets, many

\* Deleting and then writing makes of each ID what the operations say of it.
LEMMA LoopsMake ==
    ASSUME NEW f, NEW ops, Apart(ops), NEW gone,
           gone \subseteq {op.id : op \in ops}, \A op \in ops : op.kind = "remove" => op.id \in gone
    PROVE  With(Without(f, gone), {op \in ops : op.kind # "remove"}) = Made(f, ops)
<1> DEFINE written == {op \in ops : op.kind # "remove"}
           left == Without(f, gone)
           a == With(left, written)
           b == Made(f, ops)
<1>1. DOMAIN left = DOMAIN f \ gone /\ \A k \in DOMAIN left : left[k] = f[k]
  BY DEF Without
<1>2. /\ DOMAIN a = DOMAIN left \cup {op.id : op \in written}
      /\ a = [k \in DOMAIN a |-> a[k]]
      /\ \A k \in DOMAIN a : a[k] = IF \E op \in written : op.id = k THEN (CHOOSE op \in written : op.id = k).value ELSE left[k]
  BY DEF With
<1>3. IsMade(b, f, ops)
  BY MadeValue
<1> HIDE DEF a, b, left
<1>4. DOMAIN a = DOMAIN b
  <2>1. ASSUME NEW k PROVE k \in DOMAIN a <=> k \in DOMAIN b
    BY <1>1, <1>2, <1>3 DEF IsMade, Apart
  <2> QED
    BY <2>1
<1>5. ASSUME NEW k \in DOMAIN a PROVE a[k] = b[k]
  <2>1. CASE \E op \in written : op.id = k
    <3>1. PICK op \in written : op.id = k
      BY <2>1
    <3>2. (CHOOSE o \in written : o.id = k) = op
      BY <3>1 DEF Apart
    <3>3. a[k] = op.value
      BY <1>2, <1>5, <3>1, <3>2
    <3>4. b[k] = op.value
      BY <1>3, <1>4, <1>5, <3>1 DEF IsMade
    <3> QED
      BY <3>3, <3>4
  <2>2. CASE ~ \E op \in written : op.id = k
    <3>1. k \in DOMAIN left
      BY <1>2, <1>5, <2>2
    <3>2. \A op \in ops : op.id # k
      BY <1>1, <2>2, <3>1
    <3>3. a[k] = f[k]
      BY <1>1, <1>2, <1>5, <2>2, <3>1
    <3>4. b[k] = f[k]
      BY <1>3, <1>4, <1>5, <3>2 DEF IsMade
    <3> QED
      BY <3>3, <3>4
  <2> QED
    BY <2>1, <2>2
<1>6. a = b
  BY <1>2, <1>3, <1>4, <1>5 DEF IsMade
<1> QED
  BY <1>6 DEF a, b, left

LEMMA ManifestFacts ==
    ASSUME NEW ops, IsManifest(ops), Distinct(ops)
    PROVE  /\ Apart(ToSet(ops))
           /\ \A op \in ToSet(ops) : op.entity \in {"nodes", "edges"}
<1>1. ToSet(ops) = {ops[i] : i \in 1 .. Len(ops)}
  BY DEF ToSet, IsManifest
<1> QED
  BY <1>1 DEF IsManifest, IsOperation, Distinct, Apart

LEMMA ResultIsGraph ==
    ASSUME NEW g, NEW ops, Apart(ops)
    PROVE  IsGraph(ResultOf(g, ops))
<1> DEFINE N == Made(g.nodes, Of(ops, "nodes"))
           E == Made(g.edges, Of(ops, "edges"))
<1>1. Apart(Of(ops, "nodes")) /\ Apart(Of(ops, "edges"))
  BY DEF Apart, Of
<1>2. N = [k \in DOMAIN N |-> N[k]] /\ E = [k \in DOMAIN E |-> E[k]]
  BY <1>1, MadeValue DEF IsMade
<1>3. ResultOf(g, ops) = [purpose |-> g.purpose, nodes |-> N, edges |-> E]
  BY DEF ResultOf
<1> HIDE DEF N, E
<1> QED
  BY <1>2, <1>3 DEF IsGraph, NodesOf, EdgesOf

\* The loops of a transaction make exactly the graph that was proposed, if that is valid: no
\* constraint refuses a statement half way (write).
THEOREM TransactionIsExact ==
    ASSUME NEW g, IsGraph(g), NEW ops, IsManifest(ops), NEW h \in ProjectGraph(g, ops), IsValid(h)
    PROVE  IsGraph(h) /\ Executed(g, ToSet(ops)) = {h}
<1> DEFINE O == ToSet(ops)
           N == Of(O, "nodes")
           E == Of(O, "edges")
           edgesGone == {op.id : op \in {o \in O : o.entity = "edges" /\ o.kind # "add"}}
           nodesGone == {op.id : op \in {o \in O : o.entity = "nodes" /\ o.kind = "remove"}}
           nodesWritten == {o \in O : o.entity = "nodes" /\ o.kind # "remove"}
           edgesWritten == {o \in O : o.entity = "edges" /\ o.kind # "remove"}
           edgesLeft == Without(g.edges, edgesGone)
           nodesLeft == Without(g.nodes, nodesGone)
           one   == [purpose |-> g.purpose, nodes |-> g.nodes, edges |-> edgesLeft]
           two   == [purpose |-> g.purpose, nodes |-> nodesLeft, edges |-> edgesLeft]
           three == [purpose |-> g.purpose, nodes |-> h.nodes, edges |-> edgesLeft]
<1>1. /\ Distinct(ops) /\ h = ResultOf(g, O) /\ \A op \in O : Admits(g, op)
  BY ProjectionIsExact
<1>2. /\ Apart(O) /\ Apart(N) /\ Apart(E)
      /\ \A op \in O : op.entity \in {"nodes", "edges"}
  BY <1>1, ManifestFacts DEF Apart, Of
<1>3. IsGraph(h) /\ h.purpose = g.purpose /\ h.nodes = Made(g.nodes, N) /\ h.edges = Made(g.edges, E)
  BY <1>1, <1>2, ResultIsGraph DEF ResultOf
<1>4. IsMade(h.nodes, g.nodes, N) /\ IsMade(h.edges, g.edges, E)
  BY <1>2, <1>3, MadeValue
<1>5. g = [purpose |-> g.purpose, nodes |-> g.nodes, edges |-> g.edges]
  <2>1. g.nodes = [k \in NodesOf(g) |-> g.nodes[k]] /\ g.edges = [k \in EdgesOf(g) |-> g.edges[k]]
    BY DEF IsGraph
  <2> QED
    BY <2>1 DEF IsGraph
<1>h. h = [purpose |-> g.purpose, nodes |-> h.nodes, edges |-> h.edges]
  BY <1>1 DEF ResultOf
<1>v. /\ h.purpose \in NodesOf(h)
      /\ \A e \in EdgesOf(h) : h.edges[e].source \in NodesOf(h) /\ h.edges[e].target \in NodesOf(h)
      /\ \A e \in ScopeEdges(h) : ~(Cardinality(ScopeParents(h, h.edges[e].source)) > 1)
  BY ValidMeans
<1>a. /\ \A op \in E : op.kind = "add" <=> op.id \notin DOMAIN g.edges
      /\ \A op \in N : op.kind = "add" <=> op.id \notin DOMAIN g.nodes
  BY <1>1 DEF Admits, Of
<1>l. /\ DOMAIN edgesLeft = DOMAIN g.edges \ edgesGone /\ \A e \in DOMAIN edgesLeft : edgesLeft[e] = g.edges[e]
      /\ DOMAIN nodesLeft = DOMAIN g.nodes \ nodesGone
  BY DEF Without
<1>w. /\ edgesWritten = {op \in E : op.kind # "remove"}
      /\ nodesWritten = {op \in N : op.kind # "remove"}
  BY DEF Of
<1>6. With(nodesLeft, nodesWritten) = h.nodes
  <2>1. /\ nodesGone \subseteq {op.id : op \in N}
        /\ \A op \in N : op.kind = "remove" => op.id \in nodesGone
    BY DEF Of
  <2> HIDE DEF nodesGone, nodesWritten, N, O
  <2> QED
    BY <1>2, <1>3, <1>w, <2>1, LoopsMake
<1>7. With(edgesLeft, edgesWritten) = h.edges
  <2>1. /\ edgesGone \subseteq {op.id : op \in E}
        /\ \A op \in E : op.kind = "remove" => op.id \in edgesGone
    BY DEF Of
  <2> HIDE DEF edgesGone, edgesWritten, E, O
  <2> QED
    BY <1>2, <1>3, <1>w, <2>1, LoopsMake
<1>8. ASSUME NEW e \in DOMAIN edgesLeft PROVE e \in EdgesOf(h) /\ h.edges[e] = g.edges[e]
  <2>1. e \in DOMAIN g.edges /\ \A op \in E : op.id # e
    <3>1. e \in DOMAIN g.edges /\ \A op \in E : op.kind # "add" => op.id # e
      BY <1>l, <1>8 DEF Of
    <3> QED
      BY <1>a, <3>1
  <2> QED
    BY <1>4, <2>1 DEF IsMade, EdgesOf
<1>9. \A id \in nodesGone : id \notin NodesOf(h)
  <2>1. \A id \in nodesGone : \E op \in N : op.id = id /\ op.kind = "remove"
    BY DEF Of
  <2> HIDE DEF nodesGone
  <2> QED
    BY <1>4, <2>1 DEF IsMade, NodesOf
<1>10. DeleteEdges(g, O) = {one}
  <2> HIDE DEF O
  <2>1. DeleteEdges(g, O) = {[g EXCEPT !.edges = edgesLeft]}
    BY DEF DeleteEdges
  <2> HIDE DEF edgesLeft
  <2> QED
    BY <1>5, <2>1
<1>11. DeleteNodes(one, O) = {two}
  <2> DEFINE held == {one.purpose} \cup UNION {{one.edges[e].source, one.edges[e].target} : e \in EdgesOf(one)}
  <2>1. held \subseteq NodesOf(h)
    <3>1. one.purpose = g.purpose /\ one.edges = edgesLeft /\ EdgesOf(one) = DOMAIN edgesLeft
      BY DEF EdgesOf
    <3>2. ASSUME NEW e \in DOMAIN edgesLeft
          PROVE  edgesLeft[e].source \in NodesOf(h) /\ edgesLeft[e].target \in NodesOf(h)
      BY <1>8, <1>l, <1>v
    <3> HIDE DEF one, edgesLeft
    <3> QED
      BY <1>3, <1>v, <3>1, <3>2
  <2>2. nodesGone \cap held = {}
    <3> HIDE DEF nodesGone, held
    <3> QED
      BY <1>9, <2>1
  <2>3. DeleteNodes(one, O) = IF nodesGone \cap held # {} THEN {} ELSE {[one EXCEPT !.nodes = nodesLeft]}
    <3> HIDE DEF O, edgesLeft
    <3> QED
      BY DEF DeleteNodes
  <2> HIDE DEF nodesGone, held, nodesLeft, edgesLeft
  <2> QED
    BY <2>2, <2>3
<1>12. WriteNodes(two, O) = {three}
  <2>1. \A op \in nodesWritten : op.kind = "add" => op.id \notin DOMAIN nodesLeft
    BY <1>a, <1>l, <1>w
  <2>2. \A op \in nodesWritten : op.kind = "add" \/ op.id \in DOMAIN nodesLeft
    <3> SUFFICES ASSUME NEW op \in nodesWritten, op.kind # "add" PROVE op.id \in DOMAIN nodesLeft
      OBVIOUS
    <3>1. op \in N /\ op.kind # "remove" /\ op.id \in DOMAIN g.nodes
      BY <1>a, <1>w
    <3>2. op.id \notin nodesGone
      BY <1>2, <3>1 DEF Apart, Of
    <3> QED
      BY <1>l, <3>1, <3>2
  <2>3. NodesOf(two) = DOMAIN nodesLeft
    BY DEF NodesOf
  <2>4. {op \in nodesWritten : op.kind = "add" \/ op.id \in NodesOf(two)} = nodesWritten
    BY <2>2, <2>3
  <2>5. WriteNodes(two, O) = {[two EXCEPT !.nodes = With(two.nodes, nodesWritten)]}
    <3>1. ~ \E op \in nodesWritten : op.kind = "add" /\ op.id \in NodesOf(two)
      BY <2>1, <2>3
    <3> HIDE DEF two
    <3> QED
      BY <2>4, <3>1 DEF WriteNodes
  <2> HIDE DEF nodesLeft, edgesLeft, nodesWritten, O
  <2> QED
    BY <1>6, <2>5
<1>13. InsertEdges(three, O) = {h}
  <2>1. [three EXCEPT !.edges = With(three.edges, edgesWritten)] = h
    <3> HIDE DEF edgesLeft, edgesWritten, O
    <3> QED
      BY <1>7, <1>h
  <2>2. ASSUME NEW op \in edgesWritten
        PROVE  /\ op.id \notin EdgesOf(three)
               /\ {op.value.source, op.value.target} \subseteq NodesOf(three)
               /\ op.value.relationship = "scope-parent" => ~(Cardinality(ScopeParents(h, op.value.source)) > 1)
    <3>1. op \in E /\ op.kind # "remove"
      BY <1>w
    <3>2. op.id \notin EdgesOf(three)
      <4>1. EdgesOf(three) = DOMAIN edgesLeft
        BY DEF EdgesOf
      <4>2. op.kind # "add" => op.id \in edgesGone
        BY <3>1 DEF Of
      <4> QED
        BY <1>a, <1>l, <3>1, <4>1, <4>2
    <3>3. op.id \in EdgesOf(h) /\ h.edges[op.id] = op.value
      <4>1. \A o \in E : o.id = op.id => o = op
        BY <1>2, <3>1 DEF Apart
      <4> HIDE DEF E
      <4> QED
        BY <1>4, <3>1, <4>1 DEF IsMade, EdgesOf
    <3>4. NodesOf(three) = NodesOf(h)
      BY DEF NodesOf
    <3>5. {op.value.source, op.value.target} \subseteq NodesOf(three)
      BY <1>v, <3>3, <3>4
    <3>6. op.value.relationship = "scope-parent" => op.id \in ScopeEdges(h)
      BY <3>3 DEF ScopeEdges
    <3> HIDE DEF three
    <3> QED
      BY <1>v, <3>2, <3>3, <3>5, <3>6
  <2> HIDE DEF three
  <2> QED
    BY <2>1, <2>2 DEF InsertEdges
<1> HIDE DEF one, two, three
<1>14. Executed(g, O) = {h}
  <2>1. UNION {DeleteNodes(k, O) : k \in DeleteEdges(g, O)} = {two}
    BY <1>10, <1>11
  <2>2. UNION {WriteNodes(k, O) : k \in {two}} = {three}
    BY <1>12
  <2>3. UNION {InsertEdges(k, O) : k \in {three}} = {h}
    BY <1>13
  <2> QED
    BY <2>1, <2>2, <2>3 DEF Executed
<1> QED
  BY <1>3, <1>14

-----------------------------------------------------------------------------
(* The inductive invariant. *)

Fields == {"op", "at", "path", "ops", "base", "proposed", "row", "nodes", "read", "tables"}
One(S) == \A x, y \in S : x = y
Project(g) == IsGraph(g) /\ IsValid(g)
Sound(db)  == Project(db.graph) /\ db = Db(db.graph)

\* At most one database at a path, and each holds a valid graph with its fingerprint.
FilesSound ==
    /\ files = [path \in Path |-> files[path]]
    /\ \A path \in Path : One(files[path]) /\ \A db \in files[path] : Sound(db)

\* What a load has read is a graph that its project row was the fingerprint of.
ReadSound(k) ==
    /\ One(k.row) /\ \A db \in k.row : Sound(db)
    /\ One(k.read) /\ \A g \in k.read : Project(g) /\ \E db \in k.row : db.graph = g
    /\ k.at \in {"project", "nodes", "edges"} => k.read = {}

\* A write past its checks has one base, and proposes a valid graph its batch makes of it.
Proposes(k) ==
    \E b \in k.base, g \in k.proposed :
        /\ k.base = {b} /\ k.proposed = {g}
        /\ IsGraph(b) /\ g \in ProjectGraph(b, k.ops) /\ IsValid(g)
WriteSound(k) ==
    /\ k.op = "write" => IsManifest(k.ops)
    /\ k.at \in {"preflight", "ready", "begun", "executed"} => k.op = "write"
    /\ k.at \in {"ready", "begun", "executed"} => Proposes(k)
    /\ k.at = "begun" => k.tables = k.base
    /\ k.at = "executed" => k.tables = k.proposed
    /\ k.at = "publish" => \A g \in k.tables : Project(g)

Fine(k) == DOMAIN k = Fields /\ k.path \in Path /\ ReadSound(k) /\ WriteSound(k)
CallsSound == call = [c \in Client |-> call[c]] /\ \A c \in Client : Fine(call[c])

InTransaction(c) == call[c].at \in {"begun", "executed"}

\* A transaction has its database to itself, which is still the base of the write.
Isolated ==
    /\ \A c \in Client : InTransaction(c) => files[call[c].path] = {Db(b) : b \in call[c].base}
    /\ \A c, d \in Client : InTransaction(c) /\ InTransaction(d) /\ call[c].path = call[d].path => c = d

IInv == FilesSound /\ CallsSound /\ Isolated

\* A call that has just begun has read nothing and has no transaction.
LEMMA NewCall ==
    ASSUME NEW op, op # "write", NEW path \in Path, NEW at \in {"idle", "project", "publish"}
    PROVE  Fine(Call(op, path, at)) /\ Call(op, path, at).at \notin {"begun", "executed"}
<1> SUFFICES ASSUME NEW k, k = Call(op, path, at) PROVE Fine(k) /\ k.at \notin {"begun", "executed"}
  OBVIOUS
<1>1. /\ DOMAIN k = Fields /\ k.op = op /\ k.path = path /\ k.at = at
      /\ k.row = {} /\ k.read = {} /\ k.tables = {}
  BY DEF Call, Fields
<1> QED
  BY <1>1 DEF Fine, ReadSound, WriteSound, One

\* A step of one client that leaves the databases alone.
LEMMA OneCall ==
    ASSUME IInv, NEW c \in Client, NEW k, Fine(k), call' = [call EXCEPT ![c] = k], files' = files,
           k.at \in {"begun", "executed"} =>
               /\ files[k.path] = {Db(b) : b \in k.base}
               /\ \A d \in Client : d # c /\ InTransaction(d) => call[d].path # k.path
    PROVE  IInv'
<1>1. FilesSound'
  BY DEF IInv, FilesSound
<1>2. call' = [d \in Client |-> call'[d]] /\ call'[c] = k /\ \A d \in Client : d # c => call'[d] = call[d]
  BY DEF IInv, CallsSound
<1>3. CallsSound'
  BY <1>2 DEF IInv, CallsSound
<1>4. Isolated'
  <2>1. ASSUME NEW d \in Client, InTransaction(d)'
        PROVE  files'[call'[d].path] = {Db(b) : b \in call'[d].base}
    BY <1>2, <2>1 DEF IInv, Isolated, InTransaction
  <2>2. ASSUME NEW d \in Client, NEW e \in Client, InTransaction(d)', InTransaction(e)', call'[d].path = call'[e].path
        PROVE  d = e
    BY <1>2, <2>2 DEF IInv, Isolated, InTransaction
  <2> QED
    BY <2>1, <2>2 DEF Isolated
<1> QED
  BY <1>1, <1>3, <1>4 DEF IInv

\* The invariant holds to begin with.
LEMMA InitHolds == Init => IInv
<1> SUFFICES ASSUME Init PROVE IInv
  OBVIOUS
<1>1. ASSUME NEW path \in Path PROVE files[path] = {} \/ files[path] = {Db(Start.graph)}
  BY DEF Init
<1>2. Sound(Db(Start.graph))
  BY StartAssumption DEF Sound, Project, Db
<1>3. FilesSound
  BY <1>1, <1>2 DEF FilesSound, One, Init
<1>4. call = [c \in Client |-> Idle] /\ Fine(Idle) /\ Idle.at \notin {"begun", "executed"}
  BY NewCall, StartAssumption DEF Init, Idle
<1>5. \A c \in Client : call[c] = Idle
  BY <1>4
<1>6. CallsSound
  BY <1>4, <1>5 DEF CallsSound
<1>7. Isolated
  BY <1>4, <1>5 DEF Isolated, InTransaction
<1> QED
  BY <1>3, <1>6, <1>7 DEF IInv

\* What a load reads is what its project row is the fingerprint of.
LEMMA ReadIsRow ==
    ASSUME NEW row, Sound(row), NEW graph, Verified(row, graph)
    PROVE  Project(graph) /\ row.graph = graph
BY DEF Sound, Verified, Db, Project

\* The steps of a load.
LEMMA LoadKeeps ==
    ASSUME IInv, NEW c \in Client, LoadProject(c) \/ LoadNodes(c) \/ LoadEdges(c)
    PROVE  IInv'
<1>0. Fine(call[c]) /\ FilesSound
  BY DEF IInv, CallsSound
<1>1. CASE LoadProject(c)
  <2>1. PICK db \in files[call[c].path] : call' = [call EXCEPT ![c] = [call[c] EXCEPT !.at = "nodes", !.row = {db}]]
    BY <1>1 DEF LoadProject, Go
  <2>2. Sound(db) /\ call[c].read = {} /\ files' = files
    BY <1>0, <1>1 DEF LoadProject, FilesSound, Fine, ReadSound, At
  <2> DEFINE k == [call[c] EXCEPT !.at = "nodes", !.row = {db}]
  <2>3. /\ DOMAIN k = Fields /\ k.op = call[c].op /\ k.path = call[c].path /\ k.at = "nodes" /\ k.row = {db}
        /\ k.read = call[c].read /\ k.ops = call[c].ops
    BY <1>0 DEF Fine, Fields
  <2> HIDE DEF k
  <2>4. Fine(k)
    BY <1>0, <2>2, <2>3 DEF Fine, ReadSound, WriteSound, One
  <2>5. call' = [call EXCEPT ![c] = k]
    BY <2>1 DEF k
  <2> QED
    BY <2>2, <2>3, <2>4, <2>5, OneCall
<1>2. CASE LoadNodes(c)
  <2>1. PICK db \in files[call[c].path] :
          call' = [call EXCEPT ![c] = [call[c] EXCEPT !.at = "edges", !.nodes = {db.graph.nodes}]]
    BY <1>2 DEF LoadNodes, Go
  <2>2. call[c].read = {} /\ files' = files
    BY <1>0, <1>2 DEF LoadNodes, Fine, ReadSound, At
  <2> DEFINE k == [call[c] EXCEPT !.at = "edges", !.nodes = {db.graph.nodes}]
  <2>3. /\ DOMAIN k = Fields /\ k.op = call[c].op /\ k.path = call[c].path /\ k.at = "edges" /\ k.row = call[c].row
        /\ k.read = call[c].read /\ k.ops = call[c].ops
    BY <1>0 DEF Fine, Fields
  <2> HIDE DEF k
  <2>4. Fine(k)
    BY <1>0, <2>2, <2>3 DEF Fine, ReadSound, WriteSound, One
  <2>5. call' = [call EXCEPT ![c] = k]
    BY <2>1 DEF k
  <2> QED
    BY <2>2, <2>3, <2>4, <2>5, OneCall
<1>3. CASE LoadEdges(c)
  <2>1. PICK row, graph :
          /\ row \in call[c].row /\ Verified(row, graph)
          /\ call' = [call EXCEPT ![c] = [call[c] EXCEPT !.at = After(call[c].op), !.nodes = {}, !.read = {graph}]]
    BY <1>3 DEF LoadEdges, Go
  <2>2. files' = files
    BY <1>3 DEF LoadEdges
  <2>3. One(call[c].row) /\ Sound(row) /\ Project(graph) /\ row.graph = graph
    BY <1>0, <2>1, ReadIsRow DEF Fine, ReadSound
  <2> DEFINE k == [call[c] EXCEPT !.at = After(call[c].op), !.nodes = {}, !.read = {graph}]
  <2>4. /\ DOMAIN k = Fields /\ k.op = call[c].op /\ k.path = call[c].path /\ k.at = After(call[c].op)
        /\ k.row = call[c].row /\ k.read = {graph} /\ k.ops = call[c].ops
    BY <1>0 DEF Fine, Fields
  <2> HIDE DEF k
  <2>5. k.at \in {"preflight", "copy", "holds"} /\ (k.at = "preflight" => k.op = "write")
    BY <2>4 DEF After
  <2>6. ReadSound(k)
    BY <1>0, <2>1, <2>3, <2>4, <2>5 DEF Fine, ReadSound, One
  <2>7. WriteSound(k)
    BY <1>0, <2>4, <2>5 DEF Fine, WriteSound
  <2>8. call' = [call EXCEPT ![c] = k]
    BY <2>1 DEF k
  <2> QED
    BY <1>0, <2>2, <2>4, <2>5, <2>6, <2>7, <2>8, OneCall DEF Fine
<1> QED
  BY <1>1, <1>2, <1>3

\* The steps that begin a call, or end it for nothing.
LEMMA CallKeeps ==
    ASSUME IInv, NEW c \in Client, NEW path \in Path,
           Load(c, path) \/ Backup(c, path) \/ Abandon(c)
    PROVE  IInv'
<1>1. files' = files
  BY DEF Load, Backup, Abandon
<1>2. PICK k : Fine(k) /\ k.at \notin {"begun", "executed"} /\ call' = [call EXCEPT ![c] = k]
  BY NewCall, StartAssumption DEF Load, Backup, Abandon, Go, Idle
<1> QED
  BY <1>1, <1>2, OneCall

\* A file is about to be published: it is a valid graph.
LEMMA CreateKeeps ==
    ASSUME IInv, NEW c \in Client, NEW path \in Path,
           Copy(c, path) \/ \E g \in New : Initialize(c, path, g)
    PROVE  IInv'
<1>1. files' = files
  BY DEF Copy, Initialize
<1>2. PICK op, g : /\ op # "write" /\ Project(g)
                   /\ call' = [call EXCEPT ![c] = [Call(op, path, "publish") EXCEPT !.tables = {g}]]
  <2>1. CASE Copy(c, path)
    <3>1. call[c].path \in Path
      BY DEF IInv, CallsSound, Fine
    <3>2. PICK db \in files[call[c].path] : call' = [call EXCEPT ![c] = [Call("copied", path, "publish") EXCEPT !.tables = {db.graph}]]
      BY <2>1 DEF Copy, Go
    <3>3. Project(db.graph)
      BY <3>1, <3>2 DEF IInv, FilesSound, Sound
    <3> QED
      BY <3>2, <3>3
  <2>2. CASE \E g \in New : Initialize(c, path, g)
    <3>1. PICK g \in New : IsValid(g) /\ call' = [call EXCEPT ![c] = [Call("initialize", path, "publish") EXCEPT !.tables = {g}]]
      BY <2>2 DEF Initialize, Go
    <3>2. Project(g)
      BY <3>1, InputAssumption DEF Project
    <3> QED
      BY <3>1, <3>2
  <2> QED
    BY <2>1, <2>2
<1> DEFINE k == [Call(op, path, "publish") EXCEPT !.tables = {g}]
<1>3. /\ DOMAIN k = Fields /\ k.op = op /\ k.path = path /\ k.at = "publish"
      /\ k.row = {} /\ k.read = {} /\ k.tables = {g}
  BY DEF Call, Fields
<1>4. call' = [call EXCEPT ![c] = k]
  BY <1>2
<1> HIDE DEF k
<1>5. Fine(k)
  BY <1>2, <1>3 DEF Fine, ReadSound, WriteSound, One
<1> QED
  BY <1>1, <1>3, <1>4, <1>5, OneCall

\* The steps of a write before its transaction.
LEMMA WriteKeeps ==
    ASSUME IInv, NEW c \in Client, NEW ops \in Batches, Write(c, ops)
    PROVE  IInv'
<1>1. PICK from, proposed :
        call' = [call EXCEPT ![c] = [Call("write", call[c].path, "project") EXCEPT !.base = {from}, !.ops = ops, !.proposed = {proposed}]]
  BY DEF Write, Go
<1> DEFINE k == [Call("write", call[c].path, "project") EXCEPT !.base = {from}, !.ops = ops, !.proposed = {proposed}]
<1>2. /\ DOMAIN k = Fields /\ k.op = "write" /\ k.path = call[c].path /\ k.at = "project"
      /\ k.row = {} /\ k.read = {} /\ k.ops = ops
  BY DEF Call, Fields
<1>3. call' = [call EXCEPT ![c] = k]
  BY <1>1
<1> HIDE DEF k
<1>4. call[c].path \in Path
  BY DEF IInv, CallsSound, Fine
<1>5. Fine(k)
  BY <1>2, <1>4, InputAssumption DEF Fine, ReadSound, WriteSound, One
<1> QED
  BY <1>2, <1>3, <1>5, OneCall DEF Write

LEMMA PreflightKeeps ==
    ASSUME IInv, NEW c \in Client, Preflight(c)
    PROVE  IInv'
<1>0. Fine(call[c]) /\ At(c, "preflight") /\ files' = files
  BY DEF IInv, CallsSound, Preflight
<1>1. PICK b, g :
        /\ b \in call[c].read /\ g \in ProjectGraph(b, call[c].ops) /\ IsValid(g) /\ call[c].proposed = {g} /\ call[c].read = call[c].base
  BY DEF Preflight
<1>2. call[c].base = {b} /\ IsGraph(b)
  <2>1. One(call[c].read) /\ Project(b)
    BY <1>0, <1>1 DEF Fine, ReadSound
  <2> QED
    BY <1>1, <2>1 DEF One, Project
<1> DEFINE k == [call[c] EXCEPT !.at = "ready", !.row = {}, !.read = {}]
<1>3. /\ DOMAIN k = Fields /\ k.op = call[c].op /\ k.path = call[c].path /\ k.at = "ready"
      /\ k.row = {} /\ k.read = {} /\ k.ops = call[c].ops /\ k.base = call[c].base /\ k.proposed = call[c].proposed
  BY <1>0 DEF Fine, Fields
<1>4. call' = [call EXCEPT ![c] = k]
  BY DEF Preflight, Go
<1> HIDE DEF k
<1>5. Proposes(k)
  BY <1>1, <1>2, <1>3 DEF Proposes
<1>6. Fine(k)
  BY <1>0, <1>3, <1>5 DEF Fine, ReadSound, WriteSound, One, At
<1> QED
  BY <1>0, <1>3, <1>4, <1>6, OneCall

\* The transaction begins on the base of the write, and no other is open.
LEMMA BeginKeeps ==
    ASSUME IInv, NEW c \in Client, Begin(c)
    PROVE  IInv'
<1>0. /\ Fine(call[c]) /\ At(c, "ready") /\ ~Writing(call[c].path) /\ files' = files
  BY DEF IInv, CallsSound, Begin
<1>1. PICK db \in files[call[c].path] :
        /\ call[c].base = {db.fingerprint}
        /\ call' = [call EXCEPT ![c] = [call[c] EXCEPT !.at = "begun", !.tables = {db.graph}]]
  BY DEF Begin, Go, Current
<1>2. call[c].base = {db.graph} /\ files[call[c].path] = {Db(db.graph)}
  <2>1. One(files[call[c].path]) /\ Sound(db)
    BY <1>0, <1>1 DEF IInv, FilesSound, Fine
  <2>2. db = Db(db.graph) /\ db.fingerprint = db.graph
    BY <2>1 DEF Sound, Db
  <2> QED
    BY <1>1, <2>1, <2>2 DEF One
<1> DEFINE k == [call[c] EXCEPT !.at = "begun", !.tables = {db.graph}]
<1>3. /\ DOMAIN k = Fields /\ k.op = call[c].op /\ k.path = call[c].path /\ k.at = "begun"
      /\ k.row = call[c].row /\ k.read = call[c].read /\ k.ops = call[c].ops /\ k.base = call[c].base
      /\ k.proposed = call[c].proposed /\ k.tables = {db.graph}
  BY <1>0 DEF Fine, Fields
<1>4. call' = [call EXCEPT ![c] = k]
  BY <1>1
<1> HIDE DEF k
<1>5. Proposes(k)
  BY <1>0, <1>3 DEF Fine, WriteSound, Proposes, At
<1>6. Fine(k)
  BY <1>0, <1>2, <1>3, <1>5 DEF Fine, ReadSound, WriteSound, At
<1>7. files[k.path] = {Db(b) : b \in k.base}
  BY <1>2, <1>3
<1>8. \A d \in Client : d # c /\ InTransaction(d) => call[d].path # k.path
  BY <1>0, <1>3 DEF Writing, InTransaction
<1> QED
  BY <1>0, <1>4, <1>6, <1>7, <1>8, OneCall

\* What the statements make is what was proposed.
LEMMA ExecuteKeeps ==
    ASSUME IInv, NEW c \in Client, Execute(c)
    PROVE  IInv'
<1>0. Fine(call[c]) /\ At(c, "begun") /\ files' = files
  BY DEF IInv, CallsSound, Execute
<1>1. PICK b \in call[c].base, g \in call[c].proposed :
        /\ call[c].base = {b} /\ call[c].proposed = {g}
        /\ IsGraph(b) /\ g \in ProjectGraph(b, call[c].ops) /\ IsValid(g)
  BY <1>0 DEF Fine, WriteSound, Proposes, At
<1>2. IsManifest(call[c].ops) /\ call[c].tables = call[c].base
  BY <1>0 DEF Fine, WriteSound, At
<1>3. Executed(b, ToSet(call[c].ops)) = {g}
  BY <1>1, <1>2, TransactionIsExact
<1> DEFINE k == [call[c] EXCEPT !.at = "executed", !.tables = {g}]
<1>4. /\ DOMAIN k = Fields /\ k.op = call[c].op /\ k.path = call[c].path /\ k.at = "executed"
      /\ k.row = call[c].row /\ k.read = call[c].read /\ k.ops = call[c].ops /\ k.base = call[c].base
      /\ k.proposed = call[c].proposed /\ k.tables = {g}
  BY <1>0 DEF Fine, Fields
<1>5. call' = [call EXCEPT ![c] = k]
  BY <1>1, <1>2, <1>3 DEF Execute, Go
<1> HIDE DEF k
<1>6. Proposes(k)
  BY <1>1, <1>4 DEF Proposes
<1>7. Fine(k)
  BY <1>0, <1>1, <1>4, <1>6 DEF Fine, ReadSound, WriteSound, At
<1>8. files[k.path] = {Db(x) : x \in k.base}
  BY <1>0, <1>4 DEF IInv, Isolated, InTransaction, At
<1>9. \A d \in Client : d # c /\ InTransaction(d) => call[d].path # k.path
  BY <1>0, <1>4 DEF IInv, Isolated, InTransaction, At
<1> QED
  BY <1>0, <1>5, <1>7, <1>8, <1>9, OneCall

\* A commit replaces the base of the write by the graph that was proposed.
LEMMA CommitReplaces ==
    ASSUME IInv, NEW c \in Client, Commit(c)
    PROVE  \E b, g : /\ call[c].base = {b} /\ call[c].proposed = {g} /\ Project(g)
                     /\ files[call[c].path] = {Db(b)} /\ files' = [files EXCEPT ![call[c].path] = {Db(g)}]
<1>0. Fine(call[c]) /\ At(c, "executed")
  BY DEF IInv, CallsSound, Commit
<1>1. PICK b \in call[c].base, g \in call[c].proposed :
        /\ call[c].base = {b} /\ call[c].proposed = {g}
        /\ IsGraph(b) /\ g \in ProjectGraph(b, call[c].ops) /\ IsValid(g)
  BY <1>0 DEF Fine, WriteSound, Proposes, At
<1>2. IsManifest(call[c].ops) /\ call[c].tables = call[c].proposed
  BY <1>0 DEF Fine, WriteSound, At
<1>3. Project(g)
  BY <1>1, <1>2, TransactionIsExact DEF Project
<1>4. files' = [files EXCEPT ![call[c].path] = {Db(g)}]
  BY <1>1, <1>2 DEF Commit, Db
<1>5. files[call[c].path] = {Db(b)}
  BY <1>0, <1>1 DEF IInv, Isolated, InTransaction, At
<1> QED
  BY <1>1, <1>3, <1>4, <1>5

LEMMA CommitKeeps ==
    ASSUME IInv, NEW c \in Client, Commit(c)
    PROVE  IInv'
<1>1. PICK b, g : /\ call[c].base = {b} /\ call[c].proposed = {g} /\ Project(g)
                  /\ files[call[c].path] = {Db(b)} /\ files' = [files EXCEPT ![call[c].path] = {Db(g)}]
  BY CommitReplaces
<1>2. Sound(Db(g))
  BY <1>1 DEF Sound, Db
<1>3. FilesSound'
  BY <1>1, <1>2 DEF IInv, FilesSound, One
<1>4. PICK k : Fine(k) /\ k.at \notin {"begun", "executed"} /\ call' = [call EXCEPT ![c] = k]
  <2>1. call[c].path \in Path
    BY DEF IInv, CallsSound, Fine
  <2> QED
    BY <2>1, NewCall DEF Commit, Go
<1>5. call' = [d \in Client |-> call'[d]] /\ call'[c] = k /\ \A d \in Client : d # c => call'[d] = call[d]
  BY <1>4 DEF IInv, CallsSound
<1>6. CallsSound'
  BY <1>4, <1>5 DEF IInv, CallsSound
<1>7. InTransaction(c)
  BY DEF Commit, At, InTransaction
<1>8. ASSUME NEW d \in Client, InTransaction(d)'
      PROVE  /\ d # c /\ call'[d] = call[d] /\ InTransaction(d) /\ call[d].path # call[c].path
             /\ files'[call[d].path] = files[call[d].path]
  <2>1. d # c /\ call'[d] = call[d] /\ InTransaction(d)
    BY <1>4, <1>5, <1>8 DEF InTransaction
  <2>2. call[d].path # call[c].path
    BY <1>7, <2>1 DEF IInv, Isolated
  <2>3. call[d].path \in Path
    BY DEF IInv, CallsSound, Fine
  <2> QED
    BY <1>1, <2>1, <2>2, <2>3 DEF IInv, FilesSound
<1>9. Isolated'
  BY <1>8 DEF IInv, Isolated
<1> QED
  BY <1>3, <1>6, <1>9 DEF IInv

\* A new database goes where there is none.
LEMMA PublishKeeps ==
    ASSUME IInv, NEW c \in Client, Publish(c)
    PROVE  IInv'
<1>1. PICK g \in call[c].tables : files' = [files EXCEPT ![call[c].path] = Published(@, Db(g))]
  BY DEF Publish
<1>2. call[c].path \in Path /\ Sound(Db(g)) /\ ~InTransaction(c)
  <2>1. Fine(call[c]) /\ At(c, "publish")
    BY DEF IInv, CallsSound, Publish
  <2>2. Project(g)
    BY <1>1, <2>1 DEF Fine, WriteSound, At
  <2> QED
    BY <2>1, <2>2 DEF Fine, Sound, Db, InTransaction, At
<1>3. /\ files' = [path \in Path |-> files'[path]]
      /\ \A path \in Path : files[path] # {} => files'[path] = files[path]
      /\ \A path \in Path : files'[path] = files[path] \/ files'[path] = {Db(g)}
  BY <1>1, <1>2 DEF IInv, FilesSound, Published
<1>4. FilesSound'
  BY <1>2, <1>3 DEF IInv, FilesSound, One
<1>5. PICK k : Fine(k) /\ k.at \notin {"begun", "executed"} /\ call' = [call EXCEPT ![c] = k]
  <2>1. \/ call' = [call EXCEPT ![c] = Call("copied", call[c].path, "project")]
        \/ call' = [call EXCEPT ![c] = Call("none", Start.path, "idle")]
    BY DEF Publish, Go, Idle
  <2>2. Fine(Call("copied", call[c].path, "project")) /\ Call("copied", call[c].path, "project").at \notin {"begun", "executed"}
    BY <1>2, NewCall
  <2>3. Fine(Call("none", Start.path, "idle")) /\ Call("none", Start.path, "idle").at \notin {"begun", "executed"}
    BY NewCall, StartAssumption
  <2> QED
    BY <2>1, <2>2, <2>3
<1>6. call' = [d \in Client |-> call'[d]] /\ call'[c] = k /\ \A d \in Client : d # c => call'[d] = call[d]
  BY <1>5 DEF IInv, CallsSound
<1>7. CallsSound'
  BY <1>5, <1>6 DEF IInv, CallsSound
<1>8. ASSUME NEW d \in Client, InTransaction(d)'
      PROVE  /\ d # c /\ call'[d] = call[d] /\ InTransaction(d)
             /\ files'[call[d].path] = files[call[d].path]
  <2>1. d # c /\ call'[d] = call[d] /\ InTransaction(d)
    BY <1>5, <1>6, <1>8 DEF InTransaction
  <2>2. call[d].path \in Path /\ Fine(call[d])
    BY DEF IInv, CallsSound, Fine
  <2>3. call[d].base # {}
    BY <2>1, <2>2 DEF Fine, WriteSound, Proposes, InTransaction
  <2>4. files[call[d].path] # {}
    BY <2>1, <2>3 DEF IInv, Isolated
  <2> QED
    BY <1>3, <2>1, <2>2, <2>4
<1>9. Isolated'
  BY <1>8 DEF IInv, Isolated
<1> QED
  BY <1>4, <1>7, <1>9 DEF IInv

LEMMA StepKeeps == IInv /\ [Next]_vars => IInv'
<1> SUFFICES ASSUME IInv, [Next]_vars PROVE IInv'
  OBVIOUS
<1>1. CASE UNCHANGED vars
  BY <1>1 DEF IInv, FilesSound, CallsSound, Isolated, InTransaction, vars
<1>2. ASSUME NEW c \in Client, LoadProject(c) \/ LoadNodes(c) \/ LoadEdges(c) PROVE IInv'
  BY <1>2, LoadKeeps
<1>3. ASSUME NEW c \in Client, NEW path \in Path, Load(c, path) \/ Backup(c, path) PROVE IInv'
  BY <1>3, CallKeeps
<1>4. ASSUME NEW c \in Client, Abandon(c) PROVE IInv'
  BY <1>4, CallKeeps, StartAssumption
<1>5. ASSUME NEW c \in Client, NEW path \in Path, Copy(c, path) \/ \E g \in New : Initialize(c, path, g) PROVE IInv'
  BY <1>5, CreateKeeps
<1>6. ASSUME NEW c \in Client, NEW ops \in Batches, Write(c, ops) PROVE IInv'
  BY <1>6, WriteKeeps
<1>7. ASSUME NEW c \in Client, Preflight(c) \/ Begin(c) \/ Execute(c) PROVE IInv'
  BY <1>7, PreflightKeeps, BeginKeeps, ExecuteKeeps
<1>8. ASSUME NEW c \in Client, Commit(c) \/ Publish(c) PROVE IInv'
  BY <1>8, CommitKeeps, PublishKeeps
<1> QED
  BY <1>1, <1>2, <1>3, <1>4, <1>5, <1>6, <1>7, <1>8 DEF Next

LEMMA Invariant == Spec => []IInv
BY InitHolds, StepKeeps, PTL DEF Spec

-----------------------------------------------------------------------------
(* The results. *)

\* However many clients load, write, copy and give up at once, every database that is committed
\* or published holds a valid graph and its fingerprint.
THEOREM StoredIsAlwaysSound == Spec => []StoredIsSound
<1>1. IInv => StoredIsSound
  BY DEF IInv, FilesSound, Sound, Project, Db, StoredIsSound
<1> QED
  BY <1>1, Invariant, PTL

\* A load returns what the database held when it read the project row, although others commit
\* between its statements.
THEOREM LoadsAreAlwaysWhole == Spec => []LoadsAreWhole
<1>1. IInv => LoadsAreWhole
  BY DEF IInv, CallsSound, Fine, ReadSound, LoadsAreWhole
<1> QED
  BY <1>1, Invariant, PTL

\* A write that passed its checks is never refused by a constraint of the schema.
THEOREM LegalBatchesAlwaysApply == Spec => []LegalBatchesApply
<1>1. IInv => LegalBatchesApply
  <2> SUFFICES ASSUME IInv, NEW c \in Client, At(c, "executed") PROVE call[c].tables # {}
    BY DEF LegalBatchesApply
  <2> QED
    BY DEF IInv, CallsSound, Fine, WriteSound, Proposes, At
<1> QED
  BY <1>1, Invariant, PTL

\* A database changes only by a commit, from the base of the write to what it proposed.
LEMMA StepReplaces ==
    ASSUME IInv, [Next]_vars, NEW path \in Path, NEW db \in files[path], files'[path] # {db}
    PROVE  \E c \in Client : /\ At(c, "executed") /\ call[c].path = path
                             /\ call[c].base = {db.graph} /\ files'[path] = {Db(g) : g \in call[c].proposed}
<1>0. files[path] = {db}
  BY DEF IInv, FilesSound, One
<1>1. PICK c \in Client : Commit(c) \/ Publish(c)
  <2>1. files' # files
    BY <1>0
  <2> QED
    BY <2>1 DEF Next, vars, LoadProject, LoadNodes, LoadEdges, Load, Backup, Copy, Initialize, Write, Preflight,
                Begin, Execute, Abandon
<1>2. ~Publish(c)
  BY <1>0 DEF Publish, Published, IInv, FilesSound
<1>3. PICK b, g : /\ call[c].base = {b} /\ call[c].proposed = {g}
                  /\ files[call[c].path] = {Db(b)} /\ files' = [files EXCEPT ![call[c].path] = {Db(g)}]
  BY <1>1, <1>2, CommitReplaces
<1>4. call[c].path = path
  BY <1>0, <1>3 DEF IInv, FilesSound
<1>5. db.graph = b /\ files'[path] = {Db(g)}
  BY <1>0, <1>3, <1>4 DEF IInv, FilesSound, Db
<1>6. At(c, "executed")
  BY <1>1, <1>2 DEF Commit
<1> QED
  BY <1>3, <1>4, <1>5, <1>6

THEOREM CommitsAlwaysReplaceTheirBase == Spec => CommitsReplaceTheirBase
<1>1. IInv /\ [Next]_vars =>
        [\A path \in Path : \A db \in files[path] : files'[path] # {db} =>
          \E c \in Client : /\ At(c, "executed") /\ call[c].path = path
                            /\ call[c].base = {db.graph} /\ files'[path] = {Db(g) : g \in call[c].proposed}]_vars
  BY StepReplaces
<1> QED
  BY <1>1, Invariant, PTL DEF Spec, CommitsReplaceTheirBase

=============================================================================
