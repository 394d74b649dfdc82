----------------------------- MODULE SqliteStore -----------------------------
(***************************************************************************)
(* Calls of ProjectStore (storage.py) on databases that others use at the  *)
(* same time.  A database holds the graph, as rows that SQLite's           *)
(* constraints guard, and a fingerprint: the graph it is the fingerprint   *)
(* of.  SQLite is taken at its word: a statement sees one committed state, *)
(* one connection at a time may write, a commit happens or does not, and a *)
(* transaction that is not committed leaves nothing, also in a crash.      *)
(* A load is several statements that share no transaction.                 *)
(***************************************************************************)
EXTENDS ReviewGraph

CONSTANTS
    Client, Path,
    Start,           \* the path and the graph of the one database there is
    New,             \* graphs that are given to initialize, valid or not
    Batches,         \* sequences of operations that are given to write
    Satisfies(_)     \* evaluate_rules, of a valid graph

\* One database to begin with, valid; what write and initialize are given has the shape that
\* models.py gives a batch and a graph.
ASSUME StartAssumption == Start.path \in Path /\ IsGraph(Start.graph) /\ IsValid(Start.graph)
ASSUME InputAssumption == (\A g \in New : IsGraph(g)) /\ (\A ops \in Batches : IsManifest(ops))

VARIABLES
    files,           \* the committed database of each path, if there is one
    call             \* what each client is doing

vars == <<files, call>>

\* The fields after path hold one value or none: what a write is proposed from and what it
\* proposes; what a load has read, and then what it returns; the rows of a transaction or a new file.
Call(op, path, at) == [op |-> op, at |-> at, path |-> path, ops |-> <<>>, base |-> {}, proposed |-> {},
                       row |-> {}, nodes |-> {}, read |-> {}, tables |-> {}]
Idle  == Call("none", Start.path, "idle")
Db(g) == [graph |-> g, fingerprint |-> g]

Init == /\ files = [p \in Path |-> IF p = Start.path THEN {Db(Start.graph)} ELSE {}]
        /\ call = [c \in Client |-> Idle]

At(c, step)   == call[c].at = step
Go(c, next)   == call' = [call EXCEPT ![c] = next]
Writing(path) == \E c \in Client : call[c].at \in {"begun", "executed"} /\ call[c].path = path

-----------------------------------------------------------------------------
(* Load: the project row, the nodes, the edges. *)

\* What a call goes on with once it has loaded: a client holds what it is given.
After(op) == CASE op = "write" -> "preflight" [] op = "backup" -> "copy" [] OTHER -> "holds"

LoadProject(c) ==
    /\ At(c, "project")
    /\ \E db \in files[call[c].path] : Go(c, [call[c] EXCEPT !.at = "nodes", !.row = {db}])
    /\ UNCHANGED files

LoadNodes(c) ==
    /\ At(c, "nodes")
    /\ \E db \in files[call[c].path] : Go(c, [call[c] EXCEPT !.at = "edges", !.nodes = {db.graph.nodes}])
    /\ UNCHANGED files

\* Mutant: the rows need only make a valid graph.
ValidRows(row, graph) == IsValid(graph)
Verified(row, graph)  == IsValid(graph) /\ row.fingerprint = graph

LoadEdges(c) ==
    /\ At(c, "edges")
    /\ \E db \in files[call[c].path], row \in call[c].row, nodes \in call[c].nodes :
         LET graph == [row.graph EXCEPT !.nodes = nodes, !.edges = db.graph.edges]
         IN  /\ Verified(row, graph)
             /\ Go(c, [call[c] EXCEPT !.at = After(call[c].op), !.nodes = {}, !.read = {graph}])
    /\ UNCHANGED files

-----------------------------------------------------------------------------
(* The statements of a transaction, loop by loop.  The entities of a batch  *)
(* are distinct, so the statements of one loop do not meet each other but  *)
(* in the unique index.  A loop takes the rows and the batch, and gives    *)
(* nothing when a constraint refuses one of its statements.                *)

Without(f, ids) == [k \in DOMAIN f \ ids |-> f[k]]
With(f, ops)    == [k \in DOMAIN f \cup {op.id : op \in ops} |->
                      IF \E op \in ops : op.id = k THEN (CHOOSE op \in ops : op.id = k).value ELSE f[k]]

DeleteEdges(g, ops) ==
    {[g EXCEPT !.edges = Without(@, {op.id : op \in {o \in ops : o.entity = "edges" /\ o.kind # "add"}})]}

\* The foreign keys of edges and of the project, ON DELETE RESTRICT.
DeleteNodes(g, ops) ==
    LET gone == {op.id : op \in {o \in ops : o.entity = "nodes" /\ o.kind = "remove"}}
        held == {g.purpose} \cup UNION {{g.edges[e].source, g.edges[e].target} : e \in EdgesOf(g)}
    IN  IF gone \cap held # {} THEN {} ELSE {[g EXCEPT !.nodes = Without(@, gone)]}

\* The primary key of nodes; an update may find no row.
WriteNodes(g, ops) ==
    LET written == {o \in ops : o.entity = "nodes" /\ o.kind # "remove"}
    IN  IF \E op \in written : op.kind = "add" /\ op.id \in NodesOf(g) THEN {}
        ELSE {[g EXCEPT !.nodes = With(@, {op \in written : op.kind = "add" \/ op.id \in NodesOf(g)})]}

\* The primary key of edges, the foreign keys, and ux_edges_scope_parent.
InsertEdges(g, ops) ==
    LET written == {o \in ops : o.entity = "edges" /\ o.kind # "remove"}
        h == [g EXCEPT !.edges = With(@, written)]
        Refused(op) == \/ op.id \in EdgesOf(g)
                       \/ ~ {op.value.source, op.value.target} \subseteq NodesOf(g)
                       \/ op.value.relationship = "scope-parent" /\ Cardinality(ScopeParents(h, op.value.source)) > 1
    IN  IF \E op \in written : Refused(op) THEN {} ELSE {h}

\* Mutant: nodes go before the edges at them.
NodesFirst(g, ops) ==
    LET gone == UNION {DeleteEdges(h, ops) : h \in DeleteNodes(g, ops)}
    IN  UNION {InsertEdges(h, ops) : h \in UNION {WriteNodes(k, ops) : k \in gone}}

Executed(g, ops) ==
    LET gone == UNION {DeleteNodes(h, ops) : h \in DeleteEdges(g, ops)}
    IN  UNION {InsertEdges(h, ops) : h \in UNION {WriteNodes(k, ops) : k \in gone}}

-----------------------------------------------------------------------------
(* The calls.  A client writes what it proposed from a graph it loaded. *)

Load(c, path) ==
    /\ At(c, "idle") /\ Go(c, Call("load", path, "project"))
    /\ UNCHANGED files

\* The proposed fingerprint may be another one.
Write(c, ops) ==
    /\ At(c, "holds")
    /\ \E from \in call[c].read : \E proposed \in ProjectGraph(from, ops) \cup {from} :
         Go(c, [Call("write", call[c].path, "project") EXCEPT !.base = {from}, !.ops = ops, !.proposed = {proposed}])
    /\ UNCHANGED files

Preflight(c) ==
    /\ At(c, "preflight") /\ call[c].read = call[c].base
    /\ \E from \in call[c].read : \E g \in ProjectGraph(from, call[c].ops) :
         IsValid(g) /\ Satisfies(g) /\ call[c].proposed = {g}
    /\ Go(c, [call[c] EXCEPT !.at = "ready", !.row = {}, !.read = {}])
    /\ UNCHANGED files

\* Mutant: the database is taken to be as it was before the transaction.
StillCurrent(db, base) == TRUE
Current(db, base) == base = {db.fingerprint}

\* BEGIN IMMEDIATE, and the load in the transaction.
Begin(c) ==
    /\ At(c, "ready") /\ ~Writing(call[c].path)
    /\ \E db \in files[call[c].path] :
         Current(db, call[c].base) /\ Go(c, [call[c] EXCEPT !.at = "begun", !.tables = {db.graph}])
    /\ UNCHANGED files

Execute(c) ==
    /\ At(c, "begun")
    /\ \E g \in call[c].tables : Go(c, [call[c] EXCEPT !.at = "executed", !.tables = Executed(g, ToSet(call[c].ops))])
    /\ UNCHANGED files

\* The commit, after which the database is loaded again.
Commit(c) ==
    /\ At(c, "executed")
    /\ \E g \in call[c].tables, expected \in call[c].proposed :
         files' = [files EXCEPT ![call[c].path] = {[graph |-> g, fingerprint |-> expected]}]
    /\ Go(c, Call("written", call[c].path, "project"))

Initialize(c, path, g) ==
    /\ At(c, "idle") /\ files[path] = {} /\ IsValid(g)
    /\ Go(c, [Call("initialize", path, "publish") EXCEPT !.tables = {g}])
    /\ UNCHANGED files

\* The path of the call is that of the source; a copy goes to a path of its own.
Backup(c, path) ==
    /\ At(c, "idle") /\ Go(c, Call("backup", path, "project"))
    /\ UNCHANGED files

\* Connection.backup copies one committed state, which is loaded and compared.
Copy(c, to) ==
    /\ At(c, "copy") /\ files[to] = {}
    /\ \E db \in files[call[c].path] :
         /\ call[c].read = {db.graph}
         /\ Go(c, [Call("copied", to, "publish") EXCEPT !.tables = {db.graph}])
    /\ UNCHANGED files

\* Mutant: what is there is replaced.
Replaced(db, new) == {new}
\* publish_new_file: a file that is there by now stays.
Published(db, new) == IF db = {} THEN {new} ELSE db

\* A new database is published under its name; a copy is loaded again.
Publish(c) ==
    /\ At(c, "publish")
    /\ \E g \in call[c].tables : files' = [files EXCEPT ![call[c].path] = Published(@, Db(g))]
    /\ Go(c, IF files[call[c].path] = {} /\ call[c].op = "copied" THEN Call("copied", call[c].path, "project") ELSE Idle)

\* A check or a statement fails, a lock is not given in time, or the client crashes: what is
\* not committed or published is gone.
Abandon(c) ==
    /\ ~At(c, "idle") /\ Go(c, Idle)
    /\ UNCHANGED files

Next == \E c \in Client :
    \/ \E path \in Path : Load(c, path) \/ Backup(c, path) \/ Copy(c, path)
    \/ \E path \in Path, g \in New : Initialize(c, path, g)
    \/ \E ops \in Batches : Write(c, ops)
    \/ LoadProject(c) \/ LoadNodes(c) \/ LoadEdges(c)
    \/ Preflight(c) \/ Begin(c) \/ Execute(c) \/ Commit(c)
    \/ Publish(c) \/ Abandon(c)

Spec == Init /\ [][Next]_vars

-----------------------------------------------------------------------------
(* Properties. *)

\* Every committed database holds a valid graph and its fingerprint, whoever wrote to it in
\* whatever order (write reloads under the lock; _load_connection refuses anything else).
StoredIsSound ==
    \A path \in Path : \A db \in files[path] : IsValid(db.graph) /\ db.fingerprint = db.graph

\* A database changes only from exactly the graph a write was proposed for to exactly the graph
\* that was proposed, and what initialize or backup finds there stays (write, _publish_no_overwrite).
CommitsReplaceTheirBase ==
    [][\A path \in Path : \A db \in files[path] : files'[path] # {db} =>
          \E c \in Client : /\ At(c, "executed") /\ call[c].path = path
                            /\ call[c].base = {db.graph} /\ files'[path] = {Db(g) : g \in call[c].proposed}]_vars

\* What a load returns is the graph the database held when it read the project row, never the
\* nodes of one commit with the edges of another: its statements share no transaction
\* (_load_connection).
LoadsAreWhole ==
    \A c \in Client : \A g \in call[c].read : \E db \in call[c].row : db.graph = g

\* No constraint refuses a statement of a batch that leads to a valid graph (the order in write).
LegalBatchesApply == \A c \in Client : At(c, "executed") => call[c].tables # {}
=============================================================================
