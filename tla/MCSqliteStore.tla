---------------------------- MODULE MCSqliteStore ----------------------------
(***************************************************************************)
(* Two clients of one database and of a path that has none yet.  The       *)
(* purpose is 1, other nodes are 2 to 4, edges 11 to 14.                   *)
(***************************************************************************)
EXTENDS SqliteStore, TLC

Scope(s, t) == [source |-> s, target |-> t, relationship |-> "scope-parent", direction |-> "none"]
Needs(s, t) == [source |-> s, target |-> t, relationship |-> "requires", direction |-> "both"]
Graph(nodes, edges) == [purpose |-> 1, nodes |-> nodes, edges |-> edges]

MCStart == [path |-> "db", graph |-> Graph(<<"a", "a", "a">>, 11 :> Scope(2, 1) @@ 12 :> Scope(3, 1))]
\* The second is not valid.
MCNew == {Graph(<<"a", "a">>, 11 :> Scope(2, 1)), Graph(<<"a", "a", "a">>, 11 :> Scope(2, 1))}

Op(kind, entity, id, value) == [kind |-> kind, entity |-> entity, id |-> id, value |-> value]
\* The scopes of two nodes are exchanged; edges come before the node they need, which a rule may
\* refuse; a node goes with its edge, or alone.
MCBatches == {
    <<Op("replace", "edges", 11, Scope(3, 1)), Op("replace", "edges", 12, Scope(2, 1))>>,
    <<Op("add", "edges", 13, Scope(4, 2)), Op("add", "edges", 14, Needs(4, 2)), Op("add", "nodes", 4, "a")>>,
    <<Op("remove", "nodes", 3, "a"), Op("remove", "edges", 12, Scope(3, 1))>>,
    <<Op("replace", "nodes", 2, "bad")>>, <<Op("remove", "nodes", 2, "a")>> }
MCSatisfies(g) == \A n \in NodesOf(g) : g.nodes[n] # "bad"
MCSymmetry == Permutations(Client)
==============================================================================
