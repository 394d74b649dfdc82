------------------------------- MODULE MCGraphs -------------------------------
(***************************************************************************)
(* Every graph that a few patches make of a few base graphs, with all that *)
(* the pure parts of the program say of it: validation, impact and         *)
(* packets, bulk plans, reads and rules.                                   *)
(***************************************************************************)
EXTENDS GraphChanges, Rules, TLC

-----------------------------------------------------------------------------
(* The purpose is 1; 2, 3 and 4 are other nodes, 5 to 8 edges. *)

Claim(tags)  == [kind |-> "claim", tags |-> tags, name |-> "", expression |-> ""]
View(name, text) == [kind |-> "validation-view", tags |-> {}, name |-> name, expression |-> text]
Rule(text)   == [kind |-> "validation-rule", tags |-> {<<"rule", "active">>}, name |-> "", expression |-> text]
Edge(s, t, r, d)   == [source |-> s, target |-> t, relationship |-> r, direction |-> d, tags |-> {}]
ScopeEdge(s, t)    == Edge(s, t, "scope-parent", "none")
Requires(s, t, d)  == Edge(s, t, "requires", d)
Project(nodes, edges) == [purpose |-> 1, nodes |-> nodes, edges |-> edges]
Plain == Claim({})
Owned == Claim({<<"owner", "ann">>})

\* A chain of scopes, two branches of which one goes deeper, and a view with a rule that uses it.
Bases == {
    Project(<<Plain, Plain, Plain>>, 5 :> ScopeEdge(2, 1) @@ 6 :> ScopeEdge(3, 2) @@ 7 :> Requires(2, 3, "sourceToTarget")),
    Project(<<Plain, Plain, Plain, Plain>>, 5 :> ScopeEdge(2, 1) @@ 6 :> ScopeEdge(3, 1) @@ 8 :> ScopeEdge(4, 3) @@ 7 :> Requires(2, 3, "both")),
    Project(<<Plain, View("claims", "every claim"), Rule("some claim")>>, 5 :> ScopeEdge(2, 1) @@ 6 :> ScopeEdge(3, 1))}

Claims == [op |-> "nodes", filter |-> [kind |-> "claim"]]
Links  == [op |-> "edges", filter |-> [relationship |-> "requires"]]
Lines  == [op |-> "edges", filter |-> [relationship |-> "scope-parent", sourceIn |-> Claims]]
Owners == [op |-> "nodes", filter |-> [tagPrefix |-> "owner"]]
TheView == [op |-> "view", name |-> "claims"]
Above(n) == [op |-> "reachable", from |-> [op |-> "nodes", filter |-> [id |-> n]], edges |-> Lines,
             direction |-> "outgoing", includeStart |-> FALSE]
Conditions == {
    [op |-> "exists", set |-> Owners],
    [op |-> "count", set |-> Claims, compare |-> "gte", value |-> 3],
    [op |-> "subset", left |-> Above(2), right |-> Above(3)],
    [op |-> "equalSets", left |-> [op |-> "union", sets |-> <<Owners, Above(3)>>], right |-> Claims],
    [op |-> "all", set |-> [op |-> "except", sets |-> <<Claims, Above(2)>>], condition |-> [op |-> "hasTag", tag |-> <<"owner", "ann">>]],
    [op |-> "all", set |-> [op |-> "intersect", sets |-> <<Claims, Owners>>],
        condition |-> [op |-> "tagCount", prefix |-> "owner", compare |-> "lt", value |-> 2]],
    [op |-> "acyclic", nodes |-> Claims, edges |-> [op |-> "union", sets |-> <<Lines, Links>>]],
    [op |-> "singleChain", nodes |-> Claims, edges |-> Lines],
    [op |-> "tagSuffixMatch", left |-> Owners, leftPrefix |-> "owner", right |-> Owners, rightPrefix |-> "owner"]}
MCParsed == "every claim" :> Claims @@ "some claim" :> [op |-> "exists", set |-> TheView]
              @@ "one claim" :> [op |-> "count", set |-> TheView, compare |-> "eq", value |-> 1]
              @@ "its own claims" :> TheView @@ "other claims" :> [op |-> "union", sets |-> <<Claims, [op |-> "view", name |-> "others"]>>]

Removal(entity, id) == [kind |-> "remove", entity |-> entity, id |-> id, value |-> Plain]
Op(kind, entity, id, value) == [kind |-> kind, entity |-> entity, id |-> id, value |-> value]
Edits ==
    {Op("replace", "nodes", n, Owned) : n \in 1 .. 3} \cup {Op("add", "nodes", 4, Plain)}
        \cup {Removal("nodes", n) : n \in 2 .. 4} \cup {Removal("edges", e) : e \in 5 .. 8}
        \cup {Op("replace", "edges", 6, ScopeEdge(3, t)) : t \in 1 .. 3}
        \cup {Op("replace", "edges", 5, ScopeEdge(2, 3)), Op("add", "edges", 8, Requires(3, 4, "targetToSource"))}
        \cup {Op("add", "edges", 8, ScopeEdge(4, t)) : t \in {1, 3}}
        \cup {Op("replace", "edges", 7, Requires(3, 2, "sourceToTarget")), Op("add", "edges", 7, Requires(3, 2, "sourceToTarget"))}
        \cup {Op("add", "nodes", 4, View(name, "its own claims")) : name \in {"claims", "others"}}
        \cup {Op("replace", "nodes", 2, View("claims", text)) : text \in {"its own claims", "other claims"}}
        \cup { Op("replace", "nodes", 3, Rule("one claim")), Op("replace", "nodes", 3, Rule("nonsense"))}
        \cup {Op("add", "edges", 2, ScopeEdge(4, 1)), Removal("nodes", 7)}     \* of the wrong kind
TheirEdits == {op \in Edits : op.entity = "edges" \/ op.value \in {Plain, Owned}}

-----------------------------------------------------------------------------
(* Properties. *)

\* A condition that holds names no offender, however it is negated or combined; one that fails
\* names only entities of the graph, and a set comparison that fails names one (_evaluate_bool).
VerdictsAreExplained ==
    NotMerging /\ OfKind(proposed, "claim") = NodesOf(proposed) =>
        LET Answer(e) == Evaluate(proposed, <<>>, e)
            Not(e) == [op |-> "not", part |-> e]
            Both(op, d, e) == [op |-> op, parts |-> <<d, e>>]
        IN  \A e \in Conditions : \A answer \in {Answer(e)} :
              /\ answer.passed \/ answer.offenders # {} \/ e.op \notin {"subset", "equalSets", "all", "acyclic"}
              /\ \A d \in {c \in Conditions : c.op \in {"exists", "subset", "acyclic"}} :
                    /\ \A x \in {e, Not(e), Both("and", d, e), Both("or", d, e)} : \A verdict \in {Answer(x)} :
                          /\ verdict.passed => verdict.offenders = {}
                          /\ verdict.offenders \subseteq NodesOf(proposed) \cup EdgesOf(proposed)
                    /\ Answer(Not(Both("and", d, e))).passed <=> Answer(Both("or", Not(d), Not(e))).passed

\* The rules of a graph have no verdict exactly when a text is malformed, a name is taken
\* twice, or the views cannot be put in an order in which each uses only earlier ones; a rule
\* is never passed, or failed, on such views (_read_views, _validate_view_references).
InconclusiveWhenUndefined ==
    LET views == OfKind(proposed, "validation-view")
        Text(n) == proposed.nodes[n].expression
        Name(v) == proposed.nodes[v].name
    IN  EvaluateRules(proposed).status = "inconclusive" <=>
          \/ \E n \in ActiveRules(proposed) \cup views : Text(n) \notin DOMAIN Parsed
          \/ ~\E order \in SetToSeqs(views) : \A i \in DOMAIN order :
                \A name \in References(Parsed[Text(order[i])]) \cup {Name(order[i])} :
                    {j \in DOMAIN order : Name(order[j]) = name} \in {{k} : k \in 1 .. i}
                    /\ (name = Name(order[i]) => name \notin References(Parsed[Text(order[i])]))
=============================================================================
