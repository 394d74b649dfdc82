-------------------------------- MODULE Rules --------------------------------
(***************************************************************************)
(* The rule language: rules and views stored as nodes, evaluated against a *)
(* whole graph (rules.py).                                                 *)
(*                                                                         *)
(* Here a node is [kind, tags, name, expression] and an edge has tags too. *)
(* A tag is <<prefix, rest>>.  An expression is stored as text; Parsed     *)
(* maps the well-formed texts to what they say, so a text outside its      *)
(* domain is malformed, of another version, or not of the language.        *)
(* Attribute selectors are left out.                                       *)
(***************************************************************************)
EXTENDS Conditions

CONSTANT Parsed          \* [texts -> set and Boolean expressions]

\* What a set expression may select.
Items(g) == ({"nodes"} \X NodesOf(g)) \cup ({"edges"} \X EdgesOf(g))
Ids(selection) == {item[2] : item \in selection}

OfKind(g, kind) == {n \in NodesOf(g) : g.nodes[n].kind = kind}
ActiveRules(g)  == {n \in OfKind(g, "validation-rule") : <<"rule", "active">> \in g.nodes[n].tags}

\* Mutant: of two views with one name, either is used.
ReadViewsAny(g) ==
    LET views == OfKind(g, "validation-view")
        Name(v) == g.nodes[v].name
    IN  IF \E v \in views : g.nodes[v].expression \notin DOMAIN Parsed THEN {}
        ELSE {[name \in {Name(v) : v \in views} |->
                  Parsed[g.nodes[CHOOSE v \in views : Name(v) = name].expression]]}

\* _read_views: the views by name, unless one is malformed or two share a name.
ReadViews(g) ==
    LET views == OfKind(g, "validation-view")
        Name(v) == g.nodes[v].name
    IN  IF \/ \E v \in views : g.nodes[v].expression \notin DOMAIN Parsed
           \/ \E v, w \in views : v # w /\ Name(v) = Name(w)
        THEN {}
        ELSE {[name \in {Name(v) : v \in views} |->
                  Parsed[g.nodes[CHOOSE v \in views : Name(v) = name].expression]]}

\* The views a set expression names.
RECURSIVE References(_)
References(e) ==
    CASE e.op = "view" -> {e.name}
      [] e.op \in {"union", "intersect", "except"} -> UNION {References(e.sets[i]) : i \in DOMAIN e.sets}
      [] e.op = "reachable" -> References(e.from) \cup References(e.edges)
      [] e.op \in {"nodes", "edges"} ->
            UNION {References(e.filter[k]) : k \in {"sourceIn", "targetIn"} \cap DOMAIN e.filter}

\* _validate_view_references: every view named by a view exists, and none names itself in the end.
ViewsWellFounded(views) ==
    LET Named(names) == UNION {References(views[n]) : n \in names}
        below[k \in Nat, names \in SUBSET DOMAIN views] ==
            IF k = 0 THEN names ELSE names \cup below[k - 1, Named(names)]
        Below(n) == below[Cardinality(DOMAIN views), References(views[n])]
    IN  /\ Named(DOMAIN views) \subseteq DOMAIN views
        /\ \A n \in DOMAIN views : n \notin Below(n)

\* _select, with _matches.  views[name] is undefined for a view that does not exist.
RECURSIVE Select(_, _, _)
Matches(g, views, item, f) ==
    LET record == g[item[1]][item[2]]
        Is(field) == field \in DOMAIN f
    IN  /\ Is("id") => item[2] = f.id
        /\ Is("kind") => item[1] = "nodes" /\ record.kind = f.kind
        /\ Is("relationship") => item[1] = "edges" /\ record.relationship = f.relationship
        /\ Is("tagPrefix") => \E t \in record.tags : t[1] = f.tagPrefix
        /\ Is("tagsAll") => f.tagsAll \subseteq record.tags
        /\ Is("sourceIn") => item[1] = "edges" /\ record.source \in Ids(Select(g, views, f.sourceIn))
        /\ Is("targetIn") => item[1] = "edges" /\ record.target \in Ids(Select(g, views, f.targetIn))

Select(g, views, e) ==
    CASE e.op = "view" -> Select(g, views, views[e.name])
      [] e.op \in {"nodes", "edges"} ->
            {item \in Items(g) : item[1] = e.op /\ Matches(g, views, item, e.filter)}
      [] e.op = "reachable" ->
            Reachable(g, Select(g, views, e.from), Select(g, views, e.edges), e.direction, e.includeStart)
      [] OTHER ->
            LET Sets(i) == Select(g, views, e.sets[i])
                Rest == 2 .. Len(e.sets)
            IN  CASE e.op = "union" -> UNION {Sets(i) : i \in DOMAIN e.sets}
                  [] e.op = "intersect" -> {x \in Sets(1) : \A i \in Rest : x \in Sets(i)}
                  [] e.op = "except" -> Sets(1) \ UNION {Sets(i) : i \in Rest}

Compare(actual, operator, expected) ==
    CASE operator = "eq" -> actual = expected [] operator = "ne"  -> actual # expected
      [] operator = "lt" -> actual < expected [] operator = "lte" -> actual <= expected
      [] operator = "gt" -> actual > expected [] operator = "gte" -> actual >= expected

Tagged(g, selection, prefix) ==
    {<<item, t>> : <<item, t>> \in {p \in selection \X UNION {g[x[1]][x[2]].tags : x \in selection} :
                                        p[2] \in g[p[1][1]][p[1][2]].tags /\ p[2][1] = prefix}}

Condition(g, c, item) ==
    IF c.op = "hasTag" THEN c.tag \in g[item[1]][item[2]].tags
    ELSE Compare(Cardinality(Tagged(g, {item}, c.prefix)), c.compare, c.value)

\* Mutant: the offenders of failed parts are named whatever the answer.
CombinedAll(op, parts) ==
    LET failed == {r \in parts : ~r.passed}
    IN  [passed |-> IF op = "and" THEN failed = {} ELSE failed # parts, offenders |-> UNION {r.offenders : r \in failed}]

\* Several answers combined: those that failed are held against a combination that fails.
Combined(op, parts) ==
    LET failed == {r \in parts : ~r.passed}
        passed == IF op = "and" THEN failed = {} ELSE failed # parts
    IN  [passed |-> passed, offenders |-> IF passed THEN {} ELSE UNION {r.offenders : r \in failed}]

\* _evaluate_bool: whether an expression holds, and the items held against it.
RECURSIVE Evaluate(_, _, _)
Evaluate(g, views, e) ==
    LET S(x) == Select(g, views, x)
        Answer(passed, offenders) == [passed |-> passed, offenders |-> IF passed THEN {} ELSE Ids(offenders)]
    IN  CASE e.op \in {"and", "or"} -> Combined(e.op, {Evaluate(g, views, e.parts[i]) : i \in DOMAIN e.parts})
          [] e.op = "not" -> LET r == Evaluate(g, views, e.part)
                             IN  [passed |-> ~r.passed, offenders |-> IF r.passed THEN r.offenders ELSE {}]
          [] e.op = "exists" -> [passed |-> S(e.set) # {}, offenders |-> {}]
          [] e.op = "count" -> Answer(Compare(Cardinality(S(e.set)), e.compare, e.value), S(e.set))
          [] e.op = "subset" -> Answer(S(e.left) \subseteq S(e.right), S(e.left) \ S(e.right))
          [] e.op = "equalSets" -> Answer(S(e.left) = S(e.right), (S(e.left) \ S(e.right)) \cup (S(e.right) \ S(e.left)))
          [] e.op = "all" -> LET bad == {x \in S(e.set) : ~Condition(g, e.condition, x)} IN Answer(bad = {}, bad)
          [] e.op = "acyclic" -> Answer(~HasCycle(g, S(e.nodes), S(e.edges)), S(e.nodes))
          [] e.op = "singleChain" -> Answer(SingleChain(g, S(e.nodes), S(e.edges)), S(e.nodes))
          [] e.op = "tagSuffixMatch" ->
                LET left  == Tagged(g, S(e.left), e.leftPrefix)
                    right == Tagged(g, S(e.right), e.rightPrefix)
                IN  Answer(/\ \A x \in {S(e.left), S(e.right), left, right} : Cardinality(x) = 1
                           /\ \A l \in left, r \in right : l[2][2] = r[2][2], S(e.left) \cup S(e.right))

\* The views a Boolean expression looks up (those in a sourceIn or targetIn only once an
\* edge has passed the rest of the selector; here always).
RECURSIVE Looked(_)
Looked(e) == CASE e.op \in {"and", "or"} -> UNION {Looked(e.parts[i]) : i \in DOMAIN e.parts}
               [] e.op = "not" -> Looked(e.part)
               [] OTHER -> UNION {References(e[k]) : k \in {"set", "left", "right", "nodes", "edges"} \cap DOMAIN e}

\* evaluate_rules.  A rule that names a view that does not exist is not answered: the
\* lookup raises KeyError, which evaluate_rules does not catch.
EvaluateRules(g) ==
    IF \/ \E r \in ActiveRules(g) : g.nodes[r].expression \notin DOMAIN Parsed
       \/ ~\E views \in ReadViews(g) : ViewsWellFounded(views)
    THEN [status |-> "inconclusive", failing |-> {}]
    ELSE LET views == CHOOSE v \in ReadViews(g) : TRUE
             Rule(r) == Parsed[g.nodes[r].expression]
             failing == {r \in ActiveRules(g) : ~Evaluate(g, views, Rule(r)).passed}
         IN  IF \E r \in ActiveRules(g) : ~(Looked(Rule(r)) \subseteq DOMAIN views) THEN [status |-> "raised", failing |-> {}]
             ELSE [status |-> IF failing = {} THEN "valid" ELSE "invalid", failing |-> failing]
=============================================================================
